---------------------------- MODULE PaymentFeed -----------------------------
(***************************************************************************)
(* What the reconciler promises whoever reads its payment events: an       *)
(* intent is paid or unpaid, every change of mind is announced by exactly  *)
(* one event in the same atomic step, "payment.confirmed" when it becomes  *)
(* paid and "payment.reverted" when it stops being paid, and the events of *)
(* one intent carry increasing revisions.  Nothing is ever withdrawn.      *)
(***************************************************************************)
EXTENDS Integers

CONSTANTS Intents, Revisions

VARIABLES
  paidIntents,   \* the intents that are paid now
  feed           \* the confirmed and reverted events written so far

FeedInit == paidIntents = {} /\ feed = {}

\* A revision no event of i has reached yet.
Fresh(i, r) == \A e \in feed : e.intent = i => e.revision < r

Confirm(i, r) ==
  /\ i \notin paidIntents
  /\ Fresh(i, r)
  /\ paidIntents' = paidIntents \cup {i}
  /\ feed' = feed \cup {[type |-> "payment.confirmed", intent |-> i, revision |-> r]}

Revert(i, r) ==
  /\ i \in paidIntents
  /\ Fresh(i, r)
  /\ paidIntents' = paidIntents \ {i}
  /\ feed' = feed \cup {[type |-> "payment.reverted", intent |-> i, revision |-> r]}

FeedNext == \E i \in Intents, r \in Revisions : Confirm(i, r) \/ Revert(i, r)

FeedSpec == FeedInit /\ [][FeedNext]_<<paidIntents, feed>>
=============================================================================
