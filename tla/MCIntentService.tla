-------------------------- MODULE MCIntentService ---------------------------
(* A small instance of IntentService for TLC: two bodies that differ in the *)
(* blanks around the reference only, and a different one that expires later.*)
EXTENDS IntentService, TLC

CONSTANTS b1, b1blank, b2

MCFingerprint == b1 :> 1 @@ b1blank :> 1 @@ b2 :> 2
MCExpiresAt   == b1 :> 1 @@ b1blank :> 1 @@ b2 :> 2
CallSymmetry  == Permutations(Calls)
=============================================================================
