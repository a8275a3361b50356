---------------------------- MODULE MCTransfer -----------------------------
(* Small instances of Transfer for TLC.  Broadcaster A asks 1 or 2 per unit *)
(* of gas, B asks 1, and C is cheap but not reliable; quotes outlast each   *)
(* other so that they rotate with and without a change of rate.             *)
EXTENDS Transfer

CONSTANTS A, B, C

MCBroadcasters == {A, B, C}

MCQuotes ==
  {[addr |-> A, rate |-> 1, expiry |-> 1, fit |-> TRUE],
   [addr |-> A, rate |-> 1, expiry |-> 2, fit |-> TRUE],
   [addr |-> A, rate |-> 2, expiry |-> 2, fit |-> TRUE],
   [addr |-> B, rate |-> 1, expiry |-> 2, fit |-> TRUE],
   [addr |-> C, rate |-> 1, expiry |-> 2, fit |-> FALSE]}

MCChanged ==
  {[FreshRequest EXCEPT !.pending = TRUE],
   [FreshRequest EXCEPT !.awaiting = FALSE],
   [FreshRequest EXCEPT !.genuine = FALSE]}
=============================================================================
