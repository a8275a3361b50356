-------------------------- MODULE MCReconciliation --------------------------
(* Small instances of Checkout, and Reconciliation below it, for TLC: one  *)
(* intent of two units, paid by notes of one unit each or overpaid with the *)
(* help of a note of two.                                                  *)
EXTENDS Checkout, TLC

CONSTANTS i1, n1, n2, n3

MCAmount    == [n \in Notes |-> IF n = n2 THEN 2 ELSE 1]
MCReference == [n \in Notes |-> i1]
MCPosition  == [n \in Notes |-> CASE n = n1 -> 1 [] n = n3 -> 2 [] n = n2 -> 3]
MCExpected  == i1 :> 2
MCExpiresAt == i1 :> 1
MCBlockTime == 1 :> 1 @@ 2 :> 2
=============================================================================
