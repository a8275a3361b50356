------------------------------ MODULE MCPayer -------------------------------
(* Small instances of Payer for TLC: runs, intents and notes are            *)
(* interchangeable.                                                         *)
EXTENDS Payer, TLC

PayerSymmetry == Permutations(Runs) \cup Permutations(Intents) \cup Permutations(Notes)
=============================================================================
