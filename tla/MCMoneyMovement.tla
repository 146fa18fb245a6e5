-------------------------- MODULE MCMoneyMovement --------------------------
(* Small instances of MoneyMovement for TLC.                               *)
EXTENDS MoneyMovement, TLC

Symmetry == Permutations(Calls) \cup Permutations(ClientKeys)
=============================================================================
