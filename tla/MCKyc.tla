------------------------------- MODULE MCKyc -------------------------------
(* Small instances of Kyc for TLC.                                         *)
EXTENDS Kyc, TLC

Symmetry == Permutations(Requests) \cup Permutations(Users)
=============================================================================
