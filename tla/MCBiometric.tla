----------------------------- MODULE MCBiometric -----------------------------
(* Small instances of Biometric for TLC.                                   *)
EXTENDS Biometric, TLC

Symmetry == Permutations(Requests) \cup Permutations(Users)
=============================================================================
