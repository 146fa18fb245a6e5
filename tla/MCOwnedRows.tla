---------------------------- MODULE MCOwnedRows ----------------------------
(* Small instances of OwnedRows for TLC.                                   *)
EXTENDS OwnedRows, TLC

\* One field at a time, filled or emptied
OneField == {[named |-> {f}, given |-> g] : f \in {"iban", "wiseTag"}, g \in {{}}}
              \cup {[named |-> {f}, given |-> {f}] : f \in {"iban", "beneficiaryName"}}

Symmetry == Permutations(Requests) \cup Permutations(Users)
=============================================================================
