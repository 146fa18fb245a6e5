---------------------------- MODULE MCAggregates ----------------------------
(* Small instances of Aggregates for TLC: liveness, so no symmetry.        *)
EXTENDS Aggregates
=============================================================================
