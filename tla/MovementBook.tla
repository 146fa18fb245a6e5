---------------------------- MODULE MovementBook ----------------------------
(***************************************************************************)
(* What the app may rely on when it repeats a confirmed movement under one *)
(* Idempotency-Key: it is made at most once, and success is only reported  *)
(* of a movement that was made.                                            *)
(***************************************************************************)
EXTENDS Naturals

CONSTANT Intents

VARIABLES
    made,      \* made[i]: how often the movement was carried out
    reported   \* the intents somebody was told have succeeded

bvars == <<made, reported>>

BookInit ==
    /\ made = [i \in Intents |-> 0]
    /\ reported = {}

Make(i) ==
    /\ made[i] = 0
    /\ made' = [made EXCEPT ![i] = 1]
    /\ UNCHANGED reported

Report(i) ==
    /\ made[i] = 1
    /\ reported' = reported \cup {i}
    /\ UNCHANGED made

BookNext == \E i \in Intents : Make(i) \/ Report(i)

BookSpec == BookInit /\ [][BookNext]_bvars

-----------------------------------------------------------------------------
\* What a reader of the book may rely on.
BookPromise ==
    /\ \A i \in Intents : made[i] \in {0, 1}
    /\ \A i \in reported : i \in Intents /\ made[i] = 1
=============================================================================
