-------------------------- MODULE MCSessionHistory --------------------------
(* Small instances of SessionHistory for TLC: one account, two overlapping *)
(* requests.                                                               *)
EXTENDS SessionHistory, TLC

Symmetry == Permutations(Requests) \cup Permutations(Passwords)

-----------------------------------------------------------------------------
(* What the run of the races explores: all that two requests and the       *)
(* administrators can do to an account and two sessions while the          *)
(* inactivity limit is 1 and the clock at most 1; and what two requests    *)
(* can do to one session of an active user while the limit changes and the *)
(* clock goes on.                                                          *)

LimitIsOne ==
    /\ clock <= 1
    /\ policy.inactivity = 1
    /\ \A r \in Requests : loosest[r] <= 1 /\ req[r].inactivityTtl <= 1
    /\ \A s \in SessionIds : Exists(s) => sessions[s].expiresAt <= sessions[s].lastUsedAt + 1

OneSessionInUse ==
    /\ created <= 1
    /\ \A r \in Requests : req[r].kind = "login" => created = 0 \/ At(r, "sign")
    /\ \A u \in Users : users[u].status = "ACTIVE" /\ endedUpTo[u] = 0

Explored == LimitIsOne \/ OneSessionInUse
=============================================================================
