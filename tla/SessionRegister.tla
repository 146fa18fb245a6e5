--------------------------- MODULE SessionRegister ---------------------------
(***************************************************************************)
(* What the sessions table is to the users and administrators, whatever    *)
(* requests overlap: a register in which a session is opened once, for one *)
(* account that exists, and is ended for good, alone or together with all  *)
(* the others of its account.  Refreshes, unlocks, guarded calls and the   *)
(* policy do not show in it.                                               *)
(***************************************************************************)
EXTENDS Naturals

CONSTANTS
    Accounts,
    Ids,      \* numbers of sessions, in the order they are opened
    None      \* no account

VARIABLES
    state,    \* state[s]: "none" before s is opened, "open", "ended" or "removed"
    owner,    \* owner[s]: the account s was opened for, while the register knows s
    deleted   \* accounts that are gone

rvars == <<state, owner, deleted>>

RegisterInit ==
    /\ state = [s \in Ids |-> "none"]
    /\ owner = [s \in Ids |-> None]
    /\ deleted = {}

Open(s, u) ==
    /\ state[s] = "none" /\ \A t \in Ids : t < s => state[t] # "none"
    /\ u \notin deleted
    /\ state' = [state EXCEPT ![s] = "open"]
    /\ owner' = [owner EXCEPT ![s] = u]
    /\ UNCHANGED deleted

End(s) ==
    /\ state[s] = "open"
    /\ state' = [state EXCEPT ![s] = "ended"]
    /\ UNCHANGED <<owner, deleted>>

\* All the open sessions of an account end at one instant.
EndAll(u) ==
    /\ state' = [s \in Ids |-> IF owner[s] = u /\ state[s] = "open" THEN "ended" ELSE state[s]]
    /\ UNCHANGED <<owner, deleted>>

Remove(u) ==
    /\ state' = [s \in Ids |-> IF owner[s] = u THEN "removed" ELSE state[s]]
    /\ owner' = [s \in Ids |-> IF owner[s] = u THEN None ELSE owner[s]]
    /\ deleted' = deleted \cup {u}

RegisterNext ==
    \/ \E s \in Ids : End(s) \/ \E u \in Accounts : Open(s, u)
    \/ \E u \in Accounts : EndAll(u) \/ Remove(u)

RegisterSpec == RegisterInit /\ [][RegisterNext]_rvars

-----------------------------------------------------------------------------
\* What a reader of the register may rely on: no session outlives its account, ...
NoOrphans ==
    \A s \in Ids : IF state[s] \in {"open", "ended"} THEN owner[s] \in Accounts \ deleted
                   ELSE owner[s] = None

\* ... and what has ended or is gone does not come back, nor change hands.
KeepsTheEnded ==
    \A s \in Ids :
        /\ state[s] = "removed" => state'[s] = "removed"
        /\ state[s] = "ended" => state'[s] \in {"ended", "removed"}
        /\ owner[s] # None => owner'[s] \in {owner[s], None}

EndIsFinal == [][KeepsTheEnded]_rvars
=============================================================================
