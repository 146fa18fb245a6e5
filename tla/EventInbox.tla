----------------------------- MODULE EventInbox -----------------------------
(***************************************************************************)
(* What the webhook endpoint promises about each provider event, however   *)
(* often, in whatever order and by however many overlapping requests it is *)
(* delivered: it is taken in once, its customer is told at most once and   *)
(* before the event is settled, and its verdict is final.  "processed" may *)
(* be in doubt first: whoever wrote it has not heard that it is written,   *)
(* and may still overrule it, but nobody else can.                         *)
(***************************************************************************)
EXTENDS Naturals

CONSTANT Events

VARIABLES
    status,     \* status[e]: new, accepted, doubted, processed or failed
    told        \* told[e]: notifications its customer was given

ivars == <<status, told>>

InboxInit ==
    /\ status = [e \in Events |-> "new"]
    /\ told = [e \in Events |-> 0]

\* The first genuine delivery is taken in; a first one that is not genuine settles the event.
Accept(e) ==
    /\ status[e] = "new"
    /\ status' = [status EXCEPT ![e] = "accepted"]
    /\ UNCHANGED told

Reject(e) ==
    /\ status[e] = "new"
    /\ status' = [status EXCEPT ![e] = "failed"]
    /\ UNCHANGED told

Tell(e) ==
    /\ status[e] = "accepted" /\ told[e] = 0
    /\ told' = [told EXCEPT ![e] = 1]
    /\ UNCHANGED status

Settle(e, verdict) ==
    /\ status[e] = "accepted"
    /\ status' = [status EXCEPT ![e] = verdict]
    /\ UNCHANGED told

\* The event is processed, and whoever settled it does not know.
Doubt(e) ==
    /\ status[e] = "accepted"
    /\ status' = [status EXCEPT ![e] = "doubted"]
    /\ UNCHANGED told

Overrule(e) ==
    /\ status[e] = "doubted"
    /\ status' = [status EXCEPT ![e] = "failed"]
    /\ UNCHANGED told

\* Nobody is left to overrule the events of S.
Stand(S) ==
    /\ S # {} /\ \A e \in S : status[e] = "doubted"
    /\ status' = [e \in Events |-> IF e \in S THEN "processed" ELSE status[e]]
    /\ UNCHANGED told

InboxNext ==
    \/ \E e \in Events :
          \/ Accept(e)
          \/ Reject(e)
          \/ Tell(e)
          \/ \E verdict \in {"processed", "failed"} : Settle(e, verdict)
          \/ Doubt(e)
          \/ Overrule(e)
    \/ \E S \in SUBSET Events : Stand(S)

InboxSpec == InboxInit /\ [][InboxNext]_ivars

-----------------------------------------------------------------------------
\* What a reader of the inbox may rely on: a customer is told once at most, and of nothing that
\* was not taken in; ...
ToldOnce ==
    /\ told \in [Events -> {0, 1}]
    /\ \A e \in Events : told[e] = 1 => status[e] # "new"

\* ... and once an event is settled nobody is told any more and its verdict stands, but for the
\* one in doubt, which may become "failed".
KeepsVerdicts ==
    \A e \in Events :
        /\ status[e] \in {"processed", "failed"} =>
              status'[e] = status[e] /\ told'[e] = told[e]
        /\ status[e] = "doubted" =>
              status'[e] \in {"doubted", "processed", "failed"} /\ told'[e] = told[e]

VerdictIsFinal == [][KeepsVerdicts]_ivars
=============================================================================
