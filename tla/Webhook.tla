------------------------------- MODULE Webhook -------------------------------
(***************************************************************************)
(* The Reepay webhook endpoint: src/webhooks/reepay-webhook.service.ts and *)
(* the notification it creates (src/notifications/notifications.service.ts)*)
(*                                                                         *)
(* The provider delivers an event as often as it likes, several deliveries *)
(* may be handled at once, and the process can stop between any two awaits *)
(* of a handler.  An await that throws has written nothing, or its write   *)
(* is committed and only the answer was lost.                              *)
(***************************************************************************)
EXTENDS Naturals

CONSTANTS
    Events,         \* event ids of the provider
    Handlers,       \* slots for deliveries handled at the same time
    MaxFailures,    \* bound: database errors, refused e-mails and restarts
    Null            \* no row

ASSUME WebhookAssumption == MaxFailures \in Nat /\ Null \notin Events

VARIABLES
    customer,   \* customer[e]: whom the payload of e names
    rows,       \* rows[e]: the row of reepay_webhook_events with eventId e, or Null
    notified,   \* notified[e]: notifications created for e
    emailed,    \* emailed[e]: e-mails the provider took for e
    task,       \* task[h]: the delivery handled in slot h
    acked,      \* events with a genuine delivery that was answered 2xx
    lost,       \* history: accepted events whose handler stopped short of its last write
    failures    \* failures so far

vars == <<customer, rows, notified, emailed, task, acked, lost, failures>>

Row == [signatureValid: BOOLEAN, status: {"RECEIVED", "PROCESSED", "FAILED"}]

ASSUME NullIsNoRow == Null \notin Row

Steps == {"idle", "create", "reject", "notify", "prefs", "email", "finish", "markFailed"}

Task == [event: Events \cup {Null}, step: Steps]

Idle == [event |-> Null, step |-> "idle"]

TypeOK ==
    /\ customer \in [Events -> {"none", "known", "unknown"}]
    /\ rows \in [Events -> Row \cup {Null}]
    /\ notified \in [Events -> Nat]
    /\ emailed \in [Events -> Nat]
    /\ task \in [Handlers -> Task]
    /\ acked \subseteq Events
    /\ lost \subseteq Events
    /\ failures \in 0 .. MaxFailures

Init ==
    /\ customer \in [Events -> {"none", "known", "unknown"}]
    /\ rows = [e \in Events |-> Null]
    /\ notified = [e \in Events |-> 0]
    /\ emailed = [e \in Events |-> 0]
    /\ task = [h \in Handlers |-> Idle]
    /\ acked = {}
    /\ lost = {}
    /\ failures = 0

-----------------------------------------------------------------------------
At(h, step) == task[h].step = step

Goto(h, step) == task' = [task EXCEPT ![h].step = step]

Free(h) == task' = [task EXCEPT ![h] = Idle]

\* 2xx: the provider need not send the event again
Answer(h) == Free(h) /\ acked' = acked \cup {task[h].event}

\* An await of the handler throws.
Fails == failures < MaxFailures /\ failures' = failures + 1

\* Past the create, the handler is the one that must bring the event to a verdict.
Working(h) == task[h].step \in {"notify", "prefs", "email", "finish", "markFailed"}

Owns(h, e) == Working(h) /\ task[h].event = e

HasCustomer(e) == customer[e] # "none"

SetStatus(e, status) == rows' = [rows EXCEPT ![e].status = status]

\* POST /webhooks/reepay with its headers: verifySignature decides on the branch
Deliver(h, e, genuine) ==
    /\ At(h, "idle")
    /\ task' = [task EXCEPT ![h] = [event |-> e,
                                    step |-> IF genuine THEN "create" ELSE "reject"]]
    /\ UNCHANGED <<customer, rows, notified, emailed, acked, lost, failures>>

\* Mutant: update writes the verdict of the bad signature
RejectedOver(row) == [signatureValid |-> FALSE, status |-> "FAILED"]

\* upsert({ create: { ..., FAILED }, update: {} })
Rejected(row) == IF row = Null THEN [signatureValid |-> FALSE, status |-> "FAILED"] ELSE row

\* persistInvalidSignatureEvent, and the 401; its errors are logged and swallowed, so one that
\* comes after the write changes nothing
RejectDelivery(h) ==
    /\ At(h, "reject")
    /\ Free(h)
    /\ \/ /\ rows' = [rows EXCEPT ![task[h].event] = Rejected(@)]
          /\ UNCHANGED failures
       \/ Fails /\ UNCHANGED rows
    /\ UNCHANGED <<customer, notified, emailed, acked, lost>>

\* Mutant: a row left RECEIVED is processed again
IsDuplicateSettled(e) == rows[e] # Null /\ rows[e].status # "RECEIVED"

\* P2002 on eventId
IsDuplicate(e) == rows[e] # Null

\* Mutant: processed first, notified afterwards
StepAfterCreateSwapped(e) == "finish"

\* Mutant: an event that names nobody is left as it is
StepAfterCreateDropped(e) == IF HasCustomer(e) THEN "notify" ELSE "idle"

StepAfterCreate(e) == IF HasCustomer(e) THEN "notify" ELSE "finish"

AcceptDelivery(h) ==
    LET e == task[h].event
    IN  /\ At(h, "create") /\ ~IsDuplicate(e)
        /\ rows' = [rows EXCEPT ![e] = [signatureValid |-> TRUE, status |-> "RECEIVED"]]
        /\ Goto(h, StepAfterCreate(e))
        /\ UNCHANGED <<customer, notified, emailed, acked, lost, failures>>

\* Mutant: a duplicate is answered 409
AnswerDuplicateConflict(h) ==
    /\ At(h, "create") /\ IsDuplicate(task[h].event)
    /\ Free(h)
    /\ UNCHANGED <<customer, rows, notified, emailed, acked, lost, failures>>

\* return { received: true, duplicate: true }
AnswerDuplicate(h) ==
    /\ At(h, "create") /\ IsDuplicate(task[h].event)
    /\ Answer(h)
    /\ UNCHANGED <<customer, rows, notified, emailed, lost, failures>>

\* Mutant: the error of create is logged only
CreateFailsSwallowed(h) ==
    /\ At(h, "create")
    /\ Fails /\ Answer(h)
    /\ UNCHANGED <<customer, rows, notified, emailed, lost>>

\* Any other error of create is thrown: the provider gets a 500.
CreateFails(h) ==
    /\ At(h, "create")
    /\ Fails /\ Free(h)
    /\ UNCHANGED <<customer, rows, notified, emailed, acked, lost>>

\* The row is written, but create throws: a 500, and nobody takes the event up.
CreateAnswerLost(h) ==
    LET e == task[h].event
    IN  /\ At(h, "create") /\ ~IsDuplicate(e)
        /\ Fails /\ Free(h)
        /\ rows' = [rows EXCEPT ![e] = [signatureValid |-> TRUE, status |-> "RECEIVED"]]
        /\ lost' = lost \cup {e}
        /\ UNCHANGED <<customer, notified, emailed, acked>>

\* notification.create in createForUser
CreateNotification(h) ==
    /\ At(h, "notify") /\ customer[task[h].event] = "known"
    /\ notified' = [notified EXCEPT ![task[h].event] = @ + 1]
    /\ Goto(h, "prefs")
    /\ UNCHANGED <<customer, rows, emailed, acked, lost, failures>>

\* The notification is written, but its create throws.
NotificationAnswerLost(h) ==
    /\ At(h, "notify") /\ customer[task[h].event] = "known"
    /\ Fails
    /\ notified' = [notified EXCEPT ![task[h].event] = @ + 1]
    /\ Goto(h, "markFailed")
    /\ UNCHANGED <<customer, rows, emailed, acked, lost>>

\* The foreign key refuses a customer there is no user for.
UnknownCustomer(h) ==
    /\ At(h, "notify") /\ customer[task[h].event] = "unknown"
    /\ Goto(h, "markFailed")
    /\ UNCHANGED <<customer, rows, notified, emailed, acked, lost, failures>>

\* sendEmailIfEnabled reads the preference of the moment.
ReadPreference(h) ==
    /\ At(h, "prefs")
    /\ Goto(h, "email") \/ Goto(h, "finish")
    /\ UNCHANGED <<customer, rows, notified, emailed, acked, lost, failures>>

SendEmail(h) ==
    /\ At(h, "email")
    /\ emailed' = [emailed EXCEPT ![task[h].event] = @ + 1]
    /\ Goto(h, "finish")
    /\ UNCHANGED <<customer, rows, notified, acked, lost, failures>>

\* The provider took the e-mail, but its answer did not come back.
EmailAnswerLost(h) ==
    /\ At(h, "email") /\ Fails
    /\ emailed' = [emailed EXCEPT ![task[h].event] = @ + 1]
    /\ Goto(h, "markFailed")
    /\ UNCHANGED <<customer, rows, notified, acked, lost>>

\* Any await inside the try of processAcceptedEvent throws, with nothing written.
ProcessingFails(h) ==
    /\ task[h].step \in {"notify", "prefs", "email", "finish"}
    /\ Fails /\ Goto(h, "markFailed")
    /\ UNCHANGED <<customer, rows, notified, emailed, acked, lost>>

FinishProcessing(h) ==
    /\ At(h, "finish")
    /\ SetStatus(task[h].event, "PROCESSED")
    /\ Answer(h)
    /\ UNCHANGED <<customer, notified, emailed, lost, failures>>

\* PROCESSED is committed, but the update throws: the catch goes on to write FAILED over it.
FinishAnswerLost(h) ==
    /\ At(h, "finish") /\ Fails
    /\ SetStatus(task[h].event, "PROCESSED")
    /\ Goto(h, "markFailed")
    /\ UNCHANGED <<customer, notified, emailed, acked, lost>>

\* The catch of processAcceptedEvent; the error is logged and the answer is a 2xx.
MarkFailed(h) ==
    /\ At(h, "markFailed")
    /\ SetStatus(task[h].event, "FAILED")
    /\ Answer(h)
    /\ UNCHANGED <<customer, notified, emailed, lost, failures>>

\* The update of the catch throws too: a 500, and the row stays as it is, RECEIVED (or
\* PROCESSED, when the answer of that write was lost).
MarkFailedFails(h) ==
    /\ At(h, "markFailed")
    /\ Fails /\ Free(h)
    /\ lost' = lost \cup {task[h].event}
    /\ UNCHANGED <<customer, rows, notified, emailed, acked>>

\* FAILED is committed, but the update of the catch throws: a 500.
MarkFailedAnswerLost(h) ==
    /\ At(h, "markFailed")
    /\ Fails /\ Free(h)
    /\ SetStatus(task[h].event, "FAILED")
    /\ UNCHANGED <<customer, notified, emailed, acked, lost>>

\* The process stops: every handler is gone.  Nothing looks for RECEIVED rows at the start.
Crash ==
    /\ Fails
    /\ task' = [h \in Handlers |-> Idle]
    /\ lost' = lost \cup {task[h].event : h \in {k \in Handlers : Working(k)}}
    /\ UNCHANGED <<customer, rows, notified, emailed, acked>>

-----------------------------------------------------------------------------
HandlerStep(h) ==
    \/ RejectDelivery(h)
    \/ AcceptDelivery(h)
    \/ AnswerDuplicate(h)
    \/ CreateNotification(h)
    \/ UnknownCustomer(h)
    \/ ReadPreference(h)
    \/ SendEmail(h)
    \/ FinishProcessing(h)
    \/ MarkFailed(h)

HandlerFailure(h) ==
    \/ CreateFails(h)
    \/ CreateAnswerLost(h)
    \/ NotificationAnswerLost(h)
    \/ EmailAnswerLost(h)
    \/ ProcessingFails(h)
    \/ FinishAnswerLost(h)
    \/ MarkFailedFails(h)
    \/ MarkFailedAnswerLost(h)

Next ==
    \/ \E h \in Handlers, e \in Events, genuine \in BOOLEAN : Deliver(h, e, genuine)
    \/ \E h \in Handlers : HandlerStep(h)
    \/ \E h \in Handlers : HandlerFailure(h)
    \/ Crash

Spec == Init /\ [][Next]_vars

\* A handler waits for no other one, so each goes on; the provider sends an event again until
\* a delivery of it is answered 2xx, and the server takes every connection in its turn.
Redeliver(e) == e \notin acked /\ \E h \in Handlers : Deliver(h, e, TRUE)

Fairness ==
    /\ \A h \in Handlers : WF_vars(HandlerStep(h))
    /\ \A e \in Events : SF_vars(Redeliver(e))

FairSpec == Spec /\ Fairness

-----------------------------------------------------------------------------
\* However deliveries of one event overlap, repeat or follow a failure, its customer gets at
\* most one notification and at most one e-mail for it: the unique event id lets one handler
\* through, and no other way leads to createForUser.
AtMostOnce == \A e \in Events : notified[e] <= 1 /\ emailed[e] <= 1

\* A RECEIVED row is in the hands of exactly one handler, or its handler stopped without a
\* verdict.  An event never has two handlers, and the one it has may be about to write over a
\* row that is not RECEIVED in one case only: its own PROCESSED, whose answer was lost.
OneOwner ==
    \A e \in Events :
        LET owners == {h \in Handlers : Owns(h, e)}
        IN  /\ (rows[e] # Null /\ rows[e].status = "RECEIVED") => (owners = {} <=> e \in lost)
            /\ \A h, k \in owners : h = k
            /\ \A h \in owners :
                  /\ rows[e] # Null
                  /\ \/ rows[e].status = "RECEIVED"
                     \/ rows[e].status = "PROCESSED" /\ At(h, "markFailed")

\* PROCESSED is only said of an event whose customer, if the payload names one, has the
\* notification: no failure on the way there ends in PROCESSED.
ProcessedMeansNotified ==
    \A e \in Events :
        (rows[e] # Null /\ rows[e].status = "PROCESSED" /\ HasCustomer(e)) => notified[e] = 1

\* The provider stops sending an event only after the backend has a row for it: no failure of
\* the first await is answered 2xx.
AcknowledgedIsRecorded == \A e \in acked : rows[e] # Null

\* The refinement: an event in the states of the abstract inbox.  A verdict is in doubt while
\* the handler that wrote it is still there to overrule it.
StatusOf(e) ==
    IF rows[e] = Null THEN "new"
    ELSE CASE rows[e].status = "RECEIVED" -> "accepted"
           [] rows[e].status = "PROCESSED" ->
                IF \E h \in Handlers : Owns(h, e) THEN "doubted" ELSE "processed"
           [] rows[e].status = "FAILED" -> "failed"

Inbox == INSTANCE EventInbox WITH
            status <- [e \in Events |-> StatusOf(e)],
            told <- notified

\* The endpoint implements the inbox: every event is taken in once, told about at most once
\* and before its verdict, and settled once; only the handler that wrote PROCESSED without
\* learning of it may turn that into FAILED (handle, processAcceptedEvent,
\* persistInvalidSignatureEvent).
ImplementsInbox == Inbox!InboxSpec

\* An accepted event gets its verdict unless its handler is stopped.
AcceptedIsSettled ==
    \A e \in Events :
        (StatusOf(e) = "accepted") ~> (e \in lost \/ StatusOf(e) \in {"processed", "failed"})

\* While failures are finite and the provider repeats what was not answered 2xx, every event
\* is acknowledged in the end: no state of the table or of other handlers stops it for good.
EventIsAcknowledged == \A e \in Events : <>(e \in acked)
=============================================================================
