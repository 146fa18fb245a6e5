---------------------------- MODULE WebhookProofs ----------------------------
(***************************************************************************)
(* Theorems about Webhook, for every set of events, any number of          *)
(* overlapping deliveries and any number of failures and restarts.         *)
(***************************************************************************)
EXTENDS Webhook, TLAPS

Received(e) == rows[e] # Null /\ rows[e].status = "RECEIVED"

Processed(e) == rows[e] # Null /\ rows[e].status = "PROCESSED"

\* A busy handler names its event.
EventNamed == \A h \in Handlers : ~At(h, "idle") => task[h].event \in Events

-----------------------------------------------------------------------------
\* Moving a handler to another step keeps its event and every other handler.
LEMMA GotoTask ==
    ASSUME TypeOK, NEW h \in Handlers, NEW step \in Steps, Goto(h, step)
    PROVE  /\ task' \in [Handlers -> Task]
           /\ \A k \in Handlers \ {h} : task'[k] = task[k]
           /\ task'[h].event = task[h].event /\ task'[h].step = step
  BY DEF TypeOK, Goto, Task

\* Freeing a handler keeps every other one.
LEMMA FreeTask ==
    ASSUME TypeOK, NEW h \in Handlers, Free(h)
    PROVE  /\ task' \in [Handlers -> Task]
           /\ \A k \in Handlers \ {h} : task'[k] = task[k]
           /\ task'[h].step = "idle"
<1>1. Idle \in Task /\ Idle.step = "idle"
  BY DEF Idle, Task, Steps
<1> QED
  BY <1>1 DEF TypeOK, Free

\* A verdict is written to the row of the event alone.
LEMMA SetStatusRow ==
    ASSUME TypeOK, NEW e \in Events, rows[e] # Null,
           NEW status \in {"RECEIVED", "PROCESSED", "FAILED"}, SetStatus(e, status)
    PROVE  /\ rows' \in [Events -> Row \cup {Null}]
           /\ \A d \in Events \ {e} : rows'[d] = rows[d]
           /\ rows'[e] \in Row /\ rows'[e].status = status
<1>1. rows[e] \in Row
  BY DEF TypeOK
<1>2. [rows[e] EXCEPT !.status = status] \in Row
  BY <1>1 DEF Row
<1>3. [rows[e] EXCEPT !.status = status].status = status
  BY <1>1 DEF Row
<1>4. rows' = [rows EXCEPT ![e] = [rows[e] EXCEPT !.status = status]]
  BY DEF SetStatus
<1> QED
  BY <1>1, <1>2, <1>3, <1>4 DEF TypeOK

-----------------------------------------------------------------------------
(* The shapes of the steps, as far as the ownership of events goes.        *)

Others(h) == \A k \in Handlers \ {h} : task'[k] = task[k]

OtherRows(e) == \A d \in Events \ {e} : rows'[d] = rows[d]

\* h turns to an event, or leaves one it has not accepted.
Outside(h) ==
    /\ ~Working(h) /\ ~Working(h)' /\ Others(h)
    /\ \/ rows' = rows
       \/ \E e \in Events : /\ rows[e] = Null /\ OtherRows(e)
                            /\ rows'[e] # Null /\ rows'[e].status = "FAILED"
    /\ UNCHANGED <<notified, emailed, lost>>

\* h accepts its event.
Accepts(h, e) ==
    /\ ~Working(h) /\ Owns(h, e)' /\ Others(h)
    /\ rows[e] = Null /\ Received(e)' /\ OtherRows(e)
    /\ task'[h].step = StepAfterCreate(e)
    /\ UNCHANGED <<notified, emailed, lost>>

\* h writes the row of its event, and stops there.
AcceptsAndStops(h, e) ==
    /\ ~Working(h) /\ ~Working(h)' /\ Others(h)
    /\ rows[e] = Null /\ Received(e)' /\ OtherRows(e)
    /\ lost' = lost \cup {e}
    /\ UNCHANGED <<notified, emailed>>

\* h goes on with its event.
GoesOn(h, e) ==
    /\ Owns(h, e) /\ Owns(h, e)' /\ Others(h)
    /\ UNCHANGED <<rows, lost>>
    /\ \/ UNCHANGED <<notified, emailed>>
          /\ \/ task'[h].step = "markFailed"
             \/ At(h, "prefs") /\ task'[h].step \in {"email", "finish"}
       \/ /\ At(h, "notify") /\ task'[h].step \in {"prefs", "markFailed"}
          /\ notified' = [notified EXCEPT ![e] = @ + 1] /\ UNCHANGED emailed
       \/ /\ At(h, "email") /\ task'[h].step \in {"finish", "markFailed"}
          /\ emailed' = [emailed EXCEPT ![e] = @ + 1] /\ UNCHANGED notified

\* h writes PROCESSED and does not hear of it.
Doubts(h, e) ==
    /\ Owns(h, e) /\ Owns(h, e)' /\ Others(h)
    /\ At(h, "finish") /\ At(h, "markFailed")'
    /\ Processed(e)' /\ OtherRows(e)
    /\ UNCHANGED <<notified, emailed, lost>>

\* h brings its event to a verdict.
Closes(h, e) ==
    /\ Owns(h, e) /\ ~Working(h)' /\ Others(h)
    /\ rows'[e] # Null /\ OtherRows(e)
    /\ \/ At(h, "finish") /\ rows'[e].status = "PROCESSED"
       \/ At(h, "markFailed") /\ rows'[e].status = "FAILED"
    /\ UNCHANGED <<notified, emailed, lost>>

\* Some handlers stop; the events they held are lost.
Loses(H) ==
    /\ \A h \in H : ~Working(h)'
    /\ \A h \in Handlers \ H : task'[h] = task[h]
    /\ lost' = lost \cup {task[h].event : h \in {k \in H : Working(k)}}
    /\ UNCHANGED <<rows, notified, emailed>>

StepShape ==
    \/ \E h \in Handlers : Outside(h)
    \/ \E h \in Handlers, e \in Events :
          \/ Accepts(h, e) \/ AcceptsAndStops(h, e)
          \/ GoesOn(h, e) \/ Doubts(h, e) \/ Closes(h, e)
    \/ \E H \in SUBSET Handlers : Loses(H)

\* Every accepted event that is not lost has exactly one handler, and only RECEIVED rows have
\* handlers, or a PROCESSED one whose writer is in its catch; a lost event keeps its row and
\* has none.
Ownership ==
    /\ \A h \in Handlers, e \in Events :
          Owns(h, e) => /\ Received(e) \/ (Processed(e) /\ At(h, "markFailed"))
                        /\ e \notin lost
    /\ \A h, k \in Handlers, e \in Events : (Owns(h, e) /\ Owns(k, e)) => h = k
    /\ \A e \in Events : (Received(e) /\ e \notin lost) => \E h \in Handlers : Owns(h, e)
    /\ \A e \in lost : rows[e] # Null

TypeAndShape == TypeOK' /\ EventNamed' /\ StepShape

\* A step keeps the types, and has one of the shapes.
LEMMA EveryStepHasShape ==
    ASSUME TypeOK, EventNamed, Ownership, [Next]_vars
    PROVE  TypeAndShape
<1> USE WebhookAssumption DEF TypeAndShape
<1>t. ASSUME NEW h \in Handlers PROVE task[h] \in Task /\ task[h].step \in Steps
  BY DEF TypeOK, Task
<1>n. ASSUME task' \in [Handlers -> Task], NEW h \in Handlers, Others(h),
             task'[h].step = "idle" \/ task'[h].event \in Events
      PROVE  EventNamed'
  BY <1>n DEF EventNamed, Others, At
<1>f. Fails => failures' \in 0 .. MaxFailures
  BY DEF Fails, TypeOK
<1>1. ASSUME NEW h \in Handlers, NEW e \in Events, NEW genuine \in BOOLEAN,
             Deliver(h, e, genuine)
      PROVE  TypeAndShape
  <2>1. /\ task' \in [Handlers -> Task] /\ Others(h)
        /\ task'[h].event = e /\ task'[h].step \in {"create", "reject"}
    BY <1>1 DEF Deliver, Others, TypeOK, Task, Steps
  <2>2. Outside(h)
    BY <1>1, <2>1 DEF Deliver, Outside, Working, At
  <2> QED
    BY <1>1, <2>1, <2>2, <1>n DEF Deliver, StepShape, TypeOK
<1>2. ASSUME NEW h \in Handlers, RejectDelivery(h) PROVE TypeAndShape
  <2>1. task' \in [Handlers -> Task] /\ Others(h) /\ task'[h].step = "idle"
    BY <1>2, FreeTask DEF RejectDelivery, Others
  <2>2. task[h].event \in Events
    BY <1>2 DEF RejectDelivery, EventNamed, At
  <2>3. [signatureValid |-> FALSE, status |-> "FAILED"] \in Row
    BY DEF Row
  <2>4. rows' \in [Events -> Row \cup {Null}]
    BY <1>2, <2>2, <2>3 DEF RejectDelivery, Rejected, TypeOK
  <2>5. \/ rows' = rows
        \/ \E e \in Events : /\ rows[e] = Null /\ OtherRows(e)
                             /\ rows'[e] # Null /\ rows'[e].status = "FAILED"
    <3>1. CASE UNCHANGED rows
      BY <3>1
    <3>2. CASE rows' = [rows EXCEPT ![task[h].event] = Rejected(@)]
      <4>1. Null # [signatureValid |-> FALSE, status |-> "FAILED"]
        BY <2>3, NullIsNoRow
      <4>2. CASE rows[task[h].event] = Null
        BY <2>2, <3>2, <4>1, <4>2 DEF Rejected, TypeOK, OtherRows
      <4>3. CASE rows[task[h].event] # Null
        BY <2>2, <3>2, <4>3 DEF Rejected, TypeOK
      <4> QED
        BY <4>2, <4>3
    <3> QED
      BY <1>2, <3>1, <3>2 DEF RejectDelivery
  <2>6. Outside(h)
    BY <1>2, <2>1, <2>5 DEF RejectDelivery, Outside, Working, At
  <2> QED
    BY <1>2, <2>1, <2>4, <2>6, <1>n, <1>f DEF RejectDelivery, StepShape, TypeOK
<1>3. ASSUME NEW h \in Handlers, AcceptDelivery(h) PROVE TypeAndShape
  <2> SUFFICES ASSUME NEW e, e = task[h].event PROVE TypeAndShape
    OBVIOUS
  <2> DEFINE row == [signatureValid |-> TRUE, status |-> "RECEIVED"]
  <2>1. At(h, "create") /\ e \in Events /\ rows[e] = Null
    BY <1>3 DEF AcceptDelivery, IsDuplicate, EventNamed, At
  <2>2. StepAfterCreate(e) \in {"notify", "finish"} /\ StepAfterCreate(e) \in Steps
    BY DEF StepAfterCreate, Steps
  <2>3. Goto(h, StepAfterCreate(e))
    BY <1>3 DEF AcceptDelivery
  <2>4. /\ task' \in [Handlers -> Task] /\ Others(h)
        /\ task'[h].event = e /\ task'[h].step = StepAfterCreate(e)
    BY <2>2, <2>3, GotoTask DEF Others
  <2>5. row \in Row /\ row # Null /\ row.status = "RECEIVED"
    <3>1. row \in Row
      BY DEF Row
    <3> QED
      BY <3>1, NullIsNoRow
  <2>6. /\ rows' = [rows EXCEPT ![e] = row]
        /\ UNCHANGED <<customer, notified, emailed, acked, lost, failures>>
    BY <1>3 DEF AcceptDelivery
  <2>7. rows' \in [Events -> Row \cup {Null}] /\ rows'[e] = row /\ OtherRows(e)
    BY <2>1, <2>5, <2>6 DEF TypeOK, OtherRows
  <2>8. Accepts(h, e)
    BY <2>1, <2>2, <2>4, <2>5, <2>6, <2>7 DEF Accepts, Owns, Working, Received, At
  <2> HIDE DEF row
  <2> QED
    BY <2>1, <2>4, <2>6, <2>7, <2>8, <1>n DEF StepShape, TypeOK
<1>4. ASSUME NEW h \in Handlers, At(h, "create"), Free(h),
             acked' \subseteq Events, failures' \in 0 .. MaxFailures,
             UNCHANGED <<customer, rows, notified, emailed, lost>>
      PROVE  TypeAndShape
  <2>1. task' \in [Handlers -> Task] /\ Others(h) /\ task'[h].step = "idle"
    BY <1>4, FreeTask DEF Others
  <2>2. Outside(h)
    BY <1>4, <2>1 DEF Outside, Working, At
  <2> QED
    BY <1>4, <2>1, <2>2, <1>n DEF StepShape, TypeOK
<1>5. ASSUME NEW h \in Handlers, AnswerDuplicate(h) PROVE TypeAndShape
  <2>1. task[h].event \in Events
    BY <1>5 DEF AnswerDuplicate, EventNamed, At
  <2>2. acked' \subseteq Events /\ failures' \in 0 .. MaxFailures
    BY <1>5, <2>1 DEF AnswerDuplicate, Answer, TypeOK
  <2> QED
    BY <1>5, <2>2, <1>4 DEF AnswerDuplicate, Answer
<1>6. ASSUME NEW h \in Handlers, CreateFails(h) PROVE TypeAndShape
  <2>1. acked' \subseteq Events /\ failures' \in 0 .. MaxFailures
    BY <1>6, <1>f DEF CreateFails, TypeOK
  <2> QED
    BY <1>6, <2>1, <1>4 DEF CreateFails
<1>22. ASSUME NEW h \in Handlers, CreateAnswerLost(h) PROVE TypeAndShape
  <2> SUFFICES ASSUME NEW e, e = task[h].event PROVE TypeAndShape
    OBVIOUS
  <2> DEFINE row == [signatureValid |-> TRUE, status |-> "RECEIVED"]
  <2>1. At(h, "create") /\ e \in Events /\ rows[e] = Null
    BY <1>22 DEF CreateAnswerLost, IsDuplicate, EventNamed, At
  <2>2. task' \in [Handlers -> Task] /\ Others(h) /\ task'[h].step = "idle"
    BY <1>22, FreeTask DEF CreateAnswerLost, Others
  <2>3. row \in Row /\ row # Null /\ row.status = "RECEIVED"
    <3>1. row \in Row
      BY DEF Row
    <3> QED
      BY <3>1, NullIsNoRow
  <2>4. /\ rows' = [rows EXCEPT ![e] = row] /\ lost' = lost \cup {e}
        /\ UNCHANGED <<customer, notified, emailed, acked>>
    BY <1>22 DEF CreateAnswerLost
  <2>5. rows' \in [Events -> Row \cup {Null}] /\ rows'[e] = row /\ OtherRows(e)
    BY <2>1, <2>3, <2>4 DEF TypeOK, OtherRows
  <2>6. AcceptsAndStops(h, e)
    <3>1. Received(e)'
      BY <2>3, <2>5 DEF Received
    <3>2. ~Working(h) /\ ~Working(h)'
      BY <2>1, <2>2 DEF Working, At
    <3> QED
      BY <2>1, <2>2, <2>4, <2>5, <3>1, <3>2 DEF AcceptsAndStops
  <2>7. failures' \in 0 .. MaxFailures
    BY <1>22, <1>f DEF CreateAnswerLost
  <2> HIDE DEF row
  <2> QED
    BY <2>1, <2>2, <2>4, <2>5, <2>6, <2>7, <1>n DEF StepShape, TypeOK
<1>7. ASSUME NEW h \in Handlers, Working(h), NEW step \in Steps, Goto(h, step),
             step \in {"prefs", "email", "finish", "markFailed"},
             NEW e, e = task[h].event
      PROVE  /\ task' \in [Handlers -> Task] /\ Others(h) /\ EventNamed'
             /\ e \in Events /\ task'[h].step = step
             /\ Owns(h, e) /\ Owns(h, e)'
  <2>1. e \in Events
    BY <1>7 DEF Working, EventNamed, At
  <2>2. /\ task' \in [Handlers -> Task] /\ Others(h)
        /\ task'[h].event = e /\ task'[h].step = step
    BY <1>7, GotoTask DEF Others
  <2> QED
    BY <1>7, <2>1, <2>2, <1>n DEF Owns, Working
<1>23. ASSUME NEW h \in Handlers, NEW step \in {"prefs", "markFailed"}, At(h, "notify"),
              Goto(h, step), failures' \in 0 .. MaxFailures,
              notified' = [notified EXCEPT ![task[h].event] = @ + 1],
              UNCHANGED <<customer, rows, emailed, acked, lost>>
       PROVE  TypeAndShape
  <2> SUFFICES ASSUME NEW e, e = task[h].event PROVE TypeAndShape
    OBVIOUS
  <2>1. step \in Steps /\ Working(h)
    BY <1>23 DEF Steps, Working, At
  <2>2. /\ task' \in [Handlers -> Task] /\ Others(h) /\ EventNamed'
        /\ e \in Events /\ task'[h].step = step /\ Owns(h, e) /\ Owns(h, e)'
    BY <2>1, <1>7, <1>23
  <2>3. GoesOn(h, e)
    BY <1>23, <2>2 DEF GoesOn
  <2>4. notified' \in [Events -> Nat]
    BY <1>23, <2>2 DEF TypeOK
  <2> QED
    BY <1>23, <2>2, <2>3, <2>4 DEF StepShape, TypeOK
<1>8. ASSUME NEW h \in Handlers, CreateNotification(h) PROVE TypeAndShape
  <2>1. failures' \in 0 .. MaxFailures
    BY <1>8 DEF CreateNotification, TypeOK
  <2> QED
    BY <1>8, <2>1, <1>23 DEF CreateNotification
<1>24. ASSUME NEW h \in Handlers, NotificationAnswerLost(h) PROVE TypeAndShape
  BY <1>24, <1>f, <1>23 DEF NotificationAnswerLost
<1>9. ASSUME NEW h \in Handlers, NEW step \in {"email", "finish", "markFailed"},
             Working(h), Goto(h, step), step = "markFailed" \/ At(h, "prefs"),
             failures' \in 0 .. MaxFailures,
             UNCHANGED <<customer, rows, notified, emailed, acked, lost>>
      PROVE  TypeAndShape
  <2> SUFFICES ASSUME NEW e, e = task[h].event PROVE TypeAndShape
    OBVIOUS
  <2>1. step \in Steps
    BY DEF Steps
  <2>2. /\ task' \in [Handlers -> Task] /\ Others(h) /\ EventNamed'
        /\ e \in Events /\ task'[h].step = step /\ Owns(h, e) /\ Owns(h, e)'
    BY <2>1, <1>7, <1>9
  <2>3. GoesOn(h, e)
    BY <1>9, <2>2 DEF GoesOn
  <2> QED
    BY <1>9, <2>2, <2>3 DEF StepShape, TypeOK
<1>10. ASSUME NEW h \in Handlers, UnknownCustomer(h) PROVE TypeAndShape
  <2>1. Working(h) /\ failures' \in 0 .. MaxFailures
    BY <1>10 DEF UnknownCustomer, Working, At, TypeOK
  <2> QED
    BY <1>10, <2>1, <1>9 DEF UnknownCustomer
<1>11. ASSUME NEW h \in Handlers, ReadPreference(h) PROVE TypeAndShape
  <2>1. Working(h) /\ At(h, "prefs") /\ failures' \in 0 .. MaxFailures
    BY <1>11 DEF ReadPreference, Working, At, TypeOK
  <2> QED
    BY <1>11, <2>1, <1>9 DEF ReadPreference
<1>12. ASSUME NEW h \in Handlers, ProcessingFails(h) PROVE TypeAndShape
  <2>1. Working(h) /\ failures' \in 0 .. MaxFailures
    BY <1>12, <1>f DEF ProcessingFails, Working
  <2> QED
    BY <1>12, <2>1, <1>9 DEF ProcessingFails
<1>13. ASSUME NEW h \in Handlers, NEW step \in {"finish", "markFailed"}, At(h, "email"),
              Goto(h, step), failures' \in 0 .. MaxFailures,
              emailed' = [emailed EXCEPT ![task[h].event] = @ + 1],
              UNCHANGED <<customer, rows, notified, acked, lost>>
       PROVE  TypeAndShape
  <2> SUFFICES ASSUME NEW e, e = task[h].event PROVE TypeAndShape
    OBVIOUS
  <2>1. step \in Steps /\ Working(h)
    BY <1>13 DEF Steps, Working, At
  <2>2. /\ task' \in [Handlers -> Task] /\ Others(h) /\ EventNamed'
        /\ e \in Events /\ task'[h].step = step /\ Owns(h, e) /\ Owns(h, e)'
    BY <2>1, <1>7, <1>13
  <2>3. GoesOn(h, e)
    BY <1>13, <2>2 DEF GoesOn
  <2>4. emailed' \in [Events -> Nat]
    BY <1>13, <2>2 DEF TypeOK
  <2> QED
    BY <1>13, <2>2, <2>3, <2>4 DEF StepShape, TypeOK
<1>14. ASSUME NEW h \in Handlers, SendEmail(h) PROVE TypeAndShape
  <2>1. failures' \in 0 .. MaxFailures
    BY <1>14 DEF SendEmail, TypeOK
  <2> QED
    BY <1>14, <2>1, <1>13 DEF SendEmail
<1>15. ASSUME NEW h \in Handlers, EmailAnswerLost(h) PROVE TypeAndShape
  BY <1>15, <1>f, <1>13 DEF EmailAnswerLost
<1>25. ASSUME NEW h \in Handlers, NEW status \in {"PROCESSED", "FAILED"}, Working(h),
              SetStatus(task[h].event, status)
       PROVE  /\ task[h].event \in Events /\ Owns(h, task[h].event)
              /\ rows' \in [Events -> Row \cup {Null}] /\ OtherRows(task[h].event)
              /\ rows'[task[h].event] # Null /\ rows'[task[h].event].status = status
  <2> DEFINE e == task[h].event
  <2>1. e \in Events /\ Owns(h, e)
    BY <1>25 DEF Working, EventNamed, At, Owns
  <2>2. rows[e] # Null
    BY <2>1 DEF Ownership, Received, Processed
  <2> QED
    BY <1>25, <2>1, <2>2, SetStatusRow, NullIsNoRow DEF OtherRows
<1>16. ASSUME NEW h \in Handlers, NEW status \in {"PROCESSED", "FAILED"},
              \/ At(h, "finish") /\ status = "PROCESSED"
              \/ At(h, "markFailed") /\ status = "FAILED",
              SetStatus(task[h].event, status), Free(h),
              acked' \subseteq acked \cup {task[h].event}, failures' \in 0 .. MaxFailures,
              UNCHANGED <<customer, notified, emailed, lost>>
       PROVE  TypeAndShape
  <2> SUFFICES ASSUME NEW e, e = task[h].event PROVE TypeAndShape
    OBVIOUS
  <2>1. Working(h)
    BY <1>16 DEF Working, At
  <2>3. /\ e \in Events /\ Owns(h, e)
        /\ rows' \in [Events -> Row \cup {Null}] /\ OtherRows(e)
        /\ rows'[e] # Null /\ rows'[e].status = status
    BY <1>16, <2>1, <1>25
  <2>4. task' \in [Handlers -> Task] /\ Others(h) /\ task'[h].step = "idle"
    BY <1>16, FreeTask DEF Others
  <2>5. Closes(h, e)
    BY <1>16, <2>3, <2>4 DEF Closes, Working
  <2>6. acked' \subseteq Events
    BY <1>16, <2>3 DEF TypeOK
  <2> QED
    BY <1>16, <2>3, <2>4, <2>5, <2>6, <1>n DEF StepShape, TypeOK
<1>17. ASSUME NEW h \in Handlers, FinishProcessing(h) PROVE TypeAndShape
  <2>1. failures' \in 0 .. MaxFailures
    BY <1>17 DEF FinishProcessing, TypeOK
  <2> QED
    BY <1>17, <2>1, <1>16 DEF FinishProcessing, Answer
<1>18. ASSUME NEW h \in Handlers, MarkFailed(h) PROVE TypeAndShape
  <2>1. failures' \in 0 .. MaxFailures
    BY <1>18 DEF MarkFailed, TypeOK
  <2> QED
    BY <1>18, <2>1, <1>16 DEF MarkFailed, Answer
<1>26. ASSUME NEW h \in Handlers, MarkFailedAnswerLost(h) PROVE TypeAndShape
  BY <1>26, <1>f, <1>16 DEF MarkFailedAnswerLost
<1>27. ASSUME NEW h \in Handlers, FinishAnswerLost(h) PROVE TypeAndShape
  <2> SUFFICES ASSUME NEW e, e = task[h].event PROVE TypeAndShape
    OBVIOUS
  <2>1. /\ At(h, "finish") /\ Working(h) /\ "markFailed" \in Steps
        /\ Goto(h, "markFailed") /\ SetStatus(e, "PROCESSED")
    BY <1>27 DEF FinishAnswerLost, Working, At, Steps
  <2>2. /\ task' \in [Handlers -> Task] /\ Others(h) /\ EventNamed'
        /\ e \in Events /\ task'[h].step = "markFailed" /\ Owns(h, e) /\ Owns(h, e)'
    BY <2>1, <1>7
  <2>3. /\ rows' \in [Events -> Row \cup {Null}] /\ OtherRows(e)
        /\ rows'[e] # Null /\ rows'[e].status = "PROCESSED"
    BY <2>1, <1>25
  <2>4. UNCHANGED <<customer, notified, emailed, acked, lost>>
    BY <1>27 DEF FinishAnswerLost
  <2>5. Doubts(h, e)
    <3>1. Processed(e)'
      BY <2>3 DEF Processed
    <3>2. At(h, "markFailed")'
      BY <2>2 DEF At
    <3> QED
      BY <2>1, <2>2, <2>3, <2>4, <3>1, <3>2 DEF Doubts
  <2>6. failures' \in 0 .. MaxFailures
    BY <1>27, <1>f DEF FinishAnswerLost
  <2> QED
    BY <2>2, <2>3, <2>4, <2>5, <2>6 DEF StepShape, TypeOK
<1>19. ASSUME NEW h \in Handlers, MarkFailedFails(h) PROVE TypeAndShape
  <2>1. task[h].event \in Events /\ Working(h)
    BY <1>19 DEF MarkFailedFails, EventNamed, At, Working
  <2>2. task' \in [Handlers -> Task] /\ Others(h) /\ task'[h].step = "idle"
    BY <1>19, FreeTask DEF MarkFailedFails, Others
  <2>3. Loses({h})
    BY <1>19, <2>1, <2>2 DEF MarkFailedFails, Loses, Working, Others
  <2> QED
    BY <1>19, <2>1, <2>2, <2>3, <1>n, <1>f DEF MarkFailedFails, StepShape, TypeOK
<1>20. ASSUME Crash PROVE TypeAndShape
  <2>1. Idle \in Task /\ Idle.step = "idle"
    BY DEF Idle, Task, Steps
  <2>2. task' \in [Handlers -> Task] /\ \A h \in Handlers : task'[h].step = "idle"
    BY <1>20, <2>1 DEF Crash
  <2>3. \A h \in Handlers : Working(h) => task[h].event \in Events
    BY DEF Working, EventNamed, At
  <2>4. Loses(Handlers)
    BY <1>20, <2>2 DEF Crash, Loses, Working
  <2>5. EventNamed'
    BY <2>2 DEF EventNamed, At
  <2> QED
    BY <1>20, <2>2, <2>3, <2>4, <2>5, <1>f DEF Crash, StepShape, TypeOK
<1>21. CASE UNCHANGED vars
  <2>1. Loses({})
    BY <1>21 DEF vars, Loses
  <2> QED
    BY <1>21, <2>1 DEF vars, StepShape, TypeOK, EventNamed, At
<1> QED
  BY <1>1, <1>2, <1>3, <1>5, <1>6, <1>8, <1>10, <1>11, <1>12, <1>14, <1>15, <1>17, <1>18,
     <1>19, <1>20, <1>21, <1>22, <1>24, <1>26, <1>27
     DEF Next, HandlerStep, HandlerFailure

-----------------------------------------------------------------------------
(* What the shapes preserve.                                               *)

\* No step changes whom a payload names.
LEMMA CustomerFixed ==
    ASSUME [Next]_vars
    PROVE  UNCHANGED customer
  BY DEF Next, vars, Deliver, HandlerStep, HandlerFailure, RejectDelivery, AcceptDelivery,
     AnswerDuplicate, CreateFails, CreateAnswerLost, CreateNotification,
     NotificationAnswerLost, UnknownCustomer, ReadPreference, SendEmail, EmailAnswerLost,
     ProcessingFails, FinishProcessing, FinishAnswerLost, MarkFailed, MarkFailedFails,
     MarkFailedAnswerLost, Crash

\* A handler that does not move keeps what it holds.
LEMMA HeldByOthers ==
    ASSUME NEW k, task'[k] = task[k], NEW e
    PROVE  Owns(k, e)' <=> Owns(k, e)
  BY DEF Owns, Working

\* What is said of notifications and e-mails at each step of the handler of e.
ToldSoFar(h, e) ==
    /\ At(h, "notify") => notified[e] = 0 /\ emailed[e] = 0
    /\ (At(h, "prefs") \/ At(h, "email")) => notified[e] = 1 /\ emailed[e] = 0
    /\ (At(h, "finish") /\ HasCustomer(e)) => notified[e] = 1

Telling ==
    \A e \in Events :
        /\ notified[e] \in {0, 1} /\ emailed[e] \in {0, 1}
        /\ rows[e] = Null => notified[e] = 0 /\ emailed[e] = 0
        /\ \A h \in Handlers : Owns(h, e) => ToldSoFar(h, e)

IInv == TypeOK /\ EventNamed /\ Ownership /\ Telling /\ ProcessedMeansNotified

\* Ownership of events is inductive.
LEMMA OwnershipKept ==
    ASSUME Ownership, EventNamed, TypeOK', StepShape
    PROVE  Ownership'
<1>1. ASSUME NEW h \in Handlers, Outside(h) PROVE Ownership'
  <2>1. \A k \in Handlers, e \in Events : Owns(k, e)' <=> Owns(k, e)
    BY <1>1, HeldByOthers DEF Outside, Others, Owns
  <2>2. \A e \in Events : /\ Received(e)' <=> Received(e)
                          /\ Processed(e) => Processed(e)'
                          /\ rows[e] # Null => rows'[e] # Null
    BY <1>1 DEF Outside, OtherRows, Received, Processed
  <2>4. \A k \in Handlers : Working(k) => (At(k, "markFailed")' <=> At(k, "markFailed"))
    BY <1>1 DEF Outside, Others, At
  <2>3. lost' = lost /\ lost \subseteq Events
    BY <1>1 DEF Outside, TypeOK
  <2>5. \A k \in Handlers, e \in Events : Owns(k, e) => Working(k)
    BY DEF Owns
  <2> QED
    BY <2>1, <2>2, <2>3, <2>4, <2>5 DEF Ownership
<1>2. ASSUME NEW h \in Handlers, NEW e \in Events, Accepts(h, e) PROVE Ownership'
  <2>1. \A k \in Handlers \ {h}, d \in Events : Owns(k, d)' <=> Owns(k, d)
    BY <1>2, HeldByOthers DEF Accepts, Others
  <2>2. \A d \in Events : Owns(h, d)' <=> d = e
    BY <1>2 DEF Accepts, Owns
  <2>3. \A k \in Handlers : ~Owns(k, e)
    BY <1>2 DEF Accepts, Ownership, Received, Processed
  <2>4. \A d \in Events : ~Owns(h, d)
    BY <1>2 DEF Accepts, Owns
  <2>5. /\ \A d \in Events \ {e} : Received(d)' <=> Received(d)
        /\ \A d \in Events \ {e} : Processed(d)' <=> Processed(d)
        /\ \A d \in Events \ {e} : rows'[d] = rows[d]
        /\ Received(e)' /\ rows'[e] # Null /\ e \notin lost
    BY <1>2 DEF Accepts, OtherRows, Received, Processed, Ownership
  <2>6. lost' = lost /\ lost \subseteq Events
    BY <1>2 DEF Accepts, TypeOK
  <2>7. \A k \in Handlers \ {h} : At(k, "markFailed")' <=> At(k, "markFailed")
    BY <1>2 DEF Accepts, Others, At
  <2> QED
    BY <2>1, <2>2, <2>3, <2>4, <2>5, <2>6, <2>7 DEF Ownership
<1>6. ASSUME NEW h \in Handlers, NEW e \in Events, AcceptsAndStops(h, e) PROVE Ownership'
  <2>1. \A k \in Handlers, d \in Events : Owns(k, d)' <=> Owns(k, d)
    BY <1>6, HeldByOthers DEF AcceptsAndStops, Others, Owns
  <2>2. \A k \in Handlers : ~Owns(k, e)
    BY <1>6 DEF AcceptsAndStops, Ownership, Received, Processed
  <2>3. /\ \A d \in Events \ {e} : Received(d)' <=> Received(d)
        /\ \A d \in Events \ {e} : Processed(d)' <=> Processed(d)
        /\ \A d \in Events \ {e} : rows'[d] = rows[d]
        /\ rows'[e] # Null
    BY <1>6 DEF AcceptsAndStops, OtherRows, Received, Processed
  <2>4. lost' = lost \cup {e} /\ lost \subseteq Events
    BY <1>6 DEF AcceptsAndStops, TypeOK
  <2>5. /\ \A k \in Handlers : Working(k) => (At(k, "markFailed")' <=> At(k, "markFailed"))
        /\ \A k \in Handlers, d \in Events : Owns(k, d) => Working(k)
    BY <1>6 DEF AcceptsAndStops, Others, At, Owns
  <2> QED
    BY <2>1, <2>2, <2>3, <2>4, <2>5 DEF Ownership
<1>3. ASSUME NEW h \in Handlers, NEW e \in Events, GoesOn(h, e) PROVE Ownership'
  <2>1. \A k \in Handlers \ {h}, d \in Events : Owns(k, d)' <=> Owns(k, d)
    BY <1>3, HeldByOthers DEF GoesOn, Others
  <2>2. \A d \in Events : (Owns(h, d)' <=> d = e) /\ (Owns(h, d) <=> d = e)
    BY <1>3 DEF GoesOn, Owns
  <2>3. /\ \A d \in Events : Received(d)' <=> Received(d)
        /\ \A d \in Events : Processed(d)' <=> Processed(d)
        /\ rows' = rows /\ lost' = lost
    BY <1>3 DEF GoesOn, Received, Processed
  <2>4. \A k \in Handlers \ {h} : At(k, "markFailed")' <=> At(k, "markFailed")
    BY <1>3 DEF GoesOn, Others, At
  <2>5. At(h, "markFailed") => At(h, "markFailed")'
    BY <1>3 DEF GoesOn, At
  <2> QED
    BY <2>1, <2>2, <2>3, <2>4, <2>5 DEF Ownership
<1>7. ASSUME NEW h \in Handlers, NEW e \in Events, Doubts(h, e) PROVE Ownership'
  <2>1. \A k \in Handlers \ {h}, d \in Events : Owns(k, d)' <=> Owns(k, d)
    BY <1>7, HeldByOthers DEF Doubts, Others
  <2>2. \A d \in Events : (Owns(h, d)' <=> d = e) /\ (Owns(h, d) <=> d = e)
    BY <1>7 DEF Doubts, Owns
  <2>3. /\ \A d \in Events \ {e} : Received(d)' <=> Received(d)
        /\ \A d \in Events \ {e} : Processed(d)' <=> Processed(d)
        /\ \A d \in Events \ {e} : rows'[d] = rows[d]
        /\ Processed(e)' /\ ~Received(e)' /\ rows'[e] # Null
        /\ At(h, "markFailed")' /\ lost' = lost
    BY <1>7 DEF Doubts, OtherRows, Received, Processed
  <2>4. \A k \in Handlers \ {h} : At(k, "markFailed")' <=> At(k, "markFailed")
    BY <1>7 DEF Doubts, Others, At
  <2>5. \A k \in Handlers : Owns(k, e) => k = h
    BY <2>2 DEF Ownership
  <2>6. lost \subseteq Events
    BY <2>3 DEF TypeOK
  <2> QED
    BY <2>1, <2>2, <2>3, <2>4, <2>5, <2>6 DEF Ownership
<1>4. ASSUME NEW h \in Handlers, NEW e \in Events, Closes(h, e) PROVE Ownership'
  <2>1. \A k \in Handlers \ {h}, d \in Events : Owns(k, d)' <=> Owns(k, d)
    BY <1>4, HeldByOthers DEF Closes, Others
  <2>2. \A d \in Events : ~Owns(h, d)' /\ (Owns(h, d) <=> d = e)
    BY <1>4 DEF Closes, Owns
  <2>3. /\ \A d \in Events \ {e} : Received(d)' <=> Received(d)
        /\ \A d \in Events \ {e} : Processed(d)' <=> Processed(d)
        /\ \A d \in Events \ {e} : rows'[d] = rows[d]
        /\ ~Received(e)' /\ rows'[e] # Null
    BY <1>4 DEF Closes, OtherRows, Received, Processed
  <2>4. lost' = lost /\ lost \subseteq Events
    BY <1>4 DEF Closes, TypeOK
  <2>5. \A k \in Handlers \ {h} : At(k, "markFailed")' <=> At(k, "markFailed")
    BY <1>4 DEF Closes, Others, At
  <2>6. \A k \in Handlers : Owns(k, e) => k = h
    BY <2>2 DEF Ownership
  <2> QED
    BY <2>1, <2>2, <2>3, <2>4, <2>5, <2>6 DEF Ownership
<1>5. ASSUME NEW H \in SUBSET Handlers, Loses(H) PROVE Ownership'
  <2>1. \A k \in Handlers, e \in Events : Owns(k, e)' <=> (Owns(k, e) /\ k \notin H)
    BY <1>5, HeldByOthers DEF Loses, Owns
  <2>2. \A e \in Events : e \in lost' <=> (e \in lost \/ \E k \in H : Owns(k, e))
    BY <1>5 DEF Loses, Owns
  <2>3. /\ \A e \in Events : Received(e)' <=> Received(e)
        /\ \A e \in Events : Processed(e)' <=> Processed(e)
        /\ rows' = rows /\ lost' \subseteq Events
    BY <1>5 DEF Loses, Received, Processed, TypeOK
  <2>4. \A e \in lost' : rows'[e] # Null
    BY <2>2, <2>3 DEF Ownership, Received, Processed
  <2>5. \A k \in Handlers \ H : At(k, "markFailed")' <=> At(k, "markFailed")
    BY <1>5 DEF Loses, At
  <2> QED
    BY <2>1, <2>2, <2>3, <2>4, <2>5 DEF Ownership
<1> QED
  BY <1>1, <1>2, <1>3, <1>4, <1>5, <1>6, <1>7 DEF StepShape

\* What is said of an event's notifications is inductive, and with it that PROCESSED comes after.
LEMMA TellingKept ==
    ASSUME TypeOK, Ownership, Telling, ProcessedMeansNotified, TypeOK', StepShape,
           UNCHANGED customer
    PROVE  Telling' /\ ProcessedMeansNotified'
<1>c. \A e : HasCustomer(e)' <=> HasCustomer(e)
  BY DEF HasCustomer
<1>1. ASSUME NEW h \in Handlers, Outside(h) PROVE Telling' /\ ProcessedMeansNotified'
  <2>1. \A k \in Handlers, e \in Events :
            Owns(k, e)' => Owns(k, e) /\ (ToldSoFar(k, e)' <=> ToldSoFar(k, e))
    BY <1>1, <1>c, HeldByOthers DEF Outside, Others, Owns, ToldSoFar, At
  <2>2. \A e \in Events : /\ rows'[e] = Null => rows[e] = Null
                          /\ rows'[e] = rows[e] \/ rows'[e].status = "FAILED"
    BY <1>1 DEF Outside, OtherRows
  <2>3. notified' = notified /\ emailed' = emailed
    BY <1>1 DEF Outside
  <2> QED
    BY <2>1, <2>2, <2>3, <1>c DEF Telling, ProcessedMeansNotified
<1>2. ASSUME NEW h \in Handlers, NEW e \in Events, Accepts(h, e)
      PROVE  Telling' /\ ProcessedMeansNotified'
  <2>1. \A k \in Handlers \ {h}, d \in Events :
            Owns(k, d)' => Owns(k, d) /\ (ToldSoFar(k, d)' <=> ToldSoFar(k, d))
    BY <1>2, <1>c, HeldByOthers DEF Accepts, Others, ToldSoFar, At
  <2>2. \A d \in Events : Owns(h, d)' => d = e
    BY <1>2 DEF Accepts, Owns
  <2>3. notified' = notified /\ emailed' = emailed /\ notified[e] = 0 /\ emailed[e] = 0
    BY <1>2 DEF Accepts, Telling
  <2>4. ToldSoFar(h, e)'
    BY <1>2, <1>c, <2>3 DEF Accepts, StepAfterCreate, ToldSoFar, At
  <2>5. /\ \A d \in Events \ {e} : rows'[d] = rows[d]
        /\ rows'[e] # Null /\ rows'[e].status = "RECEIVED"
    BY <1>2 DEF Accepts, OtherRows, Received
  <2> QED
    BY <2>1, <2>2, <2>3, <2>4, <2>5, <1>c DEF Telling, ProcessedMeansNotified
<1>3. ASSUME NEW h \in Handlers, NEW e \in Events, GoesOn(h, e)
      PROVE  Telling' /\ ProcessedMeansNotified'
  <2>1. Owns(h, e) /\ ToldSoFar(h, e) /\ rows[e] # Null
    BY <1>3 DEF GoesOn, Ownership, Telling, Received, Processed
  <2>2. \A k \in Handlers \ {h}, d \in Events : Owns(k, d)' => Owns(k, d) /\ d # e
    BY <1>3, <2>1, HeldByOthers DEF GoesOn, Others, Ownership
  <2>3. \A d \in Events : Owns(h, d)' => d = e
    BY <1>3 DEF GoesOn, Owns
  <2>4. \A d \in Events \ {e} : notified'[d] = notified[d] /\ emailed'[d] = emailed[d]
    BY <1>3 DEF GoesOn, TypeOK
  <2>5. rows' = rows
    BY <1>3 DEF GoesOn
  <2>6. \A k \in Handlers \ {h}, d \in Events \ {e} : ToldSoFar(k, d)' <=> ToldSoFar(k, d)
    BY <1>3, <1>c, <2>4 DEF GoesOn, Others, ToldSoFar, At
  <2>7. /\ ToldSoFar(h, e)'
        /\ notified'[e] \in {0, 1} /\ emailed'[e] \in {0, 1}
    <3>1. notified[e] \in {0, 1} /\ emailed[e] \in {0, 1}
      BY DEF Telling
    <3>2. CASE UNCHANGED <<notified, emailed>> /\ task'[h].step = "markFailed"
      BY <3>1, <3>2 DEF ToldSoFar, At
    <3>3. CASE /\ UNCHANGED <<notified, emailed>> /\ At(h, "prefs")
               /\ task'[h].step \in {"email", "finish"}
      BY <2>1, <3>1, <3>3 DEF ToldSoFar, At
    <3>4. CASE /\ At(h, "notify") /\ task'[h].step \in {"prefs", "markFailed"}
               /\ notified' = [notified EXCEPT ![e] = @ + 1] /\ UNCHANGED emailed
      <4>1. notified[e] = 0 /\ emailed[e] = 0
        BY <2>1, <3>4 DEF ToldSoFar
      <4>2. notified'[e] = 1 /\ emailed'[e] = 0
        BY <3>4, <4>1 DEF TypeOK
      <4> QED
        BY <3>4, <4>2 DEF ToldSoFar, At
    <3>5. CASE /\ At(h, "email") /\ task'[h].step \in {"finish", "markFailed"}
               /\ emailed' = [emailed EXCEPT ![e] = @ + 1] /\ UNCHANGED notified
      <4>1. notified[e] = 1 /\ emailed[e] = 0
        BY <2>1, <3>5 DEF ToldSoFar
      <4>2. notified'[e] = 1 /\ emailed'[e] = 1
        BY <3>5, <4>1 DEF TypeOK
      <4> QED
        BY <3>5, <4>2 DEF ToldSoFar, At
    <3> QED
      BY <1>3, <3>2, <3>3, <3>4, <3>5 DEF GoesOn
  <2>8. Telling'
    BY <2>1, <2>2, <2>3, <2>4, <2>5, <2>6, <2>7 DEF Telling
  <2>9. notified'[e] = notified[e] \/ ~Processed(e)
    BY <1>3 DEF GoesOn, Ownership, At, Received, Processed
  <2>10. ProcessedMeansNotified'
    BY <2>4, <2>5, <2>9, <1>c DEF ProcessedMeansNotified, Processed
  <2> QED
    BY <2>8, <2>10
<1>4. ASSUME NEW h \in Handlers, NEW e \in Events, Closes(h, e)
      PROVE  Telling' /\ ProcessedMeansNotified'
  <2>1. \A k \in Handlers, d \in Events :
            Owns(k, d)' => Owns(k, d) /\ (ToldSoFar(k, d)' <=> ToldSoFar(k, d))
    BY <1>4, <1>c, HeldByOthers DEF Closes, Others, Owns, ToldSoFar, At
  <2>2. /\ notified' = notified /\ emailed' = emailed /\ rows'[e] # Null
        /\ \A d \in Events \ {e} : rows'[d] = rows[d]
    BY <1>4 DEF Closes, OtherRows
  <2>3. Telling'
    BY <2>1, <2>2 DEF Telling
  <2>4. (rows'[e].status = "PROCESSED" /\ HasCustomer(e)) => notified[e] = 1
    BY <1>4 DEF Closes, Telling, ToldSoFar
  <2>5. ProcessedMeansNotified'
    BY <2>2, <2>4, <1>c DEF ProcessedMeansNotified
  <2> QED
    BY <2>3, <2>5
<1>5. ASSUME NEW H \in SUBSET Handlers, Loses(H) PROVE Telling' /\ ProcessedMeansNotified'
  <2>1. \A k \in Handlers, e \in Events :
            Owns(k, e)' => Owns(k, e) /\ (ToldSoFar(k, e)' <=> ToldSoFar(k, e))
    BY <1>5, <1>c, HeldByOthers DEF Loses, Owns, ToldSoFar, At
  <2>2. rows' = rows /\ notified' = notified /\ emailed' = emailed
    BY <1>5 DEF Loses
  <2> QED
    BY <2>1, <2>2, <1>c DEF Telling, ProcessedMeansNotified
<1>6. ASSUME NEW h \in Handlers, NEW e \in Events, AcceptsAndStops(h, e)
      PROVE  Telling' /\ ProcessedMeansNotified'
  <2>1. \A k \in Handlers, d \in Events :
            Owns(k, d)' => Owns(k, d) /\ (ToldSoFar(k, d)' <=> ToldSoFar(k, d))
    BY <1>6, <1>c, HeldByOthers DEF AcceptsAndStops, Others, Owns, ToldSoFar, At
  <2>2. /\ notified' = notified /\ emailed' = emailed
        /\ rows'[e] # Null /\ rows'[e].status = "RECEIVED"
        /\ \A d \in Events \ {e} : rows'[d] = rows[d]
    BY <1>6 DEF AcceptsAndStops, OtherRows, Received
  <2> QED
    BY <2>1, <2>2, <1>c DEF Telling, ProcessedMeansNotified
<1>7. ASSUME NEW h \in Handlers, NEW e \in Events, Doubts(h, e)
      PROVE  Telling' /\ ProcessedMeansNotified'
  <2>1. \A k \in Handlers \ {h}, d \in Events :
            Owns(k, d)' => Owns(k, d) /\ (ToldSoFar(k, d)' <=> ToldSoFar(k, d))
    BY <1>7, <1>c, HeldByOthers DEF Doubts, Others, ToldSoFar, At
  <2>2. /\ notified' = notified /\ emailed' = emailed /\ rows'[e] # Null
        /\ \A d \in Events \ {e} : rows'[d] = rows[d]
    BY <1>7 DEF Doubts, OtherRows, Processed
  <2>3. (\A d \in Events : Owns(h, d)' => d = e) /\ ToldSoFar(h, e)'
    BY <1>7 DEF Doubts, Owns, ToldSoFar, At
  <2>4. HasCustomer(e) => notified[e] = 1
    BY <1>7 DEF Doubts, Telling, ToldSoFar
  <2> QED
    BY <2>1, <2>2, <2>3, <2>4, <1>c DEF Telling, ProcessedMeansNotified
<1> QED
  BY <1>1, <1>2, <1>3, <1>4, <1>5, <1>6, <1>7 DEF StepShape

-----------------------------------------------------------------------------
\* The strengthening holds initially and is inductive.
LEMMA InboxInvInductive ==
    /\ Init => IInv
    /\ IInv /\ [Next]_vars => IInv'
<1>1. ASSUME Init PROVE IInv
  <2>1. Idle \in Task /\ \A h \in Handlers : At(h, "idle")
    BY <1>1 DEF Init, Idle, Task, Steps, At
  <2>2. \A e \in Events : rows[e] = Null /\ notified[e] = 0 /\ emailed[e] = 0
    BY <1>1 DEF Init
  <2>3. TypeOK
    BY <1>1, <2>1, WebhookAssumption DEF Init, TypeOK
  <2>4. \A h \in Handlers, e \in Events : ~Owns(h, e)
    BY <2>1 DEF Owns, Working, At
  <2>5. Ownership
    BY <1>1, <2>2, <2>4 DEF Init, Ownership, Received
  <2>6. EventNamed /\ Telling /\ ProcessedMeansNotified
    BY <2>1, <2>2, <2>4 DEF EventNamed, Telling, ProcessedMeansNotified
  <2> QED
    BY <2>3, <2>5, <2>6 DEF IInv
<1>2. ASSUME IInv, [Next]_vars PROVE IInv'
  <2>1. TypeOK' /\ EventNamed' /\ StepShape
    BY <1>2, EveryStepHasShape DEF IInv, TypeAndShape
  <2> QED
    BY <1>2, <2>1, OwnershipKept, TellingKept, CustomerFixed DEF IInv
<1> QED
  BY <1>1, <1>2

\* However deliveries, failures and restarts interleave, a customer is told of an event at most
\* once (ReepayWebhookService.handle and processAcceptedEvent).
THEOREM ToldAtMostOnce == Spec => []AtMostOnce
<1>1. IInv => AtMostOnce
  <2>1. IInv => \A e \in Events : notified[e] \in {0, 1} /\ emailed[e] \in {0, 1}
    BY DEF IInv, Telling
  <2>2. \A n \in {0, 1} : n <= 1
    OBVIOUS
  <2> QED
    BY <2>1, <2>2 DEF AtMostOnce
<1> QED
  BY <1>1, InboxInvInductive, PTL DEF Spec

\* A row that stands RECEIVED has a handler at work on it, or was lost with its handler; no event
\* has two, and a row that is not RECEIVED has one only while its PROCESSED is in doubt.
THEOREM OneOwnerHolds == Spec => []OneOwner
<1>1. IInv => OneOwner
  <2> SUFFICES ASSUME IInv, NEW e \in Events,
                      NEW owners, owners = {h \in Handlers : Owns(h, e)}
               PROVE  /\ Received(e) => (owners = {} <=> e \in lost)
                      /\ \A h, k \in owners : h = k
                      /\ \A h \in owners : /\ rows[e] # Null
                                           /\ \/ rows[e].status = "RECEIVED"
                                              \/ /\ rows[e].status = "PROCESSED"
                                                 /\ At(h, "markFailed")
    BY DEF OneOwner, Received
  <2>1. \A h : h \in owners <=> (h \in Handlers /\ Owns(h, e))
    OBVIOUS
  <2>2. Received(e) => (owners = {} <=> e \in lost)
    BY <2>1 DEF IInv, Ownership
  <2>3. \A h, k \in owners : h = k
    BY <2>1 DEF IInv, Ownership
  <2>4. \A h \in owners : Received(e) \/ (Processed(e) /\ At(h, "markFailed"))
    BY <2>1 DEF IInv, Ownership
  <2> QED
    BY <2>2, <2>3, <2>4 DEF Received, Processed
<1> QED
  BY <1>1, InboxInvInductive, PTL DEF Spec

\* PROCESSED is only ever said of an event whose customer has the notification.
THEOREM ProcessedHolds == Spec => []ProcessedMeansNotified
<1>1. IInv => ProcessedMeansNotified
  BY DEF IInv
<1> QED
  BY <1>1, InboxInvInductive, PTL DEF Spec

\* What a step adds to the acknowledged events is recorded already, and no row is ever taken
\* away.
LEMMA AckKept ==
    ASSUME IInv, AcknowledgedIsRecorded, [Next]_vars
    PROVE  AcknowledgedIsRecorded'
<1>1. TypeOK' /\ StepShape
  BY EveryStepHasShape DEF IInv, TypeAndShape
<1>2. \A e \in Events : rows[e] # Null => rows'[e] # Null
  <2>1. ASSUME NEW h \in Handlers, Outside(h), NEW e \in Events, rows[e] # Null
        PROVE  rows'[e] # Null
    BY <2>1 DEF Outside, OtherRows
  <2>2. ASSUME NEW h \in Handlers, NEW d \in Events,
               \/ Accepts(h, d) \/ AcceptsAndStops(h, d)
               \/ GoesOn(h, d) \/ Doubts(h, d) \/ Closes(h, d),
               NEW e \in Events, rows[e] # Null
        PROVE  rows'[e] # Null
    BY <2>2 DEF Accepts, AcceptsAndStops, GoesOn, Doubts, Closes, Received, Processed, OtherRows
  <2>3. ASSUME NEW H \in SUBSET Handlers, Loses(H) PROVE rows' = rows
    BY <2>3 DEF Loses
  <2> QED
    BY <1>1, <2>1, <2>2, <2>3 DEF StepShape
<1>3. ASSUME NEW h \in Handlers, Answer(h), IsDuplicate(task[h].event) \/ Working(h),
             ~At(h, "idle")
      PROVE  \A e \in acked' : e \in acked \/ rows[e] # Null
  <2>1. task[h].event \in Events
    BY <1>3 DEF IInv, EventNamed
  <2>2. rows[task[h].event] # Null
    BY <1>3, <2>1 DEF IInv, Ownership, Owns, Received, Processed, IsDuplicate
  <2> QED
    BY <1>3, <2>2 DEF Answer
<1>4. \A e \in acked' : e \in acked \/ rows[e] # Null
  <2>1. ASSUME NEW h \in Handlers, AnswerDuplicate(h) \/ FinishProcessing(h) \/ MarkFailed(h)
        PROVE  \A e \in acked' : e \in acked \/ rows[e] # Null
    BY <2>1, <1>3 DEF AnswerDuplicate, FinishProcessing, MarkFailed, Working, At
  <2>2. \/ acked' = acked
        \/ \E h \in Handlers : AnswerDuplicate(h) \/ FinishProcessing(h) \/ MarkFailed(h)
    BY DEF Next, vars, Deliver, HandlerStep, HandlerFailure, RejectDelivery, AcceptDelivery,
       CreateNotification, UnknownCustomer, ReadPreference, SendEmail, CreateFails,
       CreateAnswerLost, NotificationAnswerLost, EmailAnswerLost, ProcessingFails,
       FinishAnswerLost, MarkFailedFails, MarkFailedAnswerLost, Crash
  <2> QED
    BY <2>1, <2>2
<1> QED
  BY <1>1, <1>2, <1>4 DEF IInv, TypeOK, AcknowledgedIsRecorded

\* Nothing is answered 2xx, whatever fails or overlaps, before the table has a row for it.
THEOREM AcknowledgedHolds == Spec => []AcknowledgedIsRecorded
<1>1. Init => AcknowledgedIsRecorded
  BY DEF Init, AcknowledgedIsRecorded
<1> QED
  BY <1>1, AckKept, InboxInvInductive, PTL DEF Spec

\* Where an event stands in the inbox depends on its row and on whether a handler has it.
LEMMA StatusKept ==
    ASSUME NEW e \in Events, rows'[e] = rows[e],
           \A h \in Handlers : Owns(h, e)' <=> Owns(h, e)
    PROVE  StatusOf(e)' = StatusOf(e)
  BY DEF StatusOf

LEMMA StatusValues ==
    ASSUME NEW e \in Events
    PROVE  /\ rows[e] = Null => StatusOf(e) = "new"
           /\ Received(e) => StatusOf(e) = "accepted"
           /\ (Processed(e) /\ \E h \in Handlers : Owns(h, e)) => StatusOf(e) = "doubted"
           /\ (Processed(e) /\ \A h \in Handlers : ~Owns(h, e)) => StatusOf(e) = "processed"
           /\ (rows[e] # Null /\ rows[e].status = "FAILED") => StatusOf(e) = "failed"
  BY DEF StatusOf, Received, Processed

\* The endpoint implements the inbox: each of its steps is a step of EventInbox or none.
THEOREM EndpointImplementsInbox == Spec => ImplementsInbox
<1> DEFINE status == [e \in Events |-> StatusOf(e)]
<1>1. Init => Inbox!InboxInit
  BY DEF Init, Inbox!InboxInit, StatusOf
<1>2. ASSUME IInv, [Next]_vars PROVE [Inbox!InboxNext]_(Inbox!ivars)
  <2>1. TypeOK' /\ StepShape /\ Ownership /\ Ownership'
    BY <1>2, EveryStepHasShape, OwnershipKept DEF IInv, TypeAndShape
  <2>a. ASSUME NEW e \in Events, OtherRows(e),
               \A d \in Events \ {e}, h \in Handlers : Owns(h, d)' <=> Owns(h, d)
        PROVE  status' = [status EXCEPT ![e] = StatusOf(e)']
    <3>1. \A d \in Events \ {e} : StatusOf(d)' = StatusOf(d)
      BY <2>a, StatusKept DEF OtherRows
    <3> QED
      BY <3>1
  <2>b. ASSUME \A d \in Events : StatusOf(d)' = StatusOf(d)
        PROVE  status' = status
    BY <2>b
  <2>v. \A e \in Events :
          /\ rows[e] = Null => status[e] = "new"
          /\ Received(e) => status[e] = "accepted"
          /\ (Processed(e) /\ \E h \in Handlers : Owns(h, e)) => status[e] = "doubted"
    BY StatusValues
  <2>w. \A e \in Events :
          /\ Received(e)' => StatusOf(e)' = "accepted"
          /\ (Processed(e)' /\ \E h \in Handlers : Owns(h, e)') => StatusOf(e)' = "doubted"
          /\ (Processed(e)' /\ \A h \in Handlers : ~Owns(h, e)') => StatusOf(e)' = "processed"
          /\ (rows'[e] # Null /\ rows'[e].status = "FAILED") => StatusOf(e)' = "failed"
    BY DEF StatusOf, Received, Processed
  <2> HIDE DEF status
  <2>2. ASSUME NEW h \in Handlers, Outside(h) PROVE [Inbox!InboxNext]_(Inbox!ivars)
    <3>1. \A k \in Handlers, e \in Events : Owns(k, e)' <=> Owns(k, e)
      BY <2>2, HeldByOthers DEF Outside, Others, Owns
    <3>2. CASE rows' = rows
      <4>1. status' = status
        BY <3>1, <3>2, <2>b, StatusKept
      <4> QED
        BY <2>2, <4>1 DEF Outside, Inbox!ivars, status
    <3>3. ASSUME NEW e \in Events, rows[e] = Null, OtherRows(e), rows'[e] # Null,
                 rows'[e].status = "FAILED"
          PROVE  Inbox!Reject(e)
      <4>1. status[e] = "new" /\ status' = [status EXCEPT ![e] = "failed"]
        BY <3>1, <3>3, <2>a, <2>v, <2>w
      <4> QED
        BY <2>2, <4>1 DEF Outside, Inbox!Reject, status
    <3> QED
      BY <2>2, <3>2, <3>3 DEF Outside, Inbox!InboxNext
  <2>3. ASSUME NEW h \in Handlers, NEW e \in Events, Accepts(h, e) \/ AcceptsAndStops(h, e)
        PROVE  Inbox!Accept(e)
    <3>1. \A d \in Events \ {e}, k \in Handlers : Owns(k, d)' <=> Owns(k, d)
      BY <2>3, HeldByOthers DEF Accepts, AcceptsAndStops, Others, Owns
    <3>2. /\ rows[e] = Null /\ OtherRows(e) /\ Received(e)' /\ notified' = notified
      BY <2>3 DEF Accepts, AcceptsAndStops
    <3>3. status[e] = "new" /\ status' = [status EXCEPT ![e] = "accepted"]
      BY <3>1, <3>2, <2>a, <2>v, <2>w
    <3> QED
      BY <3>2, <3>3 DEF Inbox!Accept, status
  <2>4. ASSUME NEW h \in Handlers, NEW e \in Events, GoesOn(h, e)
        PROVE  [Inbox!InboxNext]_(Inbox!ivars)
    <3>1. \A k \in Handlers, d \in Events : Owns(k, d)' <=> Owns(k, d)
      BY <2>4, HeldByOthers DEF GoesOn, Others, Owns
    <3>2. status' = status
      BY <2>4, <3>1, <2>b, StatusKept DEF GoesOn
    <3>3. CASE notified' = notified
      BY <3>2, <3>3 DEF Inbox!ivars, status
    <3>4. CASE At(h, "notify") /\ notified' = [notified EXCEPT ![e] = @ + 1]
      <4>1. Received(e) /\ notified[e] = 0
        BY <1>2, <2>4, <3>4 DEF IInv, GoesOn, Ownership, Telling, ToldSoFar, At
      <4>2. status[e] = "accepted"
        BY <4>1, <2>v
      <4>3. notified' = [notified EXCEPT ![e] = 1]
        BY <3>4, <4>1
      <4>4. Inbox!Tell(e)
        BY <3>2, <4>1, <4>2, <4>3 DEF Inbox!Tell, status
      <4> QED
        BY <4>4 DEF Inbox!InboxNext
    <3> QED
      BY <2>4, <3>3, <3>4 DEF GoesOn
  <2>5. ASSUME NEW h \in Handlers, NEW e \in Events, Doubts(h, e) PROVE Inbox!Doubt(e)
    <3>1. \A d \in Events \ {e}, k \in Handlers : Owns(k, d)' <=> Owns(k, d)
      BY <2>5, HeldByOthers DEF Doubts, Others, Owns
    <3>2. Received(e) /\ Processed(e)' /\ Owns(h, e)' /\ OtherRows(e)
      BY <2>1, <2>5 DEF Doubts, Ownership, At
    <3>3. status[e] = "accepted" /\ status' = [status EXCEPT ![e] = "doubted"]
      BY <3>1, <3>2, <2>a, <2>v, <2>w
    <3> QED
      BY <2>5, <3>3 DEF Doubts, Inbox!Doubt, status
  <2>6. ASSUME NEW h \in Handlers, NEW e \in Events, Closes(h, e) PROVE Inbox!InboxNext
    <3>1. \A d \in Events \ {e}, k \in Handlers : Owns(k, d)' <=> Owns(k, d)
      BY <2>6, HeldByOthers DEF Closes, Others, Owns
    <3>2. Owns(h, e) /\ OtherRows(e) /\ rows'[e] # Null /\ notified' = notified
      BY <2>6 DEF Closes
    <3>3. \A k \in Handlers : ~Owns(k, e)'
      BY <2>1, <2>6, <3>2, HeldByOthers DEF Closes, Others, Owns, Ownership
    <3>4. CASE At(h, "finish") /\ rows'[e].status = "PROCESSED"
      <4>1. Received(e) /\ Processed(e)'
        BY <2>1, <3>2, <3>4 DEF Ownership, At, Processed
      <4>2. status[e] = "accepted" /\ status' = [status EXCEPT ![e] = "processed"]
        BY <3>1, <3>2, <3>3, <4>1, <2>a, <2>v, <2>w
      <4>3. Inbox!Settle(e, "processed")
        BY <3>2, <4>2 DEF Inbox!Settle, status
      <4> QED
        BY <4>3 DEF Inbox!InboxNext
    <3>5. CASE rows'[e].status = "FAILED"
      <4>1. status' = [status EXCEPT ![e] = "failed"]
        BY <3>1, <3>2, <3>5, <2>a, <2>w
      <4>2. status[e] \in {"accepted", "doubted"}
        BY <2>1, <3>2, <2>v DEF Ownership
      <4>3. Inbox!Settle(e, "failed") \/ Inbox!Overrule(e)
        BY <3>2, <4>1, <4>2 DEF Inbox!Settle, Inbox!Overrule, status
      <4> QED
        BY <4>3 DEF Inbox!InboxNext
    <3> QED
      BY <2>6, <3>4, <3>5 DEF Closes
  <2>7. ASSUME NEW H \in SUBSET Handlers, Loses(H) PROVE [Inbox!InboxNext]_(Inbox!ivars)
    <3> DEFINE S == {e \in Events : Processed(e) /\ \E h \in H : Owns(h, e)}
    <3>1. \A k \in Handlers, e \in Events : Owns(k, e)' <=> (Owns(k, e) /\ k \notin H)
      BY <2>7, HeldByOthers DEF Loses, Owns
    <3>2. rows' = rows /\ notified' = notified
      BY <2>7 DEF Loses
    <3>3. \A e \in S : /\ status[e] = "doubted" /\ Processed(e)'
                       /\ \A k \in Handlers : ~Owns(k, e)'
      BY <3>1, <3>2, <2>1, <2>v DEF Ownership, Processed
    <3>4. \A e \in S : StatusOf(e)' = "processed"
      BY <3>3, <2>w
    <3>5. ASSUME NEW e \in Events \ S PROVE StatusOf(e)' = StatusOf(e)
      <4>1. CASE Processed(e)
        <5>1. \A k \in Handlers : Owns(k, e)' <=> Owns(k, e)
          BY <3>1, <4>1
        <5> QED
          BY <3>2, <5>1, StatusKept
      <4>2. CASE ~Processed(e)
        BY <3>2, <4>2 DEF StatusOf, Processed
      <4> QED
        BY <4>1, <4>2
    <3>6. status' = [e \in Events |-> IF e \in S THEN "processed" ELSE status[e]]
      BY <3>4, <3>5 DEF status
    <3> HIDE DEF S
    <3>7. S \in SUBSET Events
      BY DEF S
    <3>8. CASE S = {}
      <4>1. status' = status
        BY <3>5, <3>8, <2>b
      <4> QED
        BY <3>2, <4>1 DEF Inbox!ivars, status
    <3>9. CASE S # {}
      <4>1. Inbox!Stand(S)
        BY <3>2, <3>3, <3>6, <3>9 DEF Inbox!Stand, status
      <4> QED
        BY <3>7, <4>1 DEF Inbox!InboxNext
    <3> QED
      BY <3>8, <3>9
  <2> QED
    BY <2>1, <2>2, <2>3, <2>4, <2>5, <2>6, <2>7 DEF StepShape, Inbox!InboxNext
<1> QED
  BY <1>1, <1>2, InboxInvInductive, PTL DEF Spec, ImplementsInbox, Inbox!InboxSpec

-----------------------------------------------------------------------------
(* What the inbox promises, whoever implements it.                         *)

LEMMA InboxStep ==
    ASSUME Inbox!ToldOnce, [Inbox!InboxNext]_(Inbox!ivars)
    PROVE  Inbox!ToldOnce' /\ Inbox!KeepsVerdicts
<1> USE DEF Inbox!ToldOnce, Inbox!KeepsVerdicts
<1>1. ASSUME NEW e \in Events, Inbox!Accept(e) \/ Inbox!Reject(e)
      PROVE  Inbox!ToldOnce' /\ Inbox!KeepsVerdicts
  BY <1>1 DEF Inbox!Accept, Inbox!Reject
<1>2. ASSUME NEW e \in Events, Inbox!Tell(e)
      PROVE  Inbox!ToldOnce' /\ Inbox!KeepsVerdicts
  BY <1>2 DEF Inbox!Tell
<1>3. ASSUME NEW e \in Events, NEW verdict \in {"processed", "failed"}, Inbox!Settle(e, verdict)
      PROVE  Inbox!ToldOnce' /\ Inbox!KeepsVerdicts
  BY <1>3 DEF Inbox!Settle
<1>4. ASSUME NEW e \in Events, Inbox!Doubt(e) \/ Inbox!Overrule(e)
      PROVE  Inbox!ToldOnce' /\ Inbox!KeepsVerdicts
  BY <1>4 DEF Inbox!Doubt, Inbox!Overrule
<1>5. ASSUME NEW S \in SUBSET Events, Inbox!Stand(S)
      PROVE  Inbox!ToldOnce' /\ Inbox!KeepsVerdicts
  BY <1>5 DEF Inbox!Stand
<1>6. CASE UNCHANGED Inbox!ivars
  BY <1>6 DEF Inbox!ivars
<1> QED
  BY <1>1, <1>2, <1>3, <1>4, <1>5, <1>6 DEF Inbox!InboxNext

LEMMA InboxKeepsPromise == Inbox!InboxSpec => []Inbox!ToldOnce /\ Inbox!VerdictIsFinal
<1>1. Inbox!InboxInit => Inbox!ToldOnce
  <2> SUFFICES ASSUME Inbox!InboxInit PROVE Inbox!ToldOnce
    OBVIOUS
  <2>1. notified = [e \in Events |-> 0]
    BY DEF Inbox!InboxInit
  <2> QED
    BY <2>1 DEF Inbox!ToldOnce
<1>2. Inbox!ToldOnce /\ [Inbox!InboxNext]_(Inbox!ivars)
        => Inbox!ToldOnce' /\ [Inbox!KeepsVerdicts]_(Inbox!ivars)
  BY InboxStep
<1> QED
  BY <1>1, <1>2, PTL DEF Inbox!InboxSpec, Inbox!VerdictIsFinal

\* Whatever is delivered again, late or while another delivery of it is handled, the customer of
\* a settled event hears no more of it and it stays as it was settled; only a PROCESSED whose
\* handler has not learnt of it may still become FAILED, by that handler.
THEOREM EndpointKeepsPromise == Spec => []Inbox!ToldOnce /\ Inbox!VerdictIsFinal
  BY EndpointImplementsInbox, InboxKeepsPromise, PTL DEF ImplementsInbox
=============================================================================
