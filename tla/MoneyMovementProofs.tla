------------------------ MODULE MoneyMovementProofs ------------------------
(***************************************************************************)
(* Theorems about MoneyMovement, for every number of requests, keys and    *)
(* attempts, and any loss, delay or failure of the messages; and, at the   *)
(* end, about Aggregates, the other module on top of the Reepay client.    *)
(***************************************************************************)
EXTENDS MoneyMovement, Aggregates, FiniteSetTheorems, TLAPS

\* A request keeps what it is and whom its key names.
NamesKept ==
    \A c \in Calls : handler[c] # Null =>
        /\ handler'[c] # Null
        /\ handler'[c].op = handler[c].op /\ handler'[c].clientKey = handler[c].clientKey

\* A call keeps its method, its key and its success; nothing is taken from the ledger or the
\* audit log.
RecordsKept ==
    /\ \A c \in Calls : call[c] # Null =>
          /\ call'[c] # Null
          /\ call'[c].method = call[c].method /\ call'[c].key = call[c].key
          /\ call[c].outcome = "data" => call'[c].outcome = "data"
    /\ ledger \subseteq ledger' /\ audit \subseteq audit'

\* A request comes with a key only for what is audited.
ArrivesWell ==
    \A c \in Calls : (handler[c] = Null /\ handler'[c] # Null)
        => (handler'[c].clientKey # Null => handler'[c].op \in Audited)

\* A call is made by its handler alone, and not before its audit record.
CallsByStart ==
    \A c \in Calls : (call[c] = Null /\ call'[c] # Null) => Start(c)

\* Reepay carries out what a call asks for, and what no known key has asked for before.
MadeOnce ==
    \/ UNCHANGED ledger
    \/ \E c \in Calls :
          /\ call[c] # Null /\ call[c].method = "POST" /\ ~KnownKey(call[c].key)
          /\ ledger' = ledger \cup {[call |-> c, key |-> call[c].key]}
          /\ UNCHANGED <<call, handler, audit>>

\* An answer with data to a POST comes from Reepay, which has performed the call.
AnsweredByReepay ==
    \A c \in Calls, a \in Attempts :
        (wire[c][a] # "data" /\ wire'[c][a] = "data")
            => /\ UNCHANGED <<call, handler>>
               /\ call[c] # Null /\ (call[c].method = "POST" => Perform(c))

\* Only an answer with data makes an outcome a success.
SuccessByAnswer ==
    \A c \in Calls :
        (call'[c] # Null /\ call'[c].outcome = "data")
            => \/ call[c] # Null /\ call[c].outcome = "data"
               \/ /\ call[c] # Null /\ wire[c][call[c].attempt] = "data"
                  /\ \A d \in Calls \ {c} : call'[d] = call[d]
                  /\ UNCHANGED <<handler, ledger>>

StepShape ==
    /\ TypeOK' /\ NamesKept /\ RecordsKept /\ ArrivesWell /\ CallsByStart /\ MadeOnce
    /\ AnsweredByReepay /\ SuccessByAnswer

\* A step of a handler before its call touches nothing but the handler.
LEMMA HandlerOnly ==
    ASSUME TypeOK, UNCHANGED <<call, wire, ledger, audit>>, NEW c \in Calls,
           NEW q \in Handler, handler' = [handler EXCEPT ![c] = q],
           call[c] = Null,
           handler[c] = Null => (q.clientKey # Null => q.op \in Audited),
           handler[c] # Null => q.op = handler[c].op /\ q.clientKey = handler[c].clientKey
    PROVE  StepShape
<1>1. q # Null
  BY NullIsNoHandler
<1>2. TypeOK'
  BY <1>1 DEF TypeOK, ClientTypeOK
<1>3. NamesKept /\ ArrivesWell
  BY <1>1 DEF NamesKept, ArrivesWell, TypeOK
<1>4. RecordsKept /\ CallsByStart /\ MadeOnce /\ AnsweredByReepay /\ SuccessByAnswer
  BY DEF RecordsKept, CallsByStart, MadeOnce, AnsweredByReepay, SuccessByAnswer
<1> QED
  BY <1>2, <1>3, <1>4 DEF StepShape

LEMMA ArriveShape ==
    ASSUME TypeOK, NEW c \in Calls, NEW op \in Ops, NEW k \in ClientKeys \cup {Null},
           Arrive(c, op, k)
    PROVE  StepShape
<1> DEFINE q == [op |-> op, step |-> IF op \in NeedsPin THEN "pin" ELSE AfterPin(op),
                 clientKey |-> k]
<1>1. q \in Handler
  BY OpsAssumption DEF Handler, AfterPin
<1>2. handler' = [handler EXCEPT ![c] = q] /\ UNCHANGED <<call, wire, ledger, audit>>
  BY DEF Arrive
<1>3. handler[c] = Null /\ call[c] = Null
  BY DEF Arrive, TypeOK
<1>4. q.clientKey # Null => q.op \in Audited
  BY DEF Arrive
<1> HIDE DEF q
<1> QED
  BY <1>1, <1>2, <1>3, <1>4, HandlerOnly

LEMMA BeforeCallShape ==
    ASSUME TypeOK, NEW c \in Calls, CheckPin(c) \/ FindUser(c)
    PROVE  StepShape
<1>1. PICK step \in {"user", "start", "refused"} :
          handler' = [handler EXCEPT ![c].step = step]
  BY DEF CheckPin, FindUser, AfterPin
<1> DEFINE q == [handler[c] EXCEPT !.step = step]
<1>2. /\ handler[c] # Null /\ handler[c].step # "called" /\ handler[c] \in Handler
      /\ UNCHANGED <<call, wire, ledger, audit>>
  BY DEF CheckPin, FindUser, At, TypeOK
<1>3. /\ q \in Handler
      /\ q.op = handler[c].op /\ q.clientKey = handler[c].clientKey
  BY <1>2 DEF Handler
<1>4. call[c] = Null
  BY <1>2 DEF TypeOK
<1>5. handler' = [handler EXCEPT ![c] = q]
  BY <1>1, <1>2 DEF TypeOK
<1> HIDE DEF q
<1> QED
  BY <1>2, <1>3, <1>4, <1>5, HandlerOnly

LEMMA StartShape ==
    ASSUME TypeOK, NEW c \in Calls, Start(c)
    PROVE  StepShape
<1> DEFINE key == IF handler[c].op \in Keyed THEN ResolvedKey(c) ELSE Null
           new == [method |-> Method(handler[c].op), key |-> key, attempt |-> 1,
                   outcome |-> "pending"]
           q == [handler[c] EXCEPT !.step = "called"]
<1>1. /\ handler[c] # Null /\ handler[c] \in Handler /\ handler[c].step = "start"
      /\ call[c] = Null
  BY DEF Start, At, TypeOK, Request
<1>2. 1 \in Attempts
  BY ClientAssumption DEF Attempts
<1>3. ResolvedKey(c) \in Keys
  BY <1>1 DEF ResolvedKey, Keys, Handler
<1>4. new \in Call /\ new # Null
  <2>1. new \in Call
    BY <1>1, <1>2, <1>3 DEF Call, Method
  <2> QED
    BY <2>1, NullIsNoCall
<1>5. q \in Handler /\ q # Null /\ q.op = handler[c].op /\ q.clientKey = handler[c].clientKey
      /\ q.step = "called"
  <2>1. q \in Handler /\ q.op = handler[c].op /\ q.clientKey = handler[c].clientKey
        /\ q.step = "called"
    BY <1>1 DEF Handler
  <2> QED
    BY <2>1, NullIsNoHandler
<1>6. /\ call' = [call EXCEPT ![c] = new]
      /\ wire' = [wire EXCEPT ![c] = [wire[c] EXCEPT ![1] = "sent"]]
      /\ handler' = [handler EXCEPT ![c] = q]
      /\ ledger' = ledger
  BY <1>1 DEF Start, Request, TypeOK, ClientTypeOK
<1>7. AuditRecord(c) \in Effect
  BY <1>3 DEF AuditRecord, Effect
<1>8. audit \subseteq audit' /\ audit' \subseteq Effect
  BY <1>7 DEF Start, TypeOK
<1>9. new.method = Method(q.op)
  BY <1>5
<1> HIDE DEF new, q
<1>10. TypeOK'
  <2>1. wire' \in [Calls -> [Attempts -> {"unsent", "sent"} \cup Replies]]
    BY <1>2, <1>6 DEF TypeOK, ClientTypeOK
  <2>2. ClientTypeOK'
    BY <1>4, <1>6, <2>1 DEF TypeOK, ClientTypeOK
  <2>3. handler' \in [Calls -> Handler \cup {Null}]
    BY <1>5, <1>6 DEF TypeOK
  <2>4. \A d \in Calls :
          call'[d] # Null => /\ handler'[d] # Null
                             /\ handler'[d].step = "called"
                             /\ call'[d].method = Method(handler'[d].op)
    BY <1>4, <1>5, <1>6, <1>9 DEF TypeOK, ClientTypeOK
  <2>5. \A d \in Calls, a \in Attempts : wire'[d][a] # "unsent" => call'[d] # Null
    BY <1>4, <1>6 DEF TypeOK, ClientTypeOK
  <2> QED
    BY <1>8, <2>2, <2>3, <2>4, <2>5 DEF TypeOK
<1>11. NamesKept /\ ArrivesWell
  BY <1>1, <1>5, <1>6 DEF NamesKept, ArrivesWell, TypeOK
<1>12. RecordsKept
  BY <1>1, <1>6, <1>8 DEF RecordsKept, TypeOK, ClientTypeOK
<1>13. CallsByStart /\ MadeOnce
  BY <1>6 DEF CallsByStart, MadeOnce, TypeOK, ClientTypeOK
<1>14. AnsweredByReepay
  BY <1>2, <1>6 DEF AnsweredByReepay, TypeOK, ClientTypeOK
<1>15. SuccessByAnswer
  <2>1. new.outcome = "pending"
    BY DEF new
  <2> QED
    BY <1>6, <2>1 DEF SuccessByAnswer, TypeOK, ClientTypeOK
<1> QED
  BY <1>10, <1>11, <1>12, <1>13, <1>14, <1>15 DEF StepShape

\* A step of a call under way that leaves its method and key alone.
LEMMA CallOnly ==
    ASSUME TypeOK, UNCHANGED <<handler, audit, ledger>>, NEW c \in Calls, Pending(c),
           NEW q \in Call, call' = [call EXCEPT ![c] = q],
           q.method = call[c].method, q.key = call[c].key,
           wire' \in [Calls -> [Attempts -> {"unsent", "sent"} \cup Replies]],
           \A d \in Calls, a \in Attempts :
               wire'[d][a] = wire[d][a] \/ (d = c /\ wire'[d][a] = "sent"),
           q.outcome = "data" => wire[c][call[c].attempt] = "data"
    PROVE  StepShape
<1>1. q # Null /\ call[c] # Null /\ call[c].outcome = "pending"
  BY NullIsNoCall DEF Pending
<1>2. TypeOK'
  <2>1. ClientTypeOK'
    BY DEF TypeOK, ClientTypeOK
  <2>2. \A d \in Calls :
          call'[d] # Null => /\ handler'[d] # Null
                             /\ handler'[d].step = "called"
                             /\ call'[d].method = Method(handler'[d].op)
    BY <1>1 DEF TypeOK, ClientTypeOK
  <2>3. \A d \in Calls, a \in Attempts : wire'[d][a] # "unsent" => call'[d] # Null
    BY <1>1 DEF TypeOK, ClientTypeOK
  <2> QED
    BY <2>1, <2>2, <2>3 DEF TypeOK
<1>3. NamesKept /\ ArrivesWell /\ MadeOnce
  BY DEF NamesKept, ArrivesWell, MadeOnce
<1>4. RecordsKept
  BY <1>1 DEF RecordsKept, TypeOK, ClientTypeOK
<1>5. CallsByStart
  BY <1>1 DEF CallsByStart, TypeOK, ClientTypeOK
<1>6. AnsweredByReepay
  BY DEF AnsweredByReepay
<1>7. SuccessByAnswer
  BY <1>1 DEF SuccessByAnswer, TypeOK, ClientTypeOK
<1> QED
  BY <1>2, <1>3, <1>4, <1>5, <1>6, <1>7 DEF StepShape

LEMMA ReceiveShape ==
    ASSUME TypeOK, NEW c \in Calls, Client(Receive(c))
    PROVE  StepShape
<1> DEFINE reply == wire[c][call[c].attempt]
           q == [call[c] EXCEPT !.outcome = reply]
<1>1. /\ Pending(c) /\ call[c] \in Call /\ reply \in Replies
      /\ UNCHANGED <<handler, audit, ledger, wire>>
  BY DEF Client, Receive, Pending, TypeOK, ClientTypeOK
<1>2. /\ q \in Call /\ q.method = call[c].method /\ q.key = call[c].key
      /\ q.outcome = reply
  BY <1>1 DEF Call
<1>3. call' = [call EXCEPT ![c] = q]
  BY DEF Client, Receive, OutcomeOf
<1>4. wire' \in [Calls -> [Attempts -> {"unsent", "sent"} \cup Replies]]
  BY <1>1 DEF TypeOK, ClientTypeOK
<1> HIDE DEF q
<1> QED
  BY <1>1, <1>2, <1>3, <1>4, CallOnly

LEMMA FailShape ==
    ASSUME TypeOK, NEW c \in Calls, NEW why \in Failures, Client(Fail(c, why))
    PROVE  StepShape
<1> DEFINE a == call[c].attempt
<1>1. /\ Pending(c) /\ call[c] \in Call /\ a \in Attempts
      /\ UNCHANGED <<handler, audit, ledger>>
      /\ call[c].outcome = "pending"
  BY DEF Client, Fail, Pending, TypeOK, ClientTypeOK, Call
<1>2. CASE /\ a < AttemptsOf(call[c].method)
           /\ call' = [call EXCEPT ![c].attempt = AttemptAfter(a)]
           /\ wire' = [wire EXCEPT ![c][AttemptAfter(a)] = "sent"]
  <2> DEFINE q == [call[c] EXCEPT !.attempt = a + 1]
  <2>1. a + 1 \in Attempts
    BY <1>1, <1>2, ClientAssumption DEF Attempts, AttemptsOf
  <2>2. /\ q \in Call /\ q.method = call[c].method /\ q.key = call[c].key
        /\ q.outcome = "pending"
    BY <1>1, <2>1 DEF Call
  <2>3. /\ call' = [call EXCEPT ![c] = q]
        /\ wire' = [wire EXCEPT ![c] = [wire[c] EXCEPT ![a + 1] = "sent"]]
    BY <1>2 DEF AttemptAfter
  <2>4. /\ wire' \in [Calls -> [Attempts -> {"unsent", "sent"} \cup Replies]]
        /\ \A d \in Calls, b \in Attempts :
              wire'[d][b] = wire[d][b] \/ (d = c /\ wire'[d][b] = "sent")
    BY <2>1, <2>3 DEF TypeOK, ClientTypeOK
  <2> HIDE DEF q
  <2> QED
    BY <1>1, <2>2, <2>3, <2>4, CallOnly
<1>3. CASE call' = [call EXCEPT ![c].outcome = why] /\ UNCHANGED wire
  <2> DEFINE q == [call[c] EXCEPT !.outcome = why]
  <2>1. /\ q \in Call /\ q.method = call[c].method /\ q.key = call[c].key
        /\ q.outcome # "data"
    BY <1>1 DEF Call, Failures
  <2>2. /\ wire' \in [Calls -> [Attempts -> {"unsent", "sent"} \cup Replies]]
        /\ call' = [call EXCEPT ![c] = q]
    BY <1>3 DEF TypeOK, ClientTypeOK
  <2> HIDE DEF q
  <2> QED
    BY <1>1, <1>3, <2>1, <2>2, CallOnly
<1> QED
  BY <1>2, <1>3 DEF Client, Fail

LEMMA AnswersShape ==
    ASSUME TypeOK, NEW c \in Calls, NEW a \in Attempts, NEW reply \in Replies,
           Client(ReepayAnswers(c, a, reply))
    PROVE  StepShape
<1>1. /\ wire[c][a] = "sent" /\ call[c] # Null /\ call[c] \in Call
      /\ wire' = [wire EXCEPT ![c] = [wire[c] EXCEPT ![a] = reply]]
      /\ UNCHANGED <<handler, audit, call>>
  BY DEF Client, ReepayAnswers, TypeOK, ClientTypeOK
<1> DEFINE m == [call |-> c, key |-> call[c].key]
<1>2. m \in Effect
  BY <1>1 DEF Effect, Call
<1>3. \/ UNCHANGED ledger
      \/ /\ call[c].method = "POST" /\ ~KnownKey(call[c].key)
         /\ ledger' = ledger \cup {m}
  BY DEF Client, ReepayAnswers, Perform
<1>4. /\ reply = "data" /\ call[c].method = "POST" => Perform(c)
  BY DEF Client, ReepayAnswers
<1>5. TypeOK'
  <2>1. wire' \in [Calls -> [Attempts -> {"unsent", "sent"} \cup Replies]]
    BY <1>1 DEF TypeOK, ClientTypeOK
  <2>2. ledger' \subseteq Effect
    BY <1>2, <1>3 DEF TypeOK, ClientTypeOK
  <2>3. \A d \in Calls, b \in Attempts : wire'[d][b] # "unsent" => call'[d] # Null
    BY <1>1 DEF TypeOK, ClientTypeOK
  <2> QED
    BY <1>1, <2>1, <2>2, <2>3 DEF TypeOK, ClientTypeOK
<1>6. NamesKept /\ ArrivesWell /\ CallsByStart /\ SuccessByAnswer
  BY <1>1 DEF NamesKept, ArrivesWell, CallsByStart, SuccessByAnswer
<1>7. RecordsKept
  BY <1>1, <1>3 DEF RecordsKept
<1>8. MadeOnce
  BY <1>1, <1>3 DEF MadeOnce
<1>9. AnsweredByReepay
  BY <1>1, <1>4 DEF AnsweredByReepay, TypeOK, ClientTypeOK
<1> QED
  BY <1>5, <1>6, <1>7, <1>8, <1>9 DEF StepShape

LEMMA StopShape ==
    ASSUME TypeOK, Stop
    PROVE  StepShape
<1>1. UNCHANGED <<wire, ledger, audit>>
  BY DEF Stop, Restart
<1>2. \A c \in Calls : call'[c] = call[c]
                       \/ /\ Pending(c) /\ call'[c] \in Call /\ call'[c] # Null
                          /\ call'[c].method = call[c].method /\ call'[c].key = call[c].key
                          /\ call'[c].outcome = "gone"
  <2> SUFFICES ASSUME NEW c \in Calls, call'[c] # call[c]
               PROVE  /\ Pending(c) /\ call'[c] \in Call /\ call'[c] # Null
                      /\ call'[c].method = call[c].method /\ call'[c].key = call[c].key
                      /\ call'[c].outcome = "gone"
    OBVIOUS
  <2>1. Pending(c) /\ call'[c] = [call[c] EXCEPT !.outcome = "gone"]
    BY DEF Stop, Restart
  <2>2. call[c] \in Call
    BY <2>1 DEF Pending, TypeOK, ClientTypeOK
  <2>3. /\ call'[c] \in Call
        /\ call'[c].method = call[c].method /\ call'[c].key = call[c].key
        /\ call'[c].outcome = "gone"
    BY <2>1, <2>2 DEF Call
  <2> QED
    BY <2>1, <2>3, NullIsNoCall
<1>3. \A c \in Calls : handler'[c] = handler[c]
                       \/ /\ handler[c] # Null /\ handler[c].step # "called"
                          /\ handler'[c] \in Handler /\ handler'[c] # Null
                          /\ handler'[c].op = handler[c].op
                          /\ handler'[c].clientKey = handler[c].clientKey
  <2> SUFFICES ASSUME NEW c \in Calls, handler'[c] # handler[c]
               PROVE  /\ handler[c] # Null /\ handler[c].step # "called"
                      /\ handler'[c] \in Handler /\ handler'[c] # Null
                      /\ handler'[c].op = handler[c].op
                      /\ handler'[c].clientKey = handler[c].clientKey
    OBVIOUS
  <2>1. /\ handler[c] # Null /\ handler[c].step # "called"
        /\ handler'[c] = [handler[c] EXCEPT !.step = "refused"]
    BY DEF Stop, At
  <2>2. handler[c] \in Handler
    BY <2>1 DEF TypeOK
  <2>3. /\ handler'[c] \in Handler
        /\ handler'[c].op = handler[c].op
        /\ handler'[c].clientKey = handler[c].clientKey
    BY <2>1, <2>2 DEF Handler
  <2> QED
    BY <2>1, <2>3, NullIsNoHandler
<1>4. TypeOK'
  <2>1. call' \in [Calls -> Call \cup {Null}]
    <3>1. call' = [c \in Calls |-> call'[c]]
      BY DEF Stop, Restart
    <3> QED
      BY <1>2, <3>1 DEF TypeOK, ClientTypeOK
  <2>2. handler' \in [Calls -> Handler \cup {Null}]
    <3>1. handler' = [c \in Calls |-> handler'[c]]
      BY DEF Stop
    <3> QED
      BY <1>3, <3>1 DEF TypeOK
  <2>3. \A d \in Calls :
          call'[d] # Null => /\ handler'[d] # Null
                             /\ handler'[d].step = "called"
                             /\ call'[d].method = Method(handler'[d].op)
    BY <1>2, <1>3 DEF TypeOK, Pending
  <2>4. \A d \in Calls, a \in Attempts : wire'[d][a] # "unsent" => call'[d] # Null
    BY <1>1, <1>2 DEF TypeOK
  <2> QED
    BY <1>1, <2>1, <2>2, <2>3, <2>4 DEF TypeOK, ClientTypeOK
<1>5. NamesKept /\ ArrivesWell
  BY <1>3 DEF NamesKept, ArrivesWell
<1>6. RecordsKept
  BY <1>1, <1>2 DEF RecordsKept, Pending
<1>7. CallsByStart /\ MadeOnce /\ AnsweredByReepay
  BY <1>1, <1>2 DEF Pending, CallsByStart, MadeOnce, AnsweredByReepay
<1>8. SuccessByAnswer
  BY <1>2 DEF SuccessByAnswer
<1> QED
  BY <1>4, <1>5, <1>6, <1>7, <1>8 DEF StepShape

LEMMA EveryStepHasShape ==
    ASSUME TypeOK, [Next]_vars
    PROVE  StepShape
<1>1. CASE Next
  BY <1>1, ArriveShape, BeforeCallShape, StartShape, ReceiveShape, FailShape, AnswersShape,
     StopShape DEF Next
<1>2. CASE UNCHANGED vars
  <2>1. TypeOK'
    BY <1>2 DEF vars, TypeOK, ClientTypeOK
  <2> QED
    BY <1>2, <2>1 DEF vars, StepShape, NamesKept, RecordsKept, ArrivesWell, CallsByStart, MadeOnce,
       AnsweredByReepay, SuccessByAnswer
<1> QED
  BY <1>1, <1>2

-----------------------------------------------------------------------------
(* The strengthening.                                                      *)

\* Only what is audited comes with a key of the app.
KeysAreForAudited ==
    \A c \in Calls : (handler[c] # Null /\ handler[c].clientKey # Null)
                         => handler[c].op \in Audited

\* A call carries the key that names its intent, if its operation is keyed, and was audited
\* with it.
CallsCarryKeys ==
    \A c \in Calls : call[c] # Null =>
        /\ call[c].key = IF handler[c].op \in Keyed THEN Intent(c) ELSE Null
        /\ handler[c].op \in Audited => [call |-> c, key |-> call[c].key] \in audit

\* What Reepay has carried out was asked for by a POST under that key.
LedgerOfCalls ==
    \A m \in ledger :
        /\ m.call \in Calls /\ call[m.call] # Null /\ call[m.call].method = "POST"
        /\ m = [call |-> m.call, key |-> call[m.call].key]

OncePerIntent == \A m, n \in ledger : Intent(m.call) = Intent(n.call) => m = n

\* An answer with data on the wire tells the truth.
AnswersAreTrue ==
    \A c \in Calls, a \in Attempts :
        (wire[c][a] = "data" /\ call[c].method = "POST") => Effects(Intent(c)) # {}

IInv ==
    /\ TypeOK /\ KeysAreForAudited /\ CallsCarryKeys /\ LedgerOfCalls /\ OncePerIntent
    /\ AnswersAreTrue /\ SuccessMeansMade

\* Whom a call acts for is a key.
LEMMA IntentType ==
    ASSUME TypeOK, NEW c \in Calls, handler[c] # Null
    PROVE  Intent(c) \in Keys /\ Intent(c) # Null
  BY ClientAssumption DEF TypeOK, Handler, Intent, Keys

\* A key Reepay knows stands for a movement of its intent, and only for that one.
LEMMA KnownMeansMade ==
    ASSUME IInv, NEW c \in Calls, call[c] # Null
    PROVE  /\ KnownKey(call[c].key) => Effects(Intent(c)) # {}
           /\ \A m \in Effects(Intent(c)) :
                 KnownKey(call[c].key) \/ m = [call |-> c, key |-> call[c].key]
<1> USE DEF IInv
<1>1. handler[c] # Null /\ handler[c] \in Handler
  BY DEF TypeOK
<1>2. \A m \in ledger : /\ m.call \in Calls /\ call[m.call] # Null
                        /\ handler[m.call] # Null /\ handler[m.call] \in Handler
                        /\ m.key = call[m.call].key
  BY DEF LedgerOfCalls, TypeOK
<1>3. ASSUME KnownKey(call[c].key) PROVE Effects(Intent(c)) # {}
  <2>1. PICK m \in ledger : m.key = call[c].key /\ m.key # Null
    BY <1>3 DEF KnownKey
  <2>2. call[c].key = Intent(c) /\ m.key = Intent(m.call)
    BY <1>2, <2>1 DEF CallsCarryKeys
  <2> QED
    BY <2>1, <2>2 DEF Effects
<1>4. ASSUME NEW m \in Effects(Intent(c)), ~KnownKey(call[c].key)
      PROVE  m = [call |-> c, key |-> call[c].key]
  <2>1. m \in ledger /\ Intent(m.call) = Intent(c)
    BY <1>4 DEF Effects
  <2>2. CASE m.call = c
    BY <2>1, <2>2 DEF LedgerOfCalls
  <2>3. CASE m.call # c
    <3>1. \/ handler[m.call].clientKey # Null
          \/ handler[c].clientKey # Null
      BY <2>1, <2>3 DEF Intent
    <3>2. handler[m.call].clientKey # Null /\ handler[c].clientKey # Null
      BY <1>1, <1>2, <2>1, <3>1, ClientAssumption DEF Intent, Handler
    <3>3. handler[m.call].op \in Keyed /\ handler[c].op \in Keyed
      BY <1>1, <1>2, <2>1, <3>2 DEF KeysAreForAudited, Keyed
    <3>4. m.key = Intent(c) /\ call[c].key = Intent(c) /\ Intent(c) # Null
      BY <1>1, <1>2, <2>1, <3>3, IntentType DEF CallsCarryKeys
    <3> QED
      BY <1>4, <2>1, <3>4 DEF KnownKey
  <2> QED
    BY <2>2, <2>3
<1> QED
  BY <1>3, <1>4

\* The effects of an intent do not go away.
LEMMA EffectsKept ==
    ASSUME IInv, StepShape, NEW c \in Calls, handler[c] # Null
    PROVE  /\ Intent(c)' = Intent(c)
           /\ Effects(Intent(c)) # {} => Effects(Intent(c))' # {}
<1>1. \A d \in Calls : handler[d] # Null => Intent(d)' = Intent(d)
  BY DEF StepShape, NamesKept, Intent
<1>2. \A m \in ledger : m \in ledger' /\ m.call \in Calls /\ handler[m.call] # Null
  BY DEF IInv, LedgerOfCalls, TypeOK, StepShape, RecordsKept
<1> QED
  BY <1>1, <1>2 DEF Effects

\* What a step adds to the ledger is the effect of one intent, and its first.
LEMMA MadeIsNew ==
    ASSUME IInv, StepShape
    PROVE  \/ ledger' = ledger
           \/ \E c \in Calls :
                 /\ call[c] # Null /\ call[c].method = "POST" /\ Effects(Intent(c)) = {}
                 /\ ledger' = ledger \cup {[call |-> c, key |-> call[c].key]}
                 /\ UNCHANGED <<call, handler, audit>>
<1> SUFFICES ASSUME ledger' # ledger
             PROVE  \E c \in Calls :
                       /\ call[c] # Null /\ call[c].method = "POST" /\ Effects(Intent(c)) = {}
                       /\ ledger' = ledger \cup {[call |-> c, key |-> call[c].key]}
                       /\ UNCHANGED <<call, handler, audit>>
  OBVIOUS
<1>1. PICK c \in Calls :
          /\ call[c] # Null /\ call[c].method = "POST" /\ ~KnownKey(call[c].key)
          /\ ledger' = ledger \cup {[call |-> c, key |-> call[c].key]}
          /\ UNCHANGED <<call, handler, audit>>
  BY DEF StepShape, MadeOnce
<1>2. [call |-> c, key |-> call[c].key] \notin ledger
  BY <1>1
<1>3. Effects(Intent(c)) = {}
  BY <1>1, <1>2, KnownMeansMade DEF Effects
<1> QED
  BY <1>1, <1>3

LEMMA KeysKept ==
    ASSUME IInv, StepShape
    PROVE  KeysAreForAudited' /\ CallsCarryKeys'
<1> USE DEF IInv, StepShape
<1>1. KeysAreForAudited'
  BY DEF KeysAreForAudited, NamesKept, ArrivesWell
<1>2. ASSUME NEW c \in Calls, call'[c] # Null
      PROVE  /\ call'[c].key = IF handler'[c].op \in Keyed THEN Intent(c)' ELSE Null
             /\ handler'[c].op \in Audited => [call |-> c, key |-> call'[c].key] \in audit'
  <2>1. CASE call[c] # Null
    <3>1. handler[c] # Null
      BY <2>1 DEF TypeOK
    <3>2. Intent(c)' = Intent(c) /\ handler'[c].op = handler[c].op
      BY <3>1, EffectsKept DEF NamesKept
    <3> QED
      BY <2>1, <3>2 DEF CallsCarryKeys, RecordsKept
  <2>2. CASE call[c] = Null
    <3>1. Start(c)
      BY <1>2, <2>2 DEF CallsByStart
    <3>2. handler[c] # Null /\ handler'[c].op = handler[c].op /\ Intent(c)' = Intent(c)
      BY <3>1, EffectsKept DEF Start, At, NamesKept
    <3>3. ResolvedKey(c) = Intent(c)
      BY DEF ResolvedKey, Intent
    <3>4. call'[c].key = IF handler[c].op \in Keyed THEN Intent(c) ELSE Null
      BY <3>1, <3>3 DEF Start, Request, TypeOK, ClientTypeOK
    <3>5. handler[c].op \in Audited => [call |-> c, key |-> Intent(c)] \in audit'
      BY <3>1, <3>3 DEF Start, AuditRecord
    <3> QED
      BY <3>2, <3>4, <3>5 DEF Keyed
  <2> QED
    BY <2>1, <2>2
<1> QED
  BY <1>1, <1>2 DEF CallsCarryKeys

LEMMA LedgerKept ==
    ASSUME IInv, StepShape
    PROVE  LedgerOfCalls' /\ OncePerIntent'
<1> USE DEF IInv
<1>1. \A m \in ledger : /\ m.call \in Calls /\ handler[m.call] # Null /\ call[m.call] # Null
                        /\ m = [call |-> m.call, key |-> call[m.call].key]
  BY DEF LedgerOfCalls, TypeOK
<1>2. CASE ledger' = ledger
  <2>1. LedgerOfCalls'
    BY <1>1, <1>2 DEF LedgerOfCalls, StepShape, RecordsKept
  <2>2. \A m \in ledger : Intent(m.call)' = Intent(m.call)
    BY <1>1, EffectsKept
  <2> QED
    BY <1>2, <2>1, <2>2 DEF OncePerIntent
<1>3. ASSUME NEW c \in Calls,
             call[c] # Null, call[c].method = "POST", Effects(Intent(c)) = {},
             ledger' = ledger \cup {[call |-> c, key |-> call[c].key]},
             UNCHANGED <<call, handler, audit>>
      PROVE  LedgerOfCalls' /\ OncePerIntent'
  <2>1. \A d : Intent(d)' = Intent(d)
    BY <1>3 DEF Intent
  <2>2. \A m \in ledger : Intent(m.call) # Intent(c)
    BY <1>3 DEF Effects
  <2> QED
    BY <1>3, <2>1, <2>2 DEF LedgerOfCalls, OncePerIntent
<1> QED
  BY <1>2, <1>3, MadeIsNew

LEMMA AnswersKept ==
    ASSUME IInv, StepShape
    PROVE  AnswersAreTrue'
<1> USE DEF IInv
<1> SUFFICES ASSUME NEW c \in Calls, NEW a \in Attempts, wire'[c][a] = "data",
                    call'[c].method = "POST"
             PROVE  Effects(Intent(c))' # {}
  BY DEF AnswersAreTrue
<1>1. CASE wire[c][a] = "data"
  <2>1. call[c] # Null /\ handler[c] # Null
    BY <1>1 DEF TypeOK
  <2>2. call[c].method = "POST"
    BY <2>1 DEF StepShape, RecordsKept
  <2> QED
    BY <1>1, <2>1, <2>2, EffectsKept DEF AnswersAreTrue
<1>2. CASE wire[c][a] # "data"
  <2>1. UNCHANGED <<call, handler>> /\ call[c] # Null /\ Perform(c)
    BY <1>2 DEF StepShape, AnsweredByReepay
  <2>2. handler[c] # Null /\ Intent(c)' = Intent(c)
    BY <2>1 DEF TypeOK, Intent
  <2>3. CASE KnownKey(call[c].key)
    BY <2>1, <2>2, <2>3, KnownMeansMade, EffectsKept
  <2>4. CASE ~KnownKey(call[c].key)
    <3>1. [call |-> c, key |-> call[c].key] \in ledger'
      BY <2>1, <2>4 DEF Perform
    <3> QED
      BY <2>2, <3>1 DEF Effects
  <2> QED
    BY <2>3, <2>4
<1> QED
  BY <1>1, <1>2

LEMMA SuccessKept ==
    ASSUME IInv, StepShape
    PROVE  SuccessMeansMade'
<1> USE DEF IInv
<1> SUFFICES ASSUME NEW c \in Calls, call'[c] # Null, call'[c].method = "POST",
                    call'[c].outcome = "data"
             PROVE  Effects(Intent(c))' # {}
  BY DEF SuccessMeansMade
<1>1. /\ call[c] # Null
      /\ call[c].outcome = "data" \/ wire[c][call[c].attempt] = "data"
  BY DEF StepShape, SuccessByAnswer
<1>2. call[c].method = "POST" /\ handler[c] # Null
  BY <1>1 DEF StepShape, RecordsKept, TypeOK
<1>3. call[c].attempt \in Attempts
  BY <1>1 DEF TypeOK, ClientTypeOK, Call
<1>4. Effects(Intent(c)) # {}
  BY <1>1, <1>2, <1>3 DEF SuccessMeansMade, AnswersAreTrue
<1> QED
  BY <1>2, <1>4, EffectsKept

\* The strengthening holds initially and every step keeps it.
LEMMA InitEstablishes == Init => IInv
<1> SUFFICES ASSUME Init PROVE IInv
  OBVIOUS
<1>1. /\ \A c \in Calls : call[c] = Null /\ handler[c] = Null
      /\ \A c \in Calls, a \in Attempts : wire[c][a] = "unsent"
      /\ ledger = {} /\ audit = {}
  BY DEF Init, ClientInit
<1>2. TypeOK
  BY <1>1 DEF Init, ClientInit, TypeOK, ClientTypeOK
<1> QED
  BY <1>1, <1>2 DEF IInv, KeysAreForAudited, CallsCarryKeys, LedgerOfCalls, OncePerIntent,
     AnswersAreTrue, SuccessMeansMade

LEMMA StepKeeps == IInv /\ [Next]_vars => IInv'
<1> SUFFICES ASSUME IInv, [Next]_vars PROVE IInv'
  OBVIOUS
<1>1. StepShape
  BY EveryStepHasShape DEF IInv
<1> QED
  BY <1>1, KeysKept, LedgerKept, AnswersKept, SuccessKept DEF IInv, StepShape

THEOREM Inductive == Spec => []IInv
  BY InitEstablishes, StepKeeps, PTL DEF Spec

\* The calls, the messages and the handlers keep their types, and no call is made but by its
\* handler.
THEOREM TypeCorrect == Spec => []TypeOK
<1>1. IInv => TypeOK
  BY DEF IInv
<1> QED
  BY <1>1, Inductive, PTL

\* Whatever is lost, late or unexpected, a handler reports success of what Reepay has done.
THEOREM SuccessHolds == Spec => []SuccessMeansMade
<1>1. IInv => SuccessMeansMade
  BY DEF IInv
<1> QED
  BY <1>1, Inductive, PTL

\* Nothing Reepay has carried out for an audited operation is missing from the audit log.
THEOREM AuditHolds == Spec => []EffectsAreAudited
<1>1. IInv => EffectsAreAudited
  <2> SUFFICES ASSUME IInv, NEW m \in ledger, handler[m.call].op \in Audited
               PROVE  m \in audit
    BY DEF EffectsAreAudited
  <2>1. m.call \in Calls /\ call[m.call] # Null /\ m = [call |-> m.call, key |-> call[m.call].key]
    BY DEF IInv, LedgerOfCalls
  <2> QED
    BY <2>1 DEF IInv, CallsCarryKeys
<1> QED
  BY <1>1, Inductive, PTL

-----------------------------------------------------------------------------
(* What is on the wire.                                                    *)

\* A call sends what it has not sent before only with its next attempt, and that is its first
\* one or a read.
SendsInOrder ==
    \A c \in Calls : call'[c] # Null =>
        \/ /\ call[c] # Null /\ call'[c].attempt = call[c].attempt
           /\ \A a \in Attempts : wire'[c][a] # "unsent" => wire[c][a] # "unsent"
        \/ /\ call[c] = Null /\ call'[c].attempt = 1
           /\ \A a \in Attempts : wire'[c][a] # "unsent" => a = 1
        \/ /\ call[c] # Null /\ call[c].method = "GET"
           /\ call'[c].attempt = call[c].attempt + 1
           /\ \A a \in Attempts :
                 wire'[c][a] # "unsent" => wire[c][a] # "unsent" \/ a = call'[c].attempt

LEMMA EveryStepSendsInOrder ==
    ASSUME TypeOK, [Next]_vars
    PROVE  SendsInOrder
<1> USE DEF SendsInOrder
<1>1. ASSUME UNCHANGED <<call, wire>> PROVE SendsInOrder
  BY <1>1
<1>2. ASSUME NEW c \in Calls, Start(c) PROVE SendsInOrder
  <2>1. /\ call[c] = Null /\ \A a \in Attempts : wire[c][a] = "unsent"
        /\ wire' = [wire EXCEPT ![c] = [wire[c] EXCEPT ![1] = "sent"]]
    BY <1>2 DEF Start, Request, TypeOK, ClientTypeOK
  <2>2. \A d \in Calls \ {c} : call'[d] = call[d]
    BY <1>2 DEF Start, Request, TypeOK, ClientTypeOK
  <2>3. call'[c].attempt = 1
    BY <1>2 DEF Start, Request, TypeOK, ClientTypeOK
  <2> QED
    BY <2>1, <2>2, <2>3 DEF TypeOK, ClientTypeOK
<1>3. ASSUME NEW c \in Calls, Client(Receive(c)) PROVE SendsInOrder
  <2>1. call[c] # Null /\ call[c] \in Call /\ UNCHANGED wire
    BY <1>3 DEF Client, Receive, Pending, TypeOK, ClientTypeOK
  <2>2. \A d \in Calls \ {c} : call'[d] = call[d]
    BY <1>3 DEF Client, Receive, TypeOK, ClientTypeOK
  <2>3. call'[c].attempt = call[c].attempt
    BY <1>3, <2>1 DEF Client, Receive, TypeOK, ClientTypeOK, Call
  <2> QED
    BY <2>1, <2>2, <2>3
<1>4. ASSUME NEW c \in Calls, NEW why \in Failures, Client(Fail(c, why)) PROVE SendsInOrder
  <2> DEFINE a == call[c].attempt
  <2>1. call[c] # Null /\ call[c] \in Call /\ a \in Attempts
    BY <1>4 DEF Client, Fail, Pending, TypeOK, ClientTypeOK, Call
  <2>2. \A d \in Calls \ {c} : call'[d] = call[d]
    BY <1>4 DEF Client, Fail, TypeOK, ClientTypeOK
  <2>3. CASE /\ a < AttemptsOf(call[c].method)
             /\ call' = [call EXCEPT ![c].attempt = AttemptAfter(a)]
             /\ wire' = [wire EXCEPT ![c][AttemptAfter(a)] = "sent"]
    <3>1. /\ call' = [call EXCEPT ![c].attempt = a + 1]
          /\ wire' = [wire EXCEPT ![c] = [wire[c] EXCEPT ![a + 1] = "sent"]]
      BY <2>3 DEF AttemptAfter
    <3>2. call[c].method = "GET"
      BY <2>1, <2>3 DEF AttemptsOf, Attempts, Call
    <3>3. call'[c].attempt = a + 1
      BY <2>1, <3>1 DEF TypeOK, ClientTypeOK, Call
    <3> QED
      BY <2>1, <2>2, <3>1, <3>2, <3>3 DEF TypeOK, ClientTypeOK
  <2>4. CASE call' = [call EXCEPT ![c].outcome = why] /\ UNCHANGED wire
    <3>1. call'[c].attempt = call[c].attempt
      BY <2>1, <2>4 DEF TypeOK, ClientTypeOK, Call
    <3> QED
      BY <2>1, <2>2, <2>4, <3>1
  <2> QED
    BY <1>4, <2>3, <2>4 DEF Client, Fail
<1>5. ASSUME NEW c \in Calls, NEW a \in Attempts, NEW reply \in Replies,
             Client(ReepayAnswers(c, a, reply))
      PROVE  SendsInOrder
  <2>1. UNCHANGED call
    BY <1>5 DEF Client, ReepayAnswers
  <2>2. /\ wire[c][a] = "sent" /\ call[c] # Null
        /\ wire' = [wire EXCEPT ![c] = [wire[c] EXCEPT ![a] = reply]]
    BY <1>5 DEF Client, ReepayAnswers, TypeOK, ClientTypeOK
  <2> QED
    BY <2>1, <2>2 DEF TypeOK, ClientTypeOK
<1>6. ASSUME Stop PROVE SendsInOrder
  <2> SUFFICES ASSUME NEW c \in Calls, call'[c] # Null
               PROVE  call[c] # Null /\ call'[c].attempt = call[c].attempt /\ UNCHANGED wire
    OBVIOUS
  <2>1. CASE Pending(c)
    <3>1. call[c] # Null /\ call[c] \in Call
      BY <2>1 DEF Pending, TypeOK, ClientTypeOK
    <3> QED
      BY <1>6, <2>1, <3>1 DEF Stop, Restart, Call
  <2>2. CASE ~Pending(c)
    BY <1>6, <2>2 DEF Stop, Restart
  <2> QED
    BY <2>1, <2>2
<1>7. ASSUME NEW c \in Calls, \/ \E op \in Ops, k \in ClientKeys \cup {Null} : Arrive(c, op, k)
                              \/ CheckPin(c) \/ FindUser(c)
      PROVE  SendsInOrder
  BY <1>1, <1>7 DEF Arrive, CheckPin, FindUser
<1> QED
  BY <1>1, <1>2, <1>3, <1>4, <1>5, <1>6, <1>7 DEF Next, vars

\* The messages of a call are those of its attempts so far, and a POST has one attempt.
SentSoFar ==
    /\ \A c \in Calls, a \in Attempts :
          (call[c] # Null /\ wire[c][a] # "unsent") => a <= call[c].attempt
    /\ \A c \in Calls : (call[c] # Null /\ call[c].method = "POST") => call[c].attempt = 1

LEMMA SentSoFarKept ==
    ASSUME TypeOK, SentSoFar, [Next]_vars
    PROVE  SentSoFar'
<1>1. SendsInOrder /\ TypeOK' /\ RecordsKept
  BY EveryStepSendsInOrder, EveryStepHasShape DEF StepShape
<1>2. \A c \in Calls : /\ call[c] # Null => call[c].attempt \in Nat
                       /\ call'[c] # Null => call'[c].attempt \in Nat
  BY <1>1, ClientAssumption DEF TypeOK, ClientTypeOK, Call, Attempts
<1>3. ASSUME NEW c \in Calls, NEW a \in Attempts, call'[c] # Null, wire'[c][a] # "unsent"
      PROVE  a <= call'[c].attempt
  BY <1>1, <1>2, <1>3, ClientAssumption DEF SendsInOrder, SentSoFar, Attempts
<1>4. ASSUME NEW c \in Calls, call'[c] # Null, call'[c].method = "POST"
      PROVE  call'[c].attempt = 1
  BY <1>1, <1>4 DEF SendsInOrder, SentSoFar, RecordsKept
<1> QED
  BY <1>3, <1>4 DEF SentSoFar

\* However a request that moves money fails or times out, its message leaves the server once.
THEOREM PostSentOnce == Spec => []PostIsSentOnce
<1>1. Init => SentSoFar
  BY DEF Init, ClientInit, SentSoFar
<1>2. TypeOK /\ SentSoFar /\ [Next]_vars => SentSoFar'
  BY SentSoFarKept
<1>3. TypeOK /\ SentSoFar => PostIsSentOnce
  BY ClientAssumption DEF TypeOK, SentSoFar, PostIsSentOnce, Attempts
<1> QED
  BY <1>1, <1>2, <1>3, TypeCorrect, PTL DEF Spec

-----------------------------------------------------------------------------
(* The refinement.                                                         *)

\* An intent has no effect or one.
LEMMA EffectsCounted ==
    ASSUME IInv, NEW i
    PROVE  Cardinality(Effects(i)) = IF Effects(i) = {} THEN 0 ELSE 1
<1>1. CASE Effects(i) = {}
  BY <1>1, FS_EmptySet
<1>2. CASE Effects(i) # {}
  <2>1. PICK m \in ledger : Intent(m.call) = i
    BY <1>2 DEF Effects
  <2>2. Effects(i) = {m}
    BY <2>1 DEF Effects, IInv, OncePerIntent
  <2> QED
    BY <1>2, <2>2, FS_Singleton
<1> QED
  BY <1>1, <1>2

Succeeded(c) == call[c] # Null /\ call[c].method = "POST" /\ call[c].outcome = "data"

Reported == {Intent(c) : c \in {d \in Calls : Succeeded(d)}}

\* A step tells of one more intent that was made, or of none.
LEMMA ReportedBySteps ==
    ASSUME IInv, StepShape
    PROVE  \/ Reported' = Reported
           \/ \E i \in Keys : /\ Effects(i) # {} /\ Reported' = Reported \cup {i}
                              /\ UNCHANGED <<handler, ledger>>
<1> USE DEF IInv, StepShape
<1>1. \A d \in Calls : Succeeded(d) => Succeeded(d)' /\ Intent(d)' = Intent(d)
  <2> SUFFICES ASSUME NEW d \in Calls, Succeeded(d)
               PROVE  Succeeded(d)' /\ Intent(d)' = Intent(d)
    OBVIOUS
  <2>1. handler[d] # Null
    BY DEF Succeeded, TypeOK
  <2> QED
    BY <2>1, EffectsKept DEF Succeeded, RecordsKept
<1>2. CASE \A d \in Calls : Succeeded(d)' => Succeeded(d)
  <2>1. Reported' = {Intent(c)' : c \in {d \in Calls : Succeeded(d)}}
    BY <1>1, <1>2 DEF Reported
  <2> QED
    BY <1>1, <2>1 DEF Reported
<1>3. ASSUME NEW c \in Calls, Succeeded(c)', ~Succeeded(c)
      PROVE  \E i \in Keys : /\ Effects(i) # {} /\ Reported' = Reported \cup {i}
                             /\ UNCHANGED <<handler, ledger>>
  <2>1. /\ call[c] # Null /\ call[c].method = "POST" /\ wire[c][call[c].attempt] = "data"
        /\ \A d \in Calls \ {c} : call'[d] = call[d]
        /\ UNCHANGED <<handler, ledger>>
    <3>1. call[c] # Null
      BY <1>3 DEF Succeeded, SuccessByAnswer
    <3>2. call[c].method = "POST" /\ call[c].outcome # "data"
      BY <1>3, <3>1 DEF Succeeded, RecordsKept
    <3> QED
      BY <1>3, <3>1, <3>2 DEF Succeeded, SuccessByAnswer
  <2>2. handler[c] # Null /\ call[c].attempt \in Attempts
    BY <2>1 DEF TypeOK, ClientTypeOK, Call
  <2>3. Intent(c) \in Keys /\ Effects(Intent(c)) # {}
    BY <2>1, <2>2, IntentType DEF AnswersAreTrue
  <2>4. \A d : Intent(d)' = Intent(d)
    BY <2>1 DEF Intent
  <2>5. \A d \in Calls : Succeeded(d)' <=> Succeeded(d) \/ d = c
    BY <1>1, <1>3, <2>1 DEF Succeeded
  <2>6. Reported' = Reported \cup {Intent(c)}
    BY <2>4, <2>5 DEF Reported
  <2> QED
    BY <2>1, <2>3, <2>6
<1> QED
  BY <1>2, <1>3

\* The handlers, the client and Reepay together implement the book: what the app repeats under
\* its key is made once, and success is told of what was made.
THEOREM MovementsImplementBook == Spec => ImplementsBook
<1> DEFINE made == [i \in Keys |-> Cardinality(Effects(i))]
<1>1. ASSUME Init PROVE Book!BookInit
  <2>1. \A i : Effects(i) = {}
    BY <1>1 DEF Init, ClientInit, Effects
  <2>2. \A d \in Calls : call[d] = Null
    BY <1>1 DEF Init, ClientInit
  <2> QED
    BY <2>1, <2>2, FS_EmptySet DEF Book!BookInit
<1>2. ASSUME IInv, IInv', [Next]_vars PROVE [Book!BookNext]_(Book!bvars)
  <2>1. StepShape
    BY <1>2, EveryStepHasShape DEF IInv
  <2>2. \A m \in ledger : Intent(m.call)' = Intent(m.call)
    BY <1>2, <2>1, EffectsKept DEF IInv, LedgerOfCalls, TypeOK
  <2>3. CASE ledger' = ledger
    <3>1. \A i : Effects(i)' = Effects(i)
      BY <2>2, <2>3 DEF Effects
    <3>2. made' = made
      BY <3>1
    <3>3. CASE Reported' = Reported
      BY <3>2, <3>3 DEF Reported, Succeeded, Book!bvars
    <3>4. ASSUME NEW i \in Keys, Effects(i) # {}, Reported' = Reported \cup {i}
          PROVE  Book!Report(i)
      <4>1. made[i] = 1
        BY <1>2, <3>4, EffectsCounted
      <4> QED
        BY <3>2, <3>4, <4>1 DEF Reported, Succeeded, Book!Report
    <3> QED
      BY <1>2, <2>1, <3>3, <3>4, ReportedBySteps DEF Book!BookNext
  <2>4. ASSUME NEW c \in Calls, call[c] # Null, Effects(Intent(c)) = {},
               ledger' = ledger \cup {[call |-> c, key |-> call[c].key]},
               UNCHANGED <<call, handler, audit>>
        PROVE  \E i \in Keys : Book!Make(i)
    <3> DEFINE m == [call |-> c, key |-> call[c].key]
    <3>1. PICK k \in Keys : k = Intent(c)
      BY <1>2, <2>4, IntentType DEF IInv, TypeOK
    <3>2. \A d : Intent(d)' = Intent(d)
      BY <2>4 DEF Intent
    <3>3. m.call = c /\ ledger' = ledger \cup {m}
      BY <2>4
    <3> HIDE DEF m
    <3>4. \A i : Effects(i)' = {n \in ledger' : Intent(n.call) = i}
      BY <3>2 DEF Effects
    <3>5. Effects(k)' = {m}
      BY <2>4, <3>1, <3>2, <3>3, <3>4 DEF Effects
    <3>6. \A i : i # k => Effects(i)' = Effects(i)
      BY <3>1, <3>2, <3>3, <3>4 DEF Effects
    <3>7. made[k] = 0
      BY <1>2, <2>4, <3>1, EffectsCounted
    <3>8. Cardinality(Effects(k)') = 1
      BY <3>5, FS_Singleton
    <3>9. made' = [i \in Keys |-> Cardinality(Effects(i)')]
      OBVIOUS
    <3>10. made' = [made EXCEPT ![k] = 1]
      <4>1. \A i \in Keys : Cardinality(Effects(i)') = IF i = k THEN 1 ELSE made[i]
        BY <3>6, <3>8
      <4> QED
        BY <3>9, <4>1
    <3>11. Reported' = Reported
      BY <2>4, <3>2 DEF Reported, Succeeded
    <3>12. Book!Make(k)
      BY <3>7, <3>10, <3>11 DEF Book!Make, Reported, Succeeded
    <3> QED
      BY <3>1, <3>12
  <2> QED
    BY <1>2, <2>1, <2>3, <2>4, MadeIsNew DEF Book!BookNext
<1> QED
  BY <1>1, <1>2, Inductive, PTL DEF Spec, ImplementsBook, Book!BookSpec

\* What follows for the app, and holds of the book whoever implements it: no movement is made
\* twice, and what was reported was made.
LEMMA BookKeepsPromise == Book!BookSpec => []Book!BookPromise
<1>1. Book!BookInit => Book!BookPromise
  BY DEF Book!BookInit, Book!BookPromise
<1>2. Book!BookPromise /\ [Book!BookNext]_(Book!bvars) => Book!BookPromise'
  <2> SUFFICES ASSUME Book!BookPromise, [Book!BookNext]_(Book!bvars)
               PROVE  Book!BookPromise'
    OBVIOUS
  <2> QED
    BY DEF Book!BookPromise, Book!BookNext, Book!bvars, Book!Make, Book!Report
<1> QED
  BY <1>1, <1>2, PTL DEF Book!BookSpec

\* No deposit, payout or conversion is made twice for one intent, and success is told only of
\* what was made.
THEOREM MovementsKeepPromise == Spec => []Book!BookPromise
  BY MovementsImplementBook, BookKeepsPromise, PTL DEF ImplementsBook

-----------------------------------------------------------------------------
(* Aggregates, the other module on top of the Reepay client: answers put  *)
(* together from several calls.                                            *)

\* An answer with data carries what is asked for, as it was at some moment since the handler
\* began.
AnswersCarry ==
    /\ since <= current
    /\ \A p \in Calls, a \in Attempts :
          wire[p][a] = "data" => /\ carried[p][a] \in Details
                                 /\ carried[p][a].part = p
                                 /\ carried[p][a].version \in since .. current

\* A call that ended with data ended with the answer to its last attempt.
OutcomesCarried ==
    \A p \in Calls :
        (call[p] # Null /\ call[p].outcome = "data") => wire[p][call[p].attempt] = "data"

\* How far the aggregator is, and which of its calls are made, under way or over.
CallsOfHandler ==
    /\ \A p \in Calls, a \in Attempts : wire[p][a] # "unsent" => call[p] # Null
    /\ AggregatorAt("settle") \/ AggregatorAt("answered")
          => \A p \in Parts(aggregator.kind) : call[p] # Null
    /\ \/ AggregatorAt("settle") \/ AggregatorAt("answered") \/ AggregatorAt("gone")
       \/ \A p \in Calls : call[p] = Null
    /\ AggregatorAt("answered") \/ AggregatorAt("gone") => \A p \in Calls : ~Pending(p)
    /\ AggregatorAt("settle") => \A p \in Calls : call[p] # Null => call[p].outcome # "gone"
    /\ AggregatorAt("answered") <=> answer # Null

AggregateInv ==
    /\ AggregateTypeOK /\ AnswersCarry /\ OutcomesCarried /\ CallsOfHandler
    /\ ValuesAreCurrent /\ MissingIsTold

\* Before the calls: only the aggregator moves.
LEMMA NothingCalledKeeps ==
    ASSUME AggregateInv, UNCHANGED <<call, wire, ledger, current, carried, answer>>,
           \A p \in Calls : call[p] = Null, answer = Null,
           aggregator' \in [kind: Kinds, step: {"user", "start", "refused"}],
           since' \in 0 .. current
    PROVE  AggregateInv'
<1> USE AggregatesAssumption, NullIsNoAnswer DEF AggregateInv
<1>1. /\ aggregator' \in [kind: Kinds, step: Steps] /\ aggregator' # Null
      /\ aggregator'.step \in {"user", "start", "refused"}
  BY DEF Steps
<1>2. AggregateTypeOK'
  <2>1. since' \in 0 .. MaxChanges
    BY DEF AggregateTypeOK
  <2> QED
    BY <1>1, <2>1 DEF AggregateTypeOK, ClientTypeOK
<1>3. \A p \in Calls, a \in Attempts : wire'[p][a] = "unsent"
  BY DEF CallsOfHandler
<1>4. AnswersCarry' /\ OutcomesCarried'
  BY <1>3 DEF AnswersCarry, OutcomesCarried
<1>5. CallsOfHandler'
  BY <1>1, <1>3 DEF CallsOfHandler, AggregatorAt, Pending
<1>6. ValuesAreCurrent' /\ MissingIsTold'
  BY DEF ValuesAreCurrent, MissingIsTold, Told
<1> QED
  BY <1>2, <1>4, <1>5, <1>6

LEMMA BeforeCallsKeep ==
    ASSUME AggregateInv,
           \/ \E kind \in Kinds, step \in {"user", "start"} : AskAggregate(kind, step)
           \/ FindWalletUser
    PROVE  AggregateInv'
<1> USE DEF AggregateInv
<1>1. \A p \in Calls : call[p] = Null
  BY DEF AskAggregate, FindWalletUser, AggregatorAt, CallsOfHandler
<1>2. answer = Null
  BY DEF AskAggregate, FindWalletUser, AggregatorAt, CallsOfHandler
<1>3. /\ aggregator' \in [kind: Kinds, step: {"user", "start", "refused"}]
      /\ since' \in 0 .. current
      /\ UNCHANGED <<call, wire, ledger, current, carried, answer>>
  <2>1. ASSUME NEW kind \in Kinds, NEW step \in {"user", "start"}, AskAggregate(kind, step)
        PROVE  <1>3
    BY <2>1 DEF AskAggregate, AggregateTypeOK
  <2>2. ASSUME FindWalletUser
        PROVE  <1>3
    BY <2>2 DEF FindWalletUser, AggregatorAt, Goto, AggregateTypeOK, AnswersCarry
  <2> QED
    BY <2>1, <2>2
<1> QED
  BY <1>1, <1>2, <1>3, NothingCalledKeeps

LEMMA StartCallsKeeps ==
    ASSUME AggregateInv, StartCalls
    PROVE  AggregateInv'
<1> USE AggregatesAssumption, NullIsNoAnswer DEF AggregateInv
<1> DEFINE S == Parts(aggregator.kind)
           new(p) == [method |-> MethodOf(aggregator.kind), attempt |-> 1, outcome |-> "pending",
                      key |-> IF aggregator.kind = "rates" THEN p ELSE Null]
<1>1. /\ aggregator \in [kind: Kinds, step: Steps] /\ aggregator # Null
      /\ aggregator.step = "start"
      /\ aggregator' \in [kind: Kinds, step: Steps] /\ aggregator' # Null
      /\ aggregator'.step = "settle"
      /\ aggregator'.kind = aggregator.kind
  BY DEF StartCalls, AggregatorAt, Goto, AggregateTypeOK, Steps
<1>2. /\ \A p \in Calls : call[p] = Null
      /\ answer = Null
      /\ UNCHANGED <<ledger, current, carried, answer, since>>
  BY <1>1 DEF StartCalls, AggregatorAt, CallsOfHandler
<1>3. S \subseteq Calls /\ 1 \in Attempts
  BY ClientAssumption DEF Parts, Attempts
<1>4. \A p \in Calls : new(p) \in Call /\ new(p) # Null /\ new(p).outcome = "pending"
  <2>1. \A p \in Calls : new(p) \in Call
    BY <1>3 DEF Call, MethodOf, Keys
  <2> QED
    BY <2>1, NullIsNoCall
<1>5. /\ call' = [p \in Calls |-> IF p \in S THEN new(p) ELSE Null]
      /\ wire' = [p \in Calls |-> IF p \in S THEN [wire[p] EXCEPT ![1] = "sent"] ELSE wire[p]]
  BY <1>2 DEF StartCalls
<1> HIDE DEF new
<1>6. \A p \in Calls, a \in Attempts : wire[p][a] = "unsent"
  BY <1>2 DEF CallsOfHandler
<1>7. \A p \in Calls, a \in Attempts :
         wire'[p][a] = IF p \in S /\ a = 1 THEN "sent" ELSE "unsent"
  BY <1>3, <1>5, <1>6 DEF AggregateTypeOK, ClientTypeOK
<1>8. AggregateTypeOK'
  <2>1. call' \in [Calls -> Call \cup {Null}]
    BY <1>4, <1>5
  <2>2. wire' \in [Calls -> [Attempts -> {"unsent", "sent"} \cup Replies]]
    BY <1>3, <1>5 DEF AggregateTypeOK, ClientTypeOK
  <2>3. \A p \in Calls : call'[p] # Null => aggregator' # Null /\ p \in Parts(aggregator'.kind)
    BY <1>1, <1>5
  <2> QED
    BY <1>1, <1>2, <2>1, <2>2, <2>3 DEF AggregateTypeOK, ClientTypeOK
<1>9. AnswersCarry' /\ OutcomesCarried'
  <2>1. \A p \in Calls, a \in Attempts : wire'[p][a] # "data"
    BY <1>7
  <2>2. \A p \in Calls : call'[p] = Null \/ call'[p].outcome # "data"
    BY <1>4, <1>5
  <2> QED
    BY <1>2, <2>1, <2>2 DEF AnswersCarry, OutcomesCarried
<1>10. CallsOfHandler'
  BY <1>1, <1>2, <1>3, <1>4, <1>5, <1>7 DEF CallsOfHandler, AggregatorAt, Pending
<1>11. ValuesAreCurrent' /\ MissingIsTold'
  BY <1>2 DEF ValuesAreCurrent, MissingIsTold, Told
<1> QED
  BY <1>8, <1>9, <1>10, <1>11

\* A call under way goes on or ends.
LEMMA CallMovesKeeps ==
    ASSUME AggregateInv, UNCHANGED <<ledger, current, carried, aggregator, answer, since>>,
           NEW p \in Calls, Pending(p), NEW q \in Call, call' = [call EXCEPT ![p] = q],
           q.outcome # "gone",
           wire' \in [Calls -> [Attempts -> {"unsent", "sent"} \cup Replies]],
           \A d \in Calls, a \in Attempts :
               wire'[d][a] = wire[d][a] \/ (d = p /\ wire'[d][a] = "sent"),
           q.outcome = "data" => wire'[p][q.attempt] = "data"
    PROVE  AggregateInv'
<1> USE DEF AggregateInv
<1>1. q # Null /\ call[p] # Null
  BY NullIsNoCall DEF Pending
<1>2. /\ answer = Null /\ aggregator # Null
      /\ AggregatorAt("settle") /\ ~AggregatorAt("answered") /\ ~AggregatorAt("gone")
  BY <1>1 DEF CallsOfHandler, AggregatorAt
<1>3. AggregateTypeOK'
  BY <1>1 DEF AggregateTypeOK, ClientTypeOK
<1>4. AnswersCarry'
  BY DEF AnswersCarry
<1>5. OutcomesCarried'
  <2> SUFFICES ASSUME NEW d \in Calls, call'[d] # Null, call'[d].outcome = "data"
               PROVE  wire'[d][call'[d].attempt] = "data"
    BY DEF OutcomesCarried
  <2>1. CASE d = p
    BY <2>1 DEF AggregateTypeOK, ClientTypeOK
  <2>2. CASE d # p
    <3>1. call'[d] = call[d]
      BY <2>2 DEF AggregateTypeOK, ClientTypeOK
    <3>2. wire[d][call[d].attempt] = "data" /\ call[d].attempt \in Attempts
      BY <3>1 DEF OutcomesCarried, AggregateTypeOK, ClientTypeOK, Call
    <3> QED
      BY <2>2, <3>1, <3>2
  <2> QED
    BY <2>1, <2>2
<1>6. CallsOfHandler'
  <2>1. \A d \in Calls : call'[d] = IF d = p THEN q ELSE call[d]
    BY DEF AggregateTypeOK, ClientTypeOK
  <2> QED
    BY <1>1, <1>2, <2>1 DEF CallsOfHandler, AggregatorAt, Pending
<1>7. ValuesAreCurrent' /\ MissingIsTold'
  BY <1>2 DEF ValuesAreCurrent, MissingIsTold, Told
<1> QED
  BY <1>3, <1>4, <1>5, <1>6, <1>7

LEMMA ReceiveKeeps ==
    ASSUME AggregateInv, NEW p \in Calls, PartCall(Receive(p))
    PROVE  AggregateInv'
<1> DEFINE reply == wire[p][call[p].attempt]
           q == [call[p] EXCEPT !.outcome = reply]
<1>1. /\ Pending(p) /\ call[p] \in Call /\ reply \in Replies
      /\ UNCHANGED <<ledger, current, carried, aggregator, answer, since, wire>>
  BY DEF PartCall, Receive, Pending, AggregateInv, AggregateTypeOK, ClientTypeOK
<1>2. q \in Call /\ q.outcome = reply /\ q.attempt = call[p].attempt
  BY <1>1 DEF Call
<1>3. call' = [call EXCEPT ![p] = q]
  BY DEF PartCall, Receive, OutcomeOf
<1>4. /\ wire' \in [Calls -> [Attempts -> {"unsent", "sent"} \cup Replies]]
      /\ q.outcome # "gone"
  BY <1>1, <1>2 DEF AggregateInv, AggregateTypeOK, ClientTypeOK, Replies
<1>5. q.outcome = "data" => wire'[p][q.attempt] = "data"
  BY <1>1, <1>2
<1> HIDE DEF q
<1> QED
  BY <1>1, <1>2, <1>3, <1>4, <1>5, CallMovesKeeps

LEMMA FailKeeps ==
    ASSUME AggregateInv, NEW p \in Calls, NEW why \in Failures,
           PartCall(Fail(p, why))
    PROVE  AggregateInv'
<1> DEFINE a == call[p].attempt
<1>1. /\ Pending(p) /\ call[p] \in Call /\ a \in Attempts
      /\ UNCHANGED <<ledger, current, carried, aggregator, answer, since>>
      /\ call[p].outcome = "pending"
  BY DEF PartCall, Fail, Pending, AggregateInv, AggregateTypeOK, ClientTypeOK, Call
<1>2. CASE /\ a < AttemptsOf(call[p].method)
           /\ call' = [call EXCEPT ![p].attempt = AttemptAfter(a)]
           /\ wire' = [wire EXCEPT ![p][AttemptAfter(a)] = "sent"]
  <2> DEFINE q == [call[p] EXCEPT !.attempt = a + 1]
  <2>1. a + 1 \in Attempts
    BY <1>1, <1>2, ClientAssumption DEF Attempts, AttemptsOf
  <2>2. q \in Call /\ q.outcome = "pending"
    BY <1>1, <2>1 DEF Call
  <2>3. /\ call' = [call EXCEPT ![p] = q]
        /\ wire' = [wire EXCEPT ![p] = [wire[p] EXCEPT ![a + 1] = "sent"]]
    BY <1>2 DEF AttemptAfter
  <2>4. /\ wire' \in [Calls -> [Attempts -> {"unsent", "sent"} \cup Replies]]
        /\ \A d \in Calls, b \in Attempts :
              wire'[d][b] = wire[d][b] \/ (d = p /\ wire'[d][b] = "sent")
    BY <2>1, <2>3 DEF AggregateInv, AggregateTypeOK, ClientTypeOK
  <2> HIDE DEF q
  <2> QED
    BY <1>1, <2>2, <2>3, <2>4, CallMovesKeeps
<1>3. CASE call' = [call EXCEPT ![p].outcome = why] /\ UNCHANGED wire
  <2> DEFINE q == [call[p] EXCEPT !.outcome = why]
  <2>1. q \in Call /\ q.outcome \notin {"data", "gone"}
    BY <1>1 DEF Call, Failures
  <2>2. /\ wire' \in [Calls -> [Attempts -> {"unsent", "sent"} \cup Replies]]
        /\ call' = [call EXCEPT ![p] = q]
    BY <1>3 DEF AggregateInv, AggregateTypeOK, ClientTypeOK
  <2> HIDE DEF q
  <2> QED
    BY <1>1, <1>3, <2>1, <2>2, CallMovesKeeps
<1> QED
  BY <1>2, <1>3 DEF PartCall, Fail

LEMMA ReplyKeeps ==
    ASSUME AggregateInv, NEW p \in Calls, NEW a \in Attempts,
           NEW reply \in Replies, Reply(p, a, reply)
    PROVE  AggregateInv'
<1> USE DEF AggregateInv
<1> DEFINE v == [part |-> p, version |-> current]
<1>1. /\ AggregatorAt("settle") /\ answer = Null /\ call[p] # Null /\ call[p] \in Call
      /\ wire' = [wire EXCEPT ![p] = [wire[p] EXCEPT ![a] = reply]]
      /\ wire[p][a] = "sent"
      /\ UNCHANGED <<call, current, aggregator, answer, since>>
  BY DEF Reply, ReepayAnswers, AggregatorAt, CallsOfHandler, AggregateTypeOK, ClientTypeOK
<1>2. /\ carried' \in [Calls -> [Attempts -> Details \cup {Null}]]
      /\ \A d \in Calls, b \in Attempts :
            carried'[d][b] = IF d = p /\ b = a /\ reply = "data" THEN v ELSE carried[d][b]
  <2>1. v \in Details
    BY DEF Details, AggregateTypeOK
  <2> QED
    BY <2>1 DEF Reply, AggregateTypeOK
<1>3. v \in Details /\ v.part = p /\ v.version \in since .. current
  BY DEF Details, AggregateTypeOK, AnswersCarry
<1> HIDE DEF v
<1>4. \A d \in Calls, b \in Attempts :
         wire'[d][b] = IF d = p /\ b = a THEN reply ELSE wire[d][b]
  BY <1>1 DEF AggregateTypeOK, ClientTypeOK
<1>5. AggregateTypeOK'
  <2>1. wire' \in [Calls -> [Attempts -> {"unsent", "sent"} \cup Replies]]
    BY <1>1 DEF AggregateTypeOK, ClientTypeOK
  <2>2. ledger' \subseteq Effect
    <3>1. [call |-> p, key |-> call[p].key] \in Effect
      BY <1>1 DEF Effect, Call
    <3> QED
      BY <3>1 DEF Reply, ReepayAnswers, Perform, AggregateTypeOK, ClientTypeOK
  <2> QED
    BY <1>1, <1>2, <2>1, <2>2 DEF AggregateTypeOK, ClientTypeOK
<1>6. AnswersCarry'
  BY <1>1, <1>2, <1>3, <1>4 DEF AnswersCarry
<1>7. OutcomesCarried'
  <2> SUFFICES ASSUME NEW d \in Calls, call[d] # Null, call[d].outcome = "data"
               PROVE  wire'[d][call[d].attempt] = "data"
    BY <1>1 DEF OutcomesCarried
  <2>1. call[d].attempt \in Attempts /\ wire[d][call[d].attempt] = "data"
    BY DEF OutcomesCarried, AggregateTypeOK, ClientTypeOK, Call
  <2> QED
    BY <1>1, <1>4, <2>1
<1>8. CallsOfHandler'
  BY <1>1, <1>4 DEF CallsOfHandler, AggregatorAt, Pending
<1>9. ValuesAreCurrent' /\ MissingIsTold'
  BY <1>1 DEF ValuesAreCurrent, MissingIsTold, Told
<1> QED
  BY <1>5, <1>6, <1>7, <1>8, <1>9

\* What the response says of a part.
LEMMA EntriesTold ==
    ASSUME AggregateInv, AggregatorAt("settle"), AllSettled,
           NEW p \in Parts(aggregator.kind)
    PROVE  LET e == EntryOf(p)
           IN  /\ e \in Entry
               /\ e.value # Null => /\ e.value.part = p
                                   /\ e.value.version \in since .. current
               /\ (e.value = Null) <=> (e.error \in {call[p].outcome} \ {"data", "pending"})
               /\ (e.value = Null) <=> (e.error # Null)
<1> USE AggregatesAssumption, NullIsNoAnswer DEF AggregateInv
<1>1. /\ p \in Calls /\ call[p] # Null /\ call[p] \in Call
      /\ call[p].outcome \in Replies \cup Failures
  BY DEF Parts, CallsOfHandler, AllSettled, Pending, AggregateTypeOK, ClientTypeOK,
     Call
<1>2. CASE call[p].outcome = "data"
  <2> DEFINE v == carried[p][call[p].attempt]
  <2>1. v \in Details /\ v.part = p /\ v.version \in since .. current
    BY <1>1, <1>2 DEF OutcomesCarried, AnswersCarry, Call
  <2>2. EntryOf(p) = [value |-> v, error |-> Null]
    BY <1>2 DEF EntryOf, Position
  <2> QED
    BY <1>2, <2>1, <2>2 DEF Entry
<1>3. CASE call[p].outcome # "data"
  <2>1. EntryOf(p) = [value |-> Null, error |-> call[p].outcome]
    BY <1>3 DEF EntryOf, Position
  <2>2. call[p].outcome # "pending"
    BY <1>1 DEF Replies, Failures
  <2>3. call[p].outcome # Null
    BY <1>1
  <2> QED
    BY <1>1, <1>3, <2>1, <2>2, <2>3 DEF Entry
<1> QED
  BY <1>2, <1>3

LEMMA AnswerKeeps ==
    ASSUME AggregateInv, Answer
    PROVE  AggregateInv'
<1> USE AggregatesAssumption, NullIsNoAnswer DEF AggregateInv
<1> DEFINE S == Parts(aggregator.kind)
<1>1. /\ AggregatorAt("settle") /\ AllSettled /\ aggregator \in [kind: Kinds, step: Steps]
      /\ aggregator' \in [kind: Kinds, step: Steps] /\ aggregator' # Null
      /\ aggregator'.step = "answered"
      /\ aggregator'.kind = aggregator.kind
      /\ UNCHANGED <<call, wire, ledger, current, carried, since>>
      /\ S \subseteq Calls
  BY DEF Answer, AggregatorAt, Goto, AggregateTypeOK, Steps, Parts
<1>2. /\ answer' = [partial |-> Partial,
                   entry |-> [p \in Calls |-> IF p \in S THEN EntryOf(p) ELSE Null]]
      /\ \A p \in S : EntryOf(p) \in Entry /\ EntryOf(p) # Null
  BY <1>1, EntriesTold DEF Answer
<1>3. answer' \in Response /\ answer' # Null
  <2>1. Partial \in BOOLEAN
    BY DEF Partial
  <2>2. [p \in Calls |-> IF p \in S THEN EntryOf(p) ELSE Null]
           \in [Calls -> Entry \cup {Null}]
    BY <1>2
  <2>3. answer' \in Response
    BY <1>2, <2>1, <2>2 DEF Response
  <2> QED
    BY <2>3
<1>4. AggregateTypeOK'
  BY <1>1, <1>3 DEF AggregateTypeOK, ClientTypeOK
<1>5. AnswersCarry' /\ OutcomesCarried'
  BY <1>1 DEF AnswersCarry, OutcomesCarried
<1>6. CallsOfHandler'
  BY <1>1, <1>3 DEF CallsOfHandler, AggregatorAt, AllSettled, Pending, AggregateTypeOK
<1>7. Told' = S /\ \A p \in S : answer'.entry[p] = EntryOf(p)
  BY <1>1, <1>2, <1>3 DEF Told
<1>8. ValuesAreCurrent'
  BY <1>1, <1>7, EntriesTold DEF ValuesAreCurrent
<1>9. MissingIsTold'
  <2>1. answer'.partial <=> \E p \in S : EntryOf(p).error # Null
    BY <1>2 DEF Partial
  <2>2. Parts(aggregator'.kind) = S
    BY <1>1
  <2> QED
    BY <1>1, <1>7, <2>1, <2>2, EntriesTold DEF MissingIsTold
<1> QED
  BY <1>4, <1>5, <1>6, <1>8, <1>9

LEMMA ChangeKeeps ==
    ASSUME AggregateInv, Change
    PROVE  AggregateInv'
<1> USE AggregatesAssumption, NullIsNoAnswer DEF AggregateInv
<1>1. /\ current' = current + 1 /\ current' \in 0 .. MaxChanges
      /\ UNCHANGED <<call, wire, ledger, carried, aggregator, answer, since>>
  BY DEF Change, AggregateTypeOK
<1>2. since .. current \subseteq since .. current'
  BY <1>1 DEF AggregateTypeOK
<1>3. AggregateTypeOK'
  BY <1>1 DEF AggregateTypeOK, ClientTypeOK
<1>4. AnswersCarry' /\ OutcomesCarried' /\ CallsOfHandler' /\ MissingIsTold'
  BY <1>1, <1>2 DEF AnswersCarry, OutcomesCarried, CallsOfHandler, AggregatorAt, Pending,
     MissingIsTold, Told, AggregateTypeOK
<1>5. ValuesAreCurrent'
  BY <1>1, <1>2 DEF ValuesAreCurrent, Told
<1> QED
  BY <1>3, <1>4, <1>5

LEMMA StopKeeps ==
    ASSUME AggregateInv, StopAggregate
    PROVE  AggregateInv'
<1> USE AggregatesAssumption, NullIsNoAnswer DEF AggregateInv
<1>1. /\ aggregator \in [kind: Kinds, step: Steps]
      /\ aggregator' \in [kind: Kinds, step: Steps] /\ aggregator' # Null
      /\ aggregator'.step = "gone"
      /\ aggregator'.kind = aggregator.kind
      /\ UNCHANGED <<wire, ledger, current, carried, answer, since>>
      /\ answer = Null
  BY DEF StopAggregate, AggregatorAt, Goto, AggregateTypeOK, Steps, CallsOfHandler
<1>2. \A p \in Calls : \/ call'[p] = call[p] /\ ~Pending(p)
                       \/ /\ Pending(p) /\ call'[p] \in Call /\ call'[p] # Null
                          /\ call'[p].outcome = "gone"
  <2> SUFFICES ASSUME NEW p \in Calls, Pending(p)
               PROVE  call'[p] \in Call /\ call'[p] # Null /\ call'[p].outcome = "gone"
    BY DEF StopAggregate
  <2>1. call'[p] = [call[p] EXCEPT !.outcome = "gone"] /\ call[p] \in Call
    BY DEF StopAggregate, Pending, AggregateTypeOK, ClientTypeOK
  <2>2. call'[p] \in Call /\ call'[p].outcome = "gone"
    BY <2>1 DEF Call
  <2> QED
    BY <2>2, NullIsNoCall
<1>3. AggregateTypeOK'
  <2>1. call' \in [Calls -> Call \cup {Null}]
    <3>1. call' = [p \in Calls |-> call'[p]]
      BY DEF StopAggregate
    <3> QED
      BY <1>2, <3>1 DEF AggregateTypeOK, ClientTypeOK
  <2>2. \A p \in Calls : call'[p] # Null => aggregator' # Null /\ p \in Parts(aggregator'.kind)
    BY <1>1, <1>2 DEF AggregateTypeOK, Pending
  <2> QED
    BY <1>1, <2>1, <2>2 DEF AggregateTypeOK, ClientTypeOK
<1>4. AnswersCarry' /\ OutcomesCarried'
  BY <1>1, <1>2 DEF AnswersCarry, OutcomesCarried
<1>5. CallsOfHandler'
  BY <1>1, <1>2 DEF CallsOfHandler, AggregatorAt, Pending
<1>6. ValuesAreCurrent' /\ MissingIsTold'
  BY <1>1 DEF ValuesAreCurrent, MissingIsTold, Told
<1> QED
  BY <1>3, <1>4, <1>5, <1>6

LEMMA AggregateInitially ==
    ASSUME AggregateInit
    PROVE  AggregateInv
<1>1. /\ call = [c \in Calls |-> Null]
      /\ wire = [c \in Calls |-> [a \in Attempts |-> "unsent"]]
      /\ ledger = {} /\ current = 0 /\ since = 0 /\ aggregator = Null /\ answer = Null
      /\ carried = [p \in Calls |-> [a \in Attempts |-> Null]]
  BY DEF AggregateInit, ClientInit
<1>2. AggregateTypeOK
  BY <1>1, AggregatesAssumption DEF AggregateTypeOK, ClientTypeOK
<1> QED
  BY <1>1, <1>2 DEF AggregateInv, AnswersCarry, OutcomesCarried, CallsOfHandler, AggregatorAt,
     ValuesAreCurrent, MissingIsTold, Told

LEMMA AggregateStep ==
    ASSUME AggregateInv, [AggregateNext]_avars
    PROVE  AggregateInv'
<1>1. CASE AggregateNext
  BY <1>1, BeforeCallsKeep, StartCallsKeeps, ReceiveKeeps, FailKeeps, ReplyKeeps, AnswerKeeps,
     ChangeKeeps, StopKeeps DEF AggregateNext
<1>2. CASE UNCHANGED avars
  BY <1>2 DEF avars, AggregateInv, AggregateTypeOK, ClientTypeOK, AnswersCarry,
     OutcomesCarried, CallsOfHandler, AggregatorAt, Pending, ValuesAreCurrent,
     MissingIsTold, Told
<1> QED
  BY <1>1, <1>2

-----------------------------------------------------------------------------
THEOREM AggregateInductive == AggregateSpec => []AggregateInv
<1>1. AggregateInit => AggregateInv
  BY AggregateInitially
<1>2. AggregateInv /\ [AggregateNext]_avars => AggregateInv'
  BY AggregateStep
<1> QED
  BY <1>1, <1>2, PTL DEF AggregateSpec

\* The aggregator of an aggregate, its calls and its response keep their types.
THEOREM AggregateTypes == AggregateSpec => []AggregateTypeOK
<1>1. AggregateInv => AggregateTypeOK
  BY DEF AggregateInv
<1> QED
  BY <1>1, AggregateInductive, PTL

\* However the calls of a summary or of the rates overlap, fail or are answered late, each
\* value stands under the wallet or pair it is about, and is no older than the request.
THEOREM AggregatesCurrent == AggregateSpec => []ValuesAreCurrent
<1>1. AggregateInv => ValuesAreCurrent
  BY DEF AggregateInv
<1> QED
  BY <1>1, AggregateInductive, PTL

\* A part that could not be fetched is told with the reason its call ended with, and the
\* response is partial exactly then.
THEOREM MissingTold == AggregateSpec => []MissingIsTold
<1>1. AggregateInv => MissingIsTold
  BY DEF AggregateInv
<1> QED
  BY <1>1, AggregateInductive, PTL
=============================================================================
