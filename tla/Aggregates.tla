----------------------------- MODULE Aggregates -----------------------------
(***************************************************************************)
(* Answers put together from several calls of Reepay: the wallet summary   *)
(* (getSummary in src/wallet/wallet.service.ts, for the user and, through  *)
(* AdminService.getUserWallets, for an administrator) and the exchange     *)
(* rates (getRates in src/fx/fx.service.ts).  The calls run side by side,  *)
(* each with its attempts and timeouts, and each may fail alone.           *)
(***************************************************************************)
EXTENDS ReepayClient

CONSTANTS
    Wallets,     \* the calls of a summary, named for the wallet they fetch
    Rates,       \* the calls of getRates, named for the pair they quote
    MaxChanges   \* bound: changes at Reepay

ASSUME AggregatesAssumption ==
    /\ Wallets \subseteq Calls /\ Rates \subseteq Calls
    /\ MaxChanges \in Nat

VARIABLES
    current,   \* version of what Reepay would answer now
    carried,   \* carried[p][a]: what the answer to attempt a of p carries
    aggregator,   \* the handler: its kind and the await it stands before, or Null
    answer,    \* answer[p]: what the response says of part p, or Null before it is sent
    since      \* history: the version that was current when the handler began

avars == <<call, wire, ledger, current, carried, aggregator, answer, since>>

Kinds == {"summary", "rates"}

Parts(kind) == IF kind = "rates" THEN Rates ELSE Wallets

MethodOf(kind) == IF kind = "rates" THEN "POST" ELSE "GET"

\* What Reepay sends names the wallet or pair it is about.
Details == [part: Calls, version: 0 .. MaxChanges]

\* A value, or an error in walletErrors or rateErrors
Entry == [value: Details \cup {Null}, error: Replies \cup Failures \cup {Null}]

Response == [partial: BOOLEAN, entry: [Calls -> Entry \cup {Null}]]

Steps == {"user", "start", "settle", "answered", "refused", "gone"}

ASSUME NullIsNoAnswer ==
    /\ Null \notin Replies \cup Failures
    /\ Null \notin Details /\ Null \notin Entry /\ Null \notin Response
    /\ Null \notin [kind: Kinds, step: Steps]

AggregateTypeOK ==
    /\ ClientTypeOK
    /\ current \in 0 .. MaxChanges
    /\ carried \in [Calls -> [Attempts -> Details \cup {Null}]]
    /\ aggregator \in [kind: Kinds, step: Steps] \cup {Null}
    /\ answer \in Response \cup {Null}
    /\ since \in 0 .. MaxChanges
    /\ \A p \in Calls : call[p] # Null => aggregator # Null /\ p \in Parts(aggregator.kind)

AggregateInit ==
    /\ ClientInit
    /\ current = 0
    /\ carried = [p \in Calls |-> [a \in Attempts |-> Null]]
    /\ aggregator = Null
    /\ answer = Null
    /\ since = 0

-----------------------------------------------------------------------------
AggregatorAt(step) == aggregator # Null /\ aggregator.step = step

Goto(step) == aggregator' = [aggregator EXCEPT !.step = step]

\* A user asks for the summary or the rates, or an administrator for a user's wallets.
AskAggregate(kind, step) ==
    /\ aggregator = Null
    /\ step = "user" => kind = "summary"
    /\ aggregator' = [kind |-> kind, step |-> step]
    /\ since' = current
    /\ UNCHANGED <<call, wire, ledger, current, carried, answer>>

\* findUser of getUserWallets
FindWalletUser ==
    /\ AggregatorAt("user")
    /\ Goto("start") \/ Goto("refused")
    /\ UNCHANGED <<call, wire, ledger, current, carried, answer, since>>

\* The list given to Promise.allSettled: every call is on the wire before the first await.
StartCalls ==
    LET S == Parts(aggregator.kind)
    IN  /\ AggregatorAt("start")
        /\ call' = [p \in Calls |->
                      IF p \notin S THEN call[p]
                      ELSE [method |-> MethodOf(aggregator.kind), attempt |-> 1,
                            outcome |-> "pending",
                            key |-> IF aggregator.kind = "rates" THEN p ELSE Null]]
        /\ wire' = [p \in Calls |-> IF p \in S THEN [wire[p] EXCEPT ![1] = "sent"] ELSE wire[p]]
        /\ Goto("settle")
        /\ UNCHANGED <<ledger, current, carried, answer, since>>

\* Promise.allSettled
AllSettled == \A p \in Parts(aggregator.kind) : ~Pending(p)

\* Mutant: the list is in another order than the pattern it is assigned to
PositionSwapped(p) ==
    IF \E q \in Parts(aggregator.kind) : q # p /\ call[q].outcome = "data"
    THEN CHOOSE q \in Parts(aggregator.kind) : q # p /\ call[q].outcome = "data"
    ELSE p

\* const [xaf, eur, usdc] = ...
Position(p) == p

\* status, value or null, getWalletError or getRateError
EntryOf(p) ==
    LET q == Position(p)
    IN  IF call[q].outcome = "data"
        THEN [value |-> carried[q][call[q].attempt], error |-> Null]
        ELSE [value |-> Null, error |-> call[q].outcome]

\* Mutant: partial when nothing could be fetched
PartialWhenEmpty == \A p \in Parts(aggregator.kind) : EntryOf(p).error # Null

\* Object.keys(filteredErrors).length > 0
Partial == \E p \in Parts(aggregator.kind) : EntryOf(p).error # Null

Answer ==
    /\ AggregatorAt("settle")
    /\ AllSettled
    /\ answer' = [partial |-> Partial,
                  entry |-> [p \in Calls |-> IF p \in Parts(aggregator.kind) THEN EntryOf(p)
                                             ELSE Null]]
    /\ Goto("answered")
    /\ UNCHANGED <<call, wire, ledger, current, carried, since>>

-----------------------------------------------------------------------------
PartCall(A) == A /\ UNCHANGED <<current, carried, aggregator, answer, since>>

\* Of interest until the handler has ended
Reply(p, a, reply) ==
    /\ AggregatorAt("settle")
    /\ ReepayAnswers(p, a, reply)
    /\ carried' = IF reply = "data"
                  THEN [carried EXCEPT ![p][a] = [part |-> p, version |-> current]] ELSE carried
    /\ UNCHANGED <<current, aggregator, answer, since>>

\* A payment or a conversion, another exchange rate
Change ==
    /\ current < MaxChanges
    /\ current' = current + 1
    /\ UNCHANGED <<call, wire, ledger, carried, aggregator, answer, since>>

\* The process stops.
StopAggregate ==
    /\ AggregatorAt("user") \/ AggregatorAt("start") \/ AggregatorAt("settle")
    /\ Goto("gone")
    /\ call' = [p \in Calls |->
                  IF Pending(p) THEN [call[p] EXCEPT !.outcome = "gone"] ELSE call[p]]
    /\ UNCHANGED <<wire, ledger, current, carried, answer, since>>

AggregateNext ==
    \/ \E kind \in Kinds, step \in {"user", "start"} : AskAggregate(kind, step)
    \/ FindWalletUser
    \/ StartCalls
    \/ \E p \in Calls :
          \/ PartCall(Receive(p))
          \/ \E why \in Failures : PartCall(Fail(p, why))
          \/ \E a \in Attempts, reply \in Replies : Reply(p, a, reply)
    \/ Answer
    \/ Change
    \/ StopAggregate

AggregateSpec == AggregateInit /\ [][AggregateNext]_avars

\* The timer of each attempt fires, and the event loop goes on with a handler that can.
AggregateFairSpec ==
    /\ AggregateSpec
    /\ \A p \in Calls : WF_avars(PartCall(Fail(p, "timeout")))
    /\ WF_avars(StartCalls) /\ WF_avars(Answer)

-----------------------------------------------------------------------------
Told == {p \in Calls : answer # Null /\ answer.entry[p] # Null}

\* Every value in the response is about the wallet or pair it stands under, and was Reepay's
\* answer for it at some moment while the handler ran: no answer of another call, no answer
\* that came too late for an attempt, and none from before (getSummary, getRates).
ValuesAreCurrent ==
    \A p \in Told :
        LET v == answer.entry[p].value
        IN  v # Null => v.part = p /\ v.version \in since .. current

\* The response accounts for each part: a value, or the reason its call really ended with; and
\* it is called partial exactly when a value is missing, be it one, several or all.
MissingIsTold ==
    answer # Null =>
        /\ Told = Parts(aggregator.kind)
        /\ \A p \in Told :
              LET e == answer.entry[p]
              IN  (e.value = Null) <=> (e.error \in {call[p].outcome} \ {"data", "pending"})
        /\ answer.partial <=> \E p \in Told : answer.entry[p].value = Null

\* Whatever Reepay does, a handler that has begun its calls ends: one silent wallet does not
\* keep the others back for ever.
AggregateIsAnswered == AggregatorAt("start") ~> (AggregatorAt("answered") \/ AggregatorAt("gone"))
=============================================================================
