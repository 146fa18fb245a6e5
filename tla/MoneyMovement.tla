---------------------------- MODULE MoneyMovement ----------------------------
(***************************************************************************)
(* Deposits, payouts, wallet funding and reads of Reepay: the handlers of  *)
(* src/deposits, src/payouts, src/fx and src/wallet on top of the Reepay   *)
(* client.  A handler checks the PIN where it must, resolves the           *)
(* Idempotency-Key, writes an audit record and makes one call.             *)
(***************************************************************************)
EXTENDS ReepayClient

CONSTANT Ops    \* the operations a run uses

OpNames == {"deposit", "confirm", "quote", "rate", "validate", "preview", "verify", "read"}

ASSUME OpsAssumption == Ops \subseteq OpNames

VARIABLES
    handler,  \* handler[c]: the HTTP request that makes call c, or Null
    audit     \* the records written to the audit log

vars == <<call, wire, ledger, handler, audit>>

\* deposit: createXafDeposit; confirm: confirmEurIbanPayout, confirmEurWiseTagPayout,
\* confirmUsdcAddressPayout, confirmWalletFunding; quote: the quotes of payouts and wallet
\* funding; rate: getRate; validate: validateEurRecipient; preview: previewXafDeposit;
\* verify: verifyDeposit; read: every GET
NeedsPin == {"deposit", "confirm", "validate"}

NeedsUser == {"deposit", "preview"}

Audited == {"deposit", "confirm", "quote"}

Keyed == Audited \cup {"rate"}

Method(op) == IF op = "read" THEN "GET" ELSE "POST"

Handler == [op: OpNames, step: {"pin", "user", "start", "called", "refused"},
            clientKey: ClientKeys \cup {Null}]

ASSUME NullIsNoHandler == Null \notin Handler

TypeOK ==
    /\ ClientTypeOK
    /\ handler \in [Calls -> Handler \cup {Null}]
    /\ audit \subseteq Effect
    /\ \A c \in Calls :
          call[c] # Null => /\ handler[c] # Null
                            /\ handler[c].step = "called"
                            /\ call[c].method = Method(handler[c].op)
    /\ \A c \in Calls, a \in Attempts : wire[c][a] # "unsent" => call[c] # Null

Init ==
    /\ ClientInit
    /\ handler = [c \in Calls |-> Null]
    /\ audit = {}

-----------------------------------------------------------------------------
At(c, step) == handler[c] # Null /\ handler[c].step = step

AfterPin(op) == IF op \in NeedsUser THEN "user" ELSE "start"

\* The app sends a request, with a key of its own where the controller takes one.  It uses a
\* key again only to repeat the same operation.
Arrive(c, op, k) ==
    /\ handler[c] = Null
    /\ k # Null => /\ op \in Audited
                   /\ \A d \in Calls : handler[d] # Null /\ handler[d].clientKey = k
                                          => handler[d].op = op
    /\ handler' = [handler EXCEPT ![c] =
                     [op |-> op, step |-> IF op \in NeedsPin THEN "pin" ELSE AfterPin(op),
                      clientKey |-> k]]
    /\ UNCHANGED <<call, wire, ledger, audit>>

\* assertSensitivePin
CheckPin(c) ==
    /\ At(c, "pin")
    /\ \E step \in {AfterPin(handler[c].op), "refused"} :
          handler' = [handler EXCEPT ![c].step = step]
    /\ UNCHANGED <<call, wire, ledger, audit>>

\* findByIdOrThrow of createXafDeposit and previewXafDeposit
FindUser(c) ==
    /\ At(c, "user")
    /\ \E step \in {"start", "refused"} : handler' = [handler EXCEPT ![c].step = step]
    /\ UNCHANGED <<call, wire, ledger, audit>>

\* Mutant: the header is not looked at
GeneratedKey(c) == c

\* resolveIdempotencyKey
ResolvedKey(c) == IF handler[c].clientKey # Null THEN handler[c].clientKey ELSE c

\* Mutant: the audit record carries the header instead of the resolved key
AuditedHeader(c) == [call |-> c, key |-> handler[c].clientKey]

AuditRecord(c) == [call |-> c, key |-> ResolvedKey(c)]

\* Without an await between them: the key, the audit record, the fetch
Start(c) ==
    /\ At(c, "start")
    /\ audit' = IF handler[c].op \in Audited THEN audit \cup {AuditRecord(c)} ELSE audit
    /\ Request(c, Method(handler[c].op), IF handler[c].op \in Keyed THEN ResolvedKey(c) ELSE Null)
    /\ handler' = [handler EXCEPT ![c].step = "called"]

Client(A) == A /\ UNCHANGED <<handler, audit>>

\* Restart of the client, and of the handlers that have not come to it
Stop ==
    /\ Restart
    /\ handler' = [c \in Calls |->
                     IF At(c, "pin") \/ At(c, "user") \/ At(c, "start")
                     THEN [handler[c] EXCEPT !.step = "refused"] ELSE handler[c]]
    /\ UNCHANGED audit

Next ==
    \/ \E c \in Calls :
          \/ \E op \in Ops, k \in ClientKeys \cup {Null} : Arrive(c, op, k)
          \/ CheckPin(c)
          \/ FindUser(c)
          \/ Start(c)
          \/ Client(Receive(c))
          \/ \E why \in Failures : Client(Fail(c, why))
          \/ \E a \in Attempts, reply \in Replies : Client(ReepayAnswers(c, a, reply))
    \/ Stop

Spec == Init /\ [][Next]_vars

\* The timer of send() is cleared only when the attempt is over, so it fires.
FairSpec == Spec /\ \A c \in Calls : WF_vars(Client(Fail(c, "timeout")))

-----------------------------------------------------------------------------
\* What the request of call c is meant to do: the app's key names it, or the request itself
Intent(c) == IF handler[c].clientKey # Null THEN handler[c].clientKey ELSE c

Effects(i) == {m \in ledger : Intent(m.call) = i}

\* A handler that answers with success answers for something Reepay has done: an unexpected
\* or failed response is never taken for a success.
SuccessMeansMade ==
    \A c \in Calls : (call[c] # Null /\ call[c].method = "POST" /\ call[c].outcome = "data")
                         => Effects(Intent(c)) # {}

\* A request that moves money is on the wire once, whatever becomes of it: only a read is
\* sent again after a timeout or a broken connection (attempts in request()).
PostIsSentOnce ==
    \A c \in Calls : (call[c] # Null /\ call[c].method = "POST")
                         => \A a \in Attempts : a > 1 => wire[c][a] = "unsent"

\* Of every deposit, payout, conversion and quote Reepay has carried out there is an audit
\* record, and it names the key Reepay knows it by: also when the answer was lost and the
\* server has stopped since.
EffectsAreAudited ==
    \A m \in ledger : handler[m.call].op \in Audited => m \in audit

\* A call of request() ends: Reepay answers, the attempts are used up, or the server stops.
CallsEnd == \A c \in Calls : Pending(c) ~> ~Pending(c)

Book == INSTANCE MovementBook WITH
    Intents <- Keys,
    made <- [i \in Keys |-> Cardinality(Effects(i))],
    reported <- {Intent(c) : c \in {d \in Calls : /\ call[d] # Null
                                                  /\ call[d].method = "POST"
                                                  /\ call[d].outcome = "data"}}

\* What the app relies on when it repeats a confirmed movement under its key, after a timeout,
\* an error or a restart of the server: the key reaches Reepay unchanged and nothing is made
\* twice.  Every step of the handlers, of the client and of Reepay is one of the book or
\* leaves it as it is.
ImplementsBook == Book!BookSpec
=============================================================================
