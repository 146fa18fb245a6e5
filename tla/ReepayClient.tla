---------------------------- MODULE ReepayClient ----------------------------
(***************************************************************************)
(* The HTTP client every money movement goes through                       *)
(* (src/reepay-client/reepay-client.service.ts): one call of `request`,    *)
(* its attempts, its timeout, and how it ends.                             *)
(*                                                                         *)
(* Reepay and the network are the environment.  A message may be answered  *)
(* late, after its attempt was given up, or never, and an effect may have  *)
(* happened although the caller was told of a failure.                     *)
(***************************************************************************)
EXTENDS Integers, FiniteSets

CONSTANTS
    Calls,            \* calls of request(); a call's randomUUID() key is the call itself
    ClientKeys,       \* values of the Idempotency-Key header the app sends
    SafeReadRetries,  \* SAFE_READ_RETRIES
    Null              \* no call yet, no key

ASSUME ClientAssumption ==
    /\ SafeReadRetries \in Nat
    /\ Null \notin Calls \cup ClientKeys
    /\ Calls \cap ClientKeys = {}

VARIABLES
    call,    \* call[c]: the loop of request() for call c, or Null
    wire,    \* wire[c][a]: what became of the message of attempt a of call c
    ledger   \* what Reepay has carried out: the effects of POSTs

clientVars == <<call, wire, ledger>>

Attempts == 1 .. SafeReadRetries + 1

Keys == Calls \cup ClientKeys

\* A 2xx with data, a 2xx without, any other status
Replies == {"data", "invalid", "error"}

Failures == {"timeout", "network"}

\* outcome: "pending" while the loop runs, "gone" when its process stopped
Call == [method: {"GET", "POST"}, key: Keys \cup {Null}, attempt: Attempts,
         outcome: {"pending", "gone"} \cup Replies \cup Failures]

ASSUME NullIsNoCall == Null \notin Call

Effect == [call: Calls, key: Keys \cup {Null}]

ClientTypeOK ==
    /\ call \in [Calls -> Call \cup {Null}]
    /\ wire \in [Calls -> [Attempts -> {"unsent", "sent"} \cup Replies]]
    /\ ledger \subseteq Effect

ClientInit ==
    /\ call = [c \in Calls |-> Null]
    /\ wire = [c \in Calls |-> [a \in Attempts |-> "unsent"]]
    /\ ledger = {}

-----------------------------------------------------------------------------
Pending(c) == call[c] # Null /\ call[c].outcome = "pending"

\* request() up to the first fetch
Request(c, method, key) ==
    /\ call[c] = Null
    /\ call' = [call EXCEPT ![c] = [method |-> method, key |-> key, attempt |-> 1,
                                    outcome |-> "pending"]]
    /\ wire' = [wire EXCEPT ![c][1] = "sent"]
    /\ UNCHANGED ledger

\* Mutant: every request is retried
AttemptsOfAny(method) == SafeReadRetries + 1

AttemptsOf(method) == IF method = "GET" THEN SafeReadRetries + 1 ELSE 1

\* Mutant: a success response without data is passed on
OutcomeOfAny(reply) == IF reply = "invalid" THEN "data" ELSE reply

\* unwrapData refuses a success response without data, toReepayException any other status:
\* both are a ReepayClientException, which ends the loop.
OutcomeOf(reply) == reply

Receive(c) ==
    /\ Pending(c)
    /\ wire[c][call[c].attempt] \in Replies
    /\ call' = [call EXCEPT ![c].outcome = OutcomeOf(wire[c][call[c].attempt])]
    /\ UNCHANGED <<wire, ledger>>

\* Mutant: the loop does not count
AttemptAgain(a) == a

AttemptAfter(a) == a + 1

\* fetch rejects: the timer aborted it, or the connection failed; whether the message arrived,
\* and whether an answer is under way, is not known.
Fail(c, why) ==
    LET a == call[c].attempt
    IN  /\ Pending(c)
        /\ \/ /\ a < AttemptsOf(call[c].method)
              /\ call' = [call EXCEPT ![c].attempt = AttemptAfter(a)]
              /\ wire' = [wire EXCEPT ![c][AttemptAfter(a)] = "sent"]
           \/ /\ a >= AttemptsOf(call[c].method)
              /\ call' = [call EXCEPT ![c].outcome = why]
              /\ UNCHANGED wire
        /\ UNCHANGED ledger

\* The process stops: nobody waits any more.
Restart ==
    /\ \E c \in Calls : Pending(c)
    /\ call' = [c \in Calls |->
                  IF Pending(c) THEN [call[c] EXCEPT !.outcome = "gone"] ELSE call[c]]
    /\ UNCHANGED <<wire, ledger>>

-----------------------------------------------------------------------------
(* Reepay                                                                  *)

\* Reepay carries out what an Idempotency-Key asks for once.
KnownKey(key) == key # Null /\ \E m \in ledger : m.key = key

Perform(c) ==
    ledger' = IF KnownKey(call[c].key) THEN ledger
              ELSE ledger \cup {[call |-> c, key |-> call[c].key]}

\* An answer with data says the thing was done; any other leaves open whether it was.
ReepayAnswers(c, a, reply) ==
    /\ wire[c][a] = "sent"
    /\ wire' = [wire EXCEPT ![c][a] = reply]
    /\ \/ call[c].method = "POST" /\ Perform(c)
       \/ (call[c].method = "GET" \/ reply # "data") /\ UNCHANGED ledger
    /\ UNCHANGED call

ClientNext ==
    \/ \E c \in Calls :
          \/ Receive(c)
          \/ \E why \in Failures : Fail(c, why)
          \/ \E a \in Attempts, reply \in Replies : ReepayAnswers(c, a, reply)
    \/ Restart
=============================================================================
