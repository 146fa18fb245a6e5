----------------------------- MODULE OtpProofs -----------------------------
(***************************************************************************)
(* What is proved of Otp for any number of requests and codes, any limits  *)
(* and any interleaving of the handlers.                                   *)
(***************************************************************************)
EXTENDS Otp, FiniteSetTheorems, TLAPS

N == Cardinality(Requests)

\* The sets that the bounds count
Failing(c) == {r \in Requests : At(r, "fail") /\ req[r].otp = c}
Creating(p) == {r \in Requests : At(r, "create") /\ Purpose(r) = p}
Consuming(c) == {r \in Requests : At(r, "consume") /\ req[r].otp = c}

\* A handler past its create or its findFirst works on a row there is.
HandlersHaveRows ==
    \A r \in Requests : req[r].step \in {"email", "fail", "consume"} =>
        req[r].otp \in CodeIds /\ codes[req[r].otp] # Null

\* Rows are created in the order of their numbers.
RowsAreIssued == \A c \in CodeIds : c > issued => codes[c] = Null

\* Nobody has used a code that is not consumed, so its first uses come from requests that
\* stand before their update now.
UnconsumedIsUnused ==
    \A c \in CodeIds : codes[c] = Null \/ ~codes[c].consumed => uses[c] = 0

RowsInv == HandlersHaveRows /\ RowsAreIssued /\ UnconsumedIsUnused

Bounds == GuessesBounded /\ OutstandingBounded /\ UsesPerCodeBounded

IInv == TypeOK /\ RowsInv /\ AcceptedCodeWasGood /\ Bounds

-----------------------------------------------------------------------------
(* Counting                                                                *)

\* Sets of requests are counted by natural numbers, and smaller sets by smaller ones.
LEMMA Counts ==
    ASSUME NEW S \in SUBSET Requests
    PROVE  /\ IsFiniteSet(S) /\ Cardinality(S) \in Nat
           /\ N \in Nat /\ Cardinality(S) <= N
           /\ \A T \in SUBSET S : Cardinality(T) \in Nat /\ Cardinality(T) <= Cardinality(S)
<1>1. IsFiniteSet(Requests)
  BY OtpAssumption
<1>2. IsFiniteSet(S) /\ Cardinality(S) <= N
  BY <1>1, FS_Subset DEF N
<1>3. Cardinality(S) \in Nat /\ N \in Nat
  BY <1>1, <1>2, FS_CardinalityType DEF N
<1>4. ASSUME NEW T \in SUBSET S
      PROVE  Cardinality(T) \in Nat /\ Cardinality(T) <= Cardinality(S)
  BY <1>2, FS_Subset, FS_CardinalityType
<1> QED
  BY <1>2, <1>3, <1>4

\* One request leaves the set.
LEMMA CountsOneLess ==
    ASSUME NEW S \in SUBSET Requests, NEW r \in S, NEW T \in SUBSET (S \ {r})
    PROVE  Cardinality(T) <= Cardinality(S) - 1
<1>1. IsFiniteSet(S \ {r}) /\ Cardinality(S \ {r}) = Cardinality(S) - 1
  BY Counts, FS_RemoveElement
<1> QED
  BY <1>1, FS_Subset

\* The same of the outstanding codes
LEMMA CodeCounts ==
    ASSUME NEW S \in SUBSET CodeIds
    PROVE  /\ IsFiniteSet(S) /\ Cardinality(S) \in Nat
           /\ \A T \in SUBSET S : Cardinality(T) \in Nat /\ Cardinality(T) <= Cardinality(S)
<1>1. IsFiniteSet(CodeIds)
  BY OtpAssumption, FS_Interval DEF CodeIds
<1>2. IsFiniteSet(S)
  BY <1>1, FS_Subset
<1>3. ASSUME NEW T \in SUBSET S
      PROVE  Cardinality(T) \in Nat /\ Cardinality(T) <= Cardinality(S)
  BY <1>2, FS_Subset, FS_CardinalityType
<1> QED
  BY <1>2, <1>3, FS_CardinalityType

\* One code more is outstanding.
LEMMA CodeCountsOneMore ==
    ASSUME NEW S \in SUBSET CodeIds, NEW c \in CodeIds, NEW T \in SUBSET (S \cup {c})
    PROVE  Cardinality(T) <= Cardinality(S) + 1
<1>1. /\ IsFiniteSet(S \cup {c})
      /\ Cardinality(S \cup {c}) = IF c \in S THEN Cardinality(S) ELSE Cardinality(S) + 1
  BY CodeCounts, FS_AddElement
<1>2. S \cup {c} \in SUBSET CodeIds
  OBVIOUS
<1>3. Cardinality(T) \in Nat /\ Cardinality(T) <= Cardinality(S \cup {c})
  BY <1>2, CodeCounts
<1> QED
  BY <1>1, <1>3, CodeCounts

\* The sets of handlers, and what the bounds say of them
LEMMA Sets ==
    ASSUME NEW c, NEW p
    PROVE  /\ Failing(c) \in SUBSET Requests /\ Failing(c)' \in SUBSET Requests
           /\ Creating(p) \in SUBSET Requests /\ Creating(p)' \in SUBSET Requests
           /\ Consuming(c) \in SUBSET Requests /\ Consuming(c)' \in SUBSET Requests
           /\ Outstanding(p) \in SUBSET CodeIds /\ Outstanding(p)' \in SUBSET CodeIds
  BY DEF Failing, Creating, Consuming, Outstanding

\* The bounds, one code or purpose at a time
GuessesOk(c) ==
    codes[c] # Null => codes[c].attempts + Cardinality(Failing(c)) <= MaxAttempts + N - 1
UsesOk(c) == uses[c] + Cardinality(Consuming(c)) <= N
OutstandingOk(p) == Cardinality(Outstanding(p)) + Cardinality(Creating(p)) <= N

LEMMA BoundsByName ==
    /\ Bounds <=> /\ \A c \in CodeIds : GuessesOk(c) /\ UsesOk(c)
                  /\ \A p \in Purposes : OutstandingOk(p)
    /\ Bounds' <=> /\ \A c \in CodeIds : GuessesOk(c)' /\ UsesOk(c)'
                   /\ \A p \in Purposes : OutstandingOk(p)'
  BY DEF Bounds, GuessesBounded, OutstandingBounded, UsesPerCodeBounded, GuessesOk, UsesOk,
         OutstandingOk, Failing, Creating, Consuming, N

\* A bound holds on when no more handlers are counted.
LEMMA GuessesStay ==
    ASSUME TypeOK, NEW c \in CodeIds, GuessesOk(c), Failing(c)' \subseteq Failing(c),
           codes'[c] # Null => codes[c] # Null /\ codes'[c].attempts = codes[c].attempts
    PROVE  GuessesOk(c)'
<1> SUFFICES ASSUME codes'[c] # Null
             PROVE  codes'[c].attempts + Cardinality(Failing(c)') <= MaxAttempts + N - 1
  BY DEF GuessesOk, N
<1>1. codes[c].attempts + Cardinality(Failing(c)) <= MaxAttempts + N - 1
  BY DEF GuessesOk
<1>2. /\ Cardinality(Failing(c)) \in Nat /\ Cardinality(Failing(c)') \in Nat /\ N \in Nat
      /\ Cardinality(Failing(c)') <= Cardinality(Failing(c))
  BY Sets, Counts
<1>3. codes[c].attempts \in Nat /\ codes'[c].attempts = codes[c].attempts
  BY DEF TypeOK, OtpCode
<1> QED
  BY <1>1, <1>2, <1>3, OtpAssumption

LEMMA OutstandingStay ==
    ASSUME NEW p \in Purposes, OutstandingOk(p),
           Creating(p)' \subseteq Creating(p), Outstanding(p)' \subseteq Outstanding(p)
    PROVE  OutstandingOk(p)'
<1>1. Cardinality(Outstanding(p)) + Cardinality(Creating(p)) <= N
  BY DEF OutstandingOk
<1>2. /\ Cardinality(Creating(p)) \in Nat /\ Cardinality(Creating(p)') \in Nat /\ N \in Nat
      /\ Cardinality(Creating(p)') <= Cardinality(Creating(p))
  BY Sets, Counts
<1>3. /\ Cardinality(Outstanding(p)) \in Nat /\ Cardinality(Outstanding(p)') \in Nat
      /\ Cardinality(Outstanding(p)') <= Cardinality(Outstanding(p))
  BY Sets, CodeCounts
<1>4. Cardinality(Outstanding(p)') + Cardinality(Creating(p)') <= N
  BY <1>1, <1>2, <1>3
<1> QED
  BY <1>4 DEF OutstandingOk, N

LEMMA UsesStay ==
    ASSUME TypeOK, NEW c \in CodeIds, UsesOk(c), Consuming(c)' \subseteq Consuming(c),
           uses'[c] = uses[c]
    PROVE  UsesOk(c)'
<1>1. uses[c] + Cardinality(Consuming(c)) <= N
  BY DEF UsesOk
<1>2. /\ Cardinality(Consuming(c)) \in Nat /\ Cardinality(Consuming(c)') \in Nat /\ N \in Nat
      /\ Cardinality(Consuming(c)') <= Cardinality(Consuming(c))
  BY Sets, Counts
<1>3. uses'[c] + Cardinality(Consuming(c)') <= N
  BY <1>1, <1>2 DEF TypeOK
<1> QED
  BY <1>3 DEF UsesOk, N

-----------------------------------------------------------------------------
(* The history                                                             *)

\* A request that stays keeps its place in the history.
LEMMA GoodIsKept ==
    ASSUME Observe, NEW r \in Requests, r \in good \/ Good(r)', req'[r].step # "idle"
    PROVE  r \in good'
  BY DEF Observe

LEMMA GoodIsTyped == Observe => good' \subseteq Requests
  BY DEF Observe

-----------------------------------------------------------------------------
(* Handlers that touch neither the codes nor what the bounds count         *)

QuietSteps == {"idle", "cooldown", "invalidate", "find"}

\* Only the handler in r moves, to a step at which nothing is counted yet.
Quiet(r) ==
    /\ \E q \in Request : q.step \in QuietSteps /\ req' = [req EXCEPT ![r] = q]
    /\ UNCHANGED <<codes, issued, uses>>

LEMMA QuietKeeps ==
    ASSUME IInv, Observe, NEW r \in Requests, Quiet(r)
    PROVE  RowsInv' /\ AcceptedCodeWasGood' /\ Bounds' /\ req' \in [Requests -> Request]
<1>1. PICK q \in Request : q.step \in QuietSteps /\ req' = [req EXCEPT ![r] = q]
  BY DEF Quiet
<1>2. codes' = codes /\ issued' = issued /\ uses' = uses
  BY DEF Quiet
<1>3. /\ req' \in [Requests -> Request]
      /\ \A t \in Requests \ {r} : req'[t] = req[t]
      /\ req'[r].step \in QuietSteps
  BY <1>1 DEF IInv, TypeOK
<1>4. RowsInv'
  BY <1>2, <1>3 DEF IInv, RowsInv, HandlersHaveRows, RowsAreIssued, UnconsumedIsUnused, QuietSteps
<1>5. AcceptedCodeWasGood'
  <2> SUFFICES ASSUME NEW t \in Requests, req'[t].step \in {"consume", "effect"}
               PROVE  t \in good'
    BY DEF AcceptedCodeWasGood
  <2>1. t \in good /\ req'[t].step # "idle"
    BY <1>3 DEF IInv, AcceptedCodeWasGood, QuietSteps
  <2> QED
    BY <2>1, GoodIsKept
<1>6. Bounds'
  <2>1. \A c \in CodeIds : /\ Failing(c)' \subseteq Failing(c)
                           /\ Consuming(c)' \subseteq Consuming(c)
    BY <1>3 DEF Failing, Consuming, At, QuietSteps
  <2>2. \A p \in Purposes : /\ Creating(p)' \subseteq Creating(p)
                            /\ Outstanding(p)' \subseteq Outstanding(p)
    BY <1>2, <1>3 DEF Creating, Outstanding, At, Purpose, QuietSteps
  <2> QED
    BY <1>2, <2>1, <2>2, BoundsByName, GuessesStay, UsesStay, OutstandingStay DEF IInv
<1> QED
  BY <1>3, <1>4, <1>5, <1>6

-----------------------------------------------------------------------------
(* Handlers that do                                                        *)

\* What the handler in r leaves alone when it moves to q
LEMMA OneMoves ==
    ASSUME IInv, Observe, NEW r \in Requests, NEW q, req' = [req EXCEPT ![r] = q]
    PROVE  /\ req'[r] = q /\ \A t \in Requests \ {r} : req'[t] = req[t]
           /\ (q.step \in {"consume", "effect"} => r \in good \/ Good(r)')
                => AcceptedCodeWasGood'
<1>1. req'[r] = q /\ \A t \in Requests \ {r} : req'[t] = req[t]
  BY DEF IInv, TypeOK
<1>2. ASSUME q.step \in {"consume", "effect"} => r \in good \/ Good(r)'
      PROVE  AcceptedCodeWasGood'
  <2> SUFFICES ASSUME NEW t \in Requests, req'[t].step \in {"consume", "effect"}
               PROVE  t \in good'
    BY DEF AcceptedCodeWasGood
  <2>1. t \in good \/ Good(t)'
    BY <1>1, <1>2 DEF IInv, AcceptedCodeWasGood
  <2> QED
    BY <2>1, GoodIsKept
<1> QED
  BY <1>1, <1>2

LEMMA InvalidateKeeps ==
    ASSUME IInv, Observe, NEW r \in Requests, InvalidateCodes(r)
    PROVE  IInv'
<1> DEFINE q == [req[r] EXCEPT !.step = "create"]
<1>1. /\ At(r, "invalidate") /\ codes' = Invalidated(Purpose(r))
      /\ UNCHANGED <<clock, registered, verified, issued, mailbox, uses>>
  BY DEF InvalidateCodes
<1>2. req' = [req EXCEPT ![r] = q]
  BY DEF InvalidateCodes, Goto, IInv, TypeOK
<1>3. q \in Request /\ q.step = "create" /\ q.kind = req[r].kind
  BY DEF IInv, TypeOK, Request, Steps
<1> HIDE DEF q
<1>4. /\ req'[r] = q /\ \A t \in Requests \ {r} : req'[t] = req[t]
      /\ AcceptedCodeWasGood'
  BY <1>2, <1>3, OneMoves
<1>5. \A c \in CodeIds :
         /\ codes[c] = Null => codes'[c] = Null
         /\ codes[c] # Null => /\ codes'[c] \in OtpCode /\ codes'[c] # Null
                               /\ codes'[c].attempts = codes[c].attempts
                               /\ codes'[c].purpose = codes[c].purpose
                               /\ ~codes'[c].consumed =>
                                     ~codes[c].consumed /\ codes[c].purpose # Purpose(r)
  BY <1>1, NullIsNoCode DEF Invalidated, Outstanding, IInv, TypeOK, OtpCode
<1>6. TypeOK'
  <2>1. codes' \in [CodeIds -> OtpCode \cup {Null}]
    BY <1>1, <1>5 DEF Invalidated
  <2> QED
    BY <1>1, <1>2, <1>3, <2>1, GoodIsTyped DEF IInv, TypeOK
<1>7. RowsInv'
  BY <1>1, <1>3, <1>4, <1>5
     DEF IInv, RowsInv, HandlersHaveRows, RowsAreIssued, UnconsumedIsUnused
<1>8. Purpose(r)' = Purpose(r)
  BY <1>3, <1>4 DEF Purpose
<1>9. Bounds'
  <2>1. \A c \in CodeIds : Failing(c)' \subseteq Failing(c) /\ Consuming(c)' \subseteq Consuming(c)
    BY <1>3, <1>4 DEF Failing, Consuming, At
  <2>2. \A p \in Purposes \ {Purpose(r)} : /\ Creating(p)' \subseteq Creating(p)
                                           /\ Outstanding(p)' \subseteq Outstanding(p)
    BY <1>4, <1>5, <1>8 DEF Creating, Outstanding, At, Purpose
  <2>3. OutstandingOk(Purpose(r))'
    <3>1. Outstanding(Purpose(r))' = {}
      BY <1>5, <1>8 DEF Outstanding
    <3>2. Cardinality(Creating(Purpose(r))') \in Nat /\ Cardinality(Creating(Purpose(r))') <= N
      BY Sets, Counts
    <3> QED
      BY <3>1, <3>2, FS_EmptySet, Counts DEF OutstandingOk, N
  <2>4. \A p \in Purposes : OutstandingOk(p)'
    BY <1>8, <2>2, <2>3, BoundsByName, OutstandingStay DEF IInv
  <2>5. \A c \in CodeIds : GuessesOk(c)' /\ UsesOk(c)'
    BY <1>1, <1>5, <2>1, BoundsByName, GuessesStay, UsesStay DEF IInv
  <2> QED
    BY <2>4, <2>5, BoundsByName
<1> QED
  BY <1>4, <1>6, <1>7, <1>9 DEF IInv

LEMMA CreateKeeps ==
    ASSUME IInv, Observe, NEW r \in Requests, CreateCode(r)
    PROVE  IInv'
<1>0. PICK n \in Nat : n = issued + 1
  BY DEF IInv, TypeOK
<1> DEFINE q == [req[r] EXCEPT !.step = "email", !.otp = n]
           row == [purpose |-> Purpose(r), createdAt |-> clock, expiresAt |-> clock + OtpTtl,
                   attempts |-> 0, consumed |-> FALSE]
<1>1. /\ At(r, "create") /\ codes' = [codes EXCEPT ![n] = row] /\ issued' = n
      /\ UNCHANGED <<clock, registered, verified, mailbox, uses>>
  BY <1>0 DEF CreateCode
<1>2. req' = [req EXCEPT ![r] = q]
  BY <1>0 DEF CreateCode, IInv, TypeOK
<1>3. n \in CodeIds /\ n \in 0 .. MaxCodes
  BY <1>0, OtpAssumption DEF CreateCode, IInv, TypeOK, CodeIds
<1>4. q \in Request /\ q.step = "email" /\ q.kind = req[r].kind /\ q.otp = n
  BY <1>3 DEF IInv, TypeOK, Request, Steps
<1>5. /\ row \in OtpCode /\ row # Null /\ row.attempts = 0 /\ ~row.consumed
      /\ row.purpose = Purpose(r)
  <2>1. clock \in Nat /\ clock + OtpTtl \in Nat
    BY OtpAssumption DEF IInv, TypeOK
  <2>2. Purpose(r) \in Purposes
    BY DEF Purpose, Purposes
  <2>3. row \in OtpCode
    BY <2>1, <2>2 DEF OtpCode
  <2> QED
    BY <2>3, NullIsNoCode
<1>6. codes[n] = Null
  BY <1>0, <1>3 DEF IInv, RowsInv, RowsAreIssued, TypeOK
<1>7. codes'[n] = row /\ \A c \in CodeIds \ {n} : codes'[c] = codes[c]
  BY <1>1, <1>3 DEF IInv, TypeOK
<1>8. TypeOK'
  <2>1. codes' \in [CodeIds -> OtpCode \cup {Null}]
    BY <1>1, <1>5 DEF IInv, TypeOK
  <2> HIDE DEF q, row
  <2> QED
    BY <1>1, <1>2, <1>3, <1>4, <2>1, GoodIsTyped DEF IInv, TypeOK
<1> HIDE DEF q, row
<1>9. /\ req'[r] = q /\ \A t \in Requests \ {r} : req'[t] = req[t]
      /\ AcceptedCodeWasGood'
  BY <1>2, <1>4, OneMoves
<1>10. RowsInv'
  <2>1. HandlersHaveRows'
    BY <1>3, <1>4, <1>5, <1>7, <1>9 DEF IInv, RowsInv, HandlersHaveRows
  <2>2. RowsAreIssued'
    BY <1>0, <1>1, <1>7 DEF IInv, RowsInv, RowsAreIssued, TypeOK, CodeIds
  <2>3. UnconsumedIsUnused'
    BY <1>1, <1>3, <1>6, <1>7 DEF IInv, RowsInv, UnconsumedIsUnused
  <2> QED
    BY <2>1, <2>2, <2>3 DEF RowsInv
<1>11. \A c \in CodeIds : Failing(c)' \subseteq Failing(c) /\ Consuming(c)' \subseteq Consuming(c)
  BY <1>4, <1>9 DEF Failing, Consuming, At
<1>12. \A c \in CodeIds : GuessesOk(c)' /\ UsesOk(c)'
  <2>1. GuessesOk(n)'
    <3>1. Cardinality(Failing(n)') \in Nat /\ Cardinality(Failing(n)') <= N /\ N \in Nat
      BY Sets, Counts
    <3>2. codes'[n].attempts + Cardinality(Failing(n)') <= MaxAttempts + N - 1
      BY <1>5, <1>7, <3>1, OtpAssumption
    <3> QED
      BY <3>2 DEF GuessesOk, N
  <2>2. \A c \in CodeIds \ {n} : GuessesOk(c)'
    BY <1>7, <1>11, BoundsByName, GuessesStay DEF IInv
  <2>3. \A c \in CodeIds : UsesOk(c)'
    BY <1>1, <1>11, BoundsByName, UsesStay DEF IInv
  <2> QED
    BY <2>1, <2>2, <2>3
<1>13. Purpose(r)' = Purpose(r)
  BY <1>4, <1>9 DEF Purpose
<1>14. ASSUME NEW p \in Purposes PROVE OutstandingOk(p)'
  <2>1. \A c \in CodeIds : c # n => (c \in Outstanding(p)' <=> c \in Outstanding(p))
    BY <1>7 DEF Outstanding
  <2>2. Creating(p)' \subseteq Creating(p) \ {r}
    BY <1>4, <1>9 DEF Creating, At, Purpose
  <2>3. ASSUME p # Purpose(r) PROVE OutstandingOk(p)'
    <3>1. Outstanding(p)' \subseteq Outstanding(p)
      BY <1>5, <1>7, <2>1, <2>3, Sets DEF Outstanding
    <3> QED
      BY <2>2, <3>1, BoundsByName, OutstandingStay DEF IInv
  <2>4. ASSUME p = Purpose(r) PROVE OutstandingOk(p)'
    <3>1. r \in Creating(p)
      BY <1>1, <2>4 DEF Creating
    <3>2. Outstanding(p)' \subseteq Outstanding(p) \cup {n}
      BY <2>1, Sets
    <3>3. Cardinality(Outstanding(p)') <= Cardinality(Outstanding(p)) + 1
      BY <1>3, <3>2, Sets, CodeCountsOneMore
    <3>4. Cardinality(Creating(p)') <= Cardinality(Creating(p)) - 1
      BY <2>2, <3>1, Sets, CountsOneLess
    <3>5. /\ Cardinality(Outstanding(p)) \in Nat /\ Cardinality(Outstanding(p)') \in Nat
          /\ Cardinality(Creating(p)) \in Nat /\ Cardinality(Creating(p)') \in Nat /\ N \in Nat
      BY Sets, Counts, CodeCounts
    <3>6. Cardinality(Outstanding(p)) + Cardinality(Creating(p)) <= N
      BY BoundsByName DEF IInv, OutstandingOk
    <3>7. Cardinality(Outstanding(p)') + Cardinality(Creating(p)') <= N
      BY <3>3, <3>4, <3>5, <3>6
    <3> QED
      BY <3>7 DEF OutstandingOk, N
  <2> QED
    BY <2>3, <2>4
<1> QED
  BY <1>8, <1>9, <1>10, <1>12, <1>14, BoundsByName DEF IInv

\* findFirst finds a code with attempts left: the submission goes on with it, or is counted.
LEMMA FindKeeps ==
    ASSUME IInv, Observe, NEW r \in Requests, NEW n \in Candidates(Purpose(r)), MayAttempt(n),
           At(r, "find"),
           req' = [req EXCEPT ![r].otp = n,
                              ![r].step = IF req[r].code = n THEN "consume" ELSE "fail"],
           UNCHANGED <<clock, registered, verified, codes, issued, mailbox, uses>>
    PROVE  IInv'
<1> DEFINE q == [req[r] EXCEPT !.otp = n,
                               !.step = IF req[r].code = n THEN "consume" ELSE "fail"]
<1>1. req' = [req EXCEPT ![r] = q]
  BY DEF IInv, TypeOK
<1>2. n \in CodeIds /\ n \in 0 .. MaxCodes /\ codes[n] # Null /\ ~codes[n].consumed
  BY OtpAssumption DEF Candidates, Newest, Outstanding, CodeIds
<1>3. /\ q \in Request /\ q.kind = req[r].kind /\ q.code = req[r].code /\ q.otp = n
      /\ \/ q.step = "consume" /\ req[r].code = n
         \/ q.step = "fail"
  BY <1>2 DEF IInv, TypeOK, Request, Steps
<1> HIDE DEF q
<1>4. TypeOK'
  BY <1>1, <1>3, GoodIsTyped DEF IInv, TypeOK
<1>5. /\ req'[r] = q /\ \A t \in Requests \ {r} : req'[t] = req[t]
  BY <1>1, OneMoves
<1>6. Purpose(r)' = Purpose(r)
  BY <1>3, <1>5 DEF Purpose
<1>7. AcceptedCodeWasGood'
  <2>1. ASSUME q.step = "consume" PROVE Good(r)'
    <3>1. req'[r].code = n /\ codes'[n].attempts < MaxAttempts
      BY <1>3, <1>5, <2>1 DEF MayAttempt
    <3>2. (n \in Outstanding(Purpose(r)) /\ Unexpired(n))'
      BY <1>6 DEF Candidates, Newest, Outstanding, Unexpired
    <3> QED
      BY <3>1, <3>2 DEF Good
  <2> QED
    BY <1>1, <1>3, <2>1, OneMoves
<1>8. RowsInv'
  BY <1>2, <1>3, <1>5 DEF IInv, RowsInv, HandlersHaveRows, RowsAreIssued, UnconsumedIsUnused
<1>9. \A p \in Purposes : OutstandingOk(p)'
  <2>1. \A p \in Purposes : /\ Creating(p)' \subseteq Creating(p)
                            /\ Outstanding(p)' \subseteq Outstanding(p)
    BY <1>3, <1>5 DEF Creating, Outstanding, At, Purpose
  <2> QED
    BY <2>1, BoundsByName, OutstandingStay DEF IInv
<1>10. \A c \in CodeIds \ {n} : GuessesOk(c)' /\ UsesOk(c)'
  <2>1. \A c \in CodeIds \ {n} : /\ Failing(c)' \subseteq Failing(c)
                                 /\ Consuming(c)' \subseteq Consuming(c)
    BY <1>3, <1>5 DEF Failing, Consuming, At
  <2> QED
    BY <2>1, BoundsByName, GuessesStay, UsesStay DEF IInv
<1>11. /\ Cardinality(Failing(n)') \in Nat /\ Cardinality(Failing(n)') <= N /\ N \in Nat
       /\ Cardinality(Consuming(n)') \in Nat /\ Cardinality(Consuming(n)') <= N
  BY Sets, Counts
<1>12. GuessesOk(n)'
  <2>1. codes'[n].attempts \in Nat /\ codes'[n].attempts < MaxAttempts
    BY <1>2 DEF MayAttempt, IInv, TypeOK, OtpCode
  <2>2. codes'[n].attempts + Cardinality(Failing(n)') <= MaxAttempts + N - 1
    BY <1>11, <2>1, OtpAssumption
  <2> QED
    BY <2>2 DEF GuessesOk, N
<1>13. UsesOk(n)'
  <2>1. uses'[n] = 0
    BY <1>2 DEF IInv, RowsInv, UnconsumedIsUnused
  <2>2. uses'[n] + Cardinality(Consuming(n)') <= N
    BY <1>11, <2>1
  <2> QED
    BY <2>2 DEF UsesOk, N
<1> QED
  BY <1>4, <1>7, <1>8, <1>9, <1>10, <1>12, <1>13, BoundsByName DEF IInv

LEMMA CountKeeps ==
    ASSUME IInv, Observe, NEW r \in Requests, CountAttempt(r)
    PROVE  IInv'
<1>1. PICK n \in CodeIds : n = req[r].otp /\ codes[n] # Null
  BY DEF CountAttempt, At, IInv, RowsInv, HandlersHaveRows
<1>2. /\ At(r, "fail") /\ codes' = [codes EXCEPT ![n] = Counted(codes[n])]
      /\ req' = [req EXCEPT ![r] = Idle]
      /\ UNCHANGED <<clock, registered, verified, issued, mailbox, uses>>
  BY <1>1 DEF CountAttempt, Done
<1>3. /\ Counted(codes[n]) \in OtpCode /\ Counted(codes[n]) # Null
      /\ Counted(codes[n]).attempts = codes[n].attempts + 1 /\ codes[n].attempts \in Nat
      /\ Counted(codes[n]).purpose = codes[n].purpose
      /\ Counted(codes[n]).consumed = codes[n].consumed
  BY <1>1, NullIsNoCode DEF Counted, IInv, TypeOK, OtpCode
<1>4. /\ codes'[n] = Counted(codes[n]) /\ \A c \in CodeIds \ {n} : codes'[c] = codes[c]
      /\ codes' \in [CodeIds -> OtpCode \cup {Null}]
  BY <1>2, <1>3 DEF IInv, TypeOK
<1>5. Idle \in Request /\ Idle.step = "idle"
  BY OtpAssumption DEF Idle, Request, Kinds, Steps
<1>6. /\ req'[r] = Idle /\ \A t \in Requests \ {r} : req'[t] = req[t]
      /\ AcceptedCodeWasGood'
  BY <1>2, <1>5, OneMoves
<1>7. TypeOK'
  BY <1>2, <1>4, <1>5, GoodIsTyped DEF IInv, TypeOK
<1>8. RowsInv'
  BY <1>1, <1>2, <1>3, <1>4, <1>5, <1>6
     DEF IInv, RowsInv, HandlersHaveRows, RowsAreIssued, UnconsumedIsUnused
<1>9. \A p \in Purposes : OutstandingOk(p)'
  <2>1. \A p \in Purposes : /\ Creating(p)' \subseteq Creating(p)
                            /\ Outstanding(p)' \subseteq Outstanding(p)
    BY <1>1, <1>3, <1>4, <1>5, <1>6 DEF Creating, Outstanding, At, Purpose
  <2> QED
    BY <2>1, BoundsByName, OutstandingStay DEF IInv
<1>10. \A c \in CodeIds : /\ Failing(c)' \subseteq Failing(c) \ {r}
                          /\ Consuming(c)' \subseteq Consuming(c)
  BY <1>5, <1>6 DEF Failing, Consuming, At
<1>11. \A c \in CodeIds : UsesOk(c)'
  BY <1>2, <1>10, BoundsByName, UsesStay DEF IInv
<1>12. \A c \in CodeIds \ {n} : GuessesOk(c)'
  BY <1>4, <1>10, BoundsByName, GuessesStay DEF IInv
<1>13. GuessesOk(n)'
  <2>1. r \in Failing(n)
    BY <1>1, <1>2 DEF Failing
  <2>2. Cardinality(Failing(n)') <= Cardinality(Failing(n)) - 1
    BY <1>10, <2>1, Sets, CountsOneLess
  <2>3. Cardinality(Failing(n)) \in Nat /\ Cardinality(Failing(n)') \in Nat /\ N \in Nat
    BY Sets, Counts
  <2>4. codes[n].attempts + Cardinality(Failing(n)) <= MaxAttempts + N - 1
    BY <1>1, BoundsByName DEF IInv, GuessesOk
  <2>5. codes'[n].attempts + Cardinality(Failing(n)') <= MaxAttempts + N - 1
    BY <1>3, <1>4, <2>2, <2>3, <2>4, OtpAssumption
  <2> QED
    BY <2>5 DEF GuessesOk, N
<1> QED
  BY <1>6, <1>7, <1>8, <1>9, <1>11, <1>12, <1>13, BoundsByName DEF IInv

LEMMA ConsumeKeeps ==
    ASSUME IInv, Observe, NEW r \in Requests, ConsumeCode(r)
    PROVE  IInv'
<1> DEFINE q == [req[r] EXCEPT !.step = "effect"]
<1>1. PICK n \in CodeIds : n = req[r].otp /\ codes[n] # Null
  BY DEF ConsumeCode, At, IInv, RowsInv, HandlersHaveRows
<1>2. /\ At(r, "consume") /\ codes' = [codes EXCEPT ![n] = [codes[n] EXCEPT !.consumed = TRUE]]
      /\ uses' = [uses EXCEPT ![n] = uses[n] + 1] /\ req' = [req EXCEPT ![r] = q]
      /\ UNCHANGED <<clock, registered, verified, issued, mailbox>>
  BY <1>1 DEF ConsumeCode, Goto, IInv, TypeOK
<1>3. q \in Request /\ q.step = "effect" /\ q.kind = req[r].kind
  BY DEF IInv, TypeOK, Request, Steps
<1> HIDE DEF q
<1>4. /\ codes'[n] \in OtpCode /\ codes'[n] # Null /\ codes'[n].consumed
      /\ codes'[n].attempts = codes[n].attempts
      /\ \A c \in CodeIds \ {n} : codes'[c] = codes[c]
      /\ codes' \in [CodeIds -> OtpCode \cup {Null}]
  BY <1>1, <1>2, NullIsNoCode DEF IInv, TypeOK, OtpCode
<1>5. /\ uses'[n] = uses[n] + 1 /\ uses[n] \in Nat /\ uses' \in [CodeIds -> Nat]
      /\ \A c \in CodeIds \ {n} : uses'[c] = uses[c]
  BY <1>2 DEF IInv, TypeOK
<1>6. /\ req'[r] = q /\ \A t \in Requests \ {r} : req'[t] = req[t]
      /\ AcceptedCodeWasGood'
  <2>1. r \in good
    BY <1>2 DEF IInv, AcceptedCodeWasGood, At
  <2> QED
    BY <1>2, <2>1, OneMoves
<1>7. TypeOK'
  BY <1>2, <1>3, <1>4, <1>5, GoodIsTyped DEF IInv, TypeOK
<1>8. RowsInv'
  <2>1. HandlersHaveRows'
    BY <1>1, <1>3, <1>4, <1>6 DEF IInv, RowsInv, HandlersHaveRows
  <2>2. RowsAreIssued'
    BY <1>1, <1>2, <1>4 DEF IInv, RowsInv, RowsAreIssued
  <2>3. UnconsumedIsUnused'
    BY <1>4, <1>5 DEF IInv, RowsInv, UnconsumedIsUnused
  <2> QED
    BY <2>1, <2>2, <2>3 DEF RowsInv
<1>9. \A p \in Purposes : OutstandingOk(p)'
  <2>1. \A p \in Purposes : /\ Creating(p)' \subseteq Creating(p)
                            /\ Outstanding(p)' \subseteq Outstanding(p)
    BY <1>3, <1>4, <1>6 DEF Creating, Outstanding, At, Purpose
  <2> QED
    BY <2>1, BoundsByName, OutstandingStay DEF IInv
<1>10. \A c \in CodeIds : /\ Failing(c)' \subseteq Failing(c)
                          /\ Consuming(c)' \subseteq Consuming(c) \ {r}
  BY <1>3, <1>6 DEF Failing, Consuming, At
<1>11. \A c \in CodeIds : GuessesOk(c)'
  BY <1>1, <1>4, <1>10, BoundsByName, GuessesStay DEF IInv
<1>12. \A c \in CodeIds \ {n} : UsesOk(c)'
  BY <1>5, <1>10, BoundsByName, UsesStay DEF IInv
<1>13. UsesOk(n)'
  <2>1. r \in Consuming(n)
    BY <1>1, <1>2 DEF Consuming
  <2>2. Cardinality(Consuming(n)') <= Cardinality(Consuming(n)) - 1
    BY <1>10, <2>1, Sets, CountsOneLess
  <2>3. Cardinality(Consuming(n)) \in Nat /\ Cardinality(Consuming(n)') \in Nat /\ N \in Nat
    BY Sets, Counts
  <2>4. uses[n] + Cardinality(Consuming(n)) <= N
    BY BoundsByName DEF IInv, UsesOk
  <2>5. uses'[n] + Cardinality(Consuming(n)') <= N
    BY <1>5, <2>2, <2>3, <2>4
  <2> QED
    BY <2>5 DEF UsesOk, N
<1> QED
  BY <1>6, <1>7, <1>8, <1>9, <1>11, <1>12, <1>13, BoundsByName DEF IInv

-----------------------------------------------------------------------------
(* The next-state relation                                                 *)

LEMMA IdleIsQuiet == Idle \in Request /\ Idle.step \in QuietSteps
  BY OtpAssumption DEF Idle, Request, Kinds, Steps, QuietSteps

\* The handlers that issue nothing and consume nothing yet, or no more
QuietAction(r) ==
    \/ Register(r) \/ ResendEmailOtp(r) \/ RequestPasswordReset(r) \/ CheckCooldown(r)
    \/ EmailCode(r) \/ MakeEffect(r) \/ Abort(r)
    \/ \E kind \in {"verifyEmail", "confirmReset"}, c \in 0 .. MaxCodes : SubmitCode(r, kind, c)

LEMMA QuietActions ==
    ASSUME IInv, NEW r \in Requests, QuietAction(r)
    PROVE  /\ Quiet(r) /\ clock' = clock
           /\ registered' \in BOOLEAN /\ verified' \in BOOLEAN /\ mailbox' \subseteq CodeIds
<1>1. /\ clock \in Nat /\ registered \in BOOLEAN /\ verified \in BOOLEAN
      /\ mailbox \subseteq CodeIds /\ req[r] \in Request
  BY DEF IInv, TypeOK
<1>2. ASSUME Register(r) \/ ResendEmailOtp(r) \/ RequestPasswordReset(r)
      PROVE  \E q \in Request : q.step \in QuietSteps /\ req' = [req EXCEPT ![r] = q]
  <2>1. ASSUME NEW kind \in Kinds, NEW step \in QuietSteps
        PROVE  /\ [Idle EXCEPT !.kind = kind, !.step = step] \in Request
               /\ [Idle EXCEPT !.kind = kind, !.step = step].step \in QuietSteps
    BY IdleIsQuiet DEF Request, Steps, QuietSteps
  <2>2. \E kind \in Kinds, step \in QuietSteps :
           req' = [req EXCEPT ![r] = [Idle EXCEPT !.kind = kind, !.step = step]]
    BY <1>2, Zenon DEF Register, ResendEmailOtp, RequestPasswordReset, Kinds, QuietSteps
  <2> QED
    BY <2>1, <2>2
<1>3. ASSUME CheckCooldown(r)
      PROVE  \E q \in Request : q.step \in QuietSteps /\ req' = [req EXCEPT ![r] = q]
  <2>1. ASSUME Goto(r, "invalidate")
        PROVE  \E q \in Request : q.step \in QuietSteps /\ req' = [req EXCEPT ![r] = q]
    <3>1. /\ [req[r] EXCEPT !.step = "invalidate"] \in Request
          /\ [req[r] EXCEPT !.step = "invalidate"].step \in QuietSteps
      BY <1>1 DEF Request, Steps, QuietSteps
    <3>2. req' = [req EXCEPT ![r] = [req[r] EXCEPT !.step = "invalidate"]]
      BY <2>1 DEF Goto, IInv, TypeOK
    <3> QED
      BY <3>1, <3>2
  <2> QED
    BY <1>3, <2>1, IdleIsQuiet DEF CheckCooldown, Done
<1>4. ASSUME EmailCode(r) \/ MakeEffect(r) \/ Abort(r)
      PROVE  \E q \in Request : q.step \in QuietSteps /\ req' = [req EXCEPT ![r] = q]
  BY <1>4, IdleIsQuiet DEF EmailCode, MakeEffect, Abort, Done
<1>5. ASSUME NEW kind \in {"verifyEmail", "confirmReset"}, NEW c \in 0 .. MaxCodes,
             SubmitCode(r, kind, c)
      PROVE  \E q \in Request : q.step \in QuietSteps /\ req' = [req EXCEPT ![r] = q]
  <2>1. /\ [kind |-> kind, step |-> "find", code |-> c, otp |-> 0] \in Request
        /\ [kind |-> kind, step |-> "find", code |-> c, otp |-> 0].step \in QuietSteps
    BY OtpAssumption DEF Request, Kinds, Steps, QuietSteps
  <2> QED
    BY <1>5, <2>1 DEF SubmitCode
<1>6. \E q \in Request : q.step \in QuietSteps /\ req' = [req EXCEPT ![r] = q]
  BY <1>2, <1>3, <1>4, <1>5 DEF QuietAction
<1>7. UNCHANGED <<clock, codes, issued, uses>>
  BY DEF QuietAction, Register, ResendEmailOtp, RequestPasswordReset, CheckCooldown, EmailCode,
         MakeEffect, Abort, SubmitCode
<1>8. registered' \in BOOLEAN /\ verified' \in BOOLEAN
  BY <1>1 DEF QuietAction, Register, ResendEmailOtp, RequestPasswordReset, CheckCooldown,
              EmailCode, MakeEffect, Abort, SubmitCode
<1>9. mailbox' \subseteq CodeIds
  <2>1. ASSUME EmailCode(r) PROVE mailbox' \subseteq CodeIds
    BY <1>1, <2>1 DEF EmailCode, At, IInv, RowsInv, HandlersHaveRows
  <2> QED
    BY <1>1, <2>1 DEF QuietAction, Register, ResendEmailOtp, RequestPasswordReset,
                      CheckCooldown, MakeEffect, Abort, SubmitCode
<1> QED
  BY <1>6, <1>7, <1>8, <1>9 DEF Quiet

LEMMA QuietActionKeeps ==
    ASSUME IInv, Observe, NEW r \in Requests, QuietAction(r)
    PROVE  IInv'
<1>1. /\ Quiet(r) /\ clock' = clock
      /\ registered' \in BOOLEAN /\ verified' \in BOOLEAN /\ mailbox' \subseteq CodeIds
  BY QuietActions
<1>2. RowsInv' /\ AcceptedCodeWasGood' /\ Bounds' /\ req' \in [Requests -> Request]
  BY <1>1, QuietKeeps
<1>3. codes' = codes /\ issued' = issued /\ uses' = uses
  BY <1>1 DEF Quiet
<1> QED
  BY <1>1, <1>2, <1>3, GoodIsTyped DEF IInv, TypeOK

\* Nobody moves; the clock may.
LEMMA NobodyMoves ==
    ASSUME IInv, UNCHANGED <<codes, issued, req, uses>>,
           good' \subseteq Requests, \A r \in good : req[r].step = "idle" \/ r \in good'
    PROVE  RowsInv' /\ AcceptedCodeWasGood' /\ Bounds'
<1>1. RowsInv'
  BY DEF IInv, RowsInv, HandlersHaveRows, RowsAreIssued, UnconsumedIsUnused
<1>2. AcceptedCodeWasGood'
  BY DEF IInv, AcceptedCodeWasGood
<1>3. Bounds'
  <2>1. \A c \in CodeIds : Failing(c)' = Failing(c) /\ Consuming(c)' = Consuming(c)
    BY DEF Failing, Consuming, At
  <2>2. \A p \in Purposes : Creating(p)' = Creating(p) /\ Outstanding(p)' = Outstanding(p)
    BY DEF Creating, Outstanding, At, Purpose
  <2> QED
    BY <2>1, <2>2, BoundsByName, GuessesStay, UsesStay, OutstandingStay DEF IInv
<1> QED
  BY <1>1, <1>2, <1>3

LEMMA TickKeeps ==
    ASSUME IInv, Observe, Tick
    PROVE  IInv'
<1>1. /\ clock' = clock + 1
      /\ UNCHANGED <<registered, verified, codes, issued, mailbox, req, uses>>
  BY DEF Tick
<1>2. \A r \in good : req[r].step = "idle" \/ r \in good'
  BY <1>1 DEF Observe, IInv, TypeOK
<1>3. RowsInv' /\ AcceptedCodeWasGood' /\ Bounds'
  BY <1>1, <1>2, GoodIsTyped, NobodyMoves
<1> QED
  BY <1>1, <1>3, GoodIsTyped DEF IInv, TypeOK

LEMMA InitEstablishes == Init => IInv
<1> SUFFICES ASSUME Init PROVE IInv
  OBVIOUS
<1>1. TypeOK
  <2>1. clock = 0 /\ issued = 0 /\ 0 \in 0 .. MaxCodes
    BY OtpAssumption DEF Init
  <2>2. req \in [Requests -> Request]
    BY IdleIsQuiet DEF Init
  <2>3. codes \in [CodeIds -> OtpCode \cup {Null}] /\ uses \in [CodeIds -> Nat] /\ clock \in Nat
    BY DEF Init
  <2> QED
    BY <2>1, <2>2, <2>3, Zenon DEF Init, TypeOK
<1>2. RowsInv /\ AcceptedCodeWasGood
  BY DEF Init, Idle, RowsInv, HandlersHaveRows, RowsAreIssued, UnconsumedIsUnused,
         AcceptedCodeWasGood
<1>3. \A c \in CodeIds : GuessesOk(c) /\ UsesOk(c)
  <2> SUFFICES ASSUME NEW c \in CodeIds PROVE GuessesOk(c) /\ UsesOk(c)
    OBVIOUS
  <2>1. codes[c] = Null /\ uses[c] = 0
    BY DEF Init
  <2>2. Cardinality(Consuming(c)) \in Nat /\ Cardinality(Consuming(c)) <= N /\ N \in Nat
    BY Sets, Counts
  <2> QED
    BY <2>1, <2>2 DEF GuessesOk, UsesOk
<1>4. \A p \in Purposes : OutstandingOk(p)
  <2> SUFFICES ASSUME NEW p \in Purposes PROVE OutstandingOk(p)
    OBVIOUS
  <2>1. Outstanding(p) = {}
    BY DEF Init, Outstanding
  <2>2. Cardinality(Creating(p)) \in Nat /\ Cardinality(Creating(p)) <= N /\ N \in Nat
    BY Sets, Counts
  <2> QED
    BY <2>1, <2>2, FS_EmptySet DEF OutstandingOk
<1> QED
  BY <1>1, <1>2, <1>3, <1>4, BoundsByName DEF IInv

LEMMA StepKeeps == IInv /\ [Next]_vars => IInv'
<1> SUFFICES ASSUME IInv, [Next]_vars PROVE IInv'
  OBVIOUS
<1>1. ASSUME UNCHANGED vars PROVE IInv'
  <2>1. /\ UNCHANGED <<clock, registered, verified, mailbox>>
        /\ UNCHANGED <<codes, issued, req, uses>> /\ good' = good
    BY <1>1 DEF vars
  <2>2. RowsInv' /\ AcceptedCodeWasGood' /\ Bounds'
    BY <2>1, NobodyMoves DEF IInv, TypeOK
  <2> QED
    BY <2>1, <2>2 DEF IInv, TypeOK
<1>2. ASSUME Observe, NEW r \in Requests, FindCode(r) PROVE IInv'
  <2>1. ASSUME Done(r), UNCHANGED <<clock, registered, verified, codes, issued, mailbox, uses>>
        PROVE  IInv'
    <3>1. Quiet(r)
      BY <2>1, IdleIsQuiet DEF Quiet, Done
    <3>2. RowsInv' /\ AcceptedCodeWasGood' /\ Bounds' /\ req' \in [Requests -> Request]
      BY <1>2, <3>1, QuietKeeps
    <3> QED
      BY <1>2, <2>1, <3>2, GoodIsTyped DEF IInv, TypeOK
  <2> QED
    BY <1>2, <2>1, FindKeeps DEF FindCode
<1>3. ASSUME Next PROVE IInv'
  <2>1. Observe
    BY <1>3 DEF Next
  <2>2. \/ \E r \in Requests : \/ QuietAction(r) \/ InvalidateCodes(r) \/ CreateCode(r)
                               \/ FindCode(r) \/ CountAttempt(r) \/ ConsumeCode(r)
        \/ Tick
    BY <1>3, ZenonT(30) DEF Next, QuietAction
  <2> QED
    BY <1>2, <2>1, <2>2, QuietActionKeeps, InvalidateKeeps, CreateKeeps, CountKeeps,
       ConsumeKeeps, TickKeeps
<1> QED
  BY <1>1, <1>3

-----------------------------------------------------------------------------
THEOREM Inductive == Spec => []IInv
  BY InitEstablishes, StepKeeps, PTL DEF Spec

\* The rows of otp_codes and the handlers keep their types, whatever runs at once.
THEOREM TypeCorrect == Spec => []TypeOK
<1>1. IInv => TypeOK
  BY DEF IInv
<1> QED
  BY <1>1, Inductive, PTL

\* Whatever handlers overlap or stop half way, a request that verifies or resets does so with
\* a code of its purpose that was unexpired, unused and not guessed out at one instant of its run.
THEOREM AcceptanceHolds == Spec => []AcceptedCodeWasGood
<1>1. IInv => AcceptedCodeWasGood
  BY DEF IInv
<1> QED
  BY <1>1, Inductive, PTL

\* Wrong guesses exceed OTP_MAX_ATTEMPTS by at most one per other request that overlaps.
THEOREM GuessesHold == Spec => []GuessesBounded
<1>1. IInv => GuessesBounded
  BY DEF IInv, Bounds
<1> QED
  BY <1>1, Inductive, PTL

\* Codes of one purpose are never outstanding in larger number than requests run at once.
THEOREM OutstandingHolds == Spec => []OutstandingBounded
<1>1. IInv => OutstandingBounded
  BY DEF IInv, Bounds
<1> QED
  BY <1>1, Inductive, PTL

\* One code is used no more often than requests run at once.
THEOREM UsesHold == Spec => []UsesPerCodeBounded
<1>1. IInv => UsesPerCodeBounded
  BY DEF IInv, Bounds
<1> QED
  BY <1>1, Inductive, PTL
=============================================================================
