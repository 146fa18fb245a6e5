-------------------------- MODULE BiometricProofs --------------------------
(***************************************************************************)
(* What is proved of Biometric for any number of accounts, requests and    *)
(* challenges, and any interleaving of the handlers.                       *)
(***************************************************************************)
EXTENDS Biometric, FiniteSetTheorems, TLAPS

N == Cardinality(Requests)

\* The logins past their check with challenge c
Entering(c) ==
    {r \in Requests : /\ At(r, "login", "clear") \/ At(r, "login", "session")
                      /\ req[r].challenge = c}

NobodyDeleted == \A u \in Users : status[u] # "DELETED"

\* A registration knows its account, a login its challenge, and challenges were issued.
HandlersAreNamed ==
    \A r \in Requests :
        /\ req[r].kind = "register" => req[r].user \in Users
        /\ req[r].kind = "login" => req[r].challenge \in Challenges
        /\ req[r].challenge <= issued

\* The challenge of the row opened nothing yet, and nobody has cleared it: whoever did took
\* it from the row, and no challenge comes back.
CurrentIsUnused ==
    /\ \A c \in Challenges : c > issued => logins[c] = 0
    /\ Registered /\ credential.challenge # 0 =>
          /\ logins[credential.challenge] = 0
          /\ \A r \in Requests :
                At(r, "login", "session") => req[r].challenge # credential.challenge

\* Before its update, registerBiometric's row is still the one it read, unless an account went.
RekeysOwnRow ==
    NobodyDeleted =>
        \A r \in Requests :
            At(r, "register", "rekey") => Registered /\ credential.owner = req[r].user

RowInv == HandlersAreNamed /\ CurrentIsUnused /\ RekeysOwnRow

IInv == TypeOK /\ RowInv /\ LoginWasInOrder /\ KeyIsTheOwners /\ LoginsPerChallengeBounded

-----------------------------------------------------------------------------
\* Sets of requests are counted by natural numbers, and smaller sets by smaller ones.
LEMMA Counts ==
    ASSUME NEW S \in SUBSET Requests
    PROVE  /\ IsFiniteSet(S) /\ Cardinality(S) \in Nat
           /\ N \in Nat /\ Cardinality(S) <= N
           /\ \A T \in SUBSET S : Cardinality(T) \in Nat /\ Cardinality(T) <= Cardinality(S)
<1>1. IsFiniteSet(Requests)
  BY BiometricAssumption
<1>2. IsFiniteSet(S) /\ Cardinality(S) <= N
  BY <1>1, FS_Subset DEF N
<1>3. Cardinality(S) \in Nat /\ N \in Nat
  BY <1>1, <1>2, FS_CardinalityType DEF N
<1>4. ASSUME NEW T \in SUBSET S
      PROVE  Cardinality(T) \in Nat /\ Cardinality(T) <= Cardinality(S)
  BY <1>2, FS_Subset, FS_CardinalityType
<1> QED
  BY <1>2, <1>3, <1>4

\* One request leaves the set.
LEMMA CountsOneLess ==
    ASSUME NEW S \in SUBSET Requests, NEW r \in S, NEW T \in SUBSET (S \ {r})
    PROVE  Cardinality(T) <= Cardinality(S) - 1
<1>1. IsFiniteSet(S \ {r}) /\ Cardinality(S \ {r}) = Cardinality(S) - 1
  BY Counts, FS_RemoveElement
<1> QED
  BY <1>1, FS_Subset

\* The bound, one challenge at a time
LoginsOk(c) == logins[c] + Cardinality(Entering(c)) <= N

LEMMA BoundByName ==
    /\ LoginsPerChallengeBounded <=> \A c \in Challenges : LoginsOk(c)
    /\ LoginsPerChallengeBounded' <=> \A c \in Challenges : LoginsOk(c)'
    /\ \A c : Entering(c) \in SUBSET Requests /\ Entering(c)' \in SUBSET Requests
  BY DEF LoginsPerChallengeBounded, LoginsOk, Entering, N

\* It holds on when no more logins are past their check.
LEMMA LoginsStay ==
    ASSUME TypeOK, NEW c \in Challenges, LoginsOk(c), Entering(c)' \subseteq Entering(c),
           logins'[c] = logins[c]
    PROVE  LoginsOk(c)'
<1>1. logins[c] + Cardinality(Entering(c)) <= N
  BY DEF LoginsOk
<1>2. /\ Cardinality(Entering(c)) \in Nat /\ Cardinality(Entering(c)') \in Nat /\ N \in Nat
      /\ Cardinality(Entering(c)') <= Cardinality(Entering(c))
  BY BoundByName, Counts
<1>3. logins'[c] + Cardinality(Entering(c)') <= N
  BY <1>1, <1>2 DEF TypeOK
<1> QED
  BY <1>3 DEF LoginsOk, N

-----------------------------------------------------------------------------
(* The history                                                             *)

LEMMA EntitledIsTyped == Observe => entitled' \subseteq Requests
  BY DEF Observe

LEMMA EntitledIsKept ==
    ASSUME Observe, NEW r \in Requests, r \in entitled \/ InOrder(r)', req'[r].kind = "login"
    PROVE  r \in entitled'
  BY DEF Observe

\* Only the handler in r moves, to q: the others keep what they are entitled to.
LEMMA OneMoves ==
    ASSUME IInv, Observe, NEW r \in Requests, NEW q, req' = [req EXCEPT ![r] = q],
           q.kind = "login" /\ q.step \in {"clear", "session"} => r \in entitled \/ InOrder(r)'
    PROVE  /\ req'[r] = q /\ \A t \in Requests \ {r} : req'[t] = req[t]
           /\ LoginWasInOrder'
<1>1. req'[r] = q /\ \A t \in Requests \ {r} : req'[t] = req[t]
  BY DEF IInv, TypeOK
<1>2. LoginWasInOrder'
  <2> SUFFICES ASSUME NEW t \in Requests, req'[t].kind = "login",
                      req'[t].step \in {"clear", "session"}
               PROVE  t \in entitled'
    BY DEF LoginWasInOrder, At
  <2>1. t \in entitled \/ InOrder(t)'
    <3>1. CASE t = r
      BY <1>1, <3>1
    <3>2. CASE t # r
      BY <1>1, <3>2 DEF IInv, LoginWasInOrder, At
    <3> QED
      BY <3>1, <3>2
  <2> QED
    BY <2>1, EntitledIsKept
<1> QED
  BY <1>1, <1>2

-----------------------------------------------------------------------------
(* Handlers that only read, begin or end                                   *)

\* Only the handler in r moves, to a step before which nothing was found that must last.
Quiet(r) ==
    /\ \E q \in Request :
          /\ req' = [req EXCEPT ![r] = q]
          /\ q.kind = "register" => q.user \in Users /\ q.step # "rekey"
          /\ q.kind = "login" => q.challenge \in Challenges /\ q.step \notin {"clear", "session"}
          /\ q.challenge <= issued
    /\ UNCHANGED <<status, credential, issued, logins>>

LEMMA QuietKeeps ==
    ASSUME IInv, Observe, NEW r \in Requests, Quiet(r), clock' \in Nat
    PROVE  IInv'
<1>1. PICK q \in Request :
          /\ req' = [req EXCEPT ![r] = q]
          /\ q.kind = "register" => q.user \in Users /\ q.step # "rekey"
          /\ q.kind = "login" => q.challenge \in Challenges /\ q.step \notin {"clear", "session"}
          /\ q.challenge <= issued
  BY DEF Quiet
<1>2. UNCHANGED <<status, credential, issued, logins>>
  BY DEF Quiet
<1>3. req'[r] = q /\ (\A t \in Requests \ {r} : req'[t] = req[t]) /\ LoginWasInOrder'
  BY <1>1, OneMoves
<1>4. TypeOK'
  BY <1>1, <1>2, EntitledIsTyped DEF IInv, TypeOK
<1>5. HandlersAreNamed'
  BY <1>1, <1>2, <1>3 DEF IInv, RowInv, HandlersAreNamed
<1>6. CurrentIsUnused'
  BY <1>1, <1>2, <1>3 DEF IInv, RowInv, CurrentIsUnused, Registered, At
<1>7. RekeysOwnRow' /\ KeyIsTheOwners'
  BY <1>1, <1>2, <1>3
     DEF IInv, RowInv, RekeysOwnRow, KeyIsTheOwners, Registered, At, NobodyDeleted
<1>8. \A c \in Challenges : LoginsOk(c)'
  <2>1. \A c \in Challenges : Entering(c)' \subseteq Entering(c)
    BY <1>1, <1>3 DEF Entering, At
  <2> QED
    BY <1>2, <2>1, BoundByName, LoginsStay DEF IInv
<1> QED
  BY <1>3, <1>4, <1>5, <1>6, <1>7, <1>8, BoundByName DEF IInv, RowInv

LEMMA IdleIsQuiet == /\ Idle \in Request /\ Idle.kind = "none" /\ Idle.challenge = 0
  BY DEF Idle, Request, Kinds, Steps

LEMMA DoneIsQuiet ==
    ASSUME IInv, NEW r \in Requests, Done(r), UNCHANGED <<status, credential, issued, logins>>
    PROVE  Quiet(r)
<1>1. 0 <= issued
  BY BiometricAssumption DEF IInv, TypeOK
<1> QED
  BY <1>1, IdleIsQuiet DEF Quiet, Done

-----------------------------------------------------------------------------
(* Handlers that write the row and end                                     *)

\* The row is written without a challenge, by its owner or by nobody's loss of it.
LEMMA WriteKeeps ==
    ASSUME IInv, Observe, NEW r \in Requests, Done(r), NEW row \in Credential,
           credential' = row, UNCHANGED <<clock, status, issued, logins>>,
           row = credential \/ (row.challenge = 0 /\ row.expiresAt = 0),
           NobodyDeleted => row.key = row.owner,
           Registered => row.owner = credential.owner
    PROVE  IInv'
<1>1. /\ Idle \in Request /\ Idle.kind = "none" /\ Idle.challenge = 0
      /\ req' = [req EXCEPT ![r] = Idle]
  BY IdleIsQuiet DEF Done
<1>2. row # Null
  BY NullIsNoCredential
<1>3. req'[r] = Idle /\ (\A t \in Requests \ {r} : req'[t] = req[t]) /\ LoginWasInOrder'
  BY <1>1, OneMoves
<1>4. TypeOK'
  <2>1. row.challenge <= issued /\ (row.challenge = 0 <=> row.expiresAt = 0)
    BY <1>2 DEF IInv, TypeOK
  <2> QED
    BY <1>1, <2>1, EntitledIsTyped DEF IInv, TypeOK
<1>5. HandlersAreNamed'
  BY <1>1, <1>3 DEF IInv, TypeOK, RowInv, HandlersAreNamed
<1>6. CurrentIsUnused'
  BY <1>1, <1>2, <1>3 DEF IInv, RowInv, CurrentIsUnused, Registered, At
<1>7. RekeysOwnRow' /\ KeyIsTheOwners'
  BY <1>1, <1>2, <1>3
     DEF IInv, RowInv, RekeysOwnRow, KeyIsTheOwners, Registered, At, NobodyDeleted
<1>8. \A c \in Challenges : LoginsOk(c)'
  <2>1. \A c \in Challenges : Entering(c)' \subseteq Entering(c)
    BY <1>1, <1>3 DEF Entering, At
  <2> QED
    BY <2>1, BoundByName, LoginsStay DEF IInv
<1> QED
  BY <1>3, <1>4, <1>5, <1>6, <1>7, <1>8, BoundByName DEF IInv, RowInv

\* A row as it is there
LEMMA RowIsTyped ==
    ASSUME IInv, Registered
    PROVE  /\ credential \in Credential /\ credential # Null /\ credential.owner \in Users
           /\ credential.key \in Users /\ credential.expiresAt \in Nat
           /\ credential.challenge \in {0} \cup Challenges /\ credential.enabled \in BOOLEAN
  BY DEF IInv, TypeOK, Registered, Credential

LEMMA CreateKeeps ==
    ASSUME IInv, Observe, NEW r \in Requests, CreateCredential(r)
    PROVE  IInv'
<1>1. /\ req[r].user \in Users /\ Done(r) /\ credential' = Created(r)
      /\ UNCHANGED <<clock, status, issued, logins>>
  BY DEF CreateCredential, At, IInv, RowInv, HandlersAreNamed
<1>2. ASSUME Created(r) = credential PROVE IInv'
  <2>1. ASSUME ~Registered PROVE IInv'
    <3>1. Quiet(r)
      BY <1>1, <1>2, DoneIsQuiet
    <3> QED
      BY <1>1, <3>1, QuietKeeps DEF IInv, TypeOK
  <2>2. ASSUME Registered PROVE IInv'
    BY <1>1, <1>2, <2>2, RowIsTyped, WriteKeeps DEF IInv, KeyIsTheOwners, NobodyDeleted
  <2> QED
    BY <2>1, <2>2
<1>3. ASSUME Created(r) # credential PROVE IInv'
  <2> DEFINE row == [owner |-> req[r].user, key |-> req[r].user, enabled |-> TRUE,
                     challenge |-> 0, expiresAt |-> 0]
  <2>1. Created(r) = row /\ ~Registered
    BY <1>3 DEF Created
  <2>2. row \in Credential /\ row.challenge = 0 /\ row.expiresAt = 0 /\ row.key = row.owner
    BY <1>1 DEF Credential
  <2> HIDE DEF row
  <2> QED
    BY <1>1, <2>1, <2>2, WriteKeeps
<1> QED
  BY <1>2, <1>3

LEMMA UpdateKeyKeeps ==
    ASSUME IInv, Observe, NEW r \in Requests, UpdateKey(r)
    PROVE  IInv'
<1>1. /\ At(r, "register", "rekey") /\ Registered /\ credential' = Rekeyed(r) /\ Done(r)
      /\ UNCHANGED <<clock, status, issued, logins>>
  BY DEF UpdateKey, Update
<1>2. req[r].user \in Users /\ credential \in Credential
  BY <1>1, RowIsTyped DEF At, IInv, RowInv, HandlersAreNamed
<1>3. /\ Rekeyed(r) \in Credential /\ Rekeyed(r).challenge = 0 /\ Rekeyed(r).expiresAt = 0
      /\ Rekeyed(r).owner = credential.owner /\ Rekeyed(r).key = req[r].user
  BY <1>2 DEF Rekeyed, Cleared, Credential
<1>4. NobodyDeleted => credential.owner = req[r].user
  BY <1>1 DEF IInv, RowInv, RekeysOwnRow
<1> QED
  BY <1>1, <1>3, <1>4, WriteKeeps

LEMMA UpdateSettingKeeps ==
    ASSUME IInv, Observe, NEW r \in Requests, UpdateSetting(r)
    PROVE  IInv'
<1> DEFINE row == [Cleared(credential) EXCEPT !.enabled = req[r].enable]
<1>1. /\ Registered /\ credential' = row /\ Done(r)
      /\ UNCHANGED <<clock, status, issued, logins>>
  BY DEF UpdateSetting, Update
<1>2. credential \in Credential /\ req[r].enable \in BOOLEAN
  BY <1>1, RowIsTyped DEF IInv, TypeOK, Request
<1>3. /\ row \in Credential /\ row.challenge = 0 /\ row.expiresAt = 0
      /\ row.owner = credential.owner /\ row.key = credential.key
  BY <1>2 DEF Cleared, Credential
<1>4. NobodyDeleted => credential.key = credential.owner
  BY <1>1 DEF IInv, KeyIsTheOwners, NobodyDeleted
<1> HIDE DEF row
<1> QED
  BY <1>1, <1>3, <1>4, WriteKeeps

\* The new challenge was never given out, so nothing was opened with it.
LEMMA IssueKeeps ==
    ASSUME IInv, Observe, NEW r \in Requests, IssueChallenge(r)
    PROVE  IInv'
<1>0. PICK n \in Nat : n = issued + 1
  BY DEF IInv, TypeOK
<1> DEFINE row == [credential EXCEPT !.challenge = n, !.expiresAt = clock + ChallengeTtl]
<1>1. /\ Registered /\ credential' = row /\ Done(r) /\ issued' = n /\ issued < MaxChallenges
      /\ UNCHANGED <<clock, status, logins>>
  BY <1>0 DEF IssueChallenge, Update
<1>2. /\ n \in Challenges /\ n # 0 /\ issued \in Nat /\ issued' \in 0 .. MaxChallenges
      /\ clock + ChallengeTtl \in Nat /\ clock + ChallengeTtl # 0
  BY <1>0, <1>1, BiometricAssumption DEF IInv, TypeOK, Challenges
<1>3. /\ row \in Credential /\ row.challenge = n /\ row.expiresAt # 0
      /\ row.owner = credential.owner /\ row.key = credential.key
  BY <1>1, <1>2, RowIsTyped DEF Credential
<1> HIDE DEF row
<1>4. /\ Idle \in Request /\ Idle.kind = "none" /\ Idle.challenge = 0
      /\ req' = [req EXCEPT ![r] = Idle]
  BY <1>1, IdleIsQuiet DEF Done
<1>5. row # Null
  BY <1>3, NullIsNoCredential
<1>6. req'[r] = Idle /\ (\A t \in Requests \ {r} : req'[t] = req[t]) /\ LoginWasInOrder'
  BY <1>4, OneMoves
<1>7. TypeOK'
  BY <1>0, <1>1, <1>2, <1>3, <1>4, EntitledIsTyped DEF IInv, TypeOK
<1>8. HandlersAreNamed'
  <2>1. \A t \in Requests : req[t].challenge \in Nat
    BY BiometricAssumption DEF IInv, TypeOK, Request, Challenges
  <2> QED
    BY <1>0, <1>1, <1>2, <1>4, <1>6, <2>1 DEF IInv, RowInv, HandlersAreNamed
<1>9. CurrentIsUnused'
  <2>1. logins[n] = 0 /\ \A t \in Requests : req[t].challenge # n
    BY <1>0, <1>2 DEF IInv, RowInv, CurrentIsUnused, HandlersAreNamed
  <2>2. \A c \in Challenges : c > issued' => c > issued
    BY <1>0, <1>1, <1>2 DEF Challenges
  <2> QED
    BY <1>1, <1>3, <1>4, <1>6, <2>1, <2>2 DEF IInv, RowInv, CurrentIsUnused, Registered, At
<1>10. RekeysOwnRow' /\ KeyIsTheOwners'
  BY <1>1, <1>3, <1>4, <1>5, <1>6
     DEF IInv, RowInv, RekeysOwnRow, KeyIsTheOwners, Registered, At, NobodyDeleted
<1>11. \A c \in Challenges : LoginsOk(c)'
  <2>1. \A c \in Challenges : Entering(c)' \subseteq Entering(c)
    BY <1>4, <1>6 DEF Entering, At
  <2> QED
    BY <1>1, <2>1, BoundByName, LoginsStay DEF IInv
<1> QED
  BY <1>6, <1>7, <1>8, <1>9, <1>10, <1>11, BoundByName DEF IInv, RowInv

-----------------------------------------------------------------------------
(* Handlers that go on with what they found                                *)

\* registerBiometric found a row of its own account.
LEMMA FoundKeeps ==
    ASSUME IInv, Observe, NEW r \in Requests, At(r, "register", "find"),
           Registered, credential.owner = req[r].user, Goto(r, "rekey"),
           UNCHANGED <<clock, status, credential, issued, logins>>
    PROVE  IInv'
<1> DEFINE q == [req[r] EXCEPT !.step = "rekey"]
<1>1. req' = [req EXCEPT ![r] = q]
  BY DEF Goto, IInv, TypeOK
<1>2. /\ q \in Request /\ q.kind = "register" /\ q.step = "rekey" /\ q.user = req[r].user
      /\ q.challenge = req[r].challenge
  BY DEF At, IInv, TypeOK, Request, Steps
<1> HIDE DEF q
<1>3. req'[r] = q /\ (\A t \in Requests \ {r} : req'[t] = req[t]) /\ LoginWasInOrder'
  BY <1>1, <1>2, OneMoves
<1>4. TypeOK'
  BY <1>1, <1>2, EntitledIsTyped DEF IInv, TypeOK
<1>5. HandlersAreNamed'
  BY <1>2, <1>3 DEF IInv, RowInv, HandlersAreNamed, At
<1>6. CurrentIsUnused'
  BY <1>2, <1>3 DEF IInv, RowInv, CurrentIsUnused, Registered, At
<1>7. RekeysOwnRow' /\ KeyIsTheOwners'
  BY <1>2, <1>3 DEF IInv, RowInv, RekeysOwnRow, KeyIsTheOwners, Registered, At, NobodyDeleted
<1>8. \A c \in Challenges : LoginsOk(c)'
  <2>1. \A c \in Challenges : Entering(c)' \subseteq Entering(c)
    BY <1>2, <1>3 DEF Entering, At
  <2> QED
    BY <2>1, BoundByName, LoginsStay DEF IInv
<1> QED
  BY <1>3, <1>4, <1>5, <1>6, <1>7, <1>8, BoundByName DEF IInv, RowInv

\* A login passes its check: its challenge is the row's, with which nothing was opened yet.
LEMMA CheckKeeps ==
    ASSUME IInv, Observe, NEW r \in Requests, At(r, "login", "find"),
           MayUseDevice, ChallengeOk(req[r].challenge), credential.key = req[r].signer,
           req' = [req EXCEPT ![r].step = "clear", ![r].user = credential.owner],
           UNCHANGED <<clock, status, credential, issued, logins>>
    PROVE  IInv'
<1> DEFINE q == [req[r] EXCEPT !.step = "clear", !.user = credential.owner]
<1>0. Registered /\ credential.owner \in Users
  BY RowIsTyped DEF MayUseDevice
<1>1. req' = [req EXCEPT ![r] = q]
  BY DEF IInv, TypeOK
<1>2. /\ q \in Request /\ q.kind = "login" /\ q.step = "clear" /\ q.user = credential.owner
      /\ q.challenge = req[r].challenge /\ q.signer = req[r].signer
  BY <1>0 DEF At, IInv, TypeOK, Request, Steps
<1> HIDE DEF q
<1>3. req'[r] = q /\ \A t \in Requests \ {r} : req'[t] = req[t]
  BY <1>1 DEF IInv, TypeOK
<1>4. LoginWasInOrder'
  <2>1. InOrder(r)'
    BY <1>2, <1>3 DEF InOrder, MayUseDevice, ChallengeOk, Registered
  <2> QED
    BY <1>1, <2>1, OneMoves
<1>5. TypeOK'
  BY <1>1, <1>2, EntitledIsTyped DEF IInv, TypeOK
<1>6. HandlersAreNamed'
  BY <1>2, <1>3 DEF IInv, RowInv, HandlersAreNamed, At
<1>7. CurrentIsUnused'
  BY <1>2, <1>3 DEF IInv, RowInv, CurrentIsUnused, Registered, At
<1>8. RekeysOwnRow' /\ KeyIsTheOwners'
  BY <1>2, <1>3 DEF IInv, RowInv, RekeysOwnRow, KeyIsTheOwners, Registered, At, NobodyDeleted
<1>9. PICK c0 \in Challenges : c0 = req[r].challenge
  BY DEF At, IInv, RowInv, HandlersAreNamed
<1>10. LoginsOk(c0)'
  <2>1. logins'[c0] = 0
    BY <1>0, <1>9 DEF ChallengeOk, IInv, RowInv, CurrentIsUnused, Challenges
  <2>2. Cardinality(Entering(c0)') \in Nat /\ Cardinality(Entering(c0)') <= N /\ N \in Nat
    BY BoundByName, Counts
  <2>3. logins'[c0] + Cardinality(Entering(c0)') <= N
    BY <2>1, <2>2
  <2> QED
    BY <2>3 DEF LoginsOk, N
<1>11. \A c \in Challenges \ {c0} : LoginsOk(c)'
  <2>1. \A c \in Challenges \ {c0} : Entering(c)' \subseteq Entering(c)
    <3> SUFFICES ASSUME NEW c \in Challenges \ {c0}, NEW t \in Requests, req'[t].challenge = c,
                        At(t, "login", "clear")' \/ At(t, "login", "session")'
                 PROVE  t \in Entering(c)
      BY DEF Entering
    <3>1. t # r
      BY <1>2, <1>3, <1>9
    <3> QED
      BY <1>3, <3>1 DEF Entering, At
  <2> QED
    BY <2>1, BoundByName, LoginsStay DEF IInv
<1> QED
  BY <1>4, <1>5, <1>6, <1>7, <1>8, <1>10, <1>11, BoundByName DEF IInv, RowInv

LEMMA ClearKeeps ==
    ASSUME IInv, Observe, NEW r \in Requests, ClearChallenge(r)
    PROVE  IInv'
<1> DEFINE q == [req[r] EXCEPT !.step = "session"]
           row == Cleared(credential)
<1>1. /\ At(r, "login", "clear") /\ Registered /\ credential' = row
      /\ UNCHANGED <<clock, status, issued, logins>>
  BY DEF ClearChallenge, Update
<1>2. req' = [req EXCEPT ![r] = q]
  BY DEF ClearChallenge, Goto, IInv, TypeOK
<1>3. /\ q \in Request /\ q.kind = "login" /\ q.step = "session" /\ q.challenge = req[r].challenge
  BY <1>1 DEF At, IInv, TypeOK, Request, Steps
<1>4. /\ row \in Credential /\ row.challenge = 0 /\ row.expiresAt = 0 /\ row # Null
      /\ row.owner = credential.owner /\ row.key = credential.key
  <2>1. credential \in Credential
    BY <1>1, RowIsTyped
  <2>2. /\ row \in Credential /\ row.challenge = 0 /\ row.expiresAt = 0
        /\ row.owner = credential.owner /\ row.key = credential.key
    BY <2>1 DEF Cleared, Credential
  <2> QED
    BY <2>2, NullIsNoCredential
<1> HIDE DEF q, row
<1>5. req'[r] = q /\ (\A t \in Requests \ {r} : req'[t] = req[t]) /\ LoginWasInOrder'
  <2>1. r \in entitled
    BY <1>1 DEF IInv, LoginWasInOrder
  <2> QED
    BY <1>2, <2>1, OneMoves
<1>6. TypeOK'
  <2>1. 0 <= issued
    BY BiometricAssumption DEF IInv, TypeOK
  <2> QED
    BY <1>1, <1>2, <1>3, <1>4, <2>1, EntitledIsTyped DEF IInv, TypeOK
<1>7. HandlersAreNamed'
  BY <1>1, <1>3, <1>5 DEF IInv, RowInv, HandlersAreNamed, At
<1>8. CurrentIsUnused'
  BY <1>1, <1>4 DEF IInv, RowInv, CurrentIsUnused, Registered
<1>9. RekeysOwnRow' /\ KeyIsTheOwners'
  BY <1>1, <1>3, <1>4, <1>5
     DEF IInv, RowInv, RekeysOwnRow, KeyIsTheOwners, Registered, At, NobodyDeleted
<1>10. \A c \in Challenges : LoginsOk(c)'
  <2>1. \A c \in Challenges : Entering(c)' \subseteq Entering(c)
    BY <1>1, <1>3, <1>5 DEF Entering, At
  <2> QED
    BY <1>1, <2>1, BoundByName, LoginsStay DEF IInv
<1> QED
  BY <1>5, <1>6, <1>7, <1>8, <1>9, <1>10, BoundByName DEF IInv, RowInv

LEMMA OpenKeeps ==
    ASSUME IInv, Observe, NEW r \in Requests, OpenSession(r)
    PROVE  IInv'
<1>0. PICK n \in Challenges : n = req[r].challenge
  BY DEF OpenSession, At, IInv, RowInv, HandlersAreNamed
<1>1. /\ At(r, "login", "session") /\ logins' = [logins EXCEPT ![n] = logins[n] + 1]
      /\ UNCHANGED <<clock, status, credential, issued>>
  BY <1>0 DEF OpenSession
<1>2. /\ Idle \in Request /\ Idle.kind = "none" /\ Idle.challenge = 0
      /\ req' = [req EXCEPT ![r] = Idle]
  BY IdleIsQuiet DEF OpenSession, Done
<1>3. /\ logins'[n] = logins[n] + 1 /\ logins[n] \in Nat /\ logins' \in [Challenges -> Nat]
      /\ \A c \in Challenges \ {n} : logins'[c] = logins[c]
  BY <1>1 DEF IInv, TypeOK
<1>4. req'[r] = Idle /\ (\A t \in Requests \ {r} : req'[t] = req[t]) /\ LoginWasInOrder'
  BY <1>2, OneMoves
<1>5. TypeOK'
  BY <1>1, <1>2, <1>3, EntitledIsTyped DEF IInv, TypeOK
<1>6. HandlersAreNamed'
  BY <1>1, <1>2, <1>4, BiometricAssumption DEF IInv, TypeOK, RowInv, HandlersAreNamed
<1>7. CurrentIsUnused'
  <2>1. n <= issued /\ (Registered => credential.challenge # n)
    BY <1>0, <1>1 DEF IInv, RowInv, CurrentIsUnused, HandlersAreNamed, Challenges
  <2>2. /\ issued \in Nat
        /\ Registered /\ credential.challenge # 0 => credential.challenge \in Challenges \ {n}
    BY <2>1, RowIsTyped DEF IInv, TypeOK
  <2>3. \A c \in Challenges : c > issued' => logins'[c] = 0
    BY <1>1, <1>3, <2>1, <2>2 DEF IInv, RowInv, CurrentIsUnused, Challenges
  <2> QED
    BY <1>1, <1>2, <1>3, <1>4, <2>2, <2>3 DEF IInv, RowInv, CurrentIsUnused, Registered, At
<1>8. RekeysOwnRow' /\ KeyIsTheOwners'
  BY <1>1, <1>2, <1>4
     DEF IInv, RowInv, RekeysOwnRow, KeyIsTheOwners, Registered, At, NobodyDeleted
<1>9. \A c \in Challenges : Entering(c)' \subseteq Entering(c) \ {r}
  BY <1>2, <1>4 DEF Entering, At
<1>10. LoginsOk(n)'
  <2>1. r \in Entering(n)
    BY <1>0, <1>1 DEF Entering
  <2>2. Cardinality(Entering(n)') <= Cardinality(Entering(n)) - 1
    BY <1>9, <2>1, BoundByName, CountsOneLess
  <2>3. Cardinality(Entering(n)) \in Nat /\ Cardinality(Entering(n)') \in Nat /\ N \in Nat
    BY BoundByName, Counts
  <2>4. logins[n] + Cardinality(Entering(n)) <= N
    BY BoundByName DEF IInv, LoginsOk
  <2>5. logins'[n] + Cardinality(Entering(n)') <= N
    BY <1>3, <2>2, <2>3, <2>4
  <2> QED
    BY <2>5 DEF LoginsOk, N
<1>11. \A c \in Challenges \ {n} : LoginsOk(c)'
  BY <1>3, <1>9, BoundByName, LoginsStay DEF IInv
<1> QED
  BY <1>4, <1>5, <1>6, <1>7, <1>8, <1>10, <1>11, BoundByName DEF IInv, RowInv

-----------------------------------------------------------------------------
(* The accounts and the clock                                              *)

\* Nobody moves: the clock, the status of an account or a row that goes with it may change.
LEMMA NobodyMoves ==
    ASSUME IInv, UNCHANGED <<issued, req, logins>>,
           \A r \in entitled : r \in entitled' \/ req[r].kind # "login",
           entitled' \subseteq Requests, clock' \in Nat,
           status' \in [Users -> {"ACTIVE", "DISABLED", "DELETED"}],
           NobodyDeleted' => NobodyDeleted /\ credential' = credential,
           credential' = credential \/ credential' = Null
    PROVE  IInv'
<1>1. TypeOK'
  BY DEF IInv, TypeOK
<1>2. HandlersAreNamed' /\ CurrentIsUnused' /\ LoginWasInOrder'
  BY DEF IInv, RowInv, HandlersAreNamed, CurrentIsUnused, LoginWasInOrder, Registered, At
<1>3. RekeysOwnRow' /\ KeyIsTheOwners'
  BY DEF IInv, RowInv, RekeysOwnRow, KeyIsTheOwners, Registered, At, NobodyDeleted
<1>4. \A c \in Challenges : LoginsOk(c)'
  <2>1. \A c \in Challenges : Entering(c)' \subseteq Entering(c)
    BY DEF Entering, At
  <2> QED
    BY <2>1, BoundByName, LoginsStay DEF IInv
<1> QED
  BY <1>1, <1>2, <1>3, <1>4, BoundByName DEF IInv, RowInv

LEMMA AccountSteps ==
    ASSUME IInv, Observe,
           \/ \E u \in Users, new \in {"ACTIVE", "DISABLED"} : SetStatus(u, new)
           \/ \E u \in Users : DeleteUser(u)
           \/ Tick
    PROVE  IInv'
<1>0. UNCHANGED req => \A r \in entitled : r \in entitled' \/ req[r].kind # "login"
  BY DEF Observe, IInv, TypeOK
<1>1. ASSUME NEW u \in Users, NEW new \in {"ACTIVE", "DISABLED"}, SetStatus(u, new) PROVE IInv'
  <2>1. /\ status[u] # "DELETED" /\ status' = [status EXCEPT ![u] = new]
        /\ UNCHANGED <<clock, credential, issued, req, logins>>
    BY <1>1 DEF SetStatus
  <2>2. /\ status' \in [Users -> {"ACTIVE", "DISABLED", "DELETED"}]
        /\ NobodyDeleted' => NobodyDeleted
    BY <2>1 DEF IInv, TypeOK, NobodyDeleted
  <2>3. clock \in Nat
    BY DEF IInv, TypeOK
  <2> QED
    BY <1>0, <2>1, <2>2, <2>3, EntitledIsTyped, NobodyMoves
<1>2. ASSUME NEW u \in Users, DeleteUser(u) PROVE IInv'
  <2>1. /\ status' = [status EXCEPT ![u] = "DELETED"]
        /\ credential' = credential \/ credential' = Null
        /\ UNCHANGED <<clock, issued, req, logins>>
    BY <1>2 DEF DeleteUser
  <2>2. status' \in [Users -> {"ACTIVE", "DISABLED", "DELETED"}] /\ ~NobodyDeleted'
    BY <2>1 DEF IInv, TypeOK, NobodyDeleted
  <2>3. clock \in Nat
    BY DEF IInv, TypeOK
  <2> QED
    BY <1>0, <2>1, <2>2, <2>3, EntitledIsTyped, NobodyMoves
<1>3. ASSUME Tick PROVE IInv'
  <2>1. clock' \in Nat /\ UNCHANGED <<status, credential, issued, req, logins>>
    BY <1>3 DEF Tick, IInv, TypeOK
  <2>2. /\ status' \in [Users -> {"ACTIVE", "DISABLED", "DELETED"}]
        /\ NobodyDeleted' => NobodyDeleted
    BY <2>1 DEF IInv, TypeOK, NobodyDeleted
  <2> QED
    BY <1>0, <2>1, <2>2, EntitledIsTyped, NobodyMoves
<1> QED
  BY <1>1, <1>2, <1>3

-----------------------------------------------------------------------------
(* The next-state relation                                                 *)

\* Handlers that begin, or go on with nothing found that must last
QuietAction(r) ==
    \/ \E u \in Users : BeginRegister(r, u)
    \/ CheckPin(r)
    \/ \E u \in Users, enable \in BOOLEAN : BeginSetting(r, u, enable)
    \/ FindOwnDevice(r)
    \/ BeginChallenge(r)
    \/ FindEnabled(r)
    \/ \E c \in Challenges, u \in Users : BeginLogin(r, c, u)
    \/ Abort(r)

\* A handler moves on to a step other than those that need what was found.
LEMMA GotoIsQuiet ==
    ASSUME IInv, NEW r \in Requests, NEW step \in Steps \ {"rekey", "clear", "session"},
           Goto(r, step), UNCHANGED <<status, credential, issued, logins>>
    PROVE  Quiet(r)
<1> DEFINE q == [req[r] EXCEPT !.step = step]
<1>1. req' = [req EXCEPT ![r] = q]
  BY DEF Goto, IInv, TypeOK
<1>2. /\ q \in Request /\ q.step = step /\ q.kind = req[r].kind /\ q.user = req[r].user
      /\ q.challenge = req[r].challenge
  BY DEF IInv, TypeOK, Request
<1> HIDE DEF q
<1>3. /\ req[r].kind = "register" => req[r].user \in Users
      /\ req[r].kind = "login" => req[r].challenge \in Challenges
      /\ req[r].challenge <= issued
  BY DEF IInv, RowInv, HandlersAreNamed
<1> QED
  BY <1>1, <1>2, <1>3 DEF Quiet

\* A request begins.
LEMMA BeginIsQuiet ==
    ASSUME IInv, NEW r \in Requests, NEW q \in Request, Begin(r, q),
           q.kind = "register" => q.user \in Users, q.step \notin {"rekey", "clear", "session"},
           q.kind = "login" => q.challenge \in Challenges, q.challenge <= issued,
           UNCHANGED <<status, credential, issued, logins>>
    PROVE  Quiet(r)
  BY DEF Begin, Quiet

LEMMA QuietActions ==
    ASSUME IInv, NEW r \in Requests, QuietAction(r)
    PROVE  Quiet(r) /\ clock' = clock
<1>0. /\ 0 <= issued /\ Idle.step = "idle" /\ Idle.user = Null
      /\ Idle.enable = FALSE /\ Idle.signer = Null
  BY BiometricAssumption DEF IInv, TypeOK, Idle
<1>1. ASSUME NEW u \in Users, BeginRegister(r, u) PROVE Quiet(r) /\ clock' = clock
  <2> DEFINE q == [Idle EXCEPT !.kind = "register", !.step = "pin", !.user = u]
  <2>1. /\ q \in Request /\ q.kind = "register" /\ q.step = "pin" /\ q.user = u
        /\ q.challenge = 0
    BY IdleIsQuiet DEF Request, Kinds, Steps
  <2>2. Begin(r, q) /\ UNCHANGED <<clock, status, credential, issued, logins>>
    BY <1>1 DEF BeginRegister
  <2> HIDE DEF q
  <2> QED
    BY <1>0, <2>1, <2>2, BeginIsQuiet
<1>2. ASSUME NEW u \in Users, NEW enable \in BOOLEAN, BeginSetting(r, u, enable)
      PROVE  Quiet(r) /\ clock' = clock
  <2> DEFINE q == [Idle EXCEPT !.kind = "setting", !.step = "find", !.user = u, !.enable = enable]
  <2>1. /\ q \in Request /\ q.kind = "setting" /\ q.step = "find" /\ q.challenge = 0
    BY IdleIsQuiet DEF Request, Kinds, Steps
  <2>2. Begin(r, q) /\ UNCHANGED <<clock, status, credential, issued, logins>>
    BY <1>2 DEF BeginSetting
  <2> HIDE DEF q
  <2> QED
    BY <1>0, <2>1, <2>2, BeginIsQuiet
<1>3. ASSUME BeginChallenge(r) PROVE Quiet(r) /\ clock' = clock
  <2> DEFINE q == [Idle EXCEPT !.kind = "challenge", !.step = "find"]
  <2>1. /\ q \in Request /\ q.kind = "challenge" /\ q.step = "find" /\ q.challenge = 0
    BY IdleIsQuiet DEF Request, Kinds, Steps
  <2>2. Begin(r, q) /\ UNCHANGED <<clock, status, credential, issued, logins>>
    BY <1>3 DEF BeginChallenge
  <2> HIDE DEF q
  <2> QED
    BY <1>0, <2>1, <2>2, BeginIsQuiet
<1>4. ASSUME NEW c \in Challenges, NEW u \in Users, BeginLogin(r, c, u)
      PROVE  Quiet(r) /\ clock' = clock
  <2> DEFINE q == [Idle EXCEPT !.kind = "login", !.step = "find", !.challenge = c, !.signer = u]
  <2>1. /\ q \in Request /\ q.kind = "login" /\ q.step = "find" /\ q.challenge = c
    BY IdleIsQuiet DEF Request, Kinds, Steps
  <2>2. /\ Begin(r, q) /\ c <= issued
        /\ UNCHANGED <<clock, status, credential, issued, logins>>
    BY <1>4 DEF BeginLogin
  <2> HIDE DEF q
  <2> QED
    BY <2>1, <2>2, BeginIsQuiet
<1>5. ASSUME CheckPin(r) \/ FindOwnDevice(r) \/ FindEnabled(r) \/ Abort(r)
      PROVE  Quiet(r) /\ clock' = clock
  <2>1. /\ Done(r) \/ \E step \in {"find", "set", "issue"} : Goto(r, step)
        /\ UNCHANGED <<clock, status, credential, issued, logins>>
    BY <1>5 DEF CheckPin, FindOwnDevice, FindEnabled, Abort
  <2>2. {"find", "set", "issue"} \subseteq Steps \ {"rekey", "clear", "session"}
    BY DEF Steps
  <2> QED
    BY <2>1, <2>2, DoneIsQuiet, GotoIsQuiet
<1> QED
  BY <1>1, <1>2, <1>3, <1>4, <1>5, Zenon DEF QuietAction

LEMMA FindSteps ==
    ASSUME IInv, Observe, NEW r \in Requests, FindDevice(r) \/ CheckLogin(r)
    PROVE  IInv'
<1>1. ASSUME Quiet(r), clock' = clock PROVE IInv'
  BY <1>1, QuietKeeps DEF IInv, TypeOK
<1>2. ASSUME FindDevice(r) PROVE IInv'
  <2>1. /\ At(r, "register", "find") /\ UNCHANGED <<clock, status, credential, issued, logins>>
        /\ \/ Goto(r, "create") \/ Done(r)
           \/ Registered /\ credential.owner = req[r].user /\ Goto(r, "rekey")
    BY <1>2 DEF FindDevice
  <2>2. "create" \in Steps \ {"rekey", "clear", "session"}
    BY DEF Steps
  <2> QED
    BY <1>1, <2>1, <2>2, DoneIsQuiet, GotoIsQuiet, FoundKeeps
<1>3. ASSUME CheckLogin(r) PROVE IInv'
  <2>1. ASSUME Done(r) PROVE IInv'
    BY <1>1, <1>3, <2>1, DoneIsQuiet DEF CheckLogin
  <2> QED
    BY <1>3, <2>1, CheckKeeps DEF CheckLogin
<1> QED
  BY <1>2, <1>3

LEMMA InitEstablishes == Init => IInv
<1> SUFFICES ASSUME Init PROVE IInv
  OBVIOUS
<1>0. /\ \A r \in Requests : req[r] = Idle
      /\ credential = Null /\ issued = 0 /\ \A c \in Challenges : logins[c] = 0
  BY DEF Init
<1>1. TypeOK
  <2>1. req \in [Requests -> Request] /\ logins \in [Challenges -> Nat]
    BY IdleIsQuiet DEF Init
  <2>2. 0 \in 0 .. MaxChallenges
    BY BiometricAssumption
  <2> QED
    BY <1>0, <2>1, <2>2 DEF Init, TypeOK
<1>2. RowInv /\ LoginWasInOrder /\ KeyIsTheOwners
  BY <1>0, IdleIsQuiet DEF RowInv, HandlersAreNamed, CurrentIsUnused, RekeysOwnRow,
                           LoginWasInOrder, KeyIsTheOwners, Registered, At
<1>3. ASSUME NEW c \in Challenges PROVE LoginsOk(c)
  <2>1. Cardinality(Entering(c)) \in Nat /\ Cardinality(Entering(c)) <= N /\ N \in Nat
    BY BoundByName, Counts
  <2> QED
    BY <1>0, <2>1 DEF LoginsOk
<1> QED
  BY <1>1, <1>2, <1>3, BoundByName DEF IInv

LEMMA StepKeeps == IInv /\ [Next]_vars => IInv'
<1> SUFFICES ASSUME IInv, [Next]_vars PROVE IInv'
  OBVIOUS
<1>1. ASSUME UNCHANGED vars PROVE IInv'
  BY <1>1, NobodyMoves DEF vars, IInv, TypeOK, NobodyDeleted
<1>2. ASSUME Observe, NEW r \in Requests, QuietAction(r) PROVE IInv'
  BY <1>2, QuietActions, QuietKeeps DEF IInv, TypeOK
<1>3. ASSUME Next PROVE IInv'
  <2>1. Observe
    BY <1>3 DEF Next
  <2>2. \/ \E r \in Requests :
              \/ QuietAction(r) \/ FindDevice(r) \/ CheckLogin(r)
              \/ CreateCredential(r) \/ UpdateKey(r) \/ UpdateSetting(r)
              \/ IssueChallenge(r) \/ ClearChallenge(r) \/ OpenSession(r)
        \/ \E u \in Users, new \in {"ACTIVE", "DISABLED"} : SetStatus(u, new)
        \/ \E u \in Users : DeleteUser(u)
        \/ Tick
    BY <1>3, ZenonT(30) DEF Next, QuietAction
  <2> QED
    BY <1>2, <2>1, <2>2, FindSteps, CreateKeeps, UpdateKeyKeeps, UpdateSettingKeeps, IssueKeeps,
       ClearKeeps, OpenKeeps, AccountSteps
<1> QED
  BY <1>1, <1>3

-----------------------------------------------------------------------------
THEOREM Inductive == Spec => []IInv
  BY InitEstablishes, StepKeeps, PTL DEF Spec

\* The row of the device and the handlers keep their types, whatever runs at once.
THEOREM TypeCorrect == Spec => []TypeOK
<1>1. IInv => TypeOK
  BY DEF IInv
<1> QED
  BY <1>1, Inductive, PTL

\* A biometric login gets past its check only if it was in order at one instant of its run.
THEOREM LoginsInOrder == Spec => []LoginWasInOrder
<1>1. IInv => LoginWasInOrder
  BY DEF IInv
<1> QED
  BY <1>1, Inductive, PTL

\* One challenge opens no more sessions than requests run at once.
THEOREM LoginsHold == Spec => []LoginsPerChallengeBounded
<1>1. IInv => LoginsPerChallengeBounded
  BY DEF IInv
<1> QED
  BY <1>1, Inductive, PTL

\* While no account is deleted, a device has the key its owner registered.
THEOREM KeysHold == Spec => []KeyIsTheOwners
<1>1. IInv => KeyIsTheOwners
  BY DEF IInv
<1> QED
  BY <1>1, Inductive, PTL
=============================================================================
