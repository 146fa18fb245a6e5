--------------------------- MODULE AccountsProofs ---------------------------
(***************************************************************************)
(* Theorems about Accounts, for every set of addresses, any number of      *)
(* overlapping requests and every lifetime of access tokens.               *)
(***************************************************************************)
EXTENDS Accounts, TLAPS

\* What a login or refresh read is not newer than now, and an account that was read to be ADMIN
\* has been one at that time or later.
ReadsAreTrue(r) ==
    /\ req[r].step \in {"open", "sign"} =>
          /\ req[r].target \in Ids /\ req[r].readAt <= clock
          /\ req[r].role = "ADMIN" => adminAt[req[r].target] >= req[r].readAt
    /\ At(r, "sign") => req[r].session \in SessionIds

\* Who got past the guards has been ADMIN.
CallersWereAdmins(r) ==
    /\ req[r].step \in {"admitted", "edit", "delete"} => req[r].caller # 0
    /\ req[r].step \in {"edit", "delete"} => req[r].target \in Ids
    /\ req[r].caller # 0 => adminAt[req[r].caller] >= 0

\* Who waits for the lookup of the session had a token that was signed in time.
VerifiedInTime(r) ==
    At(r, "guard") =>
        /\ req[r].target \in Ids
        /\ req[r].role = "ADMIN" =>
              /\ adminAt[req[r].target] >= 0
              /\ req[r].readAt < adminAt[req[r].target] + AccessTtl + delay

HandlerInv(r) == ReadsAreTrue(r) /\ CallersWereAdmins(r) /\ VerifiedInTime(r)

\* A token that says ADMIN was signed at most the longest delay after its user was one.
TokensAreTrue ==
    \A t \in tokens : t.role = "ADMIN" =>
        adminAt[t.sub] >= 0 /\ adminAt[t.sub] + delay >= t.iat

AdminAtIsKept ==
    \A i \in Ids : adminAt[i] <= clock /\ (IsAdmin(i) => adminAt[i] = clock)

RowsAreCreated == \A i \in Ids : i > created => account[i] = Null

SessionsHaveUsers == \A s \in SessionIds : sessions[s] # 0 => Exists(sessions[s])

IInv ==
    /\ TypeOK /\ RowsAreCreated /\ SessionsHaveUsers
    /\ AdminAtIsKept /\ TokensAreTrue
    /\ \A r \in Requests : HandlerInv(r)
    /\ OneAccountPerAddress

-----------------------------------------------------------------------------
LEMMA Values ==
    /\ Idle \in Request /\ Idle.step = "idle" /\ Idle.caller = 0
    /\ Null \notin User /\ Null \notin Emails /\ Null \notin Roles /\ Null \notin Statuses
    /\ DefaultAdmin \in Emails /\ Edits \subseteq Body
    /\ AccessTtl \in Nat /\ MaxAccounts \in Nat /\ MaxSessions \in Nat /\ MaxTokens \in Nat
    /\ Ids = (0 .. MaxAccounts) \ {0} /\ SessionIds = (0 .. MaxSessions) \ {0}
  BY AccountsAssumption DEF Idle, Request, Steps, Roles, Ids, SessionIds

LEMMA RowsAreUsers ==
    ASSUME TypeOK, NEW i \in Ids
    PROVE  /\ Exists(i) <=> account[i] \in User
           /\ account[i] \in User => /\ account[i].email \in Emails
                                     /\ account[i].role \in Roles
                                     /\ account[i].status \in Statuses
  BY Values DEF TypeOK, Exists, User

-----------------------------------------------------------------------------
\* Time goes on, and who was ADMIN is not forgotten.
TimeGoesOn ==
    /\ clock' \in Nat /\ clock' >= clock
    /\ delay' \in Nat /\ delay' >= delay
    /\ adminAt' \in [Ids -> Int] /\ AdminAtIsKept'
    /\ \A i \in Ids : adminAt'[i] >= adminAt[i]

LEMMA HistoryKept ==
    ASSUME TypeOK, AdminAtIsKept, Observe, clock' \in Nat, clock' >= clock,
           delay' \in Nat, delay' >= delay
    PROVE  TimeGoesOn
<1>1. /\ clock \in Nat /\ \A i \in Ids : adminAt[i] \in Int /\ adminAt[i] <= clock
  BY DEF TypeOK, AdminAtIsKept
<1>2. \A i \in Ids : adminAt'[i] = IF IsAdmin(i)' THEN clock' ELSE adminAt[i]
  BY DEF Observe
<1>3. adminAt' \in [Ids -> Int]
  BY <1>1 DEF Observe
<1>4. AdminAtIsKept'
  BY <1>1, <1>2 DEF AdminAtIsKept
<1> QED
  BY <1>1, <1>2, <1>3, <1>4 DEF TimeGoesOn

\* What is known of a handler that does nothing stays known.
LEMMA OthersKept ==
    ASSUME IInv, TimeGoesOn, NEW r \in Requests, req'[r] = req[r]
    PROVE  HandlerInv(r)'
<1>1. /\ HandlerInv(r) /\ req[r] \in Request /\ clock \in Nat /\ delay \in Nat
      /\ \A i \in Ids : adminAt[i] \in Int
  BY DEF IInv, TypeOK
<1>2. /\ req[r].readAt \in Nat /\ req[r].caller \in 0 .. MaxAccounts
  BY <1>1 DEF Request
<1>3. \A i \in Ids : adminAt'[i] \in Int /\ adminAt'[i] >= adminAt[i]
  BY DEF TimeGoesOn
<1>4. ReadsAreTrue(r)'
  BY <1>1, <1>2, <1>3 DEF HandlerInv, ReadsAreTrue, TimeGoesOn, At
<1>5. CallersWereAdmins(r)'
  BY <1>1, <1>2, <1>3, Values DEF HandlerInv, CallersWereAdmins, At
<1>6. VerifiedInTime(r)'
  BY <1>1, <1>2, <1>3, Values DEF HandlerInv, VerifiedInTime, TimeGoesOn, At
<1> QED
  BY <1>4, <1>5, <1>6 DEF HandlerInv

HandlersKept ==
    /\ req' \in [Requests -> Request]
    /\ \A r \in Requests : HandlerInv(r)'

LEMMA SlotKeeps ==
    ASSUME IInv, TimeGoesOn, NEW r \in Requests, NEW new \in Request,
           req' = [req EXCEPT ![r] = new],
           req'[r] = new => HandlerInv(r)'
    PROVE  HandlersKept
<1>1. /\ req' \in [Requests -> Request] /\ req'[r] = new
      /\ \A q \in Requests \ {r} : req'[q] = req[q]
  BY DEF IInv, TypeOK
<1>2. \A q \in Requests \ {r} : HandlerInv(q)'
  BY <1>1, OthersKept
<1> QED
  BY <1>1, <1>2 DEF HandlersKept

LEMMA IdleInv ==
    ASSUME NEW r \in Requests, req'[r] = Idle
    PROVE  HandlerInv(r)'
  BY Values DEF HandlerInv, ReadsAreTrue, CallersWereAdmins, VerifiedInTime, At

LEMMA DoneKeeps ==
    ASSUME IInv, TimeGoesOn, NEW r \in Requests, Done(r)
    PROVE  HandlersKept
<1>1. req'[r] = Idle => HandlerInv(r)'
  BY IdleInv
<1> QED
  BY <1>1, SlotKeeps, Values DEF Done

LEMMA NoHandlerKeeps ==
    ASSUME IInv, TimeGoesOn, req' = req
    PROVE  HandlersKept
<1>1. \A q \in Requests : HandlerInv(q)'
  BY OthersKept
<1> QED
  BY <1>1 DEF HandlersKept, IInv, TypeOK

-----------------------------------------------------------------------------
\* The steps of a handler, as far as its own locals go

LEMMA BeginKeeps ==
    ASSUME IInv, TimeGoesOn, NEW r \in Requests, NEW email \in Emails,
           req' = [req EXCEPT ![r].step = "create", ![r].email = email]
    PROVE  HandlersKept
<1> DEFINE new == [req[r] EXCEPT !.step = "create", !.email = email]
<1>1. /\ req[r] \in Request /\ CallersWereAdmins(r) /\ req' = [req EXCEPT ![r] = new]
      /\ \A i \in Ids : adminAt[i] \in Int
  BY DEF IInv, TypeOK, HandlerInv
<1>2. new \in Request /\ new.step = "create" /\ new.caller = req[r].caller
  BY <1>1 DEF Request, Steps
<1> HIDE DEF new
<1>3. req'[r] = new => HandlerInv(r)'
  <2>1. req[r].caller # 0 => req[r].caller \in Ids
    BY <1>1, Values DEF Request
  <2> QED
    BY <1>1, <1>2, <2>1 DEF HandlerInv, ReadsAreTrue, CallersWereAdmins, VerifiedInTime, At,
       TimeGoesOn
<1> QED
  BY <1>1, <1>2, <1>3, SlotKeeps

\* The role a login or refresh keeps is the one the row has now.
LEMMA ReadKeeps ==
    ASSUME IInv, TimeGoesOn, clock' = clock, NEW r \in Requests, NEW i \in Ids, Exists(i),
           NEW s \in 0 .. MaxSessions, NEW step \in {"open", "sign"},
           step = "sign" => s \in SessionIds,
           NEW new \in Request, req' = [req EXCEPT ![r] = new],
           new.step = step, new.target = i, new.role = account[i].role, new.readAt = clock,
           new.caller = req[r].caller, step = "sign" => new.session = s
    PROVE  HandlersKept
<1>1. /\ clock \in Nat /\ adminAt[i] \in Int /\ req[r] \in Request /\ CallersWereAdmins(r)
      /\ account[i].role = "ADMIN" => adminAt[i] = clock
      /\ \A j \in Ids : adminAt[j] \in Int
  BY DEF IInv, TypeOK, AdminAtIsKept, IsAdmin, HandlerInv
<1>2. req[r].caller # 0 => req[r].caller \in Ids
  BY <1>1, Values DEF Request
<1>3. req'[r] = new => HandlerInv(r)'
  BY <1>1, <1>2 DEF HandlerInv, ReadsAreTrue, CallersWereAdmins, VerifiedInTime, At,
       TimeGoesOn
<1> QED
  BY <1>3, SlotKeeps

LEMMA LoginKeeps ==
    ASSUME IInv, TimeGoesOn, NEW r \in Requests, NEW i \in Ids, Login(r, i)
    PROVE  HandlersKept
<1> DEFINE new == [req[r] EXCEPT !.step = "open", !.target = i, !.role = account[i].role,
                                 !.readAt = clock]
<1>1. /\ req[r] \in Request /\ Exists(i) /\ account[i].role \in Roles /\ clock \in Nat
      /\ 0 \in 0 .. MaxSessions /\ i \in 0 .. MaxAccounts
  BY RowsAreUsers, Values DEF IInv, TypeOK, Login
<1>2. req' = [req EXCEPT ![r] = new] /\ clock' = clock
  BY DEF Login
<1>3. /\ new \in Request /\ new.step = "open" /\ new.target = i /\ new.readAt = clock
      /\ new.role = account[i].role /\ new.caller = req[r].caller
  BY <1>1 DEF Request, Steps
<1> HIDE DEF new
<1> QED
  BY <1>1, <1>2, <1>3, ReadKeeps

LEMMA RefreshKeeps ==
    ASSUME IInv, TimeGoesOn, NEW r \in Requests, NEW s \in SessionIds, Refresh(r, s)
    PROVE  HandlersKept
<1> DEFINE i == sessions[s]
           new == [req[r] EXCEPT !.step = "sign", !.target = i, !.session = s,
                                 !.role = account[i].role, !.readAt = clock]
<1>1. i \in Ids /\ i \in 0 .. MaxAccounts /\ s \in 0 .. MaxSessions /\ Exists(i)
  BY Values DEF IInv, TypeOK, Refresh, SessionsHaveUsers
<1>2. /\ req[r] \in Request /\ account[i].role \in Roles /\ clock \in Nat
      /\ req' = [req EXCEPT ![r] = new] /\ clock' = clock
  BY <1>1, RowsAreUsers DEF IInv, TypeOK, Refresh, RoleRead
<1> HIDE DEF i
<1>3. /\ new \in Request /\ new.step = "sign" /\ new.target = i /\ new.readAt = clock
      /\ new.role = account[i].role /\ new.caller = req[r].caller /\ new.session = s
  BY <1>1, <1>2 DEF Request, Steps
<1> HIDE DEF new
<1> QED
  BY <1>1, <1>2, <1>3, ReadKeeps

LEMMA BeginCallKeeps ==
    ASSUME IInv, TimeGoesOn, NEW r \in Requests, NEW t \in tokens, BeginCall(r, t)
    PROVE  HandlersKept
<1> DEFINE new == [req[r] EXCEPT !.step = "guard", !.target = t.sub, !.session = t.sessionId,
                                 !.role = t.role, !.readAt = clock]
<1>1. /\ t \in Token /\ t.sub \in Ids /\ t.sub \in 0 .. MaxAccounts /\ t.iat \in Nat
      /\ t.sessionId \in 0 .. MaxSessions /\ t.role \in Roles
      /\ clock \in Nat /\ delay \in Nat /\ clock < t.iat + AccessTtl
      /\ req[r] \in Request /\ \A i \in Ids : adminAt[i] \in Int
  BY Values DEF IInv, TypeOK, Token, BeginCall, Verifies
<1>2. req' = [req EXCEPT ![r] = new]
  BY DEF BeginCall
<1>3. /\ new \in Request /\ new.step = "guard" /\ new.target = t.sub /\ new.role = t.role
      /\ new.readAt = clock /\ new.caller = req[r].caller
  BY <1>1 DEF Request, Steps
<1> HIDE DEF new
<1>4. t.role = "ADMIN" => adminAt[t.sub] >= 0 /\ clock < adminAt[t.sub] + AccessTtl + delay
  <2>1. t.role = "ADMIN" => adminAt[t.sub] >= 0 /\ adminAt[t.sub] + delay >= t.iat
    BY DEF IInv, TokensAreTrue
  <2> QED
    BY <1>1, <2>1, Values
<1>5. /\ adminAt'[t.sub] \in Int /\ adminAt'[t.sub] >= adminAt[t.sub]
      /\ delay' \in Nat /\ delay' >= delay
  BY <1>1 DEF TimeGoesOn
<1>6. req'[r] = new => VerifiedInTime(r)'
  BY <1>1, <1>3, <1>4, <1>5, Values DEF VerifiedInTime, At
<1>7. req'[r] = new => CallersWereAdmins(r)'
  <2>1. req[r].caller # 0 => req[r].caller \in Ids /\ adminAt[req[r].caller] >= 0
    BY <1>1, Values DEF Request, IInv, HandlerInv, CallersWereAdmins
  <2> QED
    BY <1>1, <1>3, <2>1 DEF CallersWereAdmins, At, TimeGoesOn
<1>8. req'[r] = new => HandlerInv(r)'
  BY <1>3, <1>6, <1>7 DEF HandlerInv, ReadsAreTrue, At
<1> QED
  BY <1>2, <1>3, <1>8, SlotKeeps

LEMMA AdmitKeeps ==
    ASSUME IInv, TimeGoesOn, NEW r \in Requests, Admit(r)
    PROVE  HandlersKept
<1> DEFINE new == [Idle EXCEPT !.step = "admitted", !.caller = req[r].target]
<1>1. /\ req[r].target \in Ids /\ req[r].target \in 0 .. MaxAccounts /\ req[r].target # 0
      /\ adminAt[req[r].target] >= 0 /\ adminAt[req[r].target] \in Int
  BY Values DEF IInv, TypeOK, Admit, HandlerInv, VerifiedInTime
<1>2. req' = [req EXCEPT ![r] = new]
  BY DEF Admit
<1>3. new \in Request /\ new.step = "admitted" /\ new.caller = req[r].target
  BY <1>1, Values DEF Request, Steps, Idle
<1> HIDE DEF new
<1>4. req'[r] = new => HandlerInv(r)'
  BY <1>1, <1>3 DEF HandlerInv, ReadsAreTrue, CallersWereAdmins, VerifiedInTime, At,
       TimeGoesOn
<1> QED
  BY <1>2, <1>3, <1>4, SlotKeeps

\* FindUser and FindToDelete
LEMMA FindKeeps ==
    ASSUME IInv, TimeGoesOn, NEW r \in Requests, NEW i \in Ids,
           FindUser(r, i) \/ FindToDelete(r, i)
    PROVE  HandlersKept
<1>1. /\ req[r] \in Request /\ CallersWereAdmins(r) /\ At(r, "admitted")
      /\ \A j \in Ids : adminAt[j] \in Int
      /\ i \in 0 .. MaxAccounts
  BY Values DEF IInv, TypeOK, HandlerInv, FindUser, FindToDelete
<1>2. PICK step \in {"edit", "delete"} :
         /\ req' = [req EXCEPT ![r].step = step, ![r].target = i]
         /\ step = "delete" => i # req[r].caller
  BY DEF FindUser, FindToDelete, MayDelete
<1> DEFINE new == [req[r] EXCEPT !.step = step, !.target = i]
<1>3. /\ new \in Request /\ new.step = step /\ new.target = i
      /\ new.caller = req[r].caller
  BY <1>1 DEF Request, Steps
<1>4. req' = [req EXCEPT ![r] = new]
  BY <1>2
<1> HIDE DEF new
<1>5. req[r].caller \in Ids
  BY <1>1, Values DEF CallersWereAdmins, At, Request
<1>6. req'[r] = new => HandlerInv(r)'
  BY <1>1, <1>2, <1>3, <1>5 DEF HandlerInv, ReadsAreTrue, CallersWereAdmins, VerifiedInTime,
                                At, TimeGoesOn
<1> QED
  BY <1>3, <1>4, <1>6, SlotKeeps

-----------------------------------------------------------------------------
\* Tokens

LEMMA NoTokenKeeps ==
    ASSUME IInv, TimeGoesOn, UNCHANGED <<tokens, delay>>
    PROVE  tokens' \subseteq Token /\ delay' \in Nat /\ TokensAreTrue'
<1>1. /\ tokens \subseteq Token /\ delay \in Nat
      /\ \A i \in Ids : adminAt[i] \in Int /\ adminAt'[i] \in Int /\ adminAt'[i] >= adminAt[i]
  BY DEF IInv, TypeOK, TimeGoesOn
<1>2. \A t \in tokens : t.sub \in Ids /\ t.iat \in Nat
  BY <1>1 DEF Token
<1> QED
  BY <1>1, <1>2 DEF IInv, TokensAreTrue

\* What is signed is as old as its reading, and no older than the delay says.
LEMMA SignKeeps ==
    ASSUME IInv, TimeGoesOn, NEW r \in Requests, NEW s \in SessionIds,
           req[r].step \in {"open", "sign"}, SignAccessToken(r, s)
    PROVE  tokens' \subseteq Token /\ delay' \in Nat /\ TokensAreTrue'
<1> DEFINE new == [sub |-> req[r].target, sessionId |-> s, role |-> req[r].role, iat |-> clock]
<1>1. /\ req[r].target \in Ids /\ req[r].role \in Roles /\ req[r].readAt \in Nat
      /\ req[r].readAt <= clock /\ clock \in Nat
      /\ req[r].role = "ADMIN" => adminAt[req[r].target] >= req[r].readAt
  BY DEF IInv, TypeOK, Request, HandlerInv, ReadsAreTrue
<1>2. /\ delay \in Nat /\ delay' \in Nat /\ delay' >= delay
      /\ delay' >= clock - req[r].readAt
  BY <1>1 DEF IInv, TypeOK, SignAccessToken, Later
<1>3. /\ new \in Token /\ new.sub = req[r].target /\ new.role = req[r].role
      /\ new.iat = clock
  BY <1>1 DEF Token
<1>4. tokens' = tokens \cup {new} /\ tokens \subseteq Token
  BY DEF IInv, TypeOK, SignAccessToken
<1> HIDE DEF new
<1>5. \A i \in Ids : adminAt[i] \in Int /\ adminAt'[i] \in Int /\ adminAt'[i] >= adminAt[i]
  BY DEF IInv, TypeOK, TimeGoesOn
<1>6. ASSUME NEW t \in tokens, t.role = "ADMIN"
      PROVE  adminAt'[t.sub] >= 0 /\ adminAt'[t.sub] + delay' >= t.iat
  <2>1. /\ t.sub \in Ids /\ t.iat \in Nat
        /\ adminAt[t.sub] >= 0 /\ adminAt[t.sub] + delay >= t.iat
    BY <1>4, <1>6 DEF Token, IInv, TokensAreTrue
  <2> QED
    BY <1>2, <1>5, <2>1
<1>7. new.role = "ADMIN" => adminAt'[new.sub] >= 0 /\ adminAt'[new.sub] + delay' >= new.iat
  BY <1>1, <1>2, <1>3, <1>5
<1> QED
  BY <1>2, <1>3, <1>4, <1>6, <1>7 DEF TokensAreTrue

-----------------------------------------------------------------------------
\* The rows of users, after a step
AccountsKept ==
    /\ account' \in [Ids -> User \cup {Null}] /\ created' \in 0 .. MaxAccounts
    /\ RowsAreCreated' /\ OneAccountPerAddress'

LEMMA NoAccountChanges ==
    ASSUME IInv, UNCHANGED <<account, created>>
    PROVE  AccountsKept /\ \A i \in Ids : Exists(i) => Exists(i)'
  BY DEF IInv, TypeOK, AccountsKept, RowsAreCreated, OneAccountPerAddress, Exists, Has

\* One row is written with an address no other has.
LEMMA WriteKeeps ==
    ASSUME IInv, NEW k \in Ids, NEW row \in User,
           AddressFree(k, row.email),
           account' = [account EXCEPT ![k] = row],
           created' \in 0 .. MaxAccounts, created' >= created, k <= created'
    PROVE  AccountsKept /\ \A i \in Ids : Exists(i) => Exists(i)'
<1>1. /\ account \in [Ids -> User \cup {Null}] /\ row # Null
      /\ created \in Nat /\ created' \in Nat /\ Ids \subseteq Nat
  BY Values DEF IInv, TypeOK
<1>2. /\ account' \in [Ids -> User \cup {Null}]
      /\ \A i \in Ids : account'[i] = IF i = k THEN row ELSE account[i]
  BY <1>1
<1>3. RowsAreCreated'
  BY <1>1, <1>2 DEF IInv, RowsAreCreated
<1>4. OneAccountPerAddress'
  BY <1>1, <1>2 DEF IInv, OneAccountPerAddress, Exists, Has, AddressFree
<1> QED
  BY <1>1, <1>2, <1>3, <1>4 DEF AccountsKept, Exists

LEMMA CreateKeeps ==
    ASSUME IInv, NEW r \in Requests, NEW role \in Roles, Create(r, role)
    PROVE  AccountsKept /\ \A i \in Ids : Exists(i) => Exists(i)'
<1> DEFINE row == [email |-> req[r].email, role |-> role, status |-> "ACTIVE"]
<1>1. /\ row \in User /\ row.email = req[r].email
  BY DEF IInv, TypeOK, Request, User, Statuses
<1>2. /\ created + 1 \in Ids /\ created' = created + 1 /\ created' \in 0 .. MaxAccounts
      /\ created' >= created /\ created + 1 <= created'
  BY Values DEF IInv, TypeOK, Create
<1>3. /\ account' = [account EXCEPT ![created + 1] = row]
      /\ AddressFree(created + 1, row.email)
  BY <1>1 DEF Create
<1> HIDE DEF row
<1> QED
  BY <1>1, <1>2, <1>3, WriteKeeps

LEMMA UpdateUserKeeps ==
    ASSUME IInv, NEW r \in Requests, NEW body \in Edits, UpdateUser(r, body)
    PROVE  AccountsKept /\ \A i \in Ids : Exists(i) => Exists(i)'
<1> DEFINE i == req[r].target
           row == Edited(account[i], body)
<1>1. i \in Ids /\ account[i] \in User /\ body \in Body
  <2>1. i \in Ids
    BY DEF IInv, HandlerInv, CallersWereAdmins, UpdateUser, At
  <2> QED
    BY <2>1, RowsAreUsers, Values DEF IInv, UpdateUser
<1>2. /\ row \in User
      /\ row.email = IF body.email = Null THEN account[i].email ELSE body.email
  BY <1>1, Values DEF User, Body, Edited
<1>3. AddressFree(i, row.email)
  <2>1. CASE body.email = Null
    <3>1. row.email = account[i].email /\ Exists(i)
      BY <1>2, <2>1 DEF UpdateUser
    <3> QED
      BY <1>1, <3>1 DEF AddressFree, IInv, OneAccountPerAddress
  <2>2. CASE body.email # Null
    BY <1>2, <2>2 DEF UpdateUser
  <2> QED
    BY <2>1, <2>2
<1>4. /\ account' = [account EXCEPT ![i] = row] /\ created' = created
      /\ created \in 0 .. MaxAccounts /\ created \in Nat /\ i \in Nat
  BY <1>1, Values DEF UpdateUser, IInv, TypeOK
<1>5. i <= created
  BY <1>1, <1>4, Values DEF IInv, RowsAreCreated
<1>6. /\ created' \in 0 .. MaxAccounts /\ created' >= created /\ i <= created'
      /\ account' = [account EXCEPT ![i] = row]
  BY <1>4, <1>5
<1> HIDE DEF i, row
<1> QED
  BY <1>1, <1>2, <1>3, <1>6, WriteKeeps

LEMMA SuspendUserKeeps ==
    ASSUME IInv, NEW r \in Requests, SuspendUser(r)
    PROVE  AccountsKept /\ \A i \in Ids : Exists(i) => Exists(i)'
<1> DEFINE i == req[r].target
           row == [account[i] EXCEPT !.status = "DISABLED"]
<1>1. i \in Ids /\ account[i] \in User
  <2>1. i \in Ids
    BY DEF IInv, HandlerInv, CallersWereAdmins, SuspendUser, At
  <2> QED
    BY <2>1, RowsAreUsers DEF IInv, SuspendUser
<1>2. row \in User /\ row.email = account[i].email
  BY <1>1 DEF User, Statuses
<1>3. AddressFree(i, row.email)
  BY <1>1, <1>2 DEF AddressFree, IInv, OneAccountPerAddress, SuspendUser
<1>4. /\ account' = [account EXCEPT ![i] = row] /\ created' = created
      /\ created \in 0 .. MaxAccounts /\ created \in Nat /\ i \in Nat
  BY <1>1, Values DEF SuspendUser, IInv, TypeOK
<1>5. i <= created
  BY <1>1, <1>4, Values DEF IInv, RowsAreCreated
<1>6. /\ created' \in 0 .. MaxAccounts /\ created' >= created /\ i <= created'
      /\ account' = [account EXCEPT ![i] = row]
  BY <1>4, <1>5
<1> HIDE DEF i, row
<1> QED
  BY <1>1, <1>2, <1>3, <1>6, WriteKeeps

LEMMA DeleteUserKeeps ==
    ASSUME IInv, NEW r \in Requests, DeleteUser(r)
    PROVE  /\ AccountsKept
           /\ \A i \in Ids \ {req[r].target} : Exists(i) => Exists(i)'
<1>1. /\ account' = [account EXCEPT ![req[r].target] = Null] /\ created' = created
      /\ account \in [Ids -> User \cup {Null}] /\ created \in 0 .. MaxAccounts
  BY DEF DeleteUser, IInv, TypeOK
<1>2. /\ account' \in [Ids -> User \cup {Null}]
      /\ \A i \in Ids : account'[i] = IF i = req[r].target THEN Null ELSE account[i]
  BY <1>1
<1>3. RowsAreCreated' /\ OneAccountPerAddress'
  BY <1>1, <1>2 DEF IInv, RowsAreCreated, OneAccountPerAddress, Exists, Has
<1> QED
  BY <1>1, <1>2, <1>3 DEF AccountsKept, Exists

\* The upsert writes the row with the address, or a new one if there is none.
LEMMA UpsertAdminKeeps ==
    ASSUME IInv, NEW email \in Emails, UpsertAdmin(email)
    PROVE  AccountsKept /\ \A i \in Ids : Exists(i) => Exists(i)'
<1>1. ASSUME NEW i \in Ids, Has(i, email), created' = created,
             account' = [account EXCEPT ![i].role = "ADMIN", ![i].status = "ACTIVE"]
      PROVE  AccountsKept /\ \A j \in Ids : Exists(j) => Exists(j)'
  <2> DEFINE row == [account[i] EXCEPT !.role = "ADMIN", !.status = "ACTIVE"]
  <2>1. account[i] \in User /\ Exists(i) /\ account[i].email = email
    BY <1>1, RowsAreUsers DEF IInv, Has
  <2>2. row \in User /\ row.email = account[i].email
    BY <2>1 DEF User, Statuses, Roles
  <2>3. AddressFree(i, row.email)
    BY <2>1, <2>2 DEF AddressFree, IInv, OneAccountPerAddress
  <2>4. account' = [account EXCEPT ![i] = row]
    BY <1>1
  <2>5. created \in 0 .. MaxAccounts /\ created \in Nat /\ i \in Nat
    BY Values DEF IInv, TypeOK
  <2>6. i <= created
    BY <2>1, <2>5 DEF IInv, RowsAreCreated, Exists
  <2>7. created' \in 0 .. MaxAccounts /\ created' >= created /\ i <= created'
    BY <1>1, <2>5, <2>6
  <2> HIDE DEF row
  <2> QED
    BY <2>2, <2>3, <2>4, <2>7, WriteKeeps
<1>2. ASSUME ~Taken(email), created < MaxAccounts, created' = created + 1,
             account' = [account EXCEPT ![created + 1] =
                           [email |-> email, role |-> "ADMIN", status |-> "ACTIVE"]]
      PROVE  AccountsKept /\ \A j \in Ids : Exists(j) => Exists(j)'
  <2> DEFINE row == [email |-> email, role |-> "ADMIN", status |-> "ACTIVE"]
  <2>1. row \in User /\ row.email = email
    BY Values DEF User, Roles, Statuses
  <2>2. /\ created + 1 \in Ids /\ created' \in 0 .. MaxAccounts
        /\ created' >= created /\ created + 1 <= created'
    BY <1>2, Values DEF IInv, TypeOK
  <2>3. AddressFree(created + 1, row.email)
    BY <1>2, <2>1 DEF AddressFree, Taken
  <2>4. account' = [account EXCEPT ![created + 1] = row]
    BY <1>2
  <2> HIDE DEF row
  <2> QED
    BY <2>1, <2>2, <2>3, <2>4, WriteKeeps
<1> QED
  BY <1>1, <1>2 DEF UpsertAdmin

-----------------------------------------------------------------------------
\* Sessions keep their types, and their users.
SessionsKept ==
    /\ sessions' \in [SessionIds -> 0 .. MaxAccounts] /\ opened' \in 0 .. MaxSessions
    /\ SessionsHaveUsers'

LEMMA NoSessionChanges ==
    ASSUME IInv, UNCHANGED <<sessions, opened>>, \A i \in Ids : Exists(i) => Exists(i)'
    PROVE  SessionsKept
<1>1. \A s \in SessionIds : sessions[s] # 0 => sessions[s] \in Ids
  BY Values DEF IInv, TypeOK
<1> QED
  BY <1>1 DEF IInv, TypeOK, SessionsKept, SessionsHaveUsers

LEMMA OpenKeeps ==
    ASSUME IInv, NEW r \in Requests, OpenSession(r), \A i \in Ids : Exists(i) => Exists(i)'
    PROVE  SessionsKept /\ opened + 1 \in SessionIds
<1>1. /\ req[r].target \in Ids /\ req[r].target \in 0 .. MaxAccounts /\ Exists(req[r].target)
      /\ opened + 1 \in SessionIds /\ opened' \in 0 .. MaxSessions
      /\ sessions' = [sessions EXCEPT ![opened + 1] = req[r].target]
      /\ sessions \in [SessionIds -> 0 .. MaxAccounts]
  BY Values DEF IInv, TypeOK, HandlerInv, ReadsAreTrue, OpenSession, At
<1>2. \A s \in SessionIds : sessions[s] # 0 => sessions[s] \in Ids
  BY <1>1, Values
<1> QED
  BY <1>1, <1>2 DEF IInv, SessionsKept, SessionsHaveUsers

\* suspendUser and deleteUser
LEMMA EndingKeeps ==
    ASSUME IInv, NEW i, sessions' = WithoutSessionsOf(i), opened' = opened,
           \A j \in Ids \ {i} : Exists(j) => Exists(j)'
    PROVE  SessionsKept
<1>1. /\ sessions \in [SessionIds -> 0 .. MaxAccounts] /\ 0 \in 0 .. MaxAccounts
      /\ \A s \in SessionIds : sessions[s] # 0 => sessions[s] \in Ids
  BY Values DEF IInv, TypeOK
<1> QED
  BY <1>1 DEF IInv, TypeOK, SessionsKept, SessionsHaveUsers, WithoutSessionsOf

-----------------------------------------------------------------------------
LEMMA InitHolds == Init => IInv
<1> SUFFICES ASSUME Init PROVE IInv
  OBVIOUS
<1>1. TypeOK
  BY Values DEF Init, TypeOK
<1>2. \A r \in Requests : HandlerInv(r)
  BY Values DEF Init, HandlerInv, ReadsAreTrue, CallersWereAdmins, VerifiedInTime, At
<1> QED
  BY <1>1, <1>2 DEF Init, IInv, RowsAreCreated, SessionsHaveUsers, AdminAtIsKept, IsAdmin,
                    Exists, TokensAreTrue, OneAccountPerAddress

\* What a step keeps, whatever it is
StepKeeps ==
    /\ AccountsKept /\ SessionsKept /\ HandlersKept
    /\ tokens' \subseteq Token /\ delay' \in Nat /\ TokensAreTrue'

\* A step that changes locals only
LEMMA LocalKeeps ==
    ASSUME IInv, TimeGoesOn, UNCHANGED <<account, created, sessions, opened, tokens, delay>>,
           HandlersKept
    PROVE  StepKeeps
  BY NoAccountChanges, NoSessionChanges, NoTokenKeeps DEF StepKeeps

\* A step that changes rows, but no token
LEMMA RowStepKeeps ==
    ASSUME IInv, TimeGoesOn, UNCHANGED <<sessions, opened, tokens, delay>>,
           AccountsKept, \A i \in Ids : Exists(i) => Exists(i)', HandlersKept
    PROVE  StepKeeps
  BY NoSessionChanges, NoTokenKeeps DEF StepKeeps

LEMMA HandlerStep ==
    ASSUME IInv, TimeGoesOn, NEW r \in Requests, Handlers(r)
    PROVE  StepKeeps
<1>1. ASSUME NEW email \in Emails, Register(r, email) \/ CreateUser(r, email)
      PROVE  StepKeeps
  BY <1>1, BeginKeeps, LocalKeeps DEF Register, CreateUser
<1>2. ASSUME NEW role \in Roles, Create(r, role)
      PROVE  StepKeeps
  BY <1>2, CreateKeeps, DoneKeeps, RowStepKeeps DEF Create
<1>3. ASSUME NEW i \in Ids, Login(r, i)
      PROVE  StepKeeps
  BY <1>3, LoginKeeps, LocalKeeps DEF Login
<1>4. ASSUME NEW s \in SessionIds, Refresh(r, s)
      PROVE  StepKeeps
  <2>1. UNCHANGED <<account, created, sessions, opened, tokens, delay>>
    BY <1>4 DEF Refresh
  <2> QED
    BY <1>4, <2>1, RefreshKeeps, LocalKeeps
<1>5. CASE OpenSession(r)
  <2>1. /\ UNCHANGED <<account, created>> /\ SignAccessToken(r, opened + 1)
        /\ req[r].step \in {"open", "sign"}
    BY <1>5 DEF OpenSession, At
  <2>2. AccountsKept /\ SessionsKept /\ opened + 1 \in SessionIds
    BY <1>5, <2>1, NoAccountChanges, OpenKeeps
  <2>3. HandlersKept
    BY <2>1, DoneKeeps DEF SignAccessToken
  <2>4. tokens' \subseteq Token /\ delay' \in Nat /\ TokensAreTrue'
    BY <2>1, <2>2, SignKeeps
  <2> QED
    BY <2>2, <2>3, <2>4 DEF StepKeeps
<1>6. CASE UpdateSession(r)
  <2>1. /\ UNCHANGED <<account, created, sessions, opened>>
        /\ SignAccessToken(r, req[r].session)
        /\ req[r].step \in {"open", "sign"} /\ req[r].session \in SessionIds
    BY <1>6 DEF UpdateSession, At, IInv, HandlerInv, ReadsAreTrue
  <2>2. AccountsKept /\ SessionsKept
    BY <2>1, NoAccountChanges, NoSessionChanges
  <2>3. HandlersKept
    BY <2>1, DoneKeeps DEF SignAccessToken
  <2>4. tokens' \subseteq Token /\ delay' \in Nat /\ TokensAreTrue'
    BY <2>1, SignKeeps
  <2> QED
    BY <2>2, <2>3, <2>4 DEF StepKeeps
<1>7. ASSUME NEW t \in tokens, BeginCall(r, t)
      PROVE  StepKeeps
  BY <1>7, BeginCallKeeps, LocalKeeps DEF BeginCall
<1>8. ASSUME NEW i \in Ids, FindUser(r, i) \/ FindToDelete(r, i)
      PROVE  StepKeeps
  BY <1>8, FindKeeps, LocalKeeps DEF FindUser, FindToDelete
<1>9. ASSUME NEW body \in Edits, UpdateUser(r, body)
      PROVE  StepKeeps
  <2>1. Done(r) /\ UNCHANGED <<sessions, opened, tokens, delay>>
    BY <1>9 DEF UpdateUser
  <2> QED
    BY <1>9, <2>1, UpdateUserKeeps, DoneKeeps, RowStepKeeps
<1>10. CASE SuspendUser(r)
  <2>1. /\ Done(r) /\ UNCHANGED <<opened, tokens, delay>>
        /\ sessions' = WithoutSessionsOf(req[r].target)
    BY <1>10 DEF SuspendUser
  <2> QED
    BY <1>10, <2>1, SuspendUserKeeps, EndingKeeps, DoneKeeps, NoTokenKeeps DEF StepKeeps
<1>11. CASE DeleteUser(r)
  <2>1. /\ Done(r) /\ UNCHANGED <<opened, tokens, delay>>
        /\ sessions' = WithoutSessionsOf(req[r].target)
    BY <1>11 DEF DeleteUser
  <2> QED
    BY <1>11, <2>1, DeleteUserKeeps, EndingKeeps, DoneKeeps, NoTokenKeeps DEF StepKeeps
<1>12. CASE Abort(r)
  BY <1>12, DoneKeeps, LocalKeeps DEF Abort
<1>13. CASE Admit(r)
  BY <1>13, AdmitKeeps, LocalKeeps DEF Admit
<1> QED
  BY <1>1, <1>2, <1>3, <1>4, <1>5, <1>6, <1>7, <1>8, <1>9, <1>10, <1>11, <1>12, <1>13
     DEF Handlers, Administer

LEMMA RestartKeeps ==
    ASSUME IInv, TimeGoesOn, Restart
    PROVE  StepKeeps
<1>1. HandlersKept
  <2>1. req' \in [Requests -> Request] /\ \A r \in Requests : req'[r] = Idle
    BY Values DEF Restart
  <2> QED
    BY <2>1, IdleInv DEF HandlersKept
<1>2. CASE UpsertAdmin(DefaultAdmin)
  BY <1>1, <1>2, UpsertAdminKeeps, RowStepKeeps, Values DEF Restart
<1>3. CASE UNCHANGED <<account, created>>
  BY <1>1, <1>3, LocalKeeps DEF Restart
<1> QED
  BY <1>2, <1>3 DEF Restart

LEMMA HandlersKeepTime ==
    ASSUME NEW r \in Requests, Handlers(r)
    PROVE  UNCHANGED clock
  BY ZenonT(30) DEF Handlers, Administer, Register, CreateUser, Create, Login, Refresh, OpenSession,
         UpdateSession, BeginCall, Admit, FindUser, FindToDelete, UpdateUser, SuspendUser,
         DeleteUser, Abort

\* The longest delay only grows.
LEMMA HandlersKeepDelay ==
    ASSUME IInv, NEW r \in Requests, Handlers(r)
    PROVE  delay' \in Nat /\ delay' >= delay
<1>1. clock \in Nat /\ delay \in Nat
  BY DEF IInv, TypeOK
<1>2. CASE UNCHANGED delay
  BY <1>1, <1>2
<1>3. ASSUME OpenSession(r) \/ UpdateSession(r)
      PROVE  delay' \in Nat /\ delay' >= delay
  <2>1. req[r].readAt \in Nat /\ req[r].readAt <= clock
    BY <1>3 DEF IInv, TypeOK, Request, HandlerInv, ReadsAreTrue, OpenSession, UpdateSession, At
  <2>2. delay' = Later(delay, clock - req[r].readAt)
    BY <1>3 DEF OpenSession, UpdateSession, SignAccessToken
  <2> QED
    BY <1>1, <2>1, <2>2 DEF Later
<1>4. UNCHANGED delay \/ OpenSession(r) \/ UpdateSession(r)
  BY ZenonT(30) DEF Handlers, Administer, Register, CreateUser, Create, Login, Refresh,
         BeginCall, Admit, FindUser, FindToDelete, UpdateUser, SuspendUser,
         DeleteUser, Abort
<1> QED
  BY <1>2, <1>3, <1>4

LEMMA StepHolds == IInv /\ [Next]_vars => IInv'
<1> SUFFICES ASSUME IInv, [Next]_vars PROVE IInv'
  OBVIOUS
<1>1. CASE UNCHANGED vars
  BY <1>1 DEF IInv, vars, TypeOK, RowsAreCreated, SessionsHaveUsers, AdminAtIsKept, IsAdmin,
              Exists, TokensAreTrue, HandlerInv, ReadsAreTrue, CallersWereAdmins,
              VerifiedInTime, At,
              OneAccountPerAddress, Has
<1>2. CASE Next
  <2>1. clock' \in Nat /\ clock' >= clock
    <3>1. clock \in Nat
      BY DEF IInv, TypeOK
    <3>2. CASE UNCHANGED clock
      BY <3>1, <3>2
    <3>3. CASE Tick
      BY <3>1, <3>3 DEF Tick
    <3> QED
      BY <1>2, <3>2, <3>3, HandlersKeepTime DEF Next, CreateAdmin, Restart
  <2>2. delay' \in Nat /\ delay' >= delay
    <3>1. delay \in Nat
      BY DEF IInv, TypeOK
    <3>2. CASE UNCHANGED delay
      BY <3>1, <3>2
    <3> QED
      BY <1>2, <3>2, HandlersKeepDelay DEF Next, CreateAdmin, Restart, Tick
  <2>3. TimeGoesOn
    BY <1>2, <2>1, <2>2, HistoryKept DEF IInv, Next
  <2>4. ASSUME NEW r \in Requests, Handlers(r)
        PROVE  StepKeeps
    BY <2>3, <2>4, HandlerStep
  <2>5. ASSUME NEW email \in Emails, CreateAdmin(email) PROVE StepKeeps
    BY <2>3, <2>5, UpsertAdminKeeps, NoHandlerKeeps, RowStepKeeps DEF CreateAdmin
  <2>6. ASSUME Restart PROVE StepKeeps
    BY <2>3, <2>6, RestartKeeps
  <2>7. ASSUME Tick PROVE StepKeeps
    BY <2>3, <2>7, NoHandlerKeeps, LocalKeeps DEF Tick
  <2>8. StepKeeps
    BY <1>2, <2>4, <2>5, <2>6, <2>7 DEF Next
  <2>9. TypeOK'
    BY <2>1, <2>3, <2>8 DEF TypeOK, StepKeeps, AccountsKept, SessionsKept, HandlersKept,
                            TimeGoesOn
  <2> QED
    BY <2>3, <2>8, <2>9 DEF IInv, StepKeeps, AccountsKept, SessionsKept, HandlersKept,
                            TimeGoesOn
<1> QED
  BY <1>1, <1>2

LEMMA Inductive == Spec => []IInv
  BY InitHolds, StepHolds, PTL DEF Spec

-----------------------------------------------------------------------------
\* Rows, sessions, tokens and handlers keep their types (the whole of Accounts).
THEOREM TypeCorrect == Spec => []TypeOK
  BY Inductive, PTL DEF IInv

\* No two accounts have one address, however registrations, createUser, changes of address and
\* the upserts of administrators overlap.
THEOREM OneAddressHolds == Spec => []OneAccountPerAddress
  BY Inductive, PTL DEF IInv

\* What becomes of a slot in a step of another handler, and of none
LEMMA SlotsOfOthers ==
    ASSUME TypeOK, NEW q \in Requests, Handlers(q)
    PROVE  \A r \in Requests \ {q} : req'[r] = req[r]
<1>1. CASE Done(q)
  BY <1>1 DEF TypeOK, Done
<1>2. CASE \E new : req' = [req EXCEPT ![q] = new]
  BY <1>2 DEF TypeOK
<1>3. Done(q) \/ \E new : req' = [req EXCEPT ![q] = new]
  <2>1. ASSUME NEW email \in Emails, Register(q, email) \/ CreateUser(q, email)
        PROVE  req' = [req EXCEPT ![q] = [req[q] EXCEPT !.step = "create", !.email = email]]
    BY <2>1 DEF Register, CreateUser
  <2>2. ASSUME NEW i \in Ids, Login(q, i)
        PROVE  req' = [req EXCEPT ![q] = [req[q] EXCEPT !.step = "open", !.target = i,
                                             !.role = account[i].role, !.readAt = clock]]
    BY <2>2 DEF Login
  <2>3. ASSUME NEW s \in SessionIds, Refresh(q, s)
        PROVE  \E new : req' = [req EXCEPT ![q] = new]
    <3>1. req' = [req EXCEPT ![q] = [req[q] EXCEPT !.step = "sign", !.target = sessions[s],
                    !.session = s, !.role = RoleRead(sessions[s], s), !.readAt = clock]]
      BY <2>3 DEF Refresh
    <3> QED
      BY <3>1
  <2>4. ASSUME NEW t \in tokens, BeginCall(q, t)
        PROVE  \E new : req' = [req EXCEPT ![q] = new]
    <3>1. req' = [req EXCEPT ![q] = [req[q] EXCEPT !.step = "guard", !.target = t.sub,
                    !.session = t.sessionId, !.role = t.role, !.readAt = clock]]
      BY <2>4 DEF BeginCall
    <3> QED
      BY <3>1
  <2>10. ASSUME Admit(q)
         PROVE  \E new : req' = [req EXCEPT ![q] = new]
    BY <2>10 DEF Admit
  <2>5. ASSUME NEW i \in Ids, FindUser(q, i)
        PROVE  req' = [req EXCEPT ![q] = [req[q] EXCEPT !.step = "edit", !.target = i]]
    BY <2>5 DEF FindUser
  <2>6. ASSUME NEW i \in Ids, FindToDelete(q, i)
        PROVE  req' = [req EXCEPT ![q] = [req[q] EXCEPT !.step = "delete", !.target = i]]
    BY <2>6 DEF FindToDelete
  <2>7. ASSUME NEW role \in Roles, Create(q, role)
        PROVE  Done(q)
    BY <2>7 DEF Create
  <2>8. ASSUME NEW body \in Edits, UpdateUser(q, body)
        PROVE  Done(q)
    BY <2>8 DEF UpdateUser
  <2>9. ASSUME OpenSession(q) \/ UpdateSession(q) \/ SuspendUser(q) \/ DeleteUser(q) \/ Abort(q)
        PROVE  Done(q)
    BY <2>9 DEF OpenSession, UpdateSession, SuspendUser, DeleteUser, Abort, SignAccessToken
  <2> QED
    BY <2>1, <2>2, <2>3, <2>4, <2>5, <2>6, <2>7, <2>8, <2>9, <2>10
       DEF Handlers, Administer
<1> QED
  BY <1>1, <1>2, <1>3

\* An administrative call is only admitted for an account that was ADMIN less than a token's
\* lifetime and the longest delay of a signature before the call arrived (AdminGuard, which
\* looks at the token).
THEOREM RightsLapse == Spec => AdminRightsLapse
<1> DEFINE Step == \A r \in Requests :
                      (At(r, "guard") /\ req'[r].step = "admitted")
                          => req[r].readAt < adminAt[req'[r].caller] + AccessTtl + delay
<1>1. IInv /\ [Next]_vars => [Step]_vars
  <2> SUFFICES ASSUME IInv, Next, NEW r \in Requests, At(r, "guard"), req'[r].step = "admitted"
               PROVE  req[r].readAt < adminAt[req'[r].caller] + AccessTtl + delay
    OBVIOUS
  <2>1. TypeOK /\ req'[r] # req[r] /\ req'[r] # Idle
    BY Values DEF IInv, At
  <2>2. ASSUME Admit(r)
        PROVE  req[r].readAt < adminAt[req'[r].caller] + AccessTtl + delay
    <3>1. req'[r].caller = req[r].target
      BY <2>1, <2>2 DEF Admit, TypeOK, Idle
    <3> QED
      BY <2>2, <3>1 DEF IInv, HandlerInv, VerifiedInTime, Admit
  <2>3. ~Restart /\ (\A email \in Emails : ~CreateAdmin(email)) /\ ~Tick
    BY <2>1 DEF Restart, CreateAdmin, Tick
  <2>4. Handlers(r)
    BY <2>1, <2>3, SlotsOfOthers DEF Next
  <2>5. /\ ~Done(r)
        /\ \A new \in {"create", "open", "sign", "guard", "edit", "delete"} : req'[r].step # new
    BY <2>1 DEF Done, TypeOK
  <2>6. Admit(r)
    <3>1. \A email \in Emails : ~Register(r, email) /\ ~CreateUser(r, email)
      BY <2>1, <2>5 DEF Register, CreateUser, TypeOK, Request
    <3>2. \A i \in Ids : ~Login(r, i) /\ ~FindUser(r, i) /\ ~FindToDelete(r, i)
      BY <2>1, <2>5 DEF Login, FindUser, FindToDelete, TypeOK, Request
    <3>3. \A s \in SessionIds : ~Refresh(r, s)
      BY <2>1, <2>5 DEF Refresh, TypeOK, Request
    <3>4. \A t \in tokens : ~BeginCall(r, t)
      BY <2>1, <2>5 DEF BeginCall, TypeOK, Request
    <3>5. /\ \A role \in Roles : ~Create(r, role)
          /\ \A body \in Edits : ~UpdateUser(r, body)
          /\ ~OpenSession(r) /\ ~UpdateSession(r) /\ ~SuspendUser(r) /\ ~DeleteUser(r)
          /\ ~Abort(r)
      BY <2>5 DEF Create, UpdateUser, OpenSession, UpdateSession, SuspendUser, DeleteUser, Abort,
                  SignAccessToken
    <3> QED
      BY <2>4, <3>1, <3>2, <3>3, <3>4, <3>5 DEF Handlers, Administer
  <2> QED
    BY <2>2, <2>6
<1> QED
  BY <1>1, Inductive, PTL DEF Spec, AdminRightsLapse

\* Nobody becomes ADMIN but by an administrator's request, on the row it is about, or by the
\* upsert of an address whoever runs the backend has given (createUser, updateUser,
\* create-admin.ts, onModuleInit).
THEOREM AppointmentHolds == Spec => AppointedByAdmins
<1> DEFINE ByRequest(i) ==
              \E r \in Requests :
                 /\ req[r].caller # 0 /\ adminAt[req[r].caller] >= 0 /\ req'[r] = Idle
                 /\ \/ At(r, "edit") /\ req[r].target = i
                    \/ At(r, "create") /\ i = created + 1
           Step == \A i \in Ids :
              (IsAdmin(i)' /\ ~IsAdmin(i)) =>
                 \/ \E email \in Emails : CreateAdmin(email) /\ Has(i, email)'
                 \/ Restart /\ Has(i, DefaultAdmin)'
                 \/ ByRequest(i)
<1>1. IInv /\ [Next]_vars => [Step]_vars
  <2> SUFFICES ASSUME IInv, Next, NEW i \in Ids, IsAdmin(i)', ~IsAdmin(i)
               PROVE  \/ \E email \in Emails : CreateAdmin(email) /\ Has(i, email)'
                      \/ Restart /\ Has(i, DefaultAdmin)'
                      \/ ByRequest(i)
    OBVIOUS
  <2>0. TypeOK /\ account \in [Ids -> User \cup {Null}] /\ account'[i] # account[i]
    BY DEF IInv, TypeOK, IsAdmin, Exists
  <2>1. ASSUME NEW r \in Requests, NEW role \in Roles, Create(r, role)
        PROVE  ByRequest(i)
    <3>1. i = created + 1 /\ account'[i].role = role
      BY <2>0, <2>1 DEF Create
    <3>2. role = "ADMIN"
      BY <3>1 DEF IsAdmin
    <3>3. req[r].caller # 0
      BY <2>1, <3>2 DEF Create, RolesToGive
    <3> QED
      BY <2>0, <2>1, <3>1, <3>3 DEF Create, Done, TypeOK, IInv, HandlerInv, CallersWereAdmins
  <2>2. ASSUME NEW r \in Requests, NEW body \in Edits, UpdateUser(r, body)
        PROVE  ByRequest(i)
    <3>1. i = req[r].target /\ At(r, "edit") /\ req'[r] = Idle
      BY <2>0, <2>2 DEF UpdateUser, Done, TypeOK
    <3> QED
      BY <3>1 DEF At, IInv, HandlerInv, CallersWereAdmins
  <2>3. ASSUME NEW r \in Requests, SuspendUser(r) PROVE ByRequest(i)
    <3>1. i = req[r].target /\ At(r, "edit") /\ req'[r] = Idle
      BY <2>0, <2>3 DEF SuspendUser, Done, TypeOK
    <3> QED
      BY <3>1 DEF At, IInv, HandlerInv, CallersWereAdmins
  <2>4. ASSUME NEW r \in Requests, DeleteUser(r) PROVE FALSE
    BY <2>0, <2>4 DEF DeleteUser, IsAdmin, Exists
  <2>5. ASSUME NEW email \in Emails, UpsertAdmin(email) PROVE Has(i, email)'
    <3>1. ASSUME NEW j \in Ids, Has(j, email),
                 account' = [account EXCEPT ![j].role = "ADMIN", ![j].status = "ACTIVE"]
          PROVE  Has(i, email)'
      <4>1. account[j] \in User
        BY <3>1, <2>0, RowsAreUsers DEF Has
      <4>2. i = j
        BY <2>0, <3>1
      <4>3. account'[i].email = email
        BY <2>0, <3>1, <4>1, <4>2 DEF Has, User
      <4> QED
        BY <4>3 DEF Has, IsAdmin
    <3>2. ASSUME account' = [account EXCEPT ![created + 1] =
                               [email |-> email, role |-> "ADMIN", status |-> "ACTIVE"]]
          PROVE  Has(i, email)'
      <4>1. i = created + 1
        BY <2>0, <3>2
      <4>2. account'[i].email = email
        BY <2>0, <3>2, <4>1
      <4> QED
        BY <4>2 DEF Has, IsAdmin
    <3> QED
      BY <2>5, <3>1, <3>2 DEF UpsertAdmin
  <2>6. ASSUME NEW r \in Requests, Handlers(r) PROVE ByRequest(i)
    <3>1. \/ UNCHANGED account
          \/ \E role \in Roles : Create(r, role)
          \/ \E body \in Edits : UpdateUser(r, body)
          \/ SuspendUser(r) \/ DeleteUser(r)
      BY <2>6, ZenonT(30) DEF Handlers, Administer, Register, CreateUser, Login, Refresh,
            OpenSession, UpdateSession, BeginCall, Admit, FindUser, FindToDelete, Abort
    <3> HIDE DEF ByRequest
    <3> QED
      BY <2>0, <2>1, <2>2, <2>3, <2>4, <3>1
  <2>7. ASSUME NEW email \in Emails, CreateAdmin(email) PROVE Has(i, email)'
    BY <2>5, <2>7 DEF CreateAdmin
  <2>8. ASSUME Restart PROVE Has(i, DefaultAdmin)'
    BY <2>0, <2>5, <2>8, Values DEF Restart
  <2>9. ~Tick
    BY <2>0 DEF Tick
  <2> QED
    BY <2>6, <2>7, <2>8, <2>9 DEF Next
<1> QED
  BY <1>1, Inductive, PTL DEF Spec, AppointedByAdmins
=============================================================================
