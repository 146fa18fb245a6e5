------------------------------ MODULE Accounts ------------------------------
(***************************************************************************)
(* The rows of users and who may write them: registration                  *)
(* (src/auth/auth.service.ts), the accounts part of the administrator's    *)
(* API (src/admin/admin.service.ts) behind its guards, and the default     *)
(* administrator (admin-bootstrap.service.ts, scripts/create-admin.ts).    *)
(*                                                                         *)
(* The role an administrator acts under is the one that was in the row     *)
(* when a login or refresh read it: it travels in the access token, and    *)
(* AdminGuard looks at nothing else.                                       *)
(***************************************************************************)
EXTENDS Integers, FiniteSets

CONSTANTS
    Emails,
    DefaultAdmin,   \* DEFAULT_ADMIN_EMAIL
    Requests,       \* slots for concurrently running HTTP requests
    AccessTtl,      \* accessTokenTtlSec, in clock units
    Edits,          \* the bodies of PATCH /admin/users/:id a run uses
    MaxAccounts,    \* bound: rows of users ever created
    MaxSessions,    \* bound: sessions ever opened
    MaxTokens,      \* bound: access tokens ever signed
    MaxTime,        \* bound: last value of the clock
    Null            \* no row, a property the body does not have

Roles == {"USER", "ADMIN"}

Statuses == {"ACTIVE", "DISABLED"}

User == [email: Emails, role: Roles, status: Statuses]

Body == [email: Emails \cup {Null}, role: Roles \cup {Null}, status: Statuses \cup {Null}]

ASSUME AccountsAssumption ==
    /\ DefaultAdmin \in Emails
    /\ Null \notin Emails \cup Roles \cup Statuses \cup User
    /\ Edits \subseteq Body
    /\ AccessTtl \in Nat
    /\ MaxAccounts \in Nat /\ MaxSessions \in Nat /\ MaxTokens \in Nat /\ MaxTime \in Nat

VARIABLES
    clock,
    account,   \* account[i]: the i-th row created in users, or Null
    created,   \* number of rows created
    sessions,  \* sessions[s]: the user of the s-th session until revoked, else 0; a session
               \* that ends otherwise is one nobody uses any more
    opened,    \* number of sessions opened
    tokens,    \* access tokens signed
    req,       \* req[r]: the handler running in slot r and its locals
    adminAt,   \* history: when account i was last ADMIN, -1 for never
    delay      \* history: the longest time from reading a role to signing it

vars == <<clock, account, created, sessions, opened, tokens, req, adminAt, delay>>

Ids == 1 .. MaxAccounts

SessionIds == 1 .. MaxSessions

\* JwtPayload, and iat
Token == [sub: Ids, sessionId: SessionIds, role: Roles, iat: Nat]

Steps == {"idle", "open", "sign", "create", "guard", "admitted", "edit", "delete"}

\* caller: the administrator, 0 for nobody; target: the account the handler works on; role and
\* readAt: what a login or refresh read in the row, or the guard in the token, and when; email:
\* of an account to create
Request == [step: Steps, caller: 0 .. MaxAccounts, target: 0 .. MaxAccounts,
            session: 0 .. MaxSessions, role: Roles, readAt: Nat, email: Emails]

Idle == [step |-> "idle", caller |-> 0, target |-> 0, session |-> 0, role |-> "USER",
         readAt |-> 0, email |-> DefaultAdmin]

TypeOK ==
    /\ clock \in Nat
    /\ account \in [Ids -> User \cup {Null}]
    /\ created \in 0 .. MaxAccounts
    /\ sessions \in [SessionIds -> 0 .. MaxAccounts]
    /\ opened \in 0 .. MaxSessions
    /\ tokens \subseteq Token
    /\ req \in [Requests -> Request]
    /\ adminAt \in [Ids -> Int]
    /\ delay \in Nat

Init ==
    /\ clock = 0
    /\ account = [i \in Ids |-> Null]
    /\ created = 0
    /\ sessions = [s \in SessionIds |-> 0]
    /\ opened = 0
    /\ tokens = {}
    /\ req = [r \in Requests |-> Idle]
    /\ adminAt = [i \in Ids |-> -1]
    /\ delay = 0

-----------------------------------------------------------------------------
At(r, step) == req[r].step = step

Done(r) == req' = [req EXCEPT ![r] = Idle]

Exists(i) == account[i] # Null

Has(i, email) == Exists(i) /\ account[i].email = email

Taken(email) == \E i \in Ids : Has(i, email)

\* Mutant: email without @unique, the lookup before is all there is
AddressFreeAlways(i, email) == TRUE

\* email @unique: row i may be written with this address
AddressFree(i, email) == \A j \in Ids \ {i} : ~Has(j, email)

-----------------------------------------------------------------------------
(* POST /auth/register, POST /admin/users                                  *)

\* findUnique finds nobody
Register(r, email) ==
    /\ At(r, "idle") /\ ~Taken(email)
    /\ req' = [req EXCEPT ![r].step = "create", ![r].email = email]
    /\ UNCHANGED <<clock, account, created, sessions, opened, tokens, delay>>

CreateUser(r, email) ==
    /\ At(r, "admitted") /\ ~Taken(email)
    /\ req' = [req EXCEPT ![r].step = "create", ![r].email = email]
    /\ UNCHANGED <<clock, account, created, sessions, opened, tokens, delay>>

\* Mutant: whoever creates an account chooses its role
RolesAnyone(r) == Roles

\* RegisterDto has no role, and the column defaults to USER
RolesToGive(r) == IF req[r].caller = 0 THEN {"USER"} ELSE Roles

\* user.create; hashing the password and the PIN are awaits before it
Create(r, role) ==
    /\ At(r, "create") /\ role \in RolesToGive(r)
    /\ created < MaxAccounts /\ AddressFree(created + 1, req[r].email)
    /\ account' = [account EXCEPT ![created + 1] =
                     [email |-> req[r].email, role |-> role, status |-> "ACTIVE"]]
    /\ created' = created + 1
    /\ Done(r)
    /\ UNCHANGED <<clock, sessions, opened, tokens, delay>>

-----------------------------------------------------------------------------
(* Logins and refreshes, as far as they sign a role                        *)

Login(r, i) ==
    /\ At(r, "idle") /\ Exists(i) /\ account[i].status = "ACTIVE"
    /\ req' = [req EXCEPT ![r].step = "open", ![r].target = i,
                          ![r].role = account[i].role, ![r].readAt = clock]
    /\ UNCHANGED <<clock, account, created, sessions, opened, tokens, delay>>

\* Mutant: a refresh keeps the role of the session's last token
RoleSigned(i, s) ==
    IF \E t \in tokens : t.sessionId = s THEN (CHOOSE t \in tokens : t.sessionId = s).role
    ELSE account[i].role

\* session.user, read with the session
RoleRead(i, s) == account[i].role

Refresh(r, s) ==
    LET i == sessions[s]
    IN  /\ At(r, "idle") /\ i # 0 /\ account[i].status = "ACTIVE"
        /\ req' = [req EXCEPT ![r].step = "sign", ![r].target = i, ![r].session = s,
                              ![r].role = RoleRead(i, s), ![r].readAt = clock]
        /\ UNCHANGED <<clock, account, created, sessions, opened, tokens, delay>>

Later(a, b) == IF a < b THEN b ELSE a

\* signAccessToken, on the user read at the beginning
SignAccessToken(r, s) ==
    /\ Cardinality(tokens) < MaxTokens
    /\ tokens' = tokens \cup {[sub |-> req[r].target, sessionId |-> s, role |-> req[r].role,
                               iat |-> clock]}
    /\ delay' = Later(delay, clock - req[r].readAt)
    /\ Done(r)

\* session.create refuses a user who has gone
OpenSession(r) ==
    /\ At(r, "open") /\ Exists(req[r].target)
    /\ opened < MaxSessions
    /\ sessions' = [sessions EXCEPT ![opened + 1] = req[r].target]
    /\ opened' = opened + 1
    /\ SignAccessToken(r, opened + 1)
    /\ UNCHANGED <<clock, account, created>>

\* session.update by id: the row goes with its user, and may have been revoked meanwhile
UpdateSession(r) ==
    /\ At(r, "sign") /\ Exists(req[r].target)
    /\ SignAccessToken(r, req[r].session)
    /\ UNCHANGED <<clock, account, created, sessions, opened>>

-----------------------------------------------------------------------------
(* The administrator's API                                                 *)

\* Mutant: ignoreExpiration
VerifiesAnyAge(t) == TRUE

\* jwt.verify
Verifies(t) == clock < t.iat + AccessTtl

\* JwtAuthGuard, up to the lookup of the session
BeginCall(r, t) ==
    /\ At(r, "idle") /\ Verifies(t)
    /\ req' = [req EXCEPT ![r].step = "guard", ![r].target = t.sub, ![r].session = t.sessionId,
                          ![r].role = t.role, ![r].readAt = clock]
    /\ UNCHANGED <<clock, account, created, sessions, opened, tokens, delay>>

\* The lookup finds the session, then AdminGuard
Admit(r) ==
    /\ At(r, "guard") /\ sessions[req[r].session] = req[r].target
    /\ req[r].role = "ADMIN"
    /\ req' = [req EXCEPT ![r] = [Idle EXCEPT !.step = "admitted", !.caller = req[r].target]]
    /\ UNCHANGED <<clock, account, created, sessions, opened, tokens, delay>>

\* findUser of updateUser, suspendUser, activateUser, updateUserLimits, uploadProfileImage
FindUser(r, i) ==
    /\ At(r, "admitted") /\ Exists(i)
    /\ req' = [req EXCEPT ![r].step = "edit", ![r].target = i]
    /\ UNCHANGED <<clock, account, created, sessions, opened, tokens, delay>>

MayDelete(r, i) == i # req[r].caller

FindToDelete(r, i) ==
    /\ At(r, "admitted") /\ MayDelete(r, i) /\ Exists(i)
    /\ req' = [req EXCEPT ![r].step = "delete", ![r].target = i]
    /\ UNCHANGED <<clock, account, created, sessions, opened, tokens, delay>>

\* Prisma leaves alone what is undefined.
Edited(row, body) ==
    [email |-> IF body.email = Null THEN row.email ELSE body.email,
     role |-> IF body.role = Null THEN row.role ELSE body.role,
     status |-> IF body.status = Null THEN row.status ELSE body.status]

\* The update by id of updateUser; activateUser is one of a status, updateUserLimits and
\* uploadProfileImage are ones of none of these columns.
UpdateUser(r, body) ==
    LET i == req[r].target
    IN  /\ At(r, "edit") /\ Exists(i)
        /\ body.email = Null \/ AddressFree(i, body.email)
        /\ account' = [account EXCEPT ![i] = Edited(account[i], body)]
        /\ Done(r)
        /\ UNCHANGED <<clock, created, sessions, opened, tokens, delay>>

WithoutSessionsOf(i) == [s \in SessionIds |-> IF sessions[s] = i THEN 0 ELSE sessions[s]]

SuspendUser(r) ==
    LET i == req[r].target
    IN  /\ At(r, "edit") /\ Exists(i)
        /\ account' = [account EXCEPT ![i].status = "DISABLED"]
        /\ sessions' = WithoutSessionsOf(i)
        /\ Done(r)
        /\ UNCHANGED <<clock, created, opened, tokens, delay>>

DeleteUser(r) ==
    LET i == req[r].target
    IN  /\ At(r, "delete") /\ Exists(i)
        /\ account' = [account EXCEPT ![i] = Null]
        /\ sessions' = WithoutSessionsOf(i)
        /\ Done(r)
        /\ UNCHANGED <<clock, created, opened, tokens, delay>>

-----------------------------------------------------------------------------
(* The configured administrators                                           *)

\* user.upsert
UpsertAdmin(email) ==
    \/ \E i \in Ids :
          /\ Has(i, email)
          /\ account' = [account EXCEPT ![i].role = "ADMIN", ![i].status = "ACTIVE"]
          /\ UNCHANGED created
    \/ /\ ~Taken(email) /\ created < MaxAccounts
       /\ account' = [account EXCEPT ![created + 1] =
                        [email |-> email, role |-> "ADMIN", status |-> "ACTIVE"]]
       /\ created' = created + 1

\* scripts/create-admin.ts, beside the running server: ADMIN_EMAIL names any address, and
\* without it the default one is taken
CreateAdmin(email) ==
    /\ UpsertAdmin(email)
    /\ UNCHANGED <<clock, sessions, opened, tokens, req, delay>>

\* The process starts again: requests are lost, and onModuleInit configures the account of
\* DEFAULT_ADMIN_EMAIL unless its variables are missing or too short.
Restart ==
    /\ req' = [r \in Requests |-> Idle]
    /\ \/ UpsertAdmin(DefaultAdmin)
       \/ \E r \in Requests : ~At(r, "idle") /\ UNCHANGED <<account, created>>
    /\ UNCHANGED <<clock, sessions, opened, tokens, delay>>

-----------------------------------------------------------------------------
\* A lookup finds the address taken or nobody, the unique key or a foreign key refuses the
\* write, the row to write has gone, or the database fails.
Abort(r) ==
    /\ ~At(r, "idle")
    /\ Done(r)
    /\ UNCHANGED <<clock, account, created, sessions, opened, tokens, delay>>

Tick ==
    /\ clock < MaxTime
    /\ clock' = clock + 1
    /\ UNCHANGED <<account, created, sessions, opened, tokens, req, delay>>

Administer(r) ==
    \/ \E t \in tokens : BeginCall(r, t)
    \/ Admit(r)
    \/ \E email \in Emails : CreateUser(r, email)
    \/ \E i \in Ids : FindUser(r, i) \/ FindToDelete(r, i)
    \/ \E body \in Edits : UpdateUser(r, body)
    \/ SuspendUser(r)
    \/ DeleteUser(r)

Handlers(r) ==
    \/ \E email \in Emails : Register(r, email)
    \/ \E role \in Roles : Create(r, role)
    \/ \E i \in Ids : Login(r, i)
    \/ \E s \in SessionIds : Refresh(r, s)
    \/ OpenSession(r)
    \/ UpdateSession(r)
    \/ Administer(r)
    \/ Abort(r)

IsAdmin(i) == Exists(i) /\ account[i].role = "ADMIN"

Observe == adminAt' = [i \in Ids |-> IF IsAdmin(i)' THEN clock' ELSE adminAt[i]]

Next ==
    /\ \/ \E r \in Requests : Handlers(r)
       \/ \E email \in Emails : CreateAdmin(email)
       \/ Restart
       \/ Tick
    /\ Observe

Spec == Init /\ [][Next]_vars

-----------------------------------------------------------------------------
\* However registrations, createUser, changes of address and the upserts of administrators
\* overlap, at most one account has an address: their lookups can all pass (register,
\* createUser), the unique key decides.
OneAccountPerAddress ==
    \A i, j \in Ids : (Exists(i) /\ Has(j, account[i].email)) => i = j

\* Rights end with the token: an administrative call is admitted only for an account that was
\* ADMIN less than a token's lifetime before the call arrived, or longer by what a login or
\* refresh took between reading the role and signing it.  No refresh carries a role on
\* (AdminGuard, signAccessToken).
AdminRightsLapse ==
    [][\A r \in Requests :
          (At(r, "guard") /\ req'[r].step = "admitted")
              => req[r].readAt < adminAt[req'[r].caller] + AccessTtl + delay]_vars

\* Only an administrator or whoever runs the backend makes an administrator: whoever becomes
\* ADMIN has the address the script was started with or the server is configured with at its
\* start, or is the very row that the request of an account that was ADMIN creates or edits in
\* this step (createUser, updateUser, create-admin.ts, onModuleInit).  A request under way when
\* its caller lost the role may still do so.
AppointedByAdmins ==
    [][\A i \in Ids :
          (IsAdmin(i)' /\ ~IsAdmin(i)) =>
              \/ \E email \in Emails : CreateAdmin(email) /\ Has(i, email)'
              \/ Restart /\ Has(i, DefaultAdmin)'
              \/ \E r \in Requests :
                    /\ req[r].caller # 0 /\ adminAt[req[r].caller] >= 0 /\ req'[r] = Idle
                    /\ \/ At(r, "edit") /\ req[r].target = i
                       \/ At(r, "create") /\ i = created + 1]_vars
=============================================================================
