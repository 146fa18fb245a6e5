------------------------------ MODULE Sessions ------------------------------
(***************************************************************************)
(* Login sessions of the SangaPay backend: src/auth/auth.service.ts, the   *)
(* JWT guard in front of every authenticated route, and the administrator  *)
(* operations that end sessions.                                           *)
(*                                                                         *)
(* Every HTTP handler is an async function, so each `await` on the         *)
(* database is one atomic step and the steps of other handlers come in     *)
(* between.  What a handler read before an await stays in its request      *)
(* record and is used after it, exactly as the local variables of the code *)
(* are.  A Prisma $transaction or nested write is one step.                *)
(***************************************************************************)
EXTENDS Integers, FiniteSets

CONSTANTS
    Users,            \* user accounts; all of them have a verified e-mail
    Passwords,        \* password values
    Requests,         \* slots for concurrently running HTTP requests
    MaxSessions,      \* bound: session rows ever created
    ScanLimit,        \* `take` of the refresh-token scan (50 in the code)
    AccessTtls,       \* values getPolicy can give accessTokenTtlSec
    InactivityTtls,   \* values getPolicy can give refreshTokenInactivityTtlSec
    MaxTime,          \* bound: last value of the clock
    Null              \* SQL NULL, or no row

ASSUME SessionAssumption ==
    /\ MaxSessions \in Nat
    /\ ScanLimit \in Nat \ {0}
    /\ MaxTime \in Nat
    /\ AccessTtls # {} /\ AccessTtls \subseteq Nat \ {0}
    /\ InactivityTtls # {} /\ InactivityTtls \subseteq Nat \ {0}
    /\ Null \notin Nat /\ Null \notin Users /\ Null \notin Passwords

VARIABLES
    clock,      \* wall clock of the server
    users,      \* users[u]: status and password hash of the user's row
    policy,     \* the session policy getPolicy computes
    sessions,   \* sessions[s]: row of the s-th session created, or Null
    created,    \* number of session rows created so far
    tokenExp,   \* tokenExp[s]: expiry of the access token of session s that lives longest
                \* (an older one passes jwt.verify at no instant this one does not), 0 if
                \* the client has been given none yet
    req         \* req[r]: the handler running in slot r and its locals

vars == <<clock, users, policy, sessions, created, tokenExp, req>>

SessionIds == 1 .. MaxSessions

UserRow == [status: {"ACTIVE", "DISABLED", "DELETED"}, password: Passwords]

SessionRow == [user: Users, lastUsedAt: Nat, expiresAt: Nat, revokedAt: Nat \cup {Null}]

ASSUME NullIsNoRow == Null \notin SessionRow

Kinds == {"none", "login", "refresh", "unlock", "logout", "call"}

Steps == {"idle", "findUser", "stamp", "scan", "pin", "inactivity", "readPolicy", "write",
          "sign", "guardRead", "guardPolicy", "admitted"}

Request ==
    [kind: Kinds, step: Steps, user: Users \cup {Null}, sess: SessionIds \cup {0},
     password: Passwords \cup {Null}, active: BOOLEAN, now: Nat, lastUsedAt: Nat,
     accessTtl: Nat, inactivityTtl: Nat]

Idle ==
    [kind |-> "none", step |-> "idle", user |-> Null, sess |-> 0, password |-> Null,
     active |-> FALSE, now |-> 0, lastUsedAt |-> 0, accessTtl |-> 0, inactivityTtl |-> 0]

TypeOK ==
    /\ clock \in Nat
    /\ users \in [Users -> UserRow]
    /\ policy \in [access: AccessTtls, inactivity: InactivityTtls]
    /\ sessions \in [SessionIds -> SessionRow \cup {Null}]
    /\ created \in 0 .. MaxSessions
    /\ tokenExp \in [SessionIds -> Nat]
    /\ req \in [Requests -> Request]

Init ==
    /\ clock = 0
    /\ users \in [Users -> [status: {"ACTIVE"}, password: Passwords]]
    /\ policy \in [access: AccessTtls, inactivity: InactivityTtls]
    /\ sessions = [s \in SessionIds |-> Null]
    /\ created = 0
    /\ tokenExp = [s \in SessionIds |-> 0]
    /\ req = [r \in Requests |-> Idle]

-----------------------------------------------------------------------------
(* Reading the sessions table.                                             *)

Exists(s) == s \in SessionIds /\ sessions[s] # Null

Unrevoked(s) == Exists(s) /\ sessions[s].revokedAt = Null

\* where: { revokedAt: null, expiresAt: { gt: now } }
Live(s, now) == Unrevoked(s) /\ sessions[s].expiresAt > now

\* findMany({ where, orderBy: { createdAt: 'desc' }, take: 50 }): the newest live sessions
\* of all the users together
Scanned(now) ==
    {s \in SessionIds :
        Live(s, now) /\ Cardinality({t \in s + 1 .. MaxSessions : Live(t, now)}) < ScanLimit}

At(r, step) == req[r].step = step

\* The handler throws: the response is an error and nothing is written.
Refuse(r) == req' = [req EXCEPT ![r] = Idle]

-----------------------------------------------------------------------------
(* POST /auth/login                                                        *)

BeginLogin(r, u, p) ==
    /\ At(r, "idle")
    /\ created < MaxSessions
    /\ req' = [req EXCEPT ![r] =
                 [Idle EXCEPT !.kind = "login", !.step = "findUser", !.user = u, !.password = p]]
    /\ UNCHANGED <<clock, users, policy, sessions, created, tokenExp>>

\* findUserByEmail, assertActiveVerifiedUser and bcrypt.compare on the row that was read
CredentialsOk(u, p) ==
    /\ users[u].status = "ACTIVE"
    /\ users[u].password = p

FindUser(r) ==
    /\ At(r, "findUser")
    /\ \/ /\ CredentialsOk(req[r].user, req[r].password)
          /\ req' = [req EXCEPT ![r].step = "stamp", ![r].password = Null]
       \/ ~CredentialsOk(req[r].user, req[r].password) /\ Refuse(r)
    /\ UNCHANGED <<clock, users, policy, sessions, created, tokenExp>>

\* createSession hashes the refresh token, then takes `now`
StampSession(r) ==
    /\ At(r, "stamp")
    /\ req' = [req EXCEPT ![r].step = "readPolicy", ![r].now = clock]
    /\ UNCHANGED <<clock, users, policy, sessions, created, tokenExp>>

\* getPolicy of createSession, and the second getPolicy of refresh and unlock
ReadPolicy(r) ==
    /\ At(r, "readPolicy")
    /\ req' = [req EXCEPT ![r].step = "write", ![r].accessTtl = policy.access,
                          ![r].inactivityTtl = policy.inactivity]
    /\ UNCHANGED <<clock, users, policy, sessions, created, tokenExp>>

NewSession(q) ==
    [user |-> q.user, lastUsedAt |-> q.now, expiresAt |-> q.now + q.inactivityTtl,
     revokedAt |-> Null]

\* From the write on, the handler needs only what it signs.
ToSign(q, s) ==
    [Idle EXCEPT !.kind = q.kind, !.step = "sign", !.sess = s, !.accessTtl = q.accessTtl]

\* session.create; the foreign key refuses the row of a user deleted meanwhile
CreateSession(r) ==
    /\ At(r, "write") /\ req[r].kind = "login"
    /\ created < MaxSessions
    /\ \/ /\ users[req[r].user].status # "DELETED"
          /\ created' = created + 1
          /\ sessions' = [sessions EXCEPT ![created + 1] = NewSession(req[r])]
          /\ req' = [req EXCEPT ![r] = ToSign(req[r], created + 1)]
       \/ /\ users[req[r].user].status = "DELETED"
          /\ Refuse(r)
          /\ UNCHANGED <<sessions, created>>
    /\ UNCHANGED <<clock, users, policy, tokenExp>>

Later(a, b) == IF a > b THEN a ELSE b

\* jwt.sign, and the response that carries the access and the refresh token
SignAccessToken(r) ==
    /\ At(r, "sign")
    /\ tokenExp' = [tokenExp EXCEPT ![req[r].sess] = Later(@, clock + req[r].accessTtl)]
    /\ req' = [req EXCEPT ![r] = Idle]
    /\ UNCHANGED <<clock, users, policy, sessions, created>>

-----------------------------------------------------------------------------
(* POST /auth/refresh and POST /auth/unlock-with-pin                       *)

\* The client holds the refresh token of a session it was given an access token for.
BeginRefresh(r, kind, s) ==
    /\ At(r, "idle")
    /\ tokenExp[s] > 0
    /\ req' = [req EXCEPT ![r] =
                 [Idle EXCEPT !.kind = kind, !.step = "scan", !.sess = s, !.now = clock]]
    /\ UNCHANGED <<clock, users, policy, sessions, created, tokenExp>>

\* findMany with the user included, and the bcrypt comparison with each row; refresh checks
\* the user's status at once
ScanSessions(r) ==
    LET s == req[r].sess
        Found == s \in Scanned(req[r].now)
        ActiveUser == users[sessions[s].user].status = "ACTIVE"
    IN  /\ At(r, "scan")
        /\ \/ /\ Found
              /\ req[r].kind = "refresh" => ActiveUser
              /\ req' = [req EXCEPT ![r].step = "pin",
                                    ![r].user = sessions[s].user,
                                    ![r].active = ActiveUser,
                                    ![r].lastUsedAt = sessions[s].lastUsedAt]
           \/ Found /\ req[r].kind = "refresh" /\ ~ActiveUser /\ Refuse(r)
           \/ ~Found /\ Refuse(r)
        /\ UNCHANGED <<clock, users, policy, sessions, created, tokenExp>>

\* Mutant: unlock forgets assertActiveVerifiedUser
AfterPinUnchecked(q) ==
    [q EXCEPT !.step = "inactivity", !.now = IF q.kind = "refresh" THEN @ ELSE clock]

\* unlockWithPin checks the status it read with the session after the PIN, and only then
\* takes the `now` it goes on with
AfterPin(q) ==
    CASE q.kind = "refresh" -> [q EXCEPT !.step = "inactivity"]
      [] q.kind # "refresh" /\ q.active -> [q EXCEPT !.step = "inactivity", !.now = clock]
      [] OTHER -> Idle

\* assertSensitivePin reads the user's row again: a wrong PIN or a missing row refuses
CheckPin(r) ==
    /\ At(r, "pin")
    /\ \/ /\ users[req[r].user].status # "DELETED"
          /\ req' = [req EXCEPT ![r] = AfterPin(req[r])]
       \/ Refuse(r)
    /\ UNCHANGED <<clock, users, policy, sessions, created, tokenExp>>

\* Mutant: only the stored expiresAt is trusted
IdleTooLongNever(now, lastUsedAt) == FALSE

\* inactiveForMs > policy.refreshTokenInactivityTtlSec * 1000, in refresh, unlock and guard
IdleTooLong(now, lastUsedAt) == now - lastUsedAt > policy.inactivity

\* assertSessionStillActive, with the lastUsedAt the scan returned
AssertSessionStillActive(r) ==
    /\ At(r, "inactivity")
    /\ \/ /\ ~IdleTooLong(req[r].now, req[r].lastUsedAt)
          /\ req' = [req EXCEPT ![r].step = "readPolicy"]
       \/ IdleTooLong(req[r].now, req[r].lastUsedAt) /\ Refuse(r)
    /\ UNCHANGED <<clock, users, policy, sessions, created, tokenExp>>

\* Mutant: expiresAt counts from a second `new Date()`, taken at the write
TouchedLate(row, q) ==
    [row EXCEPT !.lastUsedAt = q.now, !.expiresAt = clock + q.inactivityTtl]

\* Mutant: the update writes all the columns the scan returned
TouchedWholeRow(row, q) ==
    [row EXCEPT !.lastUsedAt = q.now, !.expiresAt = q.now + q.inactivityTtl, !.revokedAt = Null]

\* session.update({ data: { lastUsedAt: now, expiresAt } }): the other columns stay
Touched(row, q) ==
    [row EXCEPT !.lastUsedAt = q.now, !.expiresAt = q.now + q.inactivityTtl]

\* The update is by id alone; it fails only when the row was deleted.
UpdateSession(r) ==
    /\ At(r, "write") /\ req[r].kind \in {"refresh", "unlock"}
    /\ \/ /\ Exists(req[r].sess)
          /\ sessions' = [sessions EXCEPT ![req[r].sess] = Touched(@, req[r])]
          /\ req' = [req EXCEPT ![r] = ToSign(req[r], req[r].sess)]
       \/ /\ ~Exists(req[r].sess)
          /\ Refuse(r)
          /\ UNCHANGED sessions
    /\ UNCHANGED <<clock, users, policy, created, tokenExp>>

-----------------------------------------------------------------------------
(* JwtAuthGuard, and the handlers behind it: logout and any other call.    *)

\* jwt.verify refuses an expired token before anything is read
BeginCall(r, kind, s) ==
    /\ At(r, "idle")
    /\ tokenExp[s] > clock
    /\ req' = [req EXCEPT ![r] = [Idle EXCEPT !.kind = kind, !.step = "guardRead", !.sess = s]]
    /\ UNCHANGED <<clock, users, policy, sessions, created, tokenExp>>

\* session.findFirst({ where: { id, userId, revokedAt: null, expiresAt: { gt } } }); the token
\* was signed for the user of the session, so userId never differs
GuardAdmits(q) == Live(q.sess, clock)

GuardRead(r) ==
    /\ At(r, "guardRead")
    /\ \/ /\ GuardAdmits(req[r])
          /\ req' = [req EXCEPT ![r].step = "guardPolicy",
                                ![r].lastUsedAt = sessions[req[r].sess].lastUsedAt]
       \/ ~GuardAdmits(req[r]) /\ Refuse(r)
    /\ UNCHANGED <<clock, users, policy, sessions, created, tokenExp>>

GuardPolicy(r) ==
    /\ At(r, "guardPolicy")
    /\ \/ /\ ~IdleTooLong(clock, req[r].lastUsedAt)
          /\ req' = [req EXCEPT ![r].step = "admitted", ![r].now = clock]
       \/ IdleTooLong(clock, req[r].lastUsedAt) /\ Refuse(r)
    /\ UNCHANGED <<clock, users, policy, sessions, created, tokenExp>>

\* updateMany({ where: { ..., revokedAt: null }, data: { revokedAt: new Date() } }) on a row
Revoked(row) ==
    IF row # Null /\ row.revokedAt = Null THEN [row EXCEPT !.revokedAt = clock] ELSE row

Logout(r) ==
    /\ At(r, "admitted") /\ req[r].kind = "logout"
    /\ sessions' = [sessions EXCEPT ![req[r].sess] = Revoked(@)]
    /\ req' = [req EXCEPT ![r] = Idle]
    /\ UNCHANGED <<clock, users, policy, created, tokenExp>>

\* An admitted handler that leaves the sessions alone.
OtherHandler(r) ==
    /\ At(r, "admitted") /\ req[r].kind = "call"
    /\ req' = [req EXCEPT ![r] = Idle]
    /\ UNCHANGED <<clock, users, policy, sessions, created, tokenExp>>

-----------------------------------------------------------------------------
(* Operations on the account that reach its sessions.                      *)

\* Mutant: only the newest session is revoked
RevokedNewest(u) ==
    [s \in SessionIds |->
        IF s = created /\ sessions[s] # Null /\ sessions[s].user = u
        THEN Revoked(sessions[s]) ELSE sessions[s]]

RevokedSessions(u) ==
    [s \in SessionIds |->
        IF sessions[s] # Null /\ sessions[s].user = u THEN Revoked(sessions[s]) ELSE sessions[s]]

\* confirmPasswordReset once its code is consumed: the password and the revocations in one
\* transaction
ConfirmPasswordReset(u, p) ==
    /\ users[u].status # "DELETED"
    /\ users' = [users EXCEPT ![u].password = p]
    /\ sessions' = RevokedSessions(u)
    /\ UNCHANGED <<clock, policy, created, tokenExp, req>>

\* Mutant: the sessions are ended, the status stays
SuspendSessionsOnly(u) ==
    /\ users[u].status # "DELETED"
    /\ sessions' = RevokedSessions(u)
    /\ UNCHANGED <<clock, users, policy, created, tokenExp, req>>

\* suspendUser: one nested write
SuspendUser(u) ==
    /\ users[u].status # "DELETED"
    /\ users' = [users EXCEPT ![u].status = "DISABLED"]
    /\ sessions' = RevokedSessions(u)
    /\ UNCHANGED <<clock, policy, created, tokenExp, req>>

\* activateUser, and updateUser with a status: the sessions are not touched
SetStatus(u, status) ==
    /\ users[u].status \notin {"DELETED", status}
    /\ users' = [users EXCEPT ![u].status = status]
    /\ UNCHANGED <<clock, policy, sessions, created, tokenExp, req>>

\* deleteUser: ON DELETE CASCADE removes the session rows
DeleteUser(u) ==
    /\ users[u].status # "DELETED"
    /\ users' = [users EXCEPT ![u].status = "DELETED"]
    /\ sessions' = [s \in SessionIds |->
                      IF sessions[s] # Null /\ sessions[s].user = u THEN Null ELSE sessions[s]]
    /\ UNCHANGED <<clock, policy, created, tokenExp, req>>

\* Each key of the policy is a row of its own, written by its own upsert.
SetAccessTtl(ttl) ==
    /\ policy.access # ttl
    /\ policy' = [policy EXCEPT !.access = ttl]
    /\ UNCHANGED <<clock, users, sessions, created, tokenExp, req>>

SetInactivityTtl(ttl) ==
    /\ policy.inactivity # ttl
    /\ policy' = [policy EXCEPT !.inactivity = ttl]
    /\ UNCHANGED <<clock, users, sessions, created, tokenExp, req>>

Tick ==
    /\ clock < MaxTime
    /\ clock' = clock + 1
    /\ UNCHANGED <<users, policy, sessions, created, tokenExp, req>>

-----------------------------------------------------------------------------
Handlers(r) ==
    \/ \E u \in Users, p \in Passwords : BeginLogin(r, u, p)
    \/ FindUser(r)
    \/ StampSession(r)
    \/ ReadPolicy(r)
    \/ CreateSession(r)
    \/ SignAccessToken(r)
    \/ \E kind \in {"refresh", "unlock"}, s \in SessionIds : BeginRefresh(r, kind, s)
    \/ ScanSessions(r)
    \/ CheckPin(r)
    \/ AssertSessionStillActive(r)
    \/ UpdateSession(r)
    \/ \E kind \in {"logout", "call"}, s \in SessionIds : BeginCall(r, kind, s)
    \/ GuardRead(r)
    \/ GuardPolicy(r)
    \/ Logout(r)
    \/ OtherHandler(r)

Environment ==
    \/ \E u \in Users : DeleteUser(u)
    \/ \E ttl \in AccessTtls : SetAccessTtl(ttl)
    \/ \E ttl \in InactivityTtls : SetInactivityTtl(ttl)
    \/ Tick

Next ==
    \/ \E r \in Requests : Handlers(r)
    \/ \E u \in Users, p \in Passwords : ConfirmPasswordReset(u, p)
    \/ \E u \in Users : SuspendUser(u)
    \/ \E u \in Users, status \in {"ACTIVE", "DISABLED"} : SetStatus(u, status)
    \/ Environment

Spec == Init /\ [][Next]_vars

-----------------------------------------------------------------------------
(* Properties of the sessions table.                                       *)

\* The two times of a row always belong together, whichever of several overlapping refreshes
\* and logins wrote it last and whatever the policy became in between: the row was used no
\* later than now and expires one inactivity limit after that use (lastUsedAt and expiresAt
\* in createSession, refresh and unlockWithPin).
UsageTimesCoherent ==
    \A s \in SessionIds : Exists(s) =>
        /\ sessions[s].lastUsedAt <= clock
        /\ sessions[s].expiresAt - sessions[s].lastUsedAt \in InactivityTtls

\* A revoked session stays revoked, at the time it was first revoked: a refresh that read the
\* row before a logout, a suspension or a password reset and writes it afterwards does not
\* bring it back (session.update and updateMany of auth.service.ts and admin.service.ts).
RevocationIsFinal ==
    [][\A s \in SessionIds :
          (Exists(s) /\ ~Unrevoked(s)) =>
              \/ sessions'[s] = Null
              \/ sessions'[s].revokedAt = sessions[s].revokedAt]_vars

\* frontend-api-contract.md:79: "Email/password login is required again after logout, revoked
\* sessions, or refresh-session inactivity expiry."  The search for the session of a refresh
\* token does not turn away an active user's session that is neither revoked nor expired,
\* however many sessions there are (findMany in refresh and findActiveSessionByRefreshToken).
LoginOnlyAfterEnd ==
    [][\A r \in Requests :
          (At(r, "scan") /\ req'[r] = Idle) =>
              \/ ~Live(req[r].sess, req[r].now)
              \/ users[sessions[req[r].sess].user].status # "ACTIVE"]_vars

-----------------------------------------------------------------------------
StateOf(s) ==
    CASE Unrevoked(s) -> "open"
      [] Exists(s) /\ ~Unrevoked(s) -> "ended"
      [] ~Exists(s) /\ s <= created -> "removed"
      [] OTHER -> "none"

Register == INSTANCE SessionRegister WITH
    Accounts <- Users,
    Ids <- SessionIds,
    None <- Null,
    state <- [s \in SessionIds |-> StateOf(s)],
    owner <- [s \in SessionIds |-> IF Exists(s) THEN sessions[s].user ELSE Null],
    deleted <- {u \in Users : users[u].status = "DELETED"}

\* However logins, refreshes, logouts, suspensions, resets and deletions overlap, the table is
\* a register: a session is opened once, for an account that is there at that instant, keeps
\* its user, and ends for good, all of an account's at once where the code ends all; a refresh
\* or unlock that writes late neither reopens a session nor brings back a removed one.
ImplementsRegister == Register!RegisterSpec
=============================================================================
