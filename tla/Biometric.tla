------------------------------ MODULE Biometric ------------------------------
(***************************************************************************)
(* Biometric login of one device: registering its public key, switching it *)
(* on and off, asking for a challenge and logging in with the signed       *)
(* challenge (src/auth/auth.service.ts).                                   *)
(*                                                                         *)
(* deviceId is unique over all accounts, and every write finds the row by  *)
(* deviceId alone: what was checked about the row was checked on the copy  *)
(* an earlier await returned.                                              *)
(***************************************************************************)
EXTENDS Integers, FiniteSets

CONSTANTS
    Users,          \* accounts that may use the device
    Requests,       \* slots for concurrently running HTTP requests
    MaxChallenges,  \* bound: challenges ever issued
    ChallengeTtl,   \* BIOMETRIC_CHALLENGE_TTL_SEC, in clock units
    MaxTime,        \* bound: last value of the clock
    Null            \* no row, no account

ASSUME BiometricAssumption ==
    /\ MaxChallenges \in Nat
    /\ ChallengeTtl \in Nat \ {0}
    /\ MaxTime \in Nat
    /\ Null \notin Users
    /\ IsFiniteSet(Requests)

VARIABLES
    clock,
    status,         \* status[u]: status of the user's row
    credential,     \* the device's row in biometric_credentials, or Null
    issued,         \* number of challenges issued
    req,            \* req[r]: the handler running in slot r and its locals
    logins,         \* history: logins[c]: sessions opened with challenge c
    entitled        \* history: logins that were in order at an instant of their run

vars == <<clock, status, credential, issued, req, logins, entitled>>

Challenges == 1 .. MaxChallenges

\* key is the account whose app made the key pair; challenge 0 is NULL
Credential ==
    [owner: Users, key: Users, enabled: BOOLEAN, challenge: {0} \cup Challenges, expiresAt: Nat]

ASSUME NullIsNoCredential == Null \notin Credential

Kinds == {"none", "register", "setting", "challenge", "login"}

Steps == {"idle", "pin", "find", "create", "rekey", "set", "issue", "clear", "session"}

\* user: who asks, and in a login past its check the owner that was read;
\* challenge and signer: the login request; enable: the new setting
Request ==
    [kind: Kinds, step: Steps, user: Users \cup {Null}, challenge: {0} \cup Challenges,
     signer: Users \cup {Null}, enable: BOOLEAN]

Idle == [kind |-> "none", step |-> "idle", user |-> Null, challenge |-> 0,
         signer |-> Null, enable |-> FALSE]

TypeOK ==
    /\ clock \in Nat
    /\ status \in [Users -> {"ACTIVE", "DISABLED", "DELETED"}]
    /\ credential \in Credential \cup {Null}
    /\ credential # Null =>
          /\ credential.challenge <= issued
          /\ credential.challenge = 0 <=> credential.expiresAt = 0
    /\ issued \in 0 .. MaxChallenges
    /\ req \in [Requests -> Request]
    /\ logins \in [Challenges -> Nat]
    /\ entitled \subseteq Requests

Init ==
    /\ clock = 0
    /\ status = [u \in Users |-> "ACTIVE"]
    /\ credential = Null
    /\ issued = 0
    /\ req = [r \in Requests |-> Idle]
    /\ logins = [c \in Challenges |-> 0]
    /\ entitled = {}

-----------------------------------------------------------------------------
At(r, kind, step) == req[r].kind = kind /\ req[r].step = step

Begin(r, request) == req[r].step = "idle" /\ req' = [req EXCEPT ![r] = request]

Goto(r, step) == req' = [req EXCEPT ![r].step = step]

Done(r) == req' = [req EXCEPT ![r] = Idle]

Registered == credential # Null

\* Mutant: the challenge stays when it was used
NotCleared(row) == row

\* data: { challenge: null, challengeExpiresAt: null }
Cleared(row) == [row EXCEPT !.challenge = 0, !.expiresAt = 0]

\* update({ where: { deviceId }, data }): fails when there is no such row
Update(row) == Registered /\ credential' = row

-----------------------------------------------------------------------------
(* POST /auth/biometrics/register                                          *)

BeginRegister(r, u) ==
    /\ status[u] # "DELETED"
    /\ Begin(r, [Idle EXCEPT !.kind = "register", !.step = "pin", !.user = u])
    /\ UNCHANGED <<clock, status, credential, issued, logins>>

\* assertSensitivePin
CheckPin(r) ==
    /\ At(r, "register", "pin")
    /\ \/ status[req[r].user] # "DELETED" /\ Goto(r, "find")
       \/ Done(r)
    /\ UNCHANGED <<clock, status, credential, issued, logins>>

FindDevice(r) ==
    /\ At(r, "register", "find")
    /\ \/ ~Registered /\ Goto(r, "create")
       \/ Registered /\ credential.owner = req[r].user /\ Goto(r, "rekey")
       \/ Registered /\ credential.owner # req[r].user /\ Done(r)
    /\ UNCHANGED <<clock, status, credential, issued, logins>>

Rekeyed(r) == [Cleared(credential) EXCEPT !.key = req[r].user, !.enabled = TRUE]

\* Mutant: an upsert in place of the create
CreatedOrUpdated(r) ==
    IF Registered THEN Rekeyed(r)
    ELSE [owner |-> req[r].user, key |-> req[r].user, enabled |-> TRUE,
          challenge |-> 0, expiresAt |-> 0]

\* The unique deviceId refuses the create when another request was first, the foreign key
\* when the account is gone.
Created(r) ==
    IF Registered \/ status[req[r].user] = "DELETED" THEN credential
    ELSE [owner |-> req[r].user, key |-> req[r].user, enabled |-> TRUE,
          challenge |-> 0, expiresAt |-> 0]

CreateCredential(r) ==
    /\ At(r, "register", "create")
    /\ credential' = Created(r)
    /\ Done(r)
    /\ UNCHANGED <<clock, status, issued, logins>>

UpdateKey(r) ==
    /\ At(r, "register", "rekey")
    /\ Update(Rekeyed(r))
    /\ Done(r)
    /\ UNCHANGED <<clock, status, issued, logins>>

-----------------------------------------------------------------------------
(* PATCH /auth/biometrics/:deviceId                                        *)

BeginSetting(r, u, enable) ==
    /\ status[u] # "DELETED"
    /\ Begin(r, [Idle EXCEPT !.kind = "setting", !.step = "find", !.user = u, !.enable = enable])
    /\ UNCHANGED <<clock, status, credential, issued, logins>>

FindOwnDevice(r) ==
    /\ At(r, "setting", "find")
    /\ IF Registered /\ credential.owner = req[r].user THEN Goto(r, "set") ELSE Done(r)
    /\ UNCHANGED <<clock, status, credential, issued, logins>>

UpdateSetting(r) ==
    /\ At(r, "setting", "set")
    /\ Update([Cleared(credential) EXCEPT !.enabled = req[r].enable])
    /\ Done(r)
    /\ UNCHANGED <<clock, status, issued, logins>>

-----------------------------------------------------------------------------
(* POST /auth/biometrics/challenge                                         *)

BeginChallenge(r) ==
    /\ Begin(r, [Idle EXCEPT !.kind = "challenge", !.step = "find"])
    /\ UNCHANGED <<clock, status, credential, issued, logins>>

\* findUnique, with the user's row: the device is enabled and its owner active
MayUseDevice == Registered /\ credential.enabled /\ status[credential.owner] = "ACTIVE"

FindEnabled(r) ==
    /\ At(r, "challenge", "find")
    /\ IF MayUseDevice THEN Goto(r, "issue") ELSE Done(r)
    /\ UNCHANGED <<clock, status, credential, issued, logins>>

IssueChallenge(r) ==
    /\ At(r, "challenge", "issue")
    /\ issued < MaxChallenges
    /\ issued' = issued + 1
    /\ Update([credential EXCEPT !.challenge = issued + 1, !.expiresAt = clock + ChallengeTtl])
    /\ Done(r)
    /\ UNCHANGED <<clock, status, logins>>

-----------------------------------------------------------------------------
(* POST /auth/biometrics/login                                             *)

\* A client sends a challenge it was given, the latest or an older one, signed with its key.
BeginLogin(r, c, signer) ==
    /\ c <= issued
    /\ Begin(r, [Idle EXCEPT !.kind = "login", !.step = "find",
                             !.challenge = c, !.signer = signer])
    /\ UNCHANGED <<clock, status, credential, issued, logins>>

\* Mutant: challengeExpiresAt is not compared with the time
ChallengeMatches(c) == credential.challenge = c

ChallengeOk(c) == credential.challenge = c /\ credential.expiresAt > clock

CheckLogin(r) ==
    /\ At(r, "login", "find")
    /\ IF MayUseDevice /\ ChallengeOk(req[r].challenge) /\ credential.key = req[r].signer
       THEN req' = [req EXCEPT ![r].step = "clear", ![r].user = credential.owner]
       ELSE Done(r)
    /\ UNCHANGED <<clock, status, credential, issued, logins>>

ClearChallenge(r) ==
    /\ At(r, "login", "clear")
    /\ Update(Cleared(credential))
    /\ Goto(r, "session")
    /\ UNCHANGED <<clock, status, issued, logins>>

\* createSession of the owner that was read; the foreign key wants the account
OpenSession(r) ==
    /\ At(r, "login", "session")
    /\ status[req[r].user] # "DELETED"
    /\ logins' = [logins EXCEPT ![req[r].challenge] = @ + 1]
    /\ Done(r)
    /\ UNCHANGED <<clock, status, credential, issued>>

-----------------------------------------------------------------------------
\* The await throws: a row that is not there, a database error, a restart.
Abort(r) ==
    /\ req[r].step # "idle"
    /\ Done(r)
    /\ UNCHANGED <<clock, status, credential, issued, logins>>

\* suspendUser, activateUser, updateUser of src/admin/admin.service.ts
SetStatus(u, new) ==
    /\ status[u] # "DELETED" /\ status[u] # new
    /\ status' = [status EXCEPT ![u] = new]
    /\ UNCHANGED <<clock, credential, issued, req, logins>>

\* deleteUser, and its cascade
DeleteUser(u) ==
    /\ status[u] # "DELETED"
    /\ status' = [status EXCEPT ![u] = "DELETED"]
    /\ credential' = IF Registered /\ credential.owner = u THEN Null ELSE credential
    /\ UNCHANGED <<clock, issued, req, logins>>

Tick ==
    /\ clock < MaxTime
    /\ clock' = clock + 1
    /\ UNCHANGED <<status, credential, issued, req, logins>>

\* The login r asks for is in order now.
InOrder(r) ==
    /\ req[r].kind = "login"
    /\ Registered /\ credential.enabled /\ status[credential.owner] = "ACTIVE"
    /\ credential.challenge = req[r].challenge /\ credential.expiresAt > clock
    /\ credential.key = req[r].signer
    /\ req[r].user \in {Null, credential.owner}

Observe ==
    entitled' = {r \in Requests : req'[r].kind = "login" /\ (r \in entitled \/ InOrder(r)')}

Next ==
    /\ \/ \E r \in Requests :
             \/ \E u \in Users : BeginRegister(r, u)
             \/ CheckPin(r)
             \/ FindDevice(r)
             \/ CreateCredential(r)
             \/ UpdateKey(r)
             \/ \E u \in Users, enable \in BOOLEAN : BeginSetting(r, u, enable)
             \/ FindOwnDevice(r)
             \/ UpdateSetting(r)
             \/ BeginChallenge(r)
             \/ FindEnabled(r)
             \/ IssueChallenge(r)
             \/ \E c \in Challenges, u \in Users : BeginLogin(r, c, u)
             \/ CheckLogin(r)
             \/ ClearChallenge(r)
             \/ OpenSession(r)
             \/ Abort(r)
       \/ \E u \in Users, new \in {"ACTIVE", "DISABLED"} : SetStatus(u, new)
       \/ \E u \in Users : DeleteUser(u)
       \/ Tick
    /\ Observe

Spec == Init /\ [][Next]_vars

-----------------------------------------------------------------------------
\* loginWithBiometric opens a session only for a login that was in order at one instant of
\* its run: its challenge the device's current one, unexpired and signed with the device's
\* key, the device enabled and its owner active.  So a challenge that was used, replaced or
\* withdrawn before the request came opens nothing, although it is checked and cleared in
\* two awaits.
LoginWasInOrder ==
    \A r \in Requests :
        At(r, "login", "clear") \/ At(r, "login", "session") => r \in entitled

\* One challenge opens at most as many sessions as requests overlap: each must have read it
\* before the first of them cleared it.
LoginsPerChallengeBounded ==
    \A c \in Challenges :
        logins[c] + Cardinality({r \in Requests :
                        /\ At(r, "login", "clear") \/ At(r, "login", "session")
                        /\ req[r].challenge = c}) <= Cardinality(Requests)

\* registerBiometric refuses a device of another account, and two accounts that register it at
\* once cannot both succeed: as long as no account is deleted, the key of a device is the one
\* its owner registered.  (A deletion frees the deviceId between the check and the update.)
KeyIsTheOwners ==
    (Registered /\ \A u \in Users : status[u] # "DELETED")
        => credential.key = credential.owner
=============================================================================
