--------------------------- MODULE SessionsProofs ---------------------------
(***************************************************************************)
(* Theorems about Sessions and SessionHistory, for every number of users,  *)
(* requests and sessions and every policy: revocation is final and mass    *)
(* revocation complete, the times of a row stay together, a shortened      *)
(* limit applies, and every request has an instant that justifies what it  *)
(* is granted.                                                             *)
(***************************************************************************)
EXTENDS SessionHistory, FiniteSetTheorems, TLAPS

\* A handler of login knows the row of its user until the session is written.
LoginNamesUser ==
    \A r \in Requests :
        req[r].kind = "login" => req[r].user \in Users \/ At(r, "sign")

TypeInv == TypeOK /\ LoginNamesUser

\* What a handler keeps for the signing step is a request.
LEMMA ToSignType ==
    ASSUME SessionAssumption, NEW q \in Request, NEW s \in SessionIds
    PROVE  ToSign(q, s) \in Request
  BY DEF ToSign, Idle, Request, Kinds, Steps

\* The rows createSession and refresh write are rows of the table.
LEMMA WrittenRowType ==
    ASSUME SessionAssumption, NEW q \in Request
    PROVE  /\ q.user \in Users => NewSession(q) \in SessionRow
           /\ \A row \in SessionRow : Touched(row, q) \in SessionRow
<1>1. q.now \in Nat /\ q.now + q.inactivityTtl \in Nat
  BY DEF Request
<1> QED
  BY <1>1 DEF NewSession, Touched, SessionRow

\* Revoking a row of the table gives a row, and leaves a missing one missing.
LEMMA RevokedType ==
    ASSUME TypeOK, NEW s \in SessionIds
    PROVE  Revoked(sessions[s]) \in SessionRow \cup {Null}
  BY DEF TypeOK, Revoked, SessionRow

\* Each step of a handler keeps the types of what it reads into its locals and writes.
LEMMA HandlerTypes ==
    ASSUME TypeOK, LoginNamesUser, NEW r \in Requests, Handlers(r)
    PROVE  TypeOK'
<1> USE SessionAssumption DEF TypeOK
<1>q. req[r] \in Request
  OBVIOUS
<1>i. Idle \in Request
  BY DEF Idle, Request, Kinds, Steps
<1>ref. ASSUME Refuse(r) PROVE req' \in [Requests -> Request]
  BY <1>ref, <1>i DEF Refuse
<1>1. ASSUME NEW u \in Users, NEW p \in Passwords, BeginLogin(r, u, p) PROVE TypeOK'
  BY <1>1, <1>i DEF BeginLogin, Idle, Request, Kinds, Steps
<1>2. CASE FindUser(r)
  BY <1>2, <1>q, <1>ref DEF FindUser, Request, Steps
<1>3. CASE StampSession(r)
  BY <1>3, <1>q DEF StampSession, Request, Steps
<1>4. CASE ReadPolicy(r)
  BY <1>4, <1>q DEF ReadPolicy, Request, Steps
<1>5. CASE CreateSession(r)
  <2>1. CASE users[req[r].user].status # "DELETED" /\ created' = created + 1
             /\ sessions' = [sessions EXCEPT ![created + 1] = NewSession(req[r])]
             /\ req' = [req EXCEPT ![r] = ToSign(req[r], created + 1)]
    <3>1. created + 1 \in SessionIds
      BY <1>5 DEF CreateSession, SessionIds
    <3>2. ToSign(req[r], created + 1) \in Request
      BY <3>1, <1>q, ToSignType
    <3>3. req[r].user \in Users
      BY <1>5 DEF CreateSession, LoginNamesUser, At
    <3>4. NewSession(req[r]) \in SessionRow
      BY <1>q, <3>3, WrittenRowType
    <3>5. created' \in 0 .. MaxSessions
      BY <2>1, <1>5 DEF CreateSession
    <3> QED
      BY <2>1, <1>5, <3>2, <3>4, <3>5 DEF CreateSession
  <2>2. CASE Refuse(r) /\ UNCHANGED <<sessions, created>>
    BY <2>2, <1>5, <1>ref DEF CreateSession
  <2> QED
    BY <1>5, <2>1, <2>2 DEF CreateSession
<1>6. CASE SignAccessToken(r)
  <2>1. clock + req[r].accessTtl \in Nat
    BY <1>q DEF Request
  <2> QED
    BY <1>6, <1>i, <2>1 DEF SignAccessToken, Later
<1>7. ASSUME NEW kind \in {"refresh", "unlock"}, NEW s \in SessionIds, BeginRefresh(r, kind, s)
      PROVE  TypeOK'
  BY <1>7, <1>i DEF BeginRefresh, Idle, Request, Kinds, Steps
<1>8. CASE ScanSessions(r)
  <2> DEFINE s == req[r].sess
             found == [req EXCEPT ![r].step = "pin", ![r].user = sessions[s].user,
                                  ![r].active = (users[sessions[s].user].status = "ACTIVE"),
                                  ![r].lastUsedAt = sessions[s].lastUsedAt]
  <2>1. CASE s \in Scanned(req[r].now) /\ req' = found
    <3>1. s \in SessionIds /\ sessions[s] \in SessionRow
      BY <2>1 DEF Scanned, Live, Unrevoked, Exists
    <3>2. found \in [Requests -> Request]
      BY <3>1, <1>q DEF SessionRow, Request, Steps
    <3> QED
      BY <2>1, <3>2, <1>8 DEF ScanSessions
  <2>2. CASE Refuse(r)
    BY <2>2, <1>8, <1>ref DEF ScanSessions
  <2> QED
    BY <1>8, <2>1, <2>2 DEF ScanSessions
<1>9. CASE CheckPin(r)
  <2>1. AfterPin(req[r]) \in Request
    BY <1>q, <1>i DEF AfterPin, Request, Steps
  <2> QED
    BY <1>9, <2>1, <1>ref DEF CheckPin
<1>10. CASE AssertSessionStillActive(r)
  BY <1>10, <1>q, <1>ref DEF AssertSessionStillActive, Request, Steps
<1>11. CASE UpdateSession(r)
  <2> DEFINE s == req[r].sess
  <2>1. CASE Exists(s) /\ sessions' = [sessions EXCEPT ![s] = Touched(@, req[r])]
             /\ req' = [req EXCEPT ![r] = ToSign(req[r], s)]
    <3>1. sessions[s] \in SessionRow
      BY <2>1 DEF Exists
    <3>2. Touched(sessions[s], req[r]) \in SessionRow
      BY <3>1, <1>q, WrittenRowType
    <3>3. ToSign(req[r], s) \in Request
      BY <2>1, <1>q, ToSignType DEF Exists
    <3> QED
      BY <2>1, <3>2, <3>3, <1>11 DEF UpdateSession
  <2>2. CASE Refuse(r) /\ UNCHANGED sessions
    BY <2>2, <1>11, <1>ref DEF UpdateSession
  <2> QED
    BY <1>11, <2>1, <2>2 DEF UpdateSession
<1>12. ASSUME NEW kind \in {"logout", "call"}, NEW s \in SessionIds, BeginCall(r, kind, s)
       PROVE  TypeOK'
  BY <1>12, <1>i DEF BeginCall, Idle, Request, Kinds, Steps
<1>13. CASE GuardRead(r)
  <2>1. CASE GuardAdmits(req[r])
             /\ req' = [req EXCEPT ![r].step = "guardPolicy",
                                   ![r].lastUsedAt = sessions[req[r].sess].lastUsedAt]
    <3>1. sessions[req[r].sess] \in SessionRow
      BY <2>1 DEF GuardAdmits, Live, Unrevoked, Exists
    <3> QED
      BY <2>1, <3>1, <1>13, <1>q DEF GuardRead, SessionRow, Request, Steps
  <2>2. CASE Refuse(r)
    BY <2>2, <1>13, <1>ref DEF GuardRead
  <2> QED
    BY <1>13, <2>1, <2>2 DEF GuardRead
<1>14. CASE GuardPolicy(r)
  BY <1>14, <1>q, <1>ref DEF GuardPolicy, Request, Steps
<1>15. CASE Logout(r)
  <2>1. \A s \in SessionIds : Revoked(sessions[s]) \in SessionRow \cup {Null}
    BY RevokedType
  <2> QED
    BY <1>15, <1>i, <2>1 DEF Logout
<1>16. CASE OtherHandler(r)
  BY <1>16, <1>i DEF OtherHandler
<1> QED
  BY <1>1, <1>2, <1>3, <1>4, <1>5, <1>6, <1>7, <1>8, <1>9, <1>10, <1>11, <1>12, <1>13, <1>14,
     <1>15, <1>16 DEF Handlers

\* No handler of login loses its user before it has written the session.
LEMMA HandlerKeepsLoginUser ==
    ASSUME TypeOK, LoginNamesUser, NEW r \in Requests, Handlers(r)
    PROVE  LoginNamesUser'
<1> USE DEF TypeOK, LoginNamesUser, At
<1>1. req[r] \in Request /\ Idle \in Request
  BY SessionAssumption DEF Idle, Request, Kinds, Steps
<1>ref. ASSUME Refuse(r) PROVE LoginNamesUser'
  BY <1>ref DEF Refuse, Idle
<1>2. ASSUME NEW u \in Users, NEW p \in Passwords, BeginLogin(r, u, p) PROVE LoginNamesUser'
  BY <1>2, <1>1 DEF BeginLogin, Idle
<1>3. CASE FindUser(r)
  BY <1>3, <1>1, <1>ref DEF FindUser, Request
<1>4. CASE StampSession(r)
  BY <1>4, <1>1 DEF StampSession, Request
<1>5. CASE ReadPolicy(r)
  BY <1>5, <1>1 DEF ReadPolicy, Request
<1>6. CASE CreateSession(r)
  <2>1. ToSign(req[r], created + 1).step = "sign"
    BY DEF ToSign, Idle
  <2> QED
    BY <2>1, <1>6, <1>1, <1>ref DEF CreateSession
<1>7. CASE SignAccessToken(r)
  BY <1>7, <1>1 DEF SignAccessToken, Idle
<1>8. ASSUME NEW kind \in {"refresh", "unlock"}, NEW s \in SessionIds, BeginRefresh(r, kind, s)
      PROVE  LoginNamesUser'
  BY <1>8, <1>1 DEF BeginRefresh, Idle
<1>9. CASE ScanSessions(r)
  <2>1. CASE Refuse(r)
    BY <2>1, <1>ref
  <2>2. CASE req[r].sess \in Scanned(req[r].now)
    <3>1. sessions[req[r].sess].user \in Users
      BY <2>2 DEF Scanned, Live, Unrevoked, Exists, SessionRow
    <3> QED
      BY <3>1, <1>9, <1>1, <2>1 DEF ScanSessions, Request
  <2> QED
    BY <2>1, <2>2, <1>9 DEF ScanSessions
<1>10. CASE CheckPin(r)
  <2> DEFINE q == req[r]
  <2>1. \/ AfterPin(q) = Idle
        \/ AfterPin(q) = [q EXCEPT !.step = "inactivity"]
        \/ AfterPin(q) = [q EXCEPT !.step = "inactivity", !.now = clock]
    BY DEF AfterPin
  <2>2. q.kind = "login" => q.user \in Users \/ q.step = "sign"
    OBVIOUS
  <2>3. AfterPin(q).kind = "login" => AfterPin(q).user \in Users
    <3>1. q.step = "pin" /\ q \in Request
      BY <1>1, <1>10 DEF CheckPin
    <3>2. CASE AfterPin(q) = Idle
      BY <3>2 DEF Idle
    <3>3. CASE AfterPin(q) = [q EXCEPT !.step = "inactivity"]
      BY <3>1, <3>3, <2>2 DEF Request
    <3>4. CASE AfterPin(q) = [q EXCEPT !.step = "inactivity", !.now = clock]
      BY <3>1, <3>4, <2>2 DEF Request
    <3> QED
      BY <2>1, <3>2, <3>3, <3>4
  <2> QED
    BY <2>3, <1>10, <1>1, <1>ref DEF CheckPin
<1>11. CASE AssertSessionStillActive(r)
  BY <1>11, <1>1, <1>ref DEF AssertSessionStillActive, Request
<1>12. CASE UpdateSession(r)
  <2>1. ToSign(req[r], req[r].sess).step = "sign"
    BY DEF ToSign, Idle
  <2> QED
    BY <2>1, <1>12, <1>1, <1>ref DEF UpdateSession
<1>13. ASSUME NEW kind \in {"logout", "call"}, NEW s \in SessionIds, BeginCall(r, kind, s)
       PROVE  LoginNamesUser'
  BY <1>13, <1>1 DEF BeginCall, Idle
<1>14. CASE GuardRead(r)
  BY <1>14, <1>1, <1>ref DEF GuardRead, Request
<1>15. CASE GuardPolicy(r)
  BY <1>15, <1>1, <1>ref DEF GuardPolicy, Request
<1>16. CASE Logout(r)
  BY <1>16, <1>1 DEF Logout, Idle
<1>17. CASE OtherHandler(r)
  BY <1>17, <1>1 DEF OtherHandler, Idle
<1> QED
  BY <1>2, <1>3, <1>4, <1>5, <1>6, <1>7, <1>8, <1>9, <1>10, <1>11, <1>12, <1>13, <1>14, <1>15,
     <1>16, <1>17 DEF Handlers

\* The operations on accounts, the policy and the clock keep the types too.
LEMMA EnvironmentTypes ==
    ASSUME TypeOK,
           \/ \E u \in Users, p \in Passwords : ConfirmPasswordReset(u, p)
           \/ \E u \in Users : SuspendUser(u)
           \/ \E u \in Users, status \in {"ACTIVE", "DISABLED"} : SetStatus(u, status)
           \/ Environment
    PROVE  TypeOK' /\ UNCHANGED req
<1> USE SessionAssumption DEF TypeOK, UserRow
<1>1. ASSUME NEW u \in Users PROVE RevokedSessions(u) \in [SessionIds -> SessionRow \cup {Null}]
  BY RevokedType DEF RevokedSessions
<1>2. ASSUME NEW u \in Users, NEW p \in Passwords, ConfirmPasswordReset(u, p)
      PROVE  TypeOK' /\ UNCHANGED req
  BY <1>1, <1>2 DEF ConfirmPasswordReset
<1>3. ASSUME NEW u \in Users, SuspendUser(u) PROVE TypeOK' /\ UNCHANGED req
  BY <1>1, <1>3 DEF SuspendUser
<1>4. ASSUME NEW u \in Users, NEW status \in {"ACTIVE", "DISABLED"}, SetStatus(u, status)
      PROVE  TypeOK' /\ UNCHANGED req
  BY <1>4 DEF SetStatus
<1>5. ASSUME NEW u \in Users, DeleteUser(u) PROVE TypeOK' /\ UNCHANGED req
  BY <1>5 DEF DeleteUser
<1>6. ASSUME NEW ttl \in AccessTtls, SetAccessTtl(ttl) PROVE TypeOK' /\ UNCHANGED req
  BY <1>6 DEF SetAccessTtl
<1>7. ASSUME NEW ttl \in InactivityTtls, SetInactivityTtl(ttl) PROVE TypeOK' /\ UNCHANGED req
  BY <1>7 DEF SetInactivityTtl
<1>8. CASE Tick
  BY <1>8 DEF Tick
<1> QED
  BY <1>2, <1>3, <1>4, <1>5, <1>6, <1>7, <1>8 DEF Environment

\* The inductive form of type correctness: initially, and preserved by every step.
LEMMA TypeInvInductive ==
    /\ Init => TypeInv
    /\ TypeInv /\ [Next]_vars => TypeInv'
<1>1. Init => TypeInv
  BY SessionAssumption DEF Init, TypeInv, TypeOK, LoginNamesUser, UserRow, Idle, Request, Kinds,
     Steps
<1>2. ASSUME TypeInv, [Next]_vars PROVE TypeInv'
  <2> USE <1>2 DEF TypeInv
  <2>1. ASSUME NEW r \in Requests, Handlers(r) PROVE TypeInv'
    BY <2>1, HandlerTypes, HandlerKeepsLoginUser
  <2>2. CASE \/ \E u \in Users, p \in Passwords : ConfirmPasswordReset(u, p)
             \/ \E u \in Users : SuspendUser(u)
             \/ \E u \in Users, status \in {"ACTIVE", "DISABLED"} : SetStatus(u, status)
             \/ Environment
    BY <2>2, EnvironmentTypes DEF LoginNamesUser, At
  <2>3. CASE UNCHANGED vars
    BY <2>3 DEF vars, TypeOK, LoginNamesUser, At
  <2> QED
    BY <2>1, <2>2, <2>3 DEF Next
<1> QED
  BY <1>1, <1>2

\* Type correctness: in every reachable state each variable holds a value of its type
\* (schema.prisma and the locals of the handlers).
THEOREM TypeCorrect == Spec => []TypeOK
  BY TypeInvInductive, PTL DEF Spec, TypeInv

-----------------------------------------------------------------------------
\* All the ways in which one step can change one row of the sessions table.
LEMMA SessionWrites ==
    ASSUME TypeInv, [Next]_vars, NEW s \in SessionIds
    PROVE  \/ sessions'[s] = sessions[s]
           \/ sessions'[s] = Null
           \/ sessions'[s] = Revoked(sessions[s])
           \/ /\ Exists(s)
              /\ \E r \in Requests :
                    At(r, "write") /\ sessions'[s] = Touched(sessions[s], req[r])
           \/ /\ s = created + 1 /\ created' = s
              /\ \E r \in Requests : At(r, "write") /\ sessions'[s] = NewSession(req[r])
<1> DEFINE Goal == \/ sessions'[s] = sessions[s]
                   \/ sessions'[s] = Null
                   \/ sessions'[s] = Revoked(sessions[s])
                   \/ /\ Exists(s)
                      /\ \E r \in Requests :
                            At(r, "write") /\ sessions'[s] = Touched(sessions[s], req[r])
                   \/ /\ s = created + 1 /\ created' = s
                      /\ \E r \in Requests : At(r, "write") /\ sessions'[s] = NewSession(req[r])
<1> USE DEF TypeInv, TypeOK
<1>1. ASSUME NEW r \in Requests, Handlers(r) PROVE Goal
  <2>1. CASE CreateSession(r)
    BY <2>1 DEF CreateSession
  <2>2. CASE UpdateSession(r)
    BY <2>2 DEF UpdateSession, Exists
  <2>3. CASE Logout(r)
    BY <2>3 DEF Logout
  <2>4. CASE UNCHANGED sessions
    BY <2>4
  <2> QED
    BY <1>1, <2>1, <2>2, <2>3, <2>4 DEF Handlers, BeginLogin, FindUser, StampSession, ReadPolicy,
       SignAccessToken, BeginRefresh, ScanSessions, CheckPin, AssertSessionStillActive, BeginCall,
       GuardRead, GuardPolicy, OtherHandler
<1>2. ASSUME NEW u \in Users, sessions' = RevokedSessions(u) PROVE Goal
  BY <1>2 DEF RevokedSessions
<1>3. ASSUME NEW u \in Users, DeleteUser(u) PROVE Goal
  BY <1>3 DEF DeleteUser
<1>4. CASE UNCHANGED sessions
  BY <1>4
<1> QED
  BY <1>1, <1>2, <1>3, <1>4 DEF Next, vars, ConfirmPasswordReset, SuspendUser, SetStatus,
     Environment, SetAccessTtl, SetInactivityTtl, Tick

\* Rows are created in order: past the newest there is none.
RowsInOrder == \A s \in SessionIds : s > created => sessions[s] = Null

LEMMA RowsInOrderInductive ==
    /\ Init => RowsInOrder
    /\ TypeInv /\ RowsInOrder /\ [Next]_vars => RowsInOrder'
<1>1. Init => RowsInOrder
  BY DEF Init, RowsInOrder
<1>2. ASSUME TypeInv, RowsInOrder, [Next]_vars, NEW s \in SessionIds, s > created'
      PROVE  sessions'[s] = Null
  <2> USE <1>2 DEF TypeInv, TypeOK, RowsInOrder
  <2>1. created' \in {created, created + 1}
    BY DEF Next, vars, Handlers, BeginLogin, FindUser, StampSession, ReadPolicy, CreateSession,
       SignAccessToken, BeginRefresh, ScanSessions, CheckPin, AssertSessionStillActive,
       UpdateSession, BeginCall, GuardRead, GuardPolicy, Logout, OtherHandler,
       ConfirmPasswordReset, SuspendUser, SetStatus, Environment, DeleteUser, SetAccessTtl,
       SetInactivityTtl, Tick
  <2>2. s > created /\ sessions[s] = Null
    BY <2>1, SessionAssumption DEF SessionIds
  <2>3. created' # s
    BY <2>1, SessionAssumption DEF SessionIds
  <2> QED
    BY <2>2, <2>3, SessionWrites DEF Exists, Revoked
<1> QED
  BY <1>1, <1>2 DEF RowsInOrder

\* A write never changes the revocation of a row that has been revoked.
LEMMA RevokedRowKept ==
    ASSUME TypeInv, RowsInOrder, [Next]_vars, NEW s \in SessionIds, Exists(s), ~Unrevoked(s)
    PROVE  sessions'[s] = Null \/ sessions'[s].revokedAt = sessions[s].revokedAt
<1> USE DEF TypeInv, TypeOK, Exists, Unrevoked
<1>1. sessions[s] \in SessionRow /\ sessions[s].revokedAt # Null
  OBVIOUS
<1>2. Revoked(sessions[s]) = sessions[s]
  BY <1>1 DEF Revoked
<1>3. \A q \in Request : Touched(sessions[s], q).revokedAt = sessions[s].revokedAt
  BY <1>1 DEF Touched, SessionRow
<1>4. s # created + 1
  BY SessionAssumption DEF RowsInOrder
<1> QED
  BY <1>2, <1>3, <1>4, SessionWrites

\* A revoked session is never brought back, whatever requests overlap with the revocation.
THEOREM RevocationHolds == Spec => RevocationIsFinal
<1>1. TypeInv /\ RowsInOrder /\ [Next]_vars =>
        [\A s \in SessionIds :
           (Exists(s) /\ ~Unrevoked(s)) =>
              \/ sessions'[s] = Null
              \/ sessions'[s].revokedAt = sessions[s].revokedAt]_vars
  BY RevokedRowKept
<1> QED
  BY <1>1, TypeInvInductive, RowsInOrderInductive, PTL DEF Spec, RevocationIsFinal

-----------------------------------------------------------------------------
(* The refinement.                                                         *)

\* What the register shows of a session.
OwnerOf(s) == IF Exists(s) THEN sessions[s].user ELSE Null

Gone == {u \in Users : users[u].status = "DELETED"}

\* The register sees of a row its user and whether it is revoked.
LEMMA ShownOfRow ==
    ASSUME NEW s \in SessionIds, created' = created,
           \/ sessions'[s] = sessions[s]
           \/ /\ sessions[s] # Null /\ sessions'[s] # Null
              /\ sessions'[s].user = sessions[s].user
              /\ sessions'[s].revokedAt = Null <=> sessions[s].revokedAt = Null
    PROVE  StateOf(s)' = StateOf(s) /\ OwnerOf(s)' = OwnerOf(s)
  BY DEF StateOf, OwnerOf, Exists, Unrevoked

\* A revoked row shows as ended and keeps its owner.
LEMMA ShownOfRevoked ==
    ASSUME TypeInv, NEW s \in SessionIds, created' = created, sessions'[s] = Revoked(sessions[s])
    PROVE  /\ StateOf(s)' = IF StateOf(s) = "open" THEN "ended" ELSE StateOf(s)
           /\ OwnerOf(s)' = OwnerOf(s)
<1> USE SessionAssumption DEF TypeInv, TypeOK
<1>1. CASE Unrevoked(s)
  <2>1. /\ sessions[s] \in SessionRow /\ sessions'[s] = [sessions[s] EXCEPT !.revokedAt = clock]
    BY <1>1 DEF Revoked, Unrevoked, Exists
  <2>2. sessions'[s] \in SessionRow /\ sessions'[s].revokedAt # Null
        /\ sessions'[s].user = sessions[s].user
    BY <2>1 DEF SessionRow
  <2>3. sessions'[s] # Null
    BY <2>2, NullIsNoRow
  <2> QED
    BY <1>1, <2>2, <2>3 DEF StateOf, OwnerOf, Exists, Unrevoked
<1>2. CASE ~Unrevoked(s)
  <2>1. sessions'[s] = sessions[s]
    BY <1>2 DEF Revoked, Unrevoked, Exists
  <2>2. StateOf(s) # "open"
    BY <1>2 DEF StateOf
  <2> QED
    BY <2>1, <2>2, ShownOfRow
<1> QED
  BY <1>1, <1>2

\* Many rows are revoked by one write: the register ends all the open sessions of the account.
LEMMA EndsAll ==
    ASSUME TypeInv, NEW u \in Users, sessions' = RevokedSessions(u), created' = created,
           Gone' = Gone
    PROVE  Register!EndAll(u)
<1>1. ASSUME NEW s \in SessionIds
      PROVE  /\ StateOf(s)' = IF OwnerOf(s) = u /\ StateOf(s) = "open" THEN "ended" ELSE StateOf(s)
             /\ OwnerOf(s)' = OwnerOf(s)
  <2>1. CASE OwnerOf(s) = u
    <3>1. sessions'[s] = Revoked(sessions[s])
      BY <2>1, SessionAssumption DEF OwnerOf, Exists, RevokedSessions
    <3> QED
      BY <2>1, <3>1, ShownOfRevoked
  <2>2. CASE OwnerOf(s) # u
    <3>1. sessions'[s] = sessions[s]
      BY <2>2 DEF OwnerOf, Exists, RevokedSessions
    <3> QED
      BY <2>2, <3>1, ShownOfRow
  <2> QED
    BY <2>1, <2>2
<1> QED
  BY <1>1 DEF Register!EndAll, OwnerOf, Gone

\* Removing an account removes its sessions from the register.
LEMMA Removes ==
    ASSUME TypeInv, RowsInOrder, NEW u \in Users, DeleteUser(u)
    PROVE  Register!Remove(u)
<1> USE DEF TypeInv, TypeOK
<1>1. ASSUME NEW s \in SessionIds
      PROVE  /\ StateOf(s)' = IF OwnerOf(s) = u THEN "removed" ELSE StateOf(s)
             /\ OwnerOf(s)' = IF OwnerOf(s) = u THEN Null ELSE OwnerOf(s)
  <2>1. CASE OwnerOf(s) = u
    <3>1. sessions'[s] = Null /\ s <= created /\ created' = created
      BY <2>1, SessionAssumption DEF OwnerOf, Exists, DeleteUser, RowsInOrder, SessionIds
    <3> QED
      BY <2>1, <3>1 DEF OwnerOf, StateOf, Exists, Unrevoked
  <2>2. CASE OwnerOf(s) # u
    <3>1. sessions'[s] = sessions[s] /\ created' = created
      BY <2>2 DEF OwnerOf, Exists, DeleteUser
    <3> QED
      BY <2>2, <3>1, ShownOfRow
  <2> QED
    BY <2>1, <2>2
<1>2. Gone' = Gone \cup {u}
  BY DEF DeleteUser, Gone, UserRow
<1> QED
  BY <1>1, <1>2 DEF Register!Remove, OwnerOf, Gone

\* createSession opens the next session of the register.
LEMMA Opens ==
    ASSUME TypeInv, RowsInOrder, NEW r \in Requests, CreateSession(r), created' = created + 1
    PROVE  \E s \in SessionIds, u \in Users : Register!Open(s, u)
<1> USE SessionAssumption DEF TypeInv, TypeOK
<1>1. PICK n \in SessionIds, u \in Users :
         /\ n = created + 1 /\ u = req[r].user /\ u \notin Gone
         /\ UNCHANGED users
         /\ sessions' = [sessions EXCEPT ![n] = NewSession(req[r])] /\ sessions[n] = Null
  <2>1. created + 1 \in SessionIds /\ created + 1 > created /\ created' # created
    BY DEF CreateSession, SessionIds
  <2>2. /\ req[r].user \in Users /\ users[req[r].user].status # "DELETED" /\ UNCHANGED users
        /\ sessions' = [sessions EXCEPT ![created + 1] = NewSession(req[r])]
    BY <2>1 DEF CreateSession, LoginNamesUser, At
  <2>3. sessions[created + 1] = Null
    BY <2>1 DEF RowsInOrder
  <2> QED
    BY <2>1, <2>2, <2>3 DEF Gone
<1> DEFINE row == NewSession(req[r])
<1>2. row \in SessionRow /\ row.user = u /\ row.revokedAt = Null
  BY <1>1, WrittenRowType DEF NewSession
<1>3. row # Null
  BY <1>2, NullIsNoRow
<1> HIDE DEF row
<1>4. sessions'[n] = row /\ created' = n /\ ~(n <= created)
  BY <1>1 DEF SessionIds, row
<1>5. StateOf(n) = "none" /\ StateOf(n)' = "open" /\ OwnerOf(n)' = u
  BY <1>1, <1>2, <1>3, <1>4 DEF StateOf, OwnerOf, Exists, Unrevoked
<1>6. ASSUME NEW t \in SessionIds, t # n
      PROVE  /\ StateOf(t)' = StateOf(t) /\ OwnerOf(t)' = OwnerOf(t)
             /\ t < n => StateOf(t) # "none"
  <2>1. sessions'[t] = sessions[t] /\ (t <= created' <=> t <= created)
    BY <1>1, <1>6 DEF SessionIds
  <2>2. t < n => t <= created
    BY <1>1 DEF SessionIds
  <2> QED
    BY <2>1, <2>2 DEF StateOf, OwnerOf, Exists, Unrevoked
<1>7. Gone' = Gone
  BY <1>1 DEF Gone
<1>8. \A t \in SessionIds : t < n => t # n
  BY DEF SessionIds
<1>9. Register!Open(n, u)
  <2>1. \A t \in SessionIds : t < n => StateOf(t) # "none"
    BY <1>6, <1>8
  <2>2. /\ [s \in SessionIds |-> StateOf(s)'] =
              [[s \in SessionIds |-> StateOf(s)] EXCEPT ![n] = "open"]
        /\ [s \in SessionIds |-> OwnerOf(s)'] =
              [[s \in SessionIds |-> OwnerOf(s)] EXCEPT ![n] = u]
    BY <1>5, <1>6
  <2> QED
    BY <1>1, <1>5, <1>7, <2>1, <2>2 DEF Register!Open, OwnerOf, Gone
<1> QED
  BY <1>9

\* Every other step of a handler leaves the register as it is, or ends one session of it.
LEMMA HandlersShow ==
    ASSUME TypeInv, NEW r \in Requests, Handlers(r), created' = created
    PROVE  \/ \A s \in SessionIds : StateOf(s)' = StateOf(s) /\ OwnerOf(s)' = OwnerOf(s)
           \/ \E s \in SessionIds :
                    /\ StateOf(s) = "open" /\ StateOf(s)' = "ended" /\ OwnerOf(s)' = OwnerOf(s)
                    /\ \A t \in SessionIds \ {s} :
                          StateOf(t)' = StateOf(t) /\ OwnerOf(t)' = OwnerOf(t)
<1> DEFINE Same(s) == StateOf(s)' = StateOf(s) /\ OwnerOf(s)' = OwnerOf(s)
           Goal == \/ \A s \in SessionIds : Same(s)
                   \/ \E s \in SessionIds :
                         /\ StateOf(s) = "open" /\ StateOf(s)' = "ended"
                         /\ OwnerOf(s)' = OwnerOf(s)
                         /\ \A t \in SessionIds \ {s} : Same(t)
<1> USE DEF TypeInv, TypeOK
<1>1. CASE UpdateSession(r) /\ Exists(req[r].sess)
  <2>1. PICK s \in SessionIds : s = req[r].sess /\ sessions[s] \in SessionRow
    BY <1>1 DEF Exists
  <2> DEFINE row == Touched(sessions[s], req[r])
  <2>2. row \in SessionRow /\ row.user = sessions[s].user /\ row.revokedAt = sessions[s].revokedAt
    BY <2>1, WrittenRowType, SessionAssumption DEF Touched, SessionRow
  <2>3. row # Null /\ sessions[s] # Null
    BY <2>1, <2>2, NullIsNoRow
  <2>4. sessions' = [sessions EXCEPT ![s] = row]
    BY <1>1, <2>1 DEF UpdateSession, Exists
  <2> HIDE DEF row
  <2>5. Same(s)
    BY <2>1, <2>2, <2>3, <2>4, ShownOfRow
  <2>6. \A t \in SessionIds \ {s} : Same(t)
    BY <2>4, ShownOfRow
  <2> QED
    BY <2>5, <2>6
<1>2. CASE Logout(r)
  <2>1. sessions' = [sessions EXCEPT ![req[r].sess] = Revoked(sessions[req[r].sess])]
    BY <1>2 DEF Logout
  <2>2. CASE req[r].sess \notin SessionIds
    BY <2>1, <2>2, ShownOfRow
  <2>3. ASSUME NEW s \in SessionIds, s = req[r].sess
        PROVE  Goal
    <3>1. sessions'[s] = Revoked(sessions[s])
      BY <2>1, <2>3
    <3>2. \A t \in SessionIds \ {s} : Same(t)
      BY <2>1, <2>3, ShownOfRow
    <3> QED
      BY <3>1, <3>2, ShownOfRevoked
  <2> QED
    BY <2>2, <2>3
<1>3. CASE UNCHANGED sessions
  BY <1>3, ShownOfRow
<1>4. CASE CreateSession(r)
  BY <1>3, <1>4 DEF CreateSession
<1>5. CASE UpdateSession(r) /\ ~Exists(req[r].sess)
  BY <1>3, <1>5 DEF UpdateSession
<1> QED
  BY <1>1, <1>2, <1>3, <1>4, <1>5 DEF Handlers, BeginLogin, FindUser, StampSession, ReadPolicy,
     SignAccessToken, BeginRefresh, ScanSessions, CheckPin, AssertSessionStillActive, BeginCall,
     GuardRead, GuardPolicy, OtherHandler

\* The sessions table, with all that happens to it, is the register of SessionRegister.
THEOREM SessionsImplementRegister == Spec => ImplementsRegister
<1>1. Init => Register!RegisterInit
  <2> SUFFICES ASSUME Init PROVE Register!RegisterInit
    OBVIOUS
  <2>1. \A s \in SessionIds : StateOf(s) = "none" /\ OwnerOf(s) = Null
    BY SessionAssumption DEF Init, StateOf, OwnerOf, Exists, Unrevoked, SessionIds
  <2>2. Gone = {}
    BY DEF Init, Gone
  <2> QED
    BY <2>1, <2>2 DEF Register!RegisterInit, OwnerOf, Gone
<1>2. ASSUME TypeInv, RowsInOrder, [Next]_vars PROVE [Register!RegisterNext]_(Register!rvars)
  <2> USE <1>2
  <2>1. ASSUME \A s \in SessionIds : StateOf(s)' = StateOf(s) /\ OwnerOf(s)' = OwnerOf(s),
               Gone' = Gone
        PROVE  UNCHANGED Register!rvars
    BY <2>1 DEF Register!rvars, OwnerOf, Gone
  <2>2. ASSUME UNCHANGED <<users, sessions, created>>
        PROVE  UNCHANGED Register!rvars
    BY <2>1, <2>2, ShownOfRow DEF Gone
  <2>3. ASSUME NEW r \in Requests, Handlers(r) PROVE [Register!RegisterNext]_(Register!rvars)
    <3>1. UNCHANGED users /\ (created' = created \/ (CreateSession(r) /\ created' = created + 1))
      BY <2>3 DEF Handlers, BeginLogin, FindUser, StampSession, ReadPolicy, CreateSession,
         SignAccessToken, BeginRefresh, ScanSessions, CheckPin, AssertSessionStillActive,
         UpdateSession, BeginCall, GuardRead, GuardPolicy, Logout, OtherHandler
    <3>2. CASE CreateSession(r) /\ created' = created + 1
      BY <3>2, Opens DEF Register!RegisterNext
    <3>3. ASSUME NEW s \in SessionIds,
                 StateOf(s) = "open", StateOf(s)' = "ended", OwnerOf(s)' = OwnerOf(s),
                 \A t \in SessionIds \ {s} : StateOf(t)' = StateOf(t) /\ OwnerOf(t)' = OwnerOf(t)
          PROVE  Register!End(s)
      BY <3>1, <3>3 DEF Register!End, OwnerOf, Gone
    <3>4. CASE created' = created
      BY <2>1, <2>3, <3>1, <3>3, <3>4, HandlersShow DEF Gone, Register!RegisterNext
    <3> QED
      BY <3>1, <3>2, <3>4
  <2>4. ASSUME NEW u \in Users, NEW p \in Passwords, ConfirmPasswordReset(u, p)
        PROVE  Register!EndAll(u)
    <3>1. Gone' = Gone
      BY <2>4 DEF ConfirmPasswordReset, Gone, TypeInv, TypeOK, UserRow
    <3> QED
      BY <2>4, <3>1, EndsAll DEF ConfirmPasswordReset
  <2>5. ASSUME NEW u \in Users, SuspendUser(u)
        PROVE  Register!EndAll(u)
    <3>1. Gone' = Gone
      BY <2>5 DEF SuspendUser, Gone, TypeInv, TypeOK, UserRow
    <3> QED
      BY <2>5, <3>1, EndsAll DEF SuspendUser
  <2>6. ASSUME NEW u \in Users, NEW status \in {"ACTIVE", "DISABLED"}, SetStatus(u, status)
        PROVE  UNCHANGED Register!rvars
    <3>1. Gone' = Gone
      BY <2>6 DEF SetStatus, Gone, TypeInv, TypeOK, UserRow
    <3> QED
      BY <2>1, <2>6, <3>1, ShownOfRow DEF SetStatus
  <2>7. CASE Environment
    BY <2>2, <2>7, Removes DEF Environment, SetAccessTtl, SetInactivityTtl, Tick,
       Register!RegisterNext
  <2>8. CASE UNCHANGED vars
    BY <2>2, <2>8 DEF vars
  <2> QED
    BY <2>3, <2>4, <2>5, <2>6, <2>7, <2>8 DEF Next, Register!RegisterNext
<1> QED
  BY <1>1, <1>2, TypeInvInductive, RowsInOrderInductive, PTL DEF Spec, ImplementsRegister,
     Register!RegisterSpec

-----------------------------------------------------------------------------
(* What the register promises, whoever implements it.                      *)

\* Every step of the register keeps the sessions with accounts that are there, and lets none
\* come back or change hands.
LEMMA RegisterStep ==
    ASSUME Null \notin Users, Register!NoOrphans, [Register!RegisterNext]_(Register!rvars)
    PROVE  Register!NoOrphans' /\ Register!KeepsTheEnded
<1> USE DEF Register!NoOrphans, Register!KeepsTheEnded
<1>1. ASSUME NEW s \in SessionIds, Register!End(s)
      PROVE  Register!NoOrphans' /\ Register!KeepsTheEnded
  BY <1>1 DEF Register!End
<1>2. ASSUME NEW s \in SessionIds, NEW u \in Users, Register!Open(s, u)
      PROVE  Register!NoOrphans' /\ Register!KeepsTheEnded
  BY <1>2 DEF Register!Open
<1>3. ASSUME NEW u \in Users, Register!EndAll(u)
      PROVE  Register!NoOrphans' /\ Register!KeepsTheEnded
  BY <1>3 DEF Register!EndAll
<1>4. ASSUME NEW u \in Users, Register!Remove(u)
      PROVE  Register!NoOrphans' /\ Register!KeepsTheEnded
  BY <1>4 DEF Register!Remove
<1>5. CASE UNCHANGED Register!rvars
  BY <1>5 DEF Register!rvars
<1> QED
  BY <1>1, <1>2, <1>3, <1>4, <1>5 DEF Register!RegisterNext

LEMMA RegisterKeepsPromise ==
    Register!RegisterSpec => []Register!NoOrphans /\ Register!EndIsFinal
<1>1. Register!RegisterInit => Register!NoOrphans
  BY DEF Register!RegisterInit, Register!NoOrphans
<1>2. Register!NoOrphans /\ [Register!RegisterNext]_(Register!rvars)
        => Register!NoOrphans' /\ [Register!KeepsTheEnded]_(Register!rvars)
  BY RegisterStep, SessionAssumption
<1> QED
  BY <1>1, <1>2, PTL DEF Register!RegisterSpec, Register!EndIsFinal

\* No login, refresh or unlock that overlaps with a deletion leaves a session without its user,
\* and whatever overlaps with the end of a session does not bring it back.
THEOREM SessionsKeepPromise == Spec => []Register!NoOrphans /\ Register!EndIsFinal
  BY SessionsImplementRegister, RegisterKeepsPromise, PTL DEF ImplementsRegister

-----------------------------------------------------------------------------
\* The locals of a handler: the time it took is not in the future, and the limit it is about
\* to write is one the policy had.
LocalsCoherent ==
    \A r \in Requests :
        /\ req[r].now <= clock
        /\ At(r, "write") => req[r].inactivityTtl \in InactivityTtls

\* The steps of a handler keep its locals coherent.
LEMMA HandlerLocals ==
    ASSUME TypeInv, LocalsCoherent, NEW r \in Requests, Handlers(r)
    PROVE  LocalsCoherent'
<1> USE SessionAssumption DEF TypeInv, TypeOK, LocalsCoherent, At
<1>1. req[r] \in Request /\ Idle.now = 0 /\ Idle.step = "idle"
  BY DEF Idle
<1>ref. ASSUME Refuse(r), UNCHANGED clock PROVE LocalsCoherent'
  BY <1>ref, <1>1 DEF Refuse
<1>sign. ASSUME NEW s \in Int, UNCHANGED clock, req' = [req EXCEPT ![r] = ToSign(req[r], s)]
         PROVE  LocalsCoherent'
  <2>1. ToSign(req[r], s).step = "sign" /\ ToSign(req[r], s).now = 0
    BY DEF ToSign, Idle
  <2> QED
    BY <1>sign, <2>1
<1>2. ASSUME NEW u \in Users, NEW p \in Passwords, BeginLogin(r, u, p) PROVE LocalsCoherent'
  BY <1>2, <1>1 DEF BeginLogin, Idle
<1>3. CASE FindUser(r)
  BY <1>3, <1>1, <1>ref DEF FindUser, Request
<1>4. CASE StampSession(r)
  BY <1>4, <1>1 DEF StampSession, Request
<1>5. CASE ReadPolicy(r)
  BY <1>5, <1>1 DEF ReadPolicy, Request
<1>6. CASE CreateSession(r)
  BY <1>6, <1>ref, <1>sign DEF CreateSession
<1>7. CASE SignAccessToken(r)
  BY <1>7, <1>1 DEF SignAccessToken
<1>8. ASSUME NEW kind \in {"refresh", "unlock"}, NEW s \in SessionIds, BeginRefresh(r, kind, s)
      PROVE  LocalsCoherent'
  BY <1>8, <1>1 DEF BeginRefresh, Idle
<1>9. CASE ScanSessions(r)
  BY <1>9, <1>1, <1>ref DEF ScanSessions, Request
<1>10. CASE CheckPin(r)
  <2>1. AfterPin(req[r]).now <= clock /\ AfterPin(req[r]).step # "write"
    BY <1>10, <1>1 DEF CheckPin, AfterPin, Request
  <2> QED
    BY <2>1, <1>10, <1>ref DEF CheckPin
<1>11. CASE AssertSessionStillActive(r)
  BY <1>11, <1>1, <1>ref DEF AssertSessionStillActive, Request
<1>12. CASE UpdateSession(r)
  BY <1>12, <1>1, <1>ref, <1>sign DEF UpdateSession, Request, SessionIds
<1>13. ASSUME NEW kind \in {"logout", "call"}, NEW s \in SessionIds, BeginCall(r, kind, s)
       PROVE  LocalsCoherent'
  BY <1>13, <1>1 DEF BeginCall, Idle
<1>14. CASE GuardRead(r)
  BY <1>14, <1>1, <1>ref DEF GuardRead, Request
<1>15. CASE GuardPolicy(r)
  BY <1>15, <1>1, <1>ref DEF GuardPolicy, Request
<1>16. CASE Logout(r)
  BY <1>16, <1>1 DEF Logout
<1>17. CASE OtherHandler(r)
  BY <1>17, <1>1 DEF OtherHandler
<1> QED
  BY <1>2, <1>3, <1>4, <1>5, <1>6, <1>7, <1>8, <1>9, <1>10, <1>11, <1>12, <1>13, <1>14, <1>15,
     <1>16, <1>17 DEF Handlers

UsageInv == TypeInv /\ LocalsCoherent /\ UsageTimesCoherent

\* The rows and the locals of the handlers keep their times in step.
LEMMA UsageInvInductive ==
    /\ Init => UsageInv
    /\ UsageInv /\ [Next]_vars => UsageInv'
<1>1. Init => UsageInv
  <2> SUFFICES ASSUME Init PROVE UsageInv
    OBVIOUS
  <2>1. Idle.now = 0 /\ Idle.step = "idle"
    BY DEF Idle
  <2>2. LocalsCoherent
    BY <2>1 DEF Init, LocalsCoherent, At
  <2>3. UsageTimesCoherent
    BY DEF Init, UsageTimesCoherent, Exists
  <2> QED
    BY <2>2, <2>3, TypeInvInductive DEF UsageInv
<1>2. ASSUME UsageInv, [Next]_vars PROVE UsageInv'
  <2> USE <1>2 DEF UsageInv, TypeInv, TypeOK
  <2>1. TypeInv'
    BY TypeInvInductive
  <2>2. clock' \in Nat /\ clock <= clock'
    <3>1. \A r \in Requests : Handlers(r) => UNCHANGED clock
      BY DEF Handlers, BeginLogin, FindUser, StampSession, ReadPolicy, CreateSession,
         SignAccessToken, BeginRefresh, ScanSessions, CheckPin, AssertSessionStillActive,
         UpdateSession, BeginCall, GuardRead, GuardPolicy, Logout, OtherHandler
    <3>2. clock' = clock \/ clock' = clock + 1
      BY <3>1 DEF Next, vars, ConfirmPasswordReset, SuspendUser, SetStatus, Environment,
         DeleteUser, SetAccessTtl, SetInactivityTtl, Tick
    <3> QED
      BY <3>2
  <2>3. LocalsCoherent'
    <3>1. ASSUME NEW r \in Requests, Handlers(r) PROVE LocalsCoherent'
      BY <3>1, HandlerLocals
    <3>2. CASE UNCHANGED req
      <4>1. \A r \in Requests : req[r].now \in Nat
        BY DEF Request
      <4> QED
        BY <3>2, <4>1, <2>2 DEF LocalsCoherent, At
    <3> QED
      BY <3>1, <3>2 DEF Next, vars, ConfirmPasswordReset, SuspendUser, SetStatus, Environment,
         DeleteUser, SetAccessTtl, SetInactivityTtl, Tick
  <2>4. ASSUME NEW s \in SessionIds, Exists(s)'
        PROVE  /\ sessions'[s].lastUsedAt <= clock'
               /\ sessions'[s].expiresAt - sessions'[s].lastUsedAt \in InactivityTtls
    <3>1. sessions'[s] # Null
      BY <2>4 DEF Exists
    <3>2. ASSUME Exists(s)
          PROVE  /\ sessions[s] \in SessionRow
                 /\ sessions[s].lastUsedAt \in Nat
                 /\ sessions[s].lastUsedAt <= clock
                 /\ sessions[s].expiresAt - sessions[s].lastUsedAt \in InactivityTtls
      BY <3>2 DEF UsageTimesCoherent, Exists, SessionRow
    <3>3. CASE sessions'[s] = sessions[s]
      BY <2>2, <2>4, <3>1, <3>2, <3>3 DEF Exists
    <3>4. CASE sessions'[s] = Revoked(sessions[s])
      BY <2>2, <2>4, <3>1, <3>2, <3>4 DEF Exists, Revoked, SessionRow
    <3>5. ASSUME NEW r \in Requests, At(r, "write")
          PROVE  /\ req[r].now \in Nat /\ req[r].now <= clock
                 /\ req[r].inactivityTtl \in Nat /\ req[r].inactivityTtl \in InactivityTtls
                 /\ (req[r].now + req[r].inactivityTtl) - req[r].now = req[r].inactivityTtl
      BY <3>5 DEF LocalsCoherent, Request
    <3>6. ASSUME Exists(s), NEW r \in Requests, At(r, "write"),
                 sessions'[s] = Touched(sessions[s], req[r])
          PROVE  /\ sessions'[s].lastUsedAt = req[r].now
                 /\ sessions'[s].expiresAt = req[r].now + req[r].inactivityTtl
      BY <3>2, <3>6 DEF Touched, SessionRow
    <3>7. ASSUME NEW r \in Requests, At(r, "write"), sessions'[s] = NewSession(req[r])
          PROVE  /\ sessions'[s].lastUsedAt = req[r].now
                 /\ sessions'[s].expiresAt = req[r].now + req[r].inactivityTtl
      BY <3>7 DEF NewSession
    <3>8. ASSUME NEW r \in Requests, At(r, "write"),
                 sessions'[s].lastUsedAt = req[r].now,
                 sessions'[s].expiresAt = req[r].now + req[r].inactivityTtl
          PROVE  /\ sessions'[s].lastUsedAt <= clock'
                 /\ sessions'[s].expiresAt - sessions'[s].lastUsedAt \in InactivityTtls
      BY <2>2, <3>5, <3>8
    <3> QED
      BY <3>1, <3>3, <3>4, <3>6, <3>7, <3>8, SessionWrites
  <2> QED
    BY <2>1, <2>3, <2>4 DEF UsageTimesCoherent
<1> QED
  BY <1>1, <1>2

\* The two times of every row belong together in every reachable state.
THEOREM UsageTimesHold == Spec => []UsageTimesCoherent
  BY UsageInvInductive, PTL DEF Spec, UsageInv

-----------------------------------------------------------------------------
(* What the history adds.                                                  *)

\* The history variables only watch: a step of HNext is a step of Sessions.
LEMMA HistoryRefines ==
    /\ HInit => Init
    /\ [HNext]_hvars => [Next]_vars
  BY DEF HInit, HNext, Next, hvars

\* The sessions a mass revocation covers exist already.
EndedExist ==
    /\ endedUpTo \in [Users -> Nat]
    /\ \A u \in Users : endedUpTo[u] <= created

MassInv == TypeInv /\ RowsInOrder /\ EndedExist /\ MassRevocationIsComplete

\* No step takes a row away from the count of created ones.
LEMMA CreatedGrows ==
    ASSUME TypeInv, [Next]_vars
    PROVE  created <= created'
<1> USE DEF TypeInv, TypeOK
<1>1. \A r \in Requests : Handlers(r) => created' = created \/ created' = created + 1
  BY DEF Handlers, BeginLogin, FindUser, StampSession, ReadPolicy, CreateSession,
     SignAccessToken, BeginRefresh, ScanSessions, CheckPin, AssertSessionStillActive,
     UpdateSession, BeginCall, GuardRead, GuardPolicy, Logout, OtherHandler
<1>2. created' = created \/ created' = created + 1
  BY <1>1 DEF Next, vars, ConfirmPasswordReset, SuspendUser, SetStatus, Environment,
     DeleteUser, SetAccessTtl, SetInactivityTtl, Tick
<1> QED
  BY <1>2, SessionAssumption

\* The sessions of an account are ended up to one that exists.
LEMMA EndedExistKept ==
    ASSUME TypeInv, TypeInv', EndedExist, [HNext]_hvars
    PROVE  EndedExist'
<1>1. created <= created' /\ created \in Nat /\ created' \in Nat
  BY HistoryRefines, CreatedGrows, SessionAssumption DEF TypeInv, TypeOK
<1>2. \/ UNCHANGED endedUpTo
      \/ \E u \in Users : endedUpTo' = [endedUpTo EXCEPT ![u] = created]
  BY DEF HNext, hvars, history, SessionsEnded
<1> QED
  BY <1>1, <1>2 DEF EndedExist

\* The inductive form of the completeness of mass revocations.
LEMMA MassInvInductive ==
    /\ HInit => MassInv
    /\ MassInv /\ [HNext]_hvars => MassInv'
<1>1. HInit => MassInv
  <2> SUFFICES ASSUME HInit PROVE MassInv
    OBVIOUS
  <2>1. EndedExist
    BY DEF HInit, Init, EndedExist
  <2>2. MassRevocationIsComplete
    BY DEF HInit, Init, MassRevocationIsComplete, Exists
  <2> QED
    BY <2>1, <2>2, HistoryRefines, TypeInvInductive, RowsInOrderInductive DEF MassInv
<1>2. ASSUME MassInv, [HNext]_hvars PROVE MassInv'
  <2> USE <1>2 DEF MassInv
  <2>1. [Next]_vars /\ TypeInv' /\ RowsInOrder' /\ created <= created'
    BY HistoryRefines, TypeInvInductive, RowsInOrderInductive, CreatedGrows
  <2>2. created \in Nat /\ created' \in Nat
    BY <2>1, SessionAssumption DEF TypeInv, TypeOK
  <2>3. \/ UNCHANGED endedUpTo
        \/ \E u \in Users :
              /\ endedUpTo' = [endedUpTo EXCEPT ![u] = created]
              /\ created' = created
              /\ sessions' = RevokedSessions(u)
    BY DEF HNext, hvars, history, SessionsEnded, ConfirmPasswordReset, SuspendUser
  <2>4. EndedExist'
    BY <2>1, EndedExistKept
  <2>5. ASSUME NEW s \in SessionIds, Exists(s)', s <= endedUpTo'[sessions'[s].user]
        PROVE  ~Unrevoked(s)'
    <3>1. sessions'[s] # Null
      BY <2>5 DEF Exists
    <3>2. sessions'[s] \in SessionRow /\ sessions'[s].user \in Users
      BY <3>1, <2>1 DEF TypeInv, TypeOK, SessionRow
    <3>3. s # created + 1
      BY <2>2, <2>3, <2>5, <3>2 DEF EndedExist, SessionIds
    <3>4. Exists(s) /\ sessions[s] \in SessionRow
      BY <3>1, <3>3, <2>1, SessionWrites DEF Exists, Revoked, TypeInv, TypeOK
    <3>5. sessions'[s].user = sessions[s].user
      <4>1. Revoked(sessions[s]).user = sessions[s].user
        BY <3>4 DEF Revoked, SessionRow
      <4>2. \A q \in Request : Touched(sessions[s], q).user = sessions[s].user
        BY <3>4 DEF Touched, SessionRow
      <4> QED
        BY <4>1, <4>2, <3>1, <3>3, <2>1, SessionWrites DEF TypeInv, TypeOK
    <3>6. CASE s <= endedUpTo[sessions[s].user]
      BY <3>1, <3>4, <3>6, <2>1, RevokedRowKept DEF MassRevocationIsComplete, Exists, Unrevoked
    <3>7. CASE ~(s <= endedUpTo[sessions[s].user])
      <4>1. PICK u \in Users : /\ endedUpTo' = [endedUpTo EXCEPT ![u] = created]
                               /\ sessions' = RevokedSessions(u)
        BY <2>3, <2>5, <3>5, <3>7
      <4>2. sessions[s].user = u
        BY <4>1, <2>5, <3>2, <3>5, <3>7 DEF EndedExist
      <4>3. sessions'[s] = Revoked(sessions[s])
        BY <4>1, <4>2, <3>4 DEF RevokedSessions, Exists
      <4>4. Revoked(sessions[s]).revokedAt # Null
        BY <3>4, SessionAssumption DEF Revoked, SessionRow, TypeInv, TypeOK, Exists
      <4> QED
        BY <4>3, <4>4 DEF Unrevoked
    <3> QED
      BY <3>6, <3>7
  <2> QED
    BY <2>1, <2>4, <2>5 DEF MassRevocationIsComplete
<1> QED
  BY <1>1, <1>2

\* A session that existed at a suspension or a password reset is dead ever after.
THEOREM MassRevocationHolds == HSpec => []MassRevocationIsComplete
  BY MassInvInductive, PTL DEF HSpec, MassInv

-----------------------------------------------------------------------------
\* Each kind of request takes only the steps of its handler, and a refresh that has come to
\* the PIN found its user active.
KindOfStep ==
    \A r \in Requests :
        /\ At(r, "findUser") => req[r].kind = "login"
        /\ At(r, "scan") => req[r].kind \in {"refresh", "unlock"}
        /\ At(r, "pin") => \/ req[r].kind = "unlock"
                           \/ req[r].kind = "refresh" /\ req[r].active
        /\ At(r, "guardRead") => req[r].kind \in {"logout", "call"}

\* The history has seen every instant of a request's run, the present one included.
Observed ==
    \A r \in Requests : (req[r].step # "idle" /\ Justified(r)) => r \in justified

JustifiedInv == TypeInv /\ KindOfStep /\ Observed /\ GrantsAreJustified

\* What one step of the handler in r does to the request, as far as its kind, its step and the
\* outcome of its checks go; a step that passes a check is taken where Justified holds.
LEMMA HandlerSteps ==
    ASSUME TypeInv, KindOfStep, NEW r \in Requests, Handlers(r)
    PROVE  /\ \A q \in Requests \ {r} : req'[q] = req[q]
           /\ KindOfStep'
           /\ Checked(r)' => Checked(r) \/ (req[r].step # "idle" /\ (Justified(r) \/ Justified(r)'))
<1> DEFINE Goal == /\ \A q \in Requests \ {r} : req'[q] = req[q]
                   /\ KindOfStep'
                   /\ Checked(r)' => \/ Checked(r)
                                     \/ req[r].step # "idle" /\ (Justified(r) \/ Justified(r)')
<1> USE DEF TypeInv, TypeOK, KindOfStep, Checked, At
<1>1. req[r] \in Request /\ Idle.step = "idle"
  BY DEF Idle
<1>ref. ASSUME Refuse(r) PROVE Goal
  BY <1>ref, <1>1 DEF Refuse
<1>sign. ASSUME NEW s \in Int, req' = [req EXCEPT ![r] = ToSign(req[r], s)], At(r, "write")
         PROVE  Goal
  <2>1. ToSign(req[r], s).step = "sign"
    BY DEF ToSign, Idle
  <2> QED
    BY <1>sign, <2>1
<1>2. ASSUME NEW u \in Users, NEW p \in Passwords, BeginLogin(r, u, p) PROVE Goal
  BY <1>2, <1>1 DEF BeginLogin, Idle
<1>3. CASE FindUser(r)
  BY <1>3, <1>1, <1>ref DEF FindUser, CredentialsOk, Justified, Request
<1>4. CASE StampSession(r)
  BY <1>4, <1>1 DEF StampSession, Request
<1>5. CASE ReadPolicy(r)
  BY <1>5, <1>1 DEF ReadPolicy, Request
<1>6. CASE CreateSession(r)
  BY <1>6, <1>ref, <1>sign DEF CreateSession
<1>7. CASE SignAccessToken(r)
  BY <1>7, <1>1 DEF SignAccessToken
<1>8. ASSUME NEW kind \in {"refresh", "unlock"}, NEW s \in SessionIds, BeginRefresh(r, kind, s)
      PROVE  Goal
  BY <1>8, <1>1 DEF BeginRefresh, Idle
<1>9. CASE ScanSessions(r)
  <2> DEFINE s == req[r].sess
             act == users[sessions[s].user].status = "ACTIVE"
  <2>1. CASE Refuse(r)
    BY <2>1, <1>ref
  <2>2. CASE s \in Scanned(req[r].now) /\ ~Refuse(r)
    <3>1. Unrevoked(s)
      BY <2>2 DEF Scanned, Live
    <3>2. /\ req'[r].step = "pin"
          /\ req'[r].kind = req[r].kind
          /\ req'[r].active = act
          /\ \A q \in Requests \ {r} : req'[q] = req[q]
          /\ req[r].kind = "refresh" => act
      BY <2>2, <1>9, <1>1 DEF ScanSessions, Request
    <3>3. act => Justified(r)
      BY <3>1, <1>9 DEF ScanSessions, Justified
    <3>4. KindOfStep'
      <4>1. req[r].kind \in {"refresh", "unlock"}
        BY <1>9 DEF ScanSessions
      <4>2. req'[r].kind = "unlock" \/ (req'[r].kind = "refresh" /\ req'[r].active)
        BY <4>1, <3>2
      <4> QED
        BY <3>2, <4>2
    <3> QED
      BY <3>2, <3>3, <3>4, <1>9 DEF ScanSessions
  <2> QED
    BY <2>1, <2>2, <1>9 DEF ScanSessions
<1>10. CASE CheckPin(r)
  <2>1. At(r, "pin")
    BY <1>10 DEF CheckPin
  <2>2. AfterPin(req[r]).step # "idle" => req[r].active
    BY <2>1, <1>1 DEF AfterPin
  <2>3. AfterPin(req[r]).step \in {"idle", "inactivity"}
    BY <1>1 DEF AfterPin, Request
  <2> QED
    BY <2>1, <2>2, <2>3, <1>10, <1>ref DEF CheckPin
<1>11. CASE AssertSessionStillActive(r)
  BY <1>11, <1>1, <1>ref DEF AssertSessionStillActive, Request
<1>12. CASE UpdateSession(r)
  BY <1>12, <1>1, <1>ref, <1>sign DEF UpdateSession, Request, SessionIds
<1>13. ASSUME NEW kind \in {"logout", "call"}, NEW s \in SessionIds, BeginCall(r, kind, s)
       PROVE  Goal
  BY <1>13, <1>1 DEF BeginCall, Idle
<1>14. CASE GuardRead(r)
  BY <1>14, <1>1, <1>ref DEF GuardRead, GuardAdmits, Justified, Request
<1>15. CASE GuardPolicy(r)
  BY <1>15, <1>1, <1>ref DEF GuardPolicy, Request
<1>16. CASE Logout(r)
  BY <1>16, <1>1 DEF Logout
<1>17. CASE OtherHandler(r)
  BY <1>17, <1>1 DEF OtherHandler
<1> QED
  BY <1>2, <1>3, <1>4, <1>5, <1>6, <1>7, <1>8, <1>9, <1>10, <1>11, <1>12, <1>13, <1>14, <1>15,
     <1>16, <1>17 DEF Handlers

\* The inductive form of the justification of grants.
LEMMA JustifiedInvInductive ==
    /\ HInit => JustifiedInv
    /\ JustifiedInv /\ [HNext]_hvars => JustifiedInv'
<1>1. HInit => JustifiedInv
  <2> SUFFICES ASSUME HInit PROVE JustifiedInv
    OBVIOUS
  <2>1. \A r \in Requests : req[r].step = "idle"
    BY DEF HInit, Init, Idle
  <2>2. KindOfStep /\ Observed /\ GrantsAreJustified
    BY <2>1 DEF KindOfStep, Observed, GrantsAreJustified, Checked, At
  <2> QED
    BY <2>2, HistoryRefines, TypeInvInductive DEF JustifiedInv
<1>2. ASSUME JustifiedInv, [HNext]_hvars PROVE JustifiedInv'
  <2> USE <1>2 DEF JustifiedInv
  <2>1. TypeInv'
    BY HistoryRefines, TypeInvInductive
  <2>2. CASE HNext
    <3>1. \A r \in Requests :
            r \in justified' <=> req'[r].step # "idle" /\ (r \in justified \/ Justified(r)')
      BY <2>2 DEF HNext, ObserveRequests
    <3>2. Observed'
      BY <3>1 DEF Observed
    <3>3. \A r \in Requests : Checked(r)' => req'[r].step # "idle"
      BY DEF Checked, At
    <3>4. CASE UNCHANGED req
      <4>1. KindOfStep'
        BY <3>4 DEF KindOfStep, At
      <4>2. GrantsAreJustified'
        BY <3>1, <3>3, <3>4 DEF GrantsAreJustified, Checked, At
      <4> QED
        BY <2>1, <3>2, <4>1, <4>2
    <3>5. ASSUME NEW r \in Requests, Handlers(r) PROVE JustifiedInv'
      <4>1. /\ \A q \in Requests \ {r} : req'[q] = req[q]
            /\ KindOfStep'
            /\ Checked(r)' =>
                 Checked(r) \/ (req[r].step # "idle" /\ (Justified(r) \/ Justified(r)'))
        BY <3>5, HandlerSteps
      <4>2. Checked(r)' => r \in justified'
        BY <3>1, <3>3, <4>1 DEF Observed, GrantsAreJustified
      <4>3. ASSUME NEW q \in Requests \ {r}, Checked(q)' PROVE q \in justified'
        <5>1. Checked(q)
          BY <4>1, <4>3 DEF Checked, At
        <5> QED
          BY <5>1, <3>1, <3>3, <4>3 DEF GrantsAreJustified
      <4> QED
        BY <2>1, <3>2, <4>1, <4>2, <4>3 DEF GrantsAreJustified
    <3> QED
      BY <2>2, <3>4, <3>5 DEF HNext, ConfirmPasswordReset, SuspendUser, SetStatus, Environment,
         DeleteUser, SetAccessTtl, SetInactivityTtl, Tick
  <2>3. CASE UNCHANGED hvars
    BY <2>1, <2>3 DEF hvars, vars, history, KindOfStep, Observed, GrantsAreJustified, Checked, At,
       Justified, Live, Unrevoked, Exists
  <2> QED
    BY <2>2, <2>3
<1> QED
  BY <1>1, <1>2

\* Every grant and admission has an instant of its request that justifies it.
THEOREM GrantsJustified == HSpec => []GrantsAreJustified
  BY JustifiedInvInductive, PTL DEF HSpec, JustifiedInv

-----------------------------------------------------------------------------
(* What a suspension lets through.                                         *)

\* Only refreshes and unlocks come to the inactivity check.
NoLoginIdle == \A r \in Requests : At(r, "inactivity") => req[r].kind # "login"

\* A suspended user is not active.
SuspendedIsInactive == \A u \in suspended : u \in Users /\ users[u].status # "ACTIVE"

EscapeInv ==
    /\ TypeInv /\ RowsInOrder /\ EndedExist /\ KindOfStep /\ NoLoginIdle
    /\ SuspendedIsInactive /\ EscapesBounded

\* The requests in flight and the sessions past the last end are finitely many.
LEMMA EscapesFinite ==
    ASSUME NEW u
    PROVE  IsFiniteSet(Escaped(u)) /\ IsFiniteSet(InFlight(u))
<1>1. IsFiniteSet(SessionIds)
  BY SessionAssumption, FS_Interval DEF SessionIds
<1>2. Escaped(u) \subseteq SessionIds /\ InFlight(u) \subseteq Requests
  BY DEF Escaped, InFlight
<1> QED
  BY <1>1, <1>2, RequestsAssumption, FS_Subset

\* A step of a handler takes up no login of a user who is not active, and one that writes a
\* session is in flight no longer.
LEMMA HandlersInFlight ==
    ASSUME TypeInv, KindOfStep, NoLoginIdle, NEW r \in Requests, Handlers(r)
    PROVE  /\ NoLoginIdle'
           /\ \A u \in Users :
                 users[u].status # "ACTIVE" /\ r \in InFlight(u)' => r \in InFlight(u)
           /\ CreateSession(r) => \/ UNCHANGED <<sessions, created>>
                                  \/ /\ created' = created + 1
                                     /\ req[r].user \in Users /\ r \in InFlight(req[r].user)
                                     /\ \A u \in Users : r \notin InFlight(u)'
                                     /\ sessions' = [sessions EXCEPT ![created + 1] =
                                                        NewSession(req[r])]
           /\ ~CreateSession(r) => created' = created
<1> DEFINE Goal == /\ NoLoginIdle'
                   /\ \A u \in Users :
                         users[u].status # "ACTIVE" /\ r \in InFlight(u)' => r \in InFlight(u)
<1> USE DEF TypeInv, TypeOK, NoLoginIdle, KindOfStep, InFlight, At
<1>1. req[r] \in Request /\ Idle.step = "idle" /\ Idle.kind = "none"
  BY DEF Idle
<1>ref. ASSUME Refuse(r) PROVE Goal
  BY <1>ref, <1>1 DEF Refuse
<1>sign. ASSUME NEW s \in Int, req' = [req EXCEPT ![r] = ToSign(req[r], s)]
         PROVE  Goal /\ \A u \in Users : r \notin InFlight(u)'
  <2>1. ToSign(req[r], s).step = "sign"
    BY DEF ToSign, Idle
  <2> QED
    BY <1>sign, <2>1
<1>2. ASSUME NEW u \in Users, NEW p \in Passwords, BeginLogin(r, u, p) PROVE Goal
  BY <1>2, <1>1 DEF BeginLogin, Idle
<1>3. ASSUME FindUser(r) PROVE Goal
  BY <1>3, <1>1, <1>ref DEF FindUser, CredentialsOk, Request
<1>4. ASSUME StampSession(r) PROVE Goal
  BY <1>4, <1>1 DEF StampSession, Request
<1>5. ASSUME ReadPolicy(r) PROVE Goal
  BY <1>5, <1>1 DEF ReadPolicy, Request
<1>6. ASSUME CreateSession(r) PROVE Goal
  BY <1>6, <1>1, <1>ref, <1>sign, SessionAssumption DEF CreateSession
<1>7. ASSUME SignAccessToken(r) PROVE Goal
  BY <1>7, <1>1 DEF SignAccessToken
<1>8. ASSUME NEW kind \in {"refresh", "unlock"}, NEW s \in SessionIds, BeginRefresh(r, kind, s)
      PROVE  Goal
  BY <1>8, <1>1 DEF BeginRefresh, Idle
<1>9. ASSUME ScanSessions(r) PROVE Goal
  BY <1>9, <1>1, <1>ref DEF ScanSessions, Request
<1>10. ASSUME CheckPin(r) PROVE Goal
  <2>1. req[r].kind # "login" /\ AfterPin(req[r]).step \in {"idle", "inactivity"}
    BY <1>10, <1>1 DEF CheckPin, AfterPin, Request
  <2>2. AfterPin(req[r]).kind # "login"
    BY <2>1, <1>1 DEF AfterPin, Request
  <2> QED
    BY <2>1, <2>2, <1>10, <1>ref DEF CheckPin
<1>11. ASSUME AssertSessionStillActive(r) PROVE Goal
  BY <1>11, <1>1, <1>ref DEF AssertSessionStillActive, Request
<1>12. ASSUME UpdateSession(r) PROVE Goal
  <2>1. req[r].sess \in Int
    BY <1>1, SessionAssumption DEF Request, SessionIds
  <2>2. CASE Refuse(r)
    BY <2>2, <1>ref
  <2>3. CASE req' = [req EXCEPT ![r] = ToSign(req[r], req[r].sess)]
    BY <2>1, <2>3, <1>sign
  <2> QED
    BY <1>12, <2>2, <2>3 DEF UpdateSession
<1>13. ASSUME NEW kind \in {"logout", "call"}, NEW s \in SessionIds, BeginCall(r, kind, s)
       PROVE  Goal
  BY <1>13, <1>1 DEF BeginCall, Idle
<1>14. ASSUME GuardRead(r) PROVE Goal
  BY <1>14, <1>1, <1>ref DEF GuardRead, Request
<1>15. ASSUME GuardPolicy(r) PROVE Goal
  BY <1>15, <1>1, <1>ref DEF GuardPolicy, Request
<1>16. ASSUME Logout(r) PROVE Goal
  BY <1>16, <1>1 DEF Logout
<1>17. ASSUME OtherHandler(r) PROVE Goal
  BY <1>17, <1>1 DEF OtherHandler
<1> HIDE DEF Goal, TypeInv, TypeOK, NoLoginIdle, KindOfStep, InFlight, At
<1>18. Goal
  BY <1>2, <1>3, <1>4, <1>5, <1>6, <1>7, <1>8, <1>9, <1>10, <1>11, <1>12, <1>13, <1>14, <1>15,
     <1>16, <1>17 DEF Handlers
<1> USE DEF Goal, TypeInv, TypeOK, NoLoginIdle, KindOfStep, InFlight, At
<1>19. CreateSession(r) => \/ UNCHANGED <<sessions, created>>
                           \/ /\ created' = created + 1
                              /\ req[r].user \in Users /\ r \in InFlight(req[r].user)
                              /\ \A u \in Users : r \notin InFlight(u)'
                              /\ sessions' = [sessions EXCEPT ![created + 1] = NewSession(req[r])]
  <2> SUFFICES ASSUME CreateSession(r), ~UNCHANGED <<sessions, created>>
               PROVE  /\ created' = created + 1
                      /\ req[r].user \in Users /\ r \in InFlight(req[r].user)
                      /\ \A u \in Users : r \notin InFlight(u)'
                      /\ sessions' = [sessions EXCEPT ![created + 1] = NewSession(req[r])]
    OBVIOUS
  <2>1. /\ At(r, "write") /\ req[r].kind = "login" /\ req[r].user \in Users
        /\ created + 1 \in Int
    BY SessionAssumption DEF CreateSession, LoginNamesUser
  <2>2. /\ created' = created + 1
        /\ sessions' = [sessions EXCEPT ![created + 1] = NewSession(req[r])]
        /\ req' = [req EXCEPT ![r] = ToSign(req[r], created + 1)]
    BY DEF CreateSession
  <2> QED
    BY <2>1, <2>2, <1>sign
<1>20. ~CreateSession(r) => created' = created
  BY DEF Handlers, BeginLogin, FindUser, StampSession, ReadPolicy,
     SignAccessToken, BeginRefresh, ScanSessions, CheckPin, AssertSessionStillActive,
     UpdateSession, BeginCall, GuardRead, GuardPolicy, Logout, OtherHandler
<1> QED
  BY <1>18, <1>19, <1>20

\* A step that creates no session and ends none lets no more through.
LEMMA NoMoreEscape ==
    ASSUME TypeInv, [Next]_vars, RowsInOrder, NEW u \in Users, created' = created,
           endedUpTo' = endedUpTo
    PROVE  Escaped(u)' \subseteq Escaped(u)
<1> SUFFICES ASSUME NEW s \in SessionIds, sessions'[s] # Null, sessions'[s].user = u
             PROVE  sessions[s] # Null /\ sessions[s].user = u
  BY DEF Escaped, Exists
<1> USE DEF TypeInv, TypeOK
<1>1. s # created + 1 \/ created' # s
  BY SessionAssumption
<1>2. sessions[s] # Null /\ sessions[s] \in SessionRow
  <2>1. ~Exists(s) => Revoked(sessions[s]) = sessions[s] /\ sessions[s] = Null
    BY DEF Exists, Revoked
  <2>2. Exists(s) \/ sessions'[s] = Null
    BY <2>1, <1>1, SessionWrites DEF Exists
  <2> QED
    BY <2>2 DEF Exists
<1>3. Revoked(sessions[s]).user = sessions[s].user
  BY <1>2 DEF Revoked, SessionRow
<1>4. \A q \in Request : Touched(sessions[s], q).user = sessions[s].user
  BY <1>2 DEF Touched, SessionRow
<1> QED
  BY <1>1, <1>2, <1>3, <1>4, SessionWrites

\* The bound is kept by a step that adds nothing, and by one that moves a login in flight to
\* the sessions.
LEMMA BoundKept ==
    ASSUME NEW u \in Users, EscapesBounded, u \in suspended,
           \/ Escaped(u)' \subseteq Escaped(u) /\ InFlight(u)' \subseteq InFlight(u)
           \/ \E r \in InFlight(u), s \in Nat :
                 /\ InFlight(u)' \subseteq InFlight(u) \ {r}
                 /\ Escaped(u)' \subseteq Escaped(u) \cup {s}
    PROVE  Cardinality(Escaped(u)') + Cardinality(InFlight(u)') <= Cardinality(Requests)
<1> DEFINE E == Cardinality(Escaped(u))
           F == Cardinality(InFlight(u))
<1>1. /\ E \in Nat /\ F \in Nat /\ Cardinality(Requests) \in Nat
      /\ E + F <= Cardinality(Requests)
  BY EscapesFinite, RequestsAssumption, FS_CardinalityType DEF EscapesBounded
<1>2. CASE Escaped(u)' \subseteq Escaped(u) /\ InFlight(u)' \subseteq InFlight(u)
  <2>1. /\ Cardinality(Escaped(u)') \in Nat /\ Cardinality(Escaped(u)') <= E
        /\ Cardinality(InFlight(u)') \in Nat /\ Cardinality(InFlight(u)') <= F
    BY <1>2, EscapesFinite, FS_Subset, FS_CardinalityType
  <2> QED
    BY <1>1, <2>1
<1>3. ASSUME NEW r \in InFlight(u), NEW s \in Nat, InFlight(u)' \subseteq InFlight(u) \ {r},
             Escaped(u)' \subseteq Escaped(u) \cup {s}
      PROVE  Cardinality(Escaped(u)') + Cardinality(InFlight(u)') <= Cardinality(Requests)
  <2>1. IsFiniteSet(InFlight(u) \ {r}) /\ Cardinality(InFlight(u) \ {r}) = F - 1
    BY <1>3, EscapesFinite, FS_RemoveElement
  <2>2. /\ IsFiniteSet(Escaped(u) \cup {s})
        /\ Cardinality(Escaped(u) \cup {s}) \in {E, E + 1}
    BY EscapesFinite, FS_AddElement
  <2>3. /\ Cardinality(InFlight(u)') <= F - 1 /\ Cardinality(InFlight(u)') \in Nat
        /\ IsFiniteSet(InFlight(u)')
    BY <1>3, <2>1, FS_Subset, FS_CardinalityType
  <2>4. /\ Cardinality(Escaped(u)') <= Cardinality(Escaped(u) \cup {s})
        /\ Cardinality(Escaped(u)') \in Nat
    BY <1>3, <2>2, FS_Subset, FS_CardinalityType
  <2> QED
    BY <1>1, <2>2, <2>3, <2>4
<1> QED
  BY <1>2, <1>3

LEMMA EscapeInvInductive ==
    /\ HInit => EscapeInv
    /\ EscapeInv /\ [HNext]_hvars => EscapeInv'
<1>1. HInit => EscapeInv
  <2> SUFFICES ASSUME HInit PROVE EscapeInv
    OBVIOUS
  <2>1. EndedExist /\ EscapesBounded /\ SuspendedIsInactive
    BY DEF HInit, Init, EndedExist, EscapesBounded, SuspendedIsInactive
  <2>2. KindOfStep /\ NoLoginIdle
    BY DEF HInit, Init, KindOfStep, NoLoginIdle, At, Idle
  <2> QED
    BY <2>1, <2>2, HistoryRefines, TypeInvInductive, RowsInOrderInductive DEF EscapeInv
<1>2. ASSUME EscapeInv, [HNext]_hvars PROVE EscapeInv'
  <2> USE <1>2 DEF EscapeInv
  <2>1. [Next]_vars /\ TypeInv' /\ RowsInOrder' /\ EndedExist'
    BY HistoryRefines, TypeInvInductive, RowsInOrderInductive, EndedExistKept
  <2> DEFINE Goal == KindOfStep' /\ NoLoginIdle' /\ SuspendedIsInactive' /\ EscapesBounded'
  <2>2. ASSUME NEW r \in Requests, Handlers(r), UNCHANGED <<endedUpTo, suspended>> PROVE Goal
    <3>1. UNCHANGED users
      BY <2>2 DEF Handlers, BeginLogin, FindUser, StampSession, ReadPolicy, CreateSession,
         SignAccessToken, BeginRefresh, ScanSessions, CheckPin, AssertSessionStillActive,
         UpdateSession, BeginCall, GuardRead, GuardPolicy, Logout, OtherHandler
    <3>2. ASSUME NEW u \in suspended
          PROVE  Cardinality(Escaped(u)') + Cardinality(InFlight(u)') <= Cardinality(Requests)
      <4>1. u \in Users /\ users[u].status # "ACTIVE"
        BY <3>2 DEF SuspendedIsInactive
      <4>2. InFlight(u)' \subseteq InFlight(u)
        BY <2>2, <4>1, HandlerSteps, HandlersInFlight DEF InFlight
      <4>3. CASE created' = created
        BY <2>1, <2>2, <3>2, <4>1, <4>2, <4>3, NoMoreEscape, BoundKept
      <4>4. CASE created' # created
        <5>1. /\ CreateSession(r) /\ created' = created + 1
              /\ r \in InFlight(req[r].user) /\ \A w \in Users : r \notin InFlight(w)'
              /\ sessions' = [sessions EXCEPT ![created + 1] = NewSession(req[r])]
          BY <2>2, <4>4, HandlersInFlight
        <5>2. CASE req[r].user = u
          <6>0. created + 1 \in Nat
            BY <2>2, SessionAssumption DEF TypeInv, TypeOK
          <6>1. Escaped(u)' \subseteq Escaped(u) \cup {created + 1}
            BY <2>2, <5>1 DEF Escaped, Exists, TypeInv, TypeOK
          <6>2. r \in InFlight(u) /\ InFlight(u)' \subseteq InFlight(u) \ {r}
            BY <4>1, <4>2, <5>1, <5>2
          <6> QED
            BY <3>2, <4>1, <6>0, <6>1, <6>2, BoundKept
        <5>3. CASE req[r].user # u
          <6>1. NewSession(req[r]).user = req[r].user
            BY DEF NewSession
          <6>2. Escaped(u)' \subseteq Escaped(u)
            BY <2>2, <5>1, <5>3, <6>1 DEF Escaped, Exists, TypeInv, TypeOK
          <6> QED
            BY <3>2, <4>1, <4>2, <6>2, BoundKept
        <5> QED
          BY <5>2, <5>3
      <4> QED
        BY <4>3, <4>4
    <3> QED
      BY <2>2, <3>1, <3>2, HandlerSteps, HandlersInFlight DEF SuspendedIsInactive, EscapesBounded
  <2>3. ASSUME UNCHANGED req
        PROVE  KindOfStep' /\ NoLoginIdle' /\ \A u : InFlight(u)' = InFlight(u)
    BY <2>3 DEF KindOfStep, NoLoginIdle, InFlight, At
  <2>4. ASSUME NEW w \in Users, SessionsEnded(w), sessions' = RevokedSessions(w),
               UNCHANGED <<req, created>>, suspended' \in {suspended, suspended \cup {w}}
        PROVE  EscapesBounded'
    <3> SUFFICES ASSUME NEW u \in suspended'
                 PROVE  Cardinality(Escaped(u)') + Cardinality(InFlight(u)')
                           <= Cardinality(Requests)
      BY DEF EscapesBounded
    <3>1. CASE u = w
      <4>1. Escaped(u)' = {}
        BY <2>1, <2>4, <3>1 DEF Escaped, SessionsEnded, EndedExist, RowsInOrder, Exists
      <4>2. InFlight(u)' \subseteq Requests
        BY DEF InFlight
      <4> QED
        BY <4>1, <4>2, RequestsAssumption, FS_EmptySet, FS_Subset, FS_CardinalityType
    <3>2. CASE u # w
      <4>1. u \in suspended /\ u \in Users /\ endedUpTo'[u] = endedUpTo[u]
        BY <2>4, <3>2 DEF SessionsEnded, EndedExist, SuspendedIsInactive
      <4>2. Escaped(u)' \subseteq Escaped(u)
        BY <2>4, <3>2, <4>1 DEF Escaped, Exists, RevokedSessions, Revoked
      <4> QED
        BY <2>3, <2>4, <4>1, <4>2, BoundKept
    <3> QED
      BY <3>1, <3>2
  <2>5. ASSUME NEW u \in Users, NEW p \in Passwords, ConfirmPasswordReset(u, p),
               SessionsEnded(u), UNCHANGED suspended
        PROVE  Goal
    <3>1. EscapesBounded'
      BY <2>4, <2>5 DEF ConfirmPasswordReset
    <3>2. SuspendedIsInactive'
      BY <2>5 DEF ConfirmPasswordReset, SuspendedIsInactive, TypeInv, TypeOK, UserRow
    <3> QED
      BY <2>3, <2>5, <3>1, <3>2 DEF ConfirmPasswordReset
  <2>6. ASSUME NEW u \in Users, SuspendUser(u), SessionsEnded(u),
               suspended' = suspended \cup {u}
        PROVE  Goal
    <3>1. EscapesBounded'
      BY <2>4, <2>6 DEF SuspendUser
    <3>2. SuspendedIsInactive'
      BY <2>6 DEF SuspendUser, SuspendedIsInactive, TypeInv, TypeOK, UserRow
    <3> QED
      BY <2>3, <2>6, <3>1, <3>2 DEF SuspendUser
  <2>7. ASSUME UNCHANGED <<req, created, endedUpTo>>, suspended' \subseteq suspended
        PROVE  EscapesBounded'
    <3> SUFFICES ASSUME NEW u \in suspended'
                 PROVE  Cardinality(Escaped(u)') + Cardinality(InFlight(u)')
                           <= Cardinality(Requests)
      BY DEF EscapesBounded
    <3>1. u \in suspended /\ u \in Users
      BY <2>7 DEF SuspendedIsInactive
    <3> QED
      BY <2>1, <2>3, <2>7, <3>1, NoMoreEscape, BoundKept
  <2>8. ASSUME NEW u \in Users, NEW status \in {"ACTIVE", "DISABLED"}, SetStatus(u, status),
               suspended' = suspended \ {u}, UNCHANGED endedUpTo
        PROVE  Goal
    <3>1. SuspendedIsInactive'
      BY <2>8 DEF SetStatus, SuspendedIsInactive, TypeInv, TypeOK, UserRow
    <3> QED
      BY <2>3, <2>7, <2>8, <3>1 DEF SetStatus
  <2>9. ASSUME Environment, UNCHANGED <<endedUpTo, suspended>> PROVE Goal
    <3>1. UNCHANGED <<req, created>>
      BY <2>9 DEF Environment, DeleteUser, SetAccessTtl, SetInactivityTtl, Tick
    <3>2. SuspendedIsInactive'
      BY <2>9 DEF Environment, DeleteUser, SetAccessTtl, SetInactivityTtl, Tick,
         SuspendedIsInactive, TypeInv, TypeOK, UserRow
    <3> QED
      BY <2>3, <2>7, <2>9, <3>1, <3>2
  <2>10. ASSUME UNCHANGED hvars PROVE Goal
    <3>1. UNCHANGED <<req, created, endedUpTo, suspended, users>>
      BY <2>10 DEF hvars, vars, history
    <3> QED
      BY <2>3, <2>7, <3>1 DEF SuspendedIsInactive
  <2>11. Goal
    BY <2>2, <2>5, <2>6, <2>8, <2>9, <2>10 DEF HNext
  <2> QED
    BY <2>1, <2>11
<1> QED
  BY <1>1, <1>2

\* Of the logins that a suspension overtakes, at most as many get a session as run side by side.
THEOREM EscapesHold == HSpec => []EscapesBounded
  BY EscapeInvInductive, PTL DEF HSpec, EscapeInv

-----------------------------------------------------------------------------
\* Only a login comes to createSession's first await.
StampIsOfLogin == \A r \in Requests : At(r, "stamp") => req[r].kind = "login"

\* The history has seen every limit in force during a request's run, the present one included.
LimitsObserved ==
    /\ loosest \in [Requests -> Nat]
    /\ \A r \in Requests : req[r].step # "idle" => policy.inactivity <= loosest[r]

LimitInv == TypeInv /\ KindOfStep /\ StampIsOfLogin /\ LimitsObserved /\ ShortenedLimitApplies

\* The steps at which a request has passed the check of its inactivity.
PassedLimit(r) ==
    req[r].kind # "login" /\ req[r].step \in {"readPolicy", "write", "sign", "admitted"}

\* A handler comes past the check only with an idle time within the present limit; after it
\* the handler keeps the two times, or drops both with the write.
LEMMA LimitSteps ==
    ASSUME TypeInv, KindOfStep, StampIsOfLogin, ShortenedLimitApplies,
           NEW r \in Requests, Handlers(r)
    PROVE  /\ At(r, "stamp")' => req'[r].kind = "login"
           /\ PassedLimit(r)' =>
                \/ req'[r].now - req'[r].lastUsedAt <= policy.inactivity
                \/ req[r].step # "idle" /\ req'[r].now - req'[r].lastUsedAt <= loosest[r]
<1> DEFINE Goal == /\ At(r, "stamp")' => req'[r].kind = "login"
                   /\ PassedLimit(r)' =>
                        \/ req'[r].now - req'[r].lastUsedAt <= policy.inactivity
                        \/ /\ req[r].step # "idle"
                           /\ req'[r].now - req'[r].lastUsedAt <= loosest[r]
<1> USE DEF TypeInv, TypeOK, KindOfStep, StampIsOfLogin, ShortenedLimitApplies, PassedLimit, At
<1>1. /\ req[r] \in Request
      /\ Idle.step = "idle" /\ Idle.kind = "none" /\ Idle.now = 0 /\ Idle.lastUsedAt = 0
  BY DEF Idle
<1>2. policy.inactivity \in Nat /\ clock \in Nat
  BY SessionAssumption
<1>ref. ASSUME Refuse(r) PROVE Goal
  BY <1>ref, <1>1 DEF Refuse
<1>sign. ASSUME NEW s \in Int, req' = [req EXCEPT ![r] = ToSign(req[r], s)] PROVE Goal
  <2>1. /\ ToSign(req[r], s).step = "sign"
        /\ ToSign(req[r], s).now - ToSign(req[r], s).lastUsedAt <= policy.inactivity
    BY <1>2 DEF ToSign, Idle
  <2> QED
    BY <1>sign, <2>1
<1>3. ASSUME NEW u \in Users, NEW p \in Passwords, BeginLogin(r, u, p) PROVE Goal
  BY <1>3, <1>1 DEF BeginLogin, Idle
<1>4. CASE FindUser(r)
  BY <1>4, <1>1, <1>ref DEF FindUser, Request
<1>5. CASE StampSession(r)
  BY <1>5, <1>1 DEF StampSession, Request
<1>6. CASE ReadPolicy(r)
  BY <1>6, <1>1 DEF ReadPolicy, Request
<1>7. CASE CreateSession(r)
  BY <1>7, <1>ref, <1>sign DEF CreateSession
<1>8. CASE SignAccessToken(r)
  BY <1>8, <1>1 DEF SignAccessToken
<1>9. ASSUME NEW kind \in {"refresh", "unlock"}, NEW s \in SessionIds, BeginRefresh(r, kind, s)
      PROVE  Goal
  BY <1>9, <1>1 DEF BeginRefresh, Idle
<1>10. CASE ScanSessions(r)
  BY <1>10, <1>1, <1>ref DEF ScanSessions, Request
<1>11. CASE CheckPin(r)
  <2>1. AfterPin(req[r]).step \in {"idle", "inactivity"}
    BY <1>1 DEF AfterPin, Request
  <2> QED
    BY <2>1, <1>11, <1>ref DEF CheckPin
<1>12. CASE AssertSessionStillActive(r)
  BY <1>12, <1>1, <1>2, <1>ref DEF AssertSessionStillActive, IdleTooLong, Request
<1>13. CASE UpdateSession(r)
  BY <1>13, <1>ref, <1>sign DEF UpdateSession, Request, SessionIds
<1>14. ASSUME NEW kind \in {"logout", "call"}, NEW s \in SessionIds, BeginCall(r, kind, s)
       PROVE  Goal
  BY <1>14, <1>1 DEF BeginCall, Idle
<1>15. CASE GuardRead(r)
  BY <1>15, <1>1, <1>ref DEF GuardRead, Request
<1>16. CASE GuardPolicy(r)
  BY <1>16, <1>1, <1>2, <1>ref DEF GuardPolicy, IdleTooLong, Request
<1>17. CASE Logout(r)
  BY <1>17, <1>1 DEF Logout
<1>18. CASE OtherHandler(r)
  BY <1>18, <1>1 DEF OtherHandler
<1> QED
  BY <1>3, <1>4, <1>5, <1>6, <1>7, <1>8, <1>9, <1>10, <1>11, <1>12, <1>13, <1>14, <1>15, <1>16,
     <1>17, <1>18 DEF Handlers

\* The inductive form of the limit's reach.
LEMMA LimitInvInductive ==
    /\ HInit => LimitInv
    /\ LimitInv /\ [HNext]_hvars => LimitInv'
<1>1. HInit => LimitInv
  <2> SUFFICES ASSUME HInit PROVE LimitInv
    OBVIOUS
  <2>1. \A r \in Requests : req[r].step = "idle"
    BY DEF HInit, Init, Idle
  <2>2. KindOfStep /\ StampIsOfLogin /\ LimitsObserved /\ ShortenedLimitApplies
    BY <2>1 DEF HInit, KindOfStep, StampIsOfLogin, LimitsObserved, ShortenedLimitApplies, At
  <2> QED
    BY <2>2, HistoryRefines, TypeInvInductive DEF LimitInv
<1>2. ASSUME LimitInv, [HNext]_hvars PROVE LimitInv'
  <2> USE <1>2 DEF LimitInv
  <2>1. TypeInv' /\ (\A r \in Requests : req'[r] \in Request)
    BY HistoryRefines, TypeInvInductive DEF TypeInv, TypeOK
  <2>2. CASE HNext
    <3>1. policy.inactivity \in Nat /\ policy'.inactivity \in Nat
      BY <2>1, SessionAssumption DEF TypeInv, TypeOK
    <3>2. LimitsObserved'
      BY <2>2, <3>1 DEF LimitsObserved, HNext, ObserveRequests, Later
    <3>3. \A r \in Requests : req'[r].step # "idle" =>
            /\ policy'.inactivity <= loosest'[r]
            /\ loosest[r] <= loosest'[r]
            /\ loosest[r] \in Nat /\ loosest'[r] \in Nat
      BY <2>2, <3>1 DEF LimitsObserved, HNext, ObserveRequests, Later
    <3>4. ASSUME NEW q \in Requests, req'[q] = req[q]
          PROVE  /\ At(q, "stamp")' => req'[q].kind = "login"
                 /\ PassedLimit(q)' => req'[q].now - req'[q].lastUsedAt <= loosest'[q]
      <4>1. req'[q].now \in Nat /\ req'[q].lastUsedAt \in Nat
        BY <2>1 DEF Request
      <4> QED
        BY <3>3, <3>4, <4>1 DEF StampIsOfLogin, ShortenedLimitApplies, PassedLimit, At
    <3>5. CASE UNCHANGED req
      <4>1. KindOfStep'
        BY <3>5 DEF KindOfStep, At
      <4> QED
        BY <2>1, <3>2, <3>4, <3>5, <4>1 DEF StampIsOfLogin, ShortenedLimitApplies, PassedLimit
    <3>6. ASSUME NEW r \in Requests, Handlers(r) PROVE LimitInv'
      <4>1. (\A q \in Requests \ {r} : req'[q] = req[q]) /\ KindOfStep'
        BY <3>6, HandlerSteps
      <4>2. policy' = policy
        BY <3>6 DEF Handlers, BeginLogin, FindUser, StampSession, ReadPolicy, CreateSession,
           SignAccessToken, BeginRefresh, ScanSessions, CheckPin, AssertSessionStillActive,
           UpdateSession, BeginCall, GuardRead, GuardPolicy, Logout, OtherHandler
      <4>3. req'[r].now \in Nat /\ req'[r].lastUsedAt \in Nat
        BY <2>1 DEF Request
      <4>4. At(r, "stamp")' => req'[r].kind = "login"
        BY <3>6, LimitSteps
      <4>5. PassedLimit(r)' => req'[r].now - req'[r].lastUsedAt <= loosest'[r]
        <5>1. PassedLimit(r)' => req'[r].step # "idle"
          BY DEF PassedLimit
        <5> QED
          BY <3>1, <3>3, <3>6, <4>2, <4>3, <5>1, LimitSteps
      <4> QED
        BY <2>1, <3>2, <3>4, <4>1, <4>4, <4>5
           DEF StampIsOfLogin, ShortenedLimitApplies, PassedLimit
    <3> QED
      BY <2>2, <3>5, <3>6 DEF HNext, ConfirmPasswordReset, SuspendUser, SetStatus, Environment,
         DeleteUser, SetAccessTtl, SetInactivityTtl, Tick
  <2>3. CASE UNCHANGED hvars
    BY <2>1, <2>3 DEF hvars, vars, history, KindOfStep, StampIsOfLogin, LimitsObserved,
       ShortenedLimitApplies, At
  <2> QED
    BY <2>2, <2>3
<1> QED
  BY <1>1, <1>2

\* A shortened inactivity limit reaches the sessions there are, whatever requests overlap its
\* change.
THEOREM LimitReaches == HSpec => []ShortenedLimitApplies
  BY LimitInvInductive, PTL DEF HSpec, LimitInv
=============================================================================
