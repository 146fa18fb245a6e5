--------------------------- MODULE SessionHistory ---------------------------
(***************************************************************************)
(* Sessions with history variables.  They record what happened while a     *)
(* request was running and when an account's sessions were ended, so that  *)
(* the promises of the backend can be stated about a request as a whole.   *)
(* They are never read by an action of Sessions.                           *)
(***************************************************************************)
EXTENDS Sessions

ASSUME RequestsAssumption == IsFiniteSet(Requests)

VARIABLES
    justified,    \* requests that met, at one instant of their run, all they need
    loosest,      \* loosest[r]: longest inactivity limit in force during the run of r
    endedUpTo,    \* endedUpTo[u]: newest session there was when u's sessions were ended
    suspended     \* users suspended and not given another status since

history == <<justified, loosest, endedUpTo, suspended>>

hvars == <<vars, history>>

\* What the request running in r needs in order to be granted or admitted, all of it true now.
Justified(r) ==
    LET q == req[r]
    IN  \/ /\ q.kind = "login"
           /\ users[q.user].status = "ACTIVE" /\ users[q.user].password = q.password
        \/ /\ q.kind \in {"refresh", "unlock"}
           /\ Unrevoked(q.sess) /\ users[sessions[q.sess].user].status = "ACTIVE"
        \/ /\ q.kind \in {"logout", "call"}
           /\ Live(q.sess, clock)

\* Updates of the history that depend on the state the step leads to.
ObserveRequests ==
    /\ justified' =
          {r \in Requests : req'[r].step # "idle" /\ (r \in justified \/ Justified(r)')}
    /\ loosest' =
          [r \in Requests |->
              IF req'[r].step = "idle" THEN 0 ELSE Later(loosest[r], policy'.inactivity)]

SessionsEnded(u) == endedUpTo' = [endedUpTo EXCEPT ![u] = created]

HInit ==
    /\ Init
    /\ justified = {}
    /\ loosest = [r \in Requests |-> 0]
    /\ endedUpTo = [u \in Users |-> 0]
    /\ suspended = {}

HNext ==
    /\ \/ /\ \E r \in Requests : Handlers(r)
          /\ UNCHANGED <<endedUpTo, suspended>>
       \/ \E u \in Users, p \in Passwords :
             ConfirmPasswordReset(u, p) /\ SessionsEnded(u) /\ UNCHANGED suspended
       \/ \E u \in Users :
             SuspendUser(u) /\ SessionsEnded(u) /\ suspended' = suspended \cup {u}
       \/ \E u \in Users, status \in {"ACTIVE", "DISABLED"} :
             SetStatus(u, status) /\ suspended' = suspended \ {u} /\ UNCHANGED endedUpTo
       \/ Environment /\ UNCHANGED <<endedUpTo, suspended>>
    /\ ObserveRequests

HSpec == HInit /\ [][HNext]_hvars

-----------------------------------------------------------------------------
\* The handler goes on from checks it has passed, on what it read then.
Checked(r) ==
    \/ req[r].step \in {"stamp", "inactivity", "readPolicy", "write", "sign", "guardPolicy",
                        "admitted"}
    \/ At(r, "pin") /\ req[r].active

\* However its awaits interleave with suspensions, resets, logouts and other requests, a
\* request that writes a session, is given tokens or is admitted by the guard had one instant,
\* between its arrival and now, at which everything it needs was true at once: an active user
\* and the right password (login), an unrevoked session of an active user (refresh, unlock), a
\* live session (guard).  It is the point at which the request can be taken to have happened.
GrantsAreJustified ==
    \A r \in Requests : Checked(r) => r \in justified

\* A session that existed when its user was suspended or reset the password stays dead: the
\* mass revocation leaves none out, and no refresh or unlock under way at that moment writes
\* one back (suspendUser, confirmPasswordReset).
MassRevocationIsComplete ==
    \A s \in SessionIds :
        (Exists(s) /\ s <= endedUpTo[sessions[s].user]) => ~Unrevoked(s)

\* Logins of u that have passed the check of the password and not yet written their session
InFlight(u) ==
    {r \in Requests : req[r].kind = "login" /\ req[r].user = u
                      /\ req[r].step \in {"stamp", "readPolicy", "write"}}

\* Sessions of u that no end of all its sessions has reached
Escaped(u) == {s \in SessionIds : Exists(s) /\ sessions[s].user = u /\ s > endedUpTo[u]}

\* What a suspension lets through is bounded: the sessions a suspended user has got since are
\* those of logins that were past the password check at that moment, as many as can run side
\* by side and no more, however long the suspension lasts (login, suspendUser).
EscapesBounded ==
    \A u \in suspended :
        Cardinality(Escaped(u)) + Cardinality(InFlight(u)) <= Cardinality(Requests)

\* An inactivity limit an administrator shortened applies to the sessions there are, although
\* their expiresAt was computed with the old one: a refresh, an unlock or a guarded call goes
\* on only if the session, by the lastUsedAt it read, was not idle longer than the longest
\* limit in force while the request ran (assertSessionStillActive, JwtAuthGuard).
ShortenedLimitApplies ==
    \A r \in Requests :
        (req[r].kind # "login" /\ req[r].step \in {"readPolicy", "write", "sign", "admitted"})
            => req[r].now - req[r].lastUsedAt <= loosest[r]

\* frontend-api-contract.md:826 on PATCH /admin/users/:id/suspend: "Suspends the user and
\* revokes active sessions."  A suspended user has no live session.
SuspendedUserHasNoSession ==
    \A s \in SessionIds : Live(s, clock) => sessions[s].user \notin suspended
=============================================================================
