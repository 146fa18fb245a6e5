--------------------------------- MODULE Otp ---------------------------------
(***************************************************************************)
(* One-time codes of one account: issuing, resending and consuming them    *)
(* for e-mail verification and for password reset (issueOtp, consumeOtp    *)
(* and their callers in src/auth/auth.service.ts).                         *)
(*                                                                         *)
(* issueOtp and consumeOtp are several awaits long and take no lock, so    *)
(* the handlers of two requests interleave between them, and any of them   *)
(* can stop half way: a database error, a refused e-mail or a restart.     *)
(***************************************************************************)
EXTENDS Integers, FiniteSets

CONSTANTS
    Requests,       \* slots for concurrently running HTTP requests
    MaxCodes,       \* bound: rows of otp_codes ever created
    OtpTtl,         \* OTP_TTL_SEC, in clock units
    ResendCooldown, \* OTP_RESEND_COOLDOWN_SEC, in clock units
    MaxAttempts,    \* OTP_MAX_ATTEMPTS
    MaxTime,        \* bound: last value of the clock
    Null            \* no row

ASSUME OtpAssumption ==
    /\ MaxCodes \in Nat
    /\ OtpTtl \in Nat \ {0}
    /\ ResendCooldown \in Nat
    /\ MaxAttempts \in Nat \ {0}
    /\ MaxTime \in Nat
    /\ IsFiniteSet(Requests)

VARIABLES
    clock,
    registered,     \* the user's row exists
    verified,       \* emailVerifiedAt is set
    codes,          \* codes[c]: the c-th row created in otp_codes, or Null
    issued,         \* number of rows created
    mailbox,        \* codes the e-mail provider has delivered
    req,            \* req[r]: the handler running in slot r and its locals
    uses,           \* history: how many submissions went on with code c (uses[c])
    good            \* history: submissions whose code was good at an instant of their run

vars == <<clock, registered, verified, codes, issued, mailbox, req, uses, good>>

Purposes == {"EMAIL_VERIFICATION", "PASSWORD_RESET"}

CodeIds == 1 .. MaxCodes

OtpCode == [purpose: Purposes, createdAt: Nat, expiresAt: Nat, attempts: Nat, consumed: BOOLEAN]

ASSUME NullIsNoCode == Null \notin OtpCode

Kinds == {"none", "register", "resend", "requestReset", "verifyEmail", "confirmReset"}

Steps == {"idle", "cooldown", "invalidate", "create", "email", "find", "fail", "consume", "effect"}

\* code is the code the client sent (0: a wrong one), otp the row the handler works on
Request == [kind: Kinds, step: Steps, code: 0 .. MaxCodes, otp: 0 .. MaxCodes]

Idle == [kind |-> "none", step |-> "idle", code |-> 0, otp |-> 0]

TypeOK ==
    /\ clock \in Nat
    /\ registered \in BOOLEAN /\ verified \in BOOLEAN
    /\ codes \in [CodeIds -> OtpCode \cup {Null}]
    /\ issued \in 0 .. MaxCodes
    /\ mailbox \subseteq CodeIds
    /\ req \in [Requests -> Request]
    /\ uses \in [CodeIds -> Nat]
    /\ good \subseteq Requests

Init ==
    /\ clock = 0
    /\ registered = FALSE /\ verified = FALSE
    /\ codes = [c \in CodeIds |-> Null]
    /\ issued = 0
    /\ mailbox = {}
    /\ req = [r \in Requests |-> Idle]
    /\ uses = [c \in CodeIds |-> 0]
    /\ good = {}

-----------------------------------------------------------------------------
At(r, step) == req[r].step = step

Purpose(r) ==
    IF req[r].kind \in {"requestReset", "confirmReset"} THEN "PASSWORD_RESET"
    ELSE "EMAIL_VERIFICATION"

Goto(r, step) == req' = [req EXCEPT ![r].step = step]

Done(r) == req' = [req EXCEPT ![r] = Idle]

\* where: { userId, purpose, consumedAt: null }
Outstanding(p) == {c \in CodeIds : codes[c] # Null /\ codes[c].purpose = p /\ ~codes[c].consumed}

Unexpired(c) == codes[c].expiresAt > clock

\* findFirst with orderBy createdAt desc: at most one code, the newest
Newest(S) == {c \in S : \A d \in S : d <= c}

-----------------------------------------------------------------------------
(* POST /auth/register, /auth/resend-email-otp, /auth/request-password-    *)
(* reset: the handlers that issue a code.                                  *)

\* user.create; only the first registration of the address gets that far
Register(r) ==
    /\ At(r, "idle") /\ ~registered
    /\ registered' = TRUE
    /\ req' = [req EXCEPT ![r] = [Idle EXCEPT !.kind = "register", !.step = "invalidate"]]
    /\ UNCHANGED <<clock, verified, codes, issued, mailbox, uses>>

\* findUserByEmail, and the refusal of a verified address
ResendEmailOtp(r) ==
    /\ At(r, "idle") /\ registered /\ ~verified
    /\ req' = [req EXCEPT ![r] = [Idle EXCEPT !.kind = "resend", !.step = "cooldown"]]
    /\ UNCHANGED <<clock, registered, verified, codes, issued, mailbox, uses>>

RequestPasswordReset(r) ==
    /\ At(r, "idle") /\ registered
    /\ req' = [req EXCEPT ![r] = [Idle EXCEPT !.kind = "requestReset", !.step = "invalidate"]]
    /\ UNCHANGED <<clock, registered, verified, codes, issued, mailbox, uses>>

\* getOtpRetryAfterSec: the newest unconsumed code, expired or not, is too young
CoolingDown == \E c \in Newest(Outstanding("EMAIL_VERIFICATION")) :
                  clock - codes[c].createdAt < ResendCooldown

CheckCooldown(r) ==
    /\ At(r, "cooldown")
    /\ \/ ~CoolingDown /\ Goto(r, "invalidate")
       \/ CoolingDown /\ Done(r)
    /\ UNCHANGED <<clock, registered, verified, codes, issued, mailbox, uses>>

\* Mutant: the codes that have been guessed at are not withdrawn
InvalidatedUntried(p) ==
    [c \in CodeIds |->
        IF c \in Outstanding(p) /\ codes[c].attempts = 0
        THEN [codes[c] EXCEPT !.consumed = TRUE] ELSE codes[c]]

\* updateMany: every outstanding code of the purpose is marked consumed
Invalidated(p) ==
    [c \in CodeIds |->
        IF c \in Outstanding(p) THEN [codes[c] EXCEPT !.consumed = TRUE] ELSE codes[c]]

InvalidateCodes(r) ==
    /\ At(r, "invalidate")
    /\ codes' = Invalidated(Purpose(r))
    /\ Goto(r, "create")
    /\ UNCHANGED <<clock, registered, verified, issued, mailbox, uses>>

CreateCode(r) ==
    /\ At(r, "create")
    /\ issued < MaxCodes
    /\ issued' = issued + 1
    /\ codes' = [codes EXCEPT ![issued + 1] =
                   [purpose |-> Purpose(r), createdAt |-> clock, expiresAt |-> clock + OtpTtl,
                    attempts |-> 0, consumed |-> FALSE]]
    /\ req' = [req EXCEPT ![r].step = "email", ![r].otp = issued + 1]
    /\ UNCHANGED <<clock, registered, verified, mailbox, uses>>

EmailCode(r) ==
    /\ At(r, "email")
    /\ mailbox' = mailbox \cup {req[r].otp}
    /\ Done(r)
    /\ UNCHANGED <<clock, registered, verified, codes, issued, uses>>

-----------------------------------------------------------------------------
(* POST /auth/verify-email and /auth/confirm-password-reset: consumeOtp    *)
(* and what follows it.                                                    *)

\* The user sends a code from the mailbox, an old one or a new one, or a wrong one.
SubmitCode(r, kind, c) ==
    /\ At(r, "idle") /\ registered
    /\ c \in mailbox \cup {0}
    /\ req' = [req EXCEPT ![r] = [kind |-> kind, step |-> "find", code |-> c, otp |-> 0]]
    /\ UNCHANGED <<clock, registered, verified, codes, issued, mailbox, uses>>

\* Mutant: where without consumedAt: null
CandidatesEvenConsumed(p) ==
    Newest({c \in CodeIds : codes[c] # Null /\ codes[c].purpose = p /\ Unexpired(c)})

\* findFirst({ where: { userId, purpose, consumedAt: null, expiresAt: { gt } }, orderBy })
Candidates(p) == Newest({c \in Outstanding(p) : Unexpired(c)})

\* Mutant: one attempt too many
MayAttemptOnceMore(c) == codes[c].attempts <= MaxAttempts

MayAttempt(c) == codes[c].attempts < MaxAttempts

\* findFirst and bcrypt.compare, on the row as it was read
FindCode(r) ==
    LET Found == {c \in Candidates(Purpose(r)) : MayAttempt(c)}
    IN  /\ At(r, "find")
        /\ \/ \E c \in Found :
                 req' = [req EXCEPT ![r].otp = c,
                                    ![r].step = IF req[r].code = c THEN "consume" ELSE "fail"]
           \/ Found = {} /\ Done(r)
        /\ UNCHANGED <<clock, registered, verified, codes, issued, mailbox, uses>>

\* attempts: { increment: 1 }
Counted(row) == [row EXCEPT !.attempts = @ + 1]

\* The increment, and the 401
CountAttempt(r) ==
    /\ At(r, "fail")
    /\ codes' = [codes EXCEPT ![req[r].otp] = Counted(@)]
    /\ Done(r)
    /\ UNCHANGED <<clock, registered, verified, issued, mailbox, uses>>

\* The update is by id alone: the row may have been consumed meanwhile.
ConsumeCode(r) ==
    /\ At(r, "consume")
    /\ codes' = [codes EXCEPT ![req[r].otp].consumed = TRUE]
    /\ uses' = [uses EXCEPT ![req[r].otp] = @ + 1]
    /\ Goto(r, "effect")
    /\ UNCHANGED <<clock, registered, verified, issued, mailbox>>

\* user.update of verifyEmail, the transaction of confirmPasswordReset
MakeEffect(r) ==
    /\ At(r, "effect")
    /\ verified' = (verified \/ req[r].kind = "verifyEmail")
    /\ Done(r)
    /\ UNCHANGED <<clock, registered, codes, issued, mailbox, uses>>

-----------------------------------------------------------------------------
\* The await throws: a database error, an e-mail the provider refuses, a restart.
Abort(r) ==
    /\ ~At(r, "idle")
    /\ Done(r)
    /\ UNCHANGED <<clock, registered, verified, codes, issued, mailbox, uses>>

Tick ==
    /\ clock < MaxTime
    /\ clock' = clock + 1
    /\ UNCHANGED <<registered, verified, codes, issued, mailbox, req, uses>>

\* The code r submitted is unexpired, unused and has attempts left, now, and is for what r does.
Good(r) ==
    \E c \in Outstanding(Purpose(r)) :
        c = req[r].code /\ Unexpired(c) /\ codes[c].attempts < MaxAttempts

Observe ==
    good' = {r \in Requests : req'[r].step # "idle" /\ (r \in good \/ Good(r)')}

Next ==
    /\ \/ \E r \in Requests :
             \/ Register(r)
             \/ ResendEmailOtp(r)
             \/ RequestPasswordReset(r)
             \/ CheckCooldown(r)
             \/ InvalidateCodes(r)
             \/ CreateCode(r)
             \/ EmailCode(r)
             \/ \E kind \in {"verifyEmail", "confirmReset"}, c \in 0 .. MaxCodes :
                   SubmitCode(r, kind, c)
             \/ FindCode(r)
             \/ CountAttempt(r)
             \/ ConsumeCode(r)
             \/ MakeEffect(r)
             \/ Abort(r)
       \/ Tick
    /\ Observe

Spec == Init /\ [][Next]_vars

-----------------------------------------------------------------------------
\* A request that goes on to verify the address or reset the password does so with a code that
\* was, at one instant between its arrival and now, unexpired, unused, with attempts left and
\* issued for that purpose.  So a code used or withdrawn before the request came is of no use
\* to it, although nothing locks the row between findFirst and update, and other requests
\* issue, withdraw, miss and use codes meanwhile (consumeOtp).
AcceptedCodeWasGood ==
    \A r \in Requests : req[r].step \in {"consume", "effect"} => r \in good

\* Wrong guesses at one code are limited: overlapping submissions all read the counter before
\* any of them increments it, and exceed OTP_MAX_ATTEMPTS by at most one per other request.
GuessesBounded ==
    \A c \in CodeIds : codes[c] # Null =>
        codes[c].attempts
          + Cardinality({r \in Requests : At(r, "fail") /\ req[r].otp = c})
            <= MaxAttempts + Cardinality(Requests) - 1

\* Codes of one purpose pile up only by overlap: the handlers that have withdrawn the old
\* codes and not yet created theirs, and the codes outstanding, are never more than the
\* requests that run at once (updateMany, then create, in issueOtp).
OutstandingBounded ==
    \A p \in Purposes :
        Cardinality(Outstanding(p))
            + Cardinality({r \in Requests : At(r, "create") /\ Purpose(r) = p})
            <= Cardinality(Requests)

\* One code verifies or resets no more often than requests overlap: all of them can read it
\* before the first consumes it, and after that nobody finds it (consumeOtp).
UsesPerCodeBounded ==
    \A c \in CodeIds :
        uses[c] + Cardinality({r \in Requests : At(r, "consume") /\ req[r].otp = c})
            <= Cardinality(Requests)
=============================================================================
