# SangaPay backend: specifications, model checking and proofs

TLA+ models of the NestJS backend of SangaPay, the TLC configurations that
check them on small instances, and TLAPS proofs of what matters most for every
instance. Paths below are relative to the repository.

## 1. The system

One Node process, PostgreSQL through Prisma, an e-mail provider, and Reepay, the
payment provider that holds the money. Every HTTP handler is an `async` function.
Between two of its `await`s any other handler may run, and with several
instances of the process even more so; the code takes no locks, and a transaction
only where it says `$transaction` or nests a write. A handler keeps what it
read in local variables and acts on it after other awaits. That is where most of
what can go wrong comes from.

| component | state | operations | hard behaviour | correct when |
|---|---|---|---|---|
| Login sessions (`auth.service.ts`) | `sessions`, `users.status`, `users.passwordHash` | login, refresh, unlock with PIN, logout, confirm reset | checks on snapshots, writes by id alone, 50-row scan | revocation is final; what is granted was justified at one instant |
| JWT guard (`jwt-auth.guard.ts`) | reads `sessions`, the policy | in front of each protected route | two reads, token outlives the session | admits live sessions only |
| Session policy (`session-policy.service.ts`) | rows of `admin_environment_variables` | getPolicy, updatePolicy | keys written separately, values changed while requests run | a shortened limit applies to existing sessions |
| One-time codes (`auth.service.ts`) | `otp_codes`, `users.emailVerifiedAt` | register, resend, request reset, verify, confirm | invalidate and create are two awaits, so are compare and consume; e-mails late, refused or out of order | an accepted code was good; guesses bounded |
| Biometric login (`auth.service.ts`) | `biometric_credentials` | register, set, challenge, login | challenge checked and cleared in separate awaits, every write by deviceId alone | a login was in order at one instant; logins per challenge bounded; the key is the owner's |
| Accounts (`admin.service.ts`, `admin.guard.ts`, `admin-bootstrap.service.ts`, `create-admin.ts`, `register`) | `users`, `sessions` | register, create, update, limits, suspend, activate, delete, bootstrap | lookups before a unique key decides; the role travels in the token; bootstrap rewrites at each start; administrators edit each other | one account per address; rights end with the token; only administrators and whoever runs the backend appoint |
| Reepay webhook (`reepay-webhook.service.ts`) | `reepay_webhook_events` | handle | duplicated, concurrent, forged deliveries; failures and restarts half way | an event is processed at most once, nothing is acknowledged unrecorded |
| Notifications (`notifications.service.ts`) | `notifications`, the preference | createForUser, markRead, preferences | the preference read between the row and the e-mail; account deleted half way | owner only; who has e-mail off gets none |
| KYC (`kyc.service.ts`) | `kyc_submissions`, `users.tier` | submit, approve, reject | status read before it is written | verdicts bounded by the reviews that overlap; tier agrees with the approval |
| Reepay client (`reepay-client.service.ts`) | none | get, post, ... | attempts, timeouts, lost answers | only GETs are sent twice |
| Deposits, payouts, FX | none; Reepay's | quote, confirm, verify | a POST that timed out may have happened; idempotency keys | one movement per key |
| Wallet, FX rates, transactions | none | reads | several calls at once, some late, some failing | a summary shows current values under their own names and says what is missing |
| Beneficiaries (`beneficiaries.service.ts`) | `beneficiaries` | create, update, delete | ownership checked before the write by id; partial updates; Reepay asked before the create | owner only; no update lost |
| Users, uploads | a profile, files | update, save | - | - |
| Plumbing, health, configuration | none | filters, limiters, probes | - | - |

The components meet in the database: suspending, deleting or resetting an
account (admin, one-time codes) rewrites the session rows that refresh and
guard read; the policy is read in the middle of logins and refreshes; the
webhook calls notifications, which call e-mail; an approved KYC submission and an
administrator write the same tier and limits. Money is moved by Reepay alone: a
handler makes one call, and what became of it may never be known.

## 2. Modules

| module | models |
|---|---|
| `Sessions` | login, refresh, unlock, guard, logout and the account operations that end sessions |
| `SessionHistory` | `Sessions` with history variables, for promises about a whole request |
| `SessionRegister` | the abstract register of sessions that `Sessions` implements |
| `Otp` | the one-time codes of one account |
| `Webhook` | the webhook endpoint with the notification it creates |
| `EventInbox` | the abstract inbox the webhook endpoint implements |
| `Biometric` | the biometric credential of one device: registration, settings, challenge, login |
| `Kyc` | submissions, uploads, review, and every writer of tier and deposit limits |
| `ReepayClient` | one call of the Reepay client: attempts, timeout, outcome; Reepay and the network as environment |
| `MoneyMovement` | deposits, payouts, wallet funding and reads on top of `ReepayClient` |
| `MovementBook` | the abstract book of movements `MoneyMovement` implements |
| `Aggregates` | the wallet summary and the exchange rates: several calls of `ReepayClient` at once, put into one answer |
| `Accounts` | the rows of users and who may write them: registration, the administrator's API behind its guards, the configured administrator |
| `OwnedRows` | beneficiaries, notifications and the e-mail preference |
| `MCSessionHistory`, `MCOtp`, `MCWebhook`, `MCBiometric`, `MCKyc`, `MCMoneyMovement`, `MCAggregates`, `MCAccounts`, `MCOwnedRows` | instances for TLC (the symmetry of slots, users, passwords; the bodies of updates) |
| `SessionsProofs`, `OtpProofs`, `WebhookProofs`, `BiometricProofs`, `KycProofs`, `MoneyMovementProofs`, `AccountsProofs`, `OwnedRowsProofs` | theorems and proofs |

### How state and actions correspond to the code

*Slots.* `req[r]` (or `task[h]`) is a handler that runs: `step` is the await it
stands before, the other fields are its local variables. An action is what the
handler does from one await to the next, with the one database statement in it.
A begin action is the arrival of a request; the loss of the response is no
different from the handler's end.

*Sessions.* `sessions[s]` is a row (`user`, `lastUsedAt`, `expiresAt`,
`revokedAt`), numbered in the order of creation, so `orderBy createdAt desc` is
the order of numbers. `BeginLogin`, `FindUser`, `StampSession`, `ReadPolicy`,
`CreateSession`, `SignAccessToken` are the awaits of `login` and `createSession`
in order; `BeginRefresh`, `ScanSessions`, `CheckPin`, `AssertSessionStillActive`,
`ReadPolicy`, `UpdateSession`, `SignAccessToken` those of `refresh` and
`unlockWithPin`, which differ in where the user's status is checked and when `now`
is taken (`ScanSessions`, `AfterPin`). `BeginCall`, `GuardRead`, `GuardPolicy`
are the guard, then `Logout` or `OtherHandler`. `SuspendUser`,
`ConfirmPasswordReset`, `DeleteUser`, `SetStatus`, `SetAccessTtl` and
`SetInactivityTtl` are single statements or transactions.

*Codes.* `codes[c]` is a row of `otp_codes`, `mailbox` the e-mails that arrived;
a user submits any code that arrived or a wrong one. `Abort` is an await that
throws, at any point.

*Webhook.* `rows[e]` is the row with event id `e`. `Deliver` decides on the branch
of the signature; every await has its success and its failures, those that come
before the write (`CreateFails`, `ProcessingFails`, `MarkFailedFails`) and those that
come after it, when the write is committed and its answer lost (`CreateAnswerLost`,
`NotificationAnswerLost`, `FinishAnswerLost`, `MarkFailedAnswerLost`, `EmailAnswerLost`).
A read has no such difference, and an error after the write of a rejected
delivery is swallowed as one before it. What a statement whose answer was lost does, it has done by
the time the error reaches the handler. `Crash` ends all handlers. `lost` remembers events whose
handler stopped short of its last write. In the inbox a PROCESSED is `doubted` while the
handler that wrote it without hearing of it is in its catch: it may still write FAILED over it
(`Overrule`), or stop or fail, and then it stands (`Stand`).

*Biometric.* `credential` is the row of one `deviceId`, which is unique over all
accounts; `key` is the account whose app made the registered key pair.
`BeginRegister`, `CheckPin`, `FindDevice`, then `CreateCredential` or `UpdateKey` are
the awaits of `registerBiometric`; `FindOwnDevice`, `UpdateSetting` those of the
setting; `FindEnabled`, `IssueChallenge` those of the challenge; `CheckLogin`,
`ClearChallenge`, `OpenSession` those of the login. An update of a row that has
gone fails, as in Prisma, which is `Abort`.

*KYC.* `submissions[s]` is a row, `accounts[u]` the tier and limits of a user.
`SaveDocument` is one `uploads.save`, `FindForAdmin` the read and both checks of
`approve` and `reject`, `Approve` the transaction. `CreateUser`, `SetTier`,
`SetLimits`, `DeleteUser` are the administrator's and registration's writes.

*Reepay client.* `call[c]` is the loop of `request`, `wire[c][a]` what became of the
message of attempt `a`: unsent, sent, or answered. `ReepayAnswers` may come at any
time, also after `Fail` gave the attempt up, and except for an answer with data
it may or may not have done what was asked. `ledger` is what Reepay has done.
`MoneyMovement` adds the HTTP handlers: the operations of the services fall into
eight classes (`OpNames`) by what they check, which key they send and whether
they are audited; `Start` is the run from the resolved key to the fetch, which
has no await in it. That Reepay carries out one thing per `Idempotency-Key` is
an assumption of the model (`KnownKey`), and so is that the app uses a key again
for the same operation only.

*Aggregates.* `StartCalls` puts all calls of the list on the wire before the first
await, as the array given to `Promise.allSettled` does; each then goes through
`ReepayClient` alone. `Answer` is taken when all have settled. A version number
stands for what Reepay would say at a moment (`current`), and `carried` for what is in
a message, so that an answer of another call, of an earlier attempt or from before
the request can be told from the right one. The summary has three parts in the
code and the rates two; the operators do not depend on the number.

*Accounts.* `account[i]` is a row of `users`. `Register` or `CreateUser` is the lookup of
the address, `Create` the insert, on which the unique key has the last word.
`Login` and `Refresh` read the role, `OpenSession` and `UpdateSession` sign it;
`BeginCall` is `jwt.verify`, `Admit` the lookup of the session and `AdminGuard`.
`FindUser` and `FindToDelete`, then `UpdateUser`, `SuspendUser` or `DeleteUser`, are the
two awaits of each administrative handler. `Restart` ends all handlers and runs
`onModuleInit` for the configured address; `CreateAdmin` is the script beside the running server,
for any address (`ADMIN_EMAIL`, and without it the configured one). `adminAt` and
`delay` are history.

*Owned rows.* `beneficiary[b]` and `notification[n]` are rows; of a beneficiary the
fields its type needs are filled or not. `FindBeneficiary` and `FindNotification` are
`findOwnedOrThrow`, then the write by id; `BeginMarkAllRead` is the call past its guard and
`MarkAllRead` its one `updateMany`. `named` and `given` of a body are the
properties it has and those that are not empty: an update writes the first and
leaves the rest alone. `emptied` and `wanted` are history.

### Abstractions

- A PIN is right or wrong by choice; a refresh token is its session; a
  hash comparison is equality.
- Users in `Sessions` have a verified e-mail; verification is in `Otp`.
- Prisma's `include` (a second query) is one read with its parent.
- `tokenExp[s]` keeps the longest-lived access token of a session. An older token
  passes `jwt.verify` at no instant this one does not.
- Two rows created at the same instant are ordered by creation (the code leaves
  the order of such ties open).
- The new `accessTokenTtlSec` and `refreshTokenInactivityTtlSec` are any of the
  values the policy can resolve to; `appLockTtlSec` is for the client only.
- `Otp` has one account that is not deleted; its password reset ends in
  `MakeEffect`, whose effect on sessions is `ConfirmPasswordReset` of `Sessions`.
- `Biometric` has one device; rows of different devices have nothing in common.
- Files of an aborted upload stay on disk; the model does not keep them.
- A user's row is not created again once deleted: its id is a fresh UUID.
- Notification titles, payloads and log lines are left out.
- In `Accounts` a session ends with suspension or deletion; one that was logged out
  or has expired is one no call uses any more. E-mail addresses are verified at
  any time, so a login needs an active row only. PIN, password and limits are in
  `Sessions` and `Kyc`.
- In `OwnedRows` a handler is past the guard; `status` and the columns no type needs
  are left out, and `sendEmail: false`, which no caller in the repository passes, too.
- Two aggregates do not meet (no state is shared), so one handler is enough.
- An answer with data always has a value in it; that of Reepay's `{"data": null}`, which
  `unwrapData` lets pass, is left out.

## 3. What is checked

| run | instance | shows |
|---|---|---|
| `sessions_races` | 1 user, 2 passwords, 2 requests, up to 2 sessions, limits of 1 and 3, clock 0..2; `Explored` (below) | `GrantsAreJustified`, `MassRevocationIsComplete`, the bound `EscapesBounded` on what a suspension lets through, and the refinement `ImplementsRegister`, under every interleaving of two requests with resets, suspensions, deletion; `UsageTimesCoherent` and `ShortenedLimitApplies` of two overlapping refreshes, unlocks or calls while an administrator changes the limit |
| `sessions_suspension` | 1 session | *violated*: a suspended user has a live session |
| `sessions_refused` | 2 sessions, 1 request, scan of 1 | *violated*: a live session of an active user is turned away |
| `otp_races` | 2 codes, 2 requests, 2 attempts, clock 0..2 | `AcceptedCodeWasGood` and the bounds `GuessesBounded`, `OutstandingBounded`, `UsesPerCodeBounded` by the requests that overlap |
| `webhook_deliveries` | 2 events, 2 handlers, 2 failures | `AtMostOnce`, `OneOwner`, `ProcessedMeansNotified`, `AcknowledgedIsRecorded`, the refinement `ImplementsInbox`, and, under fairness, `AcceptedIsSettled` and `EventIsAcknowledged` |
| `biometric_races` | 2 accounts, 2 requests, 2 challenges, clock 0..2 | `LoginWasInOrder`, `LoginsPerChallengeBounded`, `KeyIsTheOwners` |
| `kyc_reviews` | 2 users, 2 requests, 2 submissions | `SubmissionsAreComplete`, `VerdictsBounded`, `TierFollowsApproval` |
| `kyc_rejected` | 1 user, 1 submission | *violated*: a message of the code |
| `movement_calls` | 2 requests, all operations, 1 client key, 3 attempts | `PostIsSentOnce`, `SuccessMeansMade`, `EffectsAreAudited`, the refinement `ImplementsBook`, and, under the fairness of the timer alone, `CallsEnd` |
| `aggregates` | 2 parts, 2 attempts each, 2 changes at Reepay | `ValuesAreCurrent`, `MissingIsTold`, and, under fairness, `AggregateIsAnswered` |
| `accounts_rights` | 2 addresses, 2 accounts, 2 requests, 2 sessions, 2 tokens, clock 0..1 | `OneAccountPerAddress`, `AdminRightsLapse`, `AppointedByAdmins` |
| `owned_rows` | 2 users, 2 requests, 1 beneficiary of either of 2 types, 1 notification | `OnlyTheOwnerWrites`, `UpdatesAreNotLost`, `CompleteUnlessEmptied`, `NothingOutlivesItsUser`, `PreferenceHonoured` |

The type invariants are part of the proved invariants of section 5; the runs spend their
time on the rest.

*Why these bounds.* The properties relate one request to one interfering action
or to one other request; two slots give every such pair, a third party is an
environment action (reset, suspension, policy). Two sessions tell the newest
from the others; a scan limit below the number of sessions makes the window
bite, as 50 does in a table of more. Two time units pass every boundary of a
limit of one and leave a state beyond it. Two handlers
race for one event or work on one each, and two failures put one failure into the
recovery of another. Two challenges give a current and an older one. Two
requests under one key are a movement and its repetition, at once or later. Two
parts of an aggregate tell none, one and all missing apart and can be confused with
each other. Two accounts are an administrator and one who may become or
replace him; a token's lifetime of one expires within the run. One row has two
writers when two handlers work on it, and its neighbour's writes are other
states of the same row. `MaxSessions`, `MaxCodes`, `MaxChallenges`, `MaxSubmissions`, `MaxTime` and
`MaxFailures` are bounds on the runs; the theorems hold for each value of them.

*The constraint of `sessions_races`.* Two questions share the run, and everything at once would be
too many states, so `Explored` lets TLC follow a state in two cases. `LimitIsOne`: the limit
stays 1 and the clock at most 1, enough for a session to expire; then two requests, two sessions,
resets, suspensions and deletions are free. `OneSessionInUse`: one session of an active user, no login
after the one that opened it; then the limit goes between 1 and 3 as often as it likes and the
clock to 2, so that two refreshes overlap with different times and different limits, write in
either order, and find a session too old for the shorter one only. Both cases start in the initial state.

*Deadlock.* All runs but `webhook_deliveries` allow a stop: with the clock, the rows
or the requests of the instance used up an idle server has nothing left to do; the
webhook's never is, and it is checked for deadlock.

*Fairness* (`webhook_deliveries`, `movement_calls` and `aggregates`). `WF(HandlerStep(h))`: the event loop resumes
a handler whose await has been answered, and an await that is never answered is
a failure or a restart, which are separate actions and never fair. A create that is committed and
throws leaves an accepted event nobody works on: `AcceptedIsSettled` counts it among the lost.
`SF(Redeliver(e))`: the provider repeats a genuine delivery until it gets a 2xx,
and the server accepts it whenever it has a free slot again and again. Failures
are finite, `MaxFailures`; without that nothing need ever be acknowledged.
`WF(Fail(c, "timeout"))`: `send` sets a timer for each attempt and clears it only
when the attempt is over. `WF(StartCalls)` and `WF(Answer)`: the event loop goes on with a
handler whose awaits have settled. No fairness is assumed of Reepay, the network or the
database.

## 4. What the failing runs say

Each is a behaviour of the code that a document of the repository excludes.

1. *Suspension and a login under way* (`auth.service.ts:448`, run
   `sessions_suspension`). The login's session is created after the suspension
   revoked the others; the guard does not read the user, so it works until it
   expires (`frontend-api-contract.md:826`).
2. *Approved, then rejected* (`kyc.service.ts:146`, run `kyc_rejected`). Two reviews
   read the submission as open; the rejection overwrites the approval, and the
   user keeps tier 2 (`kyc.service.ts:143`).
3. *The full window* (`auth.service.ts:158`, `:503`, run `sessions_refused`). The refresh token is
   compared with the 50 newest live sessions of all users; one that fell out is
   refused, although its session was neither ended nor idle for too long
   (`frontend-api-contract.md:79`). The run has a window of 1.

Met while modelling, and visible in the models, but without a run:

- issuing withdraws the earlier codes and consuming looks at the newest only
  (`auth.service.ts:547`, `:578`), where `frontend-api-contract.md:154` has any unused code
  accepted and all of them consumed with it (`AcceptedCodeWasGood` holds of either behaviour, and says
  nothing of which unused code is taken);
- a PROCESSED that was committed and whose answer was lost is overwritten with FAILED by the catch
  of the same handler, although the customer was told (`reepay-webhook.service.ts:73` to `:92`), and a
  create that is committed and throws leaves the event RECEIVED for good, because its
  repetitions are duplicates (`:34` to `:50`);
- two resends can both pass the cooldown check before either writes, and each
  withdraw the other's code before a third reads it (`auth.service.ts:122`);
- an account that an administrator creates in, or moves to, tier 2 keeps deposit
  limits of 0 (`admin.service.ts:59`, against `frontend-api-contract.md:411`);
- an update of a beneficiary may empty what its type requires (`beneficiaries.service.ts:71`,
  against the messages of `:116` to `:126`, which only a create sends);
- `updateUser` with status DISABLED leaves the sessions live, `suspendUser` revokes
  them (`admin.service.ts:103`, `:134`);
- two administrators can delete each other (`deleteUser` compares the id with the caller's and no
  more), and a start then restores the configured one; once the configured account was
  renamed, the next start creates a second administrator (`admin.service.ts:158`, `:99`).

What holds nevertheless is stated as precisely as it holds: a request under way is granted what it was
entitled to at some instant of its run; wrong guesses
exceed their limit by at most the number of overlapping requests; a suspended user
gets the sessions of the logins that were in flight at that instant and no others
(`EscapesBounded`); and the same number bounds
the outstanding codes, the uses of one code, the logins of a challenge and the verdicts
of a submission; an administrative call is admitted for an account that was ADMIN
less than a token's lifetime before. `KeyIsTheOwners` holds
as long as no account is deleted: a deletion between the check and the update of
`registerBiometric` frees the `deviceId` for another account, whose row the update
then finds.

## 5. What is proved

All for every set of users, passwords, requests, handlers and events, every
limit and bound, from the assumptions the modules name: `SessionAssumption`, `OtpAssumption`,
`WebhookAssumption`, `BiometricAssumption`, `KycAssumption`, `ClientAssumption`, `OpsAssumption`,
`AccountsAssumption`, `OwnedAssumption`, `RequestsAssumption`, `AggregatesAssumption` and those that
start with `NullIs` (numbers are numbers, limits are positive, the slots are finitely many where
they are counted, keys the app makes differ from those the server makes, NULL is no value).

| theorem | states | argument |
|---|---|---|
| `TypeCorrect` | `Spec => []TypeOK` | `TypeInv` adds to `TypeOK` that a login in progress names its user and a handler past its scan names a session, without which `NewSession` and `Touched` would not be rows |
| `RevocationHolds` | `Spec => RevocationIsFinal` | each write to `sessions` is a fresh row, a `Touched` row, a revocation or a deletion (`SessionWrites`), and none of them changes `revokedAt` of a revoked row |
| `SessionsImplementRegister` | `Spec => ImplementsRegister` | `HandlersShow`: a handler's step opens the next row, ends one, or is seen by nobody, for `Touched` leaves user and `revokedAt` alone (`ShownOfRow`) and an update finds its row or refuses; suspension and reset are `EndAll` (`EndsAll`), a deletion is `Remove` |
| `SessionsKeepPromise` | `Spec => []Register!NoOrphans /\ Register!EndIsFinal` | both are proved of the register alone (`RegisterKeepsPromise`) and come to `Sessions` through the refinement |
| `EscapesHold` | `HSpec => []EscapesBounded` | `EscapeInv`: of a suspended user, escaped sessions and logins in flight together are at most the slots; a login that writes moves from one set to the other, no new one passes the check while the user is suspended, and both sets are finite (`EscapesFinite`) |
| `UsageTimesHold` | `Spec => []UsageTimesCoherent` | needs of every handler that its `now` is not in the future and that before the write its limit is a limit of the policy: the row gets both columns from one handler |
| `MassRevocationHolds` | `HSpec => []MassRevocationIsComplete` | a refresh under way writes `lastUsedAt` and `expiresAt` only; new sessions have numbers above `endedUpTo` |
| `GrantsJustified` | `HSpec => []GrantsAreJustified` | the step that passes a check is taken in a state where `Justified` holds, and the history keeps it while the request runs |
| `LimitReaches` | `HSpec => []ShortenedLimitApplies` | `LimitsObserved`: the history is never below the present limit while a request runs; the check compares with the present one, and after it the two times stay |
| `AcceptanceHolds` | `Spec => []AcceptedCodeWasGood` | the step that passes the check is taken where the code is good (unexpired, unused, with attempts left, for that purpose); rows are issued in order and handlers name rows that exist (`RowsInv`) |
| `GuessesHold`, `OutstandingHolds`, `UsesHold` | the bounds of `Otp` | counting: one request joins or leaves a set at a step; a code that is not consumed has not been used, and a withdrawal leaves none outstanding |
| `LoginsInOrder`, `LoginsHold` | `Spec => []LoginWasInOrder`, `Spec => []LoginsPerChallengeBounded` | `CurrentIsUnused`: the challenge in the row has opened nothing, so the logins that read it are all still on their way |
| `KeysHold` | `Spec => []KeyIsTheOwners` | `RekeysOwnRow`: while no account is deleted, a handler before its update found its own row |
| `SuccessHolds`, `AuditHolds` | `Spec => []SuccessMeansMade`, `Spec => []EffectsAreAudited` | a call carries the key of its intent from the start (`CallsCarryKeys`), what Reepay did was asked for under it (`LedgerOfCalls`), and an answer with data is true while it is on the wire (`AnswersAreTrue`) |
| `PostSentOnce` | `Spec => []PostIsSentOnce` | a POST has one attempt (`AttemptsOf`), and what is on the wire was sent by an attempt the call has begun (`SentSoFar`) |
| `MovementsKeepPromise` | `Spec => []Book!BookPromise` | the promise is an invariant of the book, and `ImplementsBook` carries it over |
| `AggregateTypes`, `AggregatesCurrent`, `MissingTold` | `AggregateSpec => []AggregateTypeOK`, `AggregateSpec => []ValuesAreCurrent`, `AggregateSpec => []MissingIsTold` | `AggregateInv`: the values an answer on the wire or an outcome carries are those of its own part, from `since` to now, attempt by attempt; all is settled when the answer is taken |
| `MovementsImplementBook` | `Spec => ImplementsBook` | `OncePerIntent`: the ledger has one effect of an intent at most, for a key Reepay does not know has made nothing (`KnownMeansMade`); each step is a `Make`, a `Report` or a stutter |
| `ToldAtMostOnce`, `OneOwnerHolds`, `ProcessedHolds` | the webhook's safety | each step has one of seven shapes (`StepShape`); that an owned row has one owner and is RECEIVED, or PROCESSED with its owner in the catch, is inductive, and with it how often the customer was told at each step of the owner |
| `AcknowledgedHolds` | `Spec => []AcknowledgedIsRecorded` | whoever answers 2xx has met a row or owns one, and rows stay |
| `EndpointImplementsInbox` | `Spec => ImplementsInbox` | each shape is one action of the inbox or a stutter |
| `EndpointKeepsPromise` | `Spec => []Inbox!ToldOnce /\ Inbox!VerdictIsFinal` | what the inbox promises, with the doubted verdict as it is, proved of the inbox and carried over |
| `KycProofs`: `CompleteSubmissions`, `TierCorrect` | the safety of the KYC review | `IInv` adds that no row is beyond `created`, that a review names a row that was created, and that nobody without an account was ever raised: otherwise a review could write to a submission that is created later, or an account could be born raised |
| `VerdictsCorrect` | `Spec => []VerdictsBounded` | needs of `IInv` that an open submission has no verdict: a review can only join the others before the first verdict, and each verdict uses one of them up |
| `OneAddressHolds` | `Spec => []OneAccountPerAddress` | every write to `account` is one row whose address no other has (`WriteKeeps`), or a deletion; needs that an edit without an address keeps one that was free |
| `RightsLapse` | `Spec => AdminRightsLapse` | `TokensAreTrue`: a token that says ADMIN was signed at most `delay` after its user was one; needs of a handler that what it read was true when it read it (`ReadsAreTrue`), and of a call that its token was in time (`VerifiedInTime`) |
| `AppointmentHolds` | `Spec => AppointedByAdmins` | `CallersWereAdmins`: past the guards the caller has been ADMIN; every write of a role is the upsert of a given address, or the row a request creates or edits |
| `OwnershipHolds`, `UpdatesHold` | `Spec => OnlyTheOwnerWrites`, `Spec => UpdatesAreNotLost` | a handler before its write knows the user and the type of the row it writes, for as long as the row is there: rows are never created again under an old id (`RowsAreMade`), and their user and type never change; a bulk update and a cascade touch the rows of one user |
| `CompleteHolds`, `PreferenceHolds`, `NothingOutlives` | the invariants of `OwnedRows` | `CreatesComplete`: what is to be created has what its type needs; `MailsWanted`: who is about to be mailed had e-mail on since; the foreign key |

Each module's type invariant is part of its strengthening. The theorems about `Aggregates` stand at
the end of `MoneyMovementProofs`, with which they share the facts about the client's data.

Every invariant and every action property the passing runs check is the property of a theorem. Only
model-checked are the liveness properties (`AcceptedIsSettled`, `EventIsAcknowledged`, `CallsEnd`,
`AggregateIsAnswered`), since fairness and ENABLED are beyond the prover. What the abstract specifications promise
(`NoOrphans`, `EndIsFinal`, `ToldOnce`, `VerdictIsFinal`, `BookPromise`) is proved of them alone and
comes to the detailed ones through the refinement; no run repeats it.

## 6. Plan

What is left, in this order:

1. `SessionPolicy`: how the stored text of a limit is parsed and clamped, over bounded
   inputs; the reading of both limits in one `getPolicy` against two upserts.
2. `Biometric` composed with `Sessions` through `createSession`.

Not to be modelled: HTTP plumbing, rate limiters (a library), health probes,
validation of environment variables, and the formatting of responses and log lines.
