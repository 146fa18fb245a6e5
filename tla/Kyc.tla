--------------------------------- MODULE Kyc ---------------------------------
(***************************************************************************)
(* KYC submissions, their review, and the tier and deposit limits an       *)
(* approval gives (src/kyc/kyc.service.ts), together with the other        *)
(* writers of tier and limits (src/admin/admin.service.ts).                *)
(*                                                                         *)
(* approve and reject read the submission in one await and write it by id  *)
(* in a later one, so two reviews of a submission can overlap.  The        *)
(* $transaction of an approval is one step.                                *)
(***************************************************************************)
EXTENDS Integers, FiniteSets, Sequences

CONSTANTS
    Users,
    Requests,        \* slots for concurrently running HTTP requests
    MaxSubmissions,  \* bound: rows of kyc_submissions ever created
    Null,            \* no row, no account yet
    Deleted          \* no account any more

ASSUME KycAssumption ==
    /\ MaxSubmissions \in Nat
    /\ Null \notin Users
    /\ Null # Deleted
    /\ IsFiniteSet(Requests)

VARIABLES
    accounts,     \* accounts[u]: tier and deposit limits of the user's row, Null
                  \* before it is created, and Deleted after
    submissions,  \* submissions[s]: the s-th row created in kyc_submissions, or Null
    created,      \* number of submissions created
    req,          \* req[r]: the handler running in slot r and its locals
    verdicts,     \* history: verdicts[s]: how often a verdict was written to s
    raised,       \* history: users an approval has raised to tier 2
    edited        \* history: users whose tier or limits an administrator chose since then

vars == <<accounts, submissions, created, req, verdicts, raised, edited>>

Tiers == {"TIER_1", "TIER_2"}

\* limits: those of a tier, or numbers an administrator typed in
Account == [tier: Tiers, limits: Tiers \cup {"edited"}]

ASSUME NullIsNoAccount == Null \notin Account /\ Deleted \notin Account

SubmissionIds == 1 .. MaxSubmissions

\* The files of POST /kyc/tier-2, in the order they are saved
Documents == <<"proofOfAddress", "faceVerification", "idFront", "idBack">>

Submission ==
    [user: Users, status: {"PENDING", "APPROVED", "REJECTED"}, tierTwo: BOOLEAN,
     documents: 0 .. Len(Documents)]

\* saved: documents saved so far; sub: the submission under review
Request ==
    [kind: {"none", "tierTwo", "approve", "reject"},
     step: {"idle", "upload", "find", "write"},
     user: Users \cup {Null}, saved: 0 .. Len(Documents), sub: {0} \cup SubmissionIds]

Idle == [kind |-> "none", step |-> "idle", user |-> Null, saved |-> 0, sub |-> 0]

\* The columns' defaults are the limits of tier 1, whatever the tier.
Fresh(t) == [tier |-> t, limits |-> "TIER_1"]

TypeOK ==
    /\ accounts \in [Users -> Account \cup {Null, Deleted}]
    /\ submissions \in [SubmissionIds -> Submission \cup {Null}]
    /\ created \in 0 .. MaxSubmissions
    /\ req \in [Requests -> Request]
    /\ verdicts \in [SubmissionIds -> Nat]
    /\ raised \subseteq Users /\ edited \subseteq Users

Init ==
    /\ accounts = [u \in Users |-> Null]
    /\ submissions = [s \in SubmissionIds |-> Null]
    /\ created = 0
    /\ req = [r \in Requests |-> Idle]
    /\ verdicts = [s \in SubmissionIds |-> 0]
    /\ raised = {}
    /\ edited = {}

-----------------------------------------------------------------------------
At(r, kind, step) == req[r].kind = kind /\ req[r].step = step

Done(r) == req' = [req EXCEPT ![r] = Idle]

HasAccount(u) == accounts[u] \notin {Null, Deleted}

\* kycSubmission.create: the row's status is PENDING by default
Create(u, tierTwo, documents) ==
    /\ created < MaxSubmissions
    /\ HasAccount(u)
    /\ created' = created + 1
    /\ submissions' = [submissions EXCEPT ![created + 1] =
                         [user |-> u, status |-> "PENDING", tierTwo |-> tierTwo,
                          documents |-> documents]]

\* POST /kyc/submissions: the client names images it has elsewhere
Submit(u) ==
    /\ Create(u, FALSE, 0)
    /\ UNCHANGED <<accounts, req, verdicts, raised, edited>>

-----------------------------------------------------------------------------
(* POST /kyc/tier-2                                                        *)

BeginTierTwo(r, u) ==
    /\ req[r].step = "idle" /\ HasAccount(u)
    /\ req' = [req EXCEPT ![r] = [Idle EXCEPT !.kind = "tierTwo", !.step = "upload", !.user = u]]
    /\ UNCHANGED <<accounts, submissions, created, verdicts, raised, edited>>

\* uploads.save; a file that is missing, too large or of another type makes it throw (Abort)
SaveDocument(r) ==
    /\ At(r, "tierTwo", "upload") /\ req[r].saved < Len(Documents)
    /\ req' = [req EXCEPT ![r].saved = @ + 1]
    /\ UNCHANGED <<accounts, submissions, created, verdicts, raised, edited>>

\* Mutant: the last save is not awaited
MostSaved(r) == req[r].saved >= Len(Documents) - 1

AllSaved(r) == req[r].saved = Len(Documents)

SubmitTierTwo(r) ==
    /\ At(r, "tierTwo", "upload") /\ AllSaved(r)
    /\ Create(req[r].user, TRUE, req[r].saved)
    /\ Done(r)
    /\ UNCHANGED <<accounts, verdicts, raised, edited>>

-----------------------------------------------------------------------------
(* POST /admin/kyc/submissions/:id/approve and .../reject                  *)

BeginReview(r, kind, s) ==
    /\ req[r].step = "idle" /\ s <= created
    /\ req' = [req EXCEPT ![r] = [Idle EXCEPT !.kind = kind, !.step = "find", !.sub = s]]
    /\ UNCHANGED <<accounts, submissions, created, verdicts, raised, edited>>

\* Mutant: findForAdmin lets a rejected submission through
UnlessApproved(row) == row.status # "APPROVED"

\* What findForAdmin and the check after it let through: REJECTED is refused for both,
\* APPROVED is returned as it is by approve and refused by reject.
MayReview(row) == row.status \notin {"REJECTED", "APPROVED"}

FindForAdmin(r) ==
    /\ req[r].step = "find"
    /\ IF submissions[req[r].sub] # Null /\ MayReview(submissions[req[r].sub])
       THEN req' = [req EXCEPT ![r].step = "write"]
       ELSE Done(r)
    /\ UNCHANGED <<accounts, submissions, created, verdicts, raised, edited>>

\* update({ where: { id } }): fails when the row is gone
WriteVerdict(s, status) ==
    /\ submissions[s] # Null
    /\ submissions' = [submissions EXCEPT ![s].status = status]
    /\ verdicts' = [verdicts EXCEPT ![s] = @ + 1]

\* Mutant: the limits are left as they are
TierOnly(row) == [row EXCEPT !.tier = "TIER_2"]

Promoted(row) == [tier |-> "TIER_2", limits |-> "TIER_2"]

\* $transaction: the submission and the user's row together
Approve(r) ==
    LET u == submissions[req[r].sub].user
    IN  /\ At(r, "approve", "write")
        /\ WriteVerdict(req[r].sub, "APPROVED")
        /\ accounts' = [accounts EXCEPT ![u] = Promoted(@)]
        /\ raised' = raised \cup {u}
        /\ edited' = edited \ {u}
        /\ Done(r)
        /\ UNCHANGED created

Reject(r) ==
    /\ At(r, "reject", "write")
    /\ WriteVerdict(req[r].sub, "REJECTED")
    /\ Done(r)
    /\ UNCHANGED <<accounts, created, raised, edited>>

\* The await throws: a refused file, a row that is gone, a database error, a restart.
Abort(r) ==
    /\ req[r].step # "idle"
    /\ Done(r)
    /\ UNCHANGED <<accounts, submissions, created, verdicts, raised, edited>>

-----------------------------------------------------------------------------
(* The other writers of tier and limits.  Each reads the account and then  *)
(* writes columns that do not depend on what it read.                      *)

\* register, and createUser with the tier an administrator chose
CreateUser(u, tier) ==
    /\ accounts[u] = Null
    /\ accounts' = [accounts EXCEPT ![u] = Fresh(tier)]
    /\ edited' = IF tier = "TIER_2" THEN edited \cup {u} ELSE edited
    /\ UNCHANGED <<submissions, created, req, verdicts, raised>>

\* PATCH /admin/users/:id, and /limits, with a tier
SetTier(u, tier) ==
    /\ HasAccount(u)
    /\ accounts' = [accounts EXCEPT ![u].tier = tier]
    /\ edited' = edited \cup {u}
    /\ UNCHANGED <<submissions, created, req, verdicts, raised>>

\* PATCH /admin/users/:id/limits with limits
SetLimits(u) ==
    /\ HasAccount(u)
    /\ accounts' = [accounts EXCEPT ![u].limits = "edited"]
    /\ edited' = edited \cup {u}
    /\ UNCHANGED <<submissions, created, req, verdicts, raised>>

\* user.delete, with its cascade
DeleteUser(u) ==
    /\ HasAccount(u)
    /\ accounts' = [accounts EXCEPT ![u] = Deleted]
    /\ submissions' = [s \in SubmissionIds |->
                         IF submissions[s] # Null /\ submissions[s].user = u THEN Null
                         ELSE submissions[s]]
    /\ UNCHANGED <<created, req, verdicts, raised, edited>>

Next ==
    \/ \E r \in Requests :
          \/ \E u \in Users : BeginTierTwo(r, u)
          \/ SaveDocument(r)
          \/ SubmitTierTwo(r)
          \/ \E kind \in {"approve", "reject"}, s \in SubmissionIds : BeginReview(r, kind, s)
          \/ FindForAdmin(r)
          \/ Approve(r)
          \/ Reject(r)
          \/ Abort(r)
    \/ \E u \in Users :
          \/ Submit(u)
          \/ \E tier \in Tiers : CreateUser(u, tier) \/ SetTier(u, tier)
          \/ SetLimits(u)
          \/ DeleteUser(u)

Spec == Init /\ [][Next]_vars
-----------------------------------------------------------------------------
\* Every row of POST /kyc/tier-2 has its four documents, and every row belongs to an account
\* there is: a request that stops between two uploads, or whose user is deleted under it,
\* leaves no row (submitTierTwo).
SubmissionsAreComplete ==
    \A s \in SubmissionIds : submissions[s] # Null =>
        /\ submissions[s].tierTwo => submissions[s].documents = Len(Documents)
        /\ HasAccount(submissions[s].user)

\* A review that has read a submission as open, but not yet written its verdict
UnderReview(s) == {r \in Requests : req[r].step = "write" /\ req[r].sub = s}

\* findForAdmin closes a submission with its first verdict: another one is only written by a
\* review that had read the submission before, so the verdicts of a submission are at most
\* as many as the reviews that overlap.
VerdictsBounded ==
    \A s \in SubmissionIds :
        verdicts[s] + Cardinality(UnderReview(s)) <= Cardinality(Requests)

\* Tier and limits follow the approvals: as long as no administrator chooses them, a user is in
\* tier 2, with its limits, exactly when one of his submissions was approved, and an
\* approved submission is never seen without it (the $transaction of approve).
TierFollowsApproval ==
    /\ \A u \in Users : HasAccount(u) /\ u \notin edited =>
          LET tier == IF u \in raised THEN "TIER_2" ELSE "TIER_1"
          IN  accounts[u] = [tier |-> tier, limits |-> tier]
    /\ \A s \in SubmissionIds : submissions[s] # Null =>
          (submissions[s].status = "APPROVED" => submissions[s].user \in raised)

\* kyc.service.ts:143: "Approved KYC submissions cannot be rejected".  No step makes an approved
\* submission a rejected one.
ApprovedIsNotRejected ==
    [][\A s \in SubmissionIds :
          submissions[s] # Null /\ submissions[s].status = "APPROVED"
              => submissions'[s] = Null \/ submissions'[s].status # "REJECTED"]_vars
=============================================================================
