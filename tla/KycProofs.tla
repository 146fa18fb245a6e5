------------------------------ MODULE KycProofs ------------------------------
(***************************************************************************)
(* Theorems about Kyc, for every set of users, any number of overlapping   *)
(* reviews and any number of submissions.                                  *)
(***************************************************************************)
EXTENDS Kyc, FiniteSetTheorems, TLAPS

Row(s) == submissions[s] # Null

\* A handler names the account it submits for, or the submission it reviews.
HandlersAreNamed ==
    \A r \in Requests :
        /\ req[r].step = "upload" => req[r].user \in Users
        /\ req[r].step \in {"find", "write"} => req[r].sub \in 1 .. created
        /\ req[r].step \in {"find", "write"} => req[r].kind \in {"approve", "reject"}

\* Nobody is raised before there is an account, and an open submission has no verdict yet.
OpenHasNoVerdict ==
    /\ \A u \in Users : accounts[u] = Null => u \notin raised
    /\ \A s \in SubmissionIds :
          (s > created \/ (Row(s) /\ submissions[s].status = "PENDING")) => verdicts[s] = 0

\* Rows are those of the submissions created so far.
RowsAreCreated == \A s \in SubmissionIds : s > created => submissions[s] = Null

-----------------------------------------------------------------------------
\* What each writer of a row writes is a row.
LEMMA Rows ==
    /\ Idle \in Request /\ Idle.step = "idle"
    /\ \A t \in Tiers : Fresh(t) \in Account
    /\ \A a \in Account : Promoted(a) \in Account
    /\ Len(Documents) = 4
  BY DEF Idle, Request, Fresh, Tiers, Account, Promoted, Documents

\* Every row of an account that is there is an account, and no such row is Null or Deleted.
LEMMA Accounts ==
    ASSUME TypeOK, NEW u \in Users
    PROVE  HasAccount(u) <=> accounts[u] \in Account
  BY NullIsNoAccount DEF TypeOK, HasAccount

\* A handler that ends changes its own slot only, and leaves it idle.
LEMMA DoneKeepsNames ==
    ASSUME TypeOK, HandlersAreNamed, NEW r \in Requests, Done(r), created' \in Nat,
           created' >= created
    PROVE  req' \in [Requests -> Request] /\ HandlersAreNamed'
<1>1. /\ req' \in [Requests -> Request]
      /\ req'[r] = Idle
      /\ \A q \in Requests : q # r => req'[q] = req[q]
  BY Rows DEF TypeOK, Done
<1>2. ASSUME NEW q \in Requests
      PROVE  /\ req'[q].step = "upload" => req'[q].user \in Users
             /\ req'[q].step \in {"find", "write"} => req'[q].sub \in 1 .. created'
             /\ req'[q].step \in {"find", "write"} => req'[q].kind \in {"approve", "reject"}
  <2>1. CASE q = r
    BY <1>1, <2>1, Rows
  <2>2. CASE q # r
    <3>1. req'[q] = req[q]
      BY <1>1, <2>2
    <3> QED
      BY <3>1 DEF HandlersAreNamed, TypeOK
  <2> QED
    BY <2>1, <2>2
<1> QED
  BY <1>1, <1>2 DEF HandlersAreNamed

\* Changing the locals of one handler to others that are named keeps the names.
LEMMA SlotKeepsNames ==
    ASSUME TypeOK, HandlersAreNamed, NEW r \in Requests, NEW new \in Request,
           req' = [req EXCEPT ![r] = new], created' = created,
           new.step = "upload" => new.user \in Users,
           new.step \in {"find", "write"} => new.sub \in 1 .. created,
           new.step \in {"find", "write"} => new.kind \in {"approve", "reject"}
    PROVE  req' \in [Requests -> Request] /\ HandlersAreNamed'
<1>1. req' \in [Requests -> Request]
  BY DEF TypeOK
<1>2. \A q \in Requests : req'[q] = IF q = r THEN new ELSE req[q]
  BY DEF TypeOK
<1> QED
  BY <1>1, <1>2 DEF HandlersAreNamed

\* The parts of the invariant that say nothing of the handlers
DataInv == OpenHasNoVerdict /\ RowsAreCreated /\ SubmissionsAreComplete /\ TierFollowsApproval

IInv == TypeOK /\ HandlersAreNamed /\ DataInv

\* They stay when no row changes.
LEMMA DataKept ==
    ASSUME DataInv, UNCHANGED <<accounts, submissions, created, verdicts, raised, edited>>
    PROVE  DataInv'
  BY DEF DataInv, OpenHasNoVerdict, RowsAreCreated, SubmissionsAreComplete,
         TierFollowsApproval, HasAccount, Row

\* A new submission is open, of an account that is there, and complete if it has to be.
LEMMA CreateKeeps ==
    ASSUME TypeOK, DataInv, NEW u \in Users, NEW tierTwo \in BOOLEAN,
           NEW documents \in 0 .. Len(Documents), Create(u, tierTwo, documents),
           tierTwo => documents = Len(Documents),
           UNCHANGED <<accounts, verdicts, raised, edited>>
    PROVE  DataInv' /\ submissions' \in [SubmissionIds -> Submission \cup {Null}]
                    /\ created' \in 0 .. MaxSubmissions /\ created' = created + 1
<1> DEFINE row == [user |-> u, status |-> "PENDING", tierTwo |-> tierTwo,
                   documents |-> documents]
<1>1. row \in Submission
  BY DEF Submission
<1>2. /\ created' = created + 1 /\ created' \in SubmissionIds
      /\ created' \in 0 .. MaxSubmissions /\ created \in Nat
      /\ HasAccount(u)
  BY KycAssumption DEF Create, TypeOK, SubmissionIds
<1>3. /\ submissions' \in [SubmissionIds -> Submission \cup {Null}]
      /\ \A s \in SubmissionIds : submissions'[s] = IF s = created' THEN row ELSE submissions[s]
  BY <1>1, <1>2 DEF Create, TypeOK
<1>4. OpenHasNoVerdict'
  BY <1>2, <1>3 DEF DataInv, OpenHasNoVerdict, Row, SubmissionIds
<1>5. RowsAreCreated'
  BY <1>2, <1>3 DEF DataInv, RowsAreCreated, SubmissionIds
<1>6. SubmissionsAreComplete'
  BY <1>2, <1>3 DEF DataInv, SubmissionsAreComplete, HasAccount
<1>7. TierFollowsApproval'
  BY <1>2, <1>3 DEF DataInv, TierFollowsApproval, HasAccount
<1> QED
  BY <1>2, <1>3, <1>4, <1>5, <1>6, <1>7 DEF DataInv

\* A verdict is written to an existing row of an account that is there.
LEMMA VerdictRow ==
    ASSUME TypeOK, DataInv, NEW s \in SubmissionIds, NEW status \in {"APPROVED", "REJECTED"},
           WriteVerdict(s, status)
    PROVE  /\ submissions' \in [SubmissionIds -> Submission \cup {Null}]
           /\ verdicts' \in [SubmissionIds -> Nat]
           /\ \A t \in SubmissionIds :
                 t # s => submissions'[t] = submissions[t] /\ verdicts'[t] = verdicts[t]
           /\ submissions[s] \in Submission /\ submissions'[s] \in Submission
           /\ submissions'[s].status = status
           /\ submissions'[s].user = submissions[s].user
           /\ submissions'[s].tierTwo = submissions[s].tierTwo
           /\ submissions'[s].documents = submissions[s].documents
           /\ verdicts'[s] = verdicts[s] + 1
           /\ submissions[s].user \in Users /\ HasAccount(submissions[s].user)
           /\ s <= created
<1> DEFINE row == [submissions[s] EXCEPT !.status = status]
<1>1. submissions[s] \in Submission /\ submissions[s].user \in Users
  BY DEF WriteVerdict, TypeOK, Submission
<1>2. /\ row \in Submission /\ row.status = status /\ row.user = submissions[s].user
      /\ row.tierTwo = submissions[s].tierTwo /\ row.documents = submissions[s].documents
  BY <1>1 DEF Submission
<1>3. /\ submissions' = [submissions EXCEPT ![s] = row]
      /\ verdicts' = [verdicts EXCEPT ![s] = @ + 1]
  BY DEF WriteVerdict
<1>4. HasAccount(submissions[s].user) /\ s <= created
  BY <1>1, KycAssumption
     DEF WriteVerdict, DataInv, SubmissionsAreComplete, RowsAreCreated, TypeOK, SubmissionIds
<1>5. /\ submissions' \in [SubmissionIds -> Submission \cup {Null}]
      /\ submissions'[s] = row
      /\ \A t \in SubmissionIds : t # s => submissions'[t] = submissions[t]
  BY <1>2, <1>3 DEF TypeOK
<1>6. /\ verdicts' \in [SubmissionIds -> Nat]
      /\ verdicts'[s] = verdicts[s] + 1
      /\ \A t \in SubmissionIds : t # s => verdicts'[t] = verdicts[t]
  BY <1>3 DEF TypeOK
<1> QED
  BY <1>1, <1>2, <1>4, <1>5, <1>6

\* Rejecting keeps tiers and rows in agreement.
LEMMA RejectKeeps ==
    ASSUME TypeOK, DataInv, NEW s \in SubmissionIds, WriteVerdict(s, "REJECTED"),
           UNCHANGED <<accounts, created, raised, edited>>
    PROVE  DataInv'
<1>1. OpenHasNoVerdict'
  <2>1. ASSUME NEW t \in SubmissionIds,
               t > created' \/ (Row(t)' /\ submissions'[t].status = "PENDING")
        PROVE  verdicts'[t] = 0
    <3>1. t # s
      BY <2>1, VerdictRow, KycAssumption DEF TypeOK, SubmissionIds
    <3>2. submissions'[t] = submissions[t] /\ verdicts'[t] = verdicts[t]
      BY <3>1, VerdictRow
    <3> QED
      BY <2>1, <3>2 DEF DataInv, OpenHasNoVerdict, Row
  <2> QED
    BY <2>1 DEF DataInv, OpenHasNoVerdict
<1>2. RowsAreCreated'
  BY VerdictRow, KycAssumption DEF DataInv, RowsAreCreated, TypeOK, SubmissionIds
<1>3. SubmissionsAreComplete'
  BY VerdictRow DEF DataInv, SubmissionsAreComplete, HasAccount, WriteVerdict
<1>4. TierFollowsApproval'
  BY VerdictRow DEF DataInv, TierFollowsApproval, HasAccount
<1> QED
  BY <1>1, <1>2, <1>3, <1>4 DEF DataInv

\* So does approving, which raises the user in the same step.
LEMMA ApproveKeeps ==
    ASSUME TypeOK, DataInv, NEW r \in Requests, Approve(r), req[r].sub \in SubmissionIds
    PROVE  /\ DataInv'
           /\ accounts' \in [Users -> Account \cup {Null, Deleted}]
           /\ raised' \subseteq Users /\ edited' \subseteq Users
<1> DEFINE s == req[r].sub
           u == submissions[s].user
<1>1. WriteVerdict(s, "APPROVED")
  BY DEF Approve
<1>2. /\ u \in Users /\ HasAccount(u) /\ accounts[u] \in Account
      /\ submissions'[s].user = u
  BY <1>1, VerdictRow, Accounts
<1>3. /\ accounts' = [accounts EXCEPT ![u] = Promoted(accounts[u])]
      /\ raised' = raised \cup {u} /\ edited' = edited \ {u} /\ created' = created
  BY DEF Approve
<1>4. Promoted(accounts[u]) = [tier |-> "TIER_2", limits |-> "TIER_2"]
  BY DEF Promoted
<1>5. /\ accounts' \in [Users -> Account \cup {Null, Deleted}]
      /\ accounts'[u] = [tier |-> "TIER_2", limits |-> "TIER_2"]
      /\ accounts'[u] \in Account
      /\ \A v \in Users : v # u => accounts'[v] = accounts[v]
  BY <1>2, <1>3, <1>4, Rows DEF TypeOK
<1>6. \A v \in Users : HasAccount(v)' <=> HasAccount(v)
  BY <1>2, <1>5, NullIsNoAccount DEF HasAccount
<1>7. OpenHasNoVerdict'
  <2>1. \A v \in Users : accounts'[v] = Null => v \notin raised'
    BY <1>2, <1>3, <1>5, NullIsNoAccount DEF DataInv, OpenHasNoVerdict
  <2>2. ASSUME NEW t \in SubmissionIds,
               t > created' \/ (Row(t)' /\ submissions'[t].status = "PENDING")
        PROVE  verdicts'[t] = 0
    <3>1. t # s
      BY <1>1, <1>3, <2>2, VerdictRow, KycAssumption DEF TypeOK, SubmissionIds
    <3>2. submissions'[t] = submissions[t] /\ verdicts'[t] = verdicts[t]
      BY <1>1, <3>1, VerdictRow
    <3> QED
      BY <1>3, <2>2, <3>2 DEF DataInv, OpenHasNoVerdict, Row
  <2> QED
    BY <2>1, <2>2 DEF OpenHasNoVerdict
<1>8. RowsAreCreated'
  BY <1>1, <1>3, VerdictRow, KycAssumption DEF DataInv, RowsAreCreated, TypeOK, SubmissionIds
<1>9. SubmissionsAreComplete'
  <2> SUFFICES ASSUME NEW t \in SubmissionIds, submissions'[t] # Null
               PROVE  /\ submissions'[t].tierTwo => submissions'[t].documents = Len(Documents)
                      /\ accounts'[submissions'[t].user] \notin {Null, Deleted}
    BY DEF SubmissionsAreComplete, HasAccount
  <2>1. /\ submissions[t] # Null
        /\ submissions'[t].user = submissions[t].user
        /\ submissions'[t].tierTwo = submissions[t].tierTwo
        /\ submissions'[t].documents = submissions[t].documents
    <3>1. CASE t = s
      BY <1>1, <3>1, VerdictRow DEF WriteVerdict
    <3>2. CASE t # s
      BY <1>1, <3>2, VerdictRow
    <3> QED
      BY <3>1, <3>2
  <2>2. submissions[t].user \in Users
    BY <2>1 DEF Submission, TypeOK
  <2>3. /\ submissions[t].tierTwo => submissions[t].documents = Len(Documents)
        /\ HasAccount(submissions[t].user)
    BY <2>1 DEF DataInv, SubmissionsAreComplete
  <2>4. accounts'[submissions[t].user] \notin {Null, Deleted}
    BY <1>5, <2>2, <2>3, NullIsNoAccount DEF HasAccount
  <2> QED
    BY <2>1, <2>3, <2>4
<1>10. TierFollowsApproval'
  <2>1. ASSUME NEW v \in Users, HasAccount(v)', v \notin edited'
        PROVE  LET tier == IF v \in raised' THEN "TIER_2" ELSE "TIER_1"
               IN  accounts'[v] = [tier |-> tier, limits |-> tier]
    <3>1. CASE v = u
      BY <1>3, <1>5, <3>1
    <3>2. CASE v # u
      BY <1>3, <1>5, <1>6, <2>1, <3>2 DEF DataInv, TierFollowsApproval
    <3> QED
      BY <3>1, <3>2
  <2>2. ASSUME NEW t \in SubmissionIds, submissions'[t] # Null,
               submissions'[t].status = "APPROVED"
        PROVE  submissions'[t].user \in raised'
    BY <1>1, <1>2, <1>3, <2>2, VerdictRow DEF DataInv, TierFollowsApproval
  <2> QED
    BY <2>1, <2>2 DEF TierFollowsApproval
<1> QED
  BY <1>2, <1>3, <1>5, <1>7, <1>8, <1>9, <1>10 DEF DataInv, TypeOK

\* Writes to the row of one account that keep it an account, and leave the submissions alone
LEMMA EditKeeps ==
    ASSUME TypeOK, DataInv, NEW u \in Users, NEW a \in Account,
           accounts' = [accounts EXCEPT ![u] = a],
           \/ edited' = edited \cup {u}
           \/ edited' = edited /\ u \notin raised /\ a = [tier |-> "TIER_1", limits |-> "TIER_1"],
           UNCHANGED <<submissions, created, verdicts, raised>>
    PROVE  DataInv' /\ accounts' \in [Users -> Account \cup {Null, Deleted}]
                    /\ edited' \subseteq Users
<1>1. /\ accounts' \in [Users -> Account \cup {Null, Deleted}]
      /\ accounts'[u] = a
      /\ \A v \in Users : v # u => accounts'[v] = accounts[v]
  BY DEF TypeOK
<1>2. \A v \in Users : HasAccount(v) => HasAccount(v)'
  BY <1>1, NullIsNoAccount DEF HasAccount
<1>3. \A v \in Users : v # u => (HasAccount(v)' <=> HasAccount(v))
  BY <1>1 DEF HasAccount
<1>4. OpenHasNoVerdict'
  BY <1>1, NullIsNoAccount DEF DataInv, OpenHasNoVerdict, Row
<1>5. RowsAreCreated'
  BY DEF DataInv, RowsAreCreated
<1>6. SubmissionsAreComplete'
  BY <1>2 DEF DataInv, SubmissionsAreComplete, TypeOK, Submission
<1>7. TierFollowsApproval'
  BY <1>1, <1>3 DEF DataInv, TierFollowsApproval
<1>8. edited' \subseteq Users
  BY DEF TypeOK
<1> QED
  BY <1>1, <1>4, <1>5, <1>6, <1>7, <1>8 DEF DataInv

\* A deleted account takes its submissions with it.
LEMMA DeleteKeeps ==
    ASSUME TypeOK, DataInv, NEW u \in Users, DeleteUser(u)
    PROVE  /\ DataInv' /\ accounts' \in [Users -> Account \cup {Null, Deleted}]
           /\ submissions' \in [SubmissionIds -> Submission \cup {Null}]
<1>1. /\ accounts' \in [Users -> Account \cup {Null, Deleted}]
      /\ accounts'[u] = Deleted
      /\ \A v \in Users : v # u => accounts'[v] = accounts[v]
      /\ UNCHANGED <<created, verdicts, raised, edited>>
  BY DEF TypeOK, DeleteUser
<1>2. /\ submissions' \in [SubmissionIds -> Submission \cup {Null}]
      /\ \A s \in SubmissionIds :
            submissions'[s] # Null => submissions'[s] = submissions[s] /\ submissions[s].user # u
  BY DEF TypeOK, DeleteUser
<1>3. \A v \in Users : v # u => (HasAccount(v)' <=> HasAccount(v))
  BY <1>1 DEF HasAccount
<1>4. ~HasAccount(u)'
  BY <1>1 DEF HasAccount
<1>5. OpenHasNoVerdict'
  BY <1>1, <1>2, KycAssumption DEF DataInv, OpenHasNoVerdict, Row
<1>6. RowsAreCreated'
  BY <1>1, <1>2 DEF DataInv, RowsAreCreated
<1>7. SubmissionsAreComplete'
  BY <1>2, <1>3 DEF DataInv, SubmissionsAreComplete, TypeOK, Submission
<1>8. TierFollowsApproval'
  BY <1>1, <1>2, <1>3, <1>4 DEF DataInv, TierFollowsApproval
<1> QED
  BY <1>1, <1>2, <1>5, <1>6, <1>7, <1>8 DEF DataInv
-----------------------------------------------------------------------------
LEMMA InitEstablishes == Init => IInv
<1> SUFFICES ASSUME Init PROVE IInv
  OBVIOUS
<1>1. TypeOK
  BY Rows, KycAssumption DEF Init, TypeOK
<1>2. HandlersAreNamed
  BY DEF Init, HandlersAreNamed, Idle
<1>3. DataInv
  BY DEF Init, DataInv, OpenHasNoVerdict, RowsAreCreated, SubmissionsAreComplete,
         TierFollowsApproval, Row, HasAccount
<1> QED
  BY <1>1, <1>2, <1>3 DEF IInv

\* The steps of a handler before its last one change its locals only.
LEMMA LocalSteps ==
    ASSUME IInv, NEW r \in Requests,
           \/ \E u \in Users : BeginTierTwo(r, u)
           \/ SaveDocument(r)
           \/ \E kind \in {"approve", "reject"}, s \in SubmissionIds : BeginReview(r, kind, s)
           \/ FindForAdmin(r)
           \/ Abort(r)
    PROVE  IInv'
<1>1. UNCHANGED <<accounts, submissions, created, verdicts, raised, edited>>
  BY DEF BeginTierTwo, SaveDocument, BeginReview, FindForAdmin, Abort
<1>2. DataInv'
  BY <1>1, DataKept DEF IInv
<1>3. req' \in [Requests -> Request] /\ HandlersAreNamed'
  <2>1. ASSUME NEW u \in Users, BeginTierTwo(r, u)
        PROVE  req' \in [Requests -> Request] /\ HandlersAreNamed'
    <3> DEFINE new == [Idle EXCEPT !.kind = "tierTwo", !.step = "upload", !.user = u]
    <3>1. new \in Request /\ new.step = "upload" /\ new.user = u
      BY Rows DEF Request
    <3>2. req' = [req EXCEPT ![r] = new] /\ created' = created
      BY <2>1 DEF BeginTierTwo
    <3> HIDE DEF new
    <3> QED
      BY <3>1, <3>2, SlotKeepsNames DEF IInv
  <2>2. ASSUME SaveDocument(r)
        PROVE  req' \in [Requests -> Request] /\ HandlersAreNamed'
    <3> DEFINE new == [req[r] EXCEPT !.saved = @ + 1]
    <3>1. new \in Request /\ new.step = "upload" /\ new.user \in Users
      BY <2>2, Rows DEF SaveDocument, At, Request, IInv, TypeOK, HandlersAreNamed
    <3>2. req' = [req EXCEPT ![r] = new] /\ created' = created
      BY <2>2 DEF SaveDocument
    <3> HIDE DEF new
    <3> QED
      BY <3>1, <3>2, SlotKeepsNames DEF IInv
  <2>3. ASSUME NEW kind \in {"approve", "reject"}, NEW s \in SubmissionIds,
               BeginReview(r, kind, s)
        PROVE  req' \in [Requests -> Request] /\ HandlersAreNamed'
    <3> DEFINE new == [Idle EXCEPT !.kind = kind, !.step = "find", !.sub = s]
    <3>1. new \in Request /\ new.step = "find" /\ new.sub = s /\ new.kind = kind
      BY Rows DEF Request
    <3>2. req' = [req EXCEPT ![r] = new] /\ created' = created
      BY <2>3 DEF BeginReview
    <3>3. s \in 1 .. created
      <4>1. s <= created
        BY <2>3, Zenon DEF BeginReview
      <4>2. created \in 0 .. MaxSubmissions
        BY DEF IInv, TypeOK
      <4> QED
        BY <4>1, <4>2, KycAssumption DEF SubmissionIds
    <3> HIDE DEF new
    <3> QED
      BY <3>1, <3>2, <3>3, SlotKeepsNames DEF IInv
  <2>4. ASSUME FindForAdmin(r), ~Done(r)
        PROVE  req' \in [Requests -> Request] /\ HandlersAreNamed'
    <3> DEFINE new == [req[r] EXCEPT !.step = "write"]
    <3>1. /\ new \in Request /\ new.step = "write" /\ new.sub \in 1 .. created
          /\ new.kind \in {"approve", "reject"}
      <4>1. /\ req[r] \in Request /\ req[r].sub \in 1 .. created
            /\ req[r].kind \in {"approve", "reject"}
        BY <2>4 DEF FindForAdmin, IInv, TypeOK, HandlersAreNamed
      <4> QED
        BY <4>1 DEF Request
    <3>2. req' = [req EXCEPT ![r] = new] /\ created' = created
      <4>1. req' = [req EXCEPT ![r].step = "write"]
        BY <2>4, Zenon DEF FindForAdmin
      <4>2. created' = created
        BY <1>1
      <4> QED
        BY <4>1, <4>2
    <3> HIDE DEF new
    <3> QED
      BY <3>1, <3>2, SlotKeepsNames DEF IInv
  <2>5. ASSUME Done(r)
        PROVE  req' \in [Requests -> Request] /\ HandlersAreNamed'
    <3>1. created' \in Nat /\ created' >= created
      BY <1>1, KycAssumption DEF IInv, TypeOK
    <3> QED
      BY <2>5, <3>1, DoneKeepsNames DEF IInv
  <2> QED
    BY <2>1, <2>2, <2>3, <2>4, <2>5 DEF Abort
<1> QED
  BY <1>1, <1>2, <1>3 DEF IInv, TypeOK

\* The last step of a handler writes a row.
LEMMA LastSteps ==
    ASSUME IInv, NEW r \in Requests, SubmitTierTwo(r) \/ Approve(r) \/ Reject(r)
    PROVE  IInv'
<1>1. ASSUME SubmitTierTwo(r) PROVE IInv'
  <2>1. /\ req[r].user \in Users /\ req[r].saved = Len(Documents)
        /\ req[r].saved \in 0 .. Len(Documents)
    BY <1>1 DEF SubmitTierTwo, At, AllSaved, IInv, TypeOK, HandlersAreNamed, Request
  <2>2. /\ Create(req[r].user, TRUE, req[r].saved) /\ Done(r)
        /\ UNCHANGED <<accounts, verdicts, raised, edited>>
    BY <1>1 DEF SubmitTierTwo
  <2>3. /\ DataInv' /\ submissions' \in [SubmissionIds -> Submission \cup {Null}]
        /\ created' \in 0 .. MaxSubmissions /\ created' = created + 1
    BY <2>1, <2>2, CreateKeeps DEF IInv
  <2>4. req' \in [Requests -> Request] /\ HandlersAreNamed'
    BY <2>2, <2>3, KycAssumption, DoneKeepsNames DEF IInv, TypeOK
  <2> QED
    BY <2>2, <2>3, <2>4 DEF IInv, TypeOK
<1>2. ASSUME Approve(r) PROVE IInv'
  <2>1. req[r].sub \in SubmissionIds
    BY <1>2, KycAssumption DEF Approve, At, IInv, TypeOK, HandlersAreNamed, SubmissionIds
  <2>2. /\ DataInv' /\ accounts' \in [Users -> Account \cup {Null, Deleted}]
        /\ raised' \subseteq Users /\ edited' \subseteq Users
    BY <1>2, <2>1, ApproveKeeps DEF IInv
  <2>3. /\ WriteVerdict(req[r].sub, "APPROVED") /\ Done(r) /\ created' = created
    BY <1>2 DEF Approve
  <2>4. /\ submissions' \in [SubmissionIds -> Submission \cup {Null}]
        /\ verdicts' \in [SubmissionIds -> Nat]
    BY <2>1, <2>3, VerdictRow DEF IInv
  <2>5. req' \in [Requests -> Request] /\ HandlersAreNamed'
    BY <2>3, KycAssumption, DoneKeepsNames DEF IInv, TypeOK
  <2> QED
    BY <2>2, <2>3, <2>4, <2>5 DEF IInv, TypeOK
<1>3. ASSUME Reject(r) PROVE IInv'
  <2>1. req[r].sub \in SubmissionIds
    BY <1>3, KycAssumption DEF Reject, At, IInv, TypeOK, HandlersAreNamed, SubmissionIds
  <2>2. /\ WriteVerdict(req[r].sub, "REJECTED") /\ Done(r)
        /\ UNCHANGED <<accounts, created, raised, edited>>
    BY <1>3 DEF Reject
  <2>3. DataInv'
    BY <2>1, <2>2, RejectKeeps DEF IInv
  <2>4. /\ submissions' \in [SubmissionIds -> Submission \cup {Null}]
        /\ verdicts' \in [SubmissionIds -> Nat]
    BY <2>1, <2>2, VerdictRow DEF IInv
  <2>5. req' \in [Requests -> Request] /\ HandlersAreNamed'
    BY <2>2, KycAssumption, DoneKeepsNames DEF IInv, TypeOK
  <2> QED
    BY <2>2, <2>3, <2>4, <2>5 DEF IInv, TypeOK
<1> QED
  BY <1>1, <1>2, <1>3

\* The steps of one await
LEMMA UserSteps ==
    ASSUME IInv, NEW u \in Users,
           \/ Submit(u)
           \/ \E tier \in Tiers : CreateUser(u, tier) \/ SetTier(u, tier)
           \/ SetLimits(u)
           \/ DeleteUser(u)
    PROVE  IInv'
<1>1. ASSUME Submit(u) PROVE IInv'
  <2>0. 0 \in 0 .. Len(Documents)
    BY Rows
  <2>1. /\ Create(u, FALSE, 0)
        /\ UNCHANGED <<accounts, req, verdicts, raised, edited>>
    BY <1>1 DEF Submit
  <2>2. /\ DataInv' /\ submissions' \in [SubmissionIds -> Submission \cup {Null}]
        /\ created' \in 0 .. MaxSubmissions /\ created' = created + 1
    BY <2>0, <2>1, CreateKeeps DEF IInv
  <2>3. HandlersAreNamed'
    BY <2>1, <2>2, KycAssumption DEF IInv, TypeOK, HandlersAreNamed
  <2> QED
    BY <2>1, <2>2, <2>3 DEF IInv, TypeOK
<1>2. ASSUME NEW a \in Account, accounts' = [accounts EXCEPT ![u] = a],
             \/ edited' = edited \cup {u}
             \/ /\ edited' = edited /\ u \notin raised
                /\ a = [tier |-> "TIER_1", limits |-> "TIER_1"],
             UNCHANGED <<submissions, created, req, verdicts, raised>>
      PROVE  IInv'
  <2>1. /\ DataInv' /\ accounts' \in [Users -> Account \cup {Null, Deleted}]
        /\ edited' \subseteq Users
    BY <1>2, EditKeeps DEF IInv
  <2>2. HandlersAreNamed'
    BY <1>2 DEF IInv, HandlersAreNamed
  <2> QED
    BY <1>2, <2>1, <2>2 DEF IInv, TypeOK
<1>3. ASSUME NEW tier \in Tiers, CreateUser(u, tier) PROVE IInv'
  <2>1. Fresh(tier) \in Account /\ (tier = "TIER_2" \/ tier = "TIER_1")
    BY Rows DEF Tiers
  <2>2. u \notin raised
    BY <1>3 DEF CreateUser, IInv, DataInv, OpenHasNoVerdict
  <2>3. /\ accounts' = [accounts EXCEPT ![u] = Fresh(tier)]
        /\ UNCHANGED <<submissions, created, req, verdicts, raised>>
        /\ edited' = IF tier = "TIER_2" THEN edited \cup {u} ELSE edited
    BY <1>3 DEF CreateUser
  <2>4. tier = "TIER_1" => Fresh(tier) = [tier |-> "TIER_1", limits |-> "TIER_1"]
    BY DEF Fresh
  <2> QED
    BY <1>2, <2>1, <2>2, <2>3, <2>4
<1>4. ASSUME NEW tier \in Tiers, SetTier(u, tier) PROVE IInv'
  <2> DEFINE a == [accounts[u] EXCEPT !.tier = tier]
  <2>1. accounts[u] \in Account
    BY <1>4, Accounts DEF SetTier, IInv
  <2>2. a \in Account
    BY <2>1 DEF Account
  <2>3. /\ accounts' = [accounts EXCEPT ![u] = a] /\ edited' = edited \cup {u}
        /\ UNCHANGED <<submissions, created, req, verdicts, raised>>
    BY <1>4 DEF SetTier
  <2> HIDE DEF a
  <2> QED
    BY <1>2, <2>2, <2>3
<1>5. ASSUME SetLimits(u) PROVE IInv'
  <2> DEFINE a == [accounts[u] EXCEPT !.limits = "edited"]
  <2>1. accounts[u] \in Account
    BY <1>5, Accounts DEF SetLimits, IInv
  <2>2. a \in Account
    BY <2>1 DEF Account
  <2>3. /\ accounts' = [accounts EXCEPT ![u] = a] /\ edited' = edited \cup {u}
        /\ UNCHANGED <<submissions, created, req, verdicts, raised>>
    BY <1>5 DEF SetLimits
  <2> HIDE DEF a
  <2> QED
    BY <1>2, <2>2, <2>3
<1>6. ASSUME DeleteUser(u) PROVE IInv'
  <2>1. /\ DataInv' /\ accounts' \in [Users -> Account \cup {Null, Deleted}]
        /\ submissions' \in [SubmissionIds -> Submission \cup {Null}]
    BY <1>6, DeleteKeeps DEF IInv
  <2>2. UNCHANGED <<created, req, verdicts, raised, edited>>
    BY <1>6 DEF DeleteUser
  <2>3. HandlersAreNamed'
    BY <2>2 DEF IInv, HandlersAreNamed
  <2> QED
    BY <2>1, <2>2, <2>3 DEF IInv, TypeOK
<1> QED
  BY <1>1, <1>3, <1>4, <1>5, <1>6

LEMMA StepKeeps == IInv /\ [Next]_vars => IInv'
<1> SUFFICES ASSUME IInv, [Next]_vars PROVE IInv'
  OBVIOUS
<1>1. CASE UNCHANGED vars
  <2>1. DataInv'
    BY <1>1, DataKept DEF vars, IInv
  <2> QED
    BY <1>1, <2>1 DEF vars, IInv, TypeOK, HandlersAreNamed
<1>2. CASE Next
  BY <1>2, LocalSteps, LastSteps, UserSteps DEF Next
<1> QED
  BY <1>1, <1>2

-----------------------------------------------------------------------------
THEOREM Inductive == Spec => []IInv
  BY InitEstablishes, StepKeeps, PTL DEF Spec

\* The variables keep their types whatever the reviews, the uploads and the administrators do.
THEOREM TypeCorrect == Spec => []TypeOK
<1>1. IInv => TypeOK
  BY DEF IInv
<1> QED
  BY <1>1, Inductive, PTL

\* A submission row is complete and belongs to an account there is, however the four uploads
\* interleave with the deletion of the account, and wherever they stop.
THEOREM CompleteSubmissions == Spec => []SubmissionsAreComplete
<1>1. IInv => SubmissionsAreComplete
  BY DEF IInv, DataInv
<1> QED
  BY <1>1, Inductive, PTL

\* Tier and limits follow the approvals, whatever reviews overlap and wherever one stops.
THEOREM TierCorrect == Spec => []TierFollowsApproval
<1>1. IInv => TierFollowsApproval
  BY DEF IInv, DataInv
<1> QED
  BY <1>1, Inductive, PTL
-----------------------------------------------------------------------------
(* How often a verdict is written                                          *)

Bounded(s) == verdicts[s] + Cardinality(UnderReview(s)) <= Cardinality(Requests)

LEMMA Reviewers ==
    ASSUME NEW s
    PROVE  /\ UnderReview(s) \subseteq Requests
           /\ IsFiniteSet(UnderReview(s)) /\ Cardinality(UnderReview(s)) \in Nat
           /\ Cardinality(Requests) \in Nat
           /\ Cardinality(UnderReview(s)) <= Cardinality(Requests)
<1>1. UnderReview(s) \subseteq Requests
  BY DEF UnderReview
<1> QED
  BY <1>1, KycAssumption, FS_Subset, FS_CardinalityType

\* A step that starts no review of a submission and writes no verdict to it keeps its bound.
LEMMA NoNewReview ==
    ASSUME TypeOK, NEW s \in SubmissionIds, Bounded(s), verdicts'[s] = verdicts[s],
           \A r \in Requests : r \in UnderReview(s)' => r \in UnderReview(s)
    PROVE  Bounded(s)'
<1>1. UnderReview(s)' \subseteq UnderReview(s)
  BY DEF UnderReview
<1>2. /\ Cardinality(UnderReview(s)') <= Cardinality(UnderReview(s))
      /\ Cardinality(UnderReview(s)') \in Nat
  BY <1>1, Reviewers, FS_Subset, FS_CardinalityType
<1>3. verdicts[s] \in Nat /\ Cardinality(UnderReview(s)) \in Nat
      /\ Cardinality(Requests) \in Nat
  BY Reviewers DEF TypeOK
<1>4. verdicts[s] + Cardinality(UnderReview(s)') <= Cardinality(Requests)
  BY <1>2, <1>3 DEF Bounded
<1> QED
  BY <1>4 DEF Bounded

\* Before the first verdict any number of reviews may be running.
LEMMA NoVerdictYet ==
    ASSUME NEW s \in SubmissionIds, verdicts'[s] = 0
    PROVE  Bounded(s)'
<1>1. UnderReview(s)' \subseteq Requests
  BY DEF UnderReview
<1>2. /\ Cardinality(UnderReview(s)') <= Cardinality(Requests)
      /\ Cardinality(UnderReview(s)') \in Nat
  BY <1>1, KycAssumption, FS_Subset, FS_CardinalityType
<1>3. 0 + Cardinality(UnderReview(s)') <= Cardinality(Requests)
  BY <1>2
<1> QED
  BY <1>3 DEF Bounded

\* The review that writes a verdict is one less under way.
LEMMA VerdictWritten ==
    ASSUME TypeOK, NEW r \in Requests, NEW s \in SubmissionIds, Bounded(s),
           r \in UnderReview(s), Done(r), verdicts'[s] = verdicts[s] + 1
    PROVE  Bounded(s)'
<1>1. \A q \in Requests : req'[q] = IF q = r THEN Idle ELSE req[q]
  BY DEF TypeOK, Done
<1>2. Idle.step # "write"
  BY Rows
<1>3. UnderReview(s)' = UnderReview(s) \ {r}
  BY <1>1, <1>2 DEF UnderReview
<1>4. Cardinality(UnderReview(s)') = Cardinality(UnderReview(s)) - 1
  BY <1>3, Reviewers, FS_RemoveElement
<1>5. verdicts[s] \in Nat /\ Cardinality(UnderReview(s)) \in Nat
      /\ Cardinality(Requests) \in Nat
  BY Reviewers DEF TypeOK
<1>6. (verdicts[s] + 1) + Cardinality(UnderReview(s)') <= Cardinality(Requests)
  BY <1>4, <1>5 DEF Bounded
<1> QED
  BY <1>6 DEF Bounded

\* A handler whose slot becomes one that is not about to write starts no review.
LEMMA OtherSlot ==
    ASSUME TypeOK, NEW r \in Requests, NEW new \in Request, new.step # "write",
           req' = [req EXCEPT ![r] = new], NEW s \in SubmissionIds,
           NEW q \in Requests, q \in UnderReview(s)'
    PROVE  q \in UnderReview(s)
<1>1. \A p \in Requests : req'[p] = IF p = r THEN new ELSE req[p]
  BY DEF TypeOK
<1> QED
  BY <1>1 DEF UnderReview

LEMMA FindKeepsBound ==
    ASSUME IInv, NEW r \in Requests, FindForAdmin(r), NEW s \in SubmissionIds, Bounded(s)
    PROVE  Bounded(s)'
<1>1. verdicts' = verdicts
  BY DEF FindForAdmin
<1>2. CASE Done(r)
  <2>1. \A q \in Requests : q \in UnderReview(s)' => q \in UnderReview(s)
    BY <1>2, Rows, OtherSlot DEF Done, IInv
  <2> QED
    BY <1>1, <2>1, NoNewReview DEF IInv
<1>3. CASE ~Done(r)
  <2>1. req' = [req EXCEPT ![r].step = "write"]
    BY <1>3, Zenon DEF FindForAdmin
  <2>2. submissions[req[r].sub] # Null /\ MayReview(submissions[req[r].sub])
    BY <1>3, Zenon DEF FindForAdmin
  <2>3. CASE s = req[r].sub
    <3>1. Row(s) /\ submissions[s] \in Submission
      BY <2>2, <2>3 DEF Row, IInv, TypeOK
    <3>2. submissions[s].status = "PENDING"
      BY <2>2, <2>3, <3>1 DEF MayReview, Submission
    <3>3. verdicts[s] = 0
      BY <3>1, <3>2 DEF IInv, DataInv, OpenHasNoVerdict
    <3> QED
      BY <1>1, <3>3, NoVerdictYet
  <2>4. CASE s # req[r].sub
    <3>1. \A q \in Requests : /\ q # r => req'[q] = req[q]
                             /\ req'[r].sub = req[r].sub
      BY <2>1 DEF IInv, TypeOK, Request
    <3>2. \A q \in Requests : q \in UnderReview(s)' => q \in UnderReview(s)
      BY <2>4, <3>1 DEF UnderReview
    <3> QED
      BY <1>1, <3>2, NoNewReview DEF IInv
  <2> QED
    BY <2>3, <2>4
<1> QED
  BY <1>2, <1>3

LEMMA WriteKeepsBound ==
    ASSUME IInv, NEW r \in Requests, Approve(r) \/ Reject(r), NEW s \in SubmissionIds, Bounded(s)
    PROVE  Bounded(s)'
<1> DEFINE t == req[r].sub
<1>1. /\ Done(r) /\ req[r].step = "write"
      /\ verdicts' = [verdicts EXCEPT ![t] = @ + 1]
  BY DEF Approve, Reject, At, WriteVerdict
<1>2. CASE s = t
  <2>1. verdicts'[s] = verdicts[s] + 1
    BY <1>1, <1>2 DEF IInv, TypeOK
  <2>2. r \in UnderReview(s)
    BY <1>1, <1>2 DEF UnderReview
  <2> QED
    BY <1>1, <2>1, <2>2, VerdictWritten DEF IInv
<1>3. CASE s # t
  <2>1. verdicts'[s] = verdicts[s]
    BY <1>1, <1>3 DEF IInv, TypeOK
  <2>2. \A q \in Requests : q \in UnderReview(s)' => q \in UnderReview(s)
    BY <1>1, Rows, OtherSlot DEF Done, IInv
  <2> QED
    BY <2>1, <2>2, NoNewReview DEF IInv
<1> QED
  BY <1>2, <1>3

LEMMA StepKeepsBound ==
    ASSUME IInv, [Next]_vars, NEW s \in SubmissionIds, Bounded(s)
    PROVE  Bounded(s)'
<1>1. ASSUME UNCHANGED <<req, verdicts>> PROVE Bounded(s)'
  BY <1>1 DEF Bounded, UnderReview
<1>2. ASSUME NEW r \in Requests, NEW new \in Request, new.step # "write",
             req' = [req EXCEPT ![r] = new], verdicts' = verdicts
      PROVE  Bounded(s)'
  <2>1. \A q \in Requests : q \in UnderReview(s)' => q \in UnderReview(s)
    BY <1>2, OtherSlot DEF IInv
  <2> QED
    BY <1>2, <2>1, NoNewReview DEF IInv
<1>3. ASSUME NEW r \in Requests, NEW u \in Users, BeginTierTwo(r, u) PROVE Bounded(s)'
  <2> DEFINE new == [Idle EXCEPT !.kind = "tierTwo", !.step = "upload", !.user = u]
  <2>1. new \in Request /\ new.step # "write"
    BY Rows DEF Request
  <2>2. req' = [req EXCEPT ![r] = new] /\ verdicts' = verdicts
    BY <1>3 DEF BeginTierTwo
  <2> HIDE DEF new
  <2> QED
    BY <1>2, <2>1, <2>2
<1>4. ASSUME NEW r \in Requests, SaveDocument(r) PROVE Bounded(s)'
  <2> DEFINE new == [req[r] EXCEPT !.saved = @ + 1]
  <2>1. new \in Request /\ new.step # "write"
    BY <1>4, Rows DEF SaveDocument, At, Request, IInv, TypeOK
  <2>2. req' = [req EXCEPT ![r] = new] /\ verdicts' = verdicts
    BY <1>4 DEF SaveDocument
  <2> HIDE DEF new
  <2> QED
    BY <1>2, <2>1, <2>2
<1>5. ASSUME NEW r \in Requests, NEW kind \in {"approve", "reject"}, NEW t \in SubmissionIds,
             BeginReview(r, kind, t)
      PROVE  Bounded(s)'
  <2> DEFINE new == [Idle EXCEPT !.kind = kind, !.step = "find", !.sub = t]
  <2>1. new \in Request /\ new.step # "write"
    BY Rows DEF Request
  <2>2. req' = [req EXCEPT ![r] = new] /\ verdicts' = verdicts
    BY <1>5 DEF BeginReview
  <2> HIDE DEF new
  <2> QED
    BY <1>2, <2>1, <2>2
<1>6. ASSUME NEW r \in Requests, SubmitTierTwo(r) \/ Abort(r) PROVE Bounded(s)'
  <2>1. Done(r) /\ verdicts' = verdicts
    BY <1>6 DEF SubmitTierTwo, Abort
  <2> QED
    BY <1>2, <2>1, Rows DEF Done
<1>7. ASSUME NEW u \in Users,
             \/ Submit(u)
             \/ \E tier \in Tiers : CreateUser(u, tier) \/ SetTier(u, tier)
             \/ SetLimits(u)
             \/ DeleteUser(u)
      PROVE  Bounded(s)'
  BY <1>1, <1>7 DEF Submit, CreateUser, SetTier, SetLimits, DeleteUser
<1>8. CASE UNCHANGED vars
  BY <1>1, <1>8 DEF vars
<1>9. CASE Next
  BY <1>3, <1>4, <1>5, <1>6, <1>7, <1>9, FindKeepsBound, WriteKeepsBound DEF Next
<1> QED
  BY <1>8, <1>9

\* The verdicts of a submission are at most as many as the reviews that overlap, however
\* many are requested: the first one closes it for every review that reads it later.
THEOREM VerdictsCorrect == Spec => []VerdictsBounded
<1>1. Init => VerdictsBounded
  <2> SUFFICES ASSUME Init, NEW s \in SubmissionIds PROVE Bounded(s)
    BY DEF VerdictsBounded, Bounded
  <2>1. UnderReview(s) = {}
    BY Rows DEF Init, UnderReview
  <2>2. verdicts[s] = 0
    BY DEF Init
  <2>3. Cardinality(UnderReview(s)) = 0
    BY <2>1, FS_EmptySet
  <2> QED
    BY <2>2, <2>3, Reviewers DEF Bounded
<1>2. VerdictsBounded /\ IInv /\ [Next]_vars => VerdictsBounded'
  <2> SUFFICES ASSUME VerdictsBounded, IInv, [Next]_vars, NEW s \in SubmissionIds
               PROVE  Bounded(s)'
    BY DEF VerdictsBounded, Bounded
  <2>1. Bounded(s)
    BY DEF VerdictsBounded, Bounded
  <2> QED
    BY <2>1, StepKeepsBound
<1> QED
  BY <1>1, <1>2, Inductive, PTL DEF Spec
=============================================================================
