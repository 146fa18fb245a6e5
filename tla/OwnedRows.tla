----------------------------- MODULE OwnedRows -----------------------------
(***************************************************************************)
(* What belongs to one user and nobody else writes: beneficiaries          *)
(* (src/beneficiaries/beneficiaries.service.ts), notifications and the     *)
(* e-mail preference (src/notifications/notifications.service.ts).         *)
(*                                                                         *)
(* A handler finds the row of its user in one await and writes it by id in *)
(* the next; another handler of the same user, or the deletion of the      *)
(* account with all its rows, can come between.                            *)
(***************************************************************************)
EXTENDS Integers, FiniteSets

CONSTANTS
    Users,
    Requests,          \* slots for concurrently running handlers
    Types,             \* the beneficiary types a run uses
    Bodies,            \* the bodies of PATCH /beneficiaries/:id a run uses
    MaxBeneficiaries,  \* bound: beneficiaries ever created
    MaxNotifications,  \* bound: notifications ever created
    Null               \* no row

BeneficiaryTypes == {"EUR_IBAN", "EUR_WISETAG", "USDC_ADDRESS"}

Fields == {"iban", "beneficiaryName", "wiseTag", "usdcAddress", "usdcNetwork"}

\* Mutant: the name is not required
RequiredWithoutName(type) ==
    CASE type = "EUR_IBAN" -> {"iban"}
      [] type = "EUR_WISETAG" -> {"wiseTag"}
      [] type = "USDC_ADDRESS" -> {"usdcAddress", "usdcNetwork"}

\* What a beneficiary of a type cannot be paid without
NeededBy(type) ==
    CASE type = "EUR_IBAN" -> {"iban", "beneficiaryName"}
      [] type = "EUR_WISETAG" -> {"wiseTag"}
      [] type = "USDC_ADDRESS" -> {"usdcAddress", "usdcNetwork"}

\* validateTypeFields
RequiredBy(type) == NeededBy(type)

\* named: the fields an update has; given: those it has a text for that is not empty
Body == [named: SUBSET Fields, given: SUBSET Fields]

Beneficiary == [user: Users, type: BeneficiaryTypes, filled: SUBSET Fields]

Notification == [user: Users, status: {"UNREAD", "READ"}]

Rows == 1 .. MaxBeneficiaries

Notes == 1 .. MaxNotifications

ASSUME OwnedAssumption ==
    /\ Types \subseteq BeneficiaryTypes
    /\ Bodies \subseteq Body /\ \A body \in Bodies : body.given \subseteq body.named
    /\ MaxBeneficiaries \in Nat /\ MaxNotifications \in Nat
    /\ Null \notin Beneficiary \cup Notification \cup Body \cup {TRUE, FALSE}

VARIABLES
    mailOn,        \* mailOn[u]: emailNotificationsEnabled of user u, Null when u is deleted
    beneficiary,   \* beneficiary[b]: the b-th row created, or Null
    notification,  \* notification[n]: the n-th row created, or Null
    made,          \* numbers of rows created
    req,           \* req[r]: the handler running in slot r and its locals
    emptied,       \* history: beneficiaries of which an update emptied a field they need
    wanted,        \* history: notifications whose user had e-mail on at a time since
    mailed         \* notifications the e-mail provider was given

vars == <<mailOn, beneficiary, notification, made, req, emptied, wanted, mailed>>

Steps == {"idle", "validate", "create", "update", "delete",
          "preference", "send", "markRead", "markAllRead"}

\* row: the beneficiary or notification; found: the row as it was read, or to be created
Request == [step: Steps, user: Users \cup {Null}, row: Nat, body: Body \cup {Null},
            found: Beneficiary \cup {Null}]

Idle == [step |-> "idle", user |-> Null, row |-> 0, body |-> Null, found |-> Null]

TypeOK ==
    /\ mailOn \in [Users -> BOOLEAN \cup {Null}]
    /\ beneficiary \in [Rows -> Beneficiary \cup {Null}]
    /\ notification \in [Notes -> Notification \cup {Null}]
    /\ made \in [beneficiaries: 0 .. MaxBeneficiaries, notifications: 0 .. MaxNotifications]
    /\ req \in [Requests -> Request]
    /\ emptied \subseteq Rows
    /\ wanted \subseteq Notes /\ mailed \subseteq Notes

Init ==
    /\ mailOn = [u \in Users |-> TRUE]
    /\ beneficiary = [b \in Rows |-> Null]
    /\ notification = [n \in Notes |-> Null]
    /\ made = [beneficiaries |-> 0, notifications |-> 0]
    /\ req = [r \in Requests |-> Idle]
    /\ emptied = {} /\ wanted = {} /\ mailed = {}

-----------------------------------------------------------------------------
At(r, step) == req[r].step = step

Done(r) == req' = [req EXCEPT ![r] = Idle]

Exists(u) == mailOn[u] # Null

\* Mutant: where without userId
OwnedByAny(row, u) == row # Null

\* findFirst({ where: { id, userId } })
Owned(row, u) == row # Null /\ row.user = u

-----------------------------------------------------------------------------
(* Beneficiaries                                                           *)

\* POST /beneficiaries, with or without validateWithReepay
BeginCreate(r, u, type, given) ==
    /\ At(r, "idle") /\ Exists(u)
    /\ RequiredBy(type) \subseteq given
    /\ \E step \in (IF type = "EUR_IBAN" THEN {"validate", "create"} ELSE {"create"}) :
          req' = [req EXCEPT ![r] =
                    [Idle EXCEPT !.step = step, !.user = u,
                                 !.found = [user |-> u, type |-> type,
                                            filled |-> given \cap NeededBy(type)]]]
    /\ UNCHANGED <<mailOn, beneficiary, notification, made>>

\* Reepay accepts the recipient
ValidateWithReepay(r) ==
    /\ At(r, "validate")
    /\ req' = [req EXCEPT ![r].step = "create"]
    /\ UNCHANGED <<mailOn, beneficiary, notification, made>>

\* Mutant: no foreign key
UserMayBeGone(u) == TRUE

\* The foreign key of a row to be created
UserIsThere(u) == Exists(u)

CreateBeneficiary(r) ==
    LET b == made.beneficiaries + 1
    IN  /\ At(r, "create") /\ UserIsThere(req[r].user)
        /\ b <= MaxBeneficiaries
        /\ beneficiary' = [beneficiary EXCEPT ![b] = req[r].found]
        /\ made' = [made EXCEPT !.beneficiaries = b]
        /\ Done(r)
        /\ UNCHANGED <<mailOn, notification>>

\* findOwnedOrThrow of update and delete
FindBeneficiary(r, u, b, step, body) ==
    /\ At(r, "idle") /\ Owned(beneficiary[b], u)
    /\ req' = [req EXCEPT ![r] = [step |-> step, user |-> u, row |-> b, body |-> body,
                                  found |-> beneficiary[b]]]
    /\ UNCHANGED <<mailOn, beneficiary, notification, made>>

\* Mutant: the row that was found is written back with the changes
FilledFromFound(r) ==
    [beneficiary[req[r].row] EXCEPT
        !.filled = (req[r].found.filled \ req[r].body.named) \cup
                   (req[r].body.given \cap NeededBy(req[r].found.type))]

\* What the body does not name stays as it is.
Filled(r) ==
    [beneficiary[req[r].row] EXCEPT
        !.filled = (@ \ req[r].body.named) \cup
                   (req[r].body.given \cap NeededBy(req[r].found.type))]

UpdateBeneficiary(r) ==
    LET b == req[r].row
    IN  /\ At(r, "update") /\ beneficiary[b] # Null
        /\ beneficiary' = [beneficiary EXCEPT ![b] = Filled(r)]
        /\ Done(r)
        /\ UNCHANGED <<mailOn, notification, made>>

DeleteBeneficiary(r) ==
    LET b == req[r].row
    IN  /\ At(r, "delete") /\ beneficiary[b] # Null
        /\ beneficiary' = [beneficiary EXCEPT ![b] = Null]
        /\ Done(r)
        /\ UNCHANGED <<mailOn, notification, made>>

-----------------------------------------------------------------------------
(* Notifications                                                           *)

\* createForUser: the row, then the preference, then the e-mail
CreateNotification(r, u) ==
    LET n == made.notifications + 1
    IN  /\ At(r, "idle") /\ UserIsThere(u)
        /\ n <= MaxNotifications
        /\ notification' = [notification EXCEPT ![n] = [user |-> u, status |-> "UNREAD"]]
        /\ made' = [made EXCEPT !.notifications = n]
        /\ req' = [req EXCEPT ![r] = [Idle EXCEPT !.step = "preference", !.user = u, !.row = n]]
        /\ UNCHANGED <<mailOn, beneficiary>>

\* Mutant: the preference is not asked
WantsMailAlways(u) == Exists(u)

\* sendEmailIfEnabled; nobody when the user has gone
WantsMail(u) == mailOn[u] = TRUE

ReadPreference(r) ==
    /\ At(r, "preference")
    /\ \/ WantsMail(req[r].user) /\ req' = [req EXCEPT ![r].step = "send"]
       \/ ~WantsMail(req[r].user) /\ Done(r)
    /\ UNCHANGED <<mailOn, beneficiary, notification, made>>

FindNotification(r, u, n) ==
    /\ At(r, "idle") /\ Owned(notification[n], u)
    /\ req' = [req EXCEPT ![r] = [Idle EXCEPT !.step = "markRead", !.user = u, !.row = n]]
    /\ UNCHANGED <<mailOn, beneficiary, notification, made>>

MarkRead(r) ==
    LET n == req[r].row
    IN  /\ At(r, "markRead") /\ notification[n] # Null
        /\ notification' = [notification EXCEPT ![n].status = "READ"]
        /\ Done(r)
        /\ UNCHANGED <<mailOn, beneficiary, made>>

BeginMarkAllRead(r, u) ==
    /\ At(r, "idle") /\ Exists(u)
    /\ req' = [req EXCEPT ![r] = [Idle EXCEPT !.step = "markAllRead", !.user = u]]
    /\ UNCHANGED <<mailOn, beneficiary, notification, made>>

\* One updateMany, which finds nothing when the user has gone
MarkAllRead(r) ==
    /\ At(r, "markAllRead")
    /\ notification' = [n \in Notes |->
                          IF Owned(notification[n], req[r].user)
                          THEN [notification[n] EXCEPT !.status = "READ"] ELSE notification[n]]
    /\ Done(r)
    /\ UNCHANGED <<mailOn, beneficiary, made>>

UpdateEmailPreference(u, enabled) ==
    /\ Exists(u)
    /\ mailOn' = [mailOn EXCEPT ![u] = enabled]
    /\ UNCHANGED <<beneficiary, notification, made, req>>

SendEmail(r) ==
    /\ At(r, "send")
    /\ mailed' = mailed \cup {req[r].row}
    /\ Done(r)
    /\ UNCHANGED <<mailOn, beneficiary, notification, made>>

-----------------------------------------------------------------------------
\* onDelete: Cascade
Cascaded(rows, u) == [i \in DOMAIN rows |-> IF Owned(rows[i], u) THEN Null ELSE rows[i]]

DeleteUser(u) ==
    /\ Exists(u)
    /\ mailOn' = [mailOn EXCEPT ![u] = Null]
    /\ beneficiary' = Cascaded(beneficiary, u)
    /\ notification' = Cascaded(notification, u)
    /\ UNCHANGED <<made, req>>

\* The row to write or its user has gone, Reepay refuses, the provider or the database fails,
\* the process stops.
Abort(r) ==
    /\ ~At(r, "idle")
    /\ Done(r)
    /\ UNCHANGED <<mailOn, beneficiary, notification, made>>

Handlers(r) ==
    \/ \E u \in Users :
          \/ \E type \in Types, given \in SUBSET Fields : BeginCreate(r, u, type, given)
          \/ \E b \in Rows : \/ \E body \in Bodies : FindBeneficiary(r, u, b, "update", body)
                             \/ FindBeneficiary(r, u, b, "delete", Null)
          \/ CreateNotification(r, u)
          \/ \E n \in Notes : FindNotification(r, u, n)
          \/ BeginMarkAllRead(r, u)
    \/ ValidateWithReepay(r)
    \/ CreateBeneficiary(r)
    \/ UpdateBeneficiary(r)
    \/ DeleteBeneficiary(r)
    \/ ReadPreference(r)
    \/ MarkRead(r)
    \/ MarkAllRead(r)
    \/ Abort(r)

Observe ==
    /\ wanted' = wanted \cup {n \in Notes : /\ notification'[n] # Null
                                             /\ mailOn'[notification'[n].user] = TRUE}
    /\ emptied' = emptied \cup
          {b \in Rows : \E r \in Requests, f \in Fields :
              /\ At(r, "update") /\ req[r].row = b /\ req'[r] = Idle
              /\ f \in req[r].body.named \ req[r].body.given
              /\ beneficiary[b] # Null /\ f \in beneficiary[b].filled
              /\ beneficiary'[b] # Null /\ f \notin beneficiary'[b].filled}

Next ==
    /\ \/ UNCHANGED mailed
          /\ \/ \E r \in Requests : Handlers(r)
             \/ \E u \in Users :
                   \/ \E enabled \in BOOLEAN : UpdateEmailPreference(u, enabled)
                   \/ DeleteUser(u)
       \/ \E r \in Requests : SendEmail(r)
    /\ Observe

Spec == Init /\ [][Next]_vars

-----------------------------------------------------------------------------
\* A row is changed by a handler its own user called, or goes with its user, whatever ids other
\* users send and whoever's account is deleted between the check and the write
\* (findOwnedOrThrow and findFirst, then update or delete by id alone; updateMany of
\* markAllRead; the deletion of an account takes no row of another).
OnlyTheOwnerWrites ==
    [][/\ \A b \in Rows :
             (beneficiary[b] # Null /\ beneficiary'[b] # beneficiary[b]) =>
                \/ mailOn'[beneficiary[b].user] = Null
                \/ \E r \in Requests : req'[r] # req[r] /\ req[r].user = beneficiary[b].user
       /\ \A n \in Notes :
             (notification[n] # Null /\ notification'[n] # notification[n]) =>
                \/ mailOn'[notification[n].user] = Null
                \/ \E r \in Requests : /\ req'[r] # req[r]
                                       /\ req[r].user = notification[n].user]_vars

\* No update is undone by another that overlaps it: a field of a beneficiary changes only by a
\* request that names it (update with undefined properties).
UpdatesAreNotLost ==
    [][\A b \in Rows, f \in Fields :
          (/\ beneficiary[b] # Null /\ beneficiary'[b] # Null
           /\ (f \in beneficiary[b].filled) # (f \in beneficiary'[b].filled))
              => \E r \in Requests : /\ At(r, "update") /\ req[r].row = b
                                     /\ req'[r] = Idle /\ f \in req[r].body.named]_vars

\* A beneficiary has what its type needs, unless an update emptied it: update does not repeat
\* the check of create (validateTypeFields).
CompleteUnlessEmptied ==
    \A b \in Rows \ emptied :
        beneficiary[b] # Null => NeededBy(beneficiary[b].type) \subseteq beneficiary[b].filled

\* A notification is mailed only if its user had e-mail on at a time since it was created: who
\* switches it off first gets none (createForUser, sendEmailIfEnabled).
PreferenceHonoured == mailed \subseteq wanted

\* No row is left of a deleted account, or comes after it: not from a create that began before
\* the deletion either.
NothingOutlivesItsUser ==
    /\ \A b \in Rows : beneficiary[b] # Null => Exists(beneficiary[b].user)
    /\ \A n \in Notes : notification[n] # Null => Exists(notification[n].user)
=============================================================================
