--------------------------- MODULE OwnedRowsProofs ---------------------------
(***************************************************************************)
(* Theorems about OwnedRows, for every set of users, any number of         *)
(* overlapping handlers and any number of rows.                            *)
(***************************************************************************)
EXTENDS OwnedRows, TLAPS

\* What a handler about to create a beneficiary holds is one of its user, and complete.
CreatesComplete(r) ==
    req[r].step \in {"validate", "create"} =>
        /\ req[r].found \in Beneficiary
        /\ req[r].found.user = req[r].user
        /\ NeededBy(req[r].found.type) \subseteq req[r].found.filled

\* A handler past its ownership check names a row that was created, and as long as the row is
\* there it is the one that was found.
WritesOwnBeneficiary(r) ==
    req[r].step \in {"update", "delete"} =>
        /\ req[r].row \in 1 .. made.beneficiaries
        /\ beneficiary[req[r].row] # Null => beneficiary[req[r].row].user = req[r].user
        /\ At(r, "update") =>
              /\ req[r].body \in Body /\ req[r].body.given \subseteq req[r].body.named
              /\ req[r].found \in Beneficiary
              /\ beneficiary[req[r].row] # Null =>
                    beneficiary[req[r].row].type = req[r].found.type

WritesOwnNotification(r) ==
    At(r, "markRead") =>
        /\ req[r].row \in 1 .. made.notifications
        /\ notification[req[r].row] # Null => notification[req[r].row].user = req[r].user

\* The notification a handler is about to mail is there as long as its user is, and once the
\* preference was read it counts as wanted.
MailsWanted(r) ==
    /\ req[r].step \in {"preference", "send"} =>
          req[r].user \in Users /\ req[r].row \in 1 .. made.notifications
    /\ (At(r, "preference") /\ Exists(req[r].user)) =>
          /\ notification[req[r].row] # Null
          /\ notification[req[r].row].user = req[r].user
    /\ At(r, "send") => req[r].row \in wanted

HandlerInv(r) ==
    /\ CreatesComplete(r) /\ WritesOwnBeneficiary(r)
    /\ WritesOwnNotification(r) /\ MailsWanted(r)

RowsAreMade ==
    /\ \A b \in Rows : b > made.beneficiaries => beneficiary[b] = Null
    /\ \A n \in Notes : n > made.notifications => notification[n] = Null

IInv ==
    /\ TypeOK /\ RowsAreMade
    /\ \A r \in Requests : HandlerInv(r)
    /\ CompleteUnlessEmptied /\ PreferenceHonoured /\ NothingOutlivesItsUser

-----------------------------------------------------------------------------
\* Rows, handlers and bodies are values of their types, and Null is none.
LEMMA Values ==
    /\ Idle \in Request /\ Idle.step = "idle"
    /\ Null \notin Beneficiary /\ Null \notin Notification /\ Null \notin Body
    /\ Null # TRUE /\ Null # FALSE
    /\ MaxBeneficiaries \in Nat /\ MaxNotifications \in Nat
    /\ Types \subseteq BeneficiaryTypes /\ Bodies \subseteq Body
    /\ \A body \in Bodies : body.given \subseteq body.named
  BY OwnedAssumption DEF Idle, Request, Steps

\* What the rest of a state may do to the rows a handler names: they may go, but never change
\* their user or type, they stay as long as their user does, and nobody comes back.
RowsStay ==
    /\ made'.beneficiaries >= made.beneficiaries
    /\ made'.notifications >= made.notifications
    /\ \A b \in 1 .. made.beneficiaries : beneficiary'[b] # Null =>
          /\ beneficiary[b] # Null
          /\ beneficiary'[b].user = beneficiary[b].user
          /\ beneficiary'[b].type = beneficiary[b].type
    /\ \A n \in 1 .. made.notifications : notification'[n] # Null =>
          /\ notification[n] # Null
          /\ notification'[n].user = notification[n].user
    /\ \A n \in 1 .. made.notifications :
          (notification[n] # Null /\ mailOn'[notification[n].user] # Null) =>
              notification'[n] # Null
    /\ \A u \in Users : mailOn'[u] # Null => mailOn[u] # Null
    /\ wanted \subseteq wanted'

\* Then what is known of a handler that does nothing stays known.
LEMMA OthersKept ==
    ASSUME IInv, RowsStay, made' \in [beneficiaries: 0 .. MaxBeneficiaries,
                                      notifications: 0 .. MaxNotifications],
           NEW r \in Requests, req'[r] = req[r]
    PROVE  HandlerInv(r)'
<1>0. /\ HandlerInv(r) /\ req[r] \in Request
      /\ made.beneficiaries \in Nat /\ made'.beneficiaries \in Nat
      /\ made.notifications \in Nat /\ made'.notifications \in Nat
      /\ 1 .. made.beneficiaries \subseteq 1 .. made'.beneficiaries
      /\ 1 .. made.notifications \subseteq 1 .. made'.notifications
  BY Values DEF IInv, TypeOK, RowsStay
<1>1. CreatesComplete(r)'
  BY <1>0 DEF HandlerInv, CreatesComplete
<1>2. WritesOwnBeneficiary(r)'
  BY <1>0 DEF HandlerInv, WritesOwnBeneficiary, RowsStay, At
<1>3. WritesOwnNotification(r)'
  BY <1>0 DEF HandlerInv, WritesOwnNotification, RowsStay, At
<1>4. MailsWanted(r)'
  BY <1>0 DEF HandlerInv, MailsWanted, RowsStay, At, Exists
<1> QED
  BY <1>1, <1>2, <1>3, <1>4 DEF HandlerInv

\* An idle handler is in no danger.
LEMMA IdleInv ==
    ASSUME NEW r \in Requests, req'[r] = Idle
    PROVE  HandlerInv(r)'
  BY Values DEF HandlerInv, CreatesComplete, WritesOwnBeneficiary, WritesOwnNotification,
                MailsWanted, At

\* The histories only grow.
LEMMA HistoriesGrow ==
    ASSUME TypeOK, Observe
    PROVE  /\ emptied \subseteq emptied' /\ emptied' \subseteq Rows
           /\ wanted \subseteq wanted' /\ wanted' \subseteq Notes
  BY DEF TypeOK, Observe

-----------------------------------------------------------------------------
\* What every step does to the rows, whoever takes it
DataKept ==
    /\ mailOn' \in [Users -> BOOLEAN \cup {Null}]
    /\ beneficiary' \in [Rows -> Beneficiary \cup {Null}]
    /\ notification' \in [Notes -> Notification \cup {Null}]
    /\ made' \in [beneficiaries: 0 .. MaxBeneficiaries, notifications: 0 .. MaxNotifications]
    /\ RowsStay /\ RowsAreMade'
    /\ CompleteUnlessEmptied' /\ NothingOutlivesItsUser'

LEMMA NoRowChanges ==
    ASSUME IInv, Observe, UNCHANGED <<mailOn, beneficiary, notification, made>>
    PROVE  DataKept
<1>1. /\ made.beneficiaries \in Nat /\ made.notifications \in Nat
      /\ emptied \subseteq emptied' /\ wanted \subseteq wanted'
  BY HistoriesGrow DEF IInv, TypeOK
<1> QED
  BY <1>1 DEF IInv, TypeOK, DataKept, RowsStay, RowsAreMade, CompleteUnlessEmptied,
              NothingOutlivesItsUser, Exists

\* A new beneficiary is complete, and its user is there.
LEMMA CreateBeneficiaryKeeps ==
    ASSUME IInv, Observe, NEW r \in Requests, CreateBeneficiary(r)
    PROVE  DataKept
<1> DEFINE b == made.beneficiaries + 1
<1>1. /\ b \in Rows /\ made.beneficiaries \in Nat /\ made.notifications \in Nat
      /\ made' = [made EXCEPT !.beneficiaries = b]
      /\ made'.beneficiaries = b /\ made'.notifications = made.notifications
      /\ made' \in [beneficiaries: 0 .. MaxBeneficiaries, notifications: 0 .. MaxNotifications]
  <2>1. /\ made.beneficiaries \in Nat /\ made.notifications \in 0 .. MaxNotifications
        /\ b <= MaxBeneficiaries /\ b \in Nat /\ b >= 1
        /\ made' = [made EXCEPT !.beneficiaries = b]
    BY Values DEF IInv, TypeOK, CreateBeneficiary
  <2>2. b \in Rows /\ b \in 0 .. MaxBeneficiaries
    BY <2>1, Values DEF Rows
  <2> HIDE DEF b
  <2> QED
    BY <2>1, <2>2 DEF IInv, TypeOK
<1>2. /\ req[r].found \in Beneficiary /\ req[r].found.user = req[r].user
      /\ NeededBy(req[r].found.type) \subseteq req[r].found.filled
      /\ Exists(req[r].user)
  BY DEF IInv, HandlerInv, CreatesComplete, CreateBeneficiary, At, UserIsThere
<1>3. /\ beneficiary' \in [Rows -> Beneficiary \cup {Null}]
      /\ \A c \in Rows : beneficiary'[c] = IF c = b THEN req[r].found ELSE beneficiary[c]
      /\ UNCHANGED <<mailOn, notification>>
      /\ mailOn' \in [Users -> BOOLEAN \cup {Null}]
      /\ notification' \in [Notes -> Notification \cup {Null}]
  BY <1>1, <1>2 DEF IInv, TypeOK, CreateBeneficiary
<1>4. emptied \subseteq emptied' /\ wanted \subseteq wanted'
  BY HistoriesGrow DEF IInv
<1> HIDE DEF b
<1>5. RowsStay
  <2>1. \A c \in 1 .. made.beneficiaries : c \in Rows /\ beneficiary'[c] = beneficiary[c]
    BY <1>1, <1>3, Values DEF Rows, b
  <2>2. made'.beneficiaries >= made.beneficiaries
    BY <1>1 DEF b
  <2> QED
    BY <1>1, <1>3, <1>4, <2>1, <2>2 DEF RowsStay
<1>6. RowsAreMade'
  BY <1>1, <1>3 DEF IInv, RowsAreMade, Rows, b
<1>7. CompleteUnlessEmptied'
  BY <1>2, <1>3, <1>4 DEF IInv, CompleteUnlessEmptied
<1>8. NothingOutlivesItsUser'
  BY <1>2, <1>3 DEF IInv, NothingOutlivesItsUser, Exists
<1> QED
  BY <1>1, <1>3, <1>5, <1>6, <1>7, <1>8 DEF DataKept

\* What an update takes from a beneficiary that it needs is recorded.
LEMMA UpdateBeneficiaryKeeps ==
    ASSUME IInv, Observe, NEW r \in Requests, UpdateBeneficiary(r)
    PROVE  DataKept
<1> DEFINE b == req[r].row
           body == req[r].body
           new == [beneficiary[b] EXCEPT
                     !.filled = (@ \ body.named) \cup (body.given \cap NeededBy(req[r].found.type))]
<1>1. /\ b \in Rows /\ b \in 1 .. made.beneficiaries
      /\ made.beneficiaries \in Nat /\ made.notifications \in Nat
      /\ body \in Body /\ beneficiary[b] \in Beneficiary
      /\ beneficiary[b].type = req[r].found.type
  BY Values DEF IInv, TypeOK, HandlerInv, WritesOwnBeneficiary, UpdateBeneficiary, At, Rows
<1>2. /\ new \in Beneficiary /\ new # Null
      /\ new.user = beneficiary[b].user /\ new.type = beneficiary[b].type
      /\ new.filled = (beneficiary[b].filled \ body.named)
                        \cup (body.given \cap NeededBy(beneficiary[b].type))
  <2>1. new.filled \in SUBSET Fields
    BY <1>1 DEF Beneficiary, Body
  <2> QED
    BY <1>1, <2>1, Values DEF Beneficiary
<1>3. /\ \A c \in Rows : beneficiary'[c] = IF c = b THEN new ELSE beneficiary[c]
      /\ beneficiary' \in [Rows -> Beneficiary \cup {Null}]
      /\ UNCHANGED <<mailOn, notification, made>>
      /\ req'[r] = Idle
  BY <1>1, <1>2 DEF IInv, TypeOK, UpdateBeneficiary, Filled, Done
<1>4. emptied \subseteq emptied' /\ wanted \subseteq wanted' /\ At(r, "update")
  BY HistoriesGrow DEF IInv, UpdateBeneficiary
<1> HIDE DEF new, b, body
<1>5. RowsStay
  <2>1. \A c \in 1 .. made.beneficiaries : c \in Rows
    BY <1>3, Values DEF IInv, TypeOK, Rows
  <2> QED
    BY <1>1, <1>2, <1>3, <1>4, <2>1, Values DEF RowsStay
<1>6. RowsAreMade'
  BY <1>1, <1>3 DEF IInv, RowsAreMade, Rows
<1>7. CompleteUnlessEmptied'
  <2> SUFFICES ASSUME NEW c \in Rows, c \notin emptied', beneficiary'[c] # Null
               PROVE  NeededBy(beneficiary'[c].type) \subseteq beneficiary'[c].filled
    BY DEF CompleteUnlessEmptied
  <2>1. CASE c # b
    BY <1>3, <1>4, <2>1 DEF IInv, CompleteUnlessEmptied
  <2>2. CASE c = b
    <3>1. NeededBy(beneficiary[b].type) \subseteq beneficiary[b].filled
      BY <1>1, <1>4, <2>2, Values DEF IInv, CompleteUnlessEmptied
    <3>2. \A f \in Fields : f \in beneficiary[b].filled /\ f \notin new.filled
                              => f \notin body.named \ body.given
      BY <1>1, <1>2, <1>3, <1>4, <2>2, Values DEF Observe, b, body
    <3>3. beneficiary[b].filled \subseteq Fields
      BY <1>1 DEF Beneficiary
    <3> QED
      BY <1>2, <1>3, <2>2, <3>1, <3>2, <3>3
  <2> QED
    BY <2>1, <2>2
<1>8. NothingOutlivesItsUser'
  BY <1>1, <1>2, <1>3, Values DEF IInv, NothingOutlivesItsUser, Exists
<1> QED
  BY <1>3, <1>5, <1>6, <1>7, <1>8 DEF DataKept, IInv, TypeOK

LEMMA DeleteBeneficiaryKeeps ==
    ASSUME IInv, Observe, NEW r \in Requests, DeleteBeneficiary(r)
    PROVE  DataKept
<1>1. /\ req[r].row \in Rows
      /\ made.beneficiaries \in Nat /\ made.notifications \in Nat
      /\ \A b \in 1 .. made.beneficiaries : b \in Rows
  BY Values DEF IInv, TypeOK, HandlerInv, WritesOwnBeneficiary, DeleteBeneficiary, At, Rows
<1>2. /\ \A c \in Rows : beneficiary'[c] = IF c = req[r].row THEN Null ELSE beneficiary[c]
      /\ beneficiary' \in [Rows -> Beneficiary \cup {Null}]
      /\ UNCHANGED <<mailOn, notification, made>>
  BY <1>1 DEF IInv, TypeOK, DeleteBeneficiary
<1>3. emptied \subseteq emptied' /\ wanted \subseteq wanted'
  BY HistoriesGrow DEF IInv
<1> QED
  BY <1>1, <1>2, <1>3 DEF DataKept, RowsStay, IInv, TypeOK, RowsAreMade,
                          CompleteUnlessEmptied, NothingOutlivesItsUser, Exists

LEMMA CreateNotificationKeeps ==
    ASSUME IInv, Observe, NEW r \in Requests, NEW u \in Users, CreateNotification(r, u)
    PROVE  DataKept
<1> DEFINE n == made.notifications + 1
           new == [user |-> u, status |-> "UNREAD"]
<1>1. /\ n \in Notes /\ made.beneficiaries \in Nat /\ made.notifications \in Nat
      /\ made'.notifications = n /\ made'.beneficiaries = made.beneficiaries
      /\ made' \in [beneficiaries: 0 .. MaxBeneficiaries, notifications: 0 .. MaxNotifications]
  <2>1. /\ made.notifications \in Nat /\ made.beneficiaries \in 0 .. MaxBeneficiaries
        /\ n <= MaxNotifications /\ n \in Nat /\ n >= 1
        /\ made' = [made EXCEPT !.notifications = n]
    BY Values DEF IInv, TypeOK, CreateNotification
  <2>2. n \in Notes /\ n \in 0 .. MaxNotifications
    BY <2>1, Values DEF Notes
  <2> HIDE DEF n
  <2> QED
    BY <2>1, <2>2 DEF IInv, TypeOK
<1>2. new \in Notification /\ new.user = u /\ Exists(u)
  BY DEF Notification, CreateNotification, UserIsThere
<1>3. /\ notification' \in [Notes -> Notification \cup {Null}]
      /\ \A m \in Notes : notification'[m] = IF m = n THEN new ELSE notification[m]
      /\ UNCHANGED <<mailOn, beneficiary>>
  BY <1>1, <1>2 DEF IInv, TypeOK, CreateNotification
<1>4. emptied \subseteq emptied' /\ wanted \subseteq wanted'
  BY HistoriesGrow DEF IInv
<1> HIDE DEF n, new
<1>5. RowsStay
  <2>1. \A m \in 1 .. made.notifications : m \in Notes /\ notification'[m] = notification[m]
    BY <1>1, <1>3, Values DEF Notes, n
  <2>2. made'.notifications >= made.notifications
    BY <1>1 DEF n
  <2> QED
    BY <1>1, <1>3, <1>4, <2>1, <2>2 DEF RowsStay
<1>6. RowsAreMade'
  BY <1>1, <1>3 DEF IInv, RowsAreMade, Notes, n
<1>7. CompleteUnlessEmptied'
  BY <1>3, <1>4 DEF IInv, CompleteUnlessEmptied
<1>8. NothingOutlivesItsUser'
  BY <1>2, <1>3 DEF IInv, NothingOutlivesItsUser, Exists
<1> QED
  BY <1>1, <1>3, <1>5, <1>6, <1>7, <1>8 DEF DataKept, IInv, TypeOK

\* MarkRead and MarkAllRead
LEMMA ReadingKeeps ==
    ASSUME IInv, Observe, UNCHANGED <<mailOn, beneficiary, made>>,
           notification' \in [Notes -> Notification \cup {Null}],
           \A n \in Notes : /\ (notification'[n] = Null) <=> (notification[n] = Null)
                            /\ notification[n] # Null =>
                                  notification'[n].user = notification[n].user
    PROVE  DataKept
<1>1. /\ made.beneficiaries \in Nat /\ made.notifications \in Nat
      /\ \A n \in 1 .. made.notifications : n \in Notes
  BY Values DEF IInv, TypeOK, Notes
<1>2. emptied \subseteq emptied' /\ wanted \subseteq wanted'
  BY HistoriesGrow DEF IInv
<1> QED
  BY <1>1, <1>2 DEF DataKept, RowsStay, IInv, TypeOK, RowsAreMade, CompleteUnlessEmptied,
                    NothingOutlivesItsUser, Exists

LEMMA MarkReadKeeps ==
    ASSUME IInv, Observe, NEW r \in Requests, MarkRead(r)
    PROVE  DataKept
<1> DEFINE n == req[r].row
           new == [notification[n] EXCEPT !.status = "READ"]
<1>1. n \in Notes /\ notification[n] \in Notification
  BY Values DEF IInv, TypeOK, HandlerInv, WritesOwnNotification, MarkRead, At, Notes
<1>2. new \in Notification /\ new # Null /\ new.user = notification[n].user
  BY <1>1, Values DEF Notification
<1>3. \A m \in Notes : notification'[m] = IF m = n THEN new ELSE notification[m]
  BY <1>1 DEF IInv, TypeOK, MarkRead
<1>4. notification' \in [Notes -> Notification \cup {Null}]
  BY <1>1, <1>2 DEF IInv, TypeOK, MarkRead
<1> HIDE DEF n, new
<1>5. notification[n] # Null
  BY <1>1, Values
<1> QED
  BY <1>1, <1>2, <1>3, <1>4, <1>5, ReadingKeeps DEF MarkRead

LEMMA MarkAllReadKeeps ==
    ASSUME IInv, Observe, NEW r \in Requests, MarkAllRead(r)
    PROVE  DataKept
<1>1. \A row \in Notification : /\ [row EXCEPT !.status = "READ"] \in Notification
                                /\ [row EXCEPT !.status = "READ"].user = row.user
  BY DEF Notification
<1>2. \A n \in Notes :
          notification'[n] = IF Owned(notification[n], req[r].user)
                             THEN [notification[n] EXCEPT !.status = "READ"] ELSE notification[n]
  BY DEF MarkAllRead
<1>3. \A n \in Notes : Owned(notification[n], req[r].user) => notification[n] \in Notification
  BY DEF IInv, TypeOK, Owned
<1>4. \A n \in Notes : notification'[n] \in Notification \cup {Null}
  BY <1>1, <1>2, <1>3 DEF IInv, TypeOK
<1>5. notification' \in [Notes -> Notification \cup {Null}]
  BY <1>4 DEF MarkAllRead
<1>6. \A n \in Notes : /\ (notification'[n] = Null) <=> (notification[n] = Null)
                       /\ notification[n] # Null => notification'[n].user = notification[n].user
  BY <1>1, <1>2, <1>3, Values
<1> QED
  BY <1>5, <1>6, ReadingKeeps DEF MarkAllRead

LEMMA UpdateEmailPreferenceKeeps ==
    ASSUME IInv, Observe, NEW u \in Users, NEW enabled \in BOOLEAN,
           UpdateEmailPreference(u, enabled)
    PROVE  DataKept
<1>1. /\ mailOn' \in [Users -> BOOLEAN \cup {Null}]
      /\ UNCHANGED <<beneficiary, notification, made>>
      /\ \A v \in Users : (mailOn'[v] = Null) <=> (mailOn[v] = Null)
  BY Values DEF IInv, TypeOK, UpdateEmailPreference, Exists
<1>2. /\ made.beneficiaries \in Nat /\ made.notifications \in Nat
      /\ \A b \in Rows : beneficiary[b] # Null => beneficiary[b].user \in Users
      /\ \A n \in Notes : notification[n] # Null => notification[n].user \in Users
  BY DEF IInv, TypeOK, Beneficiary, Notification
<1>3. emptied \subseteq emptied' /\ wanted \subseteq wanted'
  BY HistoriesGrow DEF IInv
<1> QED
  BY <1>1, <1>2, <1>3 DEF DataKept, RowsStay, IInv, TypeOK, RowsAreMade,
                          CompleteUnlessEmptied, NothingOutlivesItsUser, Exists

\* The deletion of an account takes its rows and no others.
LEMMA DeleteUserKeeps ==
    ASSUME IInv, Observe, NEW u \in Users, DeleteUser(u)
    PROVE  DataKept
<1>1. /\ \A b \in Rows : beneficiary'[b] = IF Owned(beneficiary[b], u) THEN Null
                                            ELSE beneficiary[b]
      /\ \A n \in Notes : notification'[n] = IF Owned(notification[n], u) THEN Null
                                              ELSE notification[n]
      /\ beneficiary' \in [Rows -> Beneficiary \cup {Null}]
      /\ notification' \in [Notes -> Notification \cup {Null}]
  BY DEF IInv, TypeOK, DeleteUser, Cascaded
<1>2. /\ mailOn' \in [Users -> BOOLEAN \cup {Null}]
      /\ \A v \in Users : mailOn'[v] = IF v = u THEN Null ELSE mailOn[v]
      /\ made' = made /\ made.beneficiaries \in Nat /\ made.notifications \in Nat
  BY DEF IInv, TypeOK, DeleteUser
<1>3. emptied \subseteq emptied' /\ wanted \subseteq wanted'
  BY HistoriesGrow DEF IInv
<1>4. /\ \A b \in Rows : beneficiary[b] # Null => beneficiary[b].user \in Users
      /\ \A n \in Notes : notification[n] # Null => notification[n].user \in Users
      /\ \A b \in 1 .. made.beneficiaries : b \in Rows
      /\ \A n \in 1 .. made.notifications : n \in Notes
  BY Values DEF IInv, TypeOK, Beneficiary, Notification, Rows, Notes
<1>5. RowsStay
  BY <1>1, <1>2, <1>3, <1>4 DEF RowsStay, Owned
<1>6. RowsAreMade'
  BY <1>1, <1>2 DEF IInv, RowsAreMade
<1>7. CompleteUnlessEmptied'
  BY <1>1, <1>3 DEF IInv, CompleteUnlessEmptied
<1>8. NothingOutlivesItsUser'
  BY <1>1, <1>2, <1>4 DEF IInv, NothingOutlivesItsUser, Exists, Owned
<1> QED
  BY <1>1, <1>2, <1>5, <1>6, <1>7, <1>8 DEF DataKept, IInv, TypeOK

-----------------------------------------------------------------------------
\* The invariant of the handlers, after a step
HandlersKept ==
    /\ req' \in [Requests -> Request]
    /\ \A r \in Requests : HandlerInv(r)'

LEMMA SlotKeeps ==
    ASSUME IInv, DataKept, NEW r \in Requests, NEW new \in Request,
           req' = [req EXCEPT ![r] = new],
           req'[r] = new => HandlerInv(r)'
    PROVE  HandlersKept
<1>1. /\ req' \in [Requests -> Request] /\ req'[r] = new
      /\ \A q \in Requests \ {r} : req'[q] = req[q]
  BY DEF IInv, TypeOK
<1>2. \A q \in Requests \ {r} : HandlerInv(q)'
  BY <1>1, OthersKept DEF DataKept
<1> QED
  BY <1>1, <1>2 DEF HandlersKept

LEMMA DoneKeeps ==
    ASSUME IInv, DataKept, NEW r \in Requests, Done(r)
    PROVE  HandlersKept
<1>1. req'[r] = Idle => HandlerInv(r)'
  BY IdleInv
<1> QED
  BY <1>1, SlotKeeps, Values DEF Done

LEMMA NoHandlerKeeps ==
    ASSUME IInv, DataKept, req' = req
    PROVE  HandlersKept
<1>1. \A q \in Requests : HandlerInv(q)'
  BY OthersKept DEF DataKept
<1> QED
  BY <1>1 DEF HandlersKept, IInv, TypeOK

\* create begins with what its type needs
LEMMA BeginCreateKeeps ==
    ASSUME IInv, DataKept, NEW r \in Requests, NEW u \in Users, NEW type \in Types,
           NEW given \in SUBSET Fields, BeginCreate(r, u, type, given)
    PROVE  HandlersKept
<1> DEFINE found == [user |-> u, type |-> type, filled |-> given \cap NeededBy(type)]
<1>1. /\ found \in Beneficiary /\ found.user = u
      /\ NeededBy(found.type) \subseteq found.filled
  BY Values DEF Beneficiary, BeginCreate, RequiredBy
<1>2. PICK step \in {"validate", "create"} :
         req' = [req EXCEPT ![r] = [Idle EXCEPT !.step = step, !.user = u, !.found = found]]
  BY DEF BeginCreate
<1> HIDE DEF found
<1> DEFINE new == [Idle EXCEPT !.step = step, !.user = u, !.found = found]
<1>3. /\ new \in Request /\ new.step = step /\ new.user = u /\ new.found = found
  BY <1>1, Values DEF Request, Steps
<1> HIDE DEF new
<1>4. req'[r] = new => HandlerInv(r)'
  BY <1>1, <1>3 DEF HandlerInv, CreatesComplete, WritesOwnBeneficiary, WritesOwnNotification,
                    MailsWanted, At
<1>5. req' = [req EXCEPT ![r] = new]
  BY <1>2 DEF new
<1> QED
  BY <1>3, <1>4, <1>5, SlotKeeps

LEMMA ValidateWithReepayKeeps ==
    ASSUME IInv, DataKept, NEW r \in Requests, ValidateWithReepay(r)
    PROVE  HandlersKept
<1> DEFINE new == [req[r] EXCEPT !.step = "create"]
<1>1. /\ req[r] \in Request /\ req[r].step = "validate" /\ CreatesComplete(r)
      /\ req' = [req EXCEPT ![r] = new]
  BY DEF IInv, TypeOK, ValidateWithReepay, HandlerInv, At
<1>2. /\ new \in Request /\ new.step = "create" /\ new.user = req[r].user
      /\ new.found = req[r].found
  BY <1>1 DEF Request, Steps
<1> HIDE DEF new
<1>3. req'[r] = new => HandlerInv(r)'
  BY <1>1, <1>2 DEF HandlerInv, CreatesComplete, WritesOwnBeneficiary, WritesOwnNotification,
                    MailsWanted, At
<1> QED
  BY <1>1, <1>2, <1>3, SlotKeeps

\* Past the ownership check, with the row that was found
LEMMA FindBeneficiaryKeeps ==
    ASSUME IInv, DataKept, NEW r \in Requests, NEW u \in Users, NEW b \in Rows,
           NEW step \in {"update", "delete"}, NEW body \in Body \cup {Null},
           step = "update" => body \in Body /\ body.given \subseteq body.named,
           FindBeneficiary(r, u, b, step, body)
    PROVE  HandlersKept
<1> DEFINE new == [step |-> step, user |-> u, row |-> b, body |-> body, found |-> beneficiary[b]]
<1>1. /\ beneficiary[b] \in Beneficiary /\ beneficiary[b].user = u
      /\ beneficiary' = beneficiary /\ made' = made
      /\ req' = [req EXCEPT ![r] = new]
  BY DEF IInv, TypeOK, FindBeneficiary, Owned
<1>2. b \in 1 .. made.beneficiaries /\ b \in Nat
  BY <1>1, Values DEF IInv, TypeOK, RowsAreMade, Rows
<1>3. new \in Request
  BY <1>1, <1>2 DEF Request, Steps
<1>4. /\ new.step = step /\ new.user = u /\ new.row = b /\ new.body = body
      /\ new.found = beneficiary[b]
  OBVIOUS
<1> HIDE DEF new
<1>5. req'[r] = new => HandlerInv(r)'
  BY <1>1, <1>2, <1>4 DEF HandlerInv, CreatesComplete, WritesOwnBeneficiary,
                          WritesOwnNotification, MailsWanted, At
<1> QED
  BY <1>1, <1>3, <1>5, SlotKeeps

LEMMA CreateNotificationNames ==
    ASSUME IInv, DataKept, NEW r \in Requests, NEW u \in Users, CreateNotification(r, u)
    PROVE  HandlersKept
<1> DEFINE n == made.notifications + 1
           new == [Idle EXCEPT !.step = "preference", !.user = u, !.row = n]
<1>1. /\ n \in Nat /\ n >= 1 /\ n <= MaxNotifications
      /\ made.notifications \in Nat /\ made'.notifications = n
      /\ req' = [req EXCEPT ![r] = new]
  BY DEF IInv, TypeOK, CreateNotification
<1>2. n \in 1 .. made'.notifications /\ n \in Notes
  BY <1>1, Values DEF Notes
<1>3. notification'[n] = [user |-> u, status |-> "UNREAD"]
  BY <1>2 DEF IInv, TypeOK, CreateNotification
<1>4. notification'[n] # Null /\ notification'[n].user = u
  BY <1>3, Values DEF Notification
<1>5. /\ new \in Request /\ new.step = "preference" /\ new.user = u /\ new.row = n
  BY <1>1, Values DEF Request, Steps
<1> HIDE DEF new, n
<1>6. req'[r] = new => HandlerInv(r)'
  BY <1>2, <1>4, <1>5 DEF HandlerInv, CreatesComplete, WritesOwnBeneficiary,
                          WritesOwnNotification, MailsWanted, At
<1> QED
  BY <1>1, <1>5, <1>6, SlotKeeps

\* A user who is read to want mail has the notification still, and from now on it is wanted.
LEMMA ReadPreferenceKeeps ==
    ASSUME IInv, DataKept, Observe, NEW r \in Requests, ReadPreference(r)
    PROVE  HandlersKept
<1>1. CASE WantsMail(req[r].user) /\ req' = [req EXCEPT ![r].step = "send"]
  <2> DEFINE new == [req[r] EXCEPT !.step = "send"]
  <2>1. /\ req[r] \in Request /\ req[r].step = "preference" /\ MailsWanted(r)
        /\ req' = [req EXCEPT ![r] = new]
        /\ UNCHANGED <<mailOn, notification, made>>
    BY <1>1 DEF IInv, TypeOK, ReadPreference, HandlerInv, At
  <2>2. /\ new \in Request /\ new.step = "send" /\ new.user = req[r].user
        /\ new.row = req[r].row
    BY <2>1 DEF Request, Steps
  <2>3. /\ req[r].user \in Users /\ req[r].row \in 1 .. made.notifications
        /\ mailOn[req[r].user] = TRUE /\ Exists(req[r].user)
        /\ notification[req[r].row] # Null
        /\ notification[req[r].row].user = req[r].user
    BY <1>1, <2>1, Values DEF MailsWanted, WantsMail, Exists, At
  <2>4. req[r].row \in Notes
    BY <2>3, Values DEF IInv, TypeOK, Notes
  <2>5. req[r].row \in wanted'
    BY <2>1, <2>3, <2>4 DEF Observe
  <2> HIDE DEF new
  <2>6. req'[r] = new => HandlerInv(r)'
    BY <2>1, <2>2, <2>3, <2>5 DEF HandlerInv, CreatesComplete, WritesOwnBeneficiary,
                                  WritesOwnNotification, MailsWanted, At
  <2> QED
    BY <2>1, <2>2, <2>6, SlotKeeps
<1>2. CASE Done(r)
  BY <1>2, DoneKeeps
<1> QED
  BY <1>1, <1>2 DEF ReadPreference

LEMMA FindNotificationKeeps ==
    ASSUME IInv, DataKept, NEW r \in Requests, NEW u \in Users, NEW n \in Notes,
           FindNotification(r, u, n)
    PROVE  HandlersKept
<1> DEFINE new == [Idle EXCEPT !.step = "markRead", !.user = u, !.row = n]
<1>1. /\ notification[n] # Null /\ notification[n].user = u
      /\ notification' = notification /\ made' = made
      /\ req' = [req EXCEPT ![r] = new]
  BY DEF FindNotification, Owned
<1>2. n \in 1 .. made.notifications /\ n \in Nat
  BY <1>1, Values DEF IInv, TypeOK, RowsAreMade, Notes
<1>3. /\ new \in Request /\ new.step = "markRead" /\ new.user = u /\ new.row = n
  BY <1>2, Values DEF Request, Steps
<1> HIDE DEF new
<1>4. req'[r] = new => HandlerInv(r)'
  BY <1>1, <1>2, <1>3 DEF HandlerInv, CreatesComplete, WritesOwnBeneficiary,
                          WritesOwnNotification, MailsWanted, At
<1> QED
  BY <1>1, <1>3, <1>4, SlotKeeps

LEMMA BeginMarkAllReadKeeps ==
    ASSUME IInv, DataKept, NEW r \in Requests, NEW u \in Users, BeginMarkAllRead(r, u)
    PROVE  HandlersKept
<1> DEFINE new == [Idle EXCEPT !.step = "markAllRead", !.user = u]
<1>1. /\ new \in Request /\ new.step = "markAllRead"
      /\ req' = [req EXCEPT ![r] = new]
  BY Values DEF Request, Steps, BeginMarkAllRead
<1> HIDE DEF new
<1>2. req'[r] = new => HandlerInv(r)'
  BY <1>1 DEF HandlerInv, CreatesComplete, WritesOwnBeneficiary, WritesOwnNotification,
              MailsWanted, At
<1> QED
  BY <1>1, <1>2, SlotKeeps

-----------------------------------------------------------------------------
LEMMA InitHolds == Init => IInv
<1> SUFFICES ASSUME Init PROVE IInv
  OBVIOUS
<1>1. TypeOK
  BY Values DEF Init, TypeOK
<1>2. \A r \in Requests : HandlerInv(r)
  BY Values DEF Init, HandlerInv, CreatesComplete, WritesOwnBeneficiary,
                WritesOwnNotification, MailsWanted, At
<1> QED
  BY <1>1, <1>2 DEF Init, IInv, RowsAreMade, CompleteUnlessEmptied, PreferenceHonoured,
                    NothingOutlivesItsUser

\* Every step of a handler keeps the rows and the handlers in order.
LEMMA HandlerStep ==
    ASSUME IInv, Observe, NEW r \in Requests, Handlers(r)
    PROVE  DataKept /\ HandlersKept
<1>1. ASSUME NEW u \in Users, NEW type \in Types, NEW given \in SUBSET Fields,
             BeginCreate(r, u, type, given)
      PROVE  DataKept /\ HandlersKept
  BY <1>1, NoRowChanges, BeginCreateKeeps DEF BeginCreate
<1>2. ASSUME NEW u \in Users, NEW b \in Rows, NEW body \in Bodies,
             FindBeneficiary(r, u, b, "update", body)
      PROVE  DataKept /\ HandlersKept
  <2>1. DataKept
    BY <1>2, NoRowChanges DEF FindBeneficiary
  <2> QED
    BY <1>2, <2>1, FindBeneficiaryKeeps, Values
<1>3. ASSUME NEW u \in Users, NEW b \in Rows, FindBeneficiary(r, u, b, "delete", Null)
      PROVE  DataKept /\ HandlersKept
  <2>1. DataKept
    BY <1>3, NoRowChanges DEF FindBeneficiary
  <2> QED
    BY <1>3, <2>1, FindBeneficiaryKeeps
<1>4. ASSUME NEW u \in Users, CreateNotification(r, u)
      PROVE  DataKept /\ HandlersKept
  BY <1>4, CreateNotificationKeeps, CreateNotificationNames
<1>5. ASSUME NEW u \in Users, NEW n \in Notes, FindNotification(r, u, n)
      PROVE  DataKept /\ HandlersKept
  BY <1>5, NoRowChanges, FindNotificationKeeps DEF FindNotification
<1>6. ASSUME NEW u \in Users, BeginMarkAllRead(r, u)
       PROVE  DataKept /\ HandlersKept
  BY <1>6, NoRowChanges, BeginMarkAllReadKeeps DEF BeginMarkAllRead
<1>7. CASE ValidateWithReepay(r)
  BY <1>7, NoRowChanges, ValidateWithReepayKeeps DEF ValidateWithReepay
<1>8. CASE CreateBeneficiary(r)
  BY <1>8, CreateBeneficiaryKeeps, DoneKeeps DEF CreateBeneficiary
<1>9. CASE UpdateBeneficiary(r)
  BY <1>9, UpdateBeneficiaryKeeps, DoneKeeps DEF UpdateBeneficiary
<1>10. CASE DeleteBeneficiary(r)
  BY <1>10, DeleteBeneficiaryKeeps, DoneKeeps DEF DeleteBeneficiary
<1>11. CASE ReadPreference(r)
  BY <1>11, NoRowChanges, ReadPreferenceKeeps DEF ReadPreference
<1>12. CASE MarkRead(r)
  BY <1>12, MarkReadKeeps, DoneKeeps DEF MarkRead
<1>13. CASE MarkAllRead(r)
  BY <1>13, MarkAllReadKeeps, DoneKeeps DEF MarkAllRead
<1>14. CASE Abort(r)
  BY <1>14, NoRowChanges, DoneKeeps DEF Abort
<1> QED
  BY <1>1, <1>2, <1>3, <1>4, <1>5, <1>6, <1>7, <1>8, <1>9, <1>10, <1>11, <1>12, <1>13, <1>14
     DEF Handlers

LEMMA StepHolds == IInv /\ [Next]_vars => IInv'
<1> SUFFICES ASSUME IInv, [Next]_vars PROVE IInv'
  OBVIOUS
<1>1. CASE UNCHANGED vars
  BY <1>1 DEF IInv, vars, TypeOK, RowsAreMade, HandlerInv, CreatesComplete,
              WritesOwnBeneficiary, WritesOwnNotification, MailsWanted, At, Exists,
              CompleteUnlessEmptied, PreferenceHonoured, NothingOutlivesItsUser
<1>2. CASE Next
  <2>1. Observe
    BY <1>2 DEF Next
  <2>2. DataKept /\ HandlersKept /\ mailed' \subseteq wanted'
    <3>1. mailed \subseteq wanted'
      BY <2>1, HistoriesGrow DEF IInv, PreferenceHonoured
    <3>2. ASSUME NEW r \in Requests, Handlers(r)
          PROVE  DataKept /\ HandlersKept
      BY <2>1, <3>2, HandlerStep
    <3>3. ASSUME NEW u \in Users, NEW enabled \in BOOLEAN, UpdateEmailPreference(u, enabled)
          PROVE  DataKept /\ HandlersKept
      BY <2>1, <3>3, UpdateEmailPreferenceKeeps, NoHandlerKeeps DEF UpdateEmailPreference
    <3>4. ASSUME NEW u \in Users, DeleteUser(u)
          PROVE  DataKept /\ HandlersKept
      BY <2>1, <3>4, DeleteUserKeeps, NoHandlerKeeps DEF DeleteUser
    <3>5. ASSUME NEW r \in Requests, SendEmail(r)
          PROVE  DataKept /\ HandlersKept /\ mailed' \subseteq wanted'
      <4>1. req[r].row \in wanted
        BY <3>5 DEF IInv, HandlerInv, MailsWanted, SendEmail, At
      <4>2. req[r].row \in wanted'
        BY <2>1, <4>1, HistoriesGrow DEF IInv
      <4> QED
        BY <2>1, <3>1, <3>5, <4>2, NoRowChanges, DoneKeeps DEF SendEmail
    <3> QED
      BY <1>2, <3>1, <3>2, <3>3, <3>4, <3>5 DEF Next
  <2>3. /\ emptied' \subseteq Rows /\ wanted' \subseteq Notes
    BY <2>1, HistoriesGrow DEF IInv
  <2>4. TypeOK'
    BY <2>2, <2>3 DEF TypeOK, DataKept, HandlersKept
  <2> QED
    BY <2>2, <2>4 DEF IInv, DataKept, HandlersKept, PreferenceHonoured
<1> QED
  BY <1>1, <1>2

LEMMA Inductive == Spec => []IInv
  BY InitHolds, StepHolds, PTL DEF Spec

-----------------------------------------------------------------------------
\* Rows, handlers and histories keep their types (the whole of OwnedRows).
THEOREM TypeCorrect == Spec => []TypeOK
  BY Inductive, PTL DEF IInv

\* Only an update can leave a beneficiary without what its type needs (validateTypeFields runs
\* before every create, and no other handler writes these columns).
THEOREM CompleteHolds == Spec => []CompleteUnlessEmptied
  BY Inductive, PTL DEF IInv

\* Nobody is mailed a notification without having had e-mail on since it was created
\* (createForUser, sendEmailIfEnabled), whatever is switched or deleted in between.
THEOREM PreferenceHolds == Spec => []PreferenceHonoured
  BY Inductive, PTL DEF IInv

\* The rows of a deleted account go with it and none comes after it (foreign keys with onDelete:
\* Cascade under the creates of beneficiaries and notifications).
THEOREM NothingOutlives == Spec => []NothingOutlivesItsUser
  BY Inductive, PTL DEF IInv

\* A beneficiary or notification is changed by a handler its own user called or goes with the
\* account, although update, delete and markRead write by id alone and markAllRead many rows.
THEOREM OwnershipHolds == Spec => OnlyTheOwnerWrites
<1> DEFINE Step ==
      /\ \A b \in Rows :
             (beneficiary[b] # Null /\ beneficiary'[b] # beneficiary[b]) =>
                \/ mailOn'[beneficiary[b].user] = Null
                \/ \E r \in Requests : req'[r] # req[r] /\ req[r].user = beneficiary[b].user
      /\ \A n \in Notes :
             (notification[n] # Null /\ notification'[n] # notification[n]) =>
                \/ mailOn'[notification[n].user] = Null
                \/ \E r \in Requests : /\ req'[r] # req[r]
                                       /\ req[r].user = notification[n].user
<1>1. IInv /\ [Next]_vars => [Step]_vars
  <2> SUFFICES ASSUME IInv, Next PROVE Step
    OBVIOUS
  <2>0. /\ beneficiary \in [Rows -> Beneficiary \cup {Null}]
        /\ notification \in [Notes -> Notification \cup {Null}]
        /\ req \in [Requests -> Request] /\ mailOn \in [Users -> BOOLEAN \cup {Null}]
        /\ \A b \in Rows : beneficiary[b] # Null => beneficiary[b].user \in Users
        /\ \A n \in Notes : notification[n] # Null => notification[n].user \in Users
    BY DEF IInv, TypeOK, Beneficiary, Notification
  <2>1. CASE UNCHANGED <<beneficiary, notification>>
    BY <2>1
  <2>2. ASSUME NEW r \in Requests, CreateBeneficiary(r)
        PROVE  Step
    <3>1. beneficiary[made.beneficiaries + 1] = Null
          /\ made.beneficiaries + 1 \in Rows
      BY <2>2, Values DEF IInv, TypeOK, RowsAreMade, CreateBeneficiary, Rows
    <3> QED
      BY <2>0, <2>2, <3>1 DEF CreateBeneficiary
  <2>3. ASSUME NEW r \in Requests, UpdateBeneficiary(r) \/ DeleteBeneficiary(r)
        PROVE  Step
    <3>1. /\ req[r].step # "idle" /\ req'[r] = Idle
          /\ beneficiary[req[r].row].user = req[r].user
          /\ notification' = notification
          /\ \A b \in Rows : b # req[r].row => beneficiary'[b] = beneficiary[b]
      BY <2>0, <2>3 DEF UpdateBeneficiary, DeleteBeneficiary, At, Done, IInv, HandlerInv,
                        WritesOwnBeneficiary
    <3> QED
      BY <3>1, Values
  <2>4. ASSUME NEW r \in Requests, NEW u \in Users, CreateNotification(r, u)
        PROVE  Step
    <3>1. notification[made.notifications + 1] = Null
          /\ made.notifications + 1 \in Notes
      BY <2>4, Values DEF IInv, TypeOK, RowsAreMade, CreateNotification, Notes
    <3> QED
      BY <2>0, <2>4, <3>1 DEF CreateNotification
  <2>5. ASSUME NEW r \in Requests, MarkRead(r)
        PROVE  Step
    <3>1. /\ req[r].step # "idle" /\ req'[r] = Idle
          /\ notification[req[r].row].user = req[r].user
          /\ beneficiary' = beneficiary
          /\ \A n \in Notes : n # req[r].row => notification'[n] = notification[n]
      BY <2>0, <2>5 DEF MarkRead, At, Done, IInv, HandlerInv, WritesOwnNotification
    <3> QED
      BY <3>1, Values
  <2>6. ASSUME NEW r \in Requests, MarkAllRead(r)
        PROVE  Step
    <3>1. /\ req[r].step # "idle" /\ req'[r] = Idle
          /\ beneficiary' = beneficiary
          /\ \A n \in Notes : (notification[n] # Null /\ notification'[n] # notification[n])
                                 => notification[n].user = req[r].user
      BY <2>0, <2>6 DEF MarkAllRead, At, Done, Owned
    <3> QED
      BY <3>1, Values
  <2>7. ASSUME NEW u \in Users, DeleteUser(u)
        PROVE  Step
    <3>1. /\ mailOn'[u] = Null
          /\ \A b \in Rows : beneficiary'[b] # beneficiary[b] => beneficiary[b].user = u
          /\ \A n \in Notes : notification'[n] # notification[n] => notification[n].user = u
      BY <2>0, <2>7 DEF DeleteUser, Cascaded, Owned
    <3> QED
      BY <3>1
  <2>8. ASSUME NEW r \in Requests, Handlers(r)
        PROVE  Step
    BY <2>1, <2>2, <2>3, <2>4, <2>5, <2>6, <2>8
       DEF Handlers, BeginCreate, FindBeneficiary, FindNotification, ValidateWithReepay,
           BeginMarkAllRead, ReadPreference, Abort
  <2> HIDE DEF Step
  <2> QED
    BY <2>1, <2>7, <2>8 DEF Next, UpdateEmailPreference, SendEmail
<1> QED
  BY <1>1, Inductive, PTL DEF Spec, OnlyTheOwnerWrites

\* A field of a beneficiary changes only by a request that names it, however updates overlap
\* (Prisma leaves alone what the body does not have).
THEOREM UpdatesHold == Spec => UpdatesAreNotLost
<1> DEFINE Step ==
      \A b \in Rows, f \in Fields :
          (/\ beneficiary[b] # Null /\ beneficiary'[b] # Null
           /\ (f \in beneficiary[b].filled) # (f \in beneficiary'[b].filled))
              => \E r \in Requests : /\ At(r, "update") /\ req[r].row = b
                                     /\ req'[r] = Idle /\ f \in req[r].body.named
<1>1. IInv /\ [Next]_vars => [Step]_vars
  <2> SUFFICES ASSUME IInv, Next PROVE Step
    OBVIOUS
  <2>0. /\ beneficiary \in [Rows -> Beneficiary \cup {Null}]
        /\ req \in [Requests -> Request]
    BY DEF IInv, TypeOK
  <2>1. CASE UNCHANGED beneficiary
    BY <2>1
  <2>2. ASSUME NEW r \in Requests, CreateBeneficiary(r)
        PROVE  Step
    <3>1. beneficiary[made.beneficiaries + 1] = Null
          /\ made.beneficiaries + 1 \in Rows
      BY <2>2, Values DEF IInv, TypeOK, RowsAreMade, CreateBeneficiary, Rows
    <3> QED
      BY <2>0, <2>2, <3>1 DEF CreateBeneficiary
  <2>3. ASSUME NEW r \in Requests, UpdateBeneficiary(r)
        PROVE  Step
    <3> DEFINE b == req[r].row
               added == req[r].body.given \cap NeededBy(req[r].found.type)
    <3>1. /\ b \in Rows /\ beneficiary[b] \in Beneficiary
          /\ req[r].body \in Body /\ req'[r] = Idle /\ At(r, "update")
          /\ \A c \in Rows : c # b => beneficiary'[c] = beneficiary[c]
      BY <2>0, <2>3, Values DEF UpdateBeneficiary, At, Done, IInv, TypeOK, HandlerInv,
                                WritesOwnBeneficiary, Rows
    <3>2. beneficiary'[b].filled = (beneficiary[b].filled \ req[r].body.named) \cup added
      BY <2>0, <2>3, <3>1 DEF UpdateBeneficiary, Filled, Beneficiary
    <3>3. added \subseteq req[r].body.named
      BY <2>3 DEF IInv, HandlerInv, WritesOwnBeneficiary, UpdateBeneficiary, At
    <3> HIDE DEF b, added
    <3>4. \A f \in Fields : (f \in beneficiary[b].filled) # (f \in beneficiary'[b].filled)
                               => f \in req[r].body.named
      BY <3>2, <3>3
    <3> QED
      BY <3>1, <3>4 DEF b
  <2>4. ASSUME NEW r \in Requests, DeleteBeneficiary(r)
        PROVE  Step
    BY <2>0, <2>4 DEF DeleteBeneficiary
  <2>5. ASSUME NEW u \in Users, DeleteUser(u)
        PROVE  Step
    BY <2>0, <2>5 DEF DeleteUser, Cascaded
  <2>6. ASSUME NEW r \in Requests, Handlers(r)
        PROVE  Step
    BY <2>1, <2>2, <2>3, <2>4, <2>6
       DEF Handlers, BeginCreate, FindBeneficiary, FindNotification, ValidateWithReepay,
           BeginMarkAllRead, CreateNotification, ReadPreference, MarkRead, MarkAllRead, Abort
  <2> HIDE DEF Step
  <2> QED
    BY <2>1, <2>5, <2>6 DEF Next, UpdateEmailPreference, SendEmail
<1> QED
  BY <1>1, Inductive, PTL DEF Spec, UpdatesAreNotLost
=============================================================================
