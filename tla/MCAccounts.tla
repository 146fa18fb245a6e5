----------------------------- MODULE MCAccounts -----------------------------
(* Small instances of Accounts for TLC.                                    *)
EXTENDS Accounts, TLC

Nothing == [email |-> Null, role |-> Null, status |-> Null]

\* One property at a time, and none at all
OneChange ==
    {Nothing} \cup {[Nothing EXCEPT !.email = e] : e \in Emails}
              \cup {[Nothing EXCEPT !.role = x] : x \in Roles}
              \cup {[Nothing EXCEPT !.status = x] : x \in Statuses}

Symmetry == Permutations(Requests)
=============================================================================
