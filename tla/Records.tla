------------------------------ MODULE Records ------------------------------
(***************************************************************************)
(* What the write requests of a resource promise: each changes the records *)
(* at most once, in one step, and at one key; a create never lands on a    *)
(* record that is there, and neither an update nor a delete brings one     *)
(* back that is gone.                                                      *)
(***************************************************************************)
CONSTANTS
  Keys,      \* the ids of records
  RowsAt,    \* [Keys -> SUBSET rows]: the rows that can stand under a key
  Requests,
  Nil

VARIABLES
  rows,  \* [Keys -> row or Nil]
  fate   \* [Requests -> {"open", "created", "updated", "deleted", "closed"}]

Init == /\ \A k \in Keys : rows[k] = Nil \/ rows[k] \in RowsAt[k]
        /\ fate = [q \in Requests |-> "open"]

Ends(q, outcome) == fate[q] = "open" /\ fate' = [fate EXCEPT ![q] = outcome]

Create(q, k) == /\ Ends(q, "created")
                /\ rows[k] = Nil /\ rows'[k] \in RowsAt[k]
                /\ rows' = [rows EXCEPT ![k] = rows'[k]]

Update(q, k) == /\ Ends(q, "updated")
                /\ rows[k] # Nil /\ rows'[k] \in RowsAt[k]
                /\ rows' = [rows EXCEPT ![k] = rows'[k]]

Delete(q, k) == /\ Ends(q, "deleted")
                /\ rows[k] # Nil
                /\ rows' = [rows EXCEPT ![k] = Nil]

\* Read, refused, or too late.
Close(q) == Ends(q, "closed") /\ UNCHANGED rows

Next == \E q \in Requests : \/ Close(q)
                            \/ \E k \in Keys : Create(q, k) \/ Update(q, k) \/ Delete(q, k)

Spec == Init /\ [][Next]_<<rows, fate>>
=============================================================================
