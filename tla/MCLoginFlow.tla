--------------------------- MODULE MCLoginFlow ---------------------------
(* Instances of LoginFlow for TLC. *)
EXTENDS LoginFlow, TLC

CONSTANTS r1, r2, r3, r4, b1, b2, ada, eve, p1, p2

OneActive == [e \in Emails |-> [status |-> "active", password |-> p1]]
Newcomers == [e \in Emails |-> [status |-> "absent", password |-> Nil]]
ActiveAndInvited ==
  (ada :> [status |-> "active", password |-> p1]) @@ (eve :> [status |-> "invited", password |-> Nil])

Interchangeable == Permutations(Requests)
=============================================================================
