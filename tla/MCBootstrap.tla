--------------------------- MODULE MCBootstrap ---------------------------
(* Three processes on one database: two seed root, with different passwords, one seeds ops. *)
EXTENDS Bootstrap, TLC

CONSTANTS p1, p2, p3, root, ops, pw1, pw2

MCAdminOf == (p1 :> root) @@ (p2 :> root) @@ (p3 :> ops)
MCPasswordOf == (p1 :> pw1) @@ (p2 :> pw2) @@ (p3 :> pw1)
MCSeeds == << <<"users", "view">>, <<"users", "update">> >>
MCCodes == {MCSeeds[i] : i \in 1..2}
Nobody == [a \in Accounts |-> Nil]
=============================================================================
