--------------------------- MODULE MCMemoryStore ---------------------------
(* Small instances of MemoryStore: rows "a" (seeded) and "b", and an id for every new uuid. *)
EXTENDS MemoryStore, TLC

CONSTANTS c1, c2, c3, a, b, u1, u2, u3, one, old, new, junk

MCText == one :> b
MCSeeds == [i \in Ids |-> IF i = a THEN [id |-> a, value |-> old, by |-> <<Nil, 0>>] ELSE Nil]

Data(id, value) == [id |-> id, value |-> value]
M(op, id, data) == [op |-> op, id |-> id, data |-> data]

\* Every operation, alone and before or after one that can fail, on the same two rows.
MCBatches ==
  { <<M("create", Nil, Data(one, new)), M("delete", a, NotObject)>>,
    <<M("delete", b, NotObject), M("create", Nil, Data(Nil, new))>>,
    <<M("upsert", a, Data(a, new)), M("update", b, Data(a, new))>>,
    <<M("update", a, Data(b, junk)), M("create", Nil, Data(one, new))>>,
    <<M("upsert", b, Data(a, junk)), M("update", b, NotObject)>>,
    <<M("update", b, NotObject), M("create", Nil, NotObject)>> }

\* A re-import of row a whose payload leaves its id out.
MCReimport == { <<M("upsert", a, Data(Nil, new))>> , <<M("update", a, Data(Nil, new))>> }

Symmetry == Permutations(Clients) \cup Permutations(Generated)
=============================================================================
