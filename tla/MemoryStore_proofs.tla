------------------------- MODULE MemoryStore_proofs -------------------------
(***************************************************************************)
(* Proofs about MemoryStore, for every set of callers, ids, batches and    *)
(* seeds that satisfies its assumptions.  The inductive invariant IInv     *)
(* says of every row of every map who may have written it by now, and of   *)
(* every snapshot how it can differ from the map it was cloned from.       *)
(***************************************************************************)
EXTENDS MemoryStore, TLAPS

\* Where a caller is in its job.
PhaseOK(c) ==
  /\ pc[c] = "idle" => job[c] = "none" /\ outcome[c] = "none" /\ pos[c] = 1
  /\ pc[c] # "idle" => job[c] \in {"batch", "tx"} /\ batch[c] \in Batches
                       /\ pos[c] \in 1..Len(batch[c])
  /\ view[c] # Nil <=> job[c] = "tx"
  /\ base[c] # Nil <=> job[c] = "tx"
  /\ pc[c] \in {"run", "retry"} => outcome[c] = "none"
  /\ pc[c] = "retry" => job[c] = "batch" /\ Current(c).op = "upsert"
  /\ pc[c] \in {"applied", "committed", "rolled_back"} => job[c] = "tx"
  /\ pc[c] = "done" => job[c] = "batch"

\* Row may be under key i of the shared map (d = Nil) or of d's snapshot: its id is its key, and
\* it is a seed, or written by a mutation of a batch that was reached and did not fail, or by a
\* transaction that is d's or was committed.
RowOK(row, i, d) ==
  /\ row.id = i
  /\ row.by[1] # Nil =>
       \/ /\ job[row.by[1]] = "batch"
          /\ \/ row.by[2] < pos[row.by[1]]
             \/ row.by[2] = pos[row.by[1]] /\ outcome[row.by[1]] \in {"ok", "internal"}
       \/ job[row.by[1]] = "tx" /\ (pc[row.by[1]] = "committed" \/ row.by[1] = d)

MapOK(map, d) == \A i \in Ids : map[i] # Nil => RowOK(map[i], i, d)

ViewOK(c) ==
  view[c] # Nil => /\ MapOK(view[c], c)
                   /\ \A i \in Ids \ Named(c) : view[c][i] = base[c][i]

IInv ==
  /\ TypeOK
  /\ \A c \in Clients : PhaseOK(c)
  /\ MapOK(store, Nil)
  /\ \A c \in Clients : ViewOK(c)

----------------------------------------------------------------------------
(* What apply_one does to a map. *)

\* m can be run: it names a row, unless it is a create.
Runs(m) == m \in Mutation /\ (m.op # "create" => m.id \in Ids)

\* Row after is as before, gone, or written by the mutation: a new row under its own id, or an
\* old one that keeps its id.
Written(before, after, i, by) ==
  \/ after = before
  \/ after = Nil
  \/ after \in Row /\ after.by = by /\ (after.id = i \/ (before \in Row /\ after.id = before.id))

\* r is what mutation m by tag makes of map: unchanged unless it succeeds, and then only in rows
\* that m names.
AppliedOK(r, map, m, by) ==
  /\ r.map \in Map
  /\ r.out \in {"ok", "conflict", "not_found", "validation"}
  /\ r.out # "ok" => r.map = map
  /\ \A i \in Ids : Written(map[i], r.map[i], i, by)
  /\ \A i \in Ids \ Targets(m) : r.map[i] = map[i]

\* A create stores a row under the id that is in it, and touches no other.
LEMMA CreateOK ==
  ASSUME NEW map \in Map, NEW m \in Mutation, m.op \in {"create", "upsert"},
         NEW by \in (Clients \cup {Nil}) \X Nat,
         NEW r \in Create(map, m.data, by)
  PROVE  AppliedOK(r, map, m, by)
<1> DEFINE data == m.data
<1>1. m.data \in Payload \cup {NotObject}
  BY DEF Mutation
<1>2. CASE data = NotObject
  BY <1>2 DEF Create, Result, AppliedOK, Written
<1>3. CASE data # NotObject
  <2>1. PICK key \in KeysFor(data) :
          r = IF map[key] # Nil THEN Result(map, "conflict")
              ELSE Result([map EXCEPT ![key] = Stored(data, key, by)], "ok")
    BY <1>3 DEF Create
  <2>2. data \in Payload /\ data.value \in Values
    BY <1>1, <1>3 DEF Payload
  <2>3. key \in Ids /\ key \in Targets(m)
    BY <1>3, <2>2, StoreAssumption DEF KeysFor, Fresh, Targets, Payload
  <2>4. CASE map[key] # Nil
    BY <2>1, <2>4 DEF Result, AppliedOK, Written
  <2>5. CASE map[key] = Nil
    <3>1. r.map = [map EXCEPT ![key] = Stored(data, key, by)] /\ r.out = "ok"
      BY <2>1, <2>5 DEF Result
    <3>2. Stored(data, key, by) \in Row /\ Stored(data, key, by).by = by
      BY <2>2, <2>3 DEF Stored, Row, Payload
    <3>3. Stored(data, key, by).id = key
      BY <2>2, <2>3, StoreAssumption DEF Stored, KeysFor
    <3>4. r.map \in Map /\ r.map[key] = Stored(data, key, by)
          /\ \A i \in Ids \ {key} : r.map[i] = map[i]
      BY <2>3, <3>1, <3>2 DEF Map
    <3>5. QED
      BY <2>3, <3>1, <3>2, <3>3, <3>4 DEF AppliedOK, Written
  <2>6. QED
    BY <2>4, <2>5
<1>4. QED
  BY <1>2, <1>3

\* An update keeps the id of the row it patches, and touches no other.
LEMMA UpdateOK ==
  ASSUME NEW map \in Map, NEW m \in Mutation, m.id \in Ids,
         NEW by \in (Clients \cup {Nil}) \X Nat
  PROVE  AppliedOK(Update(map, m.id, m.data, by), map, m, by)
<1> DEFINE r == Update(map, m.id, m.data, by)
           next == [map EXCEPT ![m.id].value = m.data.value, ![m.id].by = by]
<1>1. m.id \in Targets(m) /\ m.data \in Payload \cup {NotObject}
  BY DEF Targets, Mutation
<1>2. CASE map[m.id] = Nil \/ m.data = NotObject
  BY <1>2 DEF Update, Result, AppliedOK, Written
<1>3. CASE map[m.id] # Nil /\ m.data # NotObject
  <2>1. r.map = next /\ r.out = "ok"
    BY <1>3 DEF Update, Result
  <2>2. map[m.id] \in Row /\ m.data.value \in Values
    BY <1>1, <1>3 DEF Map, Payload
  <2>3. /\ next[m.id] \in Row /\ next[m.id].by = by /\ next[m.id].id = map[m.id].id
        /\ next \in Map
        /\ \A i \in Ids \ {m.id} : next[i] = map[i]
    BY <2>2 DEF Map, Row
  <2>4. QED
    BY <1>1, <2>1, <2>2, <2>3 DEF AppliedOK, Written
<1>4. QED
  BY <1>2, <1>3

\* apply_one, whatever the mutation.
LEMMA ApplyOK ==
  ASSUME NEW map \in Map, NEW m, Runs(m), NEW by \in (Clients \cup {Nil}) \X Nat,
         NEW r \in ApplyOne(map, m, by)
  PROVE  AppliedOK(r, map, m, by)
<1>1. m \in Mutation /\ m.op \in {"create", "update", "delete", "upsert"}
  BY DEF Runs, Mutation
<1>2. CASE m.op = "create"
  BY <1>1, <1>2, CreateOK DEF ApplyOne
<1>3. CASE m.op = "update"
  BY <1>1, <1>3, UpdateOK DEF ApplyOne, Runs
<1>4. CASE m.op = "delete"
  <2>1. r = Delete(map, m.id) /\ m.id \in Ids /\ m.id \in Targets(m)
    BY <1>4 DEF ApplyOne, Runs, Targets
  <2>2. CASE map[m.id] = Nil
    BY <2>1, <2>2 DEF Delete, Result, AppliedOK, Written
  <2>3. CASE map[m.id] # Nil
    <3>1. r.map = [map EXCEPT ![m.id] = Nil] /\ r.out = "ok"
      BY <2>1, <2>3 DEF Delete, Result
    <3>2. r.map \in Map /\ r.map[m.id] = Nil /\ \A i \in Ids \ {m.id} : r.map[i] = map[i]
      BY <2>1, <3>1 DEF Map
    <3>3. QED
      BY <2>1, <3>1, <3>2 DEF AppliedOK, Written
  <2>4. QED
    BY <2>2, <2>3
<1>5. CASE m.op = "upsert"
  <2>1. PICK first \in Create(map, m.data, by) :
          r = IF first.out = "conflict" THEN Update(map, m.id, m.data, by) ELSE first
    BY <1>5 DEF ApplyOne
  <2>2. QED
    BY <1>1, <1>5, <2>1, CreateOK, UpdateOK DEF Runs
<1>6. QED
  BY <1>1, <1>2, <1>3, <1>4, <1>5

----------------------------------------------------------------------------
(* The inductive step. *)

\* What c's next mutation may write, and by which tag.
LEMMA CurrentRuns ==
  ASSUME IInv, NEW c \in Clients, pc[c] \in {"run", "retry"}
  PROVE  /\ Runs(Current(c)) /\ Tag(c) \in (Clients \cup {Nil}) \X Nat
         /\ pos[c] \in 1..Len(batch[c]) /\ Targets(Current(c)) \subseteq Named(c)
         /\ Tag(c)[1] = c /\ Tag(c)[2] = pos[c]
<1>1. batch[c] \in Batches /\ pos[c] \in 1..Len(batch[c]) /\ pos[c] \in Nat
  BY DEF IInv, PhaseOK, TypeOK
<1>2. batch[c] \in Seq(Mutation) /\ Current(c) \in Mutation
  BY <1>1, StoreAssumption DEF Current
<1>3. Runs(Current(c))
  BY <1>1, <1>2, StoreAssumption DEF Runs, Current
<1>4. Targets(Current(c)) \subseteq Named(c)
  BY <1>1 DEF Named, Current
<1>5. QED
  BY <1>1, <1>3, <1>4 DEF Tag

\* A step of c after which the rows that were in order are so still: it starts c's job, or goes
\* on with it.
Onward(c) ==
  /\ \A d \in Clients \ {c} :
       job'[d] = job[d] /\ pos'[d] = pos[d] /\ outcome'[d] = outcome[d] /\ pc'[d] = pc[d]
  /\ \/ pc[c] = "idle"
     \/ /\ job'[c] = job[c] /\ pc[c] # "committed"
        /\ \/ pos'[c] = pos[c] /\ outcome'[c] = outcome[c]
           \/ outcome[c] = "none" /\ pos'[c] \in Nat /\ pos'[c] >= pos[c]

\* A row in order stays in order.
LEMMA RowStays ==
  ASSUME IInv, NEW c \in Clients, Onward(c), NEW row \in Row, NEW i, NEW d, RowOK(row, i, d)
  PROVE  RowOK(row, i, d)'
<1> DEFINE by == row.by[1]
           n == row.by[2]
<1>1. by \in Clients \cup {Nil} /\ n \in Nat /\ Nil \notin Clients
  BY SeedAssumption DEF Row
<1>2. CASE by # c
  BY <1>1, <1>2 DEF RowOK, Onward
<1>3. CASE by = c
  <2>1. pos[c] \in Nat /\ pc[c] # "idle"
    BY <1>1, <1>3 DEF IInv, TypeOK, PhaseOK, RowOK
  <2>2. job[c] = "batch" => n < pos'[c] \/ (n = pos'[c] /\ outcome'[c] \in {"ok", "internal"})
    BY <1>1, <1>3, <2>1 DEF RowOK, Onward
  <2>3. job'[c] = job[c] /\ pc[c] # "committed"
    BY <2>1 DEF Onward
  <2>4. QED
    BY <1>3, <2>2, <2>3 DEF RowOK
<1>4. QED
  BY <1>2, <1>3

\* So does a whole map of such rows.
LEMMA MapStays ==
  ASSUME IInv, NEW c \in Clients, Onward(c), NEW map \in Map, NEW d, MapOK(map, d)
  PROVE  MapOK(map, d)'
<1>1. SUFFICES ASSUME NEW i \in Ids, map[i] # Nil
               PROVE  RowOK(map[i], i, d)'
  BY DEF MapOK
<1>2. map[i] \in Row /\ RowOK(map[i], i, d)
  BY <1>1 DEF Map, MapOK
<1>3. QED
  BY <1>2, RowStays

\* The shared map, when the step leaves it alone.
LEMMA StoreStays ==
  ASSUME IInv, NEW c \in Clients, Onward(c), store' = store
  PROVE  MapOK(store, Nil)'
<1>1. PICK map \in Map : map = store
  BY DEF IInv, TypeOK
<1>2. MapOK(map, Nil)'
  BY <1>1, MapStays DEF IInv
<1>3. QED
  BY <1>1, <1>2 DEF MapOK, RowOK

\* A snapshot, when the step leaves it alone.
LEMMA ViewStays ==
  ASSUME IInv, NEW c \in Clients, Onward(c), NEW d \in Clients,
         view'[d] = view[d], base'[d] = base[d], batch'[d] = batch[d], pc[d] # "idle" \/ d # c
  PROVE  ViewOK(d)'
<1>1. CASE view[d] # Nil
  <2>1. view[d] \in Map /\ MapOK(view[d], d) /\ \A i \in Ids \ Named(d) : view[d][i] = base[d][i]
    BY <1>1 DEF IInv, TypeOK, ViewOK
  <2>2. MapOK(view[d], d)'
    <3>1. PICK map \in Map : map = view[d]
      BY <2>1
    <3>2. MapOK(map, d)'
      BY <2>1, <3>1, MapStays
    <3>3. QED
      BY <3>1, <3>2 DEF MapOK, RowOK
  <2>3. Named(d) \subseteq Named(d)'
    <3>1. pos[d] \in Nat /\ pos[c] \in Nat
      BY DEF IInv, TypeOK
    <3>2. 1..pos[d] \subseteq 1..pos'[d]
      BY <3>1 DEF Onward
    <3>3. QED
      BY <3>2 DEF Named
  <2>4. QED
    BY <2>1, <2>2, <2>3 DEF ViewOK
<1>2. CASE view[d] = Nil
  BY <1>2 DEF ViewOK
<1>3. QED
  BY <1>1, <1>2

\* What c's mutation made of a map that was in order is in order: the rows it wrote carry c's tag,
\* and c's job has by then gone past them.
LEMMA Rewritten ==
  ASSUME IInv, NEW c \in Clients, Onward(c), pc[c] \in {"run", "retry"},
         NEW map \in Map, NEW d, MapOK(map, d), NEW m, NEW r, AppliedOK(r, map, m, Tag(c)),
         r.out = "ok" =>
           \/ /\ job'[c] = "batch"
              /\ \/ pos[c] < pos'[c]
                 \/ pos'[c] = pos[c] /\ outcome'[c] \in {"ok", "internal"}
           \/ job'[c] = "tx" /\ d = c
  PROVE  \A i \in Ids : r.map[i] # Nil => RowOK(r.map[i], i, d)'
<1>1. SUFFICES ASSUME NEW i \in Ids, r.map[i] # Nil
               PROVE  RowOK(r.map[i], i, d)'
  OBVIOUS
<1>2. Written(map[i], r.map[i], i, Tag(c)) /\ map[i] \in Row \cup {Nil}
  BY DEF AppliedOK, Map
<1>3. map[i] # Nil => map[i] \in Row /\ RowOK(map[i], i, d)
  BY <1>2 DEF MapOK
<1>4. CASE r.map[i] = map[i]
  BY <1>1, <1>3, <1>4, RowStays
<1>5. CASE r.map[i] # map[i]
  <2>1. r.map[i] \in Row /\ r.map[i].by = Tag(c) /\ r.out = "ok"
    BY <1>1, <1>2, <1>5 DEF Written, AppliedOK
  <2>2. r.map[i].id = i
    BY <1>1, <1>2, <1>3, <1>5, SeedAssumption DEF Written, RowOK
  <2>3. r.map[i].by[1] = c /\ r.map[i].by[2] = pos[c]
    BY <2>1 DEF Tag
  <2>4. QED
    BY <2>1, <2>2, <2>3 DEF RowOK
<1>6. QED
  BY <1>4, <1>5

----------------------------------------------------------------------------
(* Initial states and steps. *)

\* It holds at first.
LEMMA InitOK == Init => IInv
<1>1. SUFFICES ASSUME Init PROVE IInv
  OBVIOUS
<1>2. TypeOK
  BY <1>1, SeedAssumption DEF Init, TypeOK, Phases, Outcomes
<1>3. ASSUME NEW c \in Clients PROVE PhaseOK(c) /\ ViewOK(c)
  BY <1>1 DEF Init, PhaseOK, ViewOK
<1>4. MapOK(store, Nil)
  BY <1>1, SeedAssumption DEF Init, MapOK, RowOK
<1>5. QED
  BY <1>2, <1>3, <1>4 DEF IInv

\* How Proceed goes on.
LEMMA ProceedOK ==
  ASSUME IInv, NEW c \in Clients, pc[c] \in {"run", "retry"},
         NEW out, NEW end \in {"done", "applied"}, Proceed(c, out, end), job' = job, batch' = batch,
         out \in Outcomes
  PROVE  /\ Onward(c)
         /\ pos' \in [Clients -> Nat] /\ pc' \in [Clients -> Phases]
         /\ outcome' \in [Clients -> Outcomes]
         /\ pos'[c] \in 1..Len(batch[c])
         /\ \/ out = "ok" /\ pos'[c] = pos[c] + 1 /\ outcome'[c] = "none" /\ pc'[c] = "run"
            \/ pos'[c] = pos[c] /\ outcome'[c] = out /\ pc'[c] = end
<1>1. /\ pos \in [Clients -> Nat] /\ pc \in [Clients -> Phases]
      /\ outcome \in [Clients -> Outcomes]
  BY DEF IInv, TypeOK
<1>2. pos[c] \in 1..Len(batch[c]) /\ outcome[c] = "none" /\ pos[c] \in Nat
  BY <1>1 DEF IInv, PhaseOK
<1>3. Len(batch[c]) \in Nat
  BY DEF IInv, TypeOK
<1>4. \/ out = "ok" /\ pos' = [pos EXCEPT ![c] = @ + 1] /\ outcome' = outcome
            /\ pc' = [pc EXCEPT ![c] = "run"] /\ pos[c] < Len(batch[c])
      \/ pos' = pos /\ outcome' = [outcome EXCEPT ![c] = out] /\ pc' = [pc EXCEPT ![c] = end]
  BY DEF Proceed
<1>5. QED
  BY <1>1, <1>2, <1>3, <1>4 DEF Onward, Phases

\* The callers a step does not move are where they were.
LEMMA PhaseStays ==
  ASSUME NEW c, PhaseOK(c), pc'[c] = pc[c], job'[c] = job[c], outcome'[c] = outcome[c],
         batch'[c] = batch[c], pos'[c] = pos[c], (view[c] # Nil) <=> (view'[c] # Nil),
         base'[c] = base[c]
  PROVE  PhaseOK(c)'
BY DEF PhaseOK, Current

\* A caller starts: its snapshot, if it has one, is the shared map.
LEMMA AskStep ==
  ASSUME IInv, NEW c \in Clients, NEW b \in Batches, Start(c, b) \/ BeginTx(c, b)
  PROVE  IInv'
<1>1. /\ TypeOK /\ \A d \in Clients : PhaseOK(d) /\ ViewOK(d)
      /\ MapOK(store, Nil)
  BY DEF IInv
<1>2. /\ pc[c] = "idle" /\ store' = store /\ pos' = pos /\ outcome' = outcome
      /\ batch' = [batch EXCEPT ![c] = b] /\ pc' = [pc EXCEPT ![c] = "run"]
  BY DEF Start, BeginTx, Ask
<1>3. \/ job' = [job EXCEPT ![c] = "batch"] /\ view' = view /\ base' = base
      \/ /\ job' = [job EXCEPT ![c] = "tx"]
         /\ view' = [view EXCEPT ![c] = store] /\ base' = [base EXCEPT ![c] = store]
  BY DEF Start, BeginTx, Ask
<1>4. b \in Seq(Mutation) /\ b # <<>> /\ Len(b) \in Nat /\ Len(b) >= 1
  BY StoreAssumption
<1>5. TypeOK'
  <2>1. batch' \in [Clients -> Seq(Mutation)] /\ pc' \in [Clients -> Phases]
    BY <1>1, <1>2, <1>4 DEF TypeOK, Phases
  <2>2. /\ job' \in [Clients -> {"none", "batch", "tx"}]
        /\ view' \in [Clients -> Map \cup {Nil}] /\ base' \in [Clients -> Map \cup {Nil}]
    BY <1>1, <1>3 DEF TypeOK
  <2>3. QED
    BY <1>1, <1>2, <2>1, <2>2 DEF TypeOK
<1>6. Onward(c)
  BY <1>1, <1>2, <1>3 DEF Onward, TypeOK
<1>7. MapOK(store, Nil)'
  BY <1>2, <1>6, StoreStays
<1>8. ASSUME NEW d \in Clients PROVE PhaseOK(d)' /\ ViewOK(d)'
  <2>1. CASE d # c
    <3>1. /\ pc'[d] = pc[d] /\ job'[d] = job[d] /\ outcome'[d] = outcome[d]
          /\ batch'[d] = batch[d] /\ pos'[d] = pos[d] /\ view'[d] = view[d] /\ base'[d] = base[d]
      BY <1>1, <1>2, <1>3, <2>1 DEF TypeOK
    <3>2. QED
      BY <1>1, <1>6, <2>1, <3>1, PhaseStays, ViewStays
  <2>2. CASE d = c
    <3>1. /\ pc'[c] = "run" /\ outcome'[c] = "none" /\ batch'[c] = b /\ pos'[c] = pos[c]
          /\ pos[c] = 1 /\ view[c] = Nil /\ base[c] = Nil
      BY <1>1, <1>2 DEF TypeOK, PhaseOK
    <3>2. CASE job'[c] = "batch" /\ view' = view /\ base' = base
      BY <1>4, <2>2, <3>1, <3>2 DEF PhaseOK, ViewOK
    <3>3. CASE job'[c] = "tx" /\ view'[c] = store /\ base'[c] = store
      <4>1. store # Nil /\ MapOK(store, c)'
        BY <1>1, <1>7, SeedAssumption DEF TypeOK, MapOK, RowOK
      <4>2. QED
        BY <1>2, <1>4, <2>2, <3>1, <3>3, <4>1 DEF PhaseOK, ViewOK, MapOK, RowOK
    <3>4. QED
      BY <1>1, <1>3, <3>2, <3>3 DEF TypeOK
  <2>3. QED
    BY <2>1, <2>2
<1>9. QED
  BY <1>5, <1>7, <1>8 DEF IInv

\* A step of one caller that leaves everybody else, and the rest of its own job, alone.
LEMMA OthersStay ==
  ASSUME IInv, NEW c \in Clients, Onward(c), pc[c] # "idle", job' = job, batch' = batch,
         base' = base, \A d \in Clients \ {c} : view'[d] = view[d],
         NEW d \in Clients \ {c}
  PROVE  PhaseOK(d)' /\ ViewOK(d)'
<1>1. PhaseOK(d)
  BY DEF IInv
<1>2. /\ pc'[d] = pc[d] /\ outcome'[d] = outcome[d] /\ pos'[d] = pos[d] /\ job'[d] = job[d]
      /\ view'[d] = view[d] /\ base'[d] = base[d] /\ batch'[d] = batch[d]
  BY DEF Onward
<1>3. QED
  BY <1>1, <1>2, PhaseStays, ViewStays

\* One call of a batch: the rows it wrote are behind c's place in the batch when it is answered.
LEMMA MutateStep ==
  ASSUME IInv, NEW c \in Clients, Mutate(c)
  PROVE  IInv'
<1> DEFINE m == Current(c)
           first == IF m.op = "upsert" THEN [m EXCEPT !.op = "create"] ELSE m
<1>1. /\ pc[c] = "run" /\ job[c] = "batch" /\ outcome[c] = "none"
      /\ job' = job /\ batch' = batch /\ view' = view /\ base' = base
      /\ TypeOK /\ \A d \in Clients : PhaseOK(d) /\ ViewOK(d)
  BY DEF Mutate, IInv, PhaseOK
<1>2. PICK r \in ApplyOne(store, first, Tag(c)) :
        /\ store' = r.map
        /\ \/ /\ m.op = "upsert" /\ r.out = "conflict"
              /\ pc' = [pc EXCEPT ![c] = "retry"] /\ UNCHANGED <<pos, outcome>>
           \/ Proceed(c, Answered(m, r.out), "done")
  BY DEF Mutate
<1>3. Runs(first) /\ Tag(c) \in (Clients \cup {Nil}) \X Nat
  BY <1>1, CurrentRuns DEF Runs, Mutation
<1>4. AppliedOK(r, store, first, Tag(c))
  BY <1>1, <1>2, <1>3, ApplyOK DEF TypeOK
<1>5. r.map \in Map /\ r.out \in Outcomes /\ Answered(m, r.out) \in Outcomes
      /\ (r.out = "ok" => Answered(m, r.out) \in {"ok", "internal"})
  BY <1>4 DEF AppliedOK, Answered, Outcomes
<1>6. CASE m.op = "upsert" /\ r.out = "conflict" /\ pc' = [pc EXCEPT ![c] = "retry"]
           /\ UNCHANGED <<pos, outcome>>
  <2>1. Onward(c) /\ pc' \in [Clients -> Phases] /\ pc'[c] = "retry"
    BY <1>1, <1>6 DEF Onward, TypeOK, Phases
  <2>2. store' = store
    BY <1>2, <1>4, <1>6 DEF AppliedOK
  <2>3. TypeOK'
    BY <1>1, <1>6, <2>1, <2>2 DEF TypeOK
  <2>4. PhaseOK(c)'
    BY <1>1, <1>6, <2>1 DEF PhaseOK, Current
  <2>5. ViewOK(c)'
    BY <1>1, <2>1, ViewStays
  <2>6. QED
    BY <1>1, <2>1, <2>2, <2>3, <2>4, <2>5, StoreStays, OthersStay DEF IInv
<1>7. CASE Proceed(c, Answered(m, r.out), "done")
  <2>1. /\ Onward(c)
        /\ pos' \in [Clients -> Nat] /\ pc' \in [Clients -> Phases]
        /\ outcome' \in [Clients -> Outcomes] /\ pos'[c] \in 1..Len(batch[c])
        /\ \/ /\ Answered(m, r.out) = "ok" /\ pos'[c] = pos[c] + 1 /\ outcome'[c] = "none"
              /\ pc'[c] = "run"
           \/ pos'[c] = pos[c] /\ outcome'[c] = Answered(m, r.out) /\ pc'[c] = "done"
    BY <1>1, <1>5, <1>7, ProceedOK
  <2>2. TypeOK'
    BY <1>1, <1>2, <1>5, <2>1 DEF TypeOK
  <2>3. PhaseOK(c)'
    BY <1>1, <2>1 DEF PhaseOK
  <2>4. ViewOK(c)'
    BY <1>1, <2>1, ViewStays
  <2>5. MapOK(store, Nil)'
    <3>1. PICK map \in Map : map = store
      BY <1>1 DEF TypeOK
    <3>2. \A i \in Ids : r.map[i] # Nil => RowOK(r.map[i], i, Nil)'
      <4>1. MapOK(map, Nil) /\ AppliedOK(r, map, first, Tag(c))
        BY <1>4, <3>1 DEF IInv
      <4>2. pos[c] \in Nat
        BY <1>1 DEF TypeOK
      <4>3. r.out = "ok" => /\ job'[c] = "batch"
                            /\ \/ pos[c] < pos'[c]
                               \/ pos'[c] = pos[c] /\ outcome'[c] \in {"ok", "internal"}
        BY <1>1, <1>5, <2>1, <4>2
      <4>4. QED
        BY <1>1, <2>1, <4>1, <4>3, Rewritten
    <3>3. QED
      BY <1>2, <3>2 DEF MapOK, RowOK
  <2>6. QED
    BY <1>1, <2>1, <2>2, <2>3, <2>4, <2>5, OthersStay DEF IInv
<1>8. QED
  BY <1>2, <1>6, <1>7

\* The update of an Upsert, likewise.
LEMMA RetryStep ==
  ASSUME IInv, NEW c \in Clients, Retry(c)
  PROVE  IInv'
<1> DEFINE m == Current(c)
           out == Answered(m, Update(store, m.id, m.data, Tag(c)).out)
<1>1. /\ pc[c] = "retry" /\ job[c] = "batch" /\ outcome[c] = "none" /\ m.op = "upsert"
      /\ job' = job /\ batch' = batch /\ view' = view /\ base' = base
      /\ store' = Update(store, m.id, m.data, Tag(c)).map
      /\ TypeOK /\ \A d \in Clients : PhaseOK(d) /\ ViewOK(d)
  BY DEF Retry, IInv, PhaseOK
<1>2. Runs(m) /\ m.id \in Ids /\ m \in Mutation /\ Tag(c) \in (Clients \cup {Nil}) \X Nat
  BY <1>1, CurrentRuns DEF Runs
<1>3. PICK map \in Map : map = store
  BY <1>1 DEF TypeOK
<1>4. PICK r : r = Update(store, m.id, m.data, Tag(c))
  OBVIOUS
<1>5. AppliedOK(r, map, m, Tag(c))
  BY <1>2, <1>3, <1>4, UpdateOK
<1>6. /\ r.map \in Map /\ out \in Outcomes
      /\ (r.out = "ok" => out \in {"ok", "internal"})
  BY <1>4, <1>5 DEF AppliedOK, Answered, Outcomes
<1>7. Proceed(c, out, "done")
  BY DEF Retry
<1>8. /\ Onward(c)
      /\ pos' \in [Clients -> Nat] /\ pc' \in [Clients -> Phases]
      /\ outcome' \in [Clients -> Outcomes] /\ pos'[c] \in 1..Len(batch[c])
      /\ \/ out = "ok" /\ pos'[c] = pos[c] + 1 /\ outcome'[c] = "none" /\ pc'[c] = "run"
         \/ pos'[c] = pos[c] /\ outcome'[c] = out /\ pc'[c] = "done"
  BY <1>1, <1>6, <1>7, ProceedOK
<1>9. TypeOK'
  BY <1>1, <1>4, <1>6, <1>8 DEF TypeOK
<1>10. PhaseOK(c)'
  BY <1>1, <1>8 DEF PhaseOK
<1>11. ViewOK(c)'
  BY <1>1, <1>8, ViewStays
<1>12. MapOK(store, Nil)'
  <2>1. MapOK(map, Nil) /\ pos[c] \in Nat
    BY <1>1, <1>3 DEF IInv, TypeOK
  <2>2. r.out = "ok" => /\ job'[c] = "batch"
                        /\ \/ pos[c] < pos'[c]
                           \/ pos'[c] = pos[c] /\ outcome'[c] \in {"ok", "internal"}
    BY <1>1, <1>6, <1>8, <2>1
  <2>3. \A i \in Ids : r.map[i] # Nil => RowOK(r.map[i], i, Nil)'
    BY <1>1, <1>5, <1>8, <2>1, <2>2, Rewritten
  <2>4. QED
    BY <1>1, <1>4, <2>3 DEF MapOK, RowOK
<1>13. QED
  BY <1>1, <1>8, <1>9, <1>10, <1>11, <1>12, OthersStay DEF IInv

\* A mutation of a transaction: it writes in its own snapshot, in rows it names.
LEMMA TxMutateStep ==
  ASSUME IInv, NEW c \in Clients, TxMutate(c)
  PROVE  IInv'
<1> DEFINE m == Current(c)
<1>1. /\ pc[c] = "run" /\ job[c] = "tx" /\ outcome[c] = "none"
      /\ store' = store /\ job' = job /\ batch' = batch /\ base' = base
      /\ view[c] \in Map /\ MapOK(view[c], c)
      /\ \A i \in Ids \ Named(c) : view[c][i] = base[c][i]
      /\ TypeOK /\ \A d \in Clients : PhaseOK(d) /\ ViewOK(d)
  BY DEF TxMutate, IInv, PhaseOK, TypeOK, ViewOK
<1>2. PICK r \in ApplyOne(view[c], m, Tag(c)) :
        view' = [view EXCEPT ![c] = r.map] /\ Proceed(c, r.out, "applied")
  BY DEF TxMutate
<1>3. /\ Runs(m) /\ Tag(c) \in (Clients \cup {Nil}) \X Nat /\ pos[c] \in 1..Len(batch[c])
      /\ Targets(m) \subseteq Named(c)
  BY <1>1, CurrentRuns
<1>4. PICK map \in Map : map = view[c]
  BY <1>1
<1>5. AppliedOK(r, map, m, Tag(c))
  BY <1>2, <1>3, <1>4, ApplyOK
<1>6. r.map \in Map /\ r.out \in Outcomes /\ r.map # Nil
  BY <1>5, SeedAssumption DEF AppliedOK, Outcomes
<1>7. /\ Onward(c)
      /\ pos' \in [Clients -> Nat] /\ pc' \in [Clients -> Phases]
      /\ outcome' \in [Clients -> Outcomes] /\ pos'[c] \in 1..Len(batch[c])
      /\ \/ r.out = "ok" /\ pos'[c] = pos[c] + 1 /\ outcome'[c] = "none" /\ pc'[c] = "run"
         \/ pos'[c] = pos[c] /\ outcome'[c] = r.out /\ pc'[c] = "applied"
  BY <1>1, <1>2, <1>6, ProceedOK
<1>8. /\ view' \in [Clients -> Map \cup {Nil}] /\ view'[c] = r.map
      /\ \A d \in Clients \ {c} : view'[d] = view[d]
  BY <1>1, <1>2, <1>6 DEF TypeOK
<1>9. TypeOK'
  BY <1>1, <1>7, <1>8 DEF TypeOK
<1>10. PhaseOK(c)'
  BY <1>1, <1>6, <1>7, <1>8 DEF PhaseOK
<1>11. ViewOK(c)'
  <2>1. \A i \in Ids : r.map[i] # Nil => RowOK(r.map[i], i, c)'
    BY <1>1, <1>4, <1>5, <1>7, Rewritten
  <2>2. MapOK(view[c], c)'
    BY <1>8, <2>1 DEF MapOK, RowOK
  <2>3. Named(c) \subseteq Named(c)'
    <3>1. pos[c] \in Nat /\ 1..pos[c] \subseteq 1..pos'[c]
      BY <1>1, <1>7 DEF TypeOK
    <3>2. QED
      BY <1>1, <3>1 DEF Named
  <2>4. \A i \in Ids \ Named(c)' : view'[c][i] = base'[c][i]
    BY <1>1, <1>3, <1>4, <1>5, <1>8, <2>3 DEF AppliedOK
  <2>5. QED
    BY <2>2, <2>4 DEF ViewOK
<1>12. QED
  BY <1>1, <1>7, <1>8, <1>9, <1>10, <1>11, StoreStays, OthersStay DEF IInv

\* Only a commit makes a transaction's rows visible; a rollback leaves them in its snapshot.
LEMMA EndStep ==
  ASSUME IInv, NEW c \in Clients, Commit(c) \/ Rollback(c)
  PROVE  IInv'
<1>1. /\ pc[c] = "applied" /\ job[c] = "tx"
      /\ job' = job /\ batch' = batch /\ pos' = pos /\ outcome' = outcome
      /\ view' = view /\ base' = base
      /\ view[c] \in Map /\ MapOK(view[c], c)
      /\ TypeOK /\ \A d \in Clients : PhaseOK(d) /\ ViewOK(d)
  BY DEF Commit, Rollback, IInv, PhaseOK, TypeOK, ViewOK
<1>2. \/ store' = store /\ pc' = [pc EXCEPT ![c] = "rolled_back"]
      \/ store' = view[c] /\ pc' = [pc EXCEPT ![c] = "committed"]
  BY DEF Commit, Rollback
<1>3. Onward(c)
  BY <1>1, <1>2 DEF Onward, TypeOK
<1>4. TypeOK'
  BY <1>1, <1>2 DEF TypeOK, Phases
<1>5. PhaseOK(c)'
  BY <1>1, <1>2 DEF PhaseOK, TypeOK
<1>6. ViewOK(c)'
  BY <1>1, <1>3, ViewStays
<1>7. MapOK(store, Nil)'
  <2>1. CASE store' = store
    BY <1>3, <2>1, StoreStays
  <2>2. CASE store' = view[c] /\ pc' = [pc EXCEPT ![c] = "committed"]
    <3>1. PICK map \in Map : map = view[c]
      BY <1>1
    <3>2. MapOK(map, c)'
      BY <1>1, <1>3, <3>1, MapStays
    <3>3. pc'[c] = "committed"
      BY <1>1, <2>2 DEF TypeOK
    <3>4. QED
      BY <2>2, <3>1, <3>2, <3>3 DEF MapOK, RowOK
  <2>3. QED
    BY <1>2, <2>1, <2>2
<1>8. QED
  BY <1>1, <1>3, <1>4, <1>5, <1>6, <1>7, OthersStay DEF IInv

\* Every step keeps it.
LEMMA IInvStep == IInv /\ [Next]_vars => IInv'
<1>1. SUFFICES ASSUME IInv, [Next]_vars PROVE IInv'
  OBVIOUS
<1>2. CASE UNCHANGED vars
  <2>1. /\ TypeOK /\ MapOK(store, Nil) /\ \A c \in Clients : PhaseOK(c) /\ ViewOK(c)
        /\ UNCHANGED <<store, job, batch, pos, pc, outcome, view, base>>
    BY <1>1, <1>2 DEF IInv, vars
  <2>2. TypeOK'
    BY <2>1 DEF TypeOK
  <2>3. MapOK(store, Nil)'
    BY <2>1 DEF MapOK, RowOK
  <2>4. ASSUME NEW c \in Clients PROVE PhaseOK(c)' /\ ViewOK(c)'
    <3>1. PhaseOK(c)'
      BY <2>1, PhaseStays
    <3>2. ViewOK(c)'
      BY <2>1 DEF ViewOK, MapOK, RowOK, Named
    <3>3. QED
      BY <3>1, <3>2
  <2>5. QED
    BY <2>2, <2>3, <2>4 DEF IInv
<1>3. ASSUME NEW c \in Clients, Step(c) PROVE IInv'
  BY <1>1, <1>3, AskStep, MutateStep, RetryStep, TxMutateStep, EndStep DEF Step
<1>4. QED
  BY <1>1, <1>2, <1>3 DEF Next, Rest

\* Every reachable state satisfies the inductive invariant.
THEOREM Inductive == Spec => []IInv
<1>1. QED
  BY InitOK, IInvStep, PTL DEF Spec

----------------------------------------------------------------------------
(* The properties. *)

\* The maps, snapshots and places in the batches have their types.
THEOREM TypeCorrect == Spec => []TypeOK
<1>1. IInv => TypeOK
  BY DEF IInv
<1>2. QED
  BY <1>1, Inductive, PTL

\* A record's id is the key it is stored under, in every map (apply_one).
THEOREM KeysAreIds == Spec => []KeyIsId
<1>1. IInv => KeyIsId
  BY DEF IInv, KeyIsId, MapOK, ViewOK, RowOK
<1>2. QED
  BY <1>1, Inductive, PTL

\* No map but a transaction's own holds its rows before it commits (begin, commit, rollback).
THEOREM TransactionsAreIsolated == Spec => []Isolated
<1>1. ASSUME IInv PROVE Isolated
  <2>1. SUFFICES ASSUME NEW c \in Clients, job[c] = "tx", pc[c] # "committed", NEW i \in Ids
                 PROVE  /\ store[i] # Nil => store[i].by[1] # c
                        /\ \A d \in Clients \ {c} :
                             view[d] # Nil /\ view[d][i] # Nil => view[d][i].by[1] # c
    BY DEF Isolated
  <2>2. ASSUME NEW row, NEW d, RowOK(row, i, d), d # c PROVE row.by[1] # c
    BY <2>1, <2>2, SeedAssumption DEF RowOK
  <2>3. store[i] # Nil => store[i].by[1] # c
    BY <1>1, <2>2, SeedAssumption DEF IInv, MapOK
  <2>4. ASSUME NEW d \in Clients \ {c}, view[d] # Nil, view[d][i] # Nil
        PROVE  view[d][i].by[1] # c
    BY <1>1, <2>2, <2>4 DEF IInv, ViewOK, MapOK
  <2>5. QED
    BY <2>3, <2>4
<1>2. QED
  BY <1>1, Inductive, PTL

\* A failed batch wrote what came before its failure and, when it is Internal, the row it failed
\* on; nothing after it (apply_mutations).
THEOREM ErrorsLeaveAPrefix == Spec => []ErrorLeavesPrefix
<1>1. IInv => ErrorLeavesPrefix
  BY SeedAssumption DEF IInv, ErrorLeavesPrefix, MapOK, RowOK
<1>2. QED
  BY <1>1, Inductive, PTL

\* A commit undoes, outside the rows its transaction names, only changes that were made after the
\* transaction began (begin, commit).
THEOREM CommitsOverwriteOnlyTheirWindow == Spec => OnlyOvertakenIsLost
<1>1. IInv /\ [Next]_vars => [OvertakenStep]_vars
  <2>1. SUFFICES ASSUME IInv, [Next]_vars, NEW c \in Clients, pc[c] = "applied",
                        pc'[c] = "committed", NEW i \in Ids \ Named(c), store'[i] # store[i]
                 PROVE  store[i] # base[c][i]
    BY DEF OvertakenStep
  <2>2. view[c] \in Map /\ view[c][i] = base[c][i]
    BY <2>1 DEF IInv, TypeOK, ViewOK, PhaseOK
  <2>3. PICK d \in Clients : Step(d)
    BY <2>1 DEF Next, Rest, vars
  <2>4. pc \in [Clients -> Phases]
    BY <2>1 DEF IInv, TypeOK
  <2>5. d = c
    BY <2>1, <2>3, <2>4 DEF Step, Start, BeginTx, Ask, Mutate, Retry, TxMutate, Proceed, Commit,
                            Rollback
  <2>6. Commit(c)
    BY <2>1, <2>3, <2>4, <2>5 DEF Step, Start, BeginTx, Ask, Mutate, Retry, TxMutate, Rollback
  <2>7. QED
    BY <2>1, <2>2, <2>6 DEF Commit
<1>2. Spec => [][OvertakenStep]_vars
  BY <1>1, Inductive, PTL DEF Spec
<1>3. QED
  BY <1>2 DEF OnlyOvertakenIsLost
=============================================================================
