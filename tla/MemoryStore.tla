---------------------------- MODULE MemoryStore ----------------------------
(***************************************************************************)
(* InMemoryAdapter (twentytoo-core/src/in_memory.rs) under concurrent      *)
(* callers: batches of mutations through the default apply_mutations       *)
(* (core/src/adapter.rs), and transactions.                                *)
(*                                                                         *)
(* Every method takes the map's lock once and holds it to its end, so one  *)
(* action is one method: create, update, delete, begin, commit, or one     *)
(* mutation of a transaction on its private copy.  apply_mutations holds   *)
(* no lock of its own: the mutations of a batch, and the two halves of an  *)
(* Upsert, interleave with the methods other threads call.  A handler that *)
(* creates, updates or deletes one record is a batch of one.               *)
(***************************************************************************)
EXTENDS Naturals, Sequences

CONSTANTS
  Clients,    \* callers of the adapter, each doing one job
  Ids,        \* record ids, strings
  Numbers,    \* JSON numbers a payload may give as its id
  Text,       \* [Numbers -> Ids]: Number::to_string
  Generated,  \* the ids Uuid::new_v4 may return
  Values,     \* the other fields of a payload or a record
  Readable,   \* the values that deserialize as the adapter's entity type
  Nil,        \* no row, no id, no transaction
  NotObject,  \* a payload that is not a JSON object
  Batches,    \* the sequences of mutations the callers ask for
  Seeds       \* the map before the first caller: what insert put there

Payload == [id: Ids \cup Numbers \cup {Nil}, value: Values]
Mutation == [op: {"create", "update", "delete", "upsert"}, id: Ids \cup {Nil},
             data: Payload \cup {NotObject}]
\* by is the mutation that last wrote the row: the caller and the place in its batch.
Row == [id: Ids, value: Values, by: (Clients \cup {Nil}) \X Nat]
Map == [Ids -> Row \cup {Nil}]

ASSUME StoreAssumption ==
  /\ Text \in [Numbers -> Ids]
  /\ Ids \cap Numbers = {}
  /\ Generated \subseteq Ids
  /\ Readable \subseteq Values
  /\ \A b \in Batches : b \in Seq(Mutation) /\ b # <<>>
  /\ \A b \in Batches : \A n \in 1..Len(b) : b[n].op # "create" => b[n].id \in Ids

\* The seeds carry their own ids, and Nil and NotObject are none of the values they replace.
ASSUME SeedAssumption ==
  /\ Seeds \in Map
  /\ \A i \in Ids : Seeds[i] # Nil => Seeds[i].id = i /\ Seeds[i].by = <<Nil, 0>>
  /\ Nil \notin Ids \cup Numbers \cup Clients \cup Row
  /\ Nil \notin Map
  /\ NotObject \notin Payload

VARIABLES
  store,    \* Map: InMemoryAdapter.store
  job,      \* [Clients -> {"none", "batch", "tx"}]
  batch,    \* [Clients -> Seq(Mutation)]: the mutations asked for
  pos,      \* [Clients -> Nat]: the one that is next
  pc,       \* [Clients -> Phases]
  outcome,  \* [Clients -> Outcomes]: the answer of apply_mutations or of TxAdapter::apply
  view,     \* [Clients -> Map \cup {Nil}]: InMemoryTx.snapshot
  base      \* [Clients -> Map \cup {Nil}]: what that snapshot was cloned from

Phases == {"idle", "run", "retry", "applied", "done", "committed", "rolled_back"}
Outcomes == {"none", "ok", "conflict", "not_found", "validation", "internal"}

vars == <<store, job, batch, pos, pc, outcome, view, base>>

Init ==
  /\ store = Seeds
  /\ job = [c \in Clients |-> "none"]
  /\ batch = [c \in Clients |-> <<>>]
  /\ pos = [c \in Clients |-> 1]
  /\ pc = [c \in Clients |-> "idle"]
  /\ outcome = [c \in Clients |-> "none"]
  /\ view = [c \in Clients |-> Nil]
  /\ base = [c \in Clients |-> Nil]

----------------------------------------------------------------------------
(* apply_one: what a mutation makes of a map, and its outcome.             *)

Result(map, out) == [map |-> map, out |-> out]

\* A new uuid is in no map, shared or private.
Fresh == {i \in Generated : /\ store[i] = Nil
                            /\ \A c \in Clients : view[c] # Nil => view[c][i] = Nil}

\* The key of a created row: the payload's id when it is a string or a number.
KeysFor(data) ==
  CASE data.id \in Ids -> {data.id}
    [] data.id \in Numbers -> {Text[data.id]}
    [] OTHER -> Fresh

\* Mutant: an id that came as a number is stored as a number.
Stored_AsGiven(data, key, by) ==
  [id |-> IF data.id = Nil THEN key ELSE data.id, value |-> data.value, by |-> by]

Stored(data, key, by) ==
  [id |-> IF data.id \in Ids THEN data.id ELSE key, value |-> data.value, by |-> by]

Create(map, data, by) ==
  IF data = NotObject
    THEN {Result(map, "validation")}
    ELSE {IF map[key] # Nil THEN Result(map, "conflict")
                            ELSE Result([map EXCEPT ![key] = Stored(data, key, by)], "ok") :
            key \in KeysFor(data)}

\* Mutant: an "id" in the patch is written into the record like any field.
Update_TakesId(map, id, patch, by) ==
  CASE map[id] = Nil -> Result(map, "not_found")
    [] map[id] # Nil /\ patch = NotObject -> Result(map, "validation")
    [] OTHER -> Result([map EXCEPT ![id] = Stored(patch, id, by)], "ok")

\* "id" is immutable: the patch's is skipped.
Update(map, id, patch, by) ==
  CASE map[id] = Nil -> Result(map, "not_found")
    [] map[id] # Nil /\ patch = NotObject -> Result(map, "validation")
    [] OTHER -> Result([map EXCEPT ![id].value = patch.value, ![id].by = by], "ok")

Delete(map, id) ==
  IF map[id] = Nil THEN Result(map, "not_found") ELSE Result([map EXCEPT ![id] = Nil], "ok")

ApplyOne(map, m, by) ==
  CASE m.op = "create" -> Create(map, m.data, by)
    [] m.op = "update" -> {Update(map, m.id, m.data, by)}
    [] m.op = "delete" -> {Delete(map, m.id)}
    [] m.op = "upsert" -> {IF r.out = "conflict" THEN Update(map, m.id, m.data, by) ELSE r :
                             r \in Create(map, m.data, by)}

----------------------------------------------------------------------------
(* A batch through DataAdapter::apply_mutations. *)

Current(c) == batch[c][pos[c]]
Tag(c) == <<c, pos[c]>>

Ask(c, b, kind) ==
  /\ pc[c] = "idle"
  /\ job' = [job EXCEPT ![c] = kind]
  /\ batch' = [batch EXCEPT ![c] = b]
  /\ pc' = [pc EXCEPT ![c] = "run"]
  /\ UNCHANGED <<store, pos, outcome>>

Start(c, b) == Ask(c, b, "batch") /\ UNCHANGED <<view, base>>

\* create and update answer with the row as an entity; a row that cannot be read back as one is
\* DataError::Internal, and stays.
Answered(m, out) ==
  IF out = "ok" /\ m.op # "delete" /\ m.data.value \notin Readable THEN "internal" ELSE out

\* The mutation is done: on to the next, or out of the loop at the first error.
Proceed(c, out, end) ==
  LET more == out = "ok" /\ pos[c] < Len(batch[c]) IN
  /\ pos' = IF more THEN [pos EXCEPT ![c] = @ + 1] ELSE pos
  /\ pc' = [pc EXCEPT ![c] = IF more THEN "run" ELSE end]
  /\ outcome' = IF more THEN outcome ELSE [outcome EXCEPT ![c] = out]

\* Mutant: an error is remembered and the loop goes on.
Mutate_GoesOn(c) ==
  LET m == Current(c)
      more == pos[c] < Len(batch[c]) IN
  /\ pc[c] = "run" /\ job[c] = "batch"
  /\ \E r \in ApplyOne(store, m, Tag(c)) :
       /\ store' = r.map
       /\ outcome' = IF outcome[c] \in {"none", "ok"}
                       THEN [outcome EXCEPT ![c] = Answered(m, r.out)] ELSE outcome
  /\ pos' = IF more THEN [pos EXCEPT ![c] = @ + 1] ELSE pos
  /\ pc' = [pc EXCEPT ![c] = IF more THEN "run" ELSE "done"]
  /\ UNCHANGED <<job, batch, view, base>>

\* One method call: create, update, delete, or the create of an Upsert.
Mutate(c) ==
  LET m == Current(c)
      first == IF m.op = "upsert" THEN [m EXCEPT !.op = "create"] ELSE m IN
  /\ pc[c] = "run" /\ job[c] = "batch"
  /\ \E r \in ApplyOne(store, first, Tag(c)) :
       /\ store' = r.map
       /\ \/ /\ m.op = "upsert" /\ r.out = "conflict"
             /\ pc' = [pc EXCEPT ![c] = "retry"]
             /\ UNCHANGED <<pos, outcome>>
          \/ /\ ~(m.op = "upsert" /\ r.out = "conflict")
             /\ Proceed(c, Answered(m, r.out), "done")
  /\ UNCHANGED <<job, batch, view, base>>

\* The second half of an Upsert: update, on the conflict of its create.
Retry(c) ==
  LET m == Current(c)
      r == Update(store, m.id, m.data, Tag(c)) IN
  /\ pc[c] = "retry"
  /\ store' = r.map
  /\ Proceed(c, Answered(m, r.out), "done")
  /\ UNCHANGED <<job, batch, view, base>>

----------------------------------------------------------------------------
(* A transaction: begin, apply on the snapshot, commit or rollback. *)

\* Mutant: the snapshot starts as an empty map.
BeginTx_Empty(c, b) ==
  /\ Ask(c, b, "tx")
  /\ view' = [view EXCEPT ![c] = [i \in Ids |-> Nil]]
  /\ base' = [base EXCEPT ![c] = store]

BeginTx(c, b) ==
  /\ Ask(c, b, "tx")
  /\ view' = [view EXCEPT ![c] = store]
  /\ base' = [base EXCEPT ![c] = store]

\* TxAdapter::apply stops at the first error too, and leaves the snapshot as it is then.
TxMutate(c) ==
  /\ pc[c] = "run" /\ job[c] = "tx"
  /\ \E r \in ApplyOne(view[c], Current(c), Tag(c)) :
       /\ view' = [view EXCEPT ![c] = r.map]
       /\ Proceed(c, r.out, "applied")
  /\ UNCHANGED <<store, job, batch, base>>

\* commit looks at nothing: not at the outcome of apply, nor at the map it replaces.
Commit(c) ==
  /\ pc[c] = "applied"
  /\ store' = view[c]
  /\ pc' = [pc EXCEPT ![c] = "committed"]
  /\ UNCHANGED <<job, batch, pos, outcome, view, base>>

\* Mutant: what was applied before an error is written back.
Rollback_Publishes(c) ==
  /\ pc[c] = "applied"
  /\ store' = IF outcome[c] = "ok" THEN store ELSE view[c]
  /\ pc' = [pc EXCEPT ![c] = "rolled_back"]
  /\ UNCHANGED <<job, batch, pos, outcome, view, base>>

\* rollback, or the transaction goes out of scope.
Rollback(c) ==
  /\ pc[c] = "applied"
  /\ pc' = [pc EXCEPT ![c] = "rolled_back"]
  /\ UNCHANGED <<store, job, batch, pos, outcome, view, base>>

----------------------------------------------------------------------------

\* Every caller has its answer: the instance rests here and nowhere else.
Rest ==
  /\ \A c \in Clients : pc[c] \in {"done", "committed", "rolled_back"}
  /\ UNCHANGED vars

Step(c) ==
  \/ \E b \in Batches : Start(c, b) \/ BeginTx(c, b)
  \/ Mutate(c) \/ Retry(c)
  \/ TxMutate(c) \/ Commit(c) \/ Rollback(c)

Next == (\E c \in Clients : Step(c)) \/ Rest

Spec == Init /\ [][Next]_vars

----------------------------------------------------------------------------
(* Properties. *)

TypeOK ==
  /\ store \in Map
  /\ job \in [Clients -> {"none", "batch", "tx"}]
  /\ batch \in [Clients -> Seq(Mutation)]
  /\ pos \in [Clients -> Nat]
  /\ pc \in [Clients -> Phases]
  /\ outcome \in [Clients -> Outcomes]
  /\ view \in [Clients -> Map \cup {Nil}]
  /\ base \in [Clients -> Map \cup {Nil}]

\* The id in a record is the key it is stored under, in the shared map and in every snapshot,
\* whatever ids the payloads and patches carried (apply_one): get finds what list shows.
KeyIsId ==
  /\ \A i \in Ids : store[i] # Nil => store[i].id = i
  /\ \A c \in Clients : \A i \in Ids :
       view[c] # Nil /\ view[c][i] # Nil => view[c][i].id = i

\* Nobody sees a transaction's rows, in the shared map or in a snapshot of another transaction,
\* unless it was committed (begin clones the map, rollback discards the clone).
Isolated ==
  \A c \in Clients : job[c] = "tx" /\ pc[c] # "committed" =>
    \A i \in Ids :
      /\ store[i] # Nil => store[i].by[1] # c
      /\ \A d \in Clients \ {c} :
           view[d] # Nil /\ view[d][i] # Nil => view[d][i].by[1] # c

\* The rows mutation m can write.
Targets(m) ==
  {m.id} \cup IF m.op \notin {"create", "upsert"} \/ m.data = NotObject THEN {}
              ELSE CASE m.data.id \in Ids -> {m.data.id}
                     [] m.data.id \in Numbers -> {Text[m.data.id]}
                     [] OTHER -> Generated

\* The rows c's mutations name, up to the one it is at.
Named(c) == UNION {Targets(batch[c][n]) : n \in 1..pos[c]}

\* A commit that replaces a row its transaction never named only ever undoes a change made since
\* the transaction began: outside that window no write is lost to it.
OvertakenStep ==
  \A c \in Clients : pc[c] = "applied" /\ pc'[c] = "committed" =>
    \A i \in Ids \ Named(c) : store'[i] # store[i] => store[i] # base[c][i]
OnlyOvertakenIsLost == [][OvertakenStep]_vars

\* A batch answered with an error has written nothing after the mutation that failed, and that
\* one only when it is Internal: then the row is stored and its caller is told of a failure.
ErrorLeavesPrefix ==
  \A c \in Clients : job[c] = "batch" /\ outcome[c] \notin {"none", "ok"} =>
    \A i \in Ids : store[i] # Nil /\ store[i].by[1] = c =>
      \/ store[i].by[2] < pos[c]
      \/ store[i].by[2] = pos[c] /\ outcome[c] = "internal"

----------------------------------------------------------------------------
(* What the documentation says and the adapter does not do. *)

\* write.rs: Upsert is "Create-or-update by id".  The row an acknowledged Upsert names has what
\* it wrote.
UpsertIsById ==
  [][\A c \in Clients :
       /\ job[c] = "batch" /\ pc[c] \in {"run", "retry"} /\ Current(c).op = "upsert"
       /\ pos'[c] # pos[c] \/ outcome'[c] = "ok"
       => LET row == store'[Current(c).id] IN row # Nil /\ row.by = Tag(c)]_vars
=============================================================================
