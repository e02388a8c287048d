-------------------------- MODULE Resources_proofs --------------------------
(***************************************************************************)
(* Proofs about Resources, for every resource, store and set of requests.  *)
(***************************************************************************)
EXTENDS Resources, FiniteSetTheorems, TLAPS

\* What a request has established when it is about to write: the read that it judged.
JudgedOK(q) ==
  pc[q] = "judged" =>
    /\ ~flagged
    /\ Allowed(job[q], seen[q])
    /\ job[q].op = "update" => ~Refused(build_payload(job[q].form))

\* What the form of an update is once it is sent: what was opened, but for one control.
SentOK(q) ==
  pc[q] \in {"posted", "judged"} /\ job[q].op = "update" =>
    /\ job[q].edited \in form_fields(job[q].actor) \cup {Nil}
    /\ \A f \in Fields \ {job[q].edited} :
         job[q].form[f] = untouched(job[q].actor, job[q].opened)[f]

IInv == TypeOK /\ \A q \in Requests : JudgedOK(q) /\ SentOK(q)

----------------------------------------------------------------------------
(* Values and forms. *)

Cell == Json \cup {Missing}

\* What a row holds for a field: a value by its type, and never an error.
LEMMA Cells ==
  /\ \A v \in Cell : /\ v.t = "str" => v.v \in Texts
                     /\ v.t = "num" => v.v \in Numbers
                     /\ v.t = "arr" => v.v \in Lists
  /\ {Null, Missing, Bool(TRUE), Bool(FALSE)} \subseteq Cell
  /\ \A b \in BOOLEAN : Bool(b) \in Json
  /\ \A s \in Texts : Str(s) \in Json
  /\ \A n \in Numbers : Num(n) \in Json
  /\ \A l \in Lists : Arr(l) \in Json
  /\ \A v \in Cell : v # Error
  <1> USE DEF Null, Missing, Bool, Str, Num, Arr, Value, Error
  <1>1. ASSUME NEW v \in Cell
        PROVE  /\ v.t = "str" => v.v \in Texts
               /\ v.t = "num" => v.v \in Numbers
               /\ v.t = "arr" => v.v \in Lists
               /\ v # Error
    <2>1. CASE v \in {Null, Bool(FALSE), Bool(TRUE), Missing}
      BY <2>1
    <2>2. CASE \E s \in Texts : v = Str(s)
      BY <2>2
    <2>3. CASE \E n \in Numbers : v = Num(n)
      BY <2>3
    <2>4. CASE \E l \in Lists : v = Arr(l)
      BY <2>4
    <2> QED
      BY <1>1, <2>1, <2>2, <2>3, <2>4 DEF Cell, Json
  <1>2. /\ {Null, Missing, Bool(TRUE), Bool(FALSE)} \subseteq Cell
        /\ \A b \in BOOLEAN : Bool(b) \in Json
    BY DEF Cell, Json
  <1>3. /\ \A s \in Texts : Str(s) \in Json
        /\ \A n \in Numbers : Num(n) \in Json
        /\ \A l \in Lists : Arr(l) \in Json
    BY DEF Json
  <1> QED
    BY <1>1, <1>2, <1>3

\* The metadata of a field.
LEMMA FieldTypes ==
  ASSUME NEW f \in Fields
  PROVE  /\ Field[f] \in FieldMeta
         /\ Field[f].options \subseteq Texts
         /\ Field[f].options \subseteq Options
         /\ Field[f].kind \in Kinds
         /\ Field[f].required \in BOOLEAN
  BY ValuesAssumption DEF FieldMeta, Options

\* A control sends texts, a multiselect some of its options.
LEMMA ControlSends ==
  ASSUME NEW f \in Fields, NEW v \in Cell
  PROVE  /\ form_control(f, v) \in SUBSET Texts
         /\ Field[f].kind = "multiselect" => form_control(f, v) \subseteq Field[f].options
  <1>1. value_string(v) \in Texts /\ 0 \in Texts
    BY ValuesAssumption, FormsAssumption DEF value_string, Cell
  <1>2. v.t = "arr" => Members[v.v] \subseteq Texts
    BY Cells, ValuesAssumption
  <1> QED
    BY <1>1, <1>2, FieldTypes, FormsAssumption DEF form_control, Numeric, Choice

\* A form that is filled in stays a job.
LEMMA FilledForm ==
  ASSUME NEW j \in Job, NEW e \in Edits
  PROVE  Filled(j, e) \in Job
  <1> DEFINE left == untouched(j.actor, j.opened)
             form == [f \in Fields |-> IF f = e.field THEN e.raw ELSE left[f]]
  <1>1. j.opened \in [Fields -> Cell] /\ j.actor \in Actors
    BY DEF Job, Row, Cell
  <1>2. \A f \in Fields : /\ left[f] \in SUBSET Texts
                          /\ Field[f].kind = "multiselect" => left[f] \subseteq Field[f].options
    BY <1>1, ControlSends DEF untouched
  <1>3. e.field \in Fields \cup {Nil} /\ e.raw \in SUBSET Texts
    BY ResourcesAssumption
  <1>4. \A f \in Fields : f = e.field => (Field[f].kind = "multiselect" => e.raw \subseteq Field[f].options)
    BY ResourcesAssumption, ValuesAssumption
  <1>5. form \in Form
    BY <1>2, <1>3, <1>4 DEF Form
  <1>6. Filled(j, e) = [[j EXCEPT !.edited = e.field] EXCEPT !.form = form]
    BY DEF Filled, Job
  <1> HIDE DEF left, form
  <1> QED
    BY <1>3, <1>5, <1>6 DEF Job

\* The entry of a field is a value, no value or an error.
LEMMA Entries ==
  ASSUME NEW f \in Fields, NEW raw \in SUBSET Texts,
         Field[f].kind = "multiselect" => raw \subseteq Field[f].options
  PROVE  entry(f, raw) \in Cell \cup {Error}
  <1>1. raw # {} => TextOf(raw) \in Texts /\ Trim[TextOf(raw)] \in Texts
    <2>1. raw # {} => TextOf(raw) \in raw
      BY DEF TextOf
    <2> QED
      BY <2>1, ValuesAssumption
  <1>2. raw = {} => TextOf(raw) = Nil
    BY DEF TextOf
  <1>3. Field[f].kind = "multiselect" => ListOf[raw] \in Lists
    BY FieldTypes, FormsAssumption
  <1>4. \A s \in Texts : NumberOf[s] \in Json \cup {Nil} /\ ParseJson[s] \in Json \cup {Nil}
    BY ZenonT(60), Cells, ValuesAssumption, FormsAssumption DEF NumberOf
  <1>5. Parsed(raw, Field[f].required, NumberOf) \in Cell \cup {Error}
    BY <1>1, <1>2, <1>4, Cells DEF Parsed, Cell
  <1>6. Parsed(raw, Field[f].required, ParseJson) \in Cell \cup {Error}
    BY <1>1, <1>2, <1>4, Cells DEF Parsed, Cell
  <1>7. Str(0) \in Json /\ Bool(raw # {}) \in Json
    BY Cells, ValuesAssumption
  <1> QED
    BY <1>1, <1>3, <1>5, <1>6, <1>7, Cells, FieldTypes DEF entry, Cell

\* A payload that is not refused is a row, but for its id.
LEMMA Payloads ==
  ASSUME NEW form \in Form, ~Refused(build_payload(form))
  PROVE  build_payload(form) \in Row
  <1>1. \A f \in Fields : entry(f, form[f]) \in Cell \cup {Error}
    BY Entries DEF Form
  <1>2. \A f \in Fields : build_payload(form)[f] \in Cell
    BY <1>1 DEF build_payload, Refused, Cell
  <1> QED
    BY <1>2 DEF build_payload, Row, Cell

\* Creates and updates leave rows that lie under their ids.
LEMMA Rows ==
  /\ \A k \in Texts : \A r \in RowsAt[k] : r \in Row /\ r["id"] = Str(k)
  /\ \A k \in Texts : \A r \in Row : r["id"] = Str(k) => r \in RowsAt[k]
  /\ \A k \in Texts, r \in Row : NewRow(k, r) \in RowsAt[k]
  /\ \A k \in Texts : \A r \in RowsAt[k], payload \in Row : merge(r, payload) \in RowsAt[k]
  <1>1. \A k \in Texts, r \in Row : NewRow(k, r) \in Row /\ NewRow(k, r)["id"] = Str(k)
    BY Cells, ValuesAssumption DEF NewRow, Row
  <1>2. \A k \in Texts : \A r \in RowsAt[k], payload \in Row :
          merge(r, payload) \in Row /\ merge(r, payload)["id"] = r["id"]
    BY ValuesAssumption DEF merge, Row, RowsAt
  <1> QED
    BY <1>1, <1>2 DEF RowsAt

\* A create finds a key.
LEMMA Keys ==
  ASSUME NEW q \in Requests, NEW payload \in Row
  PROVE  KeyOf(q, payload) \in Texts
  <1>1. payload["id"] \in Cell
    BY ValuesAssumption DEF Row, Cell
  <1> QED
    BY <1>1, Cells, ValuesAssumption, ResourcesAssumption DEF KeyOf

\* What a request begins with.
LEMMA NewJobs ==
  ASSUME NEW op \in {"create", "update", "delete"}, NEW a \in Actors, NEW k \in Texts, NEW row \in Row
  PROVE  NewJob(op, a, k, row) \in Job
  <1>1. NoForm \in Form
    BY DEF NoForm, Form
  <1> QED
    BY <1>1 DEF NewJob, Job

\* A create form opens on no record.
LEMMA Empties == Empty \in Row /\ 0 \in Texts
  BY ValuesAssumption DEF Empty, Row

----------------------------------------------------------------------------
(* The types. *)

\* A list request's next page is asked for with parameters too.
LEMMA NextParams ==
  ASSUME NEW w \in Walk, NEW page, NextPage(w, page) # Nil
  PROVE  NextPage(w, page) \in Params
  <1>1. w.p \in Params /\ page_of(w.p) \in Nat
    BY DEF Walk, Params, page_of
  <1>2. \A n \in Nat : Link(w.p, n) \in Params
    BY <1>1 DEF Link, Params
  <1>3. build_pager(page, w.p).next \in {Nil, Link(w.p, page_of(w.p) + 1)}
    BY DEF build_pager
  <1>4. [w.p EXCEPT !.page = page_of(w.p) + 1] \in Params
    BY <1>1 DEF Params
  <1> QED
    BY <1>1, <1>2, <1>3, <1>4 DEF NextPage

\* Pages are counted from 1 and have at least one row.
LEMMA PageParams ==
  ASSUME NEW p \in Params
  PROVE  per_page_of(p) \in 1..100 /\ page_of(p) \in Nat /\ page_of(p) >= 1
  BY ValuesAssumption DEF Params, per_page_of, page_of

\* The rows of a list are rows of the store, and finitely many.
LEMMA Listed ==
  ASSUME StoreOK, NEW query
  PROVE  /\ listed(store, query) \subseteq {k \in Texts : store[k] # Nil}
         /\ IsFiniteSet(listed(store, query))
         /\ Cardinality(listed(store, query)) \in Nat
  <1>1. listed(store, query) \subseteq {k \in Texts : store[k] # Nil}
    BY DEF listed, StoreOK
  <1> QED
    BY <1>1, FS_Subset, FS_CardinalityType DEF StoreOK

\* A page shows texts, and its cursor is one.
LEMMA Pages ==
  ASSUME StoreOK, NEW w \in Walk, NEW cursor, cursor = Nil \/ cursor \in Cursor
  PROVE  /\ Page(w, cursor).ids \subseteq Texts
         /\ w.mode = "cursor" => Page(w, cursor).next = Nil \/ Page(w, cursor).next \in Cursor
  <1> DEFINE query == list_query(w.p)
             per == per_page_of(w.p)
  <1>1. per \in Nat /\ page_of(w.p) \in Nat
    BY PageParams DEF Walk
  <1>2. \A start : Slice(store, query, start, per).ids \subseteq Texts
    BY Listed DEF Slice
  <1>3. \A start \in Nat : \/ Slice(store, query, start, per).next = Nil
                           \/ Slice(store, query, start, per).next \in Cursor
    BY <1>1, Listed DEF Slice, Min2, index_cursor, Cursor
  <1>4. CursorStart(cursor, Nil, per) \in Nat
    BY <1>1, ValuesAssumption DEF CursorStart, cursor_index, Cursor
  <1> HIDE DEF query, per
  <1> QED
    BY <1>2, <1>3, <1>4 DEF Page, list_cursor, list_offset, query, per

\* Putting a row under its key, or none, leaves a store.
LEMMA PutKeeps ==
  ASSUME StoreOK, NEW k \in Texts, NEW row, row = Nil \/ row \in RowsAt[k],
         Put([store EXCEPT ![k] = row]),
         shrunk \in BOOLEAN, grown \in BOOLEAN
  PROVE  StoreOK' /\ shrunk' \in BOOLEAN /\ grown' \in BOOLEAN
  <1>1. store' = [store EXCEPT ![k] = row]
    BY DEF Put
  <1>2. DOMAIN store' = Texts /\ \A j \in Texts : store'[j] = IF j = k THEN row ELSE store[j]
    BY <1>1 DEF StoreOK
  <1>3. {j \in Texts : store'[j] # Nil} \subseteq {j \in Texts : store[j] # Nil} \cup {k}
    BY <1>2
  <1>4. IsFiniteSet({j \in Texts : store[j] # Nil} \cup {k})
    BY FS_AddElement DEF StoreOK
  <1>5. IsFiniteSet({j \in Texts : store'[j] # Nil})
    BY <1>3, <1>4, FS_Subset
  <1>6. StoreOK'
    BY <1>2, <1>5 DEF StoreOK
  <1>7. shrunk' \in BOOLEAN /\ grown' \in BOOLEAN
    BY DEF Put
  <1> QED
    BY <1>6, <1>7

Ended == Steps \ Open

\* An answer ends a request.
LEMMA AnswersKeep ==
  ASSUME RequestsOK, NEW q \in Requests, NEW answer \in Ended, Answers(q, answer)
  PROVE  RequestsOK'
  BY DEF RequestsOK, Answers, Goes, Ended, Steps, Open

\* A request begins with a job, or with an answer and none.
LEMMA BeginsKeeps ==
  ASSUME RequestsOK, NEW q \in Requests, NEW step, NEW j, Begins(q, step, j),
         \/ step \in {"opened", "posted"} /\ j \in Job
         \/ step \in Ended /\ j = Nil
  PROVE  RequestsOK'
  BY DEF RequestsOK, Begins, Goes, Ended, Steps, Open

\* A page of a record is served with its job, or refused.
LEMMA ReadsKeeps ==
  ASSUME RequestsOK, StoreOK, NEW q \in Requests, NEW k \in Texts, NEW allowed, NEW step, NEW j,
         Reads(q, k, allowed, step, j),
         \/ step = "opened" /\ (store[k] # Nil => j \in Job)
         \/ step = "shown" /\ j = Nil
  PROVE  RequestsOK'
  <1>1. CASE Judgement(store[k], allowed) = "ok"
    <2>1. store[k] # Nil /\ Begins(q, step, j)
      BY <1>1 DEF Reads, Judgement
    <2> QED
      BY <2>1, BeginsKeeps DEF Ended, Steps, Open
  <1>2. CASE Judgement(store[k], allowed) # "ok"
    <2>1. /\ Judgement(store[k], allowed) \in {"notfound", "forbidden"}
          /\ Begins(q, Judgement(store[k], allowed), Nil)
      BY <1>2 DEF Reads, Judgement
    <2> QED
      BY <2>1, BeginsKeeps DEF Ended, Steps, Open, Refusals
  <1> QED
    BY <1>1, <1>2

\* What a request may do, as one disjunct each.
LEMMA TypeStep ==
  ASSUME TypeOK, \A q \in Requests : JudgedOK(q), [Next]_vars
  PROVE  TypeOK'
  <1> USE DEF TypeOK
  <1>1. ASSUME NEW q \in Requests, NEW a \in Actors, OpenNew(q, a)
        PROVE  TypeOK'
    <2>1. NewJob("create", a, 0, Empty) \in Job
      BY NewJobs, Empties
    <2>2. RequestsOK'
      BY <1>1, <2>1, BeginsKeeps DEF OpenNew, Ended, Steps, Open, Refusals
    <2>3. UNCHANGED <<store, flagged, readerVars, historyVars>>
      BY <1>1 DEF OpenNew, Begins
    <2> QED
      BY <2>2, <2>3 DEF StoreOK, ReaderOK, readerVars, historyVars
  <1>2. ASSUME NEW q \in Requests, NEW a \in Actors, NEW k \in Paths, OpenEdit(q, a, k)
        PROVE  TypeOK'
    <2>1. k \in Texts
      BY ResourcesAssumption
    <2>2. store[k] # Nil => NewJob("update", a, k, store[k]) \in Job
      BY <2>1, NewJobs, Rows DEF StoreOK
    <2>3. RequestsOK'
      BY <1>2, <2>1, <2>2, ReadsKeeps DEF OpenEdit
    <2>4. UNCHANGED <<store, flagged, readerVars, historyVars>>
      BY <1>2 DEF OpenEdit, Reads, Begins
    <2> QED
      BY <2>3, <2>4 DEF StoreOK, ReaderOK, readerVars, historyVars
  <1>3. ASSUME NEW q \in Requests, NEW a \in Actors, NEW k \in Paths, Detail(q, a, k)
        PROVE  TypeOK'
    <2>1. k \in Texts
      BY ResourcesAssumption
    <2>2. RequestsOK'
      BY <1>3, <2>1, ReadsKeeps DEF Detail
    <2>3. UNCHANGED <<store, flagged, readerVars, historyVars>>
      BY <1>3 DEF Detail, Reads, Begins
    <2> QED
      BY <2>2, <2>3 DEF StoreOK, ReaderOK, readerVars, historyVars
  <1>4. ASSUME NEW q \in Requests, NEW a \in Actors, NEW k \in Paths, SendDelete(q, a, k)
        PROVE  TypeOK'
    <2>1. NewJob("delete", a, k, Empty) \in Job
      BY NewJobs, Empties, ResourcesAssumption
    <2>2. RequestsOK'
      BY <1>4, <2>1, BeginsKeeps DEF SendDelete
    <2>3. UNCHANGED <<store, flagged, readerVars, historyVars>>
      BY <1>4 DEF SendDelete, Begins
    <2> QED
      BY <2>2, <2>3 DEF StoreOK, ReaderOK, readerVars, historyVars
  <1>5. ASSUME NEW q \in Requests, NEW a \in Actors, SendKept(q, a)
        PROVE  TypeOK'
    <2>1. PICK e \in EditsOf(a) : Begins(q, "posted", Filled(NewJob("create", a, 0, Empty), e))
      BY <1>5 DEF SendKept
    <2>2. Filled(NewJob("create", a, 0, Empty), e) \in Job
      BY NewJobs, Empties, FilledForm DEF EditsOf
    <2>3. RequestsOK'
      BY <2>1, <2>2, BeginsKeeps
    <2>4. UNCHANGED <<store, flagged, readerVars, historyVars>>
      BY <2>1 DEF Begins
    <2> QED
      BY <2>3, <2>4 DEF StoreOK, ReaderOK, readerVars, historyVars
  <1>6. ASSUME NEW q \in Requests, Send(q)
        PROVE  TypeOK'
    <2>1. PICK e \in EditsOf(job[q].actor) : job' = [job EXCEPT ![q] = Filled(job[q], e)]
      BY <1>6 DEF Send
    <2>2. Filled(job[q], e) \in Job
      BY <1>6, FilledForm DEF EditsOf, Send, RequestsOK
    <2>3. RequestsOK'
      BY <1>6, <2>1, <2>2 DEF Send, Goes, RequestsOK, Steps, Open
    <2>4. UNCHANGED <<store, flagged, readerVars, historyVars>>
      BY <1>6 DEF Send
    <2> QED
      BY <2>3, <2>4 DEF StoreOK, ReaderOK, readerVars, historyVars
  <1>7. ASSUME NEW q \in Requests, Create(q)
        PROVE  TypeOK'
    <2> DEFINE payload == build_payload(job[q].form)
               k == KeyOf(q, payload)
    <2>1. UNCHANGED <<flagged, readerVars>>
      BY <1>7 DEF Create
    <2>2. ReaderOK'
      BY <2>1 DEF ReaderOK, readerVars
    <2>3. job[q] \in Job
      BY <1>7 DEF Create, RequestsOK
    <2>4. CASE \E answer \in Refusals : Answers(q, answer) /\ UNCHANGED <<store, historyVars>>
      <3>1. RequestsOK'
        BY <2>4, AnswersKeep DEF Ended, Steps, Open, Refusals
      <3> QED
        BY <2>1, <2>2, <2>4, <3>1 DEF StoreOK, readerVars, historyVars
    <2>5. CASE /\ ~Refused(payload)
               /\ Put([store EXCEPT ![k] = NewRow(k, payload)]) /\ Answers(q, "created")
      <3>1. payload \in Row /\ k \in Texts
        BY <2>3, <2>5, Payloads, Keys DEF Job
      <3>2. NewRow(k, payload) \in RowsAt[k]
        BY <3>1, Rows
      <3> HIDE DEF payload, k
      <3>3. StoreOK' /\ shrunk' \in BOOLEAN /\ grown' \in BOOLEAN
        BY <2>5, <3>1, <3>2, PutKeeps
      <3>4. RequestsOK'
        BY <2>5, AnswersKeep DEF Ended, Steps, Open
      <3> QED
        BY <2>1, <2>2, <3>3, <3>4 DEF readerVars
    <2> QED
      BY <1>7, <2>4, <2>5 DEF Create, Refusals
  <1>8. ASSUME NEW q \in Requests, Read(q)
        PROVE  TypeOK'
    <2>1. UNCHANGED <<store, flagged, readerVars, historyVars>>
      BY <1>8 DEF Read
    <2>2. job[q] \in Job
      BY <1>8 DEF Read, RequestsOK
    <2>3. RequestsOK'
      <3>1. \A record, allowed : Judgement(record, allowed) \in {"ok", "notfound", "forbidden"}
        BY DEF Judgement
      <3>2. CASE \E answer \in Refusals : Answers(q, answer)
        BY <3>2, AnswersKeep DEF Ended, Steps, Open, Refusals
      <3>3. CASE /\ Judgement(store[job[q].id], Allowed(job[q], store[job[q].id])) = "ok"
                 /\ Goes(q, "judged") /\ seen' = [seen EXCEPT ![q] = store[job[q].id]]
                 /\ UNCHANGED job
        <4>1. store[job[q].id] \in Row
          BY <2>2, <3>3, Rows DEF Judgement, StoreOK, Job
        <4> QED
          BY <1>8, <2>2, <3>3, <4>1 DEF Read, RequestsOK, Goes, Steps, Open
      <3> QED
        BY <1>8, <3>1, <3>2, <3>3 DEF Read, Refusals
    <2> QED
      BY <2>1, <2>3 DEF StoreOK, ReaderOK, readerVars, historyVars
  <1>9. ASSUME NEW q \in Requests, NEW row, NEW answer \in {"updated", "deleted"},
               pc[q] = "judged", Write(q, row, answer),
               store[job[q].id] # Nil => row = Nil \/ row \in RowsAt[job[q].id]
        PROVE  TypeOK'
    <2>1. UNCHANGED <<flagged, readerVars>>
      BY <1>9 DEF Write
    <2>2. ReaderOK'
      BY <2>1 DEF ReaderOK, readerVars
    <2>3. job[q].id \in Texts
      BY <1>9 DEF RequestsOK, Job
    <2>4. RequestsOK'
      BY <1>9, AnswersKeep DEF Write, Ended, Steps, Open, Refusals
    <2>5. StoreOK' /\ shrunk' \in BOOLEAN /\ grown' \in BOOLEAN
      <3>1. CASE UNCHANGED <<store, historyVars>>
        BY <3>1 DEF StoreOK, historyVars
      <3>2. CASE store[job[q].id] # Nil /\ Put([store EXCEPT ![job[q].id] = row])
        BY <1>9, <2>3, <3>2, PutKeeps
      <3> QED
        BY <1>9, <3>1, <3>2 DEF Write
    <2> QED
      BY <2>1, <2>2, <2>4, <2>5 DEF readerVars
  <1>10. ASSUME NEW q \in Requests, Update(q)
         PROVE  TypeOK'
    <2>1. Write(q, merge(store[job[q].id], build_payload(job[q].form)), "updated")
      BY <1>10 DEF Update
    <2>2. pc[q] = "judged" /\ job[q].op = "update"
      BY <1>10 DEF Update
    <2>3. job[q] \in Job /\ ~Refused(build_payload(job[q].form))
      BY <2>2 DEF RequestsOK, JudgedOK
    <2>4. build_payload(job[q].form) \in Row
      BY <2>3, Payloads DEF Job
    <2>5. store[job[q].id] # Nil =>
            merge(store[job[q].id], build_payload(job[q].form)) \in RowsAt[job[q].id]
      BY <2>3, <2>4, Rows DEF StoreOK, Job
    <2> QED
      BY <1>9, <2>1, <2>2, <2>5
  <1>11. ASSUME NEW q \in Requests, Delete(q)
         PROVE  TypeOK'
    BY <1>9, <1>11 DEF Delete
  <1>12. CASE WalkStart
    <2>1. PICK w \in Walks : walk' = w /\ base' = listed(store, list_query(w.p))
      BY <1>12 DEF WalkStart
    <2>2. walk' \in Walk /\ base' \subseteq Texts
      BY <2>1, Listed, ResourcesAssumption
    <2>3. UNCHANGED <<store, flagged, requestVars, after, got, twice, resorted, historyVars>> /\ wpc' = "walking"
      BY <1>12 DEF WalkStart
    <2> QED
      BY <2>2, <2>3 DEF StoreOK, RequestsOK, ReaderOK, requestVars, historyVars
  <1>13. CASE WalkPage
    <2> DEFINE page == Page(walk, after)
               next == NextPage(walk, page)
    <2>1. walk \in Walk
      BY <1>13 DEF WalkPage, ReaderOK
    <2>2. /\ page.ids \subseteq Texts
          /\ walk.mode = "cursor" => page.next = Nil \/ page.next \in Cursor
      BY <2>1, Pages DEF ReaderOK
    <2>3. next # Nil => next \in Params
      BY <2>1, NextParams
    <2>4. /\ UNCHANGED <<store, flagged, requestVars, base, historyVars>>
          /\ got' = got \cup page.ids
          /\ twice' = twice \cup (got \cap page.ids)
      BY <1>13 DEF WalkPage
    <2> HIDE DEF page
    <2>5. CASE next = Nil /\ wpc' = "ended" /\ UNCHANGED <<walk, after, resorted>>
      BY <2>1, <2>2, <2>4, <2>5 DEF StoreOK, RequestsOK, ReaderOK, requestVars, historyVars
    <2>6. CASE /\ next # Nil
               /\ walk' = [walk EXCEPT !.p = next]
               /\ after' = IF walk.mode = "cursor" THEN page.next ELSE Nil
               /\ resorted' = (resorted \/ request_sort(next.sort) # request_sort(walk.p.sort))
               /\ UNCHANGED wpc
      <3> HIDE DEF next
      <3>1. walk' \in Walk
        BY <2>1, <2>3, <2>6 DEF Walk
      <3> QED
        BY <2>2, <2>4, <2>6, <3>1 DEF StoreOK, RequestsOK, ReaderOK, requestVars, historyVars
    <2> QED
      BY <1>13, <2>5, <2>6 DEF WalkPage, page
  <1>14. CASE WalkRefused
    BY <1>14 DEF WalkRefused, StoreOK, RequestsOK, ReaderOK, requestVars, historyVars
  <1>15. CASE UNCHANGED vars
    BY <1>15 DEF vars, StoreOK, RequestsOK, ReaderOK, requestVars, readerVars, historyVars
  <1> QED
    BY <1>1, <1>2, <1>3, <1>4, <1>5, <1>6, <1>7, <1>8, <1>10, <1>11, <1>12, <1>13, <1>14, <1>15
    DEF Next, Request

----------------------------------------------------------------------------
(* The inductive invariant. *)

\* A step of one request leaves what the others hold.
LEMMA Frame ==
  ASSUME RequestsOK, NEW p \in Requests, NEW q \in Requests \ {p}, Request(p)
  PROVE  pc'[q] = pc[q] /\ job'[q] = job[q] /\ seen'[q] = seen[q]
  BY DEF Request, OpenNew, OpenEdit, Detail, SendKept, SendDelete, Send, Create, Read, Update, Delete,
         Reads, Begins, Write, Answers, Goes, RequestsOK

\* The flag is never touched.
LEMMA FlagStays ==
  ASSUME [Next]_vars
  PROVE  flagged' = flagged
  <1>1. ASSUME NEW q \in Requests, NEW step, NEW j, Begins(q, step, j)
        PROVE  flagged' = flagged
    BY <1>1 DEF Begins
  <1>2. ASSUME NEW q \in Requests, NEW a \in Actors, OpenNew(q, a) \/ SendKept(q, a)
        PROVE  flagged' = flagged
    BY <1>1, <1>2 DEF OpenNew, SendKept
  <1>3. ASSUME NEW q \in Requests, NEW a \in Actors, NEW k \in Paths,
               OpenEdit(q, a, k) \/ Detail(q, a, k) \/ SendDelete(q, a, k)
        PROVE  flagged' = flagged
    BY <1>1, <1>3 DEF OpenEdit, Detail, SendDelete, Reads
  <1>4. ASSUME NEW q \in Requests, Update(q) \/ Delete(q)
        PROVE  flagged' = flagged
    BY <1>4 DEF Update, Delete, Write
  <1>5. ASSUME NEW q \in Requests, Send(q) \/ Create(q) \/ Read(q)
        PROVE  flagged' = flagged
    BY <1>5 DEF Send, Create, Read
  <1>6. CASE WalkStart \/ WalkPage \/ WalkRefused \/ UNCHANGED vars
    BY <1>6 DEF WalkStart, WalkPage, WalkRefused, vars
  <1> QED
    BY <1>2, <1>3, <1>4, <1>5, <1>6 DEF Next, Request

\* What was judged stays judged until it is written.
LEMMA JudgedStep ==
  ASSUME RequestsOK, NEW q \in Requests, JudgedOK(q), [Next]_vars
  PROVE  JudgedOK(q)'
  <1>1. flagged' = flagged
    BY FlagStays
  <1>2. CASE pc'[q] = pc[q] /\ job'[q] = job[q] /\ seen'[q] = seen[q]
    BY <1>1, <1>2 DEF JudgedOK, Allowed
  <1>3. CASE Read(q)
    BY <1>1, <1>3 DEF Read, JudgedOK, Judgement, Answers, Goes, RequestsOK, Allowed
  <1>4. ASSUME Request(q), pc'[q] = "judged"
        PROVE  Read(q)
    BY <1>4 DEF Request, OpenNew, OpenEdit, Detail, SendKept, SendDelete, Send, Create, Update, Delete,
                Reads, Begins, Write, Answers, Goes, Judgement, RequestsOK
  <1>5. CASE Request(q)
    BY <1>3, <1>4, <1>5 DEF JudgedOK
  <1>6. CASE \E p \in Requests \ {q} : Request(p)
    BY <1>2, <1>6, Frame
  <1>7. CASE UNCHANGED requestVars
    BY <1>2, <1>7 DEF requestVars
  <1> QED
    BY <1>5, <1>6, <1>7 DEF Next, WalkStart, WalkPage, WalkRefused, vars

\* What was sent stays as it was sent.
LEMMA SentStep ==
  ASSUME RequestsOK, NEW q \in Requests, SentOK(q), [Next]_vars
  PROVE  SentOK(q)'
  <1>1. CASE pc'[q] = pc[q] /\ job'[q] = job[q]
    BY <1>1 DEF SentOK
  <1>2. CASE Send(q)
    <2>1. PICK e \in EditsOf(job[q].actor) : job' = [job EXCEPT ![q] = Filled(job[q], e)]
      BY <1>2 DEF Send
    <2>2. job[q] \in Job
      BY <1>2 DEF Send, RequestsOK
    <2> DEFINE j == Filled(job[q], e)
    <2>3. /\ j.actor = job[q].actor /\ j.opened = job[q].opened /\ j.edited = e.field
          /\ \A f \in Fields \ {e.field} : j.form[f] = untouched(job[q].actor, job[q].opened)[f]
      BY <2>2 DEF Filled, Job
    <2>4. e.field \in form_fields(job[q].actor) \cup {Nil}
      BY DEF EditsOf
    <2>5. job'[q] = j
      BY <2>1 DEF RequestsOK
    <2> HIDE DEF j
    <2> QED
      BY <2>3, <2>4, <2>5 DEF SentOK
  <1>3. CASE Read(q)
    BY <1>3 DEF Read, SentOK, Answers, Goes, RequestsOK, Judgement
  <1>4. ASSUME Request(q), pc'[q] \in {"posted", "judged"}, job'[q].op = "update"
        PROVE  Send(q) \/ Read(q)
    <2>1. ASSUME NEW a \in Actors, SendKept(q, a)
          PROVE  job'[q].op = "create"
      BY <2>1 DEF SendKept, Begins, Filled, NewJob, RequestsOK
    <2>2. ASSUME NEW a \in Actors, NEW k \in Paths, SendDelete(q, a, k)
          PROVE  job'[q].op = "delete"
      BY <2>2 DEF SendDelete, Begins, NewJob, RequestsOK
    <2> QED
      BY <1>4, <2>1, <2>2 DEF Request, OpenNew, OpenEdit, Detail, Create, Update, Delete,
                              Reads, Begins, Write, Answers, Goes, Judgement, RequestsOK
  <1>5. CASE Request(q)
    BY <1>2, <1>3, <1>4, <1>5 DEF SentOK
  <1>6. CASE \E p \in Requests \ {q} : Request(p)
    BY <1>1, <1>6, Frame
  <1>7. CASE UNCHANGED requestVars
    BY <1>1, <1>7 DEF requestVars
  <1> QED
    BY <1>5, <1>6, <1>7 DEF Next, WalkStart, WalkPage, WalkRefused, vars

\* The invariant holds at the start.
LEMMA InitInv ==
  ASSUME Init
  PROVE  IInv
  <1>1. StoreOK
    BY ResourcesAssumption DEF Init, StoreOK
  <1>2. RequestsOK
    BY DEF Init, RequestsOK, Steps, Open
  <1>3. ReaderOK
    BY DEF Init, ReaderOK
  <1> QED
    BY <1>1, <1>2, <1>3 DEF Init, IInv, TypeOK, JudgedOK, SentOK

\* Every step keeps the invariant.
LEMMA StepInv ==
  ASSUME IInv, [Next]_vars
  PROVE  IInv'
  <1>1. TypeOK'
    BY TypeStep DEF IInv
  <1>2. \A q \in Requests : JudgedOK(q)' /\ SentOK(q)'
    BY JudgedStep, SentStep DEF IInv, TypeOK
  <1> QED
    BY <1>1, <1>2 DEF IInv

\* The inductive invariant: besides the types, what a request has established before it writes.
THEOREM Invariance == Spec => []IInv
  BY InitInv, StepInv, PTL DEF Spec

\* Rows lie under the key that is their id, a request holds what its step needs, and the reader
\* asks with parameters.
THEOREM TypeCorrect == Spec => []TypeOK
  BY Invariance, PTL DEF IInv

----------------------------------------------------------------------------
(* What a step does to the store. *)

Payload(q) == build_payload(job[q].form)

Created(q) ==
  LET k == KeyOf(q, Payload(q)) IN
  /\ pc[q] = "posted" /\ ~Refused(Payload(q)) /\ store[k] = Nil
  /\ store' = [store EXCEPT ![k] = NewRow(k, Payload(q))]
  /\ Goes(q, "created")

Updated(q) ==
  /\ pc[q] = "judged" /\ job[q].op = "update" /\ store[job[q].id] # Nil
  /\ store' = [store EXCEPT ![job[q].id] = merge(store[job[q].id], Payload(q))]
  /\ Goes(q, "updated")

Deleted(q) ==
  /\ pc[q] = "judged" /\ job[q].op = "delete" /\ store[job[q].id] # Nil
  /\ store' = [store EXCEPT ![job[q].id] = Nil]
  /\ Goes(q, "deleted")

\* A step of a request that leaves the store.
Quiet(q) ==
  /\ pc[q] \in Open /\ UNCHANGED store
  /\ \E step \in Open \cup Refusals \cup {"shown"} : Goes(q, step)

\* Beginning writes nothing.
LEMMA BeginsQuiet ==
  ASSUME NEW q \in Requests, NEW step \in Open \cup Refusals \cup {"shown"}, NEW j, Begins(q, step, j)
  PROVE  Quiet(q)
  BY DEF Begins, Quiet, Open

\* Reading a record writes nothing.
LEMMA ReadsQuiet ==
  ASSUME NEW q \in Requests, NEW k, NEW allowed, NEW step \in Open \cup {"shown"}, NEW j,
         Reads(q, k, allowed, step, j)
  PROVE  Quiet(q)
  <1>1. Judgement(store[k], allowed) \in {"ok", "notfound", "forbidden"}
    BY DEF Judgement
  <1> QED
    BY <1>1, BeginsQuiet DEF Reads, Refusals

\* The ways a step goes.
LEMMA WhatSteps ==
  ASSUME [Next]_vars
  PROVE  \/ UNCHANGED <<store, pc>>
         \/ \E q \in Requests : Quiet(q) \/ Created(q) \/ Updated(q) \/ Deleted(q)
  <1>1. ASSUME NEW q \in Requests, NEW a \in Actors, OpenNew(q, a) \/ SendKept(q, a)
        PROVE  Quiet(q)
    BY <1>1, BeginsQuiet DEF OpenNew, SendKept, Open, Refusals
  <1>2. ASSUME NEW q \in Requests, NEW a \in Actors, NEW k \in Paths,
               OpenEdit(q, a, k) \/ Detail(q, a, k) \/ SendDelete(q, a, k)
        PROVE  Quiet(q)
    BY <1>2, BeginsQuiet, ReadsQuiet DEF OpenEdit, Detail, SendDelete, Open
  <1>3. ASSUME NEW q \in Requests, Send(q)
        PROVE  Quiet(q)
    BY <1>3 DEF Send, Quiet, Open
  <1>4. ASSUME NEW q \in Requests, Create(q)
        PROVE  Quiet(q) \/ Created(q)
    <2>1. ASSUME NEW answer \in Refusals, Answers(q, answer), UNCHANGED store
          PROVE  Quiet(q)
      BY <1>4, <2>1 DEF Create, Answers, Quiet, Open
    <2>2. ASSUME ~Refused(Payload(q)), ~Taken(KeyOf(q, Payload(q))),
                 Put([store EXCEPT ![KeyOf(q, Payload(q))] = NewRow(KeyOf(q, Payload(q)), Payload(q))]),
                 Answers(q, "created")
          PROVE  Created(q)
      BY <1>4, <2>2 DEF Create, Created, Put, Answers, Taken
    <2> QED
      BY <1>4, <2>1, <2>2 DEF Create, Payload, Refusals
  <1>5. ASSUME NEW q \in Requests, Read(q)
        PROVE  Quiet(q)
    <2>1. Judgement(store[job[q].id], Allowed(job[q], store[job[q].id])) \in {"ok", "notfound", "forbidden"}
      BY DEF Judgement
    <2> QED
      BY <1>5, <2>1 DEF Read, Answers, Quiet, Open, Refusals
  <1>6. ASSUME NEW q \in Requests, Update(q)
        PROVE  Quiet(q) \/ Updated(q)
    BY <1>6 DEF Update, Write, Put, Answers, Quiet, Updated, Payload, Open, Refusals
  <1>7. ASSUME NEW q \in Requests, Delete(q)
        PROVE  Quiet(q) \/ Deleted(q)
    BY <1>7 DEF Delete, Write, Put, Answers, Quiet, Deleted, Open, Refusals
  <1>8. CASE WalkStart \/ WalkPage \/ WalkRefused \/ UNCHANGED vars
    BY <1>8 DEF WalkStart, WalkPage, WalkRefused, vars, requestVars
  <1> QED
    BY <1>1, <1>2, <1>3, <1>4, <1>5, <1>6, <1>7, <1>8 DEF Next, Request

\* The answer of a write is given with the write.
LEMMA Landings ==
  ASSUME RequestsOK, NEW q \in Requests, [Next]_vars
  PROVE  /\ Lands(q, "updated") => Updated(q)
         /\ Lands(q, "deleted") => Deleted(q)
  <1>1. ASSUME NEW p \in Requests, NEW step, Goes(p, step), pc'[q] # pc[q]
        PROVE  p = q /\ pc'[q] = step
    BY <1>1 DEF Goes, RequestsOK
  <1>2. Lands(q, "updated") \/ Lands(q, "deleted") =>
          \E p \in Requests : Quiet(p) \/ Created(p) \/ Updated(p) \/ Deleted(p)
    BY WhatSteps DEF Lands
  <1>3. ASSUME NEW p \in Requests, Quiet(p) \/ Created(p)
        PROVE  ~Lands(q, "updated") /\ ~Lands(q, "deleted")
    BY <1>1, <1>3 DEF Quiet, Created, Lands, Open, Refusals
  <1>4. ASSUME NEW p \in Requests, Updated(p)
        PROVE  (Lands(q, "updated") => Updated(q)) /\ ~Lands(q, "deleted")
    <2>1. Goes(p, "updated")
      BY <1>4 DEF Updated
    <2>2. pc'[q] # pc[q] => p = q /\ pc'[q] = "updated"
      BY <1>1, <2>1
    <2> QED
      BY <1>4, <2>2 DEF Lands
  <1>5. ASSUME NEW p \in Requests, Deleted(p)
        PROVE  (Lands(q, "deleted") => Deleted(q)) /\ ~Lands(q, "updated")
    <2>1. Goes(p, "deleted")
      BY <1>5 DEF Deleted
    <2>2. pc'[q] # pc[q] => p = q /\ pc'[q] = "deleted"
      BY <1>1, <2>1
    <2> QED
      BY <1>5, <2>2 DEF Lands
  <1> QED
    BY <1>2, <1>3, <1>4, <1>5

----------------------------------------------------------------------------
(* The writes. *)

\* A resource whose flag is off loses and changes no record: the judgement before an update or a
\* delete asks for the flag, which stays what it is, and a create lands on no record.
LEMMA FlagStep ==
  ASSUME IInv, [Next]_vars, flagged, NEW k \in Texts, store[k] # Nil
  PROVE  store'[k] = store[k]
  <1>1. ASSUME NEW q \in Requests, Created(q)
        PROVE  store'[k] = store[k]
    <2>1. k # KeyOf(q, Payload(q)) /\ k \in DOMAIN store
      BY <1>1 DEF Created, IInv, TypeOK, StoreOK
    <2> QED
      BY <1>1, <2>1 DEF Created
  <1>2. ASSUME NEW q \in Requests
        PROVE  ~Updated(q) /\ ~Deleted(q)
    BY DEF Updated, Deleted, IInv, JudgedOK
  <1>3. ASSUME NEW q \in Requests, Quiet(q)
        PROVE  store'[k] = store[k]
    BY <1>3 DEF Quiet
  <1> QED
    BY <1>1, <1>2, <1>3, WhatSteps

\* A resource whose flag is off loses and changes no record (update and delete ask for the flag).
THEOREM BehindFlag == Spec => BehindFlagOnlyGrows
  <1>1. IInv /\ [Next]_vars => [flagged => \A k \in Texts : store[k] # Nil => store'[k] = store[k]]_vars
    BY FlagStep
  <1> QED
    BY <1>1, Invariance, PTL DEF Spec, BehindFlagOnlyGrows

\* What is written was allowed on the record that was read, which is the one that is there unless
\* another overtook it.
THEOREM ConsentedAlways == Spec => Consented
  <1> DEFINE Step == \A q \in Requests :
                       LET j == job[q]
                           record == store[j.id] IN
                       /\ Lands(q, "updated") => can_update(j.actor, record) \/ record # seen[q]
                       /\ Lands(q, "deleted") => can_delete(j.actor, record) \/ record # seen[q]
  <1>1. ASSUME IInv, [Next]_vars
        PROVE  Step
    <2>1. ASSUME NEW q \in Requests, Lands(q, "updated"), store[job[q].id] = seen[q]
          PROVE  can_update(job[q].actor, store[job[q].id])
      <3>1. Updated(q)
        BY <1>1, <2>1, Landings DEF IInv, TypeOK
      <3>2. Allowed(job[q], seen[q]) /\ job[q].op = "update"
        BY <1>1, <3>1 DEF Updated, IInv, JudgedOK
      <3> QED
        BY <2>1, <3>2 DEF Allowed
    <2>2. ASSUME NEW q \in Requests, Lands(q, "deleted"), store[job[q].id] = seen[q]
          PROVE  can_delete(job[q].actor, store[job[q].id])
      <3>1. Deleted(q)
        BY <1>1, <2>2, Landings DEF IInv, TypeOK
      <3>2. Allowed(job[q], seen[q]) /\ job[q].op = "delete"
        BY <1>1, <3>1 DEF Deleted, IInv, JudgedOK
      <3> QED
        BY <2>2, <3>2 DEF Allowed
    <2> QED
      BY <2>1, <2>2
  <1>2. IInv /\ [Next]_vars => [Step]_vars
    BY <1>1
  <1> QED
    BY <1>2, Invariance, PTL DEF Spec, Consented

\* The row an update leaves, field by field.
LEMMA UpdatedRow ==
  ASSUME IInv, NEW q \in Requests, Updated(q), NEW f \in Fields
  PROVE  LET new == store'[job[q].id][f]
             old == store[job[q].id][f]
             e == entry(f, job[q].form[f]) IN
         /\ job[q] \in Job
         /\ new = old \/ (new = e /\ e # Missing /\ e # Error)
  <1>1. job[q] \in Job /\ ~Refused(Payload(q))
    BY DEF Updated, IInv, TypeOK, RequestsOK, JudgedOK, Payload
  <1>2. job[q].id \in DOMAIN store
    BY <1>1 DEF IInv, TypeOK, StoreOK, Job
  <1>3. store'[job[q].id][f] = merge(store[job[q].id], Payload(q))[f]
    BY <1>2 DEF Updated
  <1>4. Payload(q)[f] \in {entry(f, job[q].form[f]), Missing}
    BY DEF Payload, build_payload
  <1> QED
    BY <1>1, <1>3, <1>4 DEF merge, Refused

\* What becomes of a control that was not sent.
LEMMA EntryOfNone ==
  ASSUME NEW f \in Fields
  PROVE  entry(f, {}) \in {Missing, Error, Str(0), Bool(FALSE)}
  <1>1. TextOf({}) = Nil
    BY DEF TextOf
  <1>2. \A required, value : Parsed({}, required, value) \in {Missing, Error}
    BY <1>1 DEF Parsed
  <1> QED
    BY <1>2 DEF entry

\* An update leaves what its sender was not shown or blanks it.
THEOREM UnseenBlanked == Spec => UnseenOnlyBlanked
  <1> DEFINE Step == \A q \in Requests : Lands(q, "updated") =>
                       \A f \in Fields \ form_fields(job[q].actor) :
                         store'[job[q].id][f] \in {store[job[q].id][f], Str(0), Bool(FALSE)}
  <1>1. ASSUME IInv, [Next]_vars, NEW q \in Requests, Lands(q, "updated"),
               NEW f \in Fields \ form_fields(job[q].actor)
        PROVE  store'[job[q].id][f] \in {store[job[q].id][f], Str(0), Bool(FALSE)}
    <2>1. Updated(q)
      BY <1>1, Landings DEF IInv, TypeOK
    <2>2. f # job[q].edited /\ job[q].form[f] = untouched(job[q].actor, job[q].opened)[f]
      BY <1>1, <2>1, ValuesAssumption DEF IInv, SentOK, Updated
    <2>3. job[q].form[f] = {}
      BY <2>2 DEF untouched
    <2> QED
      BY <1>1, <2>1, <2>3, UpdatedRow, EntryOfNone
  <1>2. IInv /\ [Next]_vars => [Step]_vars
    BY <1>1
  <1> QED
    BY <1>2, Invariance, PTL DEF Spec, UnseenOnlyBlanked

\* A value is what its type and its contents say.
LEMMA CellShapes ==
  ASSUME NEW v \in Cell
  PROVE  /\ v.t = "str" => v = Str(v.v) /\ v.v \in Texts
         /\ v.t = "num" => v = Num(v.v) /\ v.v \in Numbers
         /\ v # Missing => v \in Json
         /\ is_true(Bool(TRUE)) /\ ~is_true(Bool(FALSE))
  <1> USE DEF Null, Missing, Bool, Str, Num, Arr, Value
  <1>1. CASE v \in {Null, Bool(FALSE), Bool(TRUE), Missing}
    BY <1>1 DEF is_true, Cell, Json
  <1>2. CASE \E s \in Texts : v = Str(s)
    BY <1>2 DEF is_true, Cell, Json
  <1>3. CASE \E n \in Numbers : v = Num(n)
    BY <1>3 DEF is_true, Cell, Json
  <1>4. CASE \E l \in Lists : v = Arr(l)
    BY <1>4 DEF is_true, Cell, Json
  <1> QED
    BY <1>1, <1>2, <1>3, <1>4 DEF Cell, Json

\* A value that its control can show comes back as it is or not at all.
LEMMA RoundTrip ==
  ASSUME NEW f \in Fields, NEW v \in Cell, Survives(f, v)
  PROVE  entry(f, form_control(f, v)) \in {Missing, Error, v}
  <1> DEFINE kind == Field[f].kind
             text == value_string(v)
  <1>1. /\ text \in Texts /\ Trim[0] = 0 /\ 0 \in Texts
        /\ v.t = "str" => text = v.v /\ v = Str(v.v)
        /\ v.t = "num" => text = Display[v.v] /\ v = Num(v.v) /\ v.v \in Numbers
        /\ v # Missing => text = Shown[v]
        /\ v = Missing => text = 0
    <2>1. v.t \in {"str", "num"} => v # Missing
      BY DEF Missing, Value
    <2>2. v # Missing => text = Shown[v] /\ Shown[v] \in Texts
      BY CellShapes, FormsAssumption DEF value_string
    <2>3. v = Missing => text = 0
      BY DEF value_string
    <2>4. v.t = "str" => Shown[v] = v.v
      BY CellShapes, FormsAssumption
    <2>5. v.t = "num" => Shown[v] = Display[v.v]
      BY ZenonT(60), CellShapes, FormsAssumption
    <2>6. /\ Trim[0] = 0 /\ 0 \in Texts
          /\ v.t = "str" => v = Str(v.v)
          /\ v.t = "num" => v = Num(v.v) /\ v.v \in Numbers
      BY CellShapes, ValuesAssumption
    <2> HIDE DEF text
    <2>7. text \in Texts
      BY <2>2, <2>3, <2>6
    <2>8. /\ v.t = "str" => text = v.v
          /\ v.t = "num" => text = Display[v.v]
      BY <2>1, <2>2, <2>4, <2>5
    <2> QED
      BY <2>2, <2>3, <2>6, <2>7, <2>8
  <1>2. \A s : TextOf({s}) = s
    BY DEF TextOf
  <1>0. \A required, value : Parsed({0}, required, value) \in {Missing, Error}
    <2> HIDE DEF text
    <2> QED
      BY <1>1, <1>2 DEF Parsed
  <1>3. CASE kind = "boolean"
    <2>1. form_control(f, Bool(TRUE)) = {On} /\ form_control(f, Bool(FALSE)) = {}
      BY <1>3, CellShapes DEF form_control, Numeric, Choice
    <2>2. v \in {Bool(TRUE), Bool(FALSE)}
      BY <1>3 DEF Survives, Numeric, Choice
    <2> QED
      BY <1>3, <2>1, <2>2 DEF entry, Numeric, Choice
  <1>4. CASE kind = "multiselect"
    <2>1. ASSUME NEW S \in SUBSET Field[f].options, v = Arr(ListOf[S])
          PROVE  form_control(f, v) = S
      <3>1. v.t = "arr" /\ v.v = ListOf[S]
        BY <2>1 DEF Arr, Value
      <3>2. Members[v.v] = S
        BY <3>1, FieldTypes, FormsAssumption
      <3> QED
        BY <1>4, <3>1, <3>2 DEF form_control, Numeric, Choice
    <2>2. ASSUME v.t # "arr" \/ Members[v.v] \cap Field[f].options = {}
          PROVE  form_control(f, v) = {}
      BY <1>4, <2>2 DEF form_control, Numeric, Choice
    <2>3. entry(f, {}) \in {Missing, Error}
      BY <1>4 DEF entry, Numeric, Choice
    <2>4. \A S \in SUBSET Field[f].options : entry(f, S) \in {Missing, Error, Arr(ListOf[S])}
      BY <1>4 DEF entry, Numeric, Choice
    <2> QED
      BY <1>4, <2>1, <2>2, <2>3, <2>4 DEF Survives, Numeric, Choice
  <1>5. CASE kind \in Numeric
    <2>1. \A raw : entry(f, raw) = Parsed(raw, Field[f].required, NumberOf)
      BY <1>5 DEF entry, Numeric, Choice
    <2>2. form_control(f, v) = {IF Numeral[text] # Nil THEN text ELSE 0}
      BY <1>5 DEF form_control, Numeric, Choice
    <2>3. CASE Numeral[text] = Nil
      <3>1. form_control(f, v) = {0}
        BY <2>2, <2>3
      <3> QED
        BY <1>0, <2>1, <3>1
    <2>4. CASE Numeral[text] # Nil
      <3>1. v.t = "num"
        BY <1>5, <2>4 DEF Survives, Numeric, Choice
      <3>2. Numeral[text] = v.v /\ Trim[text] = text /\ text # 0
        BY ZenonT(60), <1>1, <3>1, <2>4, ValuesAssumption
      <3>3. NumberOf[text] = v
        BY <1>1, <2>4, <3>1, <3>2 DEF NumberOf
      <3> QED
        <4>1. form_control(f, v) = {text} /\ {text} # {}
          BY <2>2, <2>4
        <4>2. TextOf({text}) = text /\ text # Nil
          <5>1. \A s \in Texts : s # Nil
            BY ValuesAssumption
          <5> QED
            BY <1>1, <1>2, <5>1
        <4>3. v # Nil
          BY FormsAssumption DEF Cell
        <4> HIDE DEF text
        <4>4. Parsed({text}, Field[f].required, NumberOf) = v
          BY <3>2, <3>3, <4>2, <4>3 DEF Parsed
        <4> QED
          BY <2>1, <4>1, <4>4
    <2> QED
      BY <2>3, <2>4
  <1>6. CASE kind = "json"
    <2>1. \A raw : entry(f, raw) = Parsed(raw, Field[f].required, ParseJson)
      BY <1>6 DEF entry, Numeric, Choice
    <2>2. form_control(f, v) = {text}
      BY <1>6 DEF form_control, Numeric, Choice
    <2>3. CASE v = Missing
      <3>1. form_control(f, v) = {0}
        BY <1>1, <2>2, <2>3
      <3> QED
        BY <1>0, <2>1, <3>1
    <2>4. CASE v # Missing
      <3>1. ParseJson[Trim[text]] = v
        BY <1>1, <1>6, <2>4 DEF Survives, Numeric, Choice
      <3> QED
        BY <1>2, <2>1, <2>2, <3>1 DEF Parsed
    <2> QED
      BY <2>3, <2>4
  <1>7. CASE kind \notin {"boolean", "multiselect", "json"} \cup Numeric
    <2>1. \A s : entry(f, {s}) = Str(Trim[s])
      BY <1>2, <1>7 DEF entry, Numeric, Choice
    <2>2. CASE kind \in Choice
      <3>1. v.t = "str" /\ v.v \in Field[f].options \cup {0}
        BY <1>7, <2>2 DEF Survives, Numeric, Choice
      <3>2. form_control(f, v) = {v.v}
        BY <1>1, <1>7, <2>2, <3>1 DEF form_control, Numeric, Choice
      <3>3. Trim[v.v] = v.v
        BY <1>1, <3>1, FormsAssumption
      <3> QED
        BY <1>1, <2>1, <3>1, <3>2, <3>3
    <2>3. CASE kind = "date"
      <3>1. v.t = "str" /\ v.v \in Dates \cup {0}
        BY <1>7, <2>3 DEF Survives, Choice, Numeric
      <3>2. form_control(f, v) = {v.v}
        BY <1>1, <1>7, <2>3, <3>1 DEF form_control, Choice, Numeric
      <3>3. Trim[v.v] = v.v
        BY <1>1, <3>1, FormsAssumption
      <3> QED
        BY <1>1, <2>1, <3>1, <3>2, <3>3
    <2>4. CASE kind \notin Choice \cup {"date"}
      <3>1. v.t = "str" /\ Trim[v.v] = v.v
        BY <1>7, <2>4 DEF Survives, Numeric, Choice
      <3>2. form_control(f, v) = {v.v}
        BY <1>1, <1>7, <2>4, <3>1 DEF form_control, Numeric, Choice
      <3> QED
        BY <1>1, <2>1, <3>1, <3>2
    <2> QED
      BY <2>2, <2>3, <2>4
  <1> QED
    BY <1>3, <1>4, <1>5, <1>6, <1>7

\* An update leaves a field that was shown and not touched as it is, or as it was when the form
\* was opened: so far as its value survives its control.
THEOREM OnlyEdits == Spec => SavesOnlyEdits
  <1> DEFINE Step == \A q \in Requests : Lands(q, "updated") =>
                       \A f \in form_fields(job[q].actor) \ {job[q].edited} :
                         Survives(f, job[q].opened[f]) =>
                           store'[job[q].id][f] \in {store[job[q].id][f], job[q].opened[f]}
  <1>1. ASSUME IInv, [Next]_vars, NEW q \in Requests, Lands(q, "updated"),
               NEW f \in form_fields(job[q].actor) \ {job[q].edited}, Survives(f, job[q].opened[f])
        PROVE  store'[job[q].id][f] \in {store[job[q].id][f], job[q].opened[f]}
    <2>1. Updated(q) /\ f \in Fields
      BY <1>1, Landings DEF IInv, TypeOK, form_fields, visible_fields
    <2>2. job[q].form[f] = untouched(job[q].actor, job[q].opened)[f]
      BY <1>1, <2>1 DEF IInv, SentOK, Updated
    <2>3. job[q].form[f] = form_control(f, job[q].opened[f])
      BY <1>1, <2>1, <2>2 DEF untouched
    <2>4. job[q] \in Job
      BY <1>1, <2>1, UpdatedRow
    <2>5. job[q].opened[f] \in Cell
      BY <2>1, <2>4 DEF Job, Row, Cell
    <2>6. entry(f, job[q].form[f]) \in {Missing, Error, job[q].opened[f]}
      BY <1>1, <2>1, <2>3, <2>5, RoundTrip
    <2> QED
      BY <1>1, <2>1, <2>6, UpdatedRow
  <1>2. IInv /\ [Next]_vars => [Step]_vars
    BY <1>1
  <1> QED
    BY <1>2, Invariance, PTL DEF Spec, SavesOnlyEdits

----------------------------------------------------------------------------
(* The refinement. *)

\* A step of a request, as Records sees it.
LEMMA FateStep ==
  ASSUME RequestsOK, NEW q \in Requests, NEW step, Goes(q, step), pc[q] \in Open
  PROVE  LET fate == [r \in Requests |-> Fate(r)]
             outcome == CASE step \in Open -> "open"
                          [] step \in {"created", "updated", "deleted"} -> step
                          [] OTHER -> "closed" IN
         /\ fate[q] = "open"
         /\ fate' = [fate EXCEPT ![q] = outcome]
  <1>1. \A r \in Requests : pc'[r] = IF r = q THEN step ELSE pc[r]
    BY DEF RequestsOK, Goes
  <1> QED
    BY <1>1 DEF Fate, Open

\* Every write is one of Records, everything else closes a request or is none of its business.
LEMMA Maps ==
  ASSUME IInv, [Next]_vars
  PROVE  [Promise!Next]_<<store, [q \in Requests |-> Fate(q)]>>
  <1> DEFINE fate == [q \in Requests |-> Fate(q)]
  <1>1. CASE UNCHANGED <<store, pc>>
    BY <1>1 DEF Fate
  <1>2. ASSUME NEW q \in Requests, Quiet(q)
        PROVE  UNCHANGED <<store, fate>> \/ Promise!Close(q)
    <2>1. PICK step \in Open \cup Refusals \cup {"shown"} : Goes(q, step)
      BY <1>2 DEF Quiet
    <2>2. CASE step \in Open
      <3>1. fate[q] = "open" /\ fate' = [fate EXCEPT ![q] = "open"]
        BY <1>2, <2>1, <2>2, FateStep DEF Quiet, Open, IInv, TypeOK
      <3>2. fate' = fate
        BY <3>1
      <3> QED
        BY <1>2, <3>2 DEF Quiet
    <2>3. CASE step \notin Open
      <3>1. step \notin {"created", "updated", "deleted"}
        BY <2>1, <2>3 DEF Open, Refusals
      <3> QED
        BY <1>2, <2>1, <2>3, <3>1, FateStep DEF Quiet, IInv, TypeOK, Promise!Close, Promise!Ends
    <2> QED
      BY <2>2, <2>3
  <1>3. ASSUME NEW q \in Requests, Created(q)
        PROVE  \E k \in Texts : Promise!Create(q, k)
    <2> DEFINE k == KeyOf(q, Payload(q))
    <2>1. Payload(q) \in Row /\ k \in Texts
      BY <1>3, Payloads, Keys DEF Created, IInv, TypeOK, RequestsOK, Job, Payload
    <2>2. NewRow(k, Payload(q)) \in RowsAt[k]
      BY <2>1, Rows
    <2>3. fate[q] = "open" /\ fate' = [fate EXCEPT ![q] = "created"]
      BY <1>3, FateStep DEF Created, Open, IInv, TypeOK
    <2>4. k \in DOMAIN store
      BY <2>1 DEF IInv, TypeOK, StoreOK
    <2>5. Promise!Create(q, k)
      BY <1>3, <2>2, <2>3, <2>4 DEF Created, Promise!Create, Promise!Ends
    <2> QED
      BY <2>1, <2>5
  <1>4. ASSUME NEW q \in Requests, Updated(q)
        PROVE  \E k \in Texts : Promise!Update(q, k)
    <2> DEFINE k == job[q].id
    <2>1. Payload(q) \in Row /\ k \in Texts
      BY <1>4, Payloads DEF Updated, IInv, TypeOK, RequestsOK, JudgedOK, Job, Payload
    <2>2. k \in DOMAIN store /\ store[k] \in RowsAt[k]
      BY <1>4, <2>1 DEF Updated, IInv, TypeOK, StoreOK
    <2>3. merge(store[k], Payload(q)) \in RowsAt[k]
      BY <2>1, <2>2, Rows
    <2>4. fate[q] = "open" /\ fate' = [fate EXCEPT ![q] = "updated"]
      BY <1>4, FateStep DEF Updated, Open, IInv, TypeOK
    <2>5. Promise!Update(q, k)
      BY <1>4, <2>2, <2>3, <2>4 DEF Updated, Promise!Update, Promise!Ends
    <2> QED
      BY <2>1, <2>5
  <1>5. ASSUME NEW q \in Requests, Deleted(q)
        PROVE  \E k \in Texts : Promise!Delete(q, k)
    <2> DEFINE k == job[q].id
    <2>1. k \in Texts
      BY <1>5 DEF Deleted, IInv, TypeOK, RequestsOK, Job
    <2>2. fate[q] = "open" /\ fate' = [fate EXCEPT ![q] = "deleted"]
      BY <1>5, FateStep DEF Deleted, Open, IInv, TypeOK
    <2>3. Promise!Delete(q, k)
      BY <1>5, <2>2 DEF Deleted, Promise!Delete, Promise!Ends
    <2> QED
      BY <2>1, <2>3
  <1>6. ASSUME NEW q \in Requests, Quiet(q) \/ Created(q) \/ Updated(q) \/ Deleted(q)
        PROVE  UNCHANGED <<store, fate>> \/ Promise!Next
    BY <1>2, <1>3, <1>4, <1>5, <1>6 DEF Promise!Next
  <1> QED
    BY <1>1, <1>6, WhatSteps

\* The requests implement Records: each writes at most once, in one step, where it may.
THEOREM RecordsImplemented == Spec => ImplementsRecords
  <1>1. Init => Promise!Init
    BY ResourcesAssumption DEF Init, Promise!Init, Fate, Open
  <1>2. IInv /\ [Next]_vars => [Promise!Next]_<<store, [q \in Requests |-> Fate(q)]>>
    BY Maps
  <1> QED
    BY <1>1, <1>2, Invariance, PTL DEF Spec, ImplementsRecords, Promise!Spec

=============================================================================
