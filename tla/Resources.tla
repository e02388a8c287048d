----------------------------- MODULE Resources -----------------------------
(***************************************************************************)
(* The requests on one resource kept by the in-memory adapter: the forms   *)
(* that people open, fill in and send (presentation/handlers: forms.rs,    *)
(* mutations.rs, detail.rs), and one reader who goes through the list page *)
(* by page meanwhile, along the pager's next link (list.rs) or as the      *)
(* adapter's stream does (core/src/adapter.rs).  The adapter's lock makes  *)
(* each of its calls one step; an update and a delete take two, the get    *)
(* that is judged and the write.                                           *)
(***************************************************************************)
EXTENDS Listing, Forms

CONSTANTS
  Requests,   \* the requests, one each
  Edits,      \* what people enter in a form: a set of [field, raw], field Nil for nothing
  Generated,  \* [Requests -> Texts]: the uuid that a create of the request would draw
  Walks,      \* the ways through the list: a set of Walk
  Paths,      \* the ids that people ask for
  Seeds,      \* the stores to begin with
  can_view_any(_), can_create(_), can_view(_, _), can_update(_, _), can_delete(_, _)  \* Policy

Params == [page: Nat \cup {Nil}, per_page: Nat \cup {Nil},
           sort: [field: Fields, dir: {"asc", "desc"}] \cup {Nil}, q: Texts \cup {Nil},
           params: [Fields -> Texts \cup {Nil}], min: [Fields -> Texts \cup {Nil}],
           max: [Fields -> Texts \cup {Nil}]]
Walk == [mode: {"offset", "cursor", "pages"}, actor: Actors, p: Params]

\* The rows under a key carry it as their id.
RowsAt == [k \in Texts |-> {r \in Row : r["id"] = Str(k)}]

ASSUME ResourcesAssumption ==
  /\ Paths \subseteq Texts
  /\ \A e \in Edits : /\ e.field \in Fields \cup {Nil} /\ e.raw \in SUBSET Texts
                      /\ e.field # Nil => (Field[e.field].kind = "multiselect"
                                             => e.raw \subseteq Field[e.field].options)
  /\ Generated \in [Requests -> Texts] /\ \A q \in Requests : Generated[q] # 0
  /\ \A w \in Walks : /\ w \in Walk /\ w.p.page = Nil
  /\ Nil \notin Params
  /\ \A s \in Seeds : /\ DOMAIN s = Texts
                      /\ \A k \in Texts : s[k] = Nil \/ s[k] \in RowsAt[k]
                      /\ IsFiniteSet({k \in Texts : s[k] # Nil})

VARIABLES
  store,    \* [Texts -> Row or Nil]: InMemoryAdapter.store
  flagged,  \* the resource names a flag: FlagService has none on, so the resource is off
  pc,       \* [Requests -> Steps]: what a request does next, or its answer
  job,      \* [Requests -> Job or Nil]
  seen,     \* [Requests -> Row or Nil]: the record the policy was asked about
  wpc,      \* "idle", "walking", "ended" or "refused": the reader
  walk,     \* the page the reader asks for next; walk.p.page is the page number of a stream too
  after,    \* and its cursor
  base,     \* the rows listed when the reader began (this and the rest decide nothing)
  got,      \* the rows the reader was shown
  twice,    \* those shown more than once
  shrunk,   \* a listed row has left its place since
  grown,    \* a row has entered a place of the list since
  resorted  \* a next link asked for another sort than the page it was on

requestVars == <<pc, job, seen>>
readerVars == <<wpc, walk, after, base, got, twice, resorted>>
historyVars == <<shrunk, grown>>
vars == <<store, flagged, requestVars, readerVars, historyVars>>

Open == {"idle", "opened", "posted", "judged"}
Refusals == {"notfound", "forbidden", "invalid", "conflict"}
Steps == Open \cup Refusals \cup {"shown", "created", "updated", "deleted"}
Form == {g \in [Fields -> SUBSET Texts] :
           \A f \in Fields : Field[f].kind = "multiselect" => g[f] \subseteq Field[f].options}
Job == [op: {"create", "update", "delete"}, actor: Actors, id: Texts,
        opened: Row, edited: Fields \cup {Nil}, form: Form]

Empty == [f \in Fields |-> Missing]
NoForm == [f \in Fields |-> {}]

StoreOK ==
  /\ DOMAIN store = Texts /\ \A k \in Texts : store[k] = Nil \/ store[k] \in RowsAt[k]
  /\ IsFiniteSet({k \in Texts : store[k] # Nil})

RequestsOK ==
  /\ pc \in [Requests -> Steps]
  /\ DOMAIN job = Requests /\ DOMAIN seen = Requests
  /\ \A q \in Requests : IF pc[q] \in {"opened", "posted", "judged"} THEN job[q] \in Job
                                                                     ELSE job[q] = Nil
  /\ \A q \in Requests : IF pc[q] = "judged" THEN seen[q] \in Row ELSE seen[q] = Nil

ReaderOK ==
  /\ wpc \in {"idle", "walking", "ended", "refused"}
  /\ wpc # "idle" => walk \in Walk
  /\ after = Nil \/ after \in Cursor
  /\ base \subseteq Texts /\ got \subseteq Texts /\ twice \subseteq got

TypeOK ==
  /\ StoreOK /\ flagged \in BOOLEAN
  /\ RequestsOK
  /\ ReaderOK
  /\ shrunk \in BOOLEAN /\ grown \in BOOLEAN /\ resorted \in BOOLEAN

Init ==
  /\ store \in Seeds
  /\ flagged \in BOOLEAN
  /\ pc = [q \in Requests |-> "idle"]
  /\ job = [q \in Requests |-> Nil]
  /\ seen = [q \in Requests |-> Nil]
  /\ wpc = "idle" /\ walk = Nil /\ after = Nil
  /\ base = {} /\ got = {} /\ twice = {}
  /\ shrunk = FALSE /\ grown = FALSE /\ resorted = FALSE

----------------------------------------------------------------------------
(* The forms. *)

Goes(q, step) == pc' = [pc EXCEPT ![q] = step]

\* The request is answered; nothing of it is kept.
Answers(q, answer) ==
  /\ Goes(q, answer)
  /\ job' = [job EXCEPT ![q] = Nil]
  /\ seen' = [seen EXCEPT ![q] = Nil]

Begins(q, step, j) ==
  /\ pc[q] = "idle"
  /\ Goes(q, step)
  /\ job' = [job EXCEPT ![q] = j]
  /\ UNCHANGED <<store, flagged, seen, readerVars, historyVars>>

\* Mutant: no flag is asked for.
Judgement_Unflagged(record, allowed) ==
  IF record = Nil THEN "notfound" ELSE IF allowed THEN "ok" ELSE "forbidden"

\* gate_resource, then the record, then the policy.
Judgement(record, allowed) ==
  CASE flagged \/ record = Nil -> "notfound"
    [] ~flagged /\ record # Nil -> IF allowed THEN "ok" ELSE "forbidden"

\* A page of the record that answers with the record, or without it.
Reads(q, k, allowed, step, j) ==
  LET judgement == Judgement(store[k], allowed) IN
  IF judgement = "ok" THEN Begins(q, step, j) ELSE Begins(q, judgement, Nil)

NewJob(op, a, k, row) ==
  [op |-> op, actor |-> a, id |-> k, opened |-> row, edited |-> Nil, form |-> NoForm]

\* create_form_handler.
OpenNew(q, a) ==
  CASE flagged -> Begins(q, "notfound", Nil)
    [] ~flagged /\ ~can_create(a) -> Begins(q, "forbidden", Nil)
    [] OTHER -> Begins(q, "opened", NewJob("create", a, 0, Empty))

\* edit_form_handler.
OpenEdit(q, a, k) ==
  Reads(q, k, can_update(a, store[k]), "opened", NewJob("update", a, k, store[k]))

\* detail_handler.
Detail(q, a, k) == Reads(q, k, can_view(a, store[k]), "shown", Nil)

\* The form as it is sent, with at most one control touched.
Filled(j, e) ==
  LET left == untouched(j.actor, j.opened) IN
  [j EXCEPT !.edited = e.field,
            !.form = [f \in Fields |-> IF f = e.field THEN e.raw ELSE left[f]]]

EditsOf(a) == LET shown == form_fields(a) IN {e \in Edits : e.field \in shown \cup {Nil}}

\* The browser sends an opened form.
Send(q) ==
  /\ pc[q] = "opened"
  /\ \E e \in EditsOf(job[q].actor) : job' = [job EXCEPT ![q] = Filled(job[q], e)]
  /\ Goes(q, "posted")
  /\ UNCHANGED <<store, flagged, seen, readerVars, historyVars>>

\* The same create form, kept from another time: nothing asks whether it was served.
SendKept(q, a) ==
  \E e \in EditsOf(a) : Begins(q, "posted", Filled(NewJob("create", a, 0, Empty), e))

\* The delete button.
SendDelete(q, a, k) == Begins(q, "posted", NewJob("delete", a, k, Empty))

----------------------------------------------------------------------------
(* The writes. *)

\* The fields that decide the order of a list.
SortFields(query) == {"id"} \cup {query.sort[n].field : n \in DOMAIN query.sort}

\* The store becomes s.
Put(s) ==
  LET query == list_query(walk.p)
      before == listed(store, query)
      since == listed(s, query)
      stay == {i \in before \cap since : \A f \in SortFields(query) : store[i][f] = s[i][f]} IN
  /\ store' = s
  /\ shrunk' = (shrunk \/ (wpc = "walking" /\ before # stay))
  /\ grown' = (grown \/ (wpc = "walking" /\ since # stay))

\* The id of a new record: the payload's, or a uuid.
KeyOf(q, payload) ==
  CASE payload["id"].t = "str" -> payload["id"].v
    [] payload["id"].t = "num" -> Display[payload["id"].v]
    [] OTHER -> Generated[q]

\* Mutant: a uuid is the key but not the id of the new row.
NewRow_NoId(k, payload) == payload

NewRow(k, payload) == [payload EXCEPT !["id"] = Str(k)]

\* Mutant: a create takes the place of what is there.
Taken_Never(k) == FALSE

Taken(k) == store[k] # Nil

\* create_handler: it asks for no flag.
Create(q) ==
  LET a == job[q].actor
      payload == build_payload(job[q].form)
      k == KeyOf(q, payload) IN
  /\ pc[q] = "posted" /\ job[q].op = "create"
  /\ \/ /\ ~can_create(a)
        /\ Answers(q, "forbidden") /\ UNCHANGED <<store, historyVars>>
     \/ /\ can_create(a) /\ (Refused(payload) \/ validate_entity(payload))
        /\ Answers(q, "invalid") /\ UNCHANGED <<store, historyVars>>
     \/ /\ can_create(a) /\ ~Refused(payload) /\ ~validate_entity(payload)
        /\ Taken(k)
        /\ Answers(q, "conflict") /\ UNCHANGED <<store, historyVars>>
     \/ /\ can_create(a) /\ ~Refused(payload) /\ ~validate_entity(payload)
        /\ ~Taken(k)
        /\ Put([store EXCEPT ![k] = NewRow(k, payload)]) /\ Answers(q, "created")
  /\ UNCHANGED <<flagged, readerVars>>

\* Mutant: who may open the form may send it.
Allowed_Trusting(j, record) == IF j.op = "update" THEN TRUE ELSE can_delete(j.actor, record)

Allowed(j, record) ==
  IF j.op = "update" THEN can_update(j.actor, record) ELSE can_delete(j.actor, record)

\* update_handler and delete_handler up to the write: the record they judge is the one read here.
Read(q) ==
  LET j == job[q]
      record == store[j.id]
      judgement == Judgement(record, Allowed(j, record))
      payload == build_payload(j.form)
      invalid == j.op = "update" /\ (Refused(payload) \/ validate_entity(payload)) IN
  /\ pc[q] = "posted" /\ j.op # "create"
  /\ \/ judgement # "ok" /\ Answers(q, judgement)
     \/ judgement = "ok" /\ invalid /\ Answers(q, "invalid")
     \/ /\ judgement = "ok" /\ ~invalid
        /\ Goes(q, "judged") /\ seen' = [seen EXCEPT ![q] = record] /\ UNCHANGED job
  /\ UNCHANGED <<store, flagged, readerVars, historyVars>>

\* The adapter's second call, on the record that is there now: no version is compared.
Write(q, row, answer) ==
  LET k == job[q].id IN
  /\ \/ store[k] = Nil /\ Answers(q, "notfound") /\ UNCHANGED <<store, historyVars>>
     \/ store[k] # Nil /\ Put([store EXCEPT ![k] = row]) /\ Answers(q, answer)
  /\ UNCHANGED <<flagged, readerVars>>

Update(q) ==
  /\ pc[q] = "judged" /\ job[q].op = "update"
  /\ Write(q, merge(store[job[q].id], build_payload(job[q].form)), "updated")

Delete(q) ==
  /\ pc[q] = "judged" /\ job[q].op = "delete"
  /\ Write(q, Nil, "deleted")

----------------------------------------------------------------------------
(* The reader. *)

WalkStart ==
  /\ wpc = "idle"
  /\ \E w \in Walks : /\ walk' = w
                      /\ base' = listed(store, list_query(w.p))
  /\ wpc' = "walking"
  /\ UNCHANGED <<store, flagged, requestVars, after, got, twice, resorted, historyVars>>

\* One page: of list_handler, or of the stream with its own page number or cursor.
Page(w, cursor) ==
  IF w.mode = "cursor"
    THEN list_cursor(store, list_query(w.p), cursor, Nil, per_page_of(w.p))
    ELSE list_offset(store, list_query(w.p), page_of(w.p), per_page_of(w.p))

\* The parameters of the page to ask for next, Nil after the last.
NextPage(w, page) ==
  CASE w.mode = "pages" -> build_pager(page, w.p).next
    [] w.mode # "pages" /\ (page.size = 0 \/ page.next = Nil) -> Nil
    [] OTHER -> IF w.mode = "cursor" THEN w.p ELSE [w.p EXCEPT !.page = page_of(w.p) + 1]

WalkPage ==
  LET page == Page(walk, after)
      next == NextPage(walk, page) IN
  /\ wpc = "walking"
  /\ walk.mode = "pages" => ~flagged /\ can_view_any(walk.actor)
  /\ got' = got \cup page.ids
  /\ twice' = twice \cup (got \cap page.ids)
  /\ \/ /\ next = Nil
        /\ wpc' = "ended"
        /\ UNCHANGED <<walk, after, resorted>>
     \/ /\ next # Nil
        /\ walk' = [walk EXCEPT !.p = next]
        /\ after' = IF walk.mode = "cursor" THEN page.next ELSE Nil
        /\ resorted' = (resorted \/ request_sort(next.sort) # request_sort(walk.p.sort))
        /\ UNCHANGED wpc
  /\ UNCHANGED <<store, flagged, requestVars, base, historyVars>>

\* list_handler answers 404 or 403.
WalkRefused ==
  /\ wpc = "walking" /\ walk.mode = "pages"
  /\ flagged \/ ~can_view_any(walk.actor)
  /\ wpc' = "refused"
  /\ UNCHANGED <<store, flagged, requestVars, walk, after, base, got, twice, resorted, historyVars>>

----------------------------------------------------------------------------

Request(q) ==
  \/ \E a \in Actors : \/ OpenNew(q, a) \/ SendKept(q, a)
                       \/ \E k \in Paths : OpenEdit(q, a, k) \/ Detail(q, a, k) \/ SendDelete(q, a, k)
  \/ Send(q) \/ Create(q) \/ Read(q) \/ Update(q) \/ Delete(q)

Next == (\E q \in Requests : Request(q)) \/ WalkStart \/ WalkPage \/ WalkRefused

Spec == Init /\ [][Next]_vars

\* A reader who is on the way asks for the next page at last, as the consumer of a stream does and
\* a crawl along the next links would.  It is WF_vars(WalkPage \/ WalkRefused), spelled out: one of
\* the two is enabled exactly while the reader is walking, and each changes wpc, walk or after.
ReadsOn == []<>(wpc # "walking") \/ []<><<TRUE>>_<<wpc, walk, after>>

FairSpec == Spec /\ ReadsOn

----------------------------------------------------------------------------
(* What the list promises. *)

\* Whatever rows are stored and whatever the sort, the listed rows stand in one line: no two at
\* the same place, whatever types their values mix; so a page has as many rows as it is long
\* (sort_rows and rows: value_cmp, then the id).
RowsInLine ==
  wpc = "walking" =>
    LET query == list_query(walk.p)
        rows == listed(store, query)
        page == Page(walk, after) IN
    /\ {rank(rows, store, query.sort, i) : i \in rows} = 0..(Cardinality(rows) - 1)
    /\ Cardinality(page.ids) = page.size

\* Nothing has happened yet: where properties of the operators alone are asked, once.
AtStart == wpc = "idle" /\ pc = [q \in Requests |-> "idle"]

\* The bounds that Gt to Lte understand, and the values they are of one order with: an instant
\* is compared as its RFC 3339 text, so only with texts that are written the same way.
Bounds == {Num(n) : n \in Numbers} \cup {Str(s) : s \in Texts}
            \cup {Value("date", i) : i \in DOMAIN Rfc3339}
Comparable(v, bound) ==
  IF bound.t = "date" THEN v \in {Str(Rfc3339[i]) : i \in DOMAIN Rfc3339} ELSE v.t = bound.t

\* Below, equal and above exclude one another and leave no gap, as eq_match and order_match, two
\* separate pieces of code, decide them; Lte and Gte take the equal one in.
OrderAgreesWithEquality ==
  AtStart =>
    \A v \in Json, b \in Bounds : Comparable(v, b) =>
      LET is(op) == op_match(v, op, b) IN
      /\ \E op \in {"lt", "eq", "gt"} : is(op) /\ \A other \in {"lt", "eq", "gt"} \ {op} : ~is(other)
      /\ is("gte") = ~is("lt")
      /\ is("lte") = ~is("gt")
      /\ is("ne") = ~is("eq")

\* The pager counts the pages so that every row is on one and none is empty, links the page one is
\* on and those around it, and offers a next page exactly when rows are left.  Past the last page
\* it still links a page that is not there.
PagerFits ==
  AtStart =>
    \A w \in Walks, total \in 1..30, page \in 1..12, per_page \in 1..3 :
      LET p == [w.p EXCEPT !.page = page, !.per_page = per_page]
          pager == build_pager([total |-> total, prev |-> Nil, next |-> Nil], p)
          pages == pager.total_pages IN
      /\ (pages - 1) * per_page < total /\ total <= pages * per_page
      /\ pager.next # Nil <=> page * per_page < total
      /\ page <= pages => pager.page_links = Max2(1, page - 3)..Min2(pages, Max2(9, page + 5))

\* A reader who comes to the end of a list was shown every row that was listed when they began,
\* if meanwhile no listed row left its place and no next link dropped the sort: rows that come
\* in between move others towards the pages not read yet, never away from them.
ReaderSeesAll == wpc = "ended" /\ ~shrunk /\ ~resorted => base \subseteq got

\* A reader is shown no row twice, if meanwhile no row came in and no next link dropped the sort.
ReaderSeesOnce == ~grown /\ ~resorted => twice = {}

\* A reader comes to the end: the adapter hands out no next cursor or page forever.
ReaderEnds == wpc = "walking" ~> wpc \in {"ended", "refused"}

----------------------------------------------------------------------------
(* What a write promises. *)

Lands(q, answer) == pc[q] # answer /\ pc'[q] = answer

\* A value that its control can show and send back as it is.
Survives(f, v) ==
  LET kind == Field[f].kind IN
  CASE kind = "boolean" -> v \in {Bool(TRUE), Bool(FALSE)}
    [] kind = "multiselect" -> \/ v.t # "arr" \/ Members[v.v] \cap Field[f].options = {}
                               \/ \E S \in SUBSET Field[f].options : v = Arr(ListOf[S])
    [] kind \in Numeric -> v.t = "num" \/ Numeral[value_string(v)] = Nil
    [] kind = "json" -> v = Missing \/ ParseJson[Trim[Shown[v]]] = v
    [] kind \in Choice -> v.t = "str" /\ v.v \in Field[f].options \cup {0}
    [] kind = "date" -> v.t = "str" /\ v.v \in Dates \cup {0}
    [] OTHER -> v.t = "str" /\ Trim[v.v] = v.v

\* Saving a form changes a field that was shown and not touched only if another changed it since
\* the form was opened, and then to what it was (update_handler, which compares no version): so
\* far as the value survives its control.
SavesOnlyEdits ==
  [][\A q \in Requests : Lands(q, "updated") =>
       \A f \in form_fields(job[q].actor) \ {job[q].edited} :
         Survives(f, job[q].opened[f]) =>
           store'[job[q].id][f] \in {store[job[q].id][f], job[q].opened[f]}]_vars

\* Saving a form leaves what its sender was not shown as it was or blanks it (build_payload builds
\* every field, whoever may see it): nothing else, and never a key taken away.
UnseenOnlyBlanked ==
  [][\A q \in Requests : Lands(q, "updated") =>
       \A f \in Fields \ form_fields(job[q].actor) :
         store'[job[q].id][f] \in {store[job[q].id][f], Str(0), Bool(FALSE)}]_vars

\* A record that its policy closes to the sender is written only if it was overtaken: another
\* wrote it between the read that was judged and the write.
Consented ==
  [][\A q \in Requests :
       LET j == job[q]
           record == store[j.id] IN
       /\ Lands(q, "updated") => can_update(j.actor, record) \/ record # seen[q]
       /\ Lands(q, "deleted") => can_delete(j.actor, record) \/ record # seen[q]]_vars

\* A resource whose flag is off loses and changes no record; it may win some (create_handler).
BehindFlagOnlyGrows ==
  [][flagged => \A k \in Texts : store[k] # Nil => store'[k] = store[k]]_vars

----------------------------------------------------------------------------
(* The requests implement Records. *)

Fate(q) ==
  CASE pc[q] \in Open -> "open"
    [] pc[q] \in {"created", "updated", "deleted"} -> pc[q]
    [] OTHER -> "closed"

Promise == INSTANCE Records WITH Keys <- Texts, rows <- store, fate <- [q \in Requests |-> Fate(q)]

\* Each request writes at most once, in one step, and where Records allows it.
ImplementsRecords == Promise!Spec

----------------------------------------------------------------------------
(* What the documents say and the list does not do. *)

Ranged == {f \in Fields : Field[f].kind \in Numeric \cup Dated}

\* What a range on f goes by: the number, or the instant, that a parameter or a value is.
Limit(f, s) == IF s = Nil THEN Nil ELSE IF Field[f].kind \in Numeric THEN Numeral[s] ELSE Instant[s]
Amount(f, v) ==
  CASE Field[f].kind \in Numeric /\ v.t = "num" -> v.v
    [] Field[f].kind \in Dated /\ v.t = "str" -> Instant[v.v]
    [] OTHER -> Nil

\* query.rs: "Range filters use `{field}_min` / `{field}_max` params on numeric and date kinds", and
\* "unparseable param values are ignored".  The rows that a request with limits lists are those
\* that it would list without them and that lie within.
RangeFilters ==
  wpc = "walking" =>
    LET p == walk.p
        none == [f \in Fields |-> Nil]
        within(f, v) ==
          LET least == Limit(f, p.min[f])
              most == Limit(f, p.max[f]) IN
          /\ least # Nil => Amount(f, v) # Nil /\ Amount(f, v) >= least
          /\ most # Nil => Amount(f, v) # Nil /\ Amount(f, v) <= most IN
    listed(store, list_query(p)) =
      {i \in listed(store, list_query([p EXCEPT !.min = none, !.max = none])) :
         \A f \in Ranged : within(f, store[i][f])}
=============================================================================
