---------------------------- MODULE Reads_proofs -----------------------------
(***************************************************************************)
(* Proofs about what is read of a resource's records: the pages that a     *)
(* reader goes through, what every list answers whoever reads it, the      *)
(* counts on the home page's cards and the buckets of an aggregation.  The *)
(* invariant says where the reader stands: the rows still to be shown      *)
(* stand behind the place the next page starts at, and those that were     *)
(* shown before it.                                                        *)
(***************************************************************************)
EXTENDS Resources_proofs, Listing_proofs, Aggregates, Registry

Query == list_query(walk.p)
Length == per_page_of(walk.p)

\* Where the next page starts.
Position ==
  IF walk.mode = "cursor" THEN CursorStart(after, Nil, Length)
                          ELSE OffsetStart(page_of(walk.p), Length)

Place(i) == rank(listed(store, Query), store, Query.sort, i)

ToCome == wpc = "walking" /\ ~shrunk /\ ~resorted =>
            \A i \in base \ got : i \in listed(store, Query) /\ Place(i) >= Position
Behind == wpc = "walking" /\ ~grown /\ ~resorted =>
            \A i \in got \cap listed(store, Query) : Place(i) < Position
Fresh == wpc = "idle" => got = {} /\ after = Nil

ReaderInv == Fresh /\ ToCome /\ Behind /\ ReaderSeesAll /\ ReaderSeesOnce

----------------------------------------------------------------------------

\* The sort of a list request is a sequence of keys.
LEMMA Sorted ==
  ASSUME NEW p \in Params
  PROVE  list_query(p).sort \in Seq(SortKey)
  <1>1. request_sort(p.sort) = DefaultSort
        \/ (/\ request_sort(p.sort) = <<[field |-> p.sort.field, dir |-> p.sort.dir, nulls |-> "default"]>>
            /\ p.sort # Nil)
    BY DEF request_sort
  <1>2. p.sort # Nil => p.sort.field \in Fields /\ p.sort.dir \in {"asc", "desc"}
    BY DEF Params
  <1>3. p.sort # Nil => [field |-> p.sort.field, dir |-> p.sort.dir, nulls |-> "default"] \in SortKey
    BY <1>2 DEF SortKey
  <1>4. request_sort(p.sort) \in Seq(SortKey)
    <2>1. \A key \in SortKey : <<key>> \in Seq(SortKey)
      OBVIOUS
    <2> QED
      BY <1>1, <1>3, <2>1, ListingAssumption
  <1> QED
    BY <1>4 DEF list_query

\* The listed rows are rows, finitely many, in a sort.
LEMMA ListedRows ==
  ASSUME StoreOK, NEW p \in Params
  PROVE  LET query == list_query(p)
             rows == listed(store, query) IN
         /\ rows \subseteq Texts /\ IsFiniteSet(rows) /\ Cardinality(rows) \in Nat
         /\ \A i \in rows : store[i] \in Row
         /\ \A i \in rows : rank(rows, store, query.sort, i) \in 0..(Cardinality(rows) - 1)
  <1> DEFINE query == list_query(p)
             rows == listed(store, query)
  <1>1. /\ rows \subseteq {k \in Texts : store[k] # Nil} /\ IsFiniteSet(rows)
        /\ Cardinality(rows) \in Nat
    BY Listed
  <1>2. \A i \in rows : store[i] \in Row
    BY <1>1, Rows DEF StoreOK
  <1>3. query.sort \in Seq(SortKey)
    BY Sorted
  <1> HIDE DEF rows, query
  <1>4. \A i \in rows : rank(rows, store, query.sort, i) \in 0..(Cardinality(rows) - 1)
    BY <1>1, <1>2, <1>3, Places
  <1> QED
    BY <1>1, <1>2, <1>4 DEF rows, query

\* Where the reader stands is a place.
LEMMA Positions ==
  ASSUME ReaderOK, wpc # "idle"
  PROVE  /\ walk \in Walk /\ walk.p \in Params
         /\ Length \in Nat /\ Length > 0
         /\ page_of(walk.p) \in Nat /\ page_of(walk.p) >= 1
         /\ Position \in Nat
  <1>1. walk \in Walk /\ walk.p \in Params
    BY DEF ReaderOK, Walk
  <1>2. /\ Length \in Nat /\ Length > 0
        /\ page_of(walk.p) \in Nat /\ page_of(walk.p) >= 1
    BY <1>1, PageParams DEF Length
  <1>3. CursorStart(after, Nil, Length) \in Nat
    BY <1>2, ValuesAssumption DEF CursorStart, cursor_index, Cursor, ReaderOK
  <1>4. OffsetStart(page_of(walk.p), Length) \in Nat
    BY <1>2 DEF OffsetStart
  <1> QED
    BY <1>1, <1>2, <1>3, <1>4 DEF Position

----------------------------------------------------------------------------
(* The steps of the requests. *)

\* A request leaves the reader; it leaves the store, or puts another in its place.
LEMMA RequestSteps ==
  ASSUME NEW q \in Requests, Request(q)
  PROVE  /\ UNCHANGED readerVars
         /\ UNCHANGED <<store, historyVars>> \/ \E s : Put(s)
  <1> DEFINE Goal == /\ UNCHANGED readerVars
                     /\ UNCHANGED <<store, historyVars>> \/ \E s : Put(s)
  <1>1. ASSUME NEW step, NEW j, Begins(q, step, j)
        PROVE  Goal
    BY <1>1 DEF Begins
  <1>2. ASSUME NEW a \in Actors, OpenNew(q, a) \/ SendKept(q, a)
        PROVE  Goal
    BY <1>1, <1>2 DEF OpenNew, SendKept
  <1>3. ASSUME NEW a \in Actors, NEW k \in Paths, OpenEdit(q, a, k) \/ Detail(q, a, k) \/ SendDelete(q, a, k)
        PROVE  Goal
    BY <1>1, <1>3 DEF OpenEdit, Detail, SendDelete, Reads
  <1>4. ASSUME NEW row, NEW answer, Write(q, row, answer)
        PROVE  Goal
    BY <1>4 DEF Write
  <1>5. ASSUME Update(q) \/ Delete(q)
        PROVE  Goal
    BY <1>4, <1>5 DEF Update, Delete
  <1>6. ASSUME Send(q) \/ Read(q)
        PROVE  Goal
    BY <1>6 DEF Send, Read
  <1>7. ASSUME Create(q)
        PROVE  Goal
    BY <1>7 DEF Create
  <1> QED
    BY <1>2, <1>3, <1>5, <1>6, <1>7 DEF Request

\* A write that takes no listed row from its place moves none towards the pages that were read,
\* and one that puts none in moves none towards those to come.
LEMMA PutStep ==
  ASSUME IInv, StoreOK', ReaderInv, UNCHANGED readerVars, NEW s, Put(s)
  PROVE  ReaderInv'
  <1>1. CASE wpc # "walking"
    BY <1>1 DEF ReaderInv, Fresh, ToCome, Behind, ReaderSeesAll, ReaderSeesOnce, readerVars, Put
  <1>2. CASE wpc = "walking"
    <2> DEFINE before == listed(store, Query)
               since == listed(store', Query)
               stay == {i \in before \cap since : \A f \in SortFields(Query) : store[i][f] = store'[i][f]}
    <2>1. /\ Query' = Query /\ Position' = Position
          /\ UNCHANGED <<wpc, base, got, twice, resorted>>
      BY DEF readerVars, Query, Position, Length
    <2>2. ReaderOK /\ walk.p \in Params /\ StoreOK
      BY <1>2, Positions DEF IInv, TypeOK
    <2>3. Query.sort \in Seq(SortKey) /\ Position \in Nat
      BY <1>2, <2>2, Sorted, Positions DEF Query
    <2>4. IsFiniteSet(before) /\ IsFiniteSet(since)
      <3>1. IsFiniteSet(before)
        BY <2>2, Listed
      <3>2. since \subseteq {k \in Texts : store'[k] # Nil} /\ IsFiniteSet({k \in Texts : store'[k] # Nil})
        BY DEF listed, StoreOK
      <3> QED
        BY <3>1, <3>2, FS_Subset
    <2>5. /\ ~shrunk' => ~shrunk /\ before = stay
          /\ ~grown' => ~grown /\ since = stay
      BY <1>2 DEF Put, Query
    <2>6. \A i \in stay : /\ store[i]["id"] = store'[i]["id"]
                          /\ \A k \in DOMAIN Query.sort :
                               store[i][Query.sort[k].field] = store'[i][Query.sort[k].field]
      BY DEF SortFields
    <2>7. /\ \A i : Place(i) = rank(before, store, Query.sort, i)
          /\ \A i : Place(i)' = rank(since, store', Query.sort, i)
      BY <2>1 DEF Place
    <2>8. stay \subseteq before /\ stay \subseteq since
      OBVIOUS
    <2>9. listed(store, Query)' = since
      BY <2>1
    <2> HIDE DEF stay, before, since
    <2>10. ToCome'
      <3>1. SUFFICES ASSUME ~shrunk', ~resorted, NEW i \in base \ got
                     PROVE  i \in since /\ Place(i)' >= Position
        BY <1>2, <2>1, <2>9 DEF ToCome
      <3>2. before = stay /\ i \in before /\ Place(i) >= Position
        BY <1>2, <2>5, <3>1 DEF ReaderInv, ToCome, before
      <3>3. /\ rank(before, store, Query.sort, i) \in Nat /\ rank(since, store', Query.sort, i) \in Nat
            /\ rank(before, store, Query.sort, i) <= rank(since, store', Query.sort, i)
        BY <2>3, <2>4, <2>6, <2>8, <3>2, PlacesGrow
      <3> QED
        BY <2>3, <2>7, <2>8, <3>2, <3>3
    <2>11. Behind'
      <3>1. SUFFICES ASSUME ~grown', ~resorted, NEW i \in got \cap since
                     PROVE  Place(i)' < Position
        BY <1>2, <2>1, <2>9 DEF Behind
      <3>2. since = stay /\ i \in before /\ Place(i) < Position
        BY <1>2, <2>5, <2>8, <3>1 DEF ReaderInv, Behind, before
      <3>3. /\ rank(before, store, Query.sort, i) \in Nat /\ rank(since, store', Query.sort, i) \in Nat
            /\ rank(since, store', Query.sort, i) <= rank(before, store, Query.sort, i)
        BY <2>3, <2>4, <2>6, <2>8, <3>1, <3>2, PlacesGrow
      <3> QED
        BY <2>3, <2>7, <3>2, <3>3
    <2> QED
      BY <1>2, <2>1, <2>5, <2>10, <2>11 DEF ReaderInv, Fresh, ReaderSeesAll, ReaderSeesOnce
  <1> QED
    BY <1>1, <1>2

----------------------------------------------------------------------------
(* The steps of the reader. *)

\* The page that the reader asks for starts where the reader stands.
LEMMA PageIsSlice ==
  LET page == Page(walk, after)
      s == Slice(store, Query, Position, Length) IN
  /\ page.ids = s.ids /\ page.size = s.size /\ page.next = s.next
  /\ walk.mode # "cursor" => page.total = s.len
  BY DEF Page, list_cursor, list_offset, Position, Length, Query

\* After the last page no row is left.
LEMMA LastPage ==
  ASSUME IInv, wpc = "walking", NextPage(walk, Page(walk, after)) = Nil
  PROVE  Cardinality(listed(store, Query)) <= Position + Length
  <1> DEFINE page == Page(walk, after)
             s == Slice(store, Query, Position, Length)
             len == Cardinality(listed(store, Query))
  <1>1. /\ walk \in Walk /\ Length \in Nat /\ Length > 0 /\ Position \in Nat
        /\ page_of(walk.p) \in Nat /\ page_of(walk.p) >= 1
    BY Positions DEF IInv, TypeOK
  <1>2. len \in Nat
    BY Listed DEF IInv, TypeOK
  <1>3. /\ s.len = len
        /\ s.next = Nil => len <= Position + Length
        /\ s.size = 0 => len <= Position
    <2>1. ASSUME NEW query, NEW start \in Nat, NEW per_page \in Nat, per_page > 0,
                 Cardinality(listed(store, query)) \in Nat
          PROVE  LET t == Slice(store, query, start, per_page)
                     n == Cardinality(listed(store, query)) IN
                 /\ t.len = n
                 /\ t.next = Nil => n <= start + per_page
                 /\ t.size = 0 => n <= start
      BY <2>1, Slices, SMTT(30)
    <2>2. Length > 0
      BY <1>1
    <2>3. Cardinality(listed(store, Query)) \in Nat
      BY <1>2
    <2> QED
      BY <1>1, <2>1, <2>2, <2>3, Zenon
  <1> HIDE DEF s, len
  <1>4. CASE walk.mode # "pages"
    <2>1. page.size = 0 \/ page.next = Nil
      <3>1. walk.p \in Params /\ [walk.p EXCEPT !.page = page_of(walk.p) + 1] \in Params
        BY <1>1 DEF Walk, Params
      <3> QED
        BY <1>4, <3>1, ResourcesAssumption DEF NextPage
    <2>2. s.size = 0 \/ s.next = Nil
      BY <2>1, PageIsSlice DEF s
    <2> QED
      BY <1>1, <1>2, <1>3, <2>2 DEF len
  <1>5. CASE walk.mode = "pages"
    <2>1. page.total = len
      BY <1>3, <1>5, PageIsSlice DEF s
    <2>2. build_pager(page, walk.p).next = Nil
      BY <1>5 DEF NextPage
    <2>3. Link(walk.p, page_of(walk.p) + 1) # Nil
      <3>1. Link(walk.p, page_of(walk.p) + 1) \in Params
        <4>1. walk.p \in Params /\ page_of(walk.p) + 1 \in Nat
          BY <1>1 DEF Walk
        <4> QED
          BY <4>1 DEF Link, Params
      <3> QED
        BY <3>1, ResourcesAssumption
    <2>4. len = 0 \/ page_of(walk.p) >= div_ceil(len, Length)
      BY <1>1, <1>2, <2>1, <2>2, <2>3, DivCeil, ValuesAssumption DEF build_pager, Length
    <2>5. Position = (page_of(walk.p) - 1) * Length
      BY <1>5 DEF Position, OffsetStart
    <2>6. len <= div_ceil(len, Length) * Length /\ div_ceil(len, Length) \in Nat
      BY <1>1, <1>2, DivCeil
    <2>7. Position + Length = page_of(walk.p) * Length
      BY <1>1, <2>5
    <2>8. page_of(walk.p) >= div_ceil(len, Length) =>
            page_of(walk.p) * Length >= div_ceil(len, Length) * Length
      BY <1>1, <2>6
    <2>9. page_of(walk.p) * Length \in Nat /\ div_ceil(len, Length) * Length \in Nat
      BY <1>1, <2>6
    <2> QED
      BY <1>1, <1>2, <2>4, <2>6, <2>7, <2>8, <2>9 DEF len
  <1> QED
    BY <1>4, <1>5 DEF len

\* The next page is asked for with the same query, unless its link dropped the sort, and starts
\* where this one stops.
LEMMA NextStart ==
  ASSUME IInv, wpc = "walking", WalkPage, wpc' = "walking"
  PROVE  /\ Position' = Position + Length /\ Length' = Length
         /\ ~resorted' => ~resorted /\ Query' = Query
  <1> DEFINE page == Page(walk, after)
             s == Slice(store, Query, Position, Length)
             next == NextPage(walk, page)
  <1>1. /\ walk \in Walk /\ walk.p \in Params
        /\ Length \in Nat /\ Length > 0 /\ Position \in Nat
        /\ page_of(walk.p) \in Nat /\ page_of(walk.p) >= 1
    BY Positions DEF IInv, TypeOK
  <1>2. /\ next # Nil
        /\ walk' = [walk EXCEPT !.p = next]
        /\ after' = IF walk.mode = "cursor" THEN page.next ELSE Nil
        /\ resorted' = (resorted \/ request_sort(next.sort) # request_sort(walk.p.sort))
    BY DEF WalkPage
  <1>3. walk'.p = next /\ walk'.mode = walk.mode
    BY <1>1, <1>2 DEF Walk
  <1>4. /\ next \in Params
        /\ next.per_page = walk.p.per_page /\ next.q = walk.p.q /\ next.params = walk.p.params
        /\ next.min = walk.p.min /\ next.max = walk.p.max
        /\ walk.mode # "cursor" => next.page = page_of(walk.p) + 1
        /\ walk.mode = "cursor" => page.next # Nil
    <2>1. build_pager(page, walk.p).next \in {Nil, Link(walk.p, page_of(walk.p) + 1)}
      BY DEF build_pager
    <2>2. next \in Params
      BY <1>1, <1>2, NextParams
    <2>3. /\ walk.mode = "pages" => next = Link(walk.p, page_of(walk.p) + 1)
          /\ walk.mode = "cursor" => next = walk.p /\ page.next # Nil
          /\ walk.mode = "offset" => next = [walk.p EXCEPT !.page = page_of(walk.p) + 1]
      BY <1>2, <2>1 DEF NextPage
    <2>4. walk.mode \in {"pages", "cursor", "offset"}
      BY <1>1 DEF Walk
    <2> HIDE DEF next, page
    <2>5. /\ next.per_page = walk.p.per_page /\ next.q = walk.p.q /\ next.params = walk.p.params
          /\ next.min = walk.p.min /\ next.max = walk.p.max
      BY <1>1, <2>3, <2>4 DEF Link, Params
    <2>6. walk.mode # "cursor" => next.page = page_of(walk.p) + 1
      BY <1>1, <2>3, <2>4 DEF Link, Params
    <2> QED
      BY <2>2, <2>3, <2>5, <2>6
  <1> HIDE DEF next
  <1>5. Length' = Length
    BY <1>3, <1>4 DEF Length, per_page_of
  <1>6. Position' = Position + Length
    <2>1. CASE walk.mode = "cursor"
      <3>1. after' = index_cursor(Position + Length) /\ after' # Nil
        <4>1. Cardinality(listed(store, Query)) \in Nat
          BY Listed DEF IInv, TypeOK
        <4>2. s.next # Nil => s.next = index_cursor(Position + Length)
          BY <1>1, <4>1, Slices
        <4>3. page.next = s.next
          BY PageIsSlice
        <4> QED
          BY <1>2, <1>4, <2>1, <4>2, <4>3
      <3>2. cursor_index(after') = Position + Length /\ Position + Length # Nil
        BY <1>1, <3>1, ValuesAssumption DEF cursor_index, index_cursor
      <3>3. CursorStart(after', Nil, Length') = Position + Length
        BY <3>1, <3>2 DEF CursorStart
      <3> QED
        BY <1>3, <2>1, <3>3 DEF Position
    <2>2. CASE walk.mode # "cursor"
      <3>1. page_of(walk'.p) = page_of(walk.p) + 1
        BY <1>1, <1>3, <1>4, <2>2, ValuesAssumption DEF page_of
      <3>2. Position = (page_of(walk.p) - 1) * Length /\ Position' = page_of(walk.p) * Length
        BY <1>1, <1>3, <1>5, <2>2, <3>1 DEF Position, OffsetStart
      <3> QED
        BY <1>1, <3>2
    <2> QED
      BY <2>1, <2>2
  <1>7. ASSUME ~resorted'
        PROVE  ~resorted /\ Query' = Query
    <2>1. ~resorted /\ request_sort(next.sort) = request_sort(walk.p.sort)
      BY <1>2, <1>7
    <2>2. build_filter(next) = build_filter(walk.p)
      BY <1>4 DEF build_filter
    <2> QED
      BY <1>3, <1>4, <2>1, <2>2 DEF Query, list_query
  <1> QED
    BY <1>5, <1>6, <1>7

\* A page shows the rows from where the reader stands on, as many as it is long.
LEMMA PageStep ==
  ASSUME IInv, ReaderInv, WalkPage
  PROVE  ReaderInv'
  <1> DEFINE page == Page(walk, after)
             rows == listed(store, Query)
  <1>1. /\ wpc = "walking" /\ wpc' \in {"walking", "ended"}
        /\ got' = got \cup page.ids /\ twice' = twice \cup (got \cap page.ids)
        /\ UNCHANGED <<store, base, shrunk, grown>>
        /\ wpc' = "ended" => NextPage(walk, page) = Nil /\ UNCHANGED resorted
    BY DEF WalkPage, historyVars
  <1>2. Length \in Nat /\ Length > 0 /\ Position \in Nat /\ walk.p \in Params
    BY <1>1, Positions DEF IInv, TypeOK
  <1>3. /\ Cardinality(rows) \in Nat
        /\ \A i \in rows : Place(i) \in 0..(Cardinality(rows) - 1)
    BY <1>2, ListedRows DEF IInv, TypeOK, Query, Place
  <1>4. /\ page.ids \subseteq rows
        /\ \A i \in rows : i \in page.ids <=> Place(i) >= Position /\ Place(i) < Position + Length
    BY <1>2, <1>3, Slices, PageIsSlice DEF Place
  <1>5. ~resorted' => ~resorted
    BY <1>1, NextStart DEF IInv
  <1>6. ASSUME wpc' = "walking", ~resorted'
        PROVE  /\ Position' = Position + Length /\ listed(store, Query)' = rows
               /\ \A i : Place(i)' = Place(i)
    BY <1>1, <1>6, NextStart DEF Place
  <1>7. wpc' = "ended" => Cardinality(rows) <= Position + Length
    BY <1>1, LastPage
  <1> HIDE DEF page, rows
  <1>8. ToCome'
    <2>1. SUFFICES ASSUME wpc' = "walking", ~shrunk, ~resorted', NEW i \in base \ got'
                   PROVE  i \in listed(store, Query)' /\ Place(i)' >= Position'
      BY <1>1 DEF ToCome
    <2>2. i \in rows /\ Place(i) >= Position /\ i \notin page.ids
      BY <1>1, <1>5, <2>1 DEF ReaderInv, ToCome, rows
    <2> QED
      BY <1>2, <1>3, <1>4, <1>6, <2>1, <2>2
  <1>9. Behind'
    <2>1. SUFFICES ASSUME wpc' = "walking", ~grown, ~resorted', NEW i \in got' \cap listed(store, Query)'
                   PROVE  Place(i)' < Position'
      BY <1>1 DEF Behind
    <2>2. i \in rows /\ (i \in page.ids \/ Place(i) < Position)
      BY <1>1, <1>5, <1>6, <2>1 DEF ReaderInv, Behind, rows
    <2> QED
      BY <1>2, <1>3, <1>4, <1>6, <2>1, <2>2
  <1>10. ReaderSeesAll'
    <2>1. SUFFICES ASSUME wpc' = "ended", ~shrunk, ~resorted', NEW i \in base, i \notin got'
                   PROVE  FALSE
      BY <1>1 DEF ReaderSeesAll
    <2>2. i \in rows /\ Place(i) >= Position /\ i \notin page.ids
      BY <1>1, <1>5, <2>1 DEF ReaderInv, ToCome, rows
    <2> QED
      BY <1>2, <1>3, <1>4, <1>7, <2>1, <2>2
  <1>11. ReaderSeesOnce'
    <2>1. SUFFICES ASSUME ~grown, ~resorted'
                   PROVE  twice \cup (got \cap page.ids) = {}
      BY <1>1 DEF ReaderSeesOnce
    <2>2. twice = {}
      BY <1>5, <2>1 DEF ReaderInv, ReaderSeesOnce
    <2>3. ASSUME NEW i \in got \cap page.ids
          PROVE  FALSE
      <3>1. i \in rows /\ Place(i) < Position
        BY <1>1, <1>4, <1>5, <2>1 DEF ReaderInv, Behind, rows
      <3> QED
        BY <1>2, <1>3, <1>4, <2>3, <3>1
    <2> QED
      BY <2>2, <2>3
  <1>12. Fresh'
    BY <1>1 DEF Fresh
  <1> QED
    BY <1>8, <1>9, <1>10, <1>11, <1>12 DEF ReaderInv

\* A reader starts before the first row.
LEMMA StartStep ==
  ASSUME IInv, ReaderInv, WalkStart
  PROVE  ReaderInv'
  <1>1. PICK w \in Walks : walk' = w /\ base' = listed(store, list_query(w.p))
    BY DEF WalkStart
  <1>2. /\ wpc' = "walking" /\ UNCHANGED <<store, after, got, twice, resorted, shrunk, grown>>
        /\ got = {} /\ after = Nil
    BY DEF WalkStart, ReaderInv, Fresh, historyVars
  <1>3. w \in Walk /\ w.p \in Params /\ w.p.page = Nil
    BY ResourcesAssumption DEF Walk
  <1>4. Position' = 0
    <2>1. per_page_of(w.p) \in Nat /\ page_of(w.p) = 1
      BY <1>3, PageParams DEF page_of
    <2>2. OffsetStart(page_of(w.p), per_page_of(w.p)) = 0
      BY <2>1 DEF OffsetStart
    <2>3. CursorStart(Nil, Nil, per_page_of(w.p)) = 0
      BY DEF CursorStart
    <2> QED
      BY <1>1, <1>2, <2>2, <2>3 DEF Position, Length
  <1>5. \A i \in base' : i \in listed(store, Query)' /\ Place(i)' >= 0
    <2>1. StoreOK
      BY DEF IInv, TypeOK
    <2>2. \A i \in listed(store, list_query(w.p)) :
            rank(listed(store, list_query(w.p)), store, list_query(w.p).sort, i) >= 0
      BY <1>3, <2>1, ListedRows
    <2> QED
      BY <1>1, <1>2, <2>2 DEF Query, Place
  <1>6. ToCome'
    BY <1>4, <1>5 DEF ToCome
  <1>7. Behind'
    BY <1>2 DEF Behind
  <1> QED
    BY <1>2, <1>6, <1>7 DEF ReaderInv, Fresh, ReaderSeesAll, ReaderSeesOnce

\* Nothing that the reader depends on.
LEMMA OtherStep ==
  ASSUME ReaderInv,
         \/ UNCHANGED <<readerVars, store, historyVars>>
         \/ WalkRefused
  PROVE  ReaderInv'
  <1>1. CASE UNCHANGED <<readerVars, store, historyVars>>
    BY <1>1 DEF readerVars, historyVars, ReaderInv, Fresh, ToCome, Behind, ReaderSeesAll, ReaderSeesOnce,
                Position, Place, Query, Length
  <1>2. CASE WalkRefused
    BY <1>2 DEF WalkRefused, historyVars, ReaderInv, Fresh, ToCome, Behind, ReaderSeesAll, ReaderSeesOnce
  <1> QED
    BY <1>1, <1>2

\* The reader's invariant, relative to that of the requests.
THEOREM ReaderInvariance == Spec => []ReaderInv
  <1>1. Init => ReaderInv
    BY DEF Init, ReaderInv, Fresh, ToCome, Behind, ReaderSeesAll, ReaderSeesOnce
  <1>2. ASSUME IInv, IInv', ReaderInv, [Next]_vars
        PROVE  ReaderInv'
    <2>1. ASSUME NEW q \in Requests, Request(q)
          PROVE  ReaderInv'
      <3>1. CASE UNCHANGED <<store, historyVars>>
        BY <1>2, <2>1, <3>1, RequestSteps, OtherStep
      <3>2. CASE \E s : Put(s)
        BY <1>2, <2>1, <3>2, RequestSteps, PutStep DEF IInv, TypeOK
      <3> QED
        BY <2>1, <3>1, <3>2, RequestSteps
    <2>2. CASE UNCHANGED vars
      BY <1>2, <2>2, OtherStep DEF vars
    <2> QED
      BY <1>2, <2>1, <2>2, StartStep, PageStep, OtherStep DEF Next
  <1> QED
    BY <1>1, <1>2, Invariance, PTL DEF Spec

\* A reader who comes to the end was shown every row that was listed when they began, if no
\* listed row left its place and no next link dropped the sort.
THEOREM SeesAll == Spec => []ReaderSeesAll
  BY ReaderInvariance, PTL DEF ReaderInv

\* A reader is shown no row twice, if no row came in and no next link dropped the sort.
THEOREM SeesOnce == Spec => []ReaderSeesOnce
  BY ReaderInvariance, PTL DEF ReaderInv

----------------------------------------------------------------------------
(* What every list answers. *)

\* Of one order with a bound: below it, equal to it or above it, as the two pieces of code that
\* compare agree.
LEMMA AsCompared ==
  ASSUME NEW v \in Json, NEW b \in Bounds, Comparable(v, b),
         NEW x \in Int, NEW y \in Int, v.v = x,
         b.t \in {"num", "str"} => y = b.v /\ v.t = b.t,
         b.t = "date" => y = Rfc3339[b.v] /\ v.t = "str",
         b.t \in {"num", "str", "date"},
         eq_match(v, b) <=> x = y
  PROVE  LET is(op) == op_match(v, op, b) IN
         /\ \E op \in {"lt", "eq", "gt"} : is(op) /\ \A other \in {"lt", "eq", "gt"} \ {op} : ~is(other)
         /\ is("gte") = ~is("lt")
         /\ is("lte") = ~is("gt")
         /\ is("ne") = ~is("eq")
  <1> DEFINE is(op) == op_match(v, op, b)
             bound == IF b.t = "date" THEN Str(Rfc3339[b.v]) ELSE b
  <1>1. cmp_values(v, bound) = Compare(x, y)
    BY DEF cmp_values, Str, Value
  <1>2. /\ order_match(v, "lt", b) <=> Compare(x, y) = -1
        /\ order_match(v, "lte", b) <=> Compare(x, y) \in {-1, 0}
        /\ order_match(v, "gt", b) <=> Compare(x, y) = 1
        /\ order_match(v, "gte", b) <=> Compare(x, y) \in {0, 1}
    BY <1>1 DEF order_match
  <1>3. /\ is("lt") <=> x < y
        /\ is("lte") <=> x <= y
        /\ is("gt") <=> x > y
        /\ is("gte") <=> x >= y
    BY <1>2 DEF op_match, Compare
  <1>4. /\ is("eq") <=> x = y
        /\ is("ne") <=> x # y
    BY DEF op_match
  <1>5. is("gte") \in BOOLEAN /\ is("lte") \in BOOLEAN /\ is("ne") \in BOOLEAN
    BY DEF op_match, order_match
  <1> HIDE DEF is
  <1>6. /\ is("gte") = ~is("lt")
        /\ is("lte") = ~is("gt")
        /\ is("ne") = ~is("eq")
    BY <1>3, <1>4, <1>5
  <1>7. \E op \in {"lt", "eq", "gt"} : is(op) /\ \A other \in {"lt", "eq", "gt"} \ {op} : ~is(other)
    <2>1. CASE x < y
      BY <1>3, <1>4, <2>1
    <2>2. CASE x = y
      BY <1>3, <1>4, <2>2
    <2>3. CASE x > y
      BY <1>3, <1>4, <2>3
    <2> QED
      BY <2>1, <2>2, <2>3
  <1> QED
    BY <1>6, <1>7 DEF is

\* Below, equal and above exclude one another and leave no gap.
THEOREM OrderAgrees == Spec => []OrderAgreesWithEquality
  <1>1. ASSUME NEW v \in Json, NEW b \in Bounds, Comparable(v, b)
        PROVE  \E x, y \in Int :
                 /\ v.v = x
                 /\ b.t \in {"num", "str"} => y = b.v /\ v.t = b.t
                 /\ b.t = "date" => y = Rfc3339[b.v] /\ v.t = "str"
                 /\ b.t \in {"num", "str", "date"}
                 /\ eq_match(v, b) <=> x = y
    <2>1. v \in Cell /\ v.v \in Int
      BY Contents DEF Cell
    <2>2. CASE \E n \in Numbers : b = Num(n)
      <3>1. PICK n \in Numbers : b = Num(n)
        BY <2>2
      <3>2. b.t = "num" /\ b.v = n /\ v.t = "num" /\ v = Num(v.v) /\ n \in Int
        BY <1>1, <2>1, <3>1, CellShapes, ValuesAssumption DEF Comparable, Num, Value
      <3>3. eq_match(v, b) <=> v.v = n
        BY <3>1, <3>2 DEF eq_match, Num, Value
      <3> QED
        BY <2>1, <3>2, <3>3
    <2>3. CASE \E s \in Texts : b = Str(s)
      <3>1. PICK s \in Texts : b = Str(s)
        BY <2>3
      <3>2. b.t = "str" /\ b.v = s /\ v.t = "str" /\ v = Str(v.v) /\ s \in Int
        <4>1. b.t = "str" /\ b.v = s
          BY <3>1 DEF Str, Value
        <4>2. v.t = "str"
          BY <1>1, <4>1 DEF Comparable
        <4>3. s \in Int
          BY ValuesAssumption
        <4>4. v = Str(v.v)
          BY <2>1, <4>2, CellShapes
        <4> QED
          BY <4>1, <4>2, <4>3, <4>4
      <3>3. eq_match(v, b) <=> v.v = s
        BY <3>1, <3>2 DEF eq_match, Str, Value
      <3> QED
        BY <2>1, <3>2, <3>3
    <2>4. CASE \E i \in DOMAIN Rfc3339 : b = Value("date", i)
      <3>1. PICK i \in DOMAIN Rfc3339 : b = Value("date", i)
        BY <2>4
      <3>2. b.t = "date" /\ b.v = i
        BY <3>1 DEF Value
      <3>3. PICK j \in DOMAIN Rfc3339 : v = Str(Rfc3339[j])
        BY <1>1, <3>2 DEF Comparable
      <3>4. v.t = "str" /\ v.v = Rfc3339[j]
        BY <3>3 DEF Str, Value
      <3>5. /\ Rfc3339[i] \in Int
            /\ Instant[Rfc3339[i]] = i /\ Instant[Rfc3339[j]] = j
        <4>1. \A k \in DOMAIN Rfc3339 : Rfc3339[k] \in Texts /\ Instant[Rfc3339[k]] = k
          BY ValuesAssumption, Zenon
        <4>2. Texts \subseteq Int
          BY ValuesAssumption
        <4> QED
          BY <4>1, <4>2
      <3>6. eq_match(v, b) <=> Instant[v.v] = i
        BY <3>2, <3>4 DEF eq_match
      <3>7. eq_match(v, b) <=> v.v = Rfc3339[i]
        BY <3>4, <3>5, <3>6
      <3> QED
        BY <2>1, <3>2, <3>4, <3>5, <3>7
    <2> QED
      BY <2>2, <2>3, <2>4 DEF Bounds
  <1>2. OrderAgreesWithEquality
    BY <1>1, AsCompared DEF OrderAgreesWithEquality
  <1> QED
    BY <1>2, PTL

\* However many rows, whatever page and page length: every row is on one of the counted pages and
\* none is empty, a next page is offered exactly when rows are left, and the links surround the
\* page one is on.
THEOREM PagerFitsAll ==
  ASSUME NEW p \in Params, NEW total \in Nat, total > 0, NEW prev, NEW next
  PROVE  LET pager == build_pager([total |-> total, prev |-> prev, next |-> next], p)
             page == page_of(p)
             per_page == per_page_of(p)
             pages == pager.total_pages IN
         /\ (pages - 1) * per_page < total /\ total <= pages * per_page
         /\ pager.next # Nil <=> page * per_page < total
         /\ page <= pages => pager.page_links = Max2(1, page - 3)..Min2(pages, Max2(9, page + 5))
  <1> DEFINE pager == build_pager([total |-> total, prev |-> prev, next |-> next], p)
             page == page_of(p)
             per_page == per_page_of(p)
             pages == div_ceil(total, per_page)
             start == Minus(page, 4)
             end == Max2(Min2(start + 9, pages), start + 1)
  <1>1. page \in Nat /\ page >= 1 /\ per_page \in Nat /\ per_page > 0
    BY PageParams
  <1>2. pages \in Nat /\ total <= pages * per_page /\ (pages - 1) * per_page < total
    BY <1>1, DivCeil
  <1>3. Link(p, page + 1) # Nil
    <2>1. Link(p, page + 1) \in Params
      <3>1. page + 1 \in Nat
        BY <1>1
      <3> HIDE DEF page
      <3> QED
        BY <3>1 DEF Link, Params
    <2> QED
      BY <2>1, ResourcesAssumption
  <1>4. /\ pager.total_pages = pages
        /\ pager.page_links = (start + 1)..end
        /\ pager.next = IF page < pages THEN Link(p, page + 1) ELSE Nil
    BY ValuesAssumption DEF build_pager
  <1> HIDE DEF pager, page, per_page, pages
  <1>5. page < pages <=> page * per_page < total
    <2>1. page * per_page \in Nat /\ pages * per_page \in Nat /\ (pages - 1) * per_page \in Int
      BY <1>1, <1>2
    <2>2. CASE page < pages
      <3>1. page * per_page <= (pages - 1) * per_page
        BY <1>1, <1>2, <2>2
      <3> QED
        BY <1>2, <2>1, <2>2, <3>1
    <2>3. CASE page >= pages
      <3>1. page * per_page >= pages * per_page
        BY <1>1, <1>2, <2>3
      <3> QED
        BY <1>1, <1>2, <2>1, <2>3, <3>1
    <2> QED
      BY <1>1, <1>2, <2>2, <2>3
  <1>6. page <= pages => (start + 1)..end = Max2(1, page - 3)..Min2(pages, Max2(9, page + 5))
    BY <1>1, <1>2 DEF Minus, Max2, Min2
  <1> QED
    BY <1>2, <1>3, <1>4, <1>5, <1>6 DEF pager, page, per_page, pages

\* The case that the runs check.
THEOREM PagerFitsAlways == Spec => []PagerFits
  <1>1. ASSUME NEW w \in Walks, NEW total \in 1..30, NEW page \in 1..12, NEW per_page \in 1..3
        PROVE  LET p == [w.p EXCEPT !.page = page, !.per_page = per_page]
                   pager == build_pager([total |-> total, prev |-> Nil, next |-> Nil], p)
                   pages == pager.total_pages IN
               /\ (pages - 1) * per_page < total /\ total <= pages * per_page
               /\ pager.next # Nil <=> page * per_page < total
               /\ page <= pages => pager.page_links = Max2(1, page - 3)..Min2(pages, Max2(9, page + 5))
    <2> DEFINE p == [w.p EXCEPT !.page = page, !.per_page = per_page]
    <2>1. w.p \in Params
      BY ResourcesAssumption DEF Walk
    <2>2. p \in Params /\ p.page = page /\ p.per_page = per_page
      <3>1. page \in Nat /\ per_page \in Nat
        OBVIOUS
      <3> QED
        BY <2>1, <3>1 DEF Params
    <2>3. page_of(p) = page /\ per_page_of(p) = per_page
      BY <2>2, ValuesAssumption DEF page_of, per_page_of
    <2>4. total \in Nat /\ total > 0
      OBVIOUS
    <2> HIDE DEF p
    <2>5. LET pager == build_pager([total |-> total, prev |-> Nil, next |-> Nil], p)
              pages == pager.total_pages IN
          /\ (pages - 1) * per_page < total /\ total <= pages * per_page
          /\ pager.next # Nil <=> page * per_page < total
          /\ page <= pages => pager.page_links = Max2(1, page - 3)..Min2(pages, Max2(9, page + 5))
      BY <2>2, <2>3, <2>4, PagerFitsAll
    <2> QED
      BY <2>5 DEF p
  <1>2. PagerFits
    BY <1>1 DEF PagerFits
  <1> QED
    BY <1>2, PTL

\* Whatever rows are stored and whatever types their values mix, a sort places them in one line,
\* and a page has as many rows as it is long.
THEOREM AlwaysInLine == Spec => []RowsInLine
  <1>1. ASSUME IInv, wpc = "walking"
        PROVE  LET rows == listed(store, Query)
                   page == Page(walk, after) IN
               /\ {rank(rows, store, Query.sort, i) : i \in rows} = 0..(Cardinality(rows) - 1)
               /\ Cardinality(page.ids) = page.size
    <2> DEFINE rows == listed(store, Query)
    <2>1. /\ walk.p \in Params /\ Length \in Nat /\ Length > 0 /\ Position \in Nat
      BY <1>1, Positions DEF IInv, TypeOK
    <2>2. Query.sort \in Seq(SortKey)
      BY <2>1, Sorted DEF Query
    <2>3. rows \subseteq {k \in Texts : store[k] # Nil} /\ IsFiniteSet(rows)
      BY <1>1, Listed DEF IInv, TypeOK
    <2>4. \A i \in rows : store[i] \in Row /\ store[i]["id"] = Str(i)
      BY <1>1, <2>3, Rows DEF IInv, TypeOK, StoreOK
    <2>5. rows \in SUBSET Texts
      BY <2>3
    <2>6. {rank(rows, store, Query.sort, i) : i \in rows} = 0..(Cardinality(rows) - 1)
      BY <2>2, <2>3, <2>4, <2>5, InLine
    <2>7. Cardinality(Slice(store, Query, Position, Length).ids) = Slice(store, Query, Position, Length).size
      BY <2>1, <2>2, <2>3, <2>4, <2>5, SliceSize
    <2> QED
      BY <2>6, <2>7, PageIsSlice
  <1>2. IInv => RowsInLine
    BY <1>1 DEF RowsInLine, Query
  <1> QED
    BY <1>2, Invariance, PTL

----------------------------------------------------------------------------
(* Sums.  The induction over finite sets has the property as a set.        *)

\* What holds of a set when it holds of the set without any one of its elements holds of every
\* finite set.
LEMMA SetInduction ==
  ASSUME NEW S, IsFiniteSet(S), NEW good,
         \A T \in SUBSET S : IsFiniteSet(T) /\ (\A x \in T : T \ {x} \in good) => T \in good
  PROVE  \A T \in SUBSET S : T \in good
  <1> DEFINE bad == {T \in SUBSET S : T \notin good}
             sizes == {Cardinality(T) : T \in bad}
  <1>1. ASSUME NEW T \in SUBSET S
        PROVE  IsFiniteSet(T) /\ Cardinality(T) \in Nat
    BY FS_Subset, FS_CardinalityType
  <1>2. ASSUME bad # {}
        PROVE  FALSE
    <2>1. sizes \in SUBSET Nat /\ sizes # {}
      BY <1>1, <1>2
    <2>2. PICK n \in sizes : \A m \in sizes : n <= m
      <3> HIDE DEF sizes
      <3> QED
        BY <2>1, FirstKey
    <2>3. PICK T \in SUBSET S : T \notin good /\ Cardinality(T) = n
      OBVIOUS
    <2>4. ASSUME NEW x \in T
          PROVE  T \ {x} \in good
      <3>1. Cardinality(T \ {x}) = n - 1 /\ n \in Nat
        BY <1>1, <2>3, FS_RemoveElement
      <3>2. Cardinality(T \ {x}) \notin sizes
        <4> HIDE DEF sizes
        <4> QED
          BY <2>2, <3>1
      <3>3. T \ {x} \in SUBSET S
        OBVIOUS
      <3> QED
        BY <3>2, <3>3
    <2> QED
      BY <1>1, <2>3, <2>4
  <1> QED
    BY <1>2

Pick(T) == CHOOSE x \in T : TRUE

\* h is the sum of g over every subset of S.
Adds(g, S, h) ==
  h = [T \in SUBSET S |-> IF T = {} THEN 0 ELSE g[Pick(T)] + h[T \ {Pick(T)}]]

\* That is the function that the fold chooses.
LEMMA SumIs ==
  ASSUME NEW g, NEW S
  PROVE  SumFunctionOnSet(g, S) = (CHOOSE h : Adds(g, S, h))[S]
  BY DEF SumFunctionOnSet, FoldFunctionOnSet, MapThenFoldSet, Adds, Pick

\* Two sums of what agrees agree.
LEMMA SumsAgree ==
  ASSUME NEW f, NEW g, NEW A, NEW B, NEW h, NEW i, Adds(f, A, h), Adds(g, B, i),
         NEW C, C \subseteq A, C \subseteq B, IsFiniteSet(C), \A x \in C : f[x] = g[x]
  PROVE  h[C] = i[C]
  <1> DEFINE good == {T \in SUBSET C : h[T] = i[T]}
  <1>1. ASSUME NEW T \in SUBSET C, \A x \in T : T \ {x} \in good
        PROVE  T \in good
    <2>1. T \in SUBSET A /\ T \in SUBSET B
      OBVIOUS
    <2>2. h[T] = IF T = {} THEN 0 ELSE f[Pick(T)] + h[T \ {Pick(T)}]
      BY <2>1 DEF Adds
    <2>3. i[T] = IF T = {} THEN 0 ELSE g[Pick(T)] + i[T \ {Pick(T)}]
      BY <2>1 DEF Adds
    <2>4. T # {} => Pick(T) \in T
      BY DEF Pick
    <2>5. T # {} => h[T \ {Pick(T)}] = i[T \ {Pick(T)}] /\ f[Pick(T)] = g[Pick(T)]
      BY <1>1, <2>4
    <2> QED
      BY <2>2, <2>3, <2>5
  <1>2. \A T \in SUBSET C : T \in good
    <2> HIDE DEF good
    <2> QED
      BY <1>1, SetInduction
  <1> QED
    BY <1>2

\* There is such a sum, and it is a number.
LEMMA SumExists ==
  ASSUME NEW S, IsFiniteSet(S), NEW g, \A x \in S : g[x] \in Int
  PROVE  \E h \in [SUBSET S -> Int] : Adds(g, S, h)
  <1> DEFINE Sum(T) == SumFunctionOnSet(g, T)
             Has(T) == \E h \in [SUBSET T -> Int] : Adds(g, T, h)
             good == {T \in SUBSET S : \A U \in SUBSET T : Has(U)}
  <1>1. ASSUME NEW T \in SUBSET S, Has(T)
        PROVE  \E h \in [SUBSET T -> Int] : Adds(g, T, h) /\ Sum(T) = h[T]
    <2> DEFINE chosen == CHOOSE i : Adds(g, T, i)
    <2>1. PICK h \in [SUBSET T -> Int] : Adds(g, T, h)
      BY <1>1
    <2>2. Adds(g, T, chosen)
      BY <2>1
    <2>3. IsFiniteSet(T) /\ Sum(T) = chosen[T]
      BY FS_Subset, SumIs
    <2> HIDE DEF chosen, Sum
    <2>4. h[T] = chosen[T]
      BY <2>1, <2>2, <2>3, SumsAgree
    <2> QED
      BY <2>1, <2>3, <2>4
  <1>2. ASSUME NEW T \in SUBSET S, Has(T), T # {}, Has(T \ {Pick(T)})
        PROVE  Sum(T) = g[Pick(T)] + Sum(T \ {Pick(T)})
    <2> DEFINE V == T \ {Pick(T)}
    <2>1. PICK h \in [SUBSET T -> Int] : Adds(g, T, h) /\ Sum(T) = h[T]
      BY <1>1, <1>2
    <2>2. PICK i \in [SUBSET V -> Int] : Adds(g, V, i) /\ Sum(V) = i[V]
      BY <1>1, <1>2
    <2>3. V \subseteq T /\ IsFiniteSet(V)
      BY FS_Subset
    <2> HIDE DEF Sum
    <2>4. h[T] = g[Pick(T)] + h[V]
      BY <1>2, <2>1 DEF Adds
    <2> HIDE DEF V
    <2>5. h[V] = i[V]
      BY <2>1, <2>2, <2>3, SumsAgree
    <2> QED
      BY <2>1, <2>2, <2>4, <2>5 DEF V
  <1>3. ASSUME NEW T \in SUBSET S, Has(T)
        PROVE  Sum(T) \in Int /\ (T = {} => Sum(T) = 0)
    <2>1. PICK h \in [SUBSET T -> Int] : Adds(g, T, h) /\ Sum(T) = h[T]
      BY <1>1, <1>3
    <2> HIDE DEF Sum
    <2>2. h[T] \in Int /\ (T = {} => h[T] = 0)
      BY <2>1 DEF Adds
    <2> QED
      BY <2>1, <2>2
  <1>4. ASSUME NEW T \in SUBSET S, \A U \in SUBSET T : U # T => Has(U)
        PROVE  Has(T)
    <2> DEFINE h == [U \in SUBSET T |-> IF U = {} THEN 0 ELSE g[Pick(U)] + Sum(U \ {Pick(U)})]
    <2>1. ASSUME NEW U \in SUBSET T, U # {}
          PROVE  /\ Pick(U) \in U /\ g[Pick(U)] \in Int
                 /\ U \ {Pick(U)} \in SUBSET S /\ U \ {Pick(U)} \in SUBSET T /\ Has(U \ {Pick(U)})
      <3>1. Pick(U) \in U
        BY <2>1 DEF Pick
      <3> HIDE DEF Has
      <3> QED
        BY <1>4, <3>1
    <2>2. h \in [SUBSET T -> Int]
      <3>1. ASSUME NEW U \in SUBSET T, U # {}
            PROVE  g[Pick(U)] + Sum(U \ {Pick(U)}) \in Int
        <4>1. g[Pick(U)] \in Int /\ Sum(U \ {Pick(U)}) \in Int
          BY <1>3, <2>1, <3>1
        <4> QED
          BY <4>1
      <3> HIDE DEF Sum
      <3> QED
        BY <3>1
    <2>3. Adds(g, T, h)
      <3>1. ASSUME NEW U \in SUBSET T, U # {}
            PROVE  h[U \ {Pick(U)}] = Sum(U \ {Pick(U)})
        <4> DEFINE V == U \ {Pick(U)}
        <4>1. V \in SUBSET T /\ V \in SUBSET S /\ Has(V)
          BY <2>1, <3>1
        <4>2. CASE V = {}
          BY <1>3, <4>1, <4>2
        <4>3. CASE V # {}
          <5>1. Sum(V) = g[Pick(V)] + Sum(V \ {Pick(V)})
            BY <1>2, <2>1, <4>1, <4>3
          <5> HIDE DEF Sum, V
          <5> QED
            BY <4>1, <4>3, <5>1 DEF V
        <4> QED
          BY <4>2, <4>3
      <3> HIDE DEF Sum
      <3> QED
        BY <3>1 DEF Adds
    <2> QED
      BY <2>2, <2>3
  <1>5. ASSUME NEW T \in SUBSET S, \A x \in T : T \ {x} \in good
        PROVE  T \in good
    <2> HIDE DEF Has
    <2>1. ASSUME NEW U \in SUBSET T, U # T
          PROVE  Has(U)
      <3>1. PICK x \in T : x \notin U
        BY <2>1
      <3> QED
        BY <1>5, <3>1
    <2> QED
      BY <1>4, <2>1
  <1>6. S \in good
    <2> HIDE DEF good
    <2>1. S \in SUBSET S
      OBVIOUS
    <2> QED
      BY <1>5, <2>1, SetInduction
  <1> QED
    BY <1>6

\* A sum over nothing is 0; over a set it is any one element's value and the sum over the others.
LEMMA SumSteps ==
  ASSUME NEW S, IsFiniteSet(S), NEW g, \A x \in S : g[x] \in Int
  PROVE  /\ SumFunctionOnSet(g, S) \in Int
         /\ S = {} => SumFunctionOnSet(g, S) = 0
         /\ \A x \in S : SumFunctionOnSet(g, S) = g[x] + SumFunctionOnSet(g, S \ {x})
  <1> DEFINE Sum(T) == SumFunctionOnSet(g, T)
  <1>1. PICK h \in [SUBSET S -> Int] : Adds(g, S, h)
    BY SumExists
  <1>2. ASSUME NEW T \in SUBSET S
        PROVE  Sum(T) = h[T]
    <2> DEFINE chosen == CHOOSE i : Adds(g, T, i)
    <2>1. IsFiniteSet(T) /\ \A x \in T : g[x] \in Int
      BY FS_Subset
    <2>2. \E i : Adds(g, T, i)
      BY <2>1, SumExists
    <2>3. Adds(g, T, chosen) /\ Sum(T) = chosen[T]
      BY <2>2, SumIs
    <2> HIDE DEF chosen, Sum
    <2> QED
      BY <1>1, <2>1, <2>3, SumsAgree
  <1>3. \A T \in SUBSET S : /\ h[T] \in Int
                            /\ h[T] = IF T = {} THEN 0 ELSE g[Pick(T)] + h[T \ {Pick(T)}]
    BY <1>1 DEF Adds
  <1> DEFINE good == {T \in SUBSET S : \A x \in T : h[T] = g[x] + h[T \ {x}]}
  <1>4. ASSUME NEW T \in SUBSET S, \A x \in T : T \ {x} \in good
        PROVE  T \in good
    <2>1. ASSUME NEW x \in T
          PROVE  h[T] = g[x] + h[T \ {x}]
      <3> DEFINE y == Pick(T)
                 V == (T \ {x}) \ {y}
      <3>1. y \in T /\ h[T] = g[y] + h[T \ {y}]
        BY <1>3, <2>1 DEF Pick
      <3>2. CASE x = y
        BY <3>1, <3>2
      <3>3. CASE x # y
        <4>1. h[T \ {x}] = g[y] + h[V] /\ h[T \ {y}] = g[x] + h[V]
          <5>1. (T \ {y}) \ {x} = V
            OBVIOUS
          <5>2. y \in T \ {x} /\ x \in T \ {y}
            BY <3>1, <3>3
          <5> HIDE DEF y, V
          <5>3. h[T \ {x}] = g[y] + h[(T \ {x}) \ {y}]
            BY <1>4, <5>2
          <5>4. h[T \ {y}] = g[x] + h[(T \ {y}) \ {x}]
            BY <1>4, <3>1, <5>2
          <5> QED
            BY <5>1, <5>3, <5>4 DEF V
        <4>2. V \in SUBSET S
          OBVIOUS
        <4>3. g[x] \in Int /\ g[y] \in Int /\ h[V] \in Int
          <5> HIDE DEF y, V
          <5> QED
            BY <1>3, <3>1, <4>2
        <4> HIDE DEF y, V
        <4> QED
          BY <3>1, <4>1, <4>3
      <3> QED
        BY <3>2, <3>3
    <2> QED
      BY <2>1
  <1>5. S \in SUBSET S /\ S \in good
    <2>1. S \in SUBSET S
      OBVIOUS
    <2> HIDE DEF good
    <2> QED
      BY <1>4, <2>1, SetInduction
  <1>6. \A x \in S : Sum(S \ {x}) = h[S \ {x}]
    BY <1>2
  <1> HIDE DEF Sum
  <1>7. Sum(S) \in Int /\ (S = {} => Sum(S) = 0) /\ \A x \in S : Sum(S) = g[x] + Sum(S \ {x})
    BY <1>2, <1>3, <1>5, <1>6
  <1> QED
    BY <1>7 DEF Sum

\* Sums of functions that agree are the same.
LEMMA SameSum ==
  ASSUME NEW S, IsFiniteSet(S), NEW f, NEW g, \A x \in S : f[x] \in Int /\ f[x] = g[x]
  PROVE  SumFunctionOnSet(f, S) = SumFunctionOnSet(g, S)
  <1> DEFINE h == CHOOSE h : Adds(f, S, h)
             i == CHOOSE i : Adds(g, S, i)
  <1>1. (\E j : Adds(f, S, j)) /\ (\E j : Adds(g, S, j))
    BY SumExists
  <1>2. Adds(f, S, h) /\ Adds(g, S, i)
    BY <1>1
  <1>3. SumFunctionOnSet(f, S) = h[S] /\ SumFunctionOnSet(g, S) = i[S]
    BY SumIs
  <1> HIDE DEF h, i
  <1> QED
    BY <1>2, <1>3, SumsAgree

\* A sum over two sets that share nothing.
LEMMA SumOfUnion ==
  ASSUME NEW A, NEW B, IsFiniteSet(A), IsFiniteSet(B), A \cap B = {},
         NEW g, \A x \in A \cup B : g[x] \in Int
  PROVE  SumFunctionOnSet(g, A \cup B) = SumFunctionOnSet(g, A) + SumFunctionOnSet(g, B)
  <1> DEFINE Sum(T) == SumFunctionOnSet(g, T)
             good == {T \in SUBSET B : Sum(A \cup T) = Sum(A) + Sum(T)}
  <1>1. ASSUME NEW T \in SUBSET B, \A x \in T : T \ {x} \in good
        PROVE  T \in good
    <2>1. /\ IsFiniteSet(T) /\ IsFiniteSet(A \cup T)
          /\ \A x \in A \cup T : g[x] \in Int
      BY FS_Subset, FS_Union
    <2>2. Sum(A) \in Int
      BY SumSteps
    <2>3. CASE T = {}
      <3>1. A \cup T = A /\ Sum(T) = 0
        BY <2>1, <2>3, SumSteps
      <3> HIDE DEF Sum
      <3> QED
        BY <2>2, <3>1
    <2>4. CASE T # {}
      <3>1. PICK x \in T : TRUE
        BY <2>4
      <3> DEFINE U == T \ {x}
      <3>2. U \in SUBSET B /\ IsFiniteSet(U) /\ \A y \in U : g[y] \in Int
        BY <2>1, FS_Subset
      <3>3. (A \cup T) \ {x} = A \cup U
        OBVIOUS
      <3>4. Sum(A \cup T) = g[x] + Sum(A \cup U)
        <4>1. Sum(A \cup T) = g[x] + Sum((A \cup T) \ {x})
          BY <2>1, SumSteps
        <4> HIDE DEF Sum, U
        <4> QED
          BY <3>3, <4>1
      <3>5. Sum(T) = g[x] + Sum(U)
        BY <2>1, SumSteps
      <3>6. Sum(U) \in Int /\ g[x] \in Int
        <4> HIDE DEF U
        <4> QED
          BY <3>2, SumSteps
      <3>7. Sum(A \cup U) = Sum(A) + Sum(U)
        BY <1>1
      <3> HIDE DEF Sum, U
      <3>8. Sum(A \cup T) = Sum(A) + Sum(T)
        BY <2>2, <3>4, <3>5, <3>6, <3>7
      <3> QED
        BY <3>8
    <2> QED
      BY <2>3, <2>4
  <1>2. B \in good
    <2> HIDE DEF good
    <2>1. \A T \in SUBSET B : IsFiniteSet(T) /\ (\A x \in T : T \ {x} \in good) => T \in good
      BY <1>1
    <2>2. \A T \in SUBSET B : T \in good
      BY <2>1, SetInduction
    <2> QED
      BY <2>2
  <1> QED
    BY <1>2

\* m adds up over disjoint parts of R.
Additive(m, R) ==
  /\ m \in [SUBSET R -> Int] /\ m[{}] = 0
  /\ \A S, T \in SUBSET R : S \cap T = {} => m[S \cup T] = m[S] + m[T]

\* Then the sum of what m gives to each of the disjoint parts of R is what it gives to R.
LEMMA Parts ==
  ASSUME NEW R, NEW m, Additive(m, R), NEW G, IsFiniteSet(G),
         NEW part, \A b \in G : part[b] \in SUBSET R,
         \A b, c \in G : b # c => part[b] \cap part[c] = {},
         \A r \in R : \E b \in G : r \in part[b],
         NEW w, \A b \in G : w[b] = m[part[b]]
  PROVE  SumFunctionOnSet(w, G) = m[R]
  <1> DEFINE all(H) == UNION {part[b] : b \in H}
             Sum(H) == SumFunctionOnSet(w, H)
             good == {H \in SUBSET G : Sum(H) = m[all(H)]}
  <1>1. ASSUME NEW H \in SUBSET G, \A b \in H : H \ {b} \in good
        PROVE  H \in good
    <2>1. IsFiniteSet(H) /\ \A b \in H : w[b] \in Int
      BY FS_Subset DEF Additive
    <2>2. CASE H = {}
      <3>1. Sum(H) = 0
        BY <2>1, <2>2, SumSteps
      <3>2. all(H) = {}
        BY <2>2
      <3> HIDE DEF Sum, all
      <3> QED
        BY <3>1, <3>2 DEF Additive
    <2>3. CASE H # {}
      <3>1. PICK b \in H : TRUE
        BY <2>3
      <3> DEFINE I == H \ {b}
      <3>2. Sum(H) = w[b] + Sum(I)
        BY <2>1, SumSteps
      <3>3. Sum(I) = m[all(I)]
        BY <1>1
      <3>4. all(I) \in SUBSET R /\ part[b] \in SUBSET R
        OBVIOUS
      <3>5. part[b] \cap all(I) = {} /\ all(H) = part[b] \cup all(I)
        OBVIOUS
      <3>6. w[b] = m[part[b]]
        OBVIOUS
      <3> HIDE DEF all, Sum, I
      <3>7. m[all(H)] = m[part[b]] + m[all(I)]
        <4>1. \A S, T \in SUBSET R : S \cap T = {} => m[S \cup T] = m[S] + m[T]
          BY DEF Additive
        <4> DEFINE mine == part[b]
                   rest == all(I)
        <4>2. mine \in SUBSET R /\ rest \in SUBSET R /\ mine \cap rest = {} /\ all(H) = mine \cup rest
          BY <3>4, <3>5
        <4> HIDE DEF mine, rest
        <4>3. m[mine \cup rest] = m[mine] + m[rest]
          BY <4>1, <4>2
        <4> QED
          BY <4>2, <4>3 DEF mine, rest
      <3>8. Sum(H) = m[all(H)]
        BY <3>2, <3>3, <3>6, <3>7
      <3> QED
        BY <3>8
    <2> QED
      BY <2>2, <2>3
  <1>2. G \in good
    <2>1. G \in SUBSET G
      OBVIOUS
    <2> HIDE DEF good
    <2> QED
      BY <1>1, <2>1, SetInduction
  <1>3. all(G) = R
    OBVIOUS
  <1> QED
    BY <1>2, <1>3

\* A finite set of integers that is not empty has a largest.
LEMMA MaxIs ==
  ASSUME NEW S \in SUBSET Int, IsFiniteSet(S), S # {}
  PROVE  Max(S) \in S /\ \A x \in S : x <= Max(S)
  <1> DEFINE Has(T) == \E x \in T : \A y \in T : y <= x
             good == {T \in SUBSET S : T # {} => Has(T)}
  <1>1. ASSUME NEW T \in SUBSET S, \A x \in T : T \ {x} \in good
        PROVE  T \in good
    <2>1. ASSUME NEW x \in T
          PROVE  Has(T)
      <3>1. CASE T \ {x} = {}
        <4>1. \A y \in T : y = x
          BY <3>1
        <4> QED
          BY <4>1
      <3>2. CASE T \ {x} # {}
        <4>1. Has(T \ {x})
          <5> HIDE DEF Has
          <5> QED
            BY <1>1, <3>2
        <4>2. PICK y \in T : y # x /\ \A z \in T \ {x} : z <= y
          BY <4>1
        <4>3. x \in Int /\ y \in Int
          OBVIOUS
        <4>4. CASE x <= y
          BY <4>2, <4>4
        <4>5. CASE y <= x
          <5>1. \A z \in T : z <= x
            BY <4>2, <4>3, <4>5
          <5> QED
            BY <5>1
        <4> QED
          BY <4>3, <4>4, <4>5
      <3> QED
        BY <3>1, <3>2
    <2> HIDE DEF Has
    <2> QED
      BY <2>1
  <1>2. S \in good
    <2>1. S \in SUBSET S
      OBVIOUS
    <2> HIDE DEF good
    <2> QED
      BY <1>1, <2>1, SetInduction
  <1>3. Has(S)
    BY <1>2
  <1> QED
    BY <1>3 DEF Max

----------------------------------------------------------------------------
(* The home page's cards. *)

\* However many resources are registered: every card is of one that the actor may view, and shows
\* the count of that one if the actor may view all that are registered before it.
THEOREM OwnCountIfNoneHidden ==
  ASSUME NEW N \in Nat, NEW metas, DOMAIN metas = 1..N, NEW a,
         NEW n \in DOMAIN home_cards(metas, a)
  PROVE  \E own \in 1..N :
           /\ a \in metas[own].viewers /\ home_cards(metas, a)[n].key = metas[own].key
           /\ (\A k \in 1..own : a \in metas[k].viewers) =>
                home_cards(metas, a)[n].count = metas[own].count
  <1> DEFINE shown == {i \in 1..N : a \in metas[i].viewers}
             before == [i \in shown |-> {j \in shown : j < i}]
             place(i) == Cardinality({j \in shown : j < i}) + 1
             own == CHOOSE i \in shown : place(i) = n
  <1>1. IsFiniteSet(1..N) /\ Cardinality(1..N) = N
    BY FS_Interval
  <1>2. IsFiniteSet(shown)
    BY <1>1, FS_Subset
  <1>3. Line(shown, before)
    <2>1. before \in [shown -> SUBSET shown]
      OBVIOUS
    <2>2. \A i \in shown : i \notin before[i]
      OBVIOUS
    <2>3. \A i, j \in shown : i # j => i \in before[j] \/ j \in before[i]
      OBVIOUS
    <2>4. \A i, j, k \in shown : i \in before[j] /\ j \in before[k] => i \in before[k]
      OBVIOUS
    <2> HIDE DEF before, shown
    <2> QED
      BY <2>1, <2>2, <2>3, <2>4 DEF Line
  <1>4. /\ Cardinality(shown) \in Nat
        /\ \A k \in 0..(Cardinality(shown) - 1) : \E i \in shown : Cardinality(before[i]) = k
    <2> HIDE DEF before, shown
    <2> QED
      BY <1>2, <1>3, Ranks
  <1>5. \A i \in shown : place(i) = Cardinality(before[i]) + 1
    OBVIOUS
  <1>6. home_cards(metas, a) = [k \in 1..Cardinality(shown) |->
           [key |-> metas[CHOOSE i \in shown : place(i) = k].key, count |-> metas[k].count]]
    BY DEF home_cards
  <1>7. n \in 1..Cardinality(shown)
    BY <1>6
  <1>8. own \in shown /\ place(own) = n
    <2>1. n - 1 \in 0..(Cardinality(shown) - 1)
      <3> HIDE DEF shown
      <3> QED
        BY <1>4, <1>7
    <2>2. PICK i \in shown : Cardinality(before[i]) = n - 1
      <3> HIDE DEF shown, before
      <3> QED
        BY <1>4, <2>1
    <2>3. place(i) = n
      <3> HIDE DEF shown, before, place
      <3> QED
        BY <1>4, <1>5, <1>7, <2>2
    <2> HIDE DEF shown, place
    <2> QED
      BY <2>3
  <1>9. home_cards(metas, a)[n].key = metas[own].key /\ home_cards(metas, a)[n].count = metas[n].count
    <2> HIDE DEF shown, place
    <2> QED
      BY <1>6, <1>7
  <1> HIDE DEF own
  <1>10. own \in 1..N /\ a \in metas[own].viewers
    BY <1>8
  <1>11. /\ IsFiniteSet(1..(own - 1)) /\ Cardinality(1..(own - 1)) = own - 1
    <2>1. /\ IsFiniteSet(1..(own - 1))
          /\ Cardinality(1..(own - 1)) = IF 1 > own - 1 THEN 0 ELSE (own - 1) - 1 + 1
      BY <1>10, FS_Interval
    <2> QED
      BY <1>10, <2>1
  <1> DEFINE earlier == {j \in shown : j < own}
  <1>12. n = Cardinality(earlier) + 1
    BY <1>8
  <1>13. ASSUME \A k \in 1..own : a \in metas[k].viewers
         PROVE  n = own
    <2>1. earlier = 1..(own - 1)
      BY <1>10, <1>13
    <2> HIDE DEF earlier
    <2> QED
      BY <1>10, <1>11, <1>12, <2>1
  <1> HIDE DEF earlier, place
  <1> QED
    BY <1>9, <1>10, <1>13

----------------------------------------------------------------------------
(* Aggregates. *)

\* The values of a function on a finite set are finitely many.
LEMMA Image ==
  ASSUME NEW S, IsFiniteSet(S), NEW f
  PROVE  IsFiniteSet({f[x] : x \in S}) /\ Cardinality({f[x] : x \in S}) \in Nat
  <1> DEFINE T == {f[x] : x \in S}
             g == [x \in S |-> f[x]]
  <1>1. g \in Surjection(S, T)
    BY DEF Surjection
  <1> HIDE DEF T, g
  <1>2. IsFiniteSet(T)
    BY <1>1, FS_Surjection
  <1> QED
    BY <1>2, FS_CardinalityType DEF T

\* The values of a function that tells things apart are as many as the things.
LEMMA OneToOne ==
  ASSUME NEW S, IsFiniteSet(S), NEW f, \A x, y \in S : f[x] = f[y] => x = y
  PROVE  Cardinality({f[x] : x \in S}) = Cardinality(S)
  <1> DEFINE T == {f[x] : x \in S}
             g == [x \in S |-> f[x]]
  <1>1. g \in Bijection(S, T)
    BY DEF Surjection, Injection, IsInjective, Bijection
  <1> HIDE DEF T, g
  <1>2. Cardinality(T) = Cardinality(S)
    BY <1>1, FS_Bijection DEF ExistsBijection
  <1> QED
    BY <1>2 DEF T

\* As many are before place n as n says.
LEMMA FirstFew ==
  ASSUME NEW S, IsFiniteSet(S), NEW before, Line(S, before), NEW n \in 0..Cardinality(S)
  PROVE  Cardinality({x \in S : Cardinality(before[x]) < n}) = n
  <1> DEFINE few == {x \in S : Cardinality(before[x]) < n}
             place == [x \in few |-> Cardinality(before[x])]
  <1>1. /\ Cardinality(S) \in Nat
        /\ \A x \in S : Cardinality(before[x]) \in 0..(Cardinality(S) - 1)
        /\ \A x, y \in S : Cardinality(before[x]) = Cardinality(before[y]) => x = y
        /\ \A k \in 0..(Cardinality(S) - 1) : \E x \in S : Cardinality(before[x]) = k
    BY Ranks
  <1>2. IsFiniteSet(few)
    BY FS_Subset
  <1>3. {place[x] : x \in few} = 0..(n - 1)
    <2>1. ASSUME NEW x \in few
          PROVE  place[x] \in 0..(n - 1)
      BY <1>1
    <2>2. ASSUME NEW k \in 0..(n - 1)
          PROVE  \E x \in few : place[x] = k
      <3>1. k \in 0..(Cardinality(S) - 1) /\ k < n
        BY <1>1
      <3>2. PICK x \in S : Cardinality(before[x]) = k
        BY <1>1, <3>1
      <3> QED
        BY <3>1, <3>2
    <2> HIDE DEF few, place
    <2> QED
      BY <2>1, <2>2
  <1>4. \A x, y \in few : place[x] = place[y] => x = y
    BY <1>1
  <1> HIDE DEF few, place
  <1>5. Cardinality(0..(n - 1)) = Cardinality(few)
    <2>1. Cardinality({place[x] : x \in few}) = Cardinality(few)
      BY <1>2, <1>4, OneToOne, Zenon
    <2> QED
      BY <1>3, <2>1
  <1>6. Cardinality(0..(n - 1)) = IF 0 > n - 1 THEN 0 ELSE (n - 1) - 0 + 1
    BY <1>1, FS_Interval
  <1>7. Cardinality(few) = n
    BY <1>1, <1>5, <1>6
  <1> QED
    BY <1>7 DEF few

\* The order of JSON values that sorts the buckets: no two values share a place.
LEMMA KeysInLine ==
  ASSUME NEW a \in Json, NEW b \in Json, NEW c \in Json
  PROVE  /\ value_total_cmp(a, a) # -1
         /\ a # b => value_total_cmp(a, b) = -1 \/ value_total_cmp(b, a) = -1
         /\ value_total_cmp(a, b) = -1 /\ value_total_cmp(b, c) = -1 => value_total_cmp(a, c) = -1
  <1> DEFINE Plain == {v \in Json : v.t # "null"}
             Sign(x, y) == IF FirstByte(x) = FirstByte(y) THEN Compare(x.v, y.v)
                                                          ELSE Compare(FirstByte(x), FirstByte(y))
  <1>1. ASSUME NEW x \in Plain, NEW y \in Plain
        PROVE  /\ FirstByte(x) \in Int /\ FirstByte(y) \in Int /\ x.v \in Int /\ y.v \in Int
               /\ value_total_cmp(x, y) = Sign(x, y)
               /\ FirstByte(x) = FirstByte(y) /\ x.v = y.v => x = y
    <2>1. /\ FirstByte(x) \in Int /\ FirstByte(y) \in Int /\ x.v \in Int /\ y.v \in Int
          /\ value_cmp(x, y) = Sign(x, y)
          /\ FirstByte(x) = FirstByte(y) /\ x.v = y.v => x = y
      BY ByteThenValue
    <2>2. value_cmp(x, y) = cmp_serialized(x, y)
      BY DEF value_cmp, cmp_values, cmp_serialized
    <2>3. value_total_cmp(x, y) = cmp_serialized(x, y)
      BY DEF value_total_cmp
    <2> QED
      BY <2>1, <2>2, <2>3
  <1>2. ASSUME NEW x \in Json, NEW y \in Json
        PROVE  /\ x.t = "null" => x = Null
               /\ x.t = "null" /\ y.t = "null" => value_total_cmp(x, y) = 0
               /\ x.t = "null" /\ y.t # "null" => value_total_cmp(x, y) = -1
               /\ x.t # "null" /\ y.t = "null" => value_total_cmp(x, y) = 1
    BY DEF value_total_cmp, Json, Null, Bool, Str, Num, Arr, Value
  <1>3. ASSUME NEW x \in Plain, NEW y \in Plain, NEW z \in Plain
        PROVE  /\ value_total_cmp(x, x) # -1
               /\ x # y => value_total_cmp(x, y) = -1 \/ value_total_cmp(y, x) = -1
               /\ value_total_cmp(x, y) = -1 /\ value_total_cmp(y, z) = -1 => value_total_cmp(x, z) = -1
    <2> HIDE DEF Plain
    <2> QED
      BY <1>1 DEF Compare
  <1>4. a \in Plain \/ a.t = "null"
    OBVIOUS
  <1>5. b \in Plain \/ b.t = "null"
    OBVIOUS
  <1>6. c \in Plain \/ c.t = "null"
    OBVIOUS
  <1>7. \A x \in Plain : x \in Json /\ x.t # "null"
    OBVIOUS
  <1> HIDE DEF Plain
  <1> QED
    BY <1>2, <1>3, <1>4, <1>5, <1>6, <1>7

\* The groups of R by a key.
Grouped(R, key) ==
  {[key |-> k, rows |-> {r \in R : key[r] = k}] : k \in {key[r] : r \in R}}

\* G shares out the rows of R by their keys.
Shares(G, R, key) ==
  /\ \A a \in G : /\ a.rows \in SUBSET R /\ a.rows # {}
                  /\ a.rows = {r \in R : key[r] = a.key}
                  /\ a.key \in {key[r] : r \in R}
  /\ \A a, b \in G : a.key = b.key => a = b
  /\ \A r \in R : \E a \in G : r \in a.rows

\* The groups do, and there is one for each key.
LEMMA Groups ==
  ASSUME NEW R, IsFiniteSet(R), NEW key
  PROVE  /\ IsFiniteSet(Grouped(R, key)) /\ Shares(Grouped(R, key), R, key)
         /\ Cardinality(Grouped(R, key)) = Cardinality({key[r] : r \in R})
  <1> DEFINE G == Grouped(R, key)
             K == {key[r] : r \in R}
             group == [k \in K |-> [key |-> k, rows |-> {r \in R : key[r] = k}]]
  <1>1. IsFiniteSet(K)
    BY Image
  <1>2. G = {group[k] : k \in K} /\ \A k \in K : group[k].key = k
    BY DEF Grouped
  <1>3. ASSUME NEW a \in G
        PROVE  /\ a.rows \in SUBSET R /\ a.rows # {}
               /\ a.rows = {r \in R : key[r] = a.key}
               /\ a.key \in K /\ a = group[a.key]
    BY <1>2
  <1>4. \A r \in R : \E a \in G : r \in a.rows
    <2>1. ASSUME NEW r \in R
          PROVE  group[key[r]] \in G /\ r \in group[key[r]].rows
      BY <1>2
    <2> QED
      BY <2>1
  <1>5. \A a, b \in G : a.key = b.key => a = b
    <2> HIDE DEF group, K
    <2> QED
      BY <1>3
  <1>6. \A k, l \in K : group[k] = group[l] => k = l
    BY <1>2
  <1> HIDE DEF K, group, G
  <1>7. IsFiniteSet(G) /\ Cardinality(G) \in Nat
    BY <1>1, <1>2, Image
  <1>8. Cardinality(G) = Cardinality(K)
    BY <1>1, <1>2, <1>6, OneToOne
  <1> QED
    BY <1>3, <1>4, <1>5, <1>7, <1>8 DEF K, G, Shares

----------------------------------------------------------------------------

ValueKey(R, f) == [r \in R |-> IF r[f] = Missing THEN Null ELSE r[f]]
DatedRows(R, f) == {r \in R : r[f].t = "str" /\ Instant[r[f].v] # Nil}
StartKey(R, f, w) == [r \in DatedRows(R, f) |-> Str(Rfc3339[Starts[w][Instant[r[f].v]]])]
OrZero(n) == IF n = Nil THEN 0 ELSE n
Measured(measure, R) == [T \in SUBSET R |-> OrZero(measure_value(measure, T))]
Earlier(G, g) == {h \in G : value_total_cmp(h.key, g.key) = -1}
Cut(G, limit) == {g \in G : limit # Nil => Cardinality(Earlier(G, g)) < limit}
Buckets(G, m) == {[key |-> g.key, value |-> m[g.rows]] : g \in G}

\* The buckets by a value are groups, measured and cut to the limit.
LEMMA ByValue ==
  ASSUME NEW R, IsFiniteSet(R), NEW measure, NEW f \in Fields, NEW limit
  PROVE  aggregate(R, measure, [field |-> f, by |-> "value"], limit).buckets =
           Buckets(Cut(Grouped(R, ValueKey(R, f)), limit), Measured(measure, R))
  <1> DEFINE G == Grouped(R, ValueKey(R, f))
             chosen == Cut(G, limit)
             value(g) == OrZero(measure_value(measure, g.rows))
  <1>1. [field |-> f, by |-> "value"] # Nil
    BY AggregatesAssumption DEF Grouping
  <1>2. group_by_field(R, f) = G
    <2> DEFINE key(r) == IF r[f] = Missing THEN Null ELSE r[f]
               K == {key(r) : r \in R}
               group(k) == [key |-> k, rows |-> {r \in R : key(r) = k}]
               same(k) == [key |-> k, rows |-> {r \in R : ValueKey(R, f)[r] = k}]
    <2>1. {ValueKey(R, f)[r] : r \in R} = K
      BY DEF ValueKey
    <2>2. \A k : group(k) = same(k)
      <3>1. \A r \in R : ValueKey(R, f)[r] = key(r)
        BY DEF ValueKey
      <3> HIDE DEF key
      <3> QED
        BY <3>1
    <2>3. group_by_field(R, f) = {group(k) : k \in K}
      BY DEF group_by_field
    <2>4. G = {same(k) : k \in {ValueKey(R, f)[r] : r \in R}}
      BY DEF Grouped
    <2> HIDE DEF K, group, same, G
    <2> QED
      BY <2>1, <2>2, <2>3, <2>4
  <1>3. aggregate(R, measure, [field |-> f, by |-> "value"], limit).buckets =
          {[key |-> g.key, value |-> value(g)] : g \in chosen}
    <2> HIDE DEF G
    <2>1. chosen = {h \in G : limit # Nil =>
                      Cardinality({i \in G : value_total_cmp(i.key, h.key) = -1}) < limit}
      BY DEF Cut, Earlier
    <2> HIDE DEF chosen
    <2> QED
      BY <1>1, <1>2, <2>1 DEF aggregate, OrZero
  <1>4. \A g \in chosen : g.rows \in SUBSET R
    <2>1. \A g \in G : g.rows \in SUBSET R
      BY Groups DEF Shares
    <2> QED
      BY <2>1 DEF Cut
  <1> HIDE DEF chosen
  <1>5. \A g \in chosen : Measured(measure, R)[g.rows] = value(g)
    BY <1>4 DEF Measured
  <1> HIDE DEF value
  <1>6. Buckets(chosen, Measured(measure, R)) = {[key |-> g.key, value |-> value(g)] : g \in chosen}
    BY <1>5 DEF Buckets
  <1> QED
    BY <1>3, <1>6 DEF chosen

\* So are those of a histogram, of the rows that have an instant.
LEMMA ByStart ==
  ASSUME NEW R, IsFiniteSet(R), NEW measure, NEW f \in Fields, NEW w \in Intervals
  PROVE  aggregate(R, measure, [field |-> f, by |-> w], Nil).buckets =
           Buckets(Grouped(DatedRows(R, f), StartKey(R, f, w)), Measured(measure, DatedRows(R, f)))
  <1> DEFINE D == DatedRows(R, f)
             G == Grouped(D, StartKey(R, f, w))
             value(g) == OrZero(measure_value(measure, g.rows))
  <1>1. [field |-> f, by |-> w] # Nil /\ w # "value"
    BY AggregatesAssumption DEF Grouping
  <1>2. group_by_histogram(R, f, w) = G
    <2> DEFINE key(r) == Str(Rfc3339[Starts[w][Instant[r[f].v]]])
               K == {key(r) : r \in D}
               group(k) == [key |-> k, rows |-> {r \in D : key(r) = k}]
               same(k) == [key |-> k, rows |-> {r \in D : StartKey(R, f, w)[r] = k}]
    <2>1. {StartKey(R, f, w)[r] : r \in D} = K
      BY DEF StartKey
    <2>2. \A k : group(k) = same(k)
      <3>1. \A r \in D : StartKey(R, f, w)[r] = key(r)
        BY DEF StartKey
      <3> HIDE DEF key, D
      <3> QED
        BY <3>1
    <2>3. group_by_histogram(R, f, w) = {group(k) : k \in K}
      BY DEF group_by_histogram, DatedRows
    <2>4. G = {same(k) : k \in {StartKey(R, f, w)[r] : r \in D}}
      BY DEF Grouped
    <2> HIDE DEF K, group, same, G
    <2> QED
      BY <2>1, <2>2, <2>3, <2>4
  <1>3. aggregate(R, measure, [field |-> f, by |-> w], Nil).buckets =
          {[key |-> g.key, value |-> value(g)] : g \in G}
    <2> HIDE DEF G
    <2> QED
      BY <1>1, <1>2 DEF aggregate, OrZero
  <1>4. IsFiniteSet(D)
    BY FS_Subset DEF DatedRows
  <1>5. \A g \in G : g.rows \in SUBSET D
    <2> HIDE DEF D
    <2> QED
      BY <1>4, Groups DEF Shares
  <1> HIDE DEF G, D
  <1>6. \A g \in G : Measured(measure, D)[g.rows] = value(g)
    BY <1>5 DEF Measured
  <1> HIDE DEF value
  <1>7. Buckets(G, Measured(measure, D)) = {[key |-> g.key, value |-> value(g)] : g \in G}
    BY <1>6 DEF Buckets
  <1> QED
    BY <1>3, <1>7 DEF G, D

\* There are as many buckets as groups.
LEMMA BucketCount ==
  ASSUME NEW R, IsFiniteSet(R), NEW key, NEW G \in SUBSET Grouped(R, key), NEW m
  PROVE  IsFiniteSet(Buckets(G, m)) /\ Cardinality(Buckets(G, m)) = Cardinality(G)
  <1> DEFINE bucket == [g \in G |-> [key |-> g.key, value |-> m[g.rows]]]
             all == Grouped(R, key)
  <1>1. Buckets(G, m) = {bucket[g] : g \in G}
    BY DEF Buckets
  <1>2. IsFiniteSet(all) /\ \A a, b \in all : a.key = b.key => a = b
    BY Groups DEF Shares
  <1>3. IsFiniteSet(G)
    <2> HIDE DEF all
    <2>1. G \in SUBSET all
      BY DEF all
    <2> QED
      BY <1>2, <2>1, FS_Subset
  <1>4. \A a, b \in G : bucket[a] = bucket[b] => a = b
    <2>1. \A a, b \in G : bucket[a] = bucket[b] => a.key = b.key
      OBVIOUS
    <2> HIDE DEF bucket
    <2> QED
      BY <1>2, <2>1
  <1> HIDE DEF bucket
  <1>5. IsFiniteSet({bucket[g] : g \in G}) /\ Cardinality({bucket[g] : g \in G}) = Cardinality(G)
    BY <1>3, <1>4, Image, OneToOne
  <1> QED
    BY <1>1, <1>5

\* What adds up over rows adds up over the buckets.
LEMMA BucketTotal ==
  ASSUME NEW R, IsFiniteSet(R), NEW key, NEW m, Additive(m, R)
  PROVE  SumFunction([b \in Buckets(Grouped(R, key), m) |-> b.value]) = m[R]
  <1> DEFINE G == Grouped(R, key)
             B == Buckets(G, m)
             part == [b \in B |-> {r \in R : key[r] = b.key}]
             w == [b \in B |-> b.value]
  <1>1. Shares(G, R, key)
    BY Groups
  <1>2. IsFiniteSet(B)
    BY BucketCount
  <1>3. \A b \in B : \E g \in G : b.key = g.key /\ b.value = m[g.rows]
    <2>1. \A b \in B : \E g \in G : b = [key |-> g.key, value |-> m[g.rows]]
      BY DEF Buckets
    <2> HIDE DEF G, part, w
    <2> QED
      BY <2>1
  <1>4. \A g \in G : \E b \in B : b.key = g.key
    <2>1. ASSUME NEW g \in G
          PROVE  [key |-> g.key, value |-> m[g.rows]] \in B
      BY DEF Buckets
    <2> QED
      BY <2>1
  <1>5. \A b, c \in B : b # c => b.key # c.key
    <2>1. \A b \in B : \E g \in G : b = [key |-> g.key, value |-> m[g.rows]]
      BY DEF Buckets
    <2> HIDE DEF G
    <2> QED
      BY <1>1, <2>1 DEF Shares
  <1> HIDE DEF G
  <1>6. /\ \A b \in B : part[b] \in SUBSET R
        /\ \A b, c \in B : b # c => part[b] \cap part[c] = {}
    BY <1>5
  <1>7. ASSUME NEW b \in B
        PROVE  w[b] = m[part[b]]
    <2>1. PICK g \in G : b.key = g.key /\ b.value = m[g.rows]
      BY <1>3
    <2>2. g.rows = part[b]
      BY <1>1, <2>1 DEF Shares
    <2> QED
      BY <2>1, <2>2
  <1>8. \A r \in R : \E b \in B : r \in part[b]
    BY <1>1, <1>4 DEF Shares
  <1>9. SumFunctionOnSet(w, B) = m[R]
    <2> HIDE DEF w, part, B
    <2> QED
      BY <1>2, <1>6, <1>7, <1>8, Parts
  <1>10. SumFunction(w) = SumFunctionOnSet(w, B)
    <2>1. DOMAIN w = B
      OBVIOUS
    <2> HIDE DEF w, B
    <2> QED
      BY <2>1 DEF SumFunction
  <1> QED
    BY <1>9, <1>10 DEF G

----------------------------------------------------------------------------

\* The count of rows is additive.
LEMMA CountsAdd ==
  ASSUME NEW R, IsFiniteSet(R), NEW f
  PROVE  LET m == Measured([of |-> "count", field |-> f], R) IN
         Additive(m, R) /\ \A T \in SUBSET R : m[T] = Cardinality(T)
  <1> DEFINE m == Measured([of |-> "count", field |-> f], R)
  <1>1. \A T \in SUBSET R : IsFiniteSet(T) /\ Cardinality(T) \in Nat
    BY FS_Subset, FS_CardinalityType
  <1>2. \A T : measure_value([of |-> "count", field |-> f], T) = Cardinality(T)
    BY DEF measure_value
  <1>3. m = [T \in SUBSET R |-> Cardinality(T)]
    BY <1>1, <1>2, ValuesAssumption DEF Measured, OrZero
  <1> HIDE DEF m
  <1>4. \A T \in SUBSET R : m[T] = Cardinality(T)
    BY <1>3
  <1>5. m \in [SUBSET R -> Int]
    BY <1>1, <1>3
  <1>6. m[{}] = 0
    BY <1>4, FS_EmptySet
  <1>7. ASSUME NEW S \in SUBSET R, NEW T \in SUBSET R, S \cap T = {}
        PROVE  m[S \cup T] = m[S] + m[T]
    <2>1. Cardinality(S \cup T) = Cardinality(S) + Cardinality(T) - Cardinality(S \cap T)
      BY <1>1, FS_Union
    <2>2. Cardinality(S \cup T) = Cardinality(S) + Cardinality(T)
      BY <1>1, <1>7, <2>1, FS_EmptySet
    <2> QED
      BY <1>4, <2>2
  <1>8. Additive(m, R)
    BY <1>5, <1>6, <1>7 DEF Additive
  <1> QED
    BY <1>4, <1>8 DEF m

\* The rows that have a number under f.
Numerical(T, f) == {r \in T : r[f].t = "num"}

\* Those numbers are integers.
LEMMA RowNumbers ==
  ASSUME NEW R \in SUBSET Row, NEW f \in Fields
  PROVE  \A r \in Numerical(R, f) : r[f].v \in Int
  <1>1. \A r \in R : r[f] \in Cell
    BY DEF Row, Cell
  <1> QED
    BY <1>1, Cells, ValuesAssumption DEF Numerical

\* Their sum is additive.
LEMMA SumsAdd ==
  ASSUME NEW R \in SUBSET Row, IsFiniteSet(R), NEW f \in Fields
  PROVE  Additive(Measured([of |-> "sum", field |-> f], R), R)
  <1> DEFINE m == Measured([of |-> "sum", field |-> f], R)
             numbers == [r \in Numerical(R, f) |-> r[f].v]
             Sum(T) == SumFunctionOnSet(numbers, T)
             value(T) == measure_value([of |-> "sum", field |-> f], T)
  <1>1. ASSUME NEW T \in SUBSET R
        PROVE  /\ Numerical(T, f) \subseteq Numerical(R, f) /\ IsFiniteSet(Numerical(T, f))
               /\ \A r \in Numerical(T, f) : numbers[r] \in Int /\ numbers[r] = r[f].v
    <2>1. Numerical(T, f) \subseteq Numerical(R, f) /\ Numerical(T, f) \in SUBSET R
      BY DEF Numerical
    <2>2. IsFiniteSet(Numerical(T, f))
      BY <2>1, FS_Subset
    <2> QED
      BY <2>1, <2>2, RowNumbers
  <1>2. ASSUME NEW T \in SUBSET R
        PROVE  Sum(Numerical(T, f)) \in Int /\ (Numerical(T, f) = {} => Sum(Numerical(T, f)) = 0)
    <2> HIDE DEF numbers
    <2> QED
      BY <1>1, SumSteps
  <1>3. ASSUME NEW T \in SUBSET R
        PROVE  m[T] = Sum(Numerical(T, f))
    <2>1. m[T] = OrZero(value(T))
      BY DEF Measured
    <2> DEFINE own == [r \in Numerical(T, f) |-> r[f].v]
    <2>2. value(T) = IF Numerical(T, f) = {} THEN Nil ELSE SumFunction(own)
      BY DEF measure_value, Numerical
    <2>3. SumFunction(own) = SumFunctionOnSet(own, Numerical(T, f))
      BY DEF SumFunction
    <2>4. SumFunctionOnSet(own, Numerical(T, f)) = Sum(Numerical(T, f))
      <3>1. \A r \in Numerical(T, f) : own[r] \in Int /\ own[r] = numbers[r]
        BY <1>1
      <3>2. IsFiniteSet(Numerical(T, f))
        BY <1>1
      <3> HIDE DEF own, numbers
      <3> QED
        BY <3>1, <3>2, SameSum
    <2> HIDE DEF m, value, own, Sum
    <2> QED
      BY <1>2, <2>1, <2>2, <2>3, <2>4, ValuesAssumption DEF OrZero
  <1>4. m \in [SUBSET R -> Int]
    <2>1. m = [T \in SUBSET R |-> m[T]]
      BY DEF Measured
    <2> HIDE DEF m, Sum
    <2> QED
      BY <1>2, <1>3, <2>1
  <1>5. m[{}] = 0
    <2>1. Numerical({}, f) = {} /\ {} \in SUBSET R
      BY DEF Numerical
    <2> HIDE DEF m, Sum
    <2> QED
      BY <1>2, <1>3, <2>1
  <1>6. ASSUME NEW S \in SUBSET R, NEW T \in SUBSET R, S \cap T = {}
        PROVE  m[S \cup T] = m[S] + m[T]
    <2> DEFINE A == Numerical(S, f)
               B == Numerical(T, f)
    <2>1. Numerical(S \cup T, f) = A \cup B /\ A \cap B = {} /\ S \cup T \in SUBSET R
      BY <1>6 DEF Numerical
    <2>2. IsFiniteSet(A) /\ IsFiniteSet(B) /\ \A r \in A \cup B : numbers[r] \in Int
      BY <1>1
    <2>3. Sum(A \cup B) = Sum(A) + Sum(B)
      <3> HIDE DEF A, B, numbers
      <3> QED
        BY <2>1, <2>2, SumOfUnion
    <2> HIDE DEF m, Sum
    <2> QED
      BY <1>3, <2>1, <2>3
  <1> HIDE DEF m
  <1> QED
    BY <1>4, <1>5, <1>6 DEF Additive, m

\* The largest bucket is the largest of all where no number is below zero.
LEMMA LargestOfAll ==
  ASSUME NEW R \in SUBSET Row, IsFiniteSet(R), R # {}, NEW f \in Fields, NEW key,
         \A r \in R : r[f].t = "num" => r[f].v >= 0
  PROVE  LET m == Measured([of |-> "max", field |-> f], R) IN
         Max({b.value : b \in Buckets(Grouped(R, key), m)}) = m[R]
  <1> DEFINE m == Measured([of |-> "max", field |-> f], R)
             G == Grouped(R, key)
             V == {b.value : b \in Buckets(G, m)}
             value(T) == measure_value([of |-> "max", field |-> f], T)
             Values(T) == {r[f].v : r \in Numerical(T, f)}
  <1>1. ASSUME NEW T \in SUBSET R
        PROVE  /\ m[T] \in Int /\ m[T] >= 0
               /\ \A r \in Numerical(T, f) : r[f].v <= m[T]
               /\ m[T] = 0 \/ \E r \in Numerical(T, f) : r[f].v = m[T]
    <2>1. m[T] = OrZero(value(T))
      BY DEF Measured
    <2>2. value(T) = IF Numerical(T, f) = {} THEN Nil ELSE Max(Values(T))
      BY DEF measure_value, Numerical
    <2>3. \A r \in Numerical(T, f) : r[f].v \in Int /\ r[f].v >= 0
      BY RowNumbers DEF Numerical
    <2>4. IsFiniteSet(Values(T))
      <3> DEFINE number == [r \in Numerical(T, f) |-> r[f].v]
      <3>1. Numerical(T, f) \in SUBSET R
        BY DEF Numerical
      <3>2. IsFiniteSet(Numerical(T, f))
        BY <3>1, FS_Subset
      <3>3. Values(T) = {number[r] : r \in Numerical(T, f)}
        OBVIOUS
      <3> HIDE DEF number
      <3> QED
        BY <3>2, <3>3, Image
    <2>5. ASSUME Numerical(T, f) # {}
          PROVE  Max(Values(T)) \in Values(T) /\ \A x \in Values(T) : x <= Max(Values(T))
      <3>1. Values(T) \in SUBSET Int /\ Values(T) # {}
        BY <2>3, <2>5
      <3> HIDE DEF Values
      <3> QED
        BY <2>4, <3>1, MaxIs
    <2> HIDE DEF m, value
    <2>6. CASE Numerical(T, f) = {}
      BY <2>1, <2>2, <2>6, ValuesAssumption DEF OrZero
    <2>7. CASE Numerical(T, f) # {}
      <3>1. PICK r \in Numerical(T, f) : r[f].v = Max(Values(T))
        BY <2>5, <2>7
      <3>2. m[T] = r[f].v
        BY <2>1, <2>2, <2>3, <2>7, <3>1, ValuesAssumption DEF OrZero
      <3>3. \A q \in Numerical(T, f) : q[f].v <= Max(Values(T))
        BY <2>5, <2>7
      <3> HIDE DEF Values
      <3> QED
        BY <2>3, <3>1, <3>2, <3>3
    <2> QED
      BY <2>6, <2>7
  <1>2. Shares(G, R, key) /\ IsFiniteSet(G)
    BY Groups
  <1>3. /\ \A g \in G : m[g.rows] \in V
        /\ \A v \in V : \E g \in G : v = m[g.rows]
    <2> HIDE DEF G, m
    <2>1. ASSUME NEW g \in G
          PROVE  m[g.rows] \in V
      <3> DEFINE b == [key |-> g.key, value |-> m[g.rows]]
      <3>1. b \in Buckets(G, m) /\ b.value = m[g.rows]
        BY DEF Buckets
      <3> HIDE DEF b
      <3> QED
        BY <3>1
    <2>2. ASSUME NEW b \in Buckets(G, m)
          PROVE  \E g \in G : b.value = m[g.rows]
      <3>1. \E g \in G : b = [key |-> g.key, value |-> m[g.rows]]
        BY DEF Buckets
      <3> QED
        BY <3>1
    <2> QED
      BY <2>1, <2>2
  <1>4. IsFiniteSet(V)
    <2> DEFINE B == Buckets(G, m)
               w == [b \in B |-> b.value]
    <2>1. IsFiniteSet(B)
      <3>1. G \in SUBSET G
        OBVIOUS
      <3> HIDE DEF m
      <3> QED
        BY <3>1, BucketCount
    <2>2. V = {w[b] : b \in B}
      OBVIOUS
    <2> HIDE DEF w, B, V
    <2> QED
      BY <2>1, <2>2, Image
  <1> HIDE DEF m, G, V
  <1>5. V \in SUBSET Int /\ V # {}
    BY <1>1, <1>2, <1>3 DEF Shares
  <1>6. Max(V) \in V /\ \A v \in V : v <= Max(V)
    BY <1>4, <1>5, MaxIs
  <1>7. PICK g \in G : Max(V) = m[g.rows]
    BY <1>3, <1>6
  <1>8. R \in SUBSET R /\ g.rows \in SUBSET R
    BY <1>2 DEF Shares
  <1>9. Max(V) <= m[R]
    <2>1. Max(V) = 0 \/ \E r \in Numerical(g.rows, f) : r[f].v = Max(V)
      BY <1>1, <1>7, <1>8
    <2>2. \A r \in Numerical(g.rows, f) : r \in Numerical(R, f)
      BY <1>8 DEF Numerical
    <2>3. m[R] >= 0 /\ \A r \in Numerical(R, f) : r[f].v <= m[R]
      BY <1>1, <1>8
    <2> QED
      BY <2>1, <2>2, <2>3
  <1>10. m[R] <= Max(V)
    <2>1. CASE m[R] = 0
      BY <1>1, <1>7, <1>8, <2>1
    <2>2. CASE \E r \in Numerical(R, f) : r[f].v = m[R]
      <3>1. PICK r \in Numerical(R, f) : r[f].v = m[R]
        BY <2>2
      <3>2. PICK h \in G : r \in h.rows
        BY <1>2 DEF Shares, Numerical
      <3>3. r \in Numerical(h.rows, f) /\ h.rows \in SUBSET R
        BY <1>2, <3>2 DEF Shares, Numerical
      <3>4. m[R] <= m[h.rows]
        BY <1>1, <3>1, <3>3
      <3>5. m[h.rows] <= Max(V)
        BY <1>3, <1>6
      <3>6. m[h.rows] \in Int /\ m[R] \in Int /\ Max(V) \in Int
        BY <1>1, <1>5, <1>6, <1>8, <3>3
      <3> QED
        BY <3>4, <3>5, <3>6
    <2> QED
      BY <1>1, <1>8, <2>1, <2>2
  <1>11. Max(V) = m[R]
    <2>1. m[R] \in Int /\ Max(V) \in Int
      BY <1>1, <1>5, <1>6, <1>8
    <2> QED
      BY <1>9, <1>10, <2>1
  <1> QED
    BY <1>11 DEF V, G, m

\* One bucket for each value, and one more where only missing keys stand for null.
LEMMA KeysAre ==
  ASSUME NEW R, IsFiniteSet(R), NEW g
  PROVE  Cardinality({ValueKey(R, g)[r] : r \in R}) =
           Cardinality({r[g] : r \in R} \ {Missing})
             + (IF \E r \in R : r[g] = Missing /\ Null \notin {x[g] : x \in R} THEN 1 ELSE 0)
  <1> DEFINE K == {ValueKey(R, g)[r] : r \in R}
             present == {r[g] : r \in R} \ {Missing}
             lacking == \E r \in R : r[g] = Missing
  <1>1. Null # Missing
    BY DEF Null, Missing, Value
  <1>2. \A r \in R : ValueKey(R, g)[r] = IF r[g] = Missing THEN Null ELSE r[g]
    BY DEF ValueKey
  <1>3. K = IF lacking THEN present \cup {Null} ELSE present
    BY <1>2
  <1>4. IsFiniteSet(present) /\ Cardinality(present) \in Nat
    <2> DEFINE value == [r \in R |-> r[g]]
               all == {value[r] : r \in R}
    <2>1. present \in SUBSET all
      OBVIOUS
    <2>2. IsFiniteSet(all)
      <3> HIDE DEF value
      <3> QED
        BY Image
    <2> HIDE DEF all, present
    <2> QED
      BY <2>1, <2>2, FS_Subset, FS_CardinalityType
  <1>5. Null \in present <=> Null \in {x[g] : x \in R}
    BY <1>1
  <1>6. CASE lacking /\ Null \notin present
    <2>1. K = present \cup {Null}
      BY <1>3, <1>6
    <2> HIDE DEF K, present
    <2>2. Cardinality(K) = Cardinality(present) + 1
      BY <1>4, <1>6, <2>1, FS_AddElement
    <2> QED
      BY <1>5, <1>6, <2>2 DEF K, present
  <1>7. CASE ~(lacking /\ Null \notin present)
    <2>1. K = present
      BY <1>3, <1>7
    <2>2. ~\E r \in R : r[g] = Missing /\ Null \notin {x[g] : x \in R}
      BY <1>5, <1>7
    <2>3. Cardinality(K) = Cardinality(present) + 0
      BY <1>4, <2>1
    <2> QED
      BY <2>2, <2>3
  <1> QED
    BY <1>6, <1>7

\* A limit of n leaves n groups, as no two keys share a place.
LEMMA CutTo ==
  ASSUME NEW R, IsFiniteSet(R), NEW key, \A r \in R : key[r] \in Json,
         NEW n \in 0..Cardinality(Grouped(R, key))
  PROVE  Cardinality(Cut(Grouped(R, key), n)) = n
  <1> DEFINE G == Grouped(R, key)
             before == [g \in G |-> Earlier(G, g)]
  <1>1. IsFiniteSet(G) /\ Shares(G, R, key) /\ Cardinality(G) \in Nat
    BY Groups, FS_CardinalityType
  <1>2. n \in 0..Cardinality(G)
    OBVIOUS
  <1>3. n # Nil
    BY <1>1, <1>2, ValuesAssumption
  <1> HIDE DEF G
  <1>4. \A g \in G : g.key \in Json
    BY <1>1 DEF Shares
  <1>5. Line(G, before)
    <2>1. before \in [G -> SUBSET G]
      BY DEF Earlier
    <2>2. \A g \in G : g \notin before[g]
      BY <1>4, KeysInLine DEF Earlier
    <2>3. \A g, h \in G : g # h => g \in before[h] \/ h \in before[g]
      BY <1>1, <1>4, KeysInLine DEF Earlier, Shares
    <2>4. \A g, h, i \in G : g \in before[h] /\ h \in before[i] => g \in before[i]
      <3>1. ASSUME NEW g \in G, NEW h \in G, NEW i \in G, g \in before[h], h \in before[i]
            PROVE  g \in before[i]
        <4>1. value_total_cmp(g.key, h.key) = -1 /\ value_total_cmp(h.key, i.key) = -1
          BY <3>1 DEF Earlier
        <4>2. value_total_cmp(g.key, i.key) = -1
          BY <1>4, <4>1, KeysInLine
        <4> QED
          BY <4>2 DEF Earlier
      <3> QED
        BY <3>1
    <2> HIDE DEF before
    <2> QED
      BY <2>1, <2>2, <2>3, <2>4 DEF Line
  <1>6. \A g \in G : before[g] = Earlier(G, g)
    OBVIOUS
  <1> HIDE DEF before
  <1>7. Cardinality({g \in G : Cardinality(before[g]) < n}) = n
    BY <1>1, <1>2, <1>5, FirstFew
  <1>8. Cut(G, n) = {g \in G : Cardinality(before[g]) < n}
    BY <1>3, <1>6 DEF Cut
  <1>9. Cardinality(Cut(G, n)) = n
    BY <1>7, <1>8
  <1> QED
    BY <1>9 DEF G

\* The rows from b's key on that come before the next key of B.
From(D, f, B, b) ==
  {r \in D : /\ Instant[b.key.v] <= Instant[r[f].v]
             /\ \A i \in {Instant[c.key.v] : c \in B} : i <= Instant[r[f].v] => i <= Instant[b.key.v]}

\* They are what a histogram's bucket holds.
LEMMA BetweenStarts ==
  ASSUME NEW R \in SUBSET Row, IsFiniteSet(R), NEW g \in Fields, NEW w \in Intervals,
         NEW m, NEW B, B = Buckets(Grouped(DatedRows(R, g), StartKey(R, g, w)), m), NEW b \in B
  PROVE  b.value = m[From(DatedRows(R, g), g, B, b)]
  <1> DEFINE D == DatedRows(R, g)
             key == StartKey(R, g, w)
             G == Grouped(D, key)
             at(r) == Instant[r[g].v]
             start(r) == Starts[w][at(r)]
             starts == {Instant[c.key.v] : c \in B}
             own == From(D, g, B, b)
  <1>1. ASSUME NEW r \in D
        PROVE  /\ at(r) \in DOMAIN Rfc3339 /\ at(r) \in Int
               /\ start(r) \in DOMAIN Rfc3339 /\ start(r) \in Int
               /\ start(r) <= at(r) /\ Starts[w][start(r)] = start(r)
    <2>1. r[g] \in Cell
      BY DEF Row, Cell, DatedRows
    <2>2. r[g].v \in Texts /\ at(r) # Nil
      BY <2>1, Cells DEF DatedRows
    <2>3. DOMAIN Rfc3339 = {Instant[s] : s \in Texts} \ {Nil} /\ DOMAIN Rfc3339 \subseteq Int
      BY AggregatesAssumption, ValuesAssumption
    <2>4. at(r) \in DOMAIN Rfc3339
      BY <2>2, <2>3
    <2>5. start(r) \in DOMAIN Rfc3339
      <3>1. Starts[w] \in [DOMAIN Rfc3339 -> DOMAIN Rfc3339]
        BY AggregatesAssumption
      <3> HIDE DEF at
      <3> QED
        BY <2>4, <3>1
    <2> HIDE DEF at
    <2> QED
      BY <2>3, <2>4, <2>5, AggregatesAssumption
  <1>2. ASSUME NEW r \in D
        PROVE  key[r] = Str(Rfc3339[start(r)]) /\ Instant[key[r].v] = start(r)
    <2>1. key[r] = Str(Rfc3339[start(r)])
      BY DEF StartKey
    <2>2. Instant[Rfc3339[start(r)]] = start(r)
      BY <1>1, ValuesAssumption
    <2> HIDE DEF start, key
    <2> QED
      BY <2>1, <2>2 DEF Str, Value
  <1>3. IsFiniteSet(D) /\ Shares(G, D, key)
    <2>1. D \in SUBSET R
      BY DEF DatedRows
    <2>2. IsFiniteSet(D)
      BY <2>1, FS_Subset
    <2> HIDE DEF D, key
    <2> QED
      BY <2>2, Groups
  <1>4. ASSUME NEW c \in B
        PROVE  \E h \in G : c.key = h.key /\ c.value = m[h.rows]
    <2>1. \E h \in G : c = [key |-> h.key, value |-> m[h.rows]]
      BY DEF Buckets
    <2> HIDE DEF G
    <2> QED
      BY <2>1
  <1>5. ASSUME NEW h \in G
        PROVE  \E c \in B : c.key = h.key
    <2> DEFINE c == [key |-> h.key, value |-> m[h.rows]]
    <2>1. c \in B
      BY DEF Buckets
    <2> HIDE DEF G
    <2> QED
      BY <2>1
  <1> HIDE DEF G, D, key, start, at
  <1>6. ASSUME NEW c \in B
        PROVE  \E r \in D : c.key = key[r] /\ Instant[c.key.v] = start(r)
    BY <1>2, <1>3, <1>4 DEF Shares
  <1>7. ASSUME NEW r \in D
        PROVE  start(r) \in starts
    <2>1. PICK c \in B : c.key = key[r]
      BY <1>3, <1>5 DEF Shares
    <2> QED
      BY <1>2, <2>1
  <1>8. PICK h \in G : b.key = h.key /\ b.value = m[h.rows]
    BY <1>4 DEF G, D, key
  <1>9. PICK o \in D : b.key = key[o] /\ Instant[b.key.v] = start(o)
    BY <1>6 DEF G, D, key
  <1>10. h.rows = {r \in D : key[r] = key[o]}
    BY <1>3, <1>8, <1>9 DEF Shares
  <1>11. ASSUME NEW r \in D
         PROVE  key[r] = key[o] <=> start(r) = start(o)
    BY <1>2
  <1>12. ASSUME NEW r \in D, start(r) = start(o)
         PROVE  r \in own
    <2>1. start(o) <= at(r)
      BY <1>1, <1>12
    <2>2. ASSUME NEW c \in B, Instant[c.key.v] <= at(r)
          PROVE  Instant[c.key.v] <= start(o)
      <3>1. PICK x \in D : Instant[c.key.v] = start(x)
        BY <1>6
      <3>2. /\ start(x) \in DOMAIN Rfc3339 /\ at(r) \in DOMAIN Rfc3339 /\ start(x) <= at(r)
            /\ Starts[w][start(x)] = start(x)
        BY <1>1, <2>2, <3>1
      <3>3. Starts[w][start(x)] <= Starts[w][at(r)]
        BY <3>2, AggregatesAssumption
      <3>4. Starts[w][at(r)] = start(r)
        BY DEF start
      <3> QED
        BY <1>12, <3>1, <3>2, <3>3, <3>4
    <2> QED
      BY <1>9, <2>1, <2>2 DEF From, at
  <1>13. ASSUME NEW r \in own
         PROVE  r \in D /\ start(r) = start(o)
    <2>1. r \in D /\ start(o) <= at(r) /\ \A i \in starts : i <= at(r) => i <= start(o)
      BY <1>9 DEF From, at
    <2>2. start(r) <= start(o)
      BY <1>1, <1>7, <2>1
    <2>3. /\ start(o) \in DOMAIN Rfc3339 /\ at(r) \in DOMAIN Rfc3339
          /\ Starts[w][start(o)] = start(o)
      BY <1>1, <2>1
    <2>4. Starts[w][start(o)] <= Starts[w][at(r)]
      BY <2>1, <2>3, AggregatesAssumption
    <2>5. Starts[w][at(r)] = start(r)
      BY DEF start
    <2> QED
      BY <1>1, <2>1, <2>2, <2>3, <2>4, <2>5
  <1>14. h.rows = own
    <2> HIDE DEF own
    <2> QED
      BY <1>10, <1>11, <1>12, <1>13
  <1> QED
    BY <1>8, <1>14 DEF D

\* The records of a store are finitely many rows.
LEMMA RowsOfAStore ==
  ASSUME NEW s, DOMAIN s = Texts, \A k \in Texts : s[k] = Nil \/ s[k] \in RowsAt[k],
         IsFiniteSet({k \in Texts : s[k] # Nil})
  PROVE  RowsOf(s) \in SUBSET Row /\ IsFiniteSet(RowsOf(s))
  <1> DEFINE K == {k \in Texts : s[k] # Nil}
  <1>1. \A k \in K : s[k] \in Row
    BY Rows
  <1>2. RowsOf(s) = {s[k] : k \in K}
    BY DEF RowsOf
  <1>3. IsFiniteSet({s[k] : k \in K})
    <2> HIDE DEF K
    <2> QED
      BY Image DEF K
  <1> HIDE DEF K
  <1> QED
    BY <1>1, <1>2, <1>3

\* The buckets by a value, of any rows.
LEMMA ValueBuckets ==
  ASSUME NEW R \in SUBSET Row, IsFiniteSet(R), NEW f \in Fields, NEW g \in Fields
  PROVE  ByValueAddUp(R, f, g)
  <1> DEFINE measure(what) == [of |-> what, field |-> f]
             key == ValueKey(R, g)
             G == Grouped(R, key)
             by(what, limit) == aggregate(R, measure(what), [field |-> g, by |-> "value"], limit).buckets
             all(what) == measure_value(measure(what), R)
             total(buckets) == SumFunction([b \in buckets |-> b.value])
             keys == Cardinality(by("count", Nil))
  <1>1. \A what, limit : by(what, limit) = Buckets(Cut(G, limit), Measured(measure(what), R))
    BY ByValue
  <1>2. Cut(G, Nil) = G
    BY DEF Cut
  <1>3. \A what : by(what, Nil) = Buckets(G, Measured(measure(what), R))
    BY <1>1, <1>2
  <1>4. \A what : Measured(measure(what), R)[R] = OrZero(all(what))
    BY DEF Measured
  <1>5. Measured(measure("count"), R)[R] = Cardinality(R) /\ all("count") = Cardinality(R)
    <2>1. Measured(measure("count"), R)[R] = Cardinality(R)
      BY CountsAdd
    <2>2. all("count") = Cardinality(R)
      BY DEF measure_value
    <2> QED
      BY <2>1, <2>2
  <1>6. total(by("count", Nil)) = all("count")
    <2>1. Additive(Measured(measure("count"), R), R)
      BY CountsAdd
    <2>2. total(Buckets(G, Measured(measure("count"), R))) = Measured(measure("count"), R)[R]
      BY <2>1, BucketTotal
    <2> HIDE DEF by, all, total, G, measure
    <2> QED
      BY <1>3, <1>5, <2>2
  <1>7. total(by("sum", Nil)) = OrZero(all("sum"))
    <2>1. Additive(Measured(measure("sum"), R), R)
      BY SumsAdd
    <2>2. total(Buckets(G, Measured(measure("sum"), R))) = Measured(measure("sum"), R)[R]
      BY <2>1, BucketTotal
    <2> HIDE DEF by, all, total, G, measure
    <2> QED
      BY <1>3, <1>4, <2>2
  <1>8. ASSUME R # {}, \A r \in R : r[f].t = "num" => r[f].v >= 0
        PROVE  Max({b.value : b \in by("max", Nil)}) = OrZero(all("max"))
    <2>1. Max({b.value : b \in Buckets(G, Measured(measure("max"), R))}) = Measured(measure("max"), R)[R]
      BY <1>8, LargestOfAll
    <2> HIDE DEF by, all, G, measure
    <2> QED
      BY <1>3, <1>4, <2>1
  <1>9. keys = Cardinality(G) /\ Cardinality(G) = Cardinality({key[r] : r \in R})
    <2>1. G \in SUBSET G
      OBVIOUS
    <2>2. Cardinality(Buckets(G, Measured(measure("count"), R))) = Cardinality(G)
      BY <2>1, BucketCount
    <2>3. Cardinality(G) = Cardinality({key[r] : r \in R})
      BY Groups
    <2> HIDE DEF by, G, measure, key
    <2> QED
      BY <1>3, <2>2, <2>3
  <1>10. keys = measure_value([of |-> "distinct", field |-> g], R)
                  + (IF \E r \in R : r[g] = Missing /\ Null \notin {x[g] : x \in R} THEN 1 ELSE 0)
    <2>1. measure_value([of |-> "distinct", field |-> g], R) = Cardinality({r[g] : r \in R} \ {Missing})
      BY DEF measure_value
    <2>2. Cardinality({key[r] : r \in R}) = Cardinality({r[g] : r \in R} \ {Missing})
            + (IF \E r \in R : r[g] = Missing /\ Null \notin {x[g] : x \in R} THEN 1 ELSE 0)
      BY KeysAre
    <2> HIDE DEF keys, G, key
    <2> QED
      BY <1>9, <2>1, <2>2
  <1>11. ASSUME NEW limit \in 0..keys
         PROVE  Cardinality(by("count", limit)) = limit
    <2>1. \A r \in R : key[r] \in Json
      <3>1. \A r \in R : r[g] \in Json \cup {Missing}
        BY DEF Row
      <3>2. Null \in Json
        BY DEF Json
      <3> QED
        BY <3>1, <3>2 DEF ValueKey
    <2>2. limit \in 0..Cardinality(G)
      BY <1>9
    <2>3. Cardinality(Cut(G, limit)) = limit
      <3> HIDE DEF key
      <3> QED
        BY <2>1, <2>2, CutTo
    <2>4. Cut(G, limit) \in SUBSET G
      BY DEF Cut
    <2>5. Cardinality(Buckets(Cut(G, limit), Measured(measure("count"), R))) = Cardinality(Cut(G, limit))
      BY <2>4, BucketCount
    <2> HIDE DEF by, G, measure
    <2> QED
      BY <1>1, <2>3, <2>5
  <1> QED
    BY <1>6, <1>7, <1>8, <1>10, <1>11 DEF ByValueAddUp, OrZero

\* The buckets of a histogram, of any rows.
LEMMA StartBuckets ==
  ASSUME NEW R \in SUBSET Row, IsFiniteSet(R), NEW g \in Fields, NEW w \in Intervals
  PROVE  ByStartAddUp(R, g, w)
  <1> DEFINE D == DatedRows(R, g)
             m == Measured([of |-> "count", field |-> g], D)
             buckets ==
               aggregate(R, [of |-> "count", field |-> g], [field |-> g, by |-> w], Nil).buckets
             B == Buckets(Grouped(D, StartKey(R, g, w)), m)
  <1>1. IsFiniteSet(D)
    BY FS_Subset DEF DatedRows
  <1>2. buckets = B
    BY ByStart
  <1>3. Additive(m, D) /\ \A T \in SUBSET D : m[T] = Cardinality(T)
    <2> HIDE DEF D
    <2> QED
      BY <1>1, CountsAdd
  <1>4. SumFunction([b \in buckets |-> b.value]) = Cardinality(D)
    <2> HIDE DEF D, m
    <2>1. SumFunction([b \in B |-> b.value]) = m[D]
      BY <1>1, <1>3, BucketTotal
    <2> HIDE DEF B, buckets
    <2> QED
      BY <1>2, <1>3, <2>1
  <1>5. ASSUME NEW b \in buckets
        PROVE  b.value = Cardinality(From(D, g, buckets, b))
    <2>1. b.value = m[From(D, g, buckets, b)]
      <3> HIDE DEF m, buckets
      <3> QED
        BY <1>2, BetweenStarts
    <2>2. From(D, g, buckets, b) \in SUBSET D
      BY DEF From
    <2> HIDE DEF m, D, buckets
    <2> QED
      BY <1>3, <2>1, <2>2
  <1> QED
    BY <1>4, <1>5 DEF ByStartAddUp, From, DatedRows

\* The buckets of an aggregation share out the rows they were made of, for every store to begin
\* with, as the run states it.
THEOREM BucketsAddUpAlways == Spec => []BucketsAddUp
  <1>1. ASSUME NEW s \in Seeds
        PROVE  RowsOf(s) \in SUBSET Row /\ IsFiniteSet(RowsOf(s))
    BY ResourcesAssumption, RowsOfAStore
  <1>2. BucketsAddUp
    BY <1>1, ValueBuckets, StartBuckets DEF BucketsAddUp
  <1> QED
    BY <1>2, PTL

\* They do so for the store at any time, whatever the requests have written to it.
THEOREM EveryStoreAddsUp ==
  Spec => [](\A g \in Fields : /\ \A f \in Fields : ByValueAddUp(RowsOf(store), f, g)
                             /\ \A w \in Intervals : ByStartAddUp(RowsOf(store), g, w))
  <1>1. ASSUME TypeOK
        PROVE  \A g \in Fields : /\ \A f \in Fields : ByValueAddUp(RowsOf(store), f, g)
                               /\ \A w \in Intervals : ByStartAddUp(RowsOf(store), g, w)
    <2>1. RowsOf(store) \in SUBSET Row /\ IsFiniteSet(RowsOf(store))
      BY <1>1, RowsOfAStore DEF TypeOK, StoreOK
    <2> QED
      BY <2>1, ValueBuckets, StartBuckets
  <1> QED
    BY <1>1, TypeCorrect, PTL
=============================================================================
