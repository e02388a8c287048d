------------------------------ MODULE Listing ------------------------------
(***************************************************************************)
(* What a list request shows: the query that list_handler builds from the  *)
(* request's parameters (application/query.rs, handlers/list.rs), what     *)
(* InMemoryAdapter::list answers (core/src/in_memory.rs), and the pager    *)
(* around the answer (handlers/helpers.rs).  A store maps an id to its     *)
(* row or Nil.  A page is the set of its rows; where a row stands is its   *)
(* rank, the number of listed rows before it.                              *)
(***************************************************************************)
EXTENDS Values

CONSTANTS
  Contained,      \* <<part, whole>>: str::contains
  Prefixed,       \* <<part, whole>>: str::starts_with
  FoldContained,  \* <<part, whole>>: contains after to_lowercase of both
  Truthy,         \* the texts "true" and "1"
  Falsy,          \* the texts "false" and "0"
  Filters,        \* Resource::filters, a set of [field, op]
  SearchFields,   \* Resource::search_fields
  DefaultSort     \* Resource::default_sort

FilterOps == {"eq", "ne", "gt", "gte", "lt", "lte", "in", "notin", "contains", "startswith",
              "isnull", "isnotnull", "fulltext"}
SortKey == [field: Fields, dir: {"asc", "desc"}, nulls: {"first", "last", "default"}]

\* A cursor is a token for an index; one that the adapter did not make reads as none.
Cursor == [token: {"index", "other"}, index: Nat]

ASSUME ListingAssumption ==
  /\ Filters \subseteq [field: Fields, op: FilterOps]
  /\ SearchFields \subseteq Fields
  /\ DefaultSort \in Seq(SortKey)
  /\ Nil \notin Cursor

\* What the adapter offers; list_handler asks it before it sorts, searches, filters and pages.
capabilities ==
  [pagination |-> "both", totals |-> TRUE, search |-> "fulltext", sort |-> TRUE,
   filter_ops |-> FilterOps]

----------------------------------------------------------------------------
(* Comparison of values. *)

Compare(x, y) == CASE x < y -> -1 [] x = y -> 0 [] x > y -> 1

\* Serialized forms of different types differ in their first byte: " - [ f n t.
FirstByte(a) ==
  CASE a.t = "str" -> 1 [] a.t = "num" -> 2 [] a.t = "arr" -> 3
    [] a = Bool(FALSE) -> 4 [] a.t = "null" -> 5 [] OTHER -> 6

cmp_serialized(a, b) ==
  IF a.t = b.t THEN Compare(a.v, b.v) ELSE Compare(FirstByte(a), FirstByte(b))

cmp_values(a, b) == IF a.t = b.t /\ a.t \in {"num", "str"} THEN Compare(a.v, b.v) ELSE Nil

value_total_cmp(a, b) ==
  CASE a.t # "null" /\ b.t # "null" -> cmp_serialized(a, b)
    [] a.t = "null" /\ b.t # "null" -> -1
    [] a.t # "null" /\ b.t = "null" -> 1
    [] OTHER -> 0

----------------------------------------------------------------------------
(* Filters.  A filter value has a type and a value as JSON has, and three  *)
(* types more: "date" (an instant), "in" (a set of JSON values), "range".  *)

eq_match(field, value) ==
  CASE value.t = "null" -> field.t \in {"missing", "null"}
    [] value.t = "date" -> field.t = "str" /\ Instant[field.v] = value.v
    [] value.t \in {"in", "range"} -> FALSE
    [] OTHER -> field = value

\* A bound that is no number does not constrain.
range_match(field, range) ==
  /\ field.t = "num"
  /\ range.gte.t = "num" => field.v >= range.gte.v
  /\ range.lte.t = "num" => field.v <= range.lte.v

\* Mutant: Gte leaves out the bound itself.
order_match_GteExclusive(field, op, value) ==
  LET bound == IF value.t = "date" THEN Str(Rfc3339[value.v]) ELSE value
      ord == IF value.t \in {"num", "str", "date"} THEN cmp_values(field, bound) ELSE Nil IN
  CASE op \in {"gt", "gte"} -> ord = 1
    [] op = "lt" -> ord = -1
    [] op = "lte" -> ord \in {-1, 0}

\* Gt, Gte, Lt, Lte: in the order of numbers or of strings; an instant as its RFC 3339 string.
order_match(field, op, value) ==
  LET bound == IF value.t = "date" THEN Str(Rfc3339[value.v]) ELSE value
      ord == IF value.t \in {"num", "str", "date"} THEN cmp_values(field, bound) ELSE Nil IN
  CASE op = "gt" -> ord = 1
    [] op = "gte" -> ord \in {0, 1}
    [] op = "lt" -> ord = -1
    [] op = "lte" -> ord \in {-1, 0}

\* Contains, StartsWith, FullText: of one string in another.
text_match(field, op, value) ==
  /\ field.t = "str" /\ value.t = "str"
  /\ <<value.v, field.v>> \in (CASE op = "contains" -> Contained
                                 [] op = "startswith" -> Prefixed
                                 [] op = "fulltext" -> FoldContained)

is_in(field, value) == field.t # "missing" /\ field \in value.v

op_match(field, op, value) ==
  CASE op = "eq" -> eq_match(field, value)
    [] op = "ne" -> ~eq_match(field, value)
    [] op \in {"gt", "gte", "lt", "lte"} -> order_match(field, op, value)
    [] op = "in" -> value.t = "in" /\ is_in(field, value)
    [] op = "notin" -> value.t = "in" /\ ~is_in(field, value)
    [] op \in {"contains", "startswith", "fulltext"} -> text_match(field, op, value)
    [] op = "isnull" -> field.t \in {"missing", "null"}
    [] op = "isnotnull" -> field.t \notin {"missing", "null"}

\* One predicate over one row.  A range is one under Eq only.
eval_field(row, field, op, value) ==
  IF op = "eq" /\ value.t = "range" THEN range_match(row[field], value)
                                    ELSE op_match(row[field], op, value)

\* A parameter as a filter value of the field's kind, or Missing: no filter then.
coerce(kind, raw) ==
  CASE kind \in Numeric -> IF Numeral[raw] = Nil THEN Missing ELSE Num(Numeral[raw])
    [] kind = "boolean" -> IF raw \in Truthy \cup Falsy THEN Bool(raw \in Truthy) ELSE Missing
    [] kind \in Dated -> IF Instant[raw] = Nil THEN Missing ELSE Value("date", Instant[raw])
    [] OTHER -> IF raw = 0 THEN Missing ELSE Str(raw)

value_to_json(value) == IF value.t = "date" THEN Str(Rfc3339[value.v]) ELSE value

\* The parameters of a list request: params[f] is the one named as the field, min[f] and max[f]
\* those of its range; Nil when absent.
Bound(kind, raw) == IF raw = Nil THEN Missing ELSE value_to_json(coerce(kind, raw))

\* The filter: one predicate for each spec with a value and one for each field with a range.
\* A range is asked for as Gte.
build_filter(p) ==
  LET specs == {s \in Filters : /\ s.op \in capabilities.filter_ops /\ p.params[s.field] # Nil
                                /\ coerce(Field[s.field].kind, p.params[s.field]) # Missing}
      ranges == {f \in Fields : /\ Field[f].kind \in Numeric \cup Dated
                                /\ p.min[f] # Nil \/ p.max[f] # Nil}
      predicate(s) ==
        LET value == coerce(Field[s.field].kind, p.params[s.field]) IN
        [field |-> s.field, op |-> s.op,
         value |-> IF s.op \in {"in", "notin"} THEN Value("in", {value_to_json(value)}) ELSE value]
      range(f) ==
        [field |-> f, op |-> "gte",
         value |-> [t |-> "range", gte |-> Bound(Field[f].kind, p.min[f]),
                                   lte |-> Bound(Field[f].kind, p.max[f])]] IN
  {predicate(s) : s \in specs} \cup {range(f) : f \in ranges}

\* Every predicate must hold: build_filter joins them with And, and makes no Or and no Not.
eval_filter(filter, row) == \A n \in filter : eval_field(row, n.field, n.op, n.value)

matches_search(row, term) ==
  \E f \in SearchFields : row[f].t = "str" /\ <<term, row[f].v>> \in FoldContained

----------------------------------------------------------------------------
(* The query of a list request. *)

\* The sort asked for when the field can be sorted by, else the resource's own.
request_sort(sort) ==
  IF capabilities.sort /\ sort # Nil /\ sort.field \in Fields /\ Field[sort.field].sortable
    THEN <<[field |-> sort.field, dir |-> sort.dir, nulls |-> "default"]>> ELSE DefaultSort

\* The term, when there is one to look for and somewhere to look.
request_search(q) ==
  IF capabilities.search = "none" \/ q = Nil \/ SearchFields = {} THEN Nil
  ELSE IF Trim[q] = 0 THEN Nil ELSE Trim[q]

page_of(p) == IF p.page = Nil \/ p.page < 1 THEN 1 ELSE p.page
per_page_of(p) ==
  CASE p.per_page = Nil -> 25
    [] p.per_page # Nil /\ p.per_page < 1 -> 1
    [] p.per_page # Nil /\ p.per_page > 100 -> 100
    [] OTHER -> p.per_page

list_query(p) ==
  [filter |-> build_filter(p), search |-> request_search(p.q), sort |-> request_sort(p.sort)]

----------------------------------------------------------------------------
(* InMemoryAdapter::list. *)

listed(store, query) ==
  {i \in DOMAIN store : /\ store[i] # Nil
                        /\ eval_filter(query.filter, store[i])
                        /\ query.search # Nil => matches_search(store[i], query.search)}

IsNull(v) == v.t \in {"missing", "null"}

\* Postgres places nulls last ascending and first descending.
NullsFirst(key) == key.nulls = "first" \/ (key.nulls = "default" /\ key.dir = "desc")

\* Mutant: values of different types count as equal.
value_cmp_Untyped(a, b) == IF cmp_values(a, b) # Nil THEN cmp_values(a, b) ELSE 0

\* In the order of values, or of serialized forms when the two are of no common order.
value_cmp(a, b) == IF cmp_values(a, b) # Nil THEN cmp_values(a, b) ELSE cmp_serialized(a, b)

sort_cmp(a, b, key) ==
  CASE IsNull(a) /\ IsNull(b) -> 0
    [] IsNull(a) /\ ~IsNull(b) -> IF NullsFirst(key) THEN -1 ELSE 1
    [] ~IsNull(a) /\ IsNull(b) -> IF NullsFirst(key) THEN 1 ELSE -1
    [] OTHER -> IF key.dir = "asc" THEN value_cmp(a, b) ELSE -value_cmp(a, b)

\* Row a is placed before row b: by the first sort key that tells them apart, else by id.
precedes(a, b, sort) ==
  LET ord(k) == sort_cmp(a[sort[k].field], b[sort[k].field], sort[k]) IN
  \/ \E k \in DOMAIN sort : ord(k) = -1 /\ \A j \in 1..(k - 1) : ord(j) = 0
  \/ /\ \A k \in DOMAIN sort : ord(k) = 0
     /\ value_total_cmp(a["id"], b["id"]) = -1

\* The place of row i among rows, from 0.
rank(rows, store, sort, i) == Cardinality({j \in rows : precedes(store[j], store[i], sort)})

\* An index as a token, and back.
index_cursor(n) == [token |-> "index", index |-> n]
cursor_index(c) == IF c.token = "index" THEN c.index ELSE Nil

Min2(x, y) == IF x < y THEN x ELSE y
Minus(x, y) == IF x > y THEN x - y ELSE 0  \* saturating_sub

\* Mutant: the next page starts at the last row of this one.
Slice_Overlap(store, query, start, per_page) ==
  LET rows == listed(store, query)
      len == Cardinality(rows)
      end == Min2(start + per_page, len) IN
  [ids |-> {i \in rows : rank(rows, store, query.sort, i) \in start..(start + per_page - 1)},
   size |-> Minus(end, start),
   len |-> len,
   next |-> IF end < len THEN index_cursor(end - 1) ELSE Nil]

\* Mutant: the last page leads to the first.
Slice_Wrap(store, query, start, per_page) ==
  LET rows == listed(store, query)
      len == Cardinality(rows)
      end == Min2(start + per_page, len) IN
  [ids |-> {i \in rows : rank(rows, store, query.sort, i) \in start..(start + per_page - 1)},
   size |-> Minus(end, start),
   len |-> len,
   next |-> index_cursor(IF end < len THEN end ELSE 0)]

\* rows[start..end] and the cursor of the next page.  size is the length of the slice.
Slice(store, query, start, per_page) ==
  LET rows == listed(store, query)
      len == Cardinality(rows)
      end == Min2(start + per_page, len) IN
  [ids |-> {i \in rows : rank(rows, store, query.sort, i) \in start..(start + per_page - 1)},
   size |-> Minus(end, start),
   len |-> len,
   next |-> IF end < len THEN index_cursor(end) ELSE Nil]

\* Mutant: page 1 starts at row per_page.
OffsetStart_OneBased(page, per_page) == page * per_page

OffsetStart(page, per_page) == (page - 1) * per_page

\* Pagination::Offset; total is the number of rows, prev the start of the page before.
list_offset(store, query, page, per_page) ==
  LET s == Slice(store, query, OffsetStart(page, per_page), per_page) IN
  [ids |-> s.ids, size |-> s.size, total |-> s.len, next |-> s.next,
   prev |-> IF page > 1 THEN index_cursor((page - 2) * per_page) ELSE Nil]

\* Where a cursor page starts: at the index of after, or a page before that of before.
CursorStart(after, before, per_page) ==
  CASE after # Nil -> IF cursor_index(after) = Nil THEN 0 ELSE cursor_index(after)
    [] after = Nil /\ before # Nil ->
         IF cursor_index(before) = Nil THEN 0 ELSE Minus(cursor_index(before), per_page)
    [] OTHER -> 0

\* Pagination::Cursor counts nothing.
list_cursor(store, query, after, before, per_page) ==
  LET start == CursorStart(after, before, per_page)
      s == Slice(store, query, start, per_page) IN
  [ids |-> s.ids, size |-> s.size, total |-> Nil, next |-> s.next,
   prev |-> IF start > 0 THEN index_cursor(Minus(start, per_page)) ELSE Nil]

----------------------------------------------------------------------------
(* The pager.  A link keeps the request's parameters but page and sort.    *)

Link(p, n) == [p EXCEPT !.page = n, !.sort = Nil]

\* Mutant: whole pages only.
div_ceil_Floor(a, b) == a \div b

div_ceil(a, b) == (a + b - 1) \div b

Max2(x, y) == IF x > y THEN x ELSE y

\* Numbered pages when there are rows; a page of no rows at all has no numbers, and its previous
\* link carries the cursor as "before" beside an unchanged page.
build_pager(result, p) ==
  LET page == page_of(p)
      total_pages == div_ceil(result.total, per_page_of(p))
      start == Minus(page, 4)
      end == Max2(Min2(start + 9, total_pages), start + 1) IN
  IF result.total # Nil /\ result.total > 0
    THEN [mode |-> "numbered", current |-> page, total_pages |-> total_pages,
          page_links |-> (start + 1)..end,
          prev |-> IF page > 1 THEN Link(p, page - 1) ELSE Nil,
          next |-> IF page < total_pages THEN Link(p, page + 1) ELSE Nil]
    ELSE [mode |-> "prevnext", current |-> page, total_pages |-> Nil, page_links |-> {},
          prev |-> IF result.prev = Nil THEN Nil ELSE p, next |-> Nil]
=============================================================================
