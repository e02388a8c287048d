---------------------------- MODULE Listing_proofs ----------------------------
(***************************************************************************)
(* Lemmas about Listing, for every store, query and page length: where the *)
(* rows of a list stand, and what a slice of them holds.                   *)
(***************************************************************************)
EXTENDS Listing, FiniteSetTheorems, TLAPS

\* What a value holds is an integer.
LEMMA Contents ==
  ASSUME NEW v \in Json \cup {Missing}
  PROVE  v.v \in Int
  BY ValuesAssumption DEF Json, Missing, Null, Bool, Str, Num, Arr, Value

\* An integer is equal to itself.
LEMMA SameCompares ==
  ASSUME NEW x \in Int
  PROVE  Compare(x, x) = 0
  BY DEF Compare

\* The keys before a key of a sort are keys of it.
LEMMA SortKeys ==
  ASSUME NEW sort \in Seq(SortKey), NEW k \in DOMAIN sort
  PROVE  /\ sort[k] \in SortKey
         /\ k \in Nat /\ 1..(k - 1) \subseteq DOMAIN sort
  OBVIOUS

\* A row is not placed before itself.
LEMMA Irreflexive ==
  ASSUME NEW row \in Row, NEW sort \in Seq(SortKey)
  PROVE  ~precedes(row, row, sort)
  <1>1. ASSUME NEW v \in Json \cup {Missing}
        PROVE  cmp_values(v, v) \in {0, Nil} /\ cmp_serialized(v, v) = 0 /\ value_total_cmp(v, v) = 0
    <2>1. Compare(v.v, v.v) = 0
      BY Contents, SameCompares
    <2> QED
      BY <2>1 DEF cmp_values, cmp_serialized, value_total_cmp
  <1>2. ASSUME NEW v \in Json \cup {Missing}, NEW key
        PROVE  sort_cmp(v, v, key) = 0
    <2>1. value_cmp(v, v) = 0
      BY <1>1 DEF value_cmp
    <2>2. -value_cmp(v, v) = 0
      <3>1. 0 \in Int /\ \A x \in Int : (-x) \in Int /\ x + (-x) = 0
        OBVIOUS
      <3>2. \A x, y \in Int : x = 0 /\ x + y = 0 => y = 0
        OBVIOUS
      <3> QED
        BY <2>1, <3>1, <3>2, Zenon
    <2>3. CASE IsNull(v)
      BY <2>3 DEF sort_cmp
    <2>4. CASE ~IsNull(v)
      BY <2>1, <2>2, <2>4 DEF sort_cmp
    <2> QED
      BY <2>3, <2>4
  <1>3. \A k \in DOMAIN sort : sort_cmp(row[sort[k].field], row[sort[k].field], sort[k]) = 0
    BY <1>2, SortKeys DEF Row, SortKey
  <1>4. value_total_cmp(row["id"], row["id"]) = 0
    BY <1>1, ValuesAssumption DEF Row
  <1> QED
    BY <1>3, <1>4 DEF precedes

\* Whether a row is placed before another depends on what they hold in the fields of the sort
\* and in their ids.
LEMMA SamePlace ==
  ASSUME NEW sort \in Seq(SortKey), NEW a, NEW b, NEW c, NEW d,
         a["id"] = c["id"], b["id"] = d["id"],
         \A k \in DOMAIN sort : a[sort[k].field] = c[sort[k].field] /\ b[sort[k].field] = d[sort[k].field],
         precedes(a, b, sort)
  PROVE  precedes(c, d, sort)
  <1> DEFINE ord(k) == sort_cmp(a[sort[k].field], b[sort[k].field], sort[k])
             ord2(k) == sort_cmp(c[sort[k].field], d[sort[k].field], sort[k])
  <1>1. \A k \in DOMAIN sort : ord(k) = ord2(k)
    OBVIOUS
  <1>2. \/ \E k \in DOMAIN sort : ord(k) = -1 /\ \A j \in 1..(k - 1) : ord(j) = 0
        \/ /\ \A k \in DOMAIN sort : ord(k) = 0
           /\ value_total_cmp(a["id"], b["id"]) = -1
    BY DEF precedes
  <1> HIDE DEF ord, ord2
  <1>3. \/ \E k \in DOMAIN sort : ord2(k) = -1 /\ \A j \in 1..(k - 1) : ord2(j) = 0
        \/ /\ \A k \in DOMAIN sort : ord2(k) = 0
           /\ value_total_cmp(c["id"], d["id"]) = -1
    BY <1>1, <1>2, SortKeys
  <1> QED
    BY <1>3 DEF precedes, ord2

\* The place of a row is one of as many as there are rows.
LEMMA Places ==
  ASSUME NEW rows, IsFiniteSet(rows), NEW store, NEW sort \in Seq(SortKey), NEW i \in rows,
         store[i] \in Row
  PROVE  rank(rows, store, sort, i) \in 0..(Cardinality(rows) - 1)
  <1> DEFINE before == {j \in rows : precedes(store[j], store[i], sort)}
  <1>1. before \subseteq rows \ {i}
    BY Irreflexive
  <1>2. IsFiniteSet(rows \ {i}) /\ Cardinality(rows \ {i}) = Cardinality(rows) - 1
    BY FS_RemoveElement
  <1>3. /\ Cardinality(before) \in Nat /\ Cardinality(rows) \in Nat
        /\ Cardinality(before) <= Cardinality(rows \ {i})
    BY <1>1, <1>2, FS_Subset, FS_CardinalityType
  <1> QED
    BY <1>2, <1>3 DEF rank

\* Rows that keep their place, among more rows, have as many before them or more.
LEMMA PlacesGrow ==
  ASSUME NEW rows, NEW more, IsFiniteSet(more), rows \subseteq more,
         NEW store, NEW later, NEW sort \in Seq(SortKey),
         \A i \in rows : /\ store[i]["id"] = later[i]["id"]
                         /\ \A k \in DOMAIN sort : store[i][sort[k].field] = later[i][sort[k].field],
         NEW i \in rows
  PROVE  /\ rank(rows, store, sort, i) \in Nat /\ rank(more, later, sort, i) \in Nat
         /\ rank(rows, store, sort, i) <= rank(more, later, sort, i)
  <1> DEFINE before == {j \in rows : precedes(store[j], store[i], sort)}
             after == {j \in more : precedes(later[j], later[i], sort)}
  <1>1. before \subseteq after
    BY SamePlace
  <1>2. IsFiniteSet(after) /\ after \subseteq more
    BY FS_Subset
  <1>3. /\ Cardinality(before) \in Nat /\ Cardinality(after) \in Nat
        /\ Cardinality(before) <= Cardinality(after)
    BY <1>1, <1>2, FS_Subset, FS_CardinalityType
  <1> QED
    BY <1>3 DEF rank

----------------------------------------------------------------------------
(* Pages. *)

\* Division that rounds up.
LEMMA DivCeil ==
  ASSUME NEW a \in Nat, NEW b \in Nat, b > 0
  PROVE  /\ div_ceil(a, b) \in Nat
         /\ a <= div_ceil(a, b) * b
         /\ a > 0 => (div_ceil(a, b) - 1) * b < a
  <1> DEFINE n == a + b - 1
             d == n \div b
  <1>1. d \in Nat /\ b * d <= n /\ n < b * d + b
    OBVIOUS
  <1> HIDE DEF d
  <1>2. (d - 1) * b = b * d - b /\ d * b = b * d
    BY <1>1
  <1> QED
    BY <1>1, <1>2 DEF div_ceil, d

\* Slice holds the listed rows whose places are in its window; if a page comes after it, that
\* starts where this one stops, and if none does, the window reaches the last row.
LEMMA Slices ==
  ASSUME NEW store, NEW query, NEW start \in Nat, NEW per_page \in Nat, per_page > 0,
         Cardinality(listed(store, query)) \in Nat
  PROVE  LET rows == listed(store, query)
             s == Slice(store, query, start, per_page) IN
         /\ \A i \in rows : rank(rows, store, query.sort, i) \in Nat =>
              (i \in s.ids <=> /\ rank(rows, store, query.sort, i) >= start
                               /\ rank(rows, store, query.sort, i) < start + per_page)
         /\ s.ids \subseteq rows /\ s.len = Cardinality(rows)
         /\ s.next = Nil => Cardinality(rows) <= start + per_page
         /\ s.next # Nil => s.next = index_cursor(start + per_page)
         /\ s.size = 0 => Cardinality(rows) <= start
  <1> DEFINE rows == listed(store, query)
             s == Slice(store, query, start, per_page)
             end == Min2(start + per_page, Cardinality(rows))
  <1>1. index_cursor(end) # Nil
    <2>1. index_cursor(end) \in Cursor
      BY DEF index_cursor, Cursor, Min2
    <2> QED
      BY <2>1, ListingAssumption
  <1> QED
    BY <1>1 DEF Slice, Min2, Minus

----------------------------------------------------------------------------
(* The rows of a list stand in one line. *)

\* Of two integers one is less, or they are equal.
LEMMA ThreeWays ==
  ASSUME NEW x \in Int, NEW y \in Int
  PROVE  /\ Compare(x, y) \in {-1, 0, 1} /\ Compare(x, y) # Nil
         /\ Compare(x, y) = 0 <=> x = y
         /\ Compare(x, y) = -1 <=> x < y
         /\ Compare(x, y) = 1 <=> x > y
  BY ValuesAssumption DEF Compare

\* The order of values: first by the byte that their serialized form begins with, which tells
\* types apart, then by what they hold.
LEMMA ByteThenValue ==
  ASSUME NEW a \in Json, NEW b \in Json, a.t # "null", b.t # "null"
  PROVE  /\ FirstByte(a) \in Int /\ FirstByte(b) \in Int /\ a.v \in Int /\ b.v \in Int
         /\ value_cmp(a, b) = IF FirstByte(a) = FirstByte(b) THEN Compare(a.v, b.v)
                                                            ELSE Compare(FirstByte(a), FirstByte(b))
         /\ FirstByte(a) = FirstByte(b) /\ a.v = b.v => a = b
  <1> DEFINE Shape(v) ==
               \/ v.t = "str" /\ FirstByte(v) = 1 /\ v = Value("str", v.v)
               \/ v.t = "num" /\ FirstByte(v) = 2 /\ v = Value("num", v.v)
               \/ v.t = "arr" /\ FirstByte(v) = 3 /\ v = Value("arr", v.v)
               \/ v.t = "bool" /\ FirstByte(v) = 4 /\ v = Value("bool", 0) /\ v.v = 0
               \/ v.t = "bool" /\ FirstByte(v) = 6 /\ v = Value("bool", 1) /\ v.v = 1
  <1>1. ASSUME NEW v \in Json, v.t # "null"
        PROVE  Shape(v)
    <2>1. CASE \E x \in Texts : v = Str(x)
      BY <2>1 DEF FirstByte, Str, Bool, Value
    <2>2. CASE \E x \in Numbers : v = Num(x)
      BY <2>2 DEF FirstByte, Num, Bool, Value
    <2>3. CASE \E x \in Lists : v = Arr(x)
      BY <2>3 DEF FirstByte, Arr, Bool, Value
    <2>4. CASE v = Bool(FALSE)
      BY <2>4 DEF FirstByte, Bool, Value
    <2>5. CASE v = Bool(TRUE)
      BY <2>5 DEF FirstByte, Bool, Value
    <2>6. v # Null
      BY <1>1 DEF Null, Value
    <2> QED
      BY <2>1, <2>2, <2>3, <2>4, <2>5, <2>6 DEF Json
  <1>2. Shape(a) /\ Shape(b)
    BY <1>1
  <1>3. a.v \in Int /\ b.v \in Int
    BY Contents
  <1>4. /\ Compare(0, 0) = 0 /\ Compare(0, 1) = -1 /\ Compare(1, 0) = 1 /\ Compare(1, 1) = 0
        /\ Compare(4, 6) = -1 /\ Compare(6, 4) = 1
    BY DEF Compare
  <1>5. Compare(a.v, b.v) # Nil
    BY <1>3, ThreeWays
  <1>6. value_cmp(a, b) = IF a.t = b.t THEN Compare(a.v, b.v) ELSE Compare(FirstByte(a), FirstByte(b))
    BY <1>5 DEF value_cmp, cmp_values, cmp_serialized
  <1> QED
    BY <1>2, <1>3, <1>4, <1>6

\* What a row holds for a field.
Entry == Json \cup {Missing}

\* One key of a sort: it tells two values apart one way only, and what it puts in a row stays in
\* that order.
LEMMA OneKey ==
  ASSUME NEW a \in Entry, NEW b \in Entry, NEW c \in Entry,
         NEW key
  PROVE  /\ sort_cmp(a, b, key) \in {-1, 0, 1}
         /\ sort_cmp(a, b, key) = -1 <=> sort_cmp(b, a, key) = 1
         /\ sort_cmp(a, b, key) = 0 <=> sort_cmp(b, a, key) = 0
         /\ sort_cmp(a, b, key) = 0 /\ sort_cmp(b, c, key) = 0 => sort_cmp(a, c, key) = 0
         /\ sort_cmp(a, b, key) = -1 /\ sort_cmp(b, c, key) \in {-1, 0} => sort_cmp(a, c, key) = -1
         /\ sort_cmp(a, b, key) = 0 /\ sort_cmp(b, c, key) = -1 => sort_cmp(a, c, key) = -1
  <1> DEFINE Plain == {v \in Json : v.t # "null"}
             Sign(x, y) == IF FirstByte(x) = FirstByte(y) THEN Compare(x.v, y.v)
                                                          ELSE Compare(FirstByte(x), FirstByte(y))
  <1>1. \A v \in Entry : ~IsNull(v) => v \in Plain
    BY DEF Entry, IsNull, Missing, Value
  <1>2. \A x, y \in Plain : value_cmp(x, y) = Sign(x, y)
    BY ByteThenValue
  <1>3. \A x \in Plain : FirstByte(x) \in Int /\ x.v \in Int
    BY ByteThenValue
  <1>4. ASSUME NEW x \in Plain, NEW y \in Plain
        PROVE  /\ Sign(x, y) \in {-1, 0, 1}
               /\ Sign(x, y) = -1 <=> Sign(y, x) = 1
               /\ Sign(x, y) = 0 <=> Sign(y, x) = 0
               /\ Sign(x, y) = 1 <=> Sign(y, x) = -1
    BY <1>3, ThreeWays
  <1>5. ASSUME NEW x \in Plain, NEW y \in Plain, NEW z \in Plain
        PROVE  /\ Sign(x, y) \in {-1, 0} /\ Sign(y, z) \in {-1, 0} =>
                    Sign(x, z) = IF Sign(x, y) = 0 /\ Sign(y, z) = 0 THEN 0 ELSE -1
               /\ Sign(x, y) \in {1, 0} /\ Sign(y, z) \in {1, 0} =>
                    Sign(x, z) = IF Sign(x, y) = 0 /\ Sign(y, z) = 0 THEN 0 ELSE 1
    BY <1>3, ThreeWays DEF Compare
  <1>6. \A n \in {-1, 0, 1} : /\ -n \in {-1, 0, 1} /\ (-n = -1 <=> n = 1) /\ (-n = 1 <=> n = -1)
                              /\ (-n = 0 <=> n = 0)
    OBVIOUS
  <1> DEFINE D(x, y) == IF key.dir = "asc" THEN Sign(x, y) ELSE -Sign(x, y)
             first == IF NullsFirst(key) THEN -1 ELSE 1
             last == IF NullsFirst(key) THEN 1 ELSE -1
  <1>7. \A v \in Plain : ~IsNull(v)
    BY DEF IsNull, Json, Bool, Str, Num, Arr, Null, Value
  <1>8. ASSUME NEW x \in Entry, NEW y \in Entry
        PROVE  /\ IsNull(x) /\ IsNull(y) => sort_cmp(x, y, key) = 0
               /\ IsNull(x) /\ ~IsNull(y) => sort_cmp(x, y, key) = first
               /\ ~IsNull(x) /\ IsNull(y) => sort_cmp(x, y, key) = last
               /\ ~IsNull(x) /\ ~IsNull(y) => sort_cmp(x, y, key) = D(x, y)
    <2>1. ~IsNull(x) /\ ~IsNull(y) => value_cmp(x, y) = Sign(x, y)
      BY <1>1, <1>2
    <2> HIDE DEF Sign
    <2>2. CASE IsNull(x)
      BY <2>2 DEF sort_cmp
    <2>3. CASE ~IsNull(x) /\ IsNull(y)
      BY <2>3 DEF sort_cmp
    <2>4. CASE ~IsNull(x) /\ ~IsNull(y)
      BY <2>1, <2>4, Zenon DEF sort_cmp
    <2> QED
      BY <2>2, <2>3, <2>4
  <1> HIDE DEF Sign, Plain
  <1>9. ASSUME NEW x \in Plain, NEW y \in Plain
        PROVE  /\ D(x, y) \in {-1, 0, 1}
               /\ D(x, y) = -1 <=> D(y, x) = 1
               /\ D(x, y) = 0 <=> D(y, x) = 0
               /\ D(x, y) = 1 <=> D(y, x) = -1
    BY <1>4, <1>6
  <1>10. ASSUME NEW x \in Plain, NEW y \in Plain, NEW z \in Plain,
                D(x, y) \in {-1, 0}, D(y, z) \in {-1, 0}
         PROVE  D(x, z) = IF D(x, y) = 0 /\ D(y, z) = 0 THEN 0 ELSE -1
    BY <1>4, <1>5, <1>6, <1>10
  <1> HIDE DEF D
  <1>11. /\ sort_cmp(a, b, key) \in {-1, 0, 1}
         /\ sort_cmp(a, b, key) = -1 <=> sort_cmp(b, a, key) = 1
         /\ sort_cmp(a, b, key) = 0 <=> sort_cmp(b, a, key) = 0
    BY <1>1, <1>8, <1>9
  <1>12. ASSUME sort_cmp(a, b, key) \in {-1, 0}, sort_cmp(b, c, key) \in {-1, 0}
         PROVE  sort_cmp(a, c, key) = IF sort_cmp(a, b, key) = 0 /\ sort_cmp(b, c, key) = 0 THEN 0 ELSE -1
    BY <1>1, <1>8, <1>9, <1>10, <1>12
  <1> QED
    BY <1>11, <1>12

\* Among keys that do not all find two rows equal there is a first that does not.
LEMMA FirstKey ==
  ASSUME NEW K \in SUBSET Nat, K # {}
  PROVE  \E k \in K : \A j \in K : k <= j
  <1>1. PICK k \in K : \A j \in K : <<j, k>> \notin OpToRel(<, Nat)
    BY WFMin, NatLessThanWellFounded, Zenon
  <1>2. \A j \in K : ~(j < k)
    BY <1>1, Zenon DEF OpToRel
  <1> QED
    BY <1>2

\* Of two rows with different ids one is placed before the other.
LEMMA Total ==
  ASSUME NEW a \in Row, NEW b \in Row, NEW sort \in Seq(SortKey),
         NEW m \in Int, NEW n \in Int, m # n, a["id"] = Str(m), b["id"] = Str(n)
  PROVE  precedes(a, b, sort) \/ precedes(b, a, sort)
  <1> DEFINE ord(k) == sort_cmp(a[sort[k].field], b[sort[k].field], sort[k])
             rev(k) == sort_cmp(b[sort[k].field], a[sort[k].field], sort[k])
             K == {k \in DOMAIN sort : ord(k) # 0}
  <1>1. ASSUME NEW k \in DOMAIN sort
        PROVE  /\ ord(k) \in {-1, 0, 1}
               /\ ord(k) = 0 <=> rev(k) = 0
               /\ ord(k) = 1 => rev(k) = -1
    <2> DEFINE x == a[sort[k].field]
               y == b[sort[k].field]
    <2>1. x \in Entry /\ y \in Entry
      BY SortKeys DEF Row, SortKey, Entry
    <2> HIDE DEF x, y
    <2>2. /\ sort_cmp(x, y, sort[k]) \in {-1, 0, 1}
          /\ sort_cmp(x, y, sort[k]) = 0 <=> sort_cmp(y, x, sort[k]) = 0
          /\ sort_cmp(y, x, sort[k]) = -1 <=> sort_cmp(x, y, sort[k]) = 1
      BY <2>1, OneKey
    <2> QED
      BY <2>2 DEF x, y
  <1>2. DOMAIN sort \subseteq Nat
    BY SortKeys
  <1>3. CASE K = {}
    <2>1. \A k \in DOMAIN sort : ord(k) = 0 /\ rev(k) = 0
      BY <1>1, <1>3
    <2>2. value_total_cmp(a["id"], b["id"]) = Compare(m, n) /\ value_total_cmp(b["id"], a["id"]) = Compare(n, m)
      BY DEF value_total_cmp, cmp_serialized, Str, Value
    <2>3. Compare(m, n) = -1 \/ Compare(n, m) = -1
      BY DEF Compare
    <2> QED
      BY <2>1, <2>2, <2>3 DEF precedes
  <1>4. CASE K # {}
    <2>1. PICK k \in K : \A j \in K : k <= j
      BY <1>2, <1>4, FirstKey
    <2>2. \A j \in 1..(k - 1) : j \in DOMAIN sort /\ j \notin K
      BY <1>2, <2>1, SortKeys
    <2>3. \A j \in 1..(k - 1) : ord(j) = 0 /\ rev(j) = 0
      BY <1>1, <2>2
    <2>4. ord(k) = -1 \/ rev(k) = -1
      BY <1>1
    <2> QED
      BY <2>3, <2>4 DEF precedes
  <1> QED
    BY <1>3, <1>4

\* A row that is placed before another is placed before all that follow that.
LEMMA Transitive ==
  ASSUME NEW a \in Row, NEW b \in Row, NEW c \in Row, NEW sort \in Seq(SortKey),
         NEW l \in Int, NEW m \in Int, NEW n \in Int,
         a["id"] = Str(l), b["id"] = Str(m), c["id"] = Str(n),
         precedes(a, b, sort), precedes(b, c, sort)
  PROVE  precedes(a, c, sort)
  <1> DEFINE ab(k) == sort_cmp(a[sort[k].field], b[sort[k].field], sort[k])
             bc(k) == sort_cmp(b[sort[k].field], c[sort[k].field], sort[k])
             ac(k) == sort_cmp(a[sort[k].field], c[sort[k].field], sort[k])
  <1>1. ASSUME NEW k \in DOMAIN sort, ab(k) \in {-1, 0}, bc(k) \in {-1, 0}
        PROVE  ac(k) = IF ab(k) = 0 /\ bc(k) = 0 THEN 0 ELSE -1
    <2> DEFINE x == a[sort[k].field]
               y == b[sort[k].field]
               z == c[sort[k].field]
    <2>1. x \in Entry /\ y \in Entry /\ z \in Entry
      BY SortKeys DEF Row, SortKey, Entry
    <2>2. sort_cmp(x, y, sort[k]) \in {-1, 0} /\ sort_cmp(y, z, sort[k]) \in {-1, 0}
      BY <1>1
    <2> HIDE DEF x, y, z
    <2>3. /\ sort_cmp(x, y, sort[k]) = 0 /\ sort_cmp(y, z, sort[k]) = 0 => sort_cmp(x, z, sort[k]) = 0
          /\ sort_cmp(x, y, sort[k]) = -1 /\ sort_cmp(y, z, sort[k]) \in {-1, 0} =>
               sort_cmp(x, z, sort[k]) = -1
          /\ sort_cmp(x, y, sort[k]) = 0 /\ sort_cmp(y, z, sort[k]) = -1 => sort_cmp(x, z, sort[k]) = -1
      BY <2>1, OneKey
    <2> QED
      BY <2>2, <2>3 DEF x, y, z
  <1>2. \A k \in DOMAIN sort : k \in Nat /\ k >= 1 /\ 1..(k - 1) \subseteq DOMAIN sort
    BY SortKeys
  <1>3. /\ value_total_cmp(a["id"], b["id"]) = Compare(l, m)
        /\ value_total_cmp(b["id"], c["id"]) = Compare(m, n)
        /\ value_total_cmp(a["id"], c["id"]) = Compare(l, n)
    BY DEF value_total_cmp, cmp_serialized, Str, Value
  <1>4. \/ \E k \in DOMAIN sort : ab(k) = -1 /\ \A j \in 1..(k - 1) : ab(j) = 0
        \/ (\A k \in DOMAIN sort : ab(k) = 0) /\ Compare(l, m) = -1
    BY <1>3 DEF precedes
  <1>5. \/ \E k \in DOMAIN sort : bc(k) = -1 /\ \A j \in 1..(k - 1) : bc(j) = 0
        \/ (\A k \in DOMAIN sort : bc(k) = 0) /\ Compare(m, n) = -1
    BY <1>3 DEF precedes
  <1> HIDE DEF ab, bc, ac
  <1>6. \/ \E k \in DOMAIN sort : ac(k) = -1 /\ \A j \in 1..(k - 1) : ac(j) = 0
        \/ (\A k \in DOMAIN sort : ac(k) = 0) /\ Compare(l, n) = -1
    <2>1. ASSUME NEW k \in DOMAIN sort, ab(k) = -1, \A j \in 1..(k - 1) : ab(j) = 0,
                 NEW i \in DOMAIN sort, bc(i) = -1, \A j \in 1..(i - 1) : bc(j) = 0
          PROVE  \E f \in DOMAIN sort : ac(f) = -1 /\ \A j \in 1..(f - 1) : ac(j) = 0
      <3>1. CASE k <= i
        <4>1. ac(k) = -1 /\ \A j \in 1..(k - 1) : ac(j) = 0
          BY SMTT(40), <1>1, <1>2, <2>1, <3>1
        <4> QED
          BY <4>1
      <3>2. CASE i < k
        <4>1. ac(i) = -1 /\ \A j \in 1..(i - 1) : ac(j) = 0
          BY SMTT(40), <1>1, <1>2, <2>1, <3>2
        <4> QED
          BY <4>1
      <3> QED
        BY <1>2, <3>1, <3>2
    <2>2. ASSUME NEW k \in DOMAIN sort, ab(k) = -1, \A j \in 1..(k - 1) : ab(j) = 0,
                 \A j \in DOMAIN sort : bc(j) = 0
          PROVE  ac(k) = -1 /\ \A j \in 1..(k - 1) : ac(j) = 0
      BY <1>1, <1>2, <2>2
    <2>3. ASSUME NEW k \in DOMAIN sort, bc(k) = -1, \A j \in 1..(k - 1) : bc(j) = 0,
                 \A j \in DOMAIN sort : ab(j) = 0
          PROVE  ac(k) = -1 /\ \A j \in 1..(k - 1) : ac(j) = 0
      BY <1>1, <1>2, <2>3
    <2>4. ASSUME \A j \in DOMAIN sort : ab(j) = 0 /\ bc(j) = 0,
                 Compare(l, m) = -1, Compare(m, n) = -1
          PROVE  (\A k \in DOMAIN sort : ac(k) = 0) /\ Compare(l, n) = -1
      BY <1>1, <2>4 DEF Compare
    <2> QED
      BY <1>4, <1>5, <2>1, <2>2, <2>3, <2>4
  <1> QED
    BY <1>3, <1>6 DEF precedes, ac

\* What stands before each in a line.
Line(S, before) ==
  /\ before \in [S -> SUBSET S]
  /\ \A x \in S : x \notin before[x]
  /\ \A x, y \in S : x # y => x \in before[y] \/ y \in before[x]
  /\ \A x, y, z \in S : x \in before[y] /\ y \in before[z] => x \in before[z]

\* The numbers of what stands before each are those from 0, one each.
LEMMA Ranks ==
  ASSUME NEW S, IsFiniteSet(S), NEW before, Line(S, before)
  PROVE  /\ Cardinality(S) \in Nat
         /\ \A x \in S : Cardinality(before[x]) \in 0..(Cardinality(S) - 1)
         /\ \A x, y \in S : Cardinality(before[x]) = Cardinality(before[y]) => x = y
         /\ \A n \in 0..(Cardinality(S) - 1) : \E x \in S : Cardinality(before[x]) = n
  <1> DEFINE n == Cardinality(S)
             place(x) == Cardinality(before[x])
             f == [x \in S |-> place(x)]
  <1> USE DEF Line
  <1>1. n \in Nat
    BY FS_CardinalityType
  <1>2. ASSUME NEW x \in S
        PROVE  IsFiniteSet(before[x]) /\ Cardinality(before[x]) \in Nat
    BY FS_Subset, FS_CardinalityType
  <1>3. \A x \in S : place(x) \in 0..(n - 1)
    <2>1. ASSUME NEW x \in S
          PROVE  place(x) \in 0..(n - 1)
      <3>1. before[x] \subseteq S \ {x}
        OBVIOUS
      <3>2. IsFiniteSet(S \ {x}) /\ Cardinality(S \ {x}) = n - 1
        BY FS_RemoveElement
      <3> HIDE DEF n
      <3>3. Cardinality(before[x]) <= n - 1
        BY <3>1, <3>2, FS_Subset
      <3> QED
        BY <1>1, <1>2, <3>3
    <2> QED
      BY <2>1
  <1>4. ASSUME NEW x \in S, NEW y \in S, x \in before[y]
        PROVE  place(x) # place(y)
    <2>1. before[x] \subseteq before[y] /\ x \notin before[x]
      BY <1>4
    <2>2. Cardinality(before[x]) # Cardinality(before[y])
      BY <1>2, <1>4, <2>1, FS_Subset
    <2> QED
      BY <2>2
  <1>5. \A x, y \in S : place(x) = place(y) => x = y
    BY <1>4
  <1>6. f \in Injection(S, 0..(n - 1))
    BY <1>3, <1>5 DEF Injection, IsInjective
  <1>7. IsFiniteSet(0..(n - 1)) /\ Cardinality(0..(n - 1)) = n
    <2> HIDE DEF n
    <2>1. IsFiniteSet(0..(n - 1)) /\ Cardinality(0..(n - 1)) = IF 0 > n - 1 THEN 0 ELSE (n - 1) - 0 + 1
      BY <1>1, FS_Interval
    <2> QED
      BY <1>1, <2>1
  <1>8. f \in Surjection(S, 0..(n - 1))
    <2> HIDE DEF f, n
    <2> QED
      BY <1>6, <1>7, FS_Injection DEF n
  <1>9. \A k \in 0..(n - 1) : \E x \in S : place(x) = k
    BY <1>8 DEF Surjection
  <1> QED
    BY <1>1, <1>3, <1>5, <1>9

\* The places of the rows are the numbers from 0, one each, when the rows have their keys as ids.
LEMMA InLine ==
  ASSUME NEW rows \in SUBSET Texts, IsFiniteSet(rows), NEW store, NEW sort \in Seq(SortKey),
         \A i \in rows : store[i] \in Row /\ store[i]["id"] = Str(i)
  PROVE  /\ {rank(rows, store, sort, i) : i \in rows} = 0..(Cardinality(rows) - 1)
         /\ \A i, j \in rows : rank(rows, store, sort, i) = rank(rows, store, sort, j) => i = j
  <1> DEFINE before == [i \in rows |-> {j \in rows : precedes(store[j], store[i], sort)}]
  <1>1. \A i \in rows : i \in Int
    BY ValuesAssumption
  <1>2. \A i \in rows : i \notin before[i]
    BY Irreflexive
  <1>3. \A i, j \in rows : i # j => i \in before[j] \/ j \in before[i]
    BY <1>1, Total
  <1>4. \A i, j, k \in rows : i \in before[j] /\ j \in before[k] => i \in before[k]
    BY <1>1, Transitive
  <1>5. \A i \in rows : Cardinality(before[i]) = rank(rows, store, sort, i)
    BY DEF rank
  <1>6. Line(rows, before)
    <2>1. before \in [rows -> SUBSET rows]
      OBVIOUS
    <2> HIDE DEF before
    <2> QED
      BY <1>2, <1>3, <1>4, <2>1 DEF Line
  <1> HIDE DEF before
  <1>7. /\ \A i \in rows : Cardinality(before[i]) \in 0..(Cardinality(rows) - 1)
        /\ \A i, j \in rows : Cardinality(before[i]) = Cardinality(before[j]) => i = j
        /\ \A n \in 0..(Cardinality(rows) - 1) : \E i \in rows : Cardinality(before[i]) = n
    BY <1>6, Ranks
  <1> QED
    BY <1>5, <1>7

\* So a slice has as many rows as its window has places that are taken.
LEMMA SliceSize ==
  ASSUME NEW store, NEW query, query.sort \in Seq(SortKey),
         NEW start \in Nat, NEW per_page \in Nat, per_page > 0,
         listed(store, query) \in SUBSET Texts, IsFiniteSet(listed(store, query)),
         \A i \in listed(store, query) : store[i] \in Row /\ store[i]["id"] = Str(i)
  PROVE  Cardinality(Slice(store, query, start, per_page).ids) = Slice(store, query, start, per_page).size
  <1> DEFINE rows == listed(store, query)
             n == Cardinality(rows)
             place(i) == rank(rows, store, query.sort, i)
             ids == {i \in rows : place(i) \in start..(start + per_page - 1)}
             end == Min2(start + per_page, n)
             taken == start..(end - 1)
             f == [i \in ids |-> place(i)]
  <1>1. n \in Nat /\ end \in Nat /\ end <= n /\ end <= start + per_page
        /\ (end = n \/ end = start + per_page)
    BY FS_CardinalityType DEF Min2
  <1>2. /\ {place(i) : i \in rows} = 0..(n - 1)
        /\ \A i, j \in rows : place(i) = place(j) => i = j
    BY InLine
  <1> HIDE DEF place, end, n
  <1>3. \A i \in ids : place(i) \in taken
    BY <1>1, <1>2
  <1>4. ASSUME NEW t \in taken
        PROVE  \E i \in ids : place(i) = t
    <2>1. t \in 0..(n - 1) /\ t \in start..(start + per_page - 1)
      BY <1>1
    <2>2. PICK i \in rows : place(i) = t
      BY <1>2, <2>1
    <2> QED
      BY <2>1, <2>2
  <1>5. f \in Injection(ids, taken)
    BY <1>2, <1>3 DEF Injection, IsInjective
  <1>6. f \in Surjection(ids, taken)
    BY <1>3, <1>4 DEF Surjection
  <1>7. IsFiniteSet(taken) /\ Cardinality(taken) = Minus(end, start)
    <2>1. IsFiniteSet(taken) /\ Cardinality(taken) = IF start > end - 1 THEN 0 ELSE (end - 1) - start + 1
      BY <1>1, FS_Interval
    <2> QED
      BY <1>1, <2>1 DEF Minus
  <1> HIDE DEF ids, f, taken
  <1>8. Cardinality(ids) = Cardinality(taken)
    BY <1>5, <1>6, <1>7, FS_Injection
  <1> QED
    BY <1>7, <1>8 DEF Slice, ids, place, end, n

=============================================================================
