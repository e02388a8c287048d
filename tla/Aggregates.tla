----------------------------- MODULE Aggregates -----------------------------
(***************************************************************************)
(* InMemoryAdapter::aggregate (core/src/in_memory.rs): a measure over the  *)
(* rows that pass a filter, as one value or in buckets by a field's value  *)
(* or by the interval its instant falls in.                                *)
(***************************************************************************)
EXTENDS Resources, FiniteSetsExt, Functions

CONSTANTS
  Intervals,  \* the bucket widths of a date histogram
  Starts      \* [Intervals -> [instants -> instants]]: truncate

Measure == [of: {"count", "sum", "avg", "min", "max", "distinct"}, field: Fields]
Grouping == [field: Fields, by: {"value"} \cup Intervals]
GroupBy == Grouping \cup {Nil}

ASSUME AggregatesAssumption ==
  /\ "value" \notin Intervals /\ Nil \notin Grouping
  /\ Starts \in [Intervals -> [DOMAIN Rfc3339 -> DOMAIN Rfc3339]]
  /\ DOMAIN Rfc3339 = {Instant[s] : s \in Texts} \ {Nil}
  /\ \A w \in Intervals, i, j \in DOMAIN Rfc3339 :
       /\ Starts[w][i] <= i /\ Starts[w][Starts[w][i]] = Starts[w][i]
       /\ i <= j => Starts[w][i] <= Starts[w][j]

\* A measure over a set of rows; Nil where there is no number to take.  An average is rounded down.
measure_value(measure, rows) ==
  LET f == measure.field
      numeric == {r \in rows : r[f].t = "num"}
      numbers == {r[f].v : r \in numeric}
      sum == SumFunction([r \in numeric |-> r[f].v]) IN
  CASE measure.of = "count" -> Cardinality(rows)
    [] measure.of = "distinct" -> Cardinality({r[f] : r \in rows} \ {Missing})
    [] measure.of \in {"sum", "avg", "min", "max"} /\ numeric = {} -> Nil
    [] measure.of = "sum" /\ numeric # {} -> sum
    [] measure.of = "avg" /\ numeric # {} -> sum \div Cardinality(numeric)
    [] measure.of = "min" /\ numeric # {} -> Min(numbers)
    [] measure.of = "max" /\ numeric # {} -> Max(numbers)

\* Mutant: the rows without a value are left out.
group_by_field_Present(rows, f) ==
  {[key |-> k, rows |-> {r \in rows : r[f] = k}] : k \in {r[f] : r \in rows} \ {Null, Missing}}

\* Missing and null make one group, under the key null.
group_by_field(rows, f) ==
  LET key(r) == IF r[f] = Missing THEN Null ELSE r[f] IN
  {[key |-> k, rows |-> {r \in rows : key(r) = k}] : k \in {key(r) : r \in rows}}

\* Rows without an instant are skipped; the key is the start of the interval.
group_by_histogram(rows, f, interval) ==
  LET dated == {r \in rows : r[f].t = "str" /\ Instant[r[f].v] # Nil}
      key(r) == Str(Rfc3339[Starts[interval][Instant[r[f].v]]]) IN
  {[key |-> k, rows |-> {r \in dated : key(r) = k}] : k \in {key(r) : r \in dated}}

\* The buckets in the order of their keys, the first limit of them.  Whatever sort is asked for is
\* not looked at.  A measure of no value is 0 in a bucket.
aggregate(rows, measure, group_by, limit) ==
  LET groups == IF group_by.by = "value" THEN group_by_field(rows, group_by.field)
                                         ELSE group_by_histogram(rows, group_by.field, group_by.by)
      value(g) == IF measure_value(measure, g.rows) = Nil THEN 0 ELSE measure_value(measure, g.rows)
      place(g) == Cardinality({h \in groups : value_total_cmp(h.key, g.key) = -1}) IN
  IF group_by = Nil
    THEN [value |-> measure_value(measure, rows), buckets |-> {}]
    ELSE [value |-> Nil,
          buckets |-> {[key |-> g.key, value |-> value(g)] :
                         g \in {h \in groups : limit # Nil => place(h) < limit}}]

----------------------------------------------------------------------------

RowsOf(s) == {s[k] : k \in {i \in DOMAIN s : s[i] # Nil}}

\* The buckets by g's value share the rows out: their counts and their sums add up to those of all
\* rows, the largest maximum is the maximum of all when none is below zero, there are as many
\* buckets as distinct values and one more when only missing keys stand for null, and a limit
\* leaves as many as it says.
ByValueAddUp(rows, f, g) ==
  LET by(what, limit) ==
        aggregate(rows, [of |-> what, field |-> f], [field |-> g, by |-> "value"], limit).buckets
      all(what) == measure_value([of |-> what, field |-> f], rows)
      total(buckets) == SumFunction([b \in buckets |-> b.value])
      orZero(n) == IF n = Nil THEN 0 ELSE n
      distinct == measure_value([of |-> "distinct", field |-> g], rows)
      keys == Cardinality(by("count", Nil)) IN
  /\ total(by("count", Nil)) = all("count")
  /\ total(by("sum", Nil)) = orZero(all("sum"))
  /\ rows # {} /\ (\A r \in rows : r[f].t = "num" => r[f].v >= 0) =>
       Max({b.value : b \in by("max", Nil)}) = orZero(all("max"))
  /\ keys = distinct + (IF \E r \in rows : r[g] = Missing /\ Null \notin {x[g] : x \in rows}
                          THEN 1 ELSE 0)
  /\ \A limit \in 0..keys : Cardinality(by("count", limit)) = limit

\* The buckets of a histogram share out the rows that have an instant: each counts those from its
\* key on that come before the next key.
ByStartAddUp(rows, g, w) ==
  LET at(r) == Instant[r[g].v]
      dated == {r \in rows : r[g].t = "str" /\ at(r) # Nil}
      buckets == aggregate(rows, [of |-> "count", field |-> g], [field |-> g, by |-> w], Nil).buckets
      starts == {Instant[b.key.v] : b \in buckets} IN
  /\ SumFunction([b \in buckets |-> b.value]) = Cardinality(dated)
  /\ \A b \in buckets :
       b.value = Cardinality({r \in dated : /\ Instant[b.key.v] <= at(r)
                                            /\ \A i \in starts : i <= at(r) => i <= Instant[b.key.v]})

\* The buckets of any aggregation of a store add up to what they were made of (aggregate,
\* group_by_field, group_by_histogram and the Distinct measure each decide for themselves what
\* counts as a value and what is equal).
BucketsAddUp ==
  AtStart =>
    \A s \in Seeds, g \in Fields :
      /\ \A f \in Fields : ByValueAddUp(RowsOf(s), f, g)
      /\ \A w \in Intervals : ByStartAddUp(RowsOf(s), g, w)
=============================================================================
