------------------------------ MODULE Registry ------------------------------
(***************************************************************************)
(* The home page's cards (presentation/registry.rs): one for each          *)
(* registered resource that the actor may view, with a count.              *)
(***************************************************************************)
EXTENDS Resources

\* What a DynResourceMeta answers: the key, who may view any record, the count or Nil.
Meta == [key: Nat, viewers: SUBSET Actors, count: Nat \cup {Nil}]

\* One list call for the total; whatever flag the resource is behind.
count(s) ==
  list_offset(s, [filter |-> {}, search |-> Nil, sort |-> <<>>], 1, 1).total

\* The cards of the resources that a may view, zipped with the counts of all.
home_cards(metas, a) ==
  LET shown == {i \in DOMAIN metas : a \in metas[i].viewers}
      place(i) == Cardinality({j \in shown : j < i}) + 1 IN
  [n \in 1..Cardinality(shown) |->
     [key |-> metas[CHOOSE i \in shown : place(i) = n].key, count |-> metas[n].count]]

----------------------------------------------------------------------------

\* HomeCard says of its count: "Record count", and home_cards "counts filled by one cheap list call
\* each".  A card shows the count of the resource it is the card of, whoever may view which.  The
\* last of the resources here is the one that is modelled.
CardsCountOwn ==
  \A a \in Actors, viewers \in [1..3 -> SUBSET Actors] :
    LET metas == [k \in 1..3 |-> [key |-> k, viewers |-> viewers[k],
                                  count |-> IF k = 3 THEN count(store) ELSE 10 + k]]
        cards == home_cards(metas, a) IN
    \A n \in DOMAIN cards : cards[n].count = metas[cards[n].key].count
=============================================================================
