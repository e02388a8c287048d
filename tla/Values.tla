------------------------------- MODULE Values -------------------------------
(***************************************************************************)
(* The JSON values of a resource's records, the strings they are made of,  *)
(* and the metadata of its fields (twentytoo-core: field.rs).  What a      *)
(* string is made of is left to constants: which ones read as a number or  *)
(* an instant, what is left of one when it is trimmed.                     *)
(***************************************************************************)
EXTENDS Integers, FiniteSets, Sequences

CONSTANTS
  Texts,    \* the strings: naturals in the order of their bytes, 0 the empty one
  Numbers,  \* the JSON numbers: integers in their order
  Lists,    \* the JSON arrays of strings: naturals in the order of their serialized forms
  Members,  \* [Lists -> SUBSET Texts]
  Trim,     \* [Texts -> Texts]: str::trim
  Numeral,  \* [Texts -> Numbers or Nil]: str::parse, which does not trim
  Instant,  \* [Texts -> Nat or Nil]: parse_from_rfc3339
  Rfc3339,  \* [instants -> Texts]: to_rfc3339
  Display,  \* [Numbers -> Texts]: to_string
  Roles,    \* the role keys an actor may hold
  Actors,   \* the signed-in users that make requests
  RolesOf,  \* [Actors -> SUBSET Roles]
  Fields,   \* field names; "id" is one
  Field,    \* [Fields -> FieldMeta]: Resource::fields
  Nil       \* None

Value(t, v) == [t |-> t, v |-> v]
Missing == Value("missing", 0)  \* the record has no such key
Null == Value("null", 0)
Str(s) == Value("str", s)
Num(n) == Value("num", n)
Bool(b) == Value("bool", IF b THEN 1 ELSE 0)
Arr(l) == Value("arr", l)

Json == {Null, Bool(FALSE), Bool(TRUE)} \cup {Str(s) : s \in Texts} \cup {Num(n) : n \in Numbers}
          \cup {Arr(l) : l \in Lists}
Row == [Fields -> Json \cup {Missing}]

\* FieldKind, by the tags KindView::of gives the templates.
Kinds == {"text", "textarea", "richtext", "number", "currency", "boolean", "select", "multiselect",
          "date", "datetime", "email", "file", "image", "relation", "badge", "json", "computed"}
Numeric == {"number", "currency"}
Dated == {"date", "datetime"}
Choice == {"select", "badge"}
Upload == {"file", "image"}

\* options holds the choices of a select-like kind.
FieldMeta == [kind: Kinds, options: SUBSET Texts, show_in_form: BOOLEAN, required: BOOLEAN,
              sortable: BOOLEAN, visible_to: SUBSET Roles, editable_by: SUBSET Roles]

\* visible_to and editable_by: no role named means everybody.
Admitted(roles, a) == roles = {} \/ roles \cap RolesOf[a] # {}

ASSUME ValuesAssumption ==
  /\ Texts \subseteq Nat /\ 0 \in Texts /\ Numbers \subseteq Int /\ Lists \subseteq Nat
  /\ Members \in [Lists -> SUBSET Texts]
  /\ Trim \in [Texts -> Texts] /\ Trim[0] = 0 /\ \A s \in Texts : Trim[Trim[s]] = Trim[s]
  /\ Numeral \in [Texts -> Numbers \cup {Nil}] /\ Numeral[0] = Nil
  /\ Instant \in [Texts -> Nat \cup {Nil}]
  /\ \A i \in DOMAIN Rfc3339 : Rfc3339[i] \in Texts /\ Instant[Rfc3339[i]] = i
  /\ Display \in [Numbers -> Texts]
  /\ \A n \in Numbers : Numeral[Display[n]] = n /\ Trim[Display[n]] = Display[n]
  /\ RolesOf \in [Actors -> SUBSET Roles]
  /\ "id" \in Fields /\ Field \in [Fields -> FieldMeta]
  /\ Nil \notin Int \cup Fields
=============================================================================
