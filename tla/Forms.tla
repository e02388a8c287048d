------------------------------- MODULE Forms -------------------------------
(***************************************************************************)
(* The way of a record through a form: the fields an actor is shown        *)
(* (application/dto.rs), what the browser sends back for a control nobody  *)
(* touched (form_control, infrastructure/templates.rs), and the payload    *)
(* that becomes of it (application/payload.rs).  A submitted form gives    *)
(* each field the set of its texts: none, one, or those of a multiselect.  *)
(***************************************************************************)
EXTENDS Values

CONSTANTS
  Shown,      \* [Json -> Texts]: a value as the template engine prints it
  On,         \* what a checked checkbox sends
  Dates,      \* the texts a date input takes: yyyy-mm-dd
  ParseJson,  \* [Texts -> Json or Nil]: serde_json::from_str
  ListOf,     \* [SUBSET Options -> Lists]: the array of these texts, in the order of the options
  Decodes,    \* [Fields -> SUBSET values]: what the entity type takes in a field, Missing for absent
  Refuses     \* [Fields -> SUBSET values]: what the field's validator refuses

Options == UNION {Field[f].options : f \in Fields}

ASSUME FormsAssumption ==
  /\ Shown \in [Json -> Texts] /\ On \in Texts /\ Dates \subseteq Texts
  /\ \A s \in Texts : Shown[Str(s)] = s
  /\ \A n \in Numbers : Shown[Num(n)] = Display[n]
  /\ \A s \in Dates : Trim[s] = s
  /\ ParseJson \in [Texts -> Json \cup {Nil}]
  /\ ListOf \in [SUBSET Options -> Lists] /\ \A S \in SUBSET Options : Members[ListOf[S]] = S
  /\ \A f \in Fields : \A s \in Field[f].options : Trim[s] = s
  /\ Nil \notin Json \cup {Missing}

----------------------------------------------------------------------------
(* What an actor is shown. *)

visible_fields(a) == {f \in Fields : Admitted(Field[f].visible_to, a)}

form_fields(a) ==
  {f \in visible_fields(a) : /\ Field[f].show_in_form
                             /\ Admitted(Field[f].editable_by, a)
                             /\ Field[f].kind \notin Upload}

\* Truth in a template: null, zero, the empty text, the empty array and no value are false.
is_true(v) ==
  CASE v.t = "arr" -> Members[v.v] # {}
    [] v.t \in {"null", "missing"} -> FALSE
    [] OTHER -> v.v # 0

value_string(v) == IF v = Missing THEN 0 ELSE Shown[v]

\* What the control of field f, filled with v and left alone, sends.  A choice or a date or a
\* number that its control cannot show is sent as the empty text.
form_control(f, v) ==
  LET kind == Field[f].kind
      text == value_string(v)
      kept(takes) == {IF takes THEN text ELSE 0} IN
  CASE kind = "boolean" -> IF is_true(v) THEN {On} ELSE {}
    [] kind = "multiselect" -> IF v.t = "arr" THEN Members[v.v] \cap Field[f].options ELSE {}
    [] kind \in Choice -> kept(v.t = "str" /\ v.v \in Field[f].options)
    [] kind \in Numeric -> kept(Numeral[text] # Nil)
    [] kind = "date" -> kept(text \in Dates)
    [] OTHER -> {text}

\* The form of record v as actor a sends it when they change nothing.
untouched(a, v) ==
  LET shown == form_fields(a) IN
  [f \in Fields |-> IF f \in shown THEN form_control(f, v[f]) ELSE {}]

----------------------------------------------------------------------------
(* The payload.  An entry is a value, Missing when the key is left out, or *)
(* Error.                                                                  *)

Error == Value("error", 0)

TextOf(raw) == IF raw = {} THEN Nil ELSE CHOOSE s \in raw : TRUE

\* A number or a JSON text that is blank is left out, unless the field is required.
Parsed(raw, required, value) ==
  IF TextOf(raw) = Nil \/ Trim[TextOf(raw)] = 0 THEN IF required THEN Error ELSE Missing
  ELSE IF value[Trim[TextOf(raw)]] = Nil THEN Error ELSE value[Trim[TextOf(raw)]]

NumberOf == [s \in Texts |-> IF Numeral[s] = Nil THEN Nil ELSE Num(Numeral[s])]

\* Mutant: a multiselect with nothing chosen is stored as an empty array.
entry_NoneIsEmpty(f, raw) ==
  LET kind == Field[f].kind
      required == Field[f].required IN
  CASE kind = "boolean" -> IF raw = {} /\ required THEN Error ELSE Bool(raw # {})
    [] kind = "multiselect" -> IF raw = {} /\ required THEN Error ELSE Arr(ListOf[raw])
    [] kind \in Numeric -> Parsed(raw, required, NumberOf)
    [] kind = "json" -> Parsed(raw, required, ParseJson)
    [] OTHER -> IF raw # {} THEN Str(Trim[TextOf(raw)]) ELSE IF required THEN Error ELSE Str(0)

\* What the payload holds for field f when raw was sent.  "Required" refuses an absent text, not
\* an empty one.
entry(f, raw) ==
  LET kind == Field[f].kind
      required == Field[f].required IN
  CASE kind = "boolean" -> IF raw = {} /\ required THEN Error ELSE Bool(raw # {})
    [] kind = "multiselect" /\ raw = {} -> IF required THEN Error ELSE Missing
    [] kind = "multiselect" /\ raw # {} -> Arr(ListOf[raw])
    [] kind \in Numeric -> Parsed(raw, required, NumberOf)
    [] kind = "json" -> Parsed(raw, required, ParseJson)
    [] OTHER -> IF raw # {} THEN Str(Trim[TextOf(raw)]) ELSE IF required THEN Error ELSE Str(0)

\* Every field of the form is built, whoever may see or edit it.
build_payload(form) ==
  [f \in Fields |-> IF Field[f].show_in_form THEN entry(f, form[f]) ELSE Missing]

Refused(payload) == \E f \in Fields : payload[f] = Error

run_validators(payload) == \E f \in Fields : payload[f] \in Refuses[f]

\* Whether the payload, taken for a whole entity, is refused: on an update too.
validate_entity(payload) ==
  (\E f \in Fields : payload[f] \notin Decodes[f]) \/ run_validators(payload)

\* Mutant: the payload takes the record's place.
merge_Replaces(row, payload) == [f \in Fields |-> IF f = "id" THEN row[f] ELSE payload[f]]

\* The row after an update: the payload's entries over the record's, but for its id.
merge(row, payload) ==
  [f \in Fields |-> IF f = "id" \/ payload[f] = Missing THEN row[f] ELSE payload[f]]
=============================================================================
