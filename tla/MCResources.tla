---------------------------- MODULE MCResources ----------------------------
(* A small instance of Resources.  The texts, in the order of their bytes:                      *)
(*   0 ""  1 " 1"  2 "1"  3 "2"  4 "2026-08-01T00:00:00+00:00"  5 "2026-08-13"                    *)
(*   6 "2026-08-13T10:30:00+00:00"  7 "2026-08-13T10:30:00Z"  8 "2026-08-14T00:00:00+00:00"       *)
(*   9 "Ann"  10 an array, printed  11 "ann"  12 and 13 two uuids  14 "false"  15 "none"          *)
(*   16 "on"  17 "true"                                                                           *)
EXTENDS Aggregates, Registry, TLC

CONSTANTS q1, q2, admin, plain, staff

MCTexts == 0..17
MCTrim == [s \in MCTexts |-> IF s = 1 THEN 2 ELSE s]
MCNumeral == [s \in MCTexts |-> CASE s = 2 -> 1 [] s = 3 -> 2 [] OTHER -> Nil]
MCInstant == [s \in MCTexts |-> CASE s = 4 -> 1 [] s \in {6, 7} -> 2 [] s = 8 -> 3 [] OTHER -> Nil]
MCRfc3339 == <<4, 6, 8>>
MCDisplay == <<2, 3>>
\* ["Ann","ann"] ["Ann"] ["ann"] []
MCMembers == [l \in 0..3 |-> CASE l = 0 -> {9, 11} [] l = 1 -> {9} [] l = 2 -> {11} [] l = 3 -> {}]
MCListOf == [S \in SUBSET {9, 11} |-> CHOOSE l \in 0..3 : MCMembers[l] = S]
MCShown ==
  [v \in Json |-> CASE v.t = "str" -> v.v [] v.t = "num" -> MCDisplay[v.v] [] v.t = "null" -> 15
                    [] v.t = "arr" -> 10 [] v.t = "bool" -> IF v.v = 1 THEN 17 ELSE 14]
MCParseJson ==
  [s \in MCTexts |-> CASE s \in {2, 3} -> Num(s - 1) [] s = 14 -> Bool(FALSE) [] s = 17 -> Bool(TRUE)
                       [] OTHER -> Nil]

Equal == {<<s, s>> : s \in MCTexts} \cup {<<0, s>> : s \in MCTexts}
MCPrefixed == Equal \cup ({3} \X (4..8)) \cup ({5} \X {6, 7})
MCContained == MCPrefixed \cup ({2} \X {1, 4, 5, 6, 7, 8}) \cup {<<9, 10>>, <<11, 10>>, <<16, 15>>}
MCFoldContained == MCContained \cup {<<9, 11>>, <<11, 9>>}

MCFields == {"id", "title", "price", "note", "open", "tags", "due"}
Metadata(kind, options, in_form, required, sortable, visible_to, editable_by) ==
  [kind |-> kind, options |-> options, show_in_form |-> in_form, required |-> required,
   sortable |-> sortable, visible_to |-> visible_to, editable_by |-> editable_by]
MCField ==
  "id" :> Metadata("number", {}, TRUE, FALSE, FALSE, {}, {})
  @@ "title" :> Metadata("text", {}, TRUE, TRUE, TRUE, {}, {})
  @@ "price" :> Metadata("number", {}, TRUE, FALSE, TRUE, {}, {})
  @@ "note" :> Metadata("textarea", {}, TRUE, FALSE, FALSE, {staff}, {})
  @@ "open" :> Metadata("boolean", {}, TRUE, FALSE, FALSE, {}, {staff})
  @@ "tags" :> Metadata("multiselect", {9, 11}, TRUE, FALSE, FALSE, {}, {})
  @@ "due" :> Metadata("datetime", {}, FALSE, FALSE, TRUE, {}, {})
MCRolesOf == admin :> {staff} @@ plain :> {}

MCDecodes == [f \in MCFields |-> Json \cup {Missing}]
MCRefuses == [f \in MCFields |-> IF f = "title" THEN {Str(2)} ELSE {}]
MCFilters == {[field |-> "title", op |-> "fulltext"], [field |-> "due", op |-> "lte"],
              [field |-> "open", op |-> "ne"], [field |-> "price", op |-> "in"]}

\* Three records.  Record "2" has its price as a text and no note.
Record(id, title, price, note, open, tags, due) ==
  "id" :> Str(id) @@ "title" :> Str(title) @@ "price" :> price @@ "note" :> note
  @@ "open" :> Bool(open) @@ "tags" :> tags @@ "due" :> due
MCSeeds ==
  {[k \in MCTexts |->
     CASE k = 2 -> Record(2, 9, Num(2), Str(11), TRUE, Missing, Str(7))
       [] k = 3 -> Record(3, 11, Str(3), Null, FALSE, Arr(2), Str(4))
       [] k = 9 -> Record(9, 9, Num(1), Missing, FALSE, Arr(3), Null)
       [] OTHER -> Nil]}

MCCanViewAny(a) == a = admin
MCCanView(a, row) == a = admin \/ row["open"] = Bool(TRUE)
MCCanUpdate(a, row) == a = admin \/ row["open"] = Bool(TRUE)
MCCanCreate(a) == a = admin
MCCanDelete(a, row) == a = admin \/ row["note"].t \in {"missing", "null"}

MCEdits == {[field |-> Nil, raw |-> {}], [field |-> "id", raw |-> {2}], [field |-> "title", raw |-> {1}],
            [field |-> "price", raw |-> {11}], [field |-> "open", raw |-> {}]}
MCGenerated == q1 :> 12 @@ q2 :> 13

NoParams == [f \in MCFields |-> Nil]
Asks(per_page, sort, q) ==
  [page |-> Nil, per_page |-> per_page, sort |-> sort, q |-> q,
   params |-> NoParams, min |-> NoParams, max |-> NoParams]
By(field, dir) == [field |-> field, dir |-> dir]
MCWalks ==
  {[mode |-> "pages", actor |-> admin, p |-> Asks(1, Nil, Nil)],
   [mode |-> "pages", actor |-> admin, p |-> Asks(2, By("title", "asc"), Nil)],
   [mode |-> "offset", actor |-> admin, p |-> Asks(1, By("due", "desc"), 11)],
   [mode |-> "cursor", actor |-> admin, p |-> Asks(1, By("price", "asc"), Nil)]}
\* A reader who asks for a price of 1 at least, and one for what is due on August 1 at the latest.
MCRangeWalks ==
  {[mode |-> "pages", actor |-> admin, p |-> [Asks(1, Nil, Nil) EXCEPT !.min["price"] = 2]],
   [mode |-> "pages", actor |-> admin, p |-> [Asks(1, Nil, Nil) EXCEPT !.max["due"] = 4]]}
MCStarts ==
  [w \in {"minute", "month"} |-> [i \in 1..3 |-> IF w = "minute" THEN i ELSE 1]]
MCDefaultSort == <<[field |-> "price", dir |-> "desc", nulls |-> "last"]>>
=============================================================================
