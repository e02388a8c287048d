CONSTANTS
  q1 = q1 q2 = q2 admin = admin plain = plain staff = staff Nil = Nil
  Texts <- MCTexts
  Numbers = {1, 2}
  Lists = {0, 1, 2, 3}
  Members <- MCMembers
  Trim <- MCTrim
  Numeral <- MCNumeral
  Instant <- MCInstant
  Rfc3339 <- MCRfc3339
  Display <- MCDisplay
  Roles = {staff}
  Actors = {admin, plain}
  RolesOf <- MCRolesOf
  Fields <- MCFields
  Field <- MCField
  Contained <- MCContained
  Prefixed <- MCPrefixed
  FoldContained <- MCFoldContained
  Truthy = {2, 17}
  Falsy = {14}
  Filters <- MCFilters
  SearchFields = {"title", "note"}
  DefaultSort <- MCDefaultSort
  Shown <- MCShown
  On = 16
  Dates = {5}
  ParseJson <- MCParseJson
  ListOf <- MCListOf
  Decodes <- MCDecodes
  Refuses <- MCRefuses
  Requests = {q1, q2}
  Edits <- MCEdits
  Generated <- MCGenerated
  Walks <- MCRangeWalks
  Paths = {2, 12}
  Seeds <- MCSeeds
  Intervals = {"minute", "month"}
  Starts <- MCStarts
  can_view_any <- MCCanViewAny
  can_view <- MCCanView
  can_create <- MCCanCreate
  can_update <- MCCanUpdate
  can_delete <- MCCanDelete
SPECIFICATION Spec
CHECK_DEADLOCK FALSE
INVARIANTS RangeFilters
