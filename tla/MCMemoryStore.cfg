CONSTANTS
  c1 = c1 c2 = c2 c3 = c3 a = a b = b u1 = u1 u2 = u2 u3 = u3 one = one old = old new = new junk = junk
  Clients = {c1, c2, c3}
  Ids = {a, b, u1, u2, u3}
  Numbers = {one}
  Text <- MCText
  Generated = {u1, u2, u3}
  Values = {old, new, junk}
  Readable = {old, new}
  Nil = Nil
  NotObject = NotObject
  Batches <- MCBatches
  Seeds <- MCSeeds
SPECIFICATION Spec
SYMMETRY Symmetry
INVARIANTS TypeOK KeyIsId Isolated ErrorLeavesPrefix
PROPERTIES OnlyOvertakenIsLost
