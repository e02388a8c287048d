SPECIFICATION Spec
CONSTANTS
  p1 = p1 p2 = p2 p3 = p3 root = root ops = ops pw1 = pw1 pw2 = pw2
  Accounts = {root, ops}
  Names = {"Administrator"}
  AdminName = "Administrator"
  Passwords = {pw1, pw2}
  Roles = {"admin"}
  Groups = {}
  Codes <- MCCodes
  Nil = Nil
  Processes = {p1, p2, p3}
  AdminOf <- MCAdminOf
  PasswordOf <- MCPasswordOf
  Seeds <- MCSeeds
  InitUsers <- Nobody
INVARIANTS TypeOK Seeded FailsOnlyOnce
PROPERTIES OnlySeeds
