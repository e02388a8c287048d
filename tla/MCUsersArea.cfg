SPECIFICATION Spec
CONSTANTS
  r1 = r1 r2 = r2 s1 = s1 s2 = s2 root = root ops = ops new = new g = g
  old = old other = other pw1 = pw1 pw2 = pw2
  Requests = {r1, r2}
  Sessions = {s1, s2}
  Owner <- MCOwner
  Forms <- MCForms
  Accounts = {root, ops, new}
  Names = {old, other}
  Passwords = {pw1, pw2}
  Roles = {"admin", "editor"}
  Groups = {g}
  Codes <- MCCodes
  Nil = Nil
  InitUsers <- MCInitUsers
  InitRolePermissions <- MCInitRolePermissions
  InitUserRoles <- MCInitUserRoles
  InitGroupRoles = {}
  InitMembers = {}
  RolePermissionEdits <- MCRolePermissionEdits
  UserRoleEdits <- MCUserRoleEdits
  GroupRoleEdits <- MCGroupRoleEdits
  MemberEdits <- MCMemberEdits
SYMMETRY Interchangeable
INVARIANTS TypeOK Authorised CreatorOnRecord
PROPERTIES OnlyAdministered UpdateLands
