--------------------------- MODULE MCUsersArea ---------------------------
(* root is an administrator; ops is one in group g only, which no request acts in, and may become *)
(* an editor of accounts through g, if it is a member, g has the role and the role the code.      *)
EXTENDS UsersArea, TLC

CONSTANTS r1, r2, s1, s2, root, ops, new, g, old, other, pw1, pw2

ToCreate == <<"users", "create">>
ToUpdate == <<"users", "update">>
AnyUpdate == <<"*", "update">>
MCCodes == {ToCreate, ToUpdate, AnyUpdate}

MCOwner == (s1 :> root) @@ (s2 :> ops)
Account(status) == [name |-> old, status |-> status, password |-> pw1]
MCInitUsers == (root :> Account("active")) @@ (ops :> Account("active")) @@ (new :> Nil)
MCInitRolePermissions == {<<"admin", ToCreate>>, <<"admin", ToUpdate>>}
MCInitUserRoles == {<<root, "admin", Nil>>, <<ops, "admin", g>>}
MCRolePermissionEdits == {<<"editor", AnyUpdate>>}
MCUserRoleEdits == {<<root, "admin", Nil>>}
MCGroupRoleEdits == {<<g, "editor">>}
MCMemberEdits == {<<g, ops>>}

F(op, a, name, status, password) ==
  [op |-> op, account |-> a, name |-> name, status |-> status, password |-> password]
MCForms ==
  { F("create", new, other, "active", pw2), F("create", new, Nil, "active", pw1),
    F("update", ops, other, "disabled", Nil), F("update", ops, old, "active", pw2),
    F("update", new, old, "disabled", "short"), F("update", root, other, "disabled", pw2) }

Interchangeable == Permutations(Requests)
=============================================================================
