------------------------------ MODULE Grants ------------------------------
(***************************************************************************)
(* The accounts and grants that twentytoo keeps in PostgreSQL, and the     *)
(* statements on them: twentytoo-db, queries/users.rs, queries/access.rs   *)
(* and queries/groups.rs.  A role bundles permission codes; a user holds   *)
(* roles globally or scoped to a group, and the roles of the user's        *)
(* groups.  A statement is atomic.  Bootstrap and UsersArea are built of   *)
(* these statements.                                                       *)
(***************************************************************************)

CONSTANTS
  Accounts,   \* users: emails are normalised and unique and no statement deletes a user
  Names,      \* display names
  Passwords,  \* passwords of at least 8 characters, standing for their hashes too
  Roles,      \* role keys
  Groups,     \* the rows of table groups
  Codes,      \* permission codes that validate_permission_code accepts: <<resource, action>>
  Nil         \* SQL NULL, no row

ASSUME GrantsAssumption ==
  /\ Codes \subseteq STRING \X STRING
  /\ Nil \notin Accounts /\ Nil \notin Names /\ Nil \notin Passwords /\ Nil \notin Groups
  /\ Nil \notin [name: Names, status: {"active", "invited", "disabled"},
                 password: Passwords \cup {Nil}]

VARIABLES
  users,             \* [Accounts -> User or Nil]
  roles,             \* the keys of table roles
  permissions,       \* the codes of table permissions
  role_permissions,  \* <<role, code>>
  user_roles,        \* <<account, role, group or Nil>>: Nil for a global grant
  group_roles,       \* <<group, role>>
  group_members      \* <<group, account>>

catalog == <<roles, permissions>>
grants == <<role_permissions, user_roles, group_roles, group_members>>
database == <<users, catalog, grants>>

Statuses == {"active", "invited", "disabled"}
User == [name: Names, status: Statuses, password: Passwords \cup {Nil}]

GrantsTypeOK ==
  /\ users \in [Accounts -> User \cup {Nil}]
  /\ roles \subseteq Roles
  /\ permissions \subseteq Codes
  /\ role_permissions \subseteq roles \X permissions
  /\ user_roles \subseteq {a \in Accounts : users[a] # Nil} \X roles \X (Groups \cup {Nil})
  /\ group_roles \subseteq Groups \X roles
  /\ group_members \subseteq Groups \X {a \in Accounts : users[a] # Nil}

----------------------------------------------------------------------------
(* The statements that write.  Inserts of a grant and deletes of one do    *)
(* nothing when the row is there, or is not there.                         *)

\* A duplicate email is a conflict.  A row starts active.
CreateUser(a, name, password) ==
  /\ users[a] = Nil
  /\ users' = [users EXCEPT ![a] = [name |-> name, status |-> "active", password |-> password]]

CreateRole(role) == role \notin roles /\ roles' = roles \cup {role}

CreatePermission(code) == code \notin permissions /\ permissions' = permissions \cup {code}

GrantPermission(role, code) ==
  role \in roles /\ code \in permissions /\ role_permissions' = role_permissions \cup {<<role, code>>}

RevokePermission(role, code) == role_permissions' = role_permissions \ {<<role, code>>}

AssignRole(a, role, group) ==
  users[a] # Nil /\ role \in roles /\ user_roles' = user_roles \cup {<<a, role, group>>}

RevokeRole(a, role, group) == user_roles' = user_roles \ {<<a, role, group>>}

AssignRoleToGroup(group, role) ==
  role \in roles /\ group_roles' = group_roles \cup {<<group, role>>}

RevokeRoleFromGroup(group, role) == group_roles' = group_roles \ {<<group, role>>}

AddMember(group, a) == users[a] # Nil /\ group_members' = group_members \cup {<<group, a>>}

RemoveMember(group, a) == group_members' = group_members \ {<<group, a>>}

----------------------------------------------------------------------------
(* What load_actor reads, and what an actor can do with it. *)

\* Mutant: the role of a grant counts whatever group it is scoped to.
Granted_AnyScope(a, scope) ==
  {code \in Codes : \E role \in Roles :
     /\ <<role, code>> \in role_permissions
     /\ \/ \E g \in Groups \cup {Nil} : <<a, role, g>> \in user_roles
        \/ \E g \in Groups : <<g, role>> \in group_roles /\ <<g, a>> \in group_members}

\* The codes of load_actor(a, scope): of the roles a holds globally or in the group it acts in,
\* and of the roles of its groups.
Granted(a, scope) ==
  {code \in Codes : \E role \in Roles :
     /\ <<role, code>> \in role_permissions
     /\ \/ <<a, role, Nil>> \in user_roles
        \/ scope # Nil /\ <<a, role, scope>> \in user_roles
        \/ \E g \in Groups : <<g, role>> \in group_roles /\ <<g, a>> \in group_members}

\* Actor::can: segment by segment, "*" in a stored code matches any.
Can(held, code) ==
  \E h \in held : h[1] \in {"*", code[1]} /\ h[2] \in {"*", code[2]}
=============================================================================
