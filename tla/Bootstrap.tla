----------------------------- MODULE Bootstrap -----------------------------
(***************************************************************************)
(* AuthService::bootstrap (application/auth/service.rs): every process     *)
(* that is built with a bootstrap administrator seeds, before it serves,   *)
(* the role "admin", its permissions, the administrator's account and the  *)
(* assignment of the role, one statement after the other without a         *)
(* transaction.  Several processes boot on one database, again and again;  *)
(* a boot may break off at any statement; meanwhile a process that already *)
(* serves may create accounts (a first sign-in, or an administrator).      *)
(***************************************************************************)
EXTENDS Naturals, Sequences, Grants

CONSTANTS
  Processes,  \* those that boot; of several with one email the password may differ
  AdminOf,    \* AuthConfig.bootstrap_admin: the account, by process
  PasswordOf, \* and its password
  AdminName,  \* and its name
  Seeds,      \* the permissions bootstrap seeds, in its order
  InitUsers   \* the accounts before the first boot

Admin == "admin"

ASSUME BootAssumption ==
  /\ AdminOf \in [Processes -> Accounts]
  /\ PasswordOf \in [Processes -> Passwords]
  /\ AdminName \in Names
  /\ Admin \in Roles
  /\ Seeds \in Seq(Codes) /\ Len(Seeds) > 0
  /\ InitUsers \in [Accounts -> User \cup {Nil}]

VARIABLES
  boot,      \* [Processes -> Steps]: the statement a boot awaits next
  next_code, \* [Processes -> index into Seeds]: the permission its loop is at
  early      \* processes whose boot began before the administrator's account existed

bootVars == <<boot, next_code, early>>
vars == <<database, bootVars>>

Steps == {"off", "get_role", "create_role", "reread_role", "get_permission", "create_permission",
          "reread_permission", "grant", "get_user", "create_user", "assign",
          "up", "conflict", "panicked", "broken_off"}
Ended == {"off", "up", "conflict", "panicked", "broken_off"}

TypeOK ==
  /\ GrantsTypeOK
  /\ boot \in [Processes -> Steps]
  /\ next_code \in [Processes -> 1..Len(Seeds)]
  /\ early \subseteq Processes

Init ==
  /\ users = InitUsers
  /\ roles = {} /\ permissions = {} /\ role_permissions = {}
  /\ user_roles = {} /\ group_roles = {} /\ group_members = {}
  /\ boot = [p \in Processes |-> "off"]
  /\ next_code = [p \in Processes |-> 1]
  /\ early = {}

Code(p) == Seeds[next_code[p]]
Await(p, step) == boot' = [boot EXCEPT ![p] = step] /\ UNCHANGED <<next_code, early>>

\* The process is started, for the first time or again.
Begin(p) ==
  /\ boot[p] \in Ended
  /\ boot' = [boot EXCEPT ![p] = "get_role"]
  /\ next_code' = [next_code EXCEPT ![p] = 1]
  /\ early' = IF users[AdminOf[p]] = Nil THEN early \cup {p} ELSE early \ {p}
  /\ UNCHANGED database

\* Mutant: a role that is there is taken to have its permissions.
GetRole_Seeded(p) ==
  /\ boot[p] = "get_role"
  /\ Await(p, IF Admin \in roles THEN "get_user" ELSE "create_role")
  /\ UNCHANGED database

GetRole(p) ==
  /\ boot[p] = "get_role"
  /\ Await(p, IF Admin \in roles THEN "get_permission" ELSE "create_role")
  /\ UNCHANGED database

\* A conflict means another boot was first: the role is read again.
MakeRole(p) ==
  /\ boot[p] = "create_role"
  /\ \/ CreateRole(Admin) /\ Await(p, "get_permission")
     \/ Admin \in roles /\ Await(p, "reread_role") /\ UNCHANGED roles
  /\ UNCHANGED <<users, permissions, grants>>

RereadRole(p) ==
  /\ boot[p] = "reread_role"
  /\ Await(p, IF Admin \in roles THEN "get_permission" ELSE "panicked")
  /\ UNCHANGED database

GetPermission(p) ==
  /\ boot[p] = "get_permission"
  /\ Await(p, IF Code(p) \in permissions THEN "grant" ELSE "create_permission")
  /\ UNCHANGED database

\* Mutant: a conflict is passed on, as it is for the account.
MakePermission_PassesOn(p) ==
  /\ boot[p] = "create_permission"
  /\ \/ CreatePermission(Code(p)) /\ Await(p, "grant")
     \/ Code(p) \in permissions /\ Await(p, "conflict") /\ UNCHANGED permissions
  /\ UNCHANGED <<users, roles, grants>>

MakePermission(p) ==
  /\ boot[p] = "create_permission"
  /\ \/ CreatePermission(Code(p)) /\ Await(p, "grant")
     \/ Code(p) \in permissions /\ Await(p, "reread_permission") /\ UNCHANGED permissions
  /\ UNCHANGED <<users, roles, grants>>

RereadPermission(p) ==
  /\ boot[p] = "reread_permission"
  /\ Await(p, IF Code(p) \in permissions THEN "grant" ELSE "panicked")
  /\ UNCHANGED database

\* Mutant: the loop runs once more.
Grant_Overruns(p) ==
  /\ boot[p] = "grant"
  /\ GrantPermission(Admin, Code(p))
  /\ IF next_code[p] <= Len(Seeds)
       THEN /\ boot' = [boot EXCEPT ![p] = "get_permission"]
            /\ next_code' = [next_code EXCEPT ![p] = @ + 1]
            /\ UNCHANGED early
       ELSE Await(p, "get_user")
  /\ UNCHANGED <<users, catalog, user_roles, group_roles, group_members>>

\* The last statement of the loop body.
Grant(p) ==
  /\ boot[p] = "grant"
  /\ GrantPermission(Admin, Code(p))
  /\ IF next_code[p] < Len(Seeds)
       THEN /\ boot' = [boot EXCEPT ![p] = "get_permission"]
            /\ next_code' = [next_code EXCEPT ![p] = @ + 1]
            /\ UNCHANGED early
       ELSE Await(p, "get_user")
  /\ UNCHANGED <<users, catalog, user_roles, group_roles, group_members>>

GetUser(p) ==
  /\ boot[p] = "get_user"
  /\ Await(p, IF users[AdminOf[p]] # Nil THEN "assign" ELSE "create_user")
  /\ UNCHANGED database

\* Mutant: the administrator's row is written over (INSERT ... ON CONFLICT DO UPDATE).
MakeUser_Upsert(p) ==
  /\ boot[p] = "create_user"
  /\ users' = [users EXCEPT ![AdminOf[p]] =
                 [name |-> AdminName, status |-> "active", password |-> PasswordOf[p]]]
  /\ Await(p, "assign")
  /\ UNCHANGED <<catalog, grants>>

\* Here a conflict is an error: ? hands it to the builder, and the process does not come up.
MakeUser(p) ==
  /\ boot[p] = "create_user"
  /\ \/ CreateUser(AdminOf[p], AdminName, PasswordOf[p]) /\ Await(p, "assign")
     \/ users[AdminOf[p]] # Nil /\ Await(p, "conflict") /\ UNCHANGED users
  /\ UNCHANGED <<catalog, grants>>

Assign(p) ==
  /\ boot[p] = "assign"
  /\ AssignRole(AdminOf[p], Admin, Nil)
  /\ Await(p, "up")
  /\ UNCHANGED <<users, catalog, role_permissions, group_roles, group_members>>

\* A statement fails, or the process dies.
BreakOff(p) ==
  /\ boot[p] \notin Ended
  /\ Await(p, "broken_off")
  /\ UNCHANGED database

\* Elsewhere: a first sign-in creates an account without a password (start_login), an
\* administrator one with a password (create_handler).
OutsideCreate(a) ==
  /\ \E name \in Names, password \in Passwords \cup {Nil} : CreateUser(a, name, password)
  /\ UNCHANGED <<catalog, grants, bootVars>>

Seed(p) ==
  \/ GetRole(p) \/ MakeRole(p) \/ RereadRole(p)
  \/ GetPermission(p) \/ MakePermission(p) \/ RereadPermission(p) \/ Grant(p)
  \/ GetUser(p) \/ MakeUser(p) \/ Assign(p)

Next ==
  \/ \E p \in Processes : Begin(p) \/ Seed(p) \/ BreakOff(p)
  \/ \E a \in Accounts : OutsideCreate(a)

Spec == Init /\ [][Next]_vars

----------------------------------------------------------------------------
(* Properties. *)

\* Whatever raced with it and wherever earlier boots broke off: when a boot has come up, its
\* administrator can do everything bootstrap seeds, as load_actor and Actor::can judge it.
Seeded ==
  \A p \in Processes : boot[p] = "up" =>
    \A i \in 1..Len(Seeds) : Can(Granted(AdminOf[p], Nil), Seeds[i])

\* "Idempotently": a boot never panics, and fails on a conflict only when the administrator's
\* account was missing at its beginning and is there now, so that the next one will not.
FailsOnlyOnce ==
  \A p \in Processes :
    /\ boot[p] # "panicked"
    /\ boot[p] = "conflict" => p \in early /\ users[AdminOf[p]] # Nil

\* Boots add and never change: no account that exists is touched (a reboot does not reset the
\* administrator's password or status), nothing is revoked, and only administrators get a role.
OnlySeeds ==
  [][/\ \A a \in Accounts : users[a] # Nil => users'[a] = users[a]
     /\ role_permissions \subseteq role_permissions'
     /\ user_roles \subseteq user_roles'
     /\ \A g \in user_roles' \ user_roles : \E p \in Processes : g = <<AdminOf[p], Admin, Nil>>]_vars
=============================================================================
