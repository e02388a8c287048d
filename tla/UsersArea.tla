----------------------------- MODULE UsersArea -----------------------------
(***************************************************************************)
(* POST /users/new and POST /users/{id} from the cookie to the answer: the *)
(* middleware resolves the session to an actor (presentation/middleware.rs,*)
(* Db::load_actor), the handler (presentation/handlers/users.rs) asks the  *)
(* actor for the permission, checks the form and writes.  Each await is    *)
(* one statement; between two of them other administrators write the same  *)
(* account, grants are given and revoked, and sessions end.                *)
(***************************************************************************)
EXTENDS Grants

CONSTANTS
  Requests,      \* the POSTs to the two routes
  Sessions,      \* the session cookies in use
  Owner,         \* the account of each session
  Forms,         \* the forms that are posted
  InitUsers, InitRolePermissions, InitUserRoles, InitGroupRoles, InitMembers,
  \* The rows that are inserted and deleted meanwhile.
  RolePermissionEdits, UserRoleEdits, GroupRoleEdits, MemberEdits

Operations == {"create", "update"}
\* Nil is the empty field; "short" a password of one to seven characters; a create form has no
\* status field, and an update form no email: its account is the id in the path.
Form == [op: Operations, account: Accounts, name: Names \cup {Nil},
         status: Statuses, password: Passwords \cup {Nil, "short"}]

ASSUME UsersAreaAssumption ==
  /\ Owner \in [Sessions -> {a \in Accounts : InitUsers[a] # Nil}]
  /\ Forms \subseteq Form
  /\ "short" \notin Passwords \cup {Nil}
  /\ InitUsers \in [Accounts -> User \cup {Nil}]
  /\ InitRolePermissions \cup RolePermissionEdits \subseteq Roles \X Codes
  /\ InitUserRoles \cup UserRoleEdits
       \subseteq {a \in Accounts : InitUsers[a] # Nil} \X Roles \X (Groups \cup {Nil})
  /\ InitGroupRoles \cup GroupRoleEdits \subseteq Groups \X Roles
  /\ InitMembers \cup MemberEdits \subseteq Groups \X {a \in Accounts : InitUsers[a] # Nil}

VARIABLES
  sessions, \* the sessions that are neither deleted nor expired
  audit,    \* the entries of the area: [action, account, actor]
  pc,       \* [Requests -> Steps]: the statement a request awaits next, or its answer
  form,     \* [Requests -> Form or Nil]
  cookie,   \* [Requests -> Sessions or Nil]
  found,    \* [Requests -> User or Nil]: the row update_handler has read
  since,    \* what was so at some moment since a request arrived (decides nothing)
  overlap   \* requests whose account another wrote between their read and their last write (same)

areaVars == <<sessions, audit, pc, form, cookie, found>>
vars == <<database, areaVars, since, overlap>>

Answers == {"unauthorized", "forbidden", "invalid", "not_found", "conflict", "created", "updated",
            "failed"}
Steps == {"idle", "session", "user", "grants", "create", "audit",
          "find", "password", "name", "status"} \cup Answers

TypeOK ==
  /\ GrantsTypeOK
  /\ sessions \subseteq Sessions
  /\ audit \subseteq [action: Operations, account: Accounts, actor: Accounts]
  /\ pc \in [Requests -> Steps]
  /\ form \in [Requests -> Form \cup {Nil}]
  /\ cookie \in [Requests -> Sessions \cup {Nil}]
  /\ found \in [Requests -> User \cup {Nil}]
  /\ since \in [Requests -> [live: BOOLEAN, allowed: BOOLEAN]]
  /\ overlap \subseteq Requests
  /\ \A r \in Requests : pc[r] # "idle" => form[r] \in Form /\ cookie[r] \in Sessions

Init ==
  /\ users = InitUsers
  /\ roles = Roles /\ permissions = Codes
  /\ role_permissions = InitRolePermissions /\ user_roles = InitUserRoles
  /\ group_roles = InitGroupRoles /\ group_members = InitMembers
  /\ sessions = Sessions
  /\ audit = {}
  /\ pc = [r \in Requests |-> "idle"]
  /\ form = [r \in Requests |-> Nil]
  /\ cookie = [r \in Requests |-> Nil]
  /\ found = [r \in Requests |-> Nil]
  /\ since = [r \in Requests |-> [live |-> FALSE, allowed |-> FALSE]]
  /\ overlap = {}

----------------------------------------------------------------------------
(* The pipeline: actor_layer, session_actor, load_actor. *)

Goto(r, step) == pc' = [pc EXCEPT ![r] = step]
Actor(r) == Owner[cookie[r]]
Target(r) == form[r].account
Needed(op) == IF op = "create" THEN <<"users", "create">> ELSE <<"users", "update">>

Arrive(r, f, s) ==
  /\ pc[r] = "idle"
  /\ form' = [form EXCEPT ![r] = f]
  /\ cookie' = [cookie EXCEPT ![r] = s]
  /\ Goto(r, "session")
  /\ UNCHANGED <<database, sessions, audit, found>>

\* get_session finds no row that is deleted or expired; a failed statement denies as well, here
\* and in load_actor.
LoadSession(r) ==
  /\ pc[r] = "session"
  /\ Goto(r, IF cookie[r] \in sessions THEN "user" ELSE "unauthorized")
  /\ UNCHANGED <<database, sessions, audit, form, cookie, found>>

\* The first statement of load_actor; no statement deletes a user, so the row is there.  Its
\* status is not looked at.
LoadActorUser(r) ==
  /\ pc[r] = "user"
  /\ Goto(r, IF users[Actor(r)] # Nil THEN "grants" ELSE "unauthorized")
  /\ UNCHANGED <<database, sessions, audit, form, cookie, found>>

\* A failing statement of session_actor is a request without an actor.
Deny(r) ==
  /\ pc[r] \in {"session", "user", "grants"}
  /\ Goto(r, "unauthorized")
  /\ UNCHANGED <<database, sessions, audit, form, cookie, found>>

\* create_handler: name and password are required, the email is not decided on here.
CreateFormOK(f) == f.name # Nil /\ f.password \in Passwords

\* Mutant: the length of a new password is not checked.
UpdateFormOK_AnyLength(f) == f.name # Nil /\ f.status \in {"active", "disabled"}

\* update_handler: an empty password leaves it as it is; the status must be one of two.
UpdateFormOK(f) == f.name # Nil /\ f.status \in {"active", "disabled"} /\ f.password # "short"

\* The second statement of load_actor, for no group; then the handler up to its first await:
\* the permission, and for a create the form.
LoadGrants(r) ==
  /\ pc[r] = "grants"
  /\ \/ ~Can(Granted(Actor(r), Nil), Needed(form[r].op)) /\ Goto(r, "forbidden")
     \/ /\ Can(Granted(Actor(r), Nil), Needed(form[r].op))
        /\ \/ form[r].op = "update" /\ Goto(r, "find")
           \/ /\ form[r].op = "create"
              /\ Goto(r, IF CreateFormOK(form[r]) THEN "create" ELSE "invalid")
  /\ UNCHANGED <<database, sessions, audit, form, cookie, found>>

----------------------------------------------------------------------------
(* create_handler. *)

Entry(r) == [action |-> form[r].op, account |-> Target(r), actor |-> Actor(r)]

\* Mutant: an account that exists is taken for the one just created.
Create_TakesExisting(r) ==
  /\ pc[r] = "create"
  /\ \/ CreateUser(Target(r), form[r].name, form[r].password)
     \/ users[Target(r)] # Nil /\ UNCHANGED users
  /\ Goto(r, "audit")
  /\ UNCHANGED <<catalog, grants, sessions, audit, form, cookie, found>>

Create(r) ==
  /\ pc[r] = "create"
  /\ \/ CreateUser(Target(r), form[r].name, form[r].password) /\ Goto(r, "audit")
     \/ users[Target(r)] # Nil /\ Goto(r, "conflict") /\ UNCHANGED users
  /\ UNCHANGED <<catalog, grants, sessions, audit, form, cookie, found>>

RecordCreate(r) ==
  /\ pc[r] = "audit"
  /\ audit' = audit \cup {Entry(r)}
  /\ Goto(r, "created")
  /\ UNCHANGED <<database, sessions, form, cookie, found>>

----------------------------------------------------------------------------
(* update_handler. *)

\* Mutant: one may disable oneself.
Find_Anyone(r) ==
  /\ pc[r] = "find"
  /\ found' = [found EXCEPT ![r] = users[Target(r)]]
  /\ Goto(r, IF users[Target(r)] = Nil THEN "not_found"
             ELSE IF ~UpdateFormOK(form[r]) THEN "invalid"
             ELSE IF form[r].password # Nil THEN "password" ELSE "name")
  /\ UNCHANGED <<database, sessions, audit, form, cookie>>

\* get_user, then the form and the one account an administrator may not disable.
Find(r) ==
  /\ pc[r] = "find"
  /\ found' = [found EXCEPT ![r] = users[Target(r)]]
  /\ \/ users[Target(r)] = Nil /\ Goto(r, "not_found")
     \/ /\ users[Target(r)] # Nil
        /\ \/ /\ ~UpdateFormOK(form[r]) \/ (form[r].status = "disabled" /\ Target(r) = Actor(r))
              /\ Goto(r, "invalid")
           \/ /\ UpdateFormOK(form[r]) /\ ~(form[r].status = "disabled" /\ Target(r) = Actor(r))
              /\ Goto(r, IF form[r].password # Nil THEN "password" ELSE "name")
  /\ UNCHANGED <<database, sessions, audit, form, cookie>>

Set(r, column, value) == users' = [users EXCEPT ![Target(r)][column] = value]

SetPassword(r) ==
  /\ pc[r] = "password"
  /\ Set(r, "password", form[r].password)
  /\ Goto(r, "name")
  /\ UNCHANGED <<catalog, grants, sessions, audit, form, cookie, found>>

\* Mutant: the status is compared the wrong way round.
UpdateName_Swapped(r) ==
  /\ pc[r] = "name"
  /\ Set(r, "name", form[r].name)
  /\ Goto(r, IF found[r].status = form[r].status THEN "status" ELSE "updated")
  /\ UNCHANGED <<catalog, grants, sessions, audit, form, cookie, found>>

\* The status is written only when it differs from the one read before.
UpdateName(r) ==
  /\ pc[r] = "name"
  /\ Set(r, "name", form[r].name)
  /\ Goto(r, IF found[r].status # form[r].status THEN "status" ELSE "updated")
  /\ UNCHANGED <<catalog, grants, sessions, audit, form, cookie, found>>

SetStatus(r) ==
  /\ pc[r] = "status"
  /\ Set(r, "status", form[r].status)
  /\ Goto(r, "updated")
  /\ UNCHANGED <<catalog, grants, sessions, audit, form, cookie, found>>

\* A statement of a handler fails, or the request is abandoned; what it wrote stays.
Fail(r) ==
  /\ pc[r] \in {"create", "audit", "find", "password", "name", "status"}
  /\ Goto(r, "failed")
  /\ UNCHANGED <<database, sessions, audit, form, cookie, found>>

Work(r) ==
  \/ LoadSession(r) \/ LoadActorUser(r) \/ LoadGrants(r) \/ Deny(r)
  \/ Create(r) \/ RecordCreate(r)
  \/ Find(r) \/ SetPassword(r) \/ UpdateName(r) \/ SetStatus(r) \/ Fail(r)

----------------------------------------------------------------------------
(* Meanwhile: sign-out or expiry, and edits of the grants, which no handler makes. *)

EndSession(s) ==
  /\ s \in sessions
  /\ sessions' = sessions \ {s}
  /\ UNCHANGED <<database, audit, pc, form, cookie, found>>

EditGrants ==
  /\ \/ /\ \E e \in RolePermissionEdits : GrantPermission(e[1], e[2]) \/ RevokePermission(e[1], e[2])
        /\ UNCHANGED <<user_roles, group_roles, group_members>>
     \/ /\ \E e \in UserRoleEdits : AssignRole(e[1], e[2], e[3]) \/ RevokeRole(e[1], e[2], e[3])
        /\ UNCHANGED <<role_permissions, group_roles, group_members>>
     \/ /\ \E e \in GroupRoleEdits : AssignRoleToGroup(e[1], e[2]) \/ RevokeRoleFromGroup(e[1], e[2])
        /\ UNCHANGED <<role_permissions, user_roles, group_members>>
     \/ /\ \E e \in MemberEdits : AddMember(e[1], e[2]) \/ RemoveMember(e[1], e[2])
        /\ UNCHANGED <<role_permissions, user_roles, group_roles>>
  /\ UNCHANGED <<users, catalog, areaVars>>

Step ==
  \/ \E r \in Requests : Work(r) \/ (\E f \in Forms, s \in Sessions : Arrive(r, f, s))
  \/ \E s \in Sessions : EndSession(s)
  \/ EditGrants

\* The account may do what op needs: it has a role, of its own and for no group or by a group of
\* its own, with a code for it.
Entitled(a, op) ==
  \E role \in Roles, code \in Codes :
    /\ <<role, code>> \in role_permissions
    /\ \/ <<a, role, Nil>> \in user_roles
       \/ \E g \in Groups : <<g, a>> \in group_members /\ <<g, role>> \in group_roles
    /\ code[1] \in {"*", "users"} /\ code[2] \in {"*", op}

EntitledNow(r) == Entitled(Actor(r), form[r].op)

\* What since and overlap remember.
Remember ==
  /\ since' = [r \in Requests |->
       IF pc'[r] = "idle" THEN since[r] ELSE
         [live |-> since[r].live \/ cookie'[r] \in sessions',
          allowed |-> since[r].allowed \/ EntitledNow(r)']]
  /\ overlap' = overlap \cup {r \in Requests :
       /\ pc[r] \in {"password", "name", "status"} /\ pc'[r] = pc[r]
       /\ users'[Target(r)] # users[Target(r)]}

Next == Step /\ Remember

Spec == Init /\ [][Next]_vars

----------------------------------------------------------------------------
(* Properties. *)

\* A request gets past the permission only if, at some moment since it arrived, its session was
\* alive and, at some moment, its account was entitled to what it does: a session that ended or a
\* grant that was revoked before the request came is never used, a grant scoped to a group never.
Authorised ==
  \A r \in Requests :
    pc[r] \notin {"idle", "session", "user", "grants", "unauthorized", "forbidden"} =>
      since[r].live /\ since[r].allowed

\* An account changes only by a request for it that is authorised, is created once and by a
\* create, and is never disabled by its own session, however much later than the check the
\* statement runs (update_handler: "An admin must never lock themselves out by accident").
OnlyAdministered ==
  [][\A a \in Accounts : users'[a] # users[a] =>
       \E r \in Requests :
         /\ pc'[r] # pc[r] /\ Target(r) = a
         /\ since[r].live /\ since[r].allowed
         /\ form[r].op = "create" <=> users[a] = Nil
         /\ form[r].op = "update" /\ users'[a].status = "disabled" /\ Actor(r) = a =>
              users[a].status = "disabled"]_vars

\* When an administrator is told "User updated" and nobody else wrote the account meanwhile, it is
\* as the form says: name, status, and the password if one was given.
UpdateLands ==
  [][\A r \in Requests : pc[r] # "updated" /\ pc'[r] = "updated" /\ r \notin overlap =>
       /\ users'[Target(r)].name = form[r].name
       /\ users'[Target(r)].status = form[r].status
       /\ form[r].password # Nil => users'[Target(r)].password = form[r].password]_vars

\* However creations race, an account is created by one request, which alone is on record as its
\* creator; it is not on record only if that request has yet to write the entry or failed.
CreatorOnRecord ==
  \A a \in Accounts :
    LET entries == {e \in audit : e.action = "create" /\ e.account = a}
        creators == {r \in Requests : pc[r] \in {"audit", "created"} /\ Target(r) = a} IN
    /\ \A e1, e2 \in entries : e1 = e2
    /\ \A r1, r2 \in creators : r1 = r2
    /\ \A r \in creators : InitUsers[a] = Nil /\ (pc[r] = "created" => entries = {Entry(r)})
    /\ InitUsers[a] = Nil /\ users[a] # Nil /\ entries = {} =>
         \E r \in Requests : Target(r) = a /\ pc[r] \in {"audit", "failed"}
=============================================================================
