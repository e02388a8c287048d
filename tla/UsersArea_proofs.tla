------------------------- MODULE UsersArea_proofs -------------------------
(***************************************************************************)
(* Proofs about UsersArea, for every set of requests, sessions, forms and  *)
(* edits.  IInv says of each await what the request has established by     *)
(* then, and of the tables which request is behind every account that was  *)
(* not there in the beginning.                                             *)
(***************************************************************************)
EXTENDS UsersArea, TLAPS

Past(r) == pc[r] \notin {"idle", "session", "user", "grants", "unauthorized", "forbidden"}
Writing == {"password", "name", "status"}

\* What since has noted by each await.
SinceOK(r) ==
  /\ pc[r] # "idle" => /\ cookie[r] \in sessions => since[r].live
                       /\ EntitledNow(r) => since[r].allowed
  /\ pc[r] \in {"user", "grants"} \/ Past(r) => since[r].live
  /\ Past(r) => since[r].allowed

\* What the handler has checked by each await.
CheckedOK(r) ==
  /\ pc[r] \in {"create", "audit", "created"} => form[r].op = "create" /\ CreateFormOK(form[r])
  /\ pc[r] \in {"find", "updated"} \cup Writing => form[r].op = "update"
  /\ pc[r] \in {"updated"} \cup Writing =>
       /\ UpdateFormOK(form[r])
       /\ ~(form[r].status = "disabled" /\ Target(r) = Actor(r))
       /\ users[Target(r)] # Nil
  /\ pc[r] = "password" => form[r].password # Nil

\* What the row still is while nobody else writes it.
LandedOK(r) ==
  r \notin overlap =>
    /\ pc[r] \in {"password", "name"} => users[Target(r)].status = found[r].status
    /\ pc[r] \in {"name", "status"} /\ form[r].password # Nil =>
         users[Target(r)].password = form[r].password
    /\ pc[r] = "status" => users[Target(r)].name = form[r].name

Creator(r, a) == pc[r] \in {"audit", "created"} /\ Target(r) = a

RecordOK ==
  /\ \A a \in Accounts : InitUsers[a] # Nil => users[a] # Nil
  /\ \A r \in Requests : \A a \in Accounts :
       Creator(r, a) => InitUsers[a] = Nil /\ users[a] # Nil
  /\ \A r, q \in Requests : \A a \in Accounts : Creator(r, a) /\ Creator(q, a) => r = q
  /\ \A r \in Requests : pc[r] = "created" => Entry(r) \in audit
  /\ \A e \in audit : \E r \in Requests : pc[r] = "created" /\ e = Entry(r)
  /\ \A a \in Accounts : InitUsers[a] = Nil /\ users[a] # Nil =>
       \E r \in Requests : pc[r] \in {"audit", "created", "failed"} /\ Target(r) = a

IInv ==
  /\ TypeOK
  /\ \A r \in Requests : SinceOK(r) /\ CheckedOK(r) /\ LandedOK(r)
  /\ RecordOK

----------------------------------------------------------------------------
(* What a step is. *)

\* A step of other requests leaves the locals of r alone.
Same(r) == /\ pc'[r] = pc[r] /\ form'[r] = form[r]
           /\ cookie'[r] = cookie[r] /\ found'[r] = found[r]

\* A row, or none; none is not a row.
LEMMA UserFacts ==
  /\ Nil \notin User
  /\ \A u \in User : DOMAIN u = {"name", "status", "password"}
BY GrantsAssumption DEF User, Statuses

\* A form that is there has its fields.
LEMMA FormFacts ==
  ASSUME TypeOK, NEW r \in Requests, pc[r] # "idle"
  PROVE  /\ form[r] \in Form /\ cookie[r] \in Sessions
         /\ Target(r) \in Accounts /\ Actor(r) \in Accounts
         /\ form[r].op \in Operations
BY UsersAreaAssumption DEF TypeOK, Form, Target, Actor

\* Only Work and Arrive touch a request.
LEMMA WorkSame ==
  ASSUME TypeOK, NEW r \in Requests, NEW q \in Requests, q # r,
         Work(r) \/ (\E f \in Forms, s \in Sessions : Arrive(r, f, s))
  PROVE  Same(q)
BY DEF TypeOK, Same, Work, Arrive, Goto, LoadSession, LoadActorUser, LoadGrants, Deny, Create,
       RecordCreate, Find, SetPassword, UpdateName, SetStatus, Fail

\* The rest leaves all of them, and the accounts, alone.
LEMMA OutsideSame ==
  ASSUME EditGrants \/ (\E s \in Sessions : EndSession(s)) \/ UNCHANGED vars
  PROVE  UNCHANGED <<users, audit, pc, form, cookie, found>>
BY DEF EditGrants, EndSession, areaVars, vars, database, Set

\* What the actor holds for no group is what its account is entitled to.
LEMMA GrantedIsEntitled ==
  ASSUME NEW a \in Accounts, NEW op \in Operations, Can(Granted(a, Nil), Needed(op))
  PROVE  Entitled(a, op)
<1>1. PICK code \in Granted(a, Nil) :
        code[1] \in {"*", Needed(op)[1]} /\ code[2] \in {"*", Needed(op)[2]}
  BY DEF Can
<1>2. Needed(op)[1] = "users" /\ Needed(op)[2] = op
  BY DEF Needed, Operations
<1> QED BY <1>1, <1>2 DEF Granted, Entitled

Value(column) == CASE column = "name" -> Names
                   [] column = "status" -> Statuses
                   [] column = "password" -> Passwords \cup {Nil}

\* An UPDATE of one column: the row stays a row, and nothing else changes.
LEMMA SetFacts ==
  ASSUME TypeOK, NEW r \in Requests, Target(r) \in Accounts, users[Target(r)] # Nil,
         NEW column \in {"name", "status", "password"}, NEW value \in Value(column),
         Set(r, column, value)
  PROVE  /\ users' \in [Accounts -> User \cup {Nil}]
         /\ users'[Target(r)] \in User
         /\ users'[Target(r)][column] = value
         /\ \A other \in {"name", "status", "password"} \ {column} :
              users'[Target(r)][other] = users[Target(r)][other]
         /\ \A a \in Accounts \ {Target(r)} : users'[a] = users[a]
<1>1. users \in [Accounts -> User \cup {Nil}] /\ users[Target(r)] \in User
  BY DEF TypeOK, GrantsTypeOK
<1>2. users'[Target(r)] = [users[Target(r)] EXCEPT ![column] = value]
  BY <1>1 DEF Set
<1>3. users'[Target(r)] \in User
  <2>1. CASE column = "name"
    BY <1>1, <1>2, <2>1 DEF User, Value
  <2>2. CASE column = "status"
    BY <1>1, <1>2, <2>2 DEF User, Value
  <2>3. CASE column = "password"
    BY <1>1, <1>2, <2>3 DEF User, Value
  <2> QED BY <2>1, <2>2, <2>3
<1>4. \A a \in Accounts \ {Target(r)} : users'[a] = users[a]
  BY <1>1 DEF Set
<1>5. users' \in [Accounts -> User \cup {Nil}]
  BY <1>1, <1>3, <1>4 DEF Set
<1>6. DOMAIN users[Target(r)] = {"name", "status", "password"}
  BY <1>1, UserFacts
<1> QED BY <1>2, <1>3, <1>4, <1>5, <1>6

\* The row a request writes exists, and the value has its type.
LEMMA WritesAreSets ==
  ASSUME IInv, NEW r \in Requests, SetPassword(r) \/ UpdateName(r) \/ SetStatus(r)
  PROVE  \E column \in {"name", "status", "password"} : \E value \in Value(column) :
           /\ Set(r, column, value)
           /\ SetPassword(r) => column = "password" /\ value = form[r].password
           /\ UpdateName(r) => column = "name" /\ value = form[r].name
           /\ SetStatus(r) => column = "status" /\ value = form[r].status
<1>1. /\ form[r] \in Form /\ UpdateFormOK(form[r])
      /\ pc[r] = "password" => form[r].password # Nil
  BY FormFacts DEF IInv, CheckedOK, Writing, SetPassword, UpdateName, SetStatus
<1>2. CASE SetPassword(r)
  <2>1. form[r].password \in Value("password")
    BY <1>1 DEF Form, UpdateFormOK, Value
  <2> QED BY <1>2, <2>1 DEF SetPassword, UpdateName, SetStatus
<1>3. CASE UpdateName(r)
  <2>1. form[r].name \in Value("name")
    BY <1>1 DEF Form, UpdateFormOK, Value
  <2> QED BY <1>3, <2>1 DEF SetPassword, UpdateName, SetStatus
<1>4. CASE SetStatus(r)
  <2>1. form[r].status \in Value("status")
    BY <1>1 DEF Form, Value
  <2> QED BY <1>4, <2>1 DEF SetPassword, UpdateName, SetStatus
<1> QED BY <1>2, <1>3, <1>4

\* What a step does to the accounts: nothing, a new row, or one column of one row, by a request
\* that has come that far.
LEMMA UsersStep ==
  ASSUME IInv, NEW r \in Requests, Work(r)
  PROVE  \/ UNCHANGED users
         \/ /\ pc[r] = "create" /\ pc'[r] = "audit"
            /\ Target(r) \in Accounts /\ users[Target(r)] = Nil /\ users'[Target(r)] \in User
            /\ users' \in [Accounts -> User \cup {Nil}]
            /\ \A a \in Accounts \ {Target(r)} : users'[a] = users[a]
         \/ /\ pc[r] \in Writing
            /\ Target(r) \in Accounts /\ users[Target(r)] # Nil /\ users'[Target(r)] \in User
            /\ users' \in [Accounts -> User \cup {Nil}]
            /\ \A a \in Accounts \ {Target(r)} : users'[a] = users[a]
<1>1. CASE Create(r) /\ CreateUser(Target(r), form[r].name, form[r].password)
  <2>1. /\ pc[r] = "create" /\ pc'[r] = "audit"
        /\ form[r] \in Form /\ Target(r) \in Accounts /\ CreateFormOK(form[r])
        /\ users \in [Accounts -> User \cup {Nil}] /\ users[Target(r)] = Nil
    BY <1>1, FormFacts DEF IInv, TypeOK, GrantsTypeOK, CheckedOK, Create, CreateUser, Goto
  <2>2. [name |-> form[r].name, status |-> "active", password |-> form[r].password] \in User
    BY <2>1 DEF Form, CreateFormOK, User, Statuses
  <2> QED BY <1>1, <2>1, <2>2 DEF CreateUser
<1>2. CASE SetPassword(r) \/ UpdateName(r) \/ SetStatus(r)
  <2>1. pc[r] \in Writing /\ Target(r) \in Accounts /\ users[Target(r)] # Nil
    BY <1>2, FormFacts DEF IInv, CheckedOK, Writing, SetPassword, UpdateName, SetStatus
  <2>2. PICK column \in {"name", "status", "password"} :
          \E value \in Value(column) : Set(r, column, value)
    BY <1>2, WritesAreSets
  <2>3. PICK value \in Value(column) : Set(r, column, value)
    BY <2>2
  <2> QED BY <2>1, <2>3, SetFacts DEF IInv
<1>3. CASE UNCHANGED users
  BY <1>3
<1> QED BY <1>1, <1>2, <1>3 DEF Work, LoadSession, LoadActorUser, LoadGrants, Deny, Create,
      RecordCreate, Find, Fail, database

\* Accounts keep their type and none disappears.
LEMMA AccountsStay ==
  ASSUME IInv, [Next]_vars
  PROVE  /\ users' \in [Accounts -> User \cup {Nil}]
         /\ \A a \in Accounts : users[a] # Nil => users'[a] # Nil
<1>1. users \in [Accounts -> User \cup {Nil}]
  BY DEF IInv, TypeOK, GrantsTypeOK
<1>2. CASE EditGrants \/ (\E s \in Sessions : EndSession(s)) \/ UNCHANGED vars
  BY <1>1, <1>2, OutsideSame
<1>3. ASSUME NEW r \in Requests, Work(r)
      PROVE  /\ users' \in [Accounts -> User \cup {Nil}]
             /\ \A a \in Accounts : users[a] # Nil => users'[a] # Nil
  BY <1>1, <1>3, UsersStep, UserFacts
<1>4. ASSUME NEW r \in Requests, \E f \in Forms, s \in Sessions : Arrive(r, f, s)
      PROVE  UNCHANGED users
  BY <1>4 DEF Arrive, database
<1> QED BY <1>1, <1>2, <1>3, <1>4 DEF Next, Step

----------------------------------------------------------------------------
(* Types. *)

\* Grants of accounts that exist stay grants of accounts that exist.
LEMMA GrantTypes ==
  ASSUME IInv, [Next]_vars
  PROVE  GrantsTypeOK'
<1>1. GrantsTypeOK
  BY DEF IInv, TypeOK
<1>2. CASE UNCHANGED <<catalog, grants>>
  BY <1>1, <1>2, AccountsStay DEF GrantsTypeOK, catalog, grants
<1>3. CASE EditGrants
  <2>0. UNCHANGED <<users, catalog>>
    BY <1>3 DEF EditGrants
  <2>1. ASSUME NEW e \in RolePermissionEdits,
               GrantPermission(e[1], e[2]) \/ RevokePermission(e[1], e[2])
        PROVE  role_permissions' \subseteq roles' \X permissions'
    <3>1. CASE GrantPermission(e[1], e[2])
      BY <1>1, <2>0, <3>1 DEF GrantPermission, GrantsTypeOK, catalog
    <3>2. CASE RevokePermission(e[1], e[2])
      BY <1>1, <2>0, <3>2 DEF RevokePermission, GrantsTypeOK, catalog
    <3> QED BY <2>1, <3>1, <3>2
  <2>2. ASSUME NEW e \in UserRoleEdits,
               AssignRole(e[1], e[2], e[3]) \/ RevokeRole(e[1], e[2], e[3])
        PROVE  user_roles' \subseteq
                 {a \in Accounts : users'[a] # Nil} \X roles' \X (Groups \cup {Nil})
    <3>1. e[1] \in Accounts /\ e[3] \in Groups \cup {Nil}
      BY UsersAreaAssumption
    <3>2. CASE AssignRole(e[1], e[2], e[3])
      BY <1>1, <2>0, <3>1, <3>2 DEF AssignRole, GrantsTypeOK, catalog
    <3>3. CASE RevokeRole(e[1], e[2], e[3])
      BY <1>1, <2>0, <3>3 DEF RevokeRole, GrantsTypeOK, catalog
    <3> QED BY <2>2, <3>2, <3>3
  <2>3. ASSUME NEW e \in GroupRoleEdits,
               AssignRoleToGroup(e[1], e[2]) \/ RevokeRoleFromGroup(e[1], e[2])
        PROVE  group_roles' \subseteq Groups \X roles'
    <3>1. e[1] \in Groups
      BY UsersAreaAssumption
    <3>2. CASE AssignRoleToGroup(e[1], e[2])
      BY <1>1, <2>0, <3>1, <3>2 DEF AssignRoleToGroup, GrantsTypeOK, catalog
    <3>3. CASE RevokeRoleFromGroup(e[1], e[2])
      BY <1>1, <2>0, <3>3 DEF RevokeRoleFromGroup, GrantsTypeOK, catalog
    <3> QED BY <2>3, <3>2, <3>3
  <2>4. ASSUME NEW e \in MemberEdits, AddMember(e[1], e[2]) \/ RemoveMember(e[1], e[2])
        PROVE  group_members' \subseteq Groups \X {a \in Accounts : users'[a] # Nil}
    <3>1. e[1] \in Groups /\ e[2] \in Accounts
      BY UsersAreaAssumption
    <3>2. CASE AddMember(e[1], e[2])
      BY <1>1, <2>0, <3>1, <3>2 DEF AddMember, GrantsTypeOK
    <3>3. CASE RemoveMember(e[1], e[2])
      BY <1>1, <2>0, <3>3 DEF RemoveMember, GrantsTypeOK
    <3> QED BY <2>4, <3>2, <3>3
  <2> QED BY <1>1, <1>3, <2>0, <2>1, <2>2, <2>3, <2>4 DEF EditGrants, GrantsTypeOK, catalog
<1> QED BY <1>2, <1>3 DEF Next, Step, vars, database, Work, Arrive, EndSession, LoadSession,
      LoadActorUser, LoadGrants, Deny, Create, RecordCreate, Find, SetPassword, UpdateName,
      SetStatus, Fail

\* What a request holds keeps its type.
LEMMA LocalTypes ==
  ASSUME IInv, NEW r \in Requests, Work(r) \/ (\E f \in Forms, s \in Sessions : Arrive(r, f, s))
  PROVE  /\ pc' \in [Requests -> Steps]
         /\ form' \in [Requests -> Form \cup {Nil}]
         /\ cookie' \in [Requests -> Sessions \cup {Nil}]
         /\ found' \in [Requests -> User \cup {Nil}]
         /\ audit' \subseteq [action: Operations, account: Accounts, actor: Accounts]
         /\ \A q \in Requests : pc'[q] # "idle" => form'[q] \in Form /\ cookie'[q] \in Sessions
<1>1. /\ TypeOK
      /\ Forms \subseteq Form
      /\ pc[r] # "idle" => /\ Entry(r) \in [action: Operations, account: Accounts, actor: Accounts]
                           /\ users[Target(r)] \in User \cup {Nil}
  BY FormFacts, UsersAreaAssumption DEF IInv, Entry, TypeOK, GrantsTypeOK
<1>2. CASE \E f \in Forms, s \in Sessions : Arrive(r, f, s)
  BY <1>1, <1>2 DEF Arrive, Goto, TypeOK, Steps
<1>3. CASE LoadSession(r) \/ LoadActorUser(r) \/ LoadGrants(r) \/ Deny(r)
  BY <1>1, <1>3 DEF LoadSession, LoadActorUser, LoadGrants, Deny, Goto, TypeOK, Steps, Answers
<1>4. CASE Create(r) \/ SetPassword(r) \/ UpdateName(r) \/ SetStatus(r) \/ Fail(r)
  BY <1>1, <1>4 DEF Create, SetPassword, UpdateName, SetStatus, Fail, Goto, TypeOK, Steps, Answers
<1>5. CASE RecordCreate(r)
  BY <1>1, <1>5 DEF RecordCreate, Goto, TypeOK, Steps, Answers
<1>6. CASE Find(r)
  BY <1>1, <1>6 DEF Find, Goto, TypeOK, Steps, Answers
<1> QED BY <1>2, <1>3, <1>4, <1>5, <1>6, Zenon DEF Work

\* What since notes is true or false.
LEMMA SinceTypes ==
  ASSUME TypeOK, Remember
  PROVE  /\ since' \in [Requests -> [live: BOOLEAN, allowed: BOOLEAN]]
         /\ overlap' \subseteq Requests
<1>1. ASSUME NEW r \in Requests PROVE since'[r] \in [live: BOOLEAN, allowed: BOOLEAN]
  <2>1. CASE pc'[r] = "idle"
    BY <2>1 DEF Remember, TypeOK
  <2>2. CASE pc'[r] # "idle"
    <3>1. since'[r] = [live |-> since[r].live \/ cookie'[r] \in sessions',
                       allowed |-> since[r].allowed \/ EntitledNow(r)']
      BY <2>2 DEF Remember
    <3>2. (since[r].live \/ cookie'[r] \in sessions') \in BOOLEAN
      OBVIOUS
    <3>3. (since[r].allowed \/ EntitledNow(r)') \in BOOLEAN
      OBVIOUS
    <3> QED BY <3>1, <3>2, <3>3
  <2> QED BY <2>1, <2>2
<1>2. DOMAIN since' = Requests /\ since' = [r \in Requests |-> since'[r]]
  BY DEF Remember
<1> QED BY <1>1, <1>2 DEF Remember, TypeOK

\* Types are kept.
LEMMA TypeStep ==
  ASSUME IInv, [Next]_vars
  PROVE  TypeOK'
<1>1. GrantsTypeOK'
  BY GrantTypes
<1>2. sessions' \subseteq Sessions
  BY DEF IInv, TypeOK, Next, Step, EndSession, EditGrants, areaVars, vars, Work, Arrive, LoadSession,
         LoadActorUser, LoadGrants, Deny, Create, RecordCreate, Find, SetPassword, UpdateName,
         SetStatus, Fail
<1>3. /\ since' \in [Requests -> [live: BOOLEAN, allowed: BOOLEAN]]
      /\ overlap' \subseteq Requests
  BY SinceTypes DEF IInv, TypeOK, Next, vars
<1>4. CASE \E r \in Requests : Work(r) \/ (\E f \in Forms, s \in Sessions : Arrive(r, f, s))
  <2>1. PICK r \in Requests : Work(r) \/ (\E f \in Forms, s \in Sessions : Arrive(r, f, s))
    BY <1>4
  <2> QED BY <1>1, <1>2, <1>3, <2>1, LocalTypes DEF TypeOK
<1>5. CASE UNCHANGED <<users, audit, pc, form, cookie, found>>
  BY <1>1, <1>2, <1>3, <1>5 DEF IInv, TypeOK
<1> QED BY <1>4, <1>5, OutsideSame DEF Next, Step

----------------------------------------------------------------------------
(* The conjuncts of the invariant, request by request. *)

\* A step moves request r, or leaves it the same and is another's or nobody's.
LEMMA StepOf ==
  ASSUME IInv, [Next]_vars, NEW r \in Requests
  PROVE  Same(r) \/ Work(r) \/ (\E f \in Forms, s \in Sessions : Arrive(r, f, s))
<1>1. ASSUME NEW q \in Requests, Work(q) \/ (\E f \in Forms, s \in Sessions : Arrive(q, f, s))
      PROVE  Same(r) \/ Work(r) \/ (\E f \in Forms, s \in Sessions : Arrive(r, f, s))
  BY <1>1, WorkSame DEF IInv
<1>2. CASE UNCHANGED <<users, audit, pc, form, cookie, found>>
  BY <1>2 DEF Same
<1> QED BY <1>1, <1>2, OutsideSame DEF Next, Step

\* since remembers the present and what it remembered.
LEMMA SinceFacts ==
  ASSUME Remember, NEW r \in Requests, pc'[r] # "idle"
  PROVE  /\ since'[r].live <=> since[r].live \/ cookie'[r] \in sessions'
         /\ since'[r].allowed <=> since[r].allowed \/ EntitledNow(r)'
BY DEF Remember

\* A request that got past a read of the pipeline had what it read for.
LEMMA Pipeline ==
  ASSUME IInv, NEW r \in Requests, Work(r)
  PROVE  /\ pc[r] # "idle" /\ pc'[r] # "idle"
         /\ (pc[r] \in {"user", "grants"} \/ Past(r))' =>
              pc[r] \in {"user", "grants"} \/ Past(r) \/ cookie[r] \in sessions
         /\ Past(r)' => Past(r) \/ EntitledNow(r)
<1>1. pc \in [Requests -> Steps]
  BY DEF IInv, TypeOK
<1>2. CASE LoadSession(r)
  BY <1>1, <1>2 DEF LoadSession, Goto, Past
<1>3. CASE LoadActorUser(r) \/ Deny(r)
  BY <1>1, <1>3 DEF LoadActorUser, Deny, Goto, Past
<1>4. CASE LoadGrants(r)
  <2>1. Can(Granted(Actor(r), Nil), Needed(form[r].op)) => EntitledNow(r)
    BY <1>4, FormFacts, GrantedIsEntitled DEF IInv, LoadGrants, EntitledNow
  <2> QED BY <1>1, <1>4, <2>1 DEF LoadGrants, Goto, Past
<1>5. CASE Create(r) \/ RecordCreate(r) \/ Find(r) \/ SetPassword(r) \/ UpdateName(r) \/ SetStatus(r)
            \/ Fail(r)
  BY <1>1, <1>5 DEF Create, RecordCreate, Find, SetPassword, UpdateName, SetStatus, Fail, Goto, Past
<1> QED BY <1>2, <1>3, <1>4, <1>5 DEF Work

\* since is kept.
LEMMA SinceStep ==
  ASSUME IInv, [Next]_vars, NEW r \in Requests
  PROVE  SinceOK(r)'
<1>0. SinceOK(r)
  BY DEF IInv
<1>1. CASE UNCHANGED vars
  BY <1>0, <1>1 DEF SinceOK, Past, EntitledNow, Entitled, Actor, vars, areaVars, database, grants
<1>2. ASSUME Remember, pc'[r] # "idle"
      PROVE  /\ cookie'[r] \in sessions' \/ since[r].live => since'[r].live
             /\ EntitledNow(r)' \/ since[r].allowed => since'[r].allowed
  BY <1>2, SinceFacts
<1>3. CASE Remember /\ Same(r)
  BY <1>0, <1>2, <1>3 DEF SinceOK, Past, Same
<1>4. CASE Remember /\ Work(r)
  BY <1>0, <1>2, <1>4, Pipeline DEF SinceOK
<1>5. CASE Remember /\ \E f \in Forms, s \in Sessions : Arrive(r, f, s)
  BY <1>2, <1>5 DEF SinceOK, Past, Arrive, Goto, IInv, TypeOK
<1> QED BY <1>1, <1>3, <1>4, <1>5, StepOf DEF Next

\* What has been checked stays checked: a form does not change, an account does not disappear.
LEMMA CheckedStep ==
  ASSUME IInv, [Next]_vars, NEW r \in Requests
  PROVE  CheckedOK(r)'
<1>0. /\ CheckedOK(r)
      /\ pc \in [Requests -> Steps]
      /\ pc[r] # "idle" => Target(r) \in Accounts /\ form[r].op \in Operations
      /\ \A a \in Accounts : users[a] # Nil => users'[a] # Nil
  BY FormFacts, AccountsStay DEF IInv, TypeOK
<1> USE <1>0 DEF CheckedOK, Writing, Target, Actor
<1>1. CASE Same(r)
  BY <1>1 DEF Same
<1>2. CASE \E f \in Forms, s \in Sessions : Arrive(r, f, s)
  BY <1>2 DEF Arrive, Goto
<1>3. CASE LoadSession(r) \/ LoadActorUser(r) \/ Deny(r)
  BY <1>3 DEF LoadSession, LoadActorUser, Deny, Goto
<1>4. CASE LoadGrants(r)
  BY <1>4 DEF LoadGrants, Goto
<1>5. CASE Create(r) \/ RecordCreate(r) \/ Fail(r)
  BY <1>5 DEF Create, RecordCreate, Fail, Goto
<1>6. CASE Find(r)
  BY <1>6 DEF Find, Goto
<1>7. CASE SetPassword(r) \/ UpdateName(r) \/ SetStatus(r)
  BY <1>7 DEF SetPassword, UpdateName, SetStatus, Goto
<1> QED BY <1>1, <1>2, <1>3, <1>4, <1>5, <1>6, <1>7, StepOf DEF Work

\* What the three statements of update_handler make of the row.
LEMMA WriteFacts ==
  ASSUME IInv, NEW r \in Requests
  PROVE  /\ SetPassword(r) => /\ users'[Target(r)].password = form[r].password
                              /\ users'[Target(r)].status = users[Target(r)].status
         /\ UpdateName(r) => /\ users'[Target(r)].name = form[r].name
                             /\ users'[Target(r)].status = users[Target(r)].status
                             /\ users'[Target(r)].password = users[Target(r)].password
         /\ SetStatus(r) => /\ users'[Target(r)].status = form[r].status
                            /\ users'[Target(r)].name = users[Target(r)].name
                            /\ users'[Target(r)].password = users[Target(r)].password
<1> SUFFICES ASSUME SetPassword(r) \/ UpdateName(r) \/ SetStatus(r)
             PROVE  /\ SetPassword(r) => /\ users'[Target(r)].password = form[r].password
                                         /\ users'[Target(r)].status = users[Target(r)].status
                    /\ UpdateName(r) => /\ users'[Target(r)].name = form[r].name
                                        /\ users'[Target(r)].status = users[Target(r)].status
                                        /\ users'[Target(r)].password = users[Target(r)].password
                    /\ SetStatus(r) => /\ users'[Target(r)].status = form[r].status
                                       /\ users'[Target(r)].name = users[Target(r)].name
                                       /\ users'[Target(r)].password = users[Target(r)].password
  OBVIOUS
<1>1. Target(r) \in Accounts /\ users[Target(r)] # Nil /\ TypeOK
  BY FormFacts DEF IInv, CheckedOK, Writing, SetPassword, UpdateName, SetStatus
<1>2. PICK column \in {"name", "status", "password"} : \E value \in Value(column) :
        /\ Set(r, column, value)
        /\ SetPassword(r) => column = "password" /\ value = form[r].password
        /\ UpdateName(r) => column = "name" /\ value = form[r].name
        /\ SetStatus(r) => column = "status" /\ value = form[r].status
  BY WritesAreSets
<1>3. PICK value \in Value(column) :
        /\ Set(r, column, value)
        /\ SetPassword(r) => column = "password" /\ value = form[r].password
        /\ UpdateName(r) => column = "name" /\ value = form[r].name
        /\ SetStatus(r) => column = "status" /\ value = form[r].status
  BY <1>2
<1>4. /\ users'[Target(r)][column] = value
      /\ \A other \in {"name", "status", "password"} \ {column} :
           users'[Target(r)][other] = users[Target(r)][other]
  BY <1>1, <1>3, SetFacts
<1>5. CASE column = "name"
  BY <1>3, <1>4, <1>5
<1>6. CASE column = "status"
  BY <1>3, <1>4, <1>6
<1>7. CASE column = "password"
  BY <1>3, <1>4, <1>7
<1> QED BY <1>5, <1>6, <1>7

\* The row is what the request has made of it, unless overlap tells otherwise.
LEMMA LandedStep ==
  ASSUME IInv, [Next]_vars, NEW r \in Requests
  PROVE  LandedOK(r)'
<1>0. LandedOK(r) /\ CheckedOK(r) /\ pc \in [Requests -> Steps]
      /\ found \in [Requests -> User \cup {Nil}]
  BY DEF IInv, TypeOK
<1>1. CASE UNCHANGED vars
  BY <1>0, <1>1 DEF LandedOK, Target, vars, areaVars, database
<1>2. ASSUME Remember, r \notin overlap'
      PROVE  /\ r \notin overlap
             /\ pc[r] \in Writing /\ pc'[r] = pc[r] => users'[Target(r)] = users[Target(r)]
  BY <1>2 DEF Remember, Writing
<1>3. CASE Remember /\ Same(r)
  BY <1>0, <1>2, <1>3 DEF LandedOK, Same, Target, Writing
<1>4. CASE \E f \in Forms, s \in Sessions : Arrive(r, f, s)
  BY <1>0, <1>4 DEF LandedOK, Arrive, Goto
<1>5. CASE LoadSession(r) \/ LoadActorUser(r) \/ LoadGrants(r) \/ Deny(r) \/ Create(r)
             \/ RecordCreate(r) \/ Fail(r)
  BY <1>0, <1>5 DEF LandedOK, LoadSession, LoadActorUser, LoadGrants, Deny, Create, RecordCreate,
                    Fail, Goto
<1>6. CASE Find(r)
  BY <1>0, <1>6 DEF LandedOK, Find, Goto, Target, database
<1>7. CASE Remember /\ SetPassword(r)
  BY <1>0, <1>2, <1>7, WriteFacts DEF LandedOK, SetPassword, Goto, Target
<1>8. CASE Remember /\ UpdateName(r)
  BY <1>0, <1>2, <1>8, WriteFacts DEF LandedOK, UpdateName, Goto, Target
<1>9. CASE SetStatus(r)
  BY <1>0, <1>9 DEF LandedOK, SetStatus, Goto
<1> QED BY <1>1, <1>3, <1>4, <1>5, <1>6, <1>7, <1>8, <1>9, StepOf DEF Next, Work

----------------------------------------------------------------------------
(* Who created what. *)

\* A creator creates an account that was not there; entries are written by those who are done.
LEMMA CreatorSteps ==
  ASSUME IInv, NEW r \in Requests, Work(r)
  PROVE  \/ /\ pc[r] = "create" /\ pc'[r] = "audit" /\ users[Target(r)] = Nil
            /\ Target(r) \in Accounts /\ users'[Target(r)] # Nil /\ UNCHANGED audit
            /\ \A a \in Accounts \ {Target(r)} : users'[a] = users[a]
         \/ /\ pc[r] = "audit" /\ pc'[r] = "created" /\ UNCHANGED users
            /\ audit' = audit \cup {Entry(r)}
         \/ /\ pc[r] # "created" /\ pc'[r] \notin {"audit", "created"}
            /\ pc[r] = "audit" => pc'[r] = "failed"
            /\ pc[r] # "failed" /\ UNCHANGED audit
            /\ \A a \in Accounts : users'[a] = Nil <=> users[a] = Nil
<1>0. /\ pc \in [Requests -> Steps] /\ users \in [Accounts -> User \cup {Nil}]
      /\ Target(r) \in Accounts
  BY Pipeline, FormFacts DEF IInv, TypeOK, GrantsTypeOK
<1>1. CASE Create(r) /\ CreateUser(Target(r), form[r].name, form[r].password)
  <2>1. pc[r] = "create" /\ pc'[r] = "audit" /\ UNCHANGED audit /\ users[Target(r)] = Nil
    BY <1>0, <1>1 DEF Create, CreateUser, Goto
  <2>2. users'[Target(r)] # users[Target(r)]
    <3>1. form[r] \in Form /\ CreateFormOK(form[r])
      BY <2>1, FormFacts DEF IInv, CheckedOK
    <3>2. [name |-> form[r].name, status |-> "active", password |-> form[r].password] \in User
      BY <3>1 DEF Form, CreateFormOK, User, Statuses
    <3> QED BY <1>0, <1>1, <2>1, <3>2, UserFacts DEF CreateUser
  <2>3. \A a \in Accounts \ {Target(r)} : users'[a] = users[a]
    BY <1>0, <1>1 DEF CreateUser
  <2> QED BY <1>0, <2>1, <2>2, <2>3
<1>2. CASE RecordCreate(r)
  BY <1>0, <1>2 DEF RecordCreate, Goto, database
<1>3. CASE SetPassword(r) \/ UpdateName(r) \/ SetStatus(r)
  <2>1. pc[r] \in Writing /\ pc'[r] \in {"name", "status", "updated"} /\ UNCHANGED audit
    BY <1>0, <1>3 DEF SetPassword, UpdateName, SetStatus, Goto, Writing
  <2>2. \A a \in Accounts : users'[a] = Nil <=> users[a] = Nil
    BY <1>3, <2>1, UsersStep, UserFacts DEF Writing
  <2> QED BY <2>1, <2>2 DEF Writing
<1>4. CASE UNCHANGED <<users, audit>> /\ pc[r] \notin {"audit", "created", "failed"}
             /\ pc'[r] \notin {"audit", "created"}
  BY <1>4
<1>5. CASE LoadSession(r) \/ LoadActorUser(r) \/ LoadGrants(r) \/ Deny(r)
  BY <1>0, <1>4, <1>5 DEF LoadSession, LoadActorUser, LoadGrants, Deny, Goto, database
<1>6. CASE Find(r)
  BY <1>0, <1>4, <1>6 DEF Find, Goto, database
<1>7. CASE Fail(r)
  BY <1>0, <1>7 DEF Fail, Goto, database
<1>8. CASE Create(r) /\ UNCHANGED users /\ pc'[r] = "conflict"
  BY <1>4, <1>8 DEF Create
<1> QED BY <1>0, <1>1, <1>2, <1>3, <1>5, <1>6, <1>7, <1>8 DEF Work, Create, Goto

\* A handler does not change its arguments.
LEMMA WorkKeepsArguments ==
  ASSUME NEW r \in Requests, Work(r)
  PROVE  UNCHANGED <<form, cookie>>
BY DEF Work, LoadSession, LoadActorUser, LoadGrants, Deny, Create, RecordCreate, Find, SetPassword,
       UpdateName, SetStatus, Fail

\* The record stays right when nothing it speaks of changes.
LEMMA RecordSame ==
  ASSUME RecordOK, UNCHANGED <<users, audit, form, cookie>>,
         \A q \in Requests : \/ pc'[q] = pc[q]
                             \/ /\ pc[q] \notin {"audit", "created", "failed"}
                                /\ pc'[q] \notin {"audit", "created"}
  PROVE  RecordOK'
BY DEF RecordOK, Creator, Entry, Target, Actor

\* Every new account has its creator, and the creator alone its entry.
LEMMA RecordStep ==
  ASSUME IInv, [Next]_vars
  PROVE  RecordOK'
<1>0. RecordOK
  BY DEF IInv
<1>1. CASE UNCHANGED <<users, audit, pc, form, cookie, found>>
  BY <1>0, <1>1, RecordSame
<1>2. ASSUME NEW r \in Requests, NEW f \in Forms, NEW s \in Sessions, Arrive(r, f, s)
      PROVE  RecordOK'
  <2>1. /\ pc[r] = "idle" /\ pc'[r] = "session" /\ UNCHANGED <<users, audit>>
        /\ \A q \in Requests \ {r} : Same(q)
    BY <1>2, WorkSame DEF Arrive, Goto, IInv, TypeOK, database
  <2> QED BY <1>0, <2>1 DEF RecordOK, Creator, Entry, Target, Actor, Same
<1>3. ASSUME NEW r \in Requests, Work(r)
      PROVE  RecordOK'
  <2>1. UNCHANGED <<form, cookie>> /\ (\A q \in Requests \ {r} : pc'[q] = pc[q])
    BY <1>3, WorkKeepsArguments, WorkSame DEF IInv, Same
  <2>2. \A q \in Requests : /\ Entry(q)' = Entry(q) /\ Target(q)' = Target(q)
    BY <2>1 DEF Entry, Target, Actor
  <2>3. CASE /\ pc[r] = "create" /\ pc'[r] = "audit" /\ users[Target(r)] = Nil
             /\ Target(r) \in Accounts /\ users'[Target(r)] # Nil /\ UNCHANGED audit
             /\ \A a \in Accounts \ {Target(r)} : users'[a] = users[a]
    <3>1. \A q \in Requests : ~Creator(q, Target(r))
      BY <1>0, <2>3 DEF RecordOK
    <3>2. \A q \in Requests, a \in Accounts : Creator(q, a)' <=> Creator(q, a) \/ (q = r /\ a = Target(r))
      BY <2>1, <2>2, <2>3 DEF Creator
    <3>3. InitUsers[Target(r)] = Nil
      BY <1>0, <2>3 DEF RecordOK
    <3>4. \A a \in Accounts : InitUsers[a] # Nil => users'[a] # Nil
      BY <1>0, <2>3 DEF RecordOK
    <3>5. \A q \in Requests : \A a \in Accounts :
            Creator(q, a)' => InitUsers[a] = Nil /\ users'[a] # Nil
      BY <1>0, <2>3, <3>2, <3>3 DEF RecordOK
    <3>6. \A q1, q2 \in Requests : \A a \in Accounts : Creator(q1, a)' /\ Creator(q2, a)' => q1 = q2
      BY <1>0, <3>1, <3>2 DEF RecordOK
    <3>7. \A q \in Requests : pc'[q] = "created" => pc[q] = "created"
      BY <2>1, <2>3
    <3>8. \A q \in Requests : pc[q] \in {"audit", "created", "failed"} => pc'[q] = pc[q]
      BY <2>1, <2>3
    <3>9. \A e \in audit' : \E q \in Requests : pc'[q] = "created" /\ e = Entry(q)'
      BY <1>0, <2>2, <2>3, <3>8 DEF RecordOK
    <3>10. \A q \in Requests : pc'[q] = "created" => Entry(q)' \in audit'
      BY <1>0, <2>2, <2>3, <3>7 DEF RecordOK
    <3>11. \A a \in Accounts : InitUsers[a] = Nil /\ users'[a] # Nil =>
             \E q \in Requests : pc'[q] \in {"audit", "created", "failed"} /\ Target(q)' = a
      BY <1>0, <2>2, <2>3, <3>8 DEF RecordOK
    <3> QED BY <3>4, <3>5, <3>6, <3>9, <3>10, <3>11 DEF RecordOK
  <2>4. CASE /\ pc[r] = "audit" /\ pc'[r] = "created" /\ UNCHANGED users
             /\ audit' = audit \cup {Entry(r)}
    <3>1. \A q \in Requests, a \in Accounts : Creator(q, a)' <=> Creator(q, a)
      BY <2>1, <2>2, <2>4 DEF Creator
    <3>2. \A q \in Requests : pc'[q] = "created" <=> pc[q] = "created" \/ q = r
      BY <2>1, <2>4
    <3>3. \A q \in Requests : pc[q] \in {"audit", "created", "failed"} =>
            pc'[q] \in {"audit", "created", "failed"}
      BY <2>1, <2>4
    <3>4. \A e \in audit' : \E q \in Requests : pc'[q] = "created" /\ e = Entry(q)'
      BY <1>0, <2>2, <2>4, <3>2 DEF RecordOK
    <3>5. \A q \in Requests : pc'[q] = "created" => Entry(q)' \in audit'
      BY <1>0, <2>2, <2>4, <3>2 DEF RecordOK
    <3>6. \A a \in Accounts : InitUsers[a] = Nil /\ users'[a] # Nil =>
            \E q \in Requests : pc'[q] \in {"audit", "created", "failed"} /\ Target(q)' = a
      BY <1>0, <2>2, <2>4, <3>3 DEF RecordOK
    <3>7. /\ \A a \in Accounts : InitUsers[a] # Nil => users'[a] # Nil
          /\ \A q \in Requests : \A a \in Accounts :
               Creator(q, a)' => InitUsers[a] = Nil /\ users'[a] # Nil
          /\ \A q1, q2 \in Requests : \A a \in Accounts : Creator(q1, a)' /\ Creator(q2, a)' => q1 = q2
      BY <1>0, <2>4, <3>1 DEF RecordOK
    <3> QED BY <3>4, <3>5, <3>6, <3>7 DEF RecordOK
  <2>5. CASE /\ pc[r] # "created" /\ pc'[r] \notin {"audit", "created"}
             /\ pc[r] = "audit" => pc'[r] = "failed"
             /\ pc[r] # "failed" /\ UNCHANGED audit
             /\ \A a \in Accounts : users'[a] = Nil <=> users[a] = Nil
    <3>1. \A q \in Requests, a \in Accounts : Creator(q, a)' => Creator(q, a)
      BY <2>1, <2>2, <2>5 DEF Creator
    <3>2. \A q \in Requests : pc'[q] = "created" <=> pc[q] = "created"
      BY <2>1, <2>5
    <3>3. \A q \in Requests : pc[q] \in {"audit", "created", "failed"} =>
            pc'[q] \in {"audit", "created", "failed"}
      BY <2>1, <2>5
    <3>4. \A e \in audit' : \E q \in Requests : pc'[q] = "created" /\ e = Entry(q)'
      BY <1>0, <2>2, <2>5, <3>2 DEF RecordOK
    <3>5. \A q \in Requests : pc'[q] = "created" => Entry(q)' \in audit'
      BY <1>0, <2>2, <2>5, <3>2 DEF RecordOK
    <3>6. \A a \in Accounts : InitUsers[a] = Nil /\ users'[a] # Nil =>
            \E q \in Requests : pc'[q] \in {"audit", "created", "failed"} /\ Target(q)' = a
      BY <1>0, <2>2, <2>5, <3>3 DEF RecordOK
    <3>7. /\ \A a \in Accounts : InitUsers[a] # Nil => users'[a] # Nil
          /\ \A q \in Requests : \A a \in Accounts :
               Creator(q, a)' => InitUsers[a] = Nil /\ users'[a] # Nil
          /\ \A q1, q2 \in Requests : \A a \in Accounts : Creator(q1, a)' /\ Creator(q2, a)' => q1 = q2
      BY <1>0, <2>5, <3>1 DEF RecordOK
    <3> QED BY <3>4, <3>5, <3>6, <3>7 DEF RecordOK
  <2> QED BY <1>3, <2>3, <2>4, <2>5, CreatorSteps
<1> QED BY <1>1, <1>2, <1>3, OutsideSame DEF Next, Step

----------------------------------------------------------------------------
(* The theorems. *)

\* The inductive invariant of requests to the users area, from the cookie to the answer.
THEOREM Inductive == Spec => []IInv
<1>1. Init => IInv
  <2> SUFFICES ASSUME Init PROVE IInv
    OBVIOUS
  <2>1. TypeOK
    BY UsersAreaAssumption DEF Init, TypeOK, GrantsTypeOK, Steps
  <2>2. \A r \in Requests : SinceOK(r) /\ CheckedOK(r) /\ LandedOK(r)
    BY DEF Init, SinceOK, CheckedOK, LandedOK, Past, Writing
  <2>3. RecordOK
    BY DEF Init, RecordOK, Creator
  <2> QED BY <2>1, <2>2, <2>3 DEF IInv
<1>2. IInv /\ [Next]_vars => IInv'
  BY TypeStep, SinceStep, CheckedStep, LandedStep, RecordStep DEF IInv
<1> QED BY <1>1, <1>2, PTL DEF Spec

\* Tables and locals keep their types; no grant names an account, a role or a code without a row.
THEOREM TypeCorrect == Spec => []TypeOK
<1>1. IInv => TypeOK
  BY DEF IInv
<1> QED BY <1>1, Inductive, PTL

\* Nothing is done for a request whose session ended or whose account lost its right before it
\* arrived.
THEOREM WritesAreAuthorised == Spec => []Authorised
<1>1. IInv => Authorised
  BY DEF IInv, SinceOK, Past, Authorised
<1> QED BY <1>1, Inductive, PTL

\* An account is created once, and its creator alone is on record.
THEOREM CreatorsAreOnRecord == Spec => []CreatorOnRecord
<1>1. IInv => CreatorOnRecord
  <2> SUFFICES ASSUME IInv, NEW a \in Accounts
               PROVE  LET entries == {e \in audit : e.action = "create" /\ e.account = a}
                          creators == {r \in Requests : pc[r] \in {"audit", "created"} /\ Target(r) = a} IN
                      /\ \A e1, e2 \in entries : e1 = e2
                      /\ \A r1, r2 \in creators : r1 = r2
                      /\ \A r \in creators :
                           InitUsers[a] = Nil /\ (pc[r] = "created" => entries = {Entry(r)})
                      /\ InitUsers[a] = Nil /\ users[a] # Nil /\ entries = {} =>
                           \E r \in Requests : Target(r) = a /\ pc[r] \in {"audit", "failed"}
    BY DEF CreatorOnRecord
  <2> DEFINE entries == {e \in audit : e.action = "create" /\ e.account = a}
             creators == {r \in Requests : pc[r] \in {"audit", "created"} /\ Target(r) = a}
  <2>1. \A r1, r2 \in creators : r1 = r2
    BY DEF IInv, RecordOK, Creator
  <2>2. \A e \in entries : \E r \in creators : pc[r] = "created" /\ e = Entry(r)
    BY DEF IInv, RecordOK, Entry
  <2>3. \A r \in creators : pc[r] = "created" => Entry(r) \in entries
    BY DEF IInv, RecordOK, CheckedOK, Entry
  <2>4. \A r \in creators : InitUsers[a] = Nil
    BY DEF IInv, RecordOK, Creator
  <2>5. InitUsers[a] = Nil /\ users[a] # Nil =>
          \E r \in Requests : pc[r] \in {"audit", "created", "failed"} /\ Target(r) = a
    BY DEF IInv, RecordOK
  <2> HIDE DEF entries
  <2>6. \A e1, e2 \in entries : e1 = e2
    BY <2>1, <2>2
  <2>7. \A r \in creators : pc[r] = "created" => entries = {Entry(r)}
    BY <2>3, <2>6
  <2>8. InitUsers[a] = Nil /\ users[a] # Nil /\ entries = {} =>
          \E r \in Requests : Target(r) = a /\ pc[r] \in {"audit", "failed"}
    BY <2>3, <2>5
  <2> USE DEF entries
  <2> QED BY <2>1, <2>4, <2>6, <2>7, <2>8
<1> QED BY <1>1, Inductive, PTL

\* An account changes only by an authorised request for it, and is not disabled by its own.
THEOREM AccountsAreAdministered == Spec => OnlyAdministered
<1>1. IInv /\ [Next]_vars =>
        [\A a \in Accounts : users'[a] # users[a] =>
           \E r \in Requests :
             /\ pc'[r] # pc[r] /\ Target(r) = a
             /\ since[r].live /\ since[r].allowed
             /\ form[r].op = "create" <=> users[a] = Nil
             /\ form[r].op = "update" /\ users'[a].status = "disabled" /\ Actor(r) = a =>
                  users[a].status = "disabled"]_vars
  <2> SUFFICES ASSUME IInv, [Next]_vars, NEW a \in Accounts, users'[a] # users[a]
               PROVE  \E r \in Requests :
                        /\ pc'[r] # pc[r] /\ Target(r) = a
                        /\ since[r].live /\ since[r].allowed
                        /\ form[r].op = "create" <=> users[a] = Nil
                        /\ form[r].op = "update" /\ users'[a].status = "disabled" /\ Actor(r) = a =>
                             users[a].status = "disabled"
    OBVIOUS
  <2>1. PICK r \in Requests : Work(r)
    BY OutsideSame DEF Next, Step, Arrive, database
  <2>2. Past(r) => since[r].live /\ since[r].allowed
    BY DEF IInv, SinceOK
  <2>3. CASE /\ pc[r] = "create" /\ pc'[r] = "audit"
             /\ Target(r) \in Accounts /\ users[Target(r)] = Nil
             /\ \A b \in Accounts \ {Target(r)} : users'[b] = users[b]
    BY <2>2, <2>3 DEF IInv, CheckedOK, Past
  <2>4. CASE /\ pc[r] \in Writing /\ users[Target(r)] # Nil
             /\ \A b \in Accounts \ {Target(r)} : users'[b] = users[b]
    <3>1. Target(r) = a /\ form[r].op = "update" /\ since[r].live /\ since[r].allowed
      BY <2>2, <2>4 DEF IInv, CheckedOK, Past, Writing
    <3>2. /\ SetPassword(r) \/ UpdateName(r) \/ SetStatus(r)
          /\ pc'[r] # pc[r]
      BY <2>1, <2>4, <3>1 DEF IInv, TypeOK, Writing, Work, LoadSession, LoadActorUser, LoadGrants,
            Deny, Create, RecordCreate, Find, SetPassword, UpdateName, SetStatus, Fail, Goto, database
    <3>3. users'[a].status = users[a].status \/ users'[a].status = form[r].status
      BY <3>1, <3>2, WriteFacts
    <3>4. Actor(r) = a => form[r].status # "disabled"
      BY <2>4, <3>1 DEF IInv, CheckedOK, Writing
    <3> QED BY <2>4, <3>1, <3>2, <3>3, <3>4
  <2> QED BY <2>1, <2>3, <2>4, UsersStep
<1> QED BY <1>1, Inductive, PTL DEF Spec, OnlyAdministered

\* An update that was answered is what the form says, unless another wrote the account meanwhile.
THEOREM UpdatesLand == Spec => UpdateLands
<1>1. IInv /\ [Next]_vars =>
        [\A r \in Requests : pc[r] # "updated" /\ pc'[r] = "updated" /\ r \notin overlap =>
           /\ users'[Target(r)].name = form[r].name
           /\ users'[Target(r)].status = form[r].status
           /\ form[r].password # Nil => users'[Target(r)].password = form[r].password]_vars
  <2> SUFFICES ASSUME IInv, [Next]_vars, NEW r \in Requests,
                      pc[r] # "updated", pc'[r] = "updated", r \notin overlap
               PROVE  /\ users'[Target(r)].name = form[r].name
                      /\ users'[Target(r)].status = form[r].status
                      /\ form[r].password # Nil => users'[Target(r)].password = form[r].password
    OBVIOUS
  <2>1. CASE UpdateName(r)
    BY <2>1, WriteFacts DEF IInv, TypeOK, LandedOK, UpdateName, Goto
  <2>2. CASE SetStatus(r)
    BY <2>2, WriteFacts DEF IInv, LandedOK, SetStatus
  <2>3. UpdateName(r) \/ SetStatus(r)
    BY StepOf DEF IInv, TypeOK, Same, Arrive, Work, LoadSession, LoadActorUser, LoadGrants,
          Deny, Create, RecordCreate, Find, SetPassword, Fail, Goto
  <2> QED BY <2>1, <2>2, <2>3
<1> QED BY <1>1, Inductive, PTL DEF Spec, UpdateLands
=============================================================================
