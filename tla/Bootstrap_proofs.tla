------------------------- MODULE Bootstrap_proofs -------------------------
(***************************************************************************)
(* Proofs about Bootstrap, for every set of processes, administrators and  *)
(* permissions.  Nothing is ever taken back, so what a boot has passed     *)
(* stays true: IInv says of every step what is in the tables by then.      *)
(***************************************************************************)
EXTENDS Bootstrap, TLAPS

\* The permissions before the loop's current one are granted; all of them after the loop.
GrantedUpTo(p, n) == \A i \in 1..n : <<Admin, Seeds[i]>> \in role_permissions

PassedOK(p) ==
  /\ boot[p] \in {"reread_role", "get_permission", "create_permission", "reread_permission",
                  "grant", "get_user", "create_user", "assign", "up"} => Admin \in roles
  /\ boot[p] \in {"reread_permission", "grant"} => Code(p) \in permissions
  /\ boot[p] \in {"get_permission", "create_permission", "reread_permission", "grant"} =>
       GrantedUpTo(p, next_code[p] - 1)
  /\ boot[p] \in {"get_user", "create_user", "assign", "up"} => GrantedUpTo(p, Len(Seeds))
  /\ boot[p] \in {"assign", "up", "conflict"} => users[AdminOf[p]] # Nil
  /\ boot[p] = "up" => <<AdminOf[p], Admin, Nil>> \in user_roles
  /\ boot[p] \in {"create_user", "conflict"} => p \in early
  /\ boot[p] # "off" /\ p \notin early => users[AdminOf[p]] # Nil
  /\ boot[p] \in {"get_role", "create_role", "reread_role"} => next_code[p] = 1
  /\ boot[p] # "panicked"

IInv == TypeOK /\ \A p \in Processes : PassedOK(p)

\* What every step leaves true: rows are only added.
Grows ==
  /\ \A a \in Accounts : users[a] # Nil => users'[a] = users[a]
  /\ roles \subseteq roles'
  /\ permissions \subseteq permissions'
  /\ role_permissions \subseteq role_permissions'
  /\ user_roles \subseteq user_roles'

\* Two kinds of seeds, and the codes of the loop.
LEMMA SeedFacts ==
  /\ Len(Seeds) \in Nat \ {0}
  /\ \A i \in 1..Len(Seeds) : Seeds[i] \in Codes
  /\ \A c \in Codes : c[1] \in STRING /\ c[2] \in STRING
<1>1. Seeds \in Seq(Codes) /\ Len(Seeds) > 0
  BY BootAssumption
<1>2. Codes \subseteq STRING \X STRING
  BY GrantsAssumption
<1> QED BY <1>1, <1>2

\* A new row of users is a row: it is not Nil.
LEMMA NewUser ==
  ASSUME NEW name \in Names, NEW password \in Passwords \cup {Nil}
  PROVE  /\ [name |-> name, status |-> "active", password |-> password] \in User
         /\ [name |-> name, status |-> "active", password |-> password] # Nil
<1>1. [name |-> name, status |-> "active", password |-> password] \in User
  BY DEF User, Statuses
<1> QED BY <1>1, GrantsAssumption DEF User, Statuses

\* Every step is a boot's or an account's, and only adds.
LEMMA StepGrows ==
  ASSUME TypeOK, [Next]_vars
  PROVE  Grows
<1>1. CASE UNCHANGED vars
  BY <1>1 DEF Grows, vars, database, catalog, grants
<1>2. ASSUME NEW a \in Accounts, OutsideCreate(a) PROVE Grows
  BY <1>2 DEF OutsideCreate, CreateUser, Grows, catalog, grants, TypeOK, GrantsTypeOK
<1>3. ASSUME NEW p \in Processes, Begin(p) \/ BreakOff(p) PROVE Grows
  BY <1>3 DEF Begin, BreakOff, Grows, database, catalog, grants
<1>4. ASSUME NEW p \in Processes, Seed(p) PROVE Grows
  <2>1. CASE GetRole(p) \/ RereadRole(p) \/ GetPermission(p) \/ RereadPermission(p) \/ GetUser(p)
    BY <2>1 DEF GetRole, RereadRole, GetPermission, RereadPermission, GetUser, Grows,
                database, catalog, grants
  <2>2. CASE MakeRole(p)
    BY <2>2 DEF MakeRole, CreateRole, Grows, grants
  <2>3. CASE MakePermission(p)
    BY <2>3 DEF MakePermission, CreatePermission, Grows, grants
  <2>4. CASE Grant(p)
    BY <2>4 DEF Grant, GrantPermission, Grows, catalog
  <2>5. CASE MakeUser(p)
    BY <2>5 DEF MakeUser, CreateUser, Grows, catalog, grants, TypeOK, GrantsTypeOK
  <2>6. CASE Assign(p)
    BY <2>6 DEF Assign, AssignRole, Grows, catalog
  <2> QED BY <1>4, <2>1, <2>2, <2>3, <2>4, <2>5, <2>6 DEF Seed
<1> QED BY <1>1, <1>2, <1>3, <1>4 DEF Next

\* Types are kept.
LEMMA TypeStep ==
  ASSUME TypeOK, [Next]_vars
  PROVE  TypeOK'
<1> USE DEF TypeOK, GrantsTypeOK
<1>1. CASE UNCHANGED vars
  BY <1>1 DEF vars, database, catalog, grants, bootVars
<1>2. ASSUME NEW a \in Accounts, OutsideCreate(a) PROVE TypeOK'
  <2>1. PICK name \in Names, password \in Passwords \cup {Nil} : CreateUser(a, name, password)
    BY <1>2 DEF OutsideCreate
  <2> QED BY <1>2, <2>1, NewUser DEF OutsideCreate, CreateUser, catalog, grants, bootVars
<1>3. ASSUME NEW p \in Processes, Begin(p) PROVE TypeOK'
  BY <1>3, SeedFacts DEF Begin, Steps, database, catalog, grants
<1>4. ASSUME NEW p \in Processes, BreakOff(p) PROVE TypeOK'
  BY <1>4 DEF BreakOff, Await, Steps, database, catalog, grants
<1>5. ASSUME NEW p \in Processes, Seed(p) PROVE TypeOK'
  <2>0. Code(p) \in Codes /\ Admin \in Roles
    BY SeedFacts, BootAssumption DEF Code
  <2>1. CASE GetRole(p) \/ RereadRole(p) \/ GetPermission(p) \/ RereadPermission(p) \/ GetUser(p)
    BY <2>1 DEF GetRole, RereadRole, GetPermission, RereadPermission, GetUser, Await, Steps,
                database, catalog, grants
  <2>2. CASE MakeRole(p)
    BY <2>0, <2>2 DEF MakeRole, CreateRole, Await, Steps, grants
  <2>3. CASE MakePermission(p)
    BY <2>0, <2>3 DEF MakePermission, CreatePermission, Await, Steps, grants
  <2>4. CASE Grant(p)
    <3>1. role_permissions' = role_permissions \cup {<<Admin, Code(p)>>}
      BY <2>4 DEF Grant, GrantPermission
    <3>2. Admin \in roles /\ Code(p) \in permissions /\ UNCHANGED <<roles, permissions>>
      BY <2>4 DEF Grant, GrantPermission, catalog
    <3>3. /\ boot' \in [Processes -> Steps] /\ next_code' \in [Processes -> 1..Len(Seeds)]
          /\ UNCHANGED early
      <4>1. CASE next_code[p] < Len(Seeds)
        <5>1. next_code[p] \in 1..Len(Seeds) /\ next_code[p] + 1 \in 1..Len(Seeds)
          BY <4>1, SeedFacts
        <5>2. /\ boot' = [boot EXCEPT ![p] = "get_permission"]
              /\ next_code' = [next_code EXCEPT ![p] = next_code[p] + 1]
              /\ UNCHANGED early
          BY <2>4, <4>1 DEF Grant
        <5> QED BY <5>1, <5>2 DEF Steps
      <4>2. CASE ~(next_code[p] < Len(Seeds))
        BY <2>4, <4>2 DEF Grant, Await, Steps
      <4> QED BY <4>1, <4>2
    <3>4. UNCHANGED <<users, user_roles, group_roles, group_members>>
      BY <2>4 DEF Grant
    <3>5. role_permissions' \subseteq roles' \X permissions'
      BY <3>1, <3>2
    <3> QED BY <3>2, <3>3, <3>4, <3>5
  <2>5. CASE MakeUser(p)
    <3>1. AdminOf[p] \in Accounts /\ PasswordOf[p] \in Passwords /\ AdminName \in Names
      BY BootAssumption
    <3>2. CASE CreateUser(AdminOf[p], AdminName, PasswordOf[p])
      <4>1. users' \in [Accounts -> User \cup {Nil}]
        BY <3>1, <3>2, NewUser DEF CreateUser
      <4>2. \A a \in Accounts : users[a] # Nil => users'[a] # Nil
        BY <3>2 DEF CreateUser
      <4> QED BY <2>5, <4>1, <4>2 DEF MakeUser, Await, Steps, catalog, grants
    <3>3. CASE UNCHANGED users
      BY <2>5, <3>3 DEF MakeUser, Await, Steps, catalog, grants
    <3> QED BY <2>5, <3>2, <3>3 DEF MakeUser
  <2>6. CASE Assign(p)
    <3>1. AdminOf[p] \in Accounts
      BY BootAssumption
    <3> QED BY <2>0, <2>6, <3>1 DEF Assign, AssignRole, Await, Steps, catalog
  <2> QED BY <1>5, <2>1, <2>2, <2>3, <2>4, <2>5, <2>6 DEF Seed
<1> QED BY <1>1, <1>2, <1>3, <1>4, <1>5 DEF Next

\* What a boot has passed stays true while another moves.
LEMMA OthersKeep ==
  ASSUME IInv, Grows, NEW p \in Processes,
         boot'[p] = boot[p], next_code'[p] = next_code[p], p \in early' <=> p \in early
  PROVE  PassedOK(p)'
<1>1. AdminOf[p] \in Accounts
  BY BootAssumption
<1>2. PassedOK(p)
  BY DEF IInv
<1> QED BY <1>1, <1>2 DEF PassedOK, Grows, GrantedUpTo, Code

\* The boot that moves has passed what its next step relies on.
LEMMA OwnStep ==
  ASSUME IInv, Grows, TypeOK', NEW p \in Processes, Begin(p) \/ Seed(p) \/ BreakOff(p)
  PROVE  PassedOK(p)'
<1>0. /\ PassedOK(p)
      /\ AdminOf[p] \in Accounts
      /\ boot \in [Processes -> Steps] /\ next_code \in [Processes -> 1..Len(Seeds)]
      /\ Len(Seeds) \in Nat \ {0}
  BY BootAssumption, SeedFacts DEF IInv, TypeOK
<1> USE <1>0 DEF PassedOK, GrantedUpTo
<1>1. CASE Begin(p)
  BY <1>1 DEF Begin, Ended, database, catalog, grants
<1>2. CASE BreakOff(p)
  BY <1>2 DEF BreakOff, Await, Ended, database, catalog, grants
<1>3. CASE GetRole(p)
  BY <1>3 DEF GetRole, Await, Code, database, catalog, grants
<1>4. CASE MakeRole(p)
  BY <1>4 DEF MakeRole, CreateRole, Await, Code, grants
<1>5. CASE RereadRole(p)
  BY <1>5 DEF RereadRole, Await, Code, database, catalog, grants
<1>6. CASE GetPermission(p)
  BY <1>6 DEF GetPermission, Await, Code, database, catalog, grants
<1>7. CASE MakePermission(p)
  BY <1>7 DEF MakePermission, CreatePermission, Await, Code, grants
<1>8. CASE RereadPermission(p)
  BY <1>8 DEF RereadPermission, Await, Code, database, catalog, grants
<1>9. CASE Grant(p)
  <2>1. \A i \in 1..next_code[p] : <<Admin, Seeds[i]>> \in role_permissions'
    <3>1. /\ role_permissions' = role_permissions \cup {<<Admin, Seeds[next_code[p]]>>}
          /\ \A i \in 1..(next_code[p] - 1) : <<Admin, Seeds[i]>> \in role_permissions
      BY <1>9 DEF Grant, GrantPermission, Code
    <3>2. \A i \in 1..next_code[p] : i \in 1..(next_code[p] - 1) \/ i = next_code[p]
      OBVIOUS
    <3> QED BY <3>1, <3>2
  <2>2. CASE next_code[p] < Len(Seeds)
    BY <1>9, <2>1, <2>2 DEF Grant, GrantPermission, catalog
  <2>3. CASE ~(next_code[p] < Len(Seeds))
    BY <1>9, <2>1, <2>3 DEF Grant, GrantPermission, Await, catalog
  <2> QED BY <2>2, <2>3
<1>10. CASE GetUser(p)
  BY <1>10 DEF GetUser, Await, Code, database, catalog, grants
<1>11. CASE MakeUser(p)
  <2>1. PasswordOf[p] \in Passwords /\ AdminName \in Names /\ users \in [Accounts -> User \cup {Nil}]
    BY BootAssumption DEF IInv, TypeOK, GrantsTypeOK
  <2> QED BY <1>11, <2>1, NewUser DEF MakeUser, CreateUser, Await, Code, catalog, grants
<1>12. CASE Assign(p)
  BY <1>12 DEF Assign, AssignRole, Await, Code, catalog
<1> QED BY <1>1, <1>2, <1>3, <1>4, <1>5, <1>6, <1>7, <1>8, <1>9, <1>10, <1>11, <1>12 DEF Seed

\* The inductive invariant of concurrent boots (bootstrap, statement by statement).
THEOREM Inductive == Spec => []IInv
<1>1. Init => IInv
  BY SeedFacts, BootAssumption DEF Init, IInv, TypeOK, GrantsTypeOK, PassedOK, Steps
<1>2. IInv /\ [Next]_vars => IInv'
  <2> SUFFICES ASSUME IInv, [Next]_vars PROVE IInv'
    OBVIOUS
  <2>1. Grows /\ TypeOK'
    BY StepGrows, TypeStep DEF IInv
  <2>2. ASSUME NEW p \in Processes PROVE PassedOK(p)'
    <3>1. CASE UNCHANGED vars
      BY <2>1, <3>1, OthersKeep DEF vars, bootVars
    <3>2. CASE \E a \in Accounts : OutsideCreate(a)
      BY <2>1, <3>2, OthersKeep DEF OutsideCreate, bootVars
    <3>3. ASSUME NEW q \in Processes, Begin(q) \/ Seed(q) \/ BreakOff(q), q # p
          PROVE  PassedOK(p)'
      <4>1. boot'[p] = boot[p] /\ next_code'[p] = next_code[p] /\ (p \in early' <=> p \in early)
        BY <3>3 DEF IInv, TypeOK, Begin, Seed, BreakOff, Await, GetRole, MakeRole, RereadRole,
                    GetPermission, MakePermission, RereadPermission, Grant, GetUser, MakeUser, Assign
      <4> QED BY <2>1, <4>1, OthersKeep
    <3>4. CASE Begin(p) \/ Seed(p) \/ BreakOff(p)
      BY <2>1, <3>4, OwnStep
    <3> QED BY <3>1, <3>2, <3>3, <3>4 DEF Next
  <2> QED BY <2>1, <2>2 DEF IInv
<1> QED BY <1>1, <1>2, PTL DEF Spec

\* Tables and boots keep their types; the rows of a grant exist.
THEOREM TypeCorrect == Spec => []TypeOK
<1>1. IInv => TypeOK
  BY DEF IInv
<1> QED BY <1>1, Inductive, PTL

\* A boot that has come up leaves its administrator with every seeded permission, as load_actor
\* and Actor::can judge it.
THEOREM BootSeeds == Spec => []Seeded
<1>1. IInv => Seeded
  <2> SUFFICES ASSUME IInv, NEW p \in Processes, boot[p] = "up", NEW i \in 1..Len(Seeds)
               PROVE  Can(Granted(AdminOf[p], Nil), Seeds[i])
    BY DEF Seeded
  <2>1. /\ <<Admin, Seeds[i]>> \in role_permissions
        /\ <<AdminOf[p], Admin, Nil>> \in user_roles
    BY DEF IInv, PassedOK, GrantedUpTo
  <2>2. Seeds[i] \in Codes /\ Admin \in Roles
    BY SeedFacts, BootAssumption
  <2>3. Seeds[i] \in Granted(AdminOf[p], Nil)
    BY <2>1, <2>2 DEF Granted
  <2> QED BY <2>3 DEF Can
<1> QED BY <1>1, Inductive, PTL

\* No boot panics, and one that fails on a conflict found the account missing at its beginning.
THEOREM BootsFailOnlyOnce == Spec => []FailsOnlyOnce
<1>1. IInv => FailsOnlyOnce
  BY DEF IInv, PassedOK, FailsOnlyOnce
<1> QED BY <1>1, Inductive, PTL

\* Boots touch no account that exists, revoke nothing and give roles to administrators only.
THEOREM BootsOnlySeed == Spec => OnlySeeds
<1>1. IInv /\ [Next]_vars =>
        [/\ \A a \in Accounts : users[a] # Nil => users'[a] = users[a]
         /\ role_permissions \subseteq role_permissions'
         /\ user_roles \subseteq user_roles'
         /\ \A g \in user_roles' \ user_roles :
              \E p \in Processes : g = <<AdminOf[p], Admin, Nil>>]_vars
  <2> SUFFICES ASSUME IInv, [Next]_vars, NEW g \in user_roles' \ user_roles
               PROVE  \E p \in Processes : g = <<AdminOf[p], Admin, Nil>>
    BY StepGrows DEF Grows, IInv
  <2>1. PICK p \in Processes : Assign(p)
    BY DEF Next, vars, database, catalog, grants, OutsideCreate, Begin, BreakOff, Seed, GetRole,
           MakeRole, RereadRole, GetPermission, MakePermission, RereadPermission, Grant, GetUser,
           MakeUser
  <2> QED BY <2>1 DEF Assign, AssignRole
<1> QED BY <1>1, Inductive, PTL DEF Spec, OnlySeeds
=============================================================================
