------------------------- MODULE LoginFlow_proofs -------------------------
(***************************************************************************)
(* What is proved of LoginFlow for every value of its constants.  The      *)
(* first theorems are consequences of the inductive invariant; each of the *)
(* others needs one more lemma over the actions, under that invariant.     *)
(***************************************************************************)
EXTENDS LoginFlow_inv

\* The columns and locals always have their types.
THEOREM TypeCorrect == Spec => []TypeOK
  BY Inductive, PTL DEF IInv

\* A session only ever stands at the end of the whole chain of sign-in steps, all taken for its
\* account (start_login, verify_code, complete_login), however requests interleave.
THEOREM LoginChainHolds == Spec => []LoginChain
<1>1. IInv => LoginChain
  BY DEF IInv, ChainOK, ChainOf, LoginChain
<1> QED
  BY Inductive, <1>1, PTL

\* Once verify_code or complete_login has answered that a token was exchanged or locked, the
\* token is dead for good.
THEOREM AnsweredTokensAreDead == Spec => []AnsweredTokenIsDead
<1>1. IInv => AnsweredTokenIsDead
  BY DEF IInv, SpentOK, Spent, Exchanged, AnsweredTokenIsDead
<1> QED
  BY Inductive, <1>1, PTL

----------------------------------------------------------------------------
\* What a step may do to a dead row.
DeadStep ==
  \A t \in Requests : tokens[t].state \in {"used", "expired"} =>
       \/ tokens'[t] = tokens[t]
       \/ tokens'[t] = [tokens[t] EXCEPT !.state = "expired"]
       \/ tokens[t].state = "expired" /\ tokens'[t] = NoToken

\* Every step treats a dead row as the filters of the statements say.
LEMMA DeadTokensStep == (TypeOK /\ TokensOK) /\ [Next]_vars => DeadStep
<1> SUFFICES ASSUME (TypeOK /\ TokensOK), [Next]_vars PROVE DeadStep
  OBVIOUS
<1>1. ASSUME NEW r \in Requests, NEW b \in Browsers, NEW e \in Emails, BeginEmail(r, b, e)
      PROVE  DeadStep
  BY <1>1 DEF BeginEmail, Begin, tables, DeadStep
<1>2. ASSUME NEW r \in Requests, NEW b \in Browsers, NEW code \in {"right", "wrong"},
             BeginCode(r, b, code)
      PROVE  DeadStep
  BY <1>2 DEF BeginCode, Begin, tables, DeadStep
<1>3. ASSUME NEW r \in Requests, NEW b \in Browsers, NEW p \in Passwords \cup {"weak"},
             BeginPassword(r, b, p)
      PROVE  DeadStep
  BY <1>3 DEF BeginPassword, Begin, tables, DeadStep
<1>4. ASSUME NEW r \in Requests, NEW b \in Browsers, BeginLogout(r, b) PROVE DeadStep
  BY <1>4 DEF BeginLogout, Begin, tables, DeadStep
<1>5. ASSUME NEW r \in Requests, Cleanup(r) PROVE DeadStep
  BY <1>5 DEF Cleanup, DeadStep
<1>6. ASSUME NEW r \in Requests, FindEmail(r) PROVE DeadStep
  BY <1>6 DEF FindEmail, tables, DeadStep
<1>7. ASSUME NEW r \in Requests, CreateUser(r) PROVE DeadStep
  BY <1>7 DEF CreateUser, DeadStep
<1>8. ASSUME NEW r \in Requests, RecordCreate(r) PROVE DeadStep
  BY <1>8 DEF RecordCreate, DeadStep
<1>9. ASSUME NEW r \in Requests, CreateLoginToken(r) PROVE DeadStep
  <2>1. tokens[r].state = "none"
    BY <1>9 DEF CreateLoginToken, At, TokensOK
  <2> QED
    BY <1>9, <2>1 DEF CreateLoginToken, DeadStep
<1>10. ASSUME NEW r \in Requests, LoadCodeToken(r) PROVE DeadStep
  BY <1>10 DEF LoadCodeToken, tables, DeadStep
<1>11. ASSUME NEW r \in Requests, LoadPasswordToken(r) PROVE DeadStep
  BY <1>11 DEF LoadPasswordToken, tables, DeadStep
<1>12. ASSUME NEW r \in Requests, LoadUser(r) PROVE DeadStep
  BY <1>12 DEF LoadUser, tables, DeadStep
<1>13. ASSUME NEW r \in Requests, SetPassword(r) PROVE DeadStep
  BY <1>13 DEF SetPassword, DeadStep
<1>14. ASSUME NEW r \in Requests, Bump(r) PROVE DeadStep
  BY <1>14 DEF Bump, TypeOK, Live, DeadStep
<1>15. ASSUME NEW r \in Requests, Lock(r) PROVE DeadStep
  BY <1>15 DEF Lock, Live, ConsumeToken, DeadStep
<1>16. ASSUME NEW r \in Requests, Consume(r) PROVE DeadStep
  BY <1>16 DEF Consume, Live, ConsumeToken, DeadStep
<1>17. ASSUME NEW r \in Requests, CreateSession(r) PROVE DeadStep
  BY <1>17 DEF CreateSession, DeadStep
<1>18. ASSUME NEW r \in Requests, RecordLogin(r) PROVE DeadStep
  BY <1>18 DEF RecordLogin, DeadStep
<1>19. ASSUME NEW r \in Requests, LoadSession(r) PROVE DeadStep
  BY <1>19 DEF LoadSession, tables, DeadStep
<1>20. ASSUME NEW r \in Requests, DeleteSession(r) PROVE DeadStep
  BY <1>20 DEF DeleteSession, DeadStep
<1>21. ASSUME NEW r \in Requests, LoadLogoutUser(r) PROVE DeadStep
  BY <1>21 DEF LoadLogoutUser, tables, DeadStep
<1>22. ASSUME NEW r \in Requests, RecordLogout(r) PROVE DeadStep
  BY <1>22 DEF RecordLogout, DeadStep
<1>23. ASSUME NEW r \in Requests, Answer(r) PROVE DeadStep
  BY <1>23 DEF Answer, tables, DeadStep
<1>24. ASSUME NEW r \in Requests, Drop(r) PROVE DeadStep
  BY <1>24 DEF Drop, tables, DeadStep
<1>25. ASSUME NEW x \in Requests, ExpireToken(x) PROVE DeadStep
  BY <1>25 DEF ExpireToken, DeadStep
<1>26. ASSUME NEW x \in Requests, ExpireSession(x) PROVE DeadStep
  BY <1>26 DEF ExpireSession, DeadStep
<1>27. ASSUME NEW e \in Emails, NEW status \in StatusEdits, EditStatus(e, status) PROVE DeadStep
  BY <1>27 DEF EditStatus, DeadStep
<1>28. ASSUME NEW e \in Emails, NEW password \in PasswordEdits, EditPassword(e, password)
       PROVE  DeadStep
  BY <1>28 DEF EditPassword, DeadStep
<1>29. ASSUME UNCHANGED vars PROVE DeadStep
  BY <1>29 DEF vars, DeadStep
<1> QED
  BY <1>1, <1>2, <1>3, <1>4, <1>5, <1>6, <1>7, <1>8, <1>9, <1>10, <1>11, <1>12, <1>13, <1>14,
     <1>15, <1>16, <1>17, <1>18, <1>19, <1>20, <1>21, <1>22, <1>23, <1>24, <1>25, <1>26,
     <1>27, <1>28, <1>29
     DEF Next, Arrive, Work, Outside, Quiet

\* A used or expired token is never live again and its attempts are final.
THEOREM DeadTokensStayDead == Spec => DeadTokensStay
<1>1. IInv /\ [Next]_vars => [DeadStep]_vars
  BY DeadTokensStep DEF IInv
<1>2. Spec => [][DeadStep]_vars
  BY Inductive, <1>1, PTL DEF Spec
<1> QED
  BY <1>2 DEF DeadTokensStay, DeadStep

\* Every step keeps LockPending: the counter reaches the limit only in Bump, which goes on to
\* the lock, and a request leaves the lock only with the token dead.
LEMMA LockStep == (TypeOK /\ LocalsOK /\ TokensOK /\ LockPending) /\ [Next]_vars => LockPending'
<1> SUFFICES ASSUME (TypeOK /\ LocalsOK /\ TokensOK /\ LockPending), [Next]_vars, NEW t \in Requests,
                    tokens'[t].state = "live", tokens'[t].attempts >= MaxAttempts
             PROVE  \E s \in Requests : pc'[s] = "lock" /\ req'[s].cookie = t
  BY DEF LockPending, Live
<1>kept. /\ tokens[t].state = "live" /\ tokens[t].attempts >= MaxAttempts
         /\ \A s \in Requests : pc[s] = "lock" => pc'[s] = "lock" /\ req'[s].cookie = req[s].cookie
         => \E s \in Requests : pc'[s] = "lock" /\ req'[s].cookie = t
  BY DEF LockPending, Live
<1>1. ASSUME NEW r \in Requests, NEW b \in Browsers, NEW e \in Emails, BeginEmail(r, b, e)
      PROVE  \E s \in Requests : pc'[s] = "lock" /\ req'[s].cookie = t
  <2>1. tokens[t].state = "live" /\ tokens[t].attempts >= MaxAttempts
    BY <1>1 DEF BeginEmail, Begin, tables
  <2>2. \A s \in Requests : pc[s] = "lock" => pc'[s] = "lock" /\ req'[s].cookie = req[s].cookie
    BY <1>1 DEF BeginEmail, Begin, Goto
  <2> QED
    BY <2>1, <2>2, <1>kept
<1>2. ASSUME NEW r \in Requests, NEW b \in Browsers, NEW code \in {"right", "wrong"},
             BeginCode(r, b, code)
      PROVE  \E s \in Requests : pc'[s] = "lock" /\ req'[s].cookie = t
  <2>1. tokens[t].state = "live" /\ tokens[t].attempts >= MaxAttempts
    BY <1>2 DEF BeginCode, Begin, tables
  <2>2. \A s \in Requests : pc[s] = "lock" => pc'[s] = "lock" /\ req'[s].cookie = req[s].cookie
    BY <1>2 DEF BeginCode, Begin, Goto
  <2> QED
    BY <2>1, <2>2, <1>kept
<1>3. ASSUME NEW r \in Requests, NEW b \in Browsers, NEW p \in Passwords \cup {"weak"},
             BeginPassword(r, b, p)
      PROVE  \E s \in Requests : pc'[s] = "lock" /\ req'[s].cookie = t
  <2>1. tokens[t].state = "live" /\ tokens[t].attempts >= MaxAttempts
    BY <1>3 DEF BeginPassword, Begin, tables
  <2>2. \A s \in Requests : pc[s] = "lock" => pc'[s] = "lock" /\ req'[s].cookie = req[s].cookie
    BY <1>3 DEF BeginPassword, Begin, Goto
  <2> QED
    BY <2>1, <2>2, <1>kept
<1>4. ASSUME NEW r \in Requests, NEW b \in Browsers, BeginLogout(r, b)
      PROVE  \E s \in Requests : pc'[s] = "lock" /\ req'[s].cookie = t
  <2>1. tokens[t].state = "live" /\ tokens[t].attempts >= MaxAttempts
    BY <1>4 DEF BeginLogout, Begin, tables
  <2>2. \A s \in Requests : pc[s] = "lock" => pc'[s] = "lock" /\ req'[s].cookie = req[s].cookie
    BY <1>4 DEF BeginLogout, Begin, Goto
  <2> QED
    BY <2>1, <2>2, <1>kept
<1>5. ASSUME NEW r \in Requests, Cleanup(r)
      PROVE  \E s \in Requests : pc'[s] = "lock" /\ req'[s].cookie = t
  <2>1. tokens[t].state = "live" /\ tokens[t].attempts >= MaxAttempts
    BY <1>5 DEF Cleanup, NoToken
  <2>2. \A s \in Requests : pc[s] = "lock" => pc'[s] = "lock" /\ req'[s].cookie = req[s].cookie
    BY <1>5 DEF Cleanup, At, Goto
  <2> QED
    BY <2>1, <2>2, <1>kept
<1>6. ASSUME NEW r \in Requests, FindEmail(r)
      PROVE  \E s \in Requests : pc'[s] = "lock" /\ req'[s].cookie = t
  <2>1. tokens[t].state = "live" /\ tokens[t].attempts >= MaxAttempts
    BY <1>6 DEF FindEmail, tables
  <2>2. \A s \in Requests : pc[s] = "lock" => pc'[s] = "lock" /\ req'[s].cookie = req[s].cookie
    BY <1>6 DEF FindEmail, TypeOK, At, Goto, Reply
  <2> QED
    BY <2>1, <2>2, <1>kept
<1>7. ASSUME NEW r \in Requests, CreateUser(r)
      PROVE  \E s \in Requests : pc'[s] = "lock" /\ req'[s].cookie = t
  <2>1. tokens[t].state = "live" /\ tokens[t].attempts >= MaxAttempts
    BY <1>7 DEF CreateUser
  <2>2. \A s \in Requests : pc[s] = "lock" => pc'[s] = "lock" /\ req'[s].cookie = req[s].cookie
    BY <1>7 DEF CreateUser, TypeOK, At, Goto, Reply
  <2> QED
    BY <2>1, <2>2, <1>kept
<1>8. ASSUME NEW r \in Requests, RecordCreate(r)
      PROVE  \E s \in Requests : pc'[s] = "lock" /\ req'[s].cookie = t
  <2>1. tokens[t].state = "live" /\ tokens[t].attempts >= MaxAttempts
    BY <1>8 DEF RecordCreate
  <2>2. \A s \in Requests : pc[s] = "lock" => pc'[s] = "lock" /\ req'[s].cookie = req[s].cookie
    BY <1>8 DEF RecordCreate, At, Goto
  <2> QED
    BY <2>1, <2>2, <1>kept
<1>9. ASSUME NEW r \in Requests, CreateLoginToken(r)
      PROVE  \E s \in Requests : pc'[s] = "lock" /\ req'[s].cookie = t
  <2>1. tokens[t].state = "live" /\ tokens[t].attempts >= MaxAttempts
    BY <1>9, ConfigAssumption DEF CreateLoginToken
  <2>2. \A s \in Requests : pc[s] = "lock" => pc'[s] = "lock" /\ req'[s].cookie = req[s].cookie
    BY <1>9 DEF CreateLoginToken, At, Reply
  <2> QED
    BY <2>1, <2>2, <1>kept
<1>10. ASSUME NEW r \in Requests, LoadCodeToken(r)
       PROVE  \E s \in Requests : pc'[s] = "lock" /\ req'[s].cookie = t
  <2>1. tokens[t].state = "live" /\ tokens[t].attempts >= MaxAttempts
    BY <1>10 DEF LoadCodeToken, tables
  <2>2. \A s \in Requests : pc[s] = "lock" => pc'[s] = "lock" /\ req'[s].cookie = req[s].cookie
    BY <1>10 DEF LoadCodeToken, TypeOK, At, Goto, Reply
  <2> QED
    BY <2>1, <2>2, <1>kept
<1>11. ASSUME NEW r \in Requests, LoadPasswordToken(r)
       PROVE  \E s \in Requests : pc'[s] = "lock" /\ req'[s].cookie = t
  <2>1. tokens[t].state = "live" /\ tokens[t].attempts >= MaxAttempts
    BY <1>11 DEF LoadPasswordToken, tables
  <2>2. \A s \in Requests : pc[s] = "lock" => pc'[s] = "lock" /\ req'[s].cookie = req[s].cookie
    BY <1>11 DEF LoadPasswordToken, TypeOK, At, Goto, Reply
  <2> QED
    BY <2>1, <2>2, <1>kept
<1>12. ASSUME NEW r \in Requests, LoadUser(r)
       PROVE  \E s \in Requests : pc'[s] = "lock" /\ req'[s].cookie = t
  <2>1. tokens[t].state = "live" /\ tokens[t].attempts >= MaxAttempts
    BY <1>12 DEF LoadUser, tables
  <2>2. \A s \in Requests : pc[s] = "lock" => pc'[s] = "lock" /\ req'[s].cookie = req[s].cookie
    BY <1>12 DEF LoadUser, TypeOK, At, Goto, Reply
  <2> QED
    BY <2>1, <2>2, <1>kept
<1>13. ASSUME NEW r \in Requests, SetPassword(r)
       PROVE  \E s \in Requests : pc'[s] = "lock" /\ req'[s].cookie = t
  <2>1. tokens[t].state = "live" /\ tokens[t].attempts >= MaxAttempts
    BY <1>13 DEF SetPassword
  <2>2. \A s \in Requests : pc[s] = "lock" => pc'[s] = "lock" /\ req'[s].cookie = req[s].cookie
    BY <1>13 DEF SetPassword, At, Goto
  <2> QED
    BY <2>1, <2>2, <1>kept
<1>14. ASSUME NEW r \in Requests, Bump(r)
       PROVE  \E s \in Requests : pc'[s] = "lock" /\ req'[s].cookie = t
  <2>1. CASE pc'[r] = "lock"
    <3>1. \A s \in Requests : pc[s] = "lock" => pc'[s] = "lock"
      BY <1>14, <2>1 DEF Bump, Goto, Reply, TypeOK
    <3>2. CASE req[r].cookie = t
      BY <1>14, <2>1, <3>2 DEF Bump
    <3>3. CASE req[r].cookie # t
      <4>1. tokens'[t] = tokens[t]
        BY <1>14, <3>3 DEF Bump, TypeOK
      <4> QED
        BY <1>14, <1>kept, <3>1, <4>1 DEF Bump
    <3> QED
      BY <3>2, <3>3
  <2>2. CASE pc'[r] # "lock"
    <3>1. tokens[t].state = "live" /\ tokens[t].attempts >= MaxAttempts
      BY <1>14, <2>2, ConfigAssumption DEF Bump, Goto, TypeOK, TokenRow, Live
    <3>2. \A s \in Requests : pc[s] = "lock" => pc'[s] = "lock" /\ req'[s].cookie = req[s].cookie
      BY <1>14, <2>2 DEF Bump, At, Goto, Reply, TypeOK
    <3> QED
      BY <1>kept, <3>1, <3>2
  <2> QED
    BY <2>1, <2>2
<1>15. ASSUME NEW r \in Requests, Lock(r)
       PROVE  \E s \in Requests : pc'[s] = "lock" /\ req'[s].cookie = t
  <2>1. req[r].cookie # t /\ tokens'[t] = tokens[t]
    BY <1>15 DEF Lock, ConsumeToken, Live, TypeOK
  <2>2. PICK s \in Requests : pc[s] = "lock" /\ req[s].cookie = t
    BY <2>1 DEF LockPending, Live
  <2> QED
    BY <1>15, <2>1, <2>2 DEF Lock, Reply
<1>16. ASSUME NEW r \in Requests, Consume(r)
       PROVE  \E s \in Requests : pc'[s] = "lock" /\ req'[s].cookie = t
  <2>1. tokens[t].state = "live" /\ tokens[t].attempts >= MaxAttempts
    BY <1>16 DEF Consume, ConsumeToken
  <2>2. \A s \in Requests : pc[s] = "lock" => pc'[s] = "lock" /\ req'[s].cookie = req[s].cookie
    BY <1>16 DEF Consume, At, Goto
  <2> QED
    BY <2>1, <2>2, <1>kept
<1>17. ASSUME NEW r \in Requests, CreateSession(r)
       PROVE  \E s \in Requests : pc'[s] = "lock" /\ req'[s].cookie = t
  <2>1. tokens[t].state = "live" /\ tokens[t].attempts >= MaxAttempts
    BY <1>17 DEF CreateSession
  <2>2. \A s \in Requests : pc[s] = "lock" => pc'[s] = "lock" /\ req'[s].cookie = req[s].cookie
    BY <1>17 DEF CreateSession, At, Goto
  <2> QED
    BY <2>1, <2>2, <1>kept
<1>18. ASSUME NEW r \in Requests, RecordLogin(r)
       PROVE  \E s \in Requests : pc'[s] = "lock" /\ req'[s].cookie = t
  <2>1. tokens[t].state = "live" /\ tokens[t].attempts >= MaxAttempts
    BY <1>18 DEF RecordLogin
  <2>2. \A s \in Requests : pc[s] = "lock" => pc'[s] = "lock" /\ req'[s].cookie = req[s].cookie
    BY <1>18 DEF RecordLogin, At, Reply
  <2> QED
    BY <2>1, <2>2, <1>kept
<1>19. ASSUME NEW r \in Requests, LoadSession(r)
       PROVE  \E s \in Requests : pc'[s] = "lock" /\ req'[s].cookie = t
  <2>1. tokens[t].state = "live" /\ tokens[t].attempts >= MaxAttempts
    BY <1>19 DEF LoadSession, tables
  <2>2. \A s \in Requests : pc[s] = "lock" => pc'[s] = "lock" /\ req'[s].cookie = req[s].cookie
    BY <1>19 DEF LoadSession, At, Goto
  <2> QED
    BY <2>1, <2>2, <1>kept
<1>20. ASSUME NEW r \in Requests, DeleteSession(r)
       PROVE  \E s \in Requests : pc'[s] = "lock" /\ req'[s].cookie = t
  <2>1. tokens[t].state = "live" /\ tokens[t].attempts >= MaxAttempts
    BY <1>20 DEF DeleteSession
  <2>2. \A s \in Requests : pc[s] = "lock" => pc'[s] = "lock" /\ req'[s].cookie = req[s].cookie
    BY <1>20 DEF DeleteSession, TypeOK, At, Goto, Reply
  <2> QED
    BY <2>1, <2>2, <1>kept
<1>21. ASSUME NEW r \in Requests, LoadLogoutUser(r)
       PROVE  \E s \in Requests : pc'[s] = "lock" /\ req'[s].cookie = t
  <2>1. tokens[t].state = "live" /\ tokens[t].attempts >= MaxAttempts
    BY <1>21 DEF LoadLogoutUser, tables
  <2>2. \A s \in Requests : pc[s] = "lock" => pc'[s] = "lock" /\ req'[s].cookie = req[s].cookie
    BY <1>21 DEF LoadLogoutUser, TypeOK, At, Goto, Reply
  <2> QED
    BY <2>1, <2>2, <1>kept
<1>22. ASSUME NEW r \in Requests, RecordLogout(r)
       PROVE  \E s \in Requests : pc'[s] = "lock" /\ req'[s].cookie = t
  <2>1. tokens[t].state = "live" /\ tokens[t].attempts >= MaxAttempts
    BY <1>22 DEF RecordLogout
  <2>2. \A s \in Requests : pc[s] = "lock" => pc'[s] = "lock" /\ req'[s].cookie = req[s].cookie
    BY <1>22 DEF RecordLogout, At, Reply
  <2> QED
    BY <2>1, <2>2, <1>kept
<1>23. ASSUME NEW r \in Requests, Answer(r)
       PROVE  \E s \in Requests : pc'[s] = "lock" /\ req'[s].cookie = t
  <2>1. tokens[t].state = "live" /\ tokens[t].attempts >= MaxAttempts
    BY <1>23 DEF Answer, tables
  <2>2. \A s \in Requests : pc[s] = "lock" => pc'[s] = "lock" /\ req'[s].cookie = req[s].cookie
    BY <1>23 DEF Answer, At, Goto
  <2> QED
    BY <2>1, <2>2, <1>kept
<1>24. ASSUME NEW r \in Requests, Drop(r)
       PROVE  \E s \in Requests : pc'[s] = "lock" /\ req'[s].cookie = t
  <2>1. tokens[t].state = "live" /\ tokens[t].attempts >= MaxAttempts
    BY <1>24 DEF Drop, tables
  <2>2. \A s \in Requests : pc[s] = "lock" => pc'[s] = "lock" /\ req'[s].cookie = req[s].cookie
    BY <1>24 DEF Drop
  <2> QED
    BY <2>1, <2>2, <1>kept
<1>25. ASSUME NEW x \in Requests, ExpireToken(x)
       PROVE  \E s \in Requests : pc'[s] = "lock" /\ req'[s].cookie = t
  <2>1. tokens[t].state = "live" /\ tokens[t].attempts >= MaxAttempts
    BY <1>25 DEF ExpireToken
  <2>2. \A s \in Requests : pc[s] = "lock" => pc'[s] = "lock" /\ req'[s].cookie = req[s].cookie
    BY <1>25 DEF ExpireToken
  <2> QED
    BY <2>1, <2>2, <1>kept
<1>26. ASSUME NEW x \in Requests, ExpireSession(x)
       PROVE  \E s \in Requests : pc'[s] = "lock" /\ req'[s].cookie = t
  <2>1. tokens[t].state = "live" /\ tokens[t].attempts >= MaxAttempts
    BY <1>26 DEF ExpireSession
  <2>2. \A s \in Requests : pc[s] = "lock" => pc'[s] = "lock" /\ req'[s].cookie = req[s].cookie
    BY <1>26 DEF ExpireSession
  <2> QED
    BY <2>1, <2>2, <1>kept
<1>27. ASSUME NEW e \in Emails, NEW status \in StatusEdits, EditStatus(e, status)
       PROVE  \E s \in Requests : pc'[s] = "lock" /\ req'[s].cookie = t
  <2>1. tokens[t].state = "live" /\ tokens[t].attempts >= MaxAttempts
    BY <1>27 DEF EditStatus
  <2>2. \A s \in Requests : pc[s] = "lock" => pc'[s] = "lock" /\ req'[s].cookie = req[s].cookie
    BY <1>27 DEF EditStatus
  <2> QED
    BY <2>1, <2>2, <1>kept
<1>28. ASSUME NEW e \in Emails, NEW password \in PasswordEdits, EditPassword(e, password)
       PROVE  \E s \in Requests : pc'[s] = "lock" /\ req'[s].cookie = t
  <2>1. tokens[t].state = "live" /\ tokens[t].attempts >= MaxAttempts
    BY <1>28 DEF EditPassword
  <2>2. \A s \in Requests : pc[s] = "lock" => pc'[s] = "lock" /\ req'[s].cookie = req[s].cookie
    BY <1>28 DEF EditPassword
  <2> QED
    BY <2>1, <2>2, <1>kept
<1>29. ASSUME UNCHANGED vars PROVE \E s \in Requests : pc'[s] = "lock" /\ req'[s].cookie = t
  BY <1>29, <1>kept DEF vars
<1> QED
  BY <1>1, <1>2, <1>3, <1>4, <1>5, <1>6, <1>7, <1>8, <1>9, <1>10, <1>11, <1>12, <1>13, <1>14,
     <1>15, <1>16, <1>17, <1>18, <1>19, <1>20, <1>21, <1>22, <1>23, <1>24, <1>25, <1>26,
     <1>27, <1>28, <1>29
     DEF Next, Arrive, Work, Outside, Quiet

\* LoginAudited for one session.
Audited(s) ==
  /\ sessions[s].state # "none" => Entry("login", s) \in audit \/ pc[s] = "audit_login"
  /\ result[s] = "signed_in" => Entry("login", s) \in audit

\* A step that leaves the audit story of s as it was.
Unaffected(s) ==
  /\ req'[s].email = req[s].email /\ audit \subseteq audit'
  /\ sessions'[s].state # "none" => sessions[s].state # "none"
  /\ result'[s] = "signed_in" => result[s] = "signed_in"
  /\ pc[s] = "audit_login" => pc'[s] = "audit_login"

\* Every step keeps LoginAudited: a session is created one statement before its audit entry.
LEMMA AuditStep ==
  (TypeOK /\ LocalsOK /\ ChainOK /\ LoginAudited) /\ [Next]_vars =>
    LoginAudited'
<1> SUFFICES ASSUME (TypeOK /\ LocalsOK /\ ChainOK /\ LoginAudited), [Next]_vars, NEW s \in Requests
             PROVE  Audited(s)'
  BY DEF LoginAudited, Audited
<1>has. sessions[s].state # "none" => pc[s] \in {"audit_login", "answer", "done"}
  BY DEF ChainOK, ChainOf
<1>kept. Unaffected(s) => Audited(s)'
  BY DEF LoginAudited, Audited, Unaffected, Entry
<1>1. ASSUME NEW r \in Requests, NEW b \in Browsers, NEW e \in Emails, BeginEmail(r, b, e)
      PROVE  Audited(s)'
  <2>1. CASE s # r
    <3>1. Unaffected(s)
      BY <1>1, <2>1 DEF BeginEmail, Begin, tables, Goto, Unaffected
    <3> QED
      BY <1>kept, <3>1
  <2>2. CASE s = r
    <3>1. sessions[r].state = "none" /\ result[r] = "none"
      BY <1>1, <1>has, <2>2 DEF BeginEmail, Begin, LocalsOK
    <3> QED
      BY <1>1, <2>2, <3>1 DEF BeginEmail, Begin, tables, Goto, Audited
  <2> QED
    BY <2>1, <2>2
<1>2. ASSUME NEW r \in Requests, NEW b \in Browsers, NEW code \in {"right", "wrong"},
             BeginCode(r, b, code)
      PROVE  Audited(s)'
  <2>1. CASE s # r
    <3>1. Unaffected(s)
      BY <1>2, <2>1 DEF BeginCode, Begin, tables, Goto, Unaffected
    <3> QED
      BY <1>kept, <3>1
  <2>2. CASE s = r
    <3>1. sessions[r].state = "none" /\ result[r] = "none"
      BY <1>2, <1>has, <2>2 DEF BeginCode, Begin, LocalsOK
    <3> QED
      BY <1>2, <2>2, <3>1 DEF BeginCode, Begin, tables, Goto, Audited
  <2> QED
    BY <2>1, <2>2
<1>3. ASSUME NEW r \in Requests, NEW b \in Browsers, NEW p \in Passwords \cup {"weak"},
             BeginPassword(r, b, p)
      PROVE  Audited(s)'
  <2>1. CASE s # r
    <3>1. Unaffected(s)
      BY <1>3, <2>1 DEF BeginPassword, Begin, tables, Goto, Unaffected
    <3> QED
      BY <1>kept, <3>1
  <2>2. CASE s = r
    <3>1. sessions[r].state = "none" /\ result[r] = "none"
      BY <1>3, <1>has, <2>2 DEF BeginPassword, Begin, LocalsOK
    <3> QED
      BY <1>3, <2>2, <3>1 DEF BeginPassword, Begin, tables, Goto, Audited
  <2> QED
    BY <2>1, <2>2
<1>4. ASSUME NEW r \in Requests, NEW b \in Browsers, BeginLogout(r, b) PROVE Audited(s)'
  <2>1. CASE s # r
    <3>1. Unaffected(s)
      BY <1>4, <2>1 DEF BeginLogout, Begin, tables, Goto, Unaffected
    <3> QED
      BY <1>kept, <3>1
  <2>2. CASE s = r
    <3>1. sessions[r].state = "none" /\ result[r] = "none"
      BY <1>4, <1>has, <2>2 DEF BeginLogout, Begin, LocalsOK
    <3> QED
      BY <1>4, <2>2, <3>1 DEF BeginLogout, Begin, tables, Goto, Audited
  <2> QED
    BY <2>1, <2>2
<1>5. ASSUME NEW r \in Requests, Cleanup(r) PROVE Audited(s)'
  <2>1. Unaffected(s)
    BY <1>5 DEF Cleanup, At, Goto, Unaffected
  <2> QED
    BY <2>1, <1>kept
<1>6. ASSUME NEW r \in Requests, FindEmail(r) PROVE Audited(s)'
  <2>1. Unaffected(s)
    BY <1>6 DEF FindEmail, TypeOK, tables, At, Goto, Reply, Unaffected
  <2> QED
    BY <2>1, <1>kept
<1>7. ASSUME NEW r \in Requests, CreateUser(r) PROVE Audited(s)'
  <2>1. Unaffected(s)
    BY <1>7 DEF CreateUser, TypeOK, At, Goto, Reply, Unaffected
  <2> QED
    BY <2>1, <1>kept
<1>8. ASSUME NEW r \in Requests, RecordCreate(r) PROVE Audited(s)'
  <2>1. Unaffected(s)
    BY <1>8 DEF RecordCreate, At, Goto, Unaffected
  <2> QED
    BY <2>1, <1>kept
<1>9. ASSUME NEW r \in Requests, CreateLoginToken(r) PROVE Audited(s)'
  <2>1. Unaffected(s)
    BY <1>9 DEF CreateLoginToken, At, Reply, Unaffected
  <2> QED
    BY <2>1, <1>kept
<1>10. ASSUME NEW r \in Requests, LoadCodeToken(r) PROVE Audited(s)'
  <2>1. CASE s # r
    <3>1. Unaffected(s)
      BY <1>10, <2>1 DEF LoadCodeToken, TypeOK, tables, Goto, Reply, Unaffected
    <3> QED
      BY <1>kept, <3>1
  <2>2. CASE s = r
    <3>1. sessions[r].state = "none" /\ result[r] = "none"
      BY <1>10, <1>has, <2>2 DEF LoadCodeToken, At, LocalsOK
    <3> QED
      BY <1>10, <2>2, <3>1 DEF LoadCodeToken, tables, Goto, Reply, Audited, TypeOK
  <2> QED
    BY <2>1, <2>2
<1>11. ASSUME NEW r \in Requests, LoadPasswordToken(r) PROVE Audited(s)'
  <2>1. CASE s # r
    <3>1. Unaffected(s)
      BY <1>11, <2>1 DEF LoadPasswordToken, TypeOK, tables, Goto, Reply, Unaffected
    <3> QED
      BY <1>kept, <3>1
  <2>2. CASE s = r
    <3>1. sessions[r].state = "none" /\ result[r] = "none"
      BY <1>11, <1>has, <2>2 DEF LoadPasswordToken, At, LocalsOK
    <3> QED
      BY <1>11, <2>2, <3>1 DEF LoadPasswordToken, tables, Goto, Reply, Audited, TypeOK
  <2> QED
    BY <2>1, <2>2
<1>12. ASSUME NEW r \in Requests, LoadUser(r) PROVE Audited(s)'
  <2>1. Unaffected(s)
    BY <1>12 DEF LoadUser, TypeOK, tables, At, Goto, Reply, Unaffected
  <2> QED
    BY <2>1, <1>kept
<1>13. ASSUME NEW r \in Requests, SetPassword(r) PROVE Audited(s)'
  <2>1. Unaffected(s)
    BY <1>13 DEF SetPassword, At, Goto, Unaffected
  <2> QED
    BY <2>1, <1>kept
<1>14. ASSUME NEW r \in Requests, Bump(r) PROVE Audited(s)'
  <2>1. Unaffected(s)
    BY <1>14 DEF Bump, TypeOK, At, Goto, Reply, Unaffected
  <2> QED
    BY <2>1, <1>kept
<1>15. ASSUME NEW r \in Requests, Lock(r) PROVE Audited(s)'
  <2>1. Unaffected(s)
    BY <1>15 DEF Lock, At, Reply, Unaffected
  <2> QED
    BY <2>1, <1>kept
<1>16. ASSUME NEW r \in Requests, Consume(r) PROVE Audited(s)'
  <2>1. Unaffected(s)
    BY <1>16 DEF Consume, At, Goto, Unaffected
  <2> QED
    BY <2>1, <1>kept
<1>17. ASSUME NEW r \in Requests, CreateSession(r) PROVE Audited(s)'
  <2>1. CASE s # r
    <3>1. Unaffected(s)
      BY <1>17, <2>1 DEF CreateSession, Goto, Unaffected
    <3> QED
      BY <1>kept, <3>1
  <2>2. CASE s = r
    <3>1. result[r] = "none"
      BY <1>17 DEF CreateSession, At, LocalsOK
    <3> QED
      BY <1>17, <2>2, <3>1 DEF CreateSession, Goto, Audited, TypeOK
  <2> QED
    BY <2>1, <2>2
<1>18. ASSUME NEW r \in Requests, RecordLogin(r) PROVE Audited(s)'
  <2>1. CASE s # r
    <3>1. Unaffected(s)
      BY <1>18, <2>1 DEF RecordLogin, Reply, Unaffected
    <3> QED
      BY <1>kept, <3>1
  <2>2. CASE s = r
      BY <1>18, <2>2 DEF RecordLogin, Audited, Entry
  <2> QED
    BY <2>1, <2>2
<1>19. ASSUME NEW r \in Requests, LoadSession(r) PROVE Audited(s)'
  <2>1. CASE s # r
    <3>1. Unaffected(s)
      BY <1>19, <2>1 DEF LoadSession, tables, Goto, Unaffected
    <3> QED
      BY <1>kept, <3>1
  <2>2. CASE s = r
    <3>1. sessions[r].state = "none" /\ result[r] = "none"
      BY <1>19, <1>has, <2>2 DEF LoadSession, At, LocalsOK
    <3> QED
      BY <1>19, <2>2, <3>1 DEF LoadSession, tables, Goto, Audited
  <2> QED
    BY <2>1, <2>2
<1>20. ASSUME NEW r \in Requests, DeleteSession(r) PROVE Audited(s)'
  <2>1. Unaffected(s)
    BY <1>20 DEF DeleteSession, TypeOK, At, Goto, Reply, Unaffected, NoSession
  <2> QED
    BY <2>1, <1>kept
<1>21. ASSUME NEW r \in Requests, LoadLogoutUser(r) PROVE Audited(s)'
  <2>1. Unaffected(s)
    BY <1>21 DEF LoadLogoutUser, TypeOK, tables, At, Goto, Reply, Unaffected
  <2> QED
    BY <2>1, <1>kept
<1>22. ASSUME NEW r \in Requests, RecordLogout(r) PROVE Audited(s)'
  <2>1. Unaffected(s)
    BY <1>22 DEF RecordLogout, At, Reply, Unaffected
  <2> QED
    BY <2>1, <1>kept
<1>23. ASSUME NEW r \in Requests, Answer(r) PROVE Audited(s)'
  <2>1. Unaffected(s)
    BY <1>23 DEF Answer, tables, At, Goto, Unaffected
  <2> QED
    BY <2>1, <1>kept
<1>24. ASSUME NEW r \in Requests, Drop(r) PROVE Audited(s)'
  <2>1. Unaffected(s)
    BY <1>24 DEF Drop, tables, Unaffected
  <2> QED
    BY <2>1, <1>kept
<1>25. ASSUME NEW x \in Requests, ExpireToken(x) PROVE Audited(s)'
  <2>1. Unaffected(s)
    BY <1>25 DEF ExpireToken, Unaffected
  <2> QED
    BY <2>1, <1>kept
<1>26. ASSUME NEW x \in Requests, ExpireSession(x) PROVE Audited(s)'
  <2>1. Unaffected(s)
    BY <1>26 DEF ExpireSession, Unaffected
  <2> QED
    BY <2>1, <1>kept
<1>27. ASSUME NEW e \in Emails, NEW status \in StatusEdits, EditStatus(e, status)
       PROVE  Audited(s)'
  <2>1. Unaffected(s)
    BY <1>27 DEF EditStatus, Unaffected
  <2> QED
    BY <2>1, <1>kept
<1>28. ASSUME NEW e \in Emails, NEW password \in PasswordEdits, EditPassword(e, password)
       PROVE  Audited(s)'
  <2>1. Unaffected(s)
    BY <1>28 DEF EditPassword, Unaffected
  <2> QED
    BY <2>1, <1>kept
<1>29. ASSUME UNCHANGED vars PROVE Audited(s)'
  BY <1>29, <1>kept DEF vars, Unaffected
<1> QED
  BY <1>1, <1>2, <1>3, <1>4, <1>5, <1>6, <1>7, <1>8, <1>9, <1>10, <1>11, <1>12, <1>13, <1>14,
     <1>15, <1>16, <1>17, <1>18, <1>19, <1>20, <1>21, <1>22, <1>23, <1>24, <1>25, <1>26,
     <1>27, <1>28, <1>29
     DEF Next, Arrive, Work, Outside, Quiet

\* A token at its limit is live only while the request that filled it stands at the lock.
THEOREM LockIsPending == Spec => []LockPending
<1>1. Init => LockPending
  BY DEF Init, LockPending, Live, NoToken
<1>2. IInv /\ LockPending /\ [Next]_vars => LockPending'
  BY LockStep DEF IInv
<1> QED
  BY Inductive, <1>1, <1>2, PTL DEF Spec

\* A session lacks its audit entry only while its request has not been answered.
THEOREM LoginIsAudited == Spec => []LoginAudited
<1>1. Init => LoginAudited
  BY DEF Init, LoginAudited, NoSession
<1>2. IInv /\ LoginAudited /\ [Next]_vars => LoginAudited'
  BY AuditStep DEF IInv
<1> QED
  BY Inductive, <1>1, <1>2, PTL DEF Spec

\* The step of PasswordJudged.
Judged ==
  \A r \in Requests :
    req[r].kind = "password" /\ pc[r] # "consume" /\ pc'[r] = "consume" =>
      users'[req[r].email].password = req[r].guess

\* A request goes on to the consume statement only from LoadUser, which compared the password
\* with the row, or from SetPassword, which wrote it.
LEMMA JudgedStep == (TypeOK /\ LocalsOK) /\ [Next]_vars => Judged
<1> SUFFICES ASSUME (TypeOK /\ LocalsOK), [Next]_vars PROVE Judged
  OBVIOUS
<1>1. ASSUME NEW r \in Requests, NEW b \in Browsers, NEW e \in Emails, BeginEmail(r, b, e)
      PROVE  Judged
  BY <1>1 DEF BeginEmail, Begin, Goto, Judged
<1>2. ASSUME NEW r \in Requests, NEW b \in Browsers, NEW code \in {"right", "wrong"},
             BeginCode(r, b, code)
      PROVE  Judged
  BY <1>2 DEF BeginCode, Begin, Goto, Judged
<1>3. ASSUME NEW r \in Requests, NEW b \in Browsers, NEW p \in Passwords \cup {"weak"},
             BeginPassword(r, b, p)
      PROVE  Judged
  BY <1>3 DEF BeginPassword, Begin, Goto, Judged
<1>4. ASSUME NEW r \in Requests, NEW b \in Browsers, BeginLogout(r, b) PROVE Judged
  BY <1>4 DEF BeginLogout, Begin, Goto, Judged
<1>5. ASSUME NEW r \in Requests, Cleanup(r) PROVE Judged
  BY <1>5 DEF Cleanup, Goto, Judged
<1>6. ASSUME NEW r \in Requests, FindEmail(r) PROVE Judged
  BY <1>6 DEF FindEmail, TypeOK, Goto, Reply, Judged
<1>7. ASSUME NEW r \in Requests, CreateUser(r) PROVE Judged
  BY <1>7 DEF CreateUser, TypeOK, Goto, Reply, Judged
<1>8. ASSUME NEW r \in Requests, RecordCreate(r) PROVE Judged
  BY <1>8 DEF RecordCreate, Goto, Judged
<1>9. ASSUME NEW r \in Requests, CreateLoginToken(r) PROVE Judged
  BY <1>9 DEF CreateLoginToken, Reply, Judged
<1>10. ASSUME NEW r \in Requests, LoadCodeToken(r) PROVE Judged
  <2>1. req[r].kind = "code"
    BY <1>10 DEF LoadCodeToken, At, LocalsOK
  <2> QED
    BY <1>10, <2>1 DEF LoadCodeToken, TypeOK, Goto, Reply, Judged
<1>11. ASSUME NEW r \in Requests, LoadPasswordToken(r) PROVE Judged
  BY <1>11 DEF LoadPasswordToken, TypeOK, Goto, Reply, Judged
<1>12. ASSUME NEW r \in Requests, LoadUser(r) PROVE Judged
  BY <1>12 DEF LoadUser, TypeOK, tables, Goto, Reply, Judged
<1>13. ASSUME NEW r \in Requests, SetPassword(r) PROVE Judged
  <2>1. req[r].email \in Emails
    BY <1>13 DEF SetPassword, LocalsOK, At, PastRead
  <2> QED
    BY <1>13, <2>1 DEF SetPassword, TypeOK, Goto, Judged
<1>14. ASSUME NEW r \in Requests, Bump(r) PROVE Judged
  BY <1>14 DEF Bump, TypeOK, Goto, Reply, Judged
<1>15. ASSUME NEW r \in Requests, Lock(r) PROVE Judged
  BY <1>15 DEF Lock, Reply, Judged
<1>16. ASSUME NEW r \in Requests, Consume(r) PROVE Judged
  BY <1>16 DEF Consume, Goto, Judged
<1>17. ASSUME NEW r \in Requests, CreateSession(r) PROVE Judged
  BY <1>17 DEF CreateSession, Goto, Judged
<1>18. ASSUME NEW r \in Requests, RecordLogin(r) PROVE Judged
  BY <1>18 DEF RecordLogin, Reply, Judged
<1>19. ASSUME NEW r \in Requests, LoadSession(r) PROVE Judged
  BY <1>19 DEF LoadSession, Goto, Judged
<1>20. ASSUME NEW r \in Requests, DeleteSession(r) PROVE Judged
  BY <1>20 DEF DeleteSession, TypeOK, Goto, Reply, Judged
<1>21. ASSUME NEW r \in Requests, LoadLogoutUser(r) PROVE Judged
  BY <1>21 DEF LoadLogoutUser, TypeOK, Goto, Reply, Judged
<1>22. ASSUME NEW r \in Requests, RecordLogout(r) PROVE Judged
  BY <1>22 DEF RecordLogout, Reply, Judged
<1>23. ASSUME NEW r \in Requests, Answer(r) PROVE Judged
  BY <1>23 DEF Answer, Goto, Judged
<1>24. ASSUME NEW r \in Requests, Drop(r) PROVE Judged
  BY <1>24 DEF Drop, Judged
<1>25. ASSUME NEW x \in Requests, ExpireToken(x) PROVE Judged
  BY <1>25 DEF ExpireToken, Judged
<1>26. ASSUME NEW x \in Requests, ExpireSession(x) PROVE Judged
  BY <1>26 DEF ExpireSession, Judged
<1>27. ASSUME NEW e \in Emails, NEW status \in StatusEdits, EditStatus(e, status) PROVE Judged
  BY <1>27 DEF EditStatus, Judged
<1>28. ASSUME NEW e \in Emails, NEW password \in PasswordEdits, EditPassword(e, password)
       PROVE  Judged
  BY <1>28 DEF EditPassword, Judged
<1>29. ASSUME UNCHANGED vars PROVE Judged
  BY <1>29 DEF vars, Judged
<1> QED
  BY <1>1, <1>2, <1>3, <1>4, <1>5, <1>6, <1>7, <1>8, <1>9, <1>10, <1>11, <1>12, <1>13, <1>14,
     <1>15, <1>16, <1>17, <1>18, <1>19, <1>20, <1>21, <1>22, <1>23, <1>24, <1>25, <1>26,
     <1>27, <1>28, <1>29
     DEF Next, Arrive, Work, Outside, Quiet

\* complete_login lets a request past the password step only with its account's password.
THEOREM PasswordIsJudged == Spec => PasswordJudged
<1>1. IInv /\ [Next]_vars => [Judged]_vars
  BY JudgedStep DEF IInv
<1>2. Spec => [][Judged]_vars
  BY Inductive, <1>1, PTL DEF Spec
<1> QED
  BY <1>2 DEF PasswordJudged, Judged

\* Accounts start_login lets in.
Admitted(e) ==
  LET first == InitUsers[e].status IN first = "active" \/ (first = "absent" /\ DomainAllowed(e))

\* The statuses the accounts can reach without an administrator, and the requests and tokens
\* that rest on them.
AdmitOK ==
  /\ \A e \in Emails : /\ users[e].status = "absent" => InitUsers[e].status = "absent"
                       /\ users[e].status = "active" => Admitted(e)
  /\ \A r \in Requests :
       /\ pc[r] = "create_user" => DomainAllowed(req[r].email)
       /\ pc[r] \in {"audit_create", "create_token"} => Admitted(req[r].email)
       /\ pc[r] = "consume" /\ req[r].kind = "code" => Admitted(req[r].email)
       /\ tokens[r].state # "none" => Admitted(tokens[r].email)

\* Every step keeps AdmitOK: an account becomes active only by being created for an allowed
\* domain, and FindEmail lets only active ones pass.
LEMMA AdmitStep ==
  (TypeOK /\ LocalsOK /\ AdmitOK /\ "active" \notin StatusEdits) /\ [Next]_vars =>
    AdmitOK'
<1> SUFFICES ASSUME TypeOK, LocalsOK, AdmitOK, "active" \notin StatusEdits, [Next]_vars PROVE AdmitOK'
  OBVIOUS
<1>1. ASSUME NEW r \in Requests, NEW b \in Browsers, NEW e \in Emails, BeginEmail(r, b, e)
      PROVE  AdmitOK'
  BY <1>1 DEF BeginEmail, Begin, Goto, tables, AdmitOK
<1>2. ASSUME NEW r \in Requests, NEW b \in Browsers, NEW code \in {"right", "wrong"},
             BeginCode(r, b, code)
      PROVE  AdmitOK'
  BY <1>2 DEF BeginCode, Begin, Goto, tables, AdmitOK
<1>3. ASSUME NEW r \in Requests, NEW b \in Browsers, NEW p \in Passwords \cup {"weak"},
             BeginPassword(r, b, p)
      PROVE  AdmitOK'
  BY <1>3 DEF BeginPassword, Begin, Goto, tables, AdmitOK
<1>4. ASSUME NEW r \in Requests, NEW b \in Browsers, BeginLogout(r, b) PROVE AdmitOK'
  BY <1>4 DEF BeginLogout, Begin, Goto, tables, AdmitOK
<1>5. ASSUME NEW r \in Requests, Cleanup(r) PROVE AdmitOK'
  BY <1>5 DEF Cleanup, Goto, AdmitOK, NoToken
<1>6. ASSUME NEW r \in Requests, FindEmail(r) PROVE AdmitOK'
  <2>1. req[r].email \in Emails
    BY <1>6 DEF FindEmail, LocalsOK, At
  <2> QED
    BY <1>6, <2>1 DEF FindEmail, TypeOK, tables, Goto, Reply, AdmitOK
<1>7. ASSUME NEW r \in Requests, CreateUser(r) PROVE AdmitOK'
  <2>1. req[r].email \in Emails
    BY <1>7 DEF CreateUser, LocalsOK, At
  <2>2. pc'[r] = "audit_create" => Admitted(req[r].email)
    BY <1>7, <2>1 DEF CreateUser, At, Reply, TypeOK, AdmitOK, Admitted
  <2> QED
    BY <1>7, <2>1, <2>2 DEF CreateUser, TypeOK, Goto, Reply, AdmitOK
<1>8. ASSUME NEW r \in Requests, RecordCreate(r) PROVE AdmitOK'
  BY <1>8 DEF RecordCreate, At, Goto, AdmitOK
<1>9. ASSUME NEW r \in Requests, CreateLoginToken(r) PROVE AdmitOK'
  BY <1>9 DEF CreateLoginToken, At, Reply, AdmitOK
<1>10. ASSUME NEW r \in Requests, LoadCodeToken(r) PROVE AdmitOK'
  <2>1. req[r].cookie \in Requests
    BY <1>10 DEF LoadCodeToken, LocalsOK, At
  <2>2. \A q \in Requests \ {r} : req'[q] = req[q] /\ pc'[q] = pc[q]
    BY <1>10 DEF LoadCodeToken, Goto, Reply, TypeOK
  <2>3. pc'[r] \in {"answer", "bump", "consume"}
    BY <1>10 DEF LoadCodeToken, Goto, Reply, TypeOK
  <2>4. pc'[r] = "consume" => Admitted(req'[r].email)
    BY <1>10, <2>1 DEF LoadCodeToken, Reply, Live, TypeOK, ReqRecord, AdmitOK
  <2>5. users' = users /\ tokens' = tokens
    BY <1>10 DEF LoadCodeToken, tables
  <2> QED
    BY <2>1, <2>2, <2>3, <2>4, <2>5 DEF AdmitOK
<1>11. ASSUME NEW r \in Requests, LoadPasswordToken(r) PROVE AdmitOK'
  <2>1. req[r].kind = "password"
    BY <1>11 DEF LoadPasswordToken, At, LocalsOK
  <2>2. \A q \in Requests \ {r} : req'[q] = req[q] /\ pc'[q] = pc[q]
    BY <1>11 DEF LoadPasswordToken, Goto, Reply, TypeOK
  <2>3. pc'[r] \in {"answer", "get_user"}
    BY <1>11 DEF LoadPasswordToken, Goto, Reply, TypeOK
  <2>4. users' = users /\ tokens' = tokens
    BY <1>11 DEF LoadPasswordToken, tables
  <2> QED
    BY <2>1, <2>2, <2>3, <2>4 DEF AdmitOK
<1>12. ASSUME NEW r \in Requests, LoadUser(r) PROVE AdmitOK'
  <2>1. req[r].kind = "password"
    BY <1>12 DEF LoadUser, At, LocalsOK
  <2> QED
    BY <1>12, <2>1 DEF LoadUser, TypeOK, tables, Goto, Reply, AdmitOK
<1>13. ASSUME NEW r \in Requests, SetPassword(r) PROVE AdmitOK'
  <2>1. req[r].email \in Emails
    BY <1>13 DEF SetPassword, LocalsOK, At, PastRead
  <2>2. req[r].kind = "password"
    BY <1>13 DEF SetPassword, At, LocalsOK
  <2> QED
    BY <1>13, <2>1, <2>2 DEF SetPassword, Goto, AdmitOK
<1>14. ASSUME NEW r \in Requests, Bump(r) PROVE AdmitOK'
  <2>1. \A q \in Requests : /\ tokens'[q].state # "none" => tokens[q].state # "none"
                            /\ tokens'[q].email = tokens[q].email
    BY <1>14 DEF Bump, TypeOK, TokenRow
  <2>2. req' = req /\ users' = users
    BY <1>14 DEF Bump
  <2>3. /\ pc'[r] \in {"answer", "lock", "create_token", "create_session"}
        /\ pc'[r] = "create_token" => pc[r] = "consume" /\ req[r].kind = "code"
        /\ \A q \in Requests \ {r} : pc'[q] = pc[q]
    BY <1>14 DEF Bump, Goto, Reply, TypeOK
  <2> QED
    BY <2>1, <2>2, <2>3 DEF AdmitOK
<1>15. ASSUME NEW r \in Requests, Lock(r) PROVE AdmitOK'
  <2>1. \A q \in Requests : /\ tokens'[q].state # "none" => tokens[q].state # "none"
                            /\ tokens'[q].email = tokens[q].email
    BY <1>15 DEF Lock, ConsumeToken, Live
  <2>2. req' = req /\ users' = users
    BY <1>15 DEF Lock
  <2>3. /\ pc'[r] \in {"answer", "lock", "create_token", "create_session"}
        /\ pc'[r] = "create_token" => pc[r] = "consume" /\ req[r].kind = "code"
        /\ \A q \in Requests \ {r} : pc'[q] = pc[q]
    BY <1>15 DEF Lock, At, Reply
  <2> QED
    BY <2>1, <2>2, <2>3 DEF AdmitOK
<1>16. ASSUME NEW r \in Requests, Consume(r) PROVE AdmitOK'
  <2>1. \A q \in Requests : /\ tokens'[q].state # "none" => tokens[q].state # "none"
                            /\ tokens'[q].email = tokens[q].email
    BY <1>16 DEF Consume, ConsumeToken, Live
  <2>2. req' = req /\ users' = users
    BY <1>16 DEF Consume
  <2>3. /\ pc'[r] \in {"answer", "lock", "create_token", "create_session"}
        /\ pc'[r] = "create_token" => pc[r] = "consume" /\ req[r].kind = "code"
        /\ \A q \in Requests \ {r} : pc'[q] = pc[q]
    BY <1>16 DEF Consume, At, Goto, TypeOK
  <2> QED
    BY <2>1, <2>2, <2>3 DEF AdmitOK
<1>17. ASSUME NEW r \in Requests, CreateSession(r) PROVE AdmitOK'
  BY <1>17 DEF CreateSession, Goto, AdmitOK
<1>18. ASSUME NEW r \in Requests, RecordLogin(r) PROVE AdmitOK'
  BY <1>18 DEF RecordLogin, Reply, AdmitOK
<1>19. ASSUME NEW r \in Requests, LoadSession(r) PROVE AdmitOK'
  <2>1. \A q \in Requests \ {r} : req'[q] = req[q] /\ pc'[q] = pc[q]
    BY <1>19 DEF LoadSession, Goto
  <2>2. pc'[r] = "delete_session"
    BY <1>19 DEF LoadSession, Goto, TypeOK
  <2>3. users' = users /\ tokens' = tokens
    BY <1>19 DEF LoadSession, tables
  <2> QED
    BY <2>1, <2>2, <2>3 DEF AdmitOK
<1>20. ASSUME NEW r \in Requests, DeleteSession(r) PROVE AdmitOK'
  BY <1>20 DEF DeleteSession, TypeOK, Goto, Reply, AdmitOK
<1>21. ASSUME NEW r \in Requests, LoadLogoutUser(r) PROVE AdmitOK'
  BY <1>21 DEF LoadLogoutUser, TypeOK, tables, Goto, Reply, AdmitOK
<1>22. ASSUME NEW r \in Requests, RecordLogout(r) PROVE AdmitOK'
  BY <1>22 DEF RecordLogout, Reply, AdmitOK
<1>23. ASSUME NEW r \in Requests, Answer(r) PROVE AdmitOK'
  BY <1>23 DEF Answer, tables, Goto, AdmitOK
<1>24. ASSUME NEW r \in Requests, Drop(r) PROVE AdmitOK'
  BY <1>24 DEF Drop, tables, AdmitOK
<1>25. ASSUME NEW x \in Requests, ExpireToken(x) PROVE AdmitOK'
  <2>1. \A q \in Requests : /\ tokens'[q].state # "none" => tokens[q].state # "none"
                            /\ tokens'[q].email = tokens[q].email
    BY <1>25 DEF ExpireToken
  <2> QED
    BY <1>25, <2>1 DEF ExpireToken, AdmitOK
<1>26. ASSUME NEW x \in Requests, ExpireSession(x) PROVE AdmitOK'
  BY <1>26 DEF ExpireSession, AdmitOK
<1>27. ASSUME NEW e \in Emails, NEW status \in StatusEdits, EditStatus(e, status) PROVE AdmitOK'
  BY <1>27, ConfigAssumption DEF EditStatus, AdmitOK
<1>28. ASSUME NEW e \in Emails, NEW password \in PasswordEdits, EditPassword(e, password)
       PROVE  AdmitOK'
  BY <1>28 DEF EditPassword, AdmitOK
<1>29. ASSUME UNCHANGED vars PROVE AdmitOK'
  BY <1>29 DEF vars, AdmitOK
<1> QED
  BY <1>1, <1>2, <1>3, <1>4, <1>5, <1>6, <1>7, <1>8, <1>9, <1>10, <1>11, <1>12, <1>13, <1>14,
     <1>15, <1>16, <1>17, <1>18, <1>19, <1>20, <1>21, <1>22, <1>23, <1>24, <1>25, <1>26,
     <1>27, <1>28, <1>29
     DEF Next, Arrive, Work, Outside, Quiet

\* With no administrator activating accounts, start_login's gate holds: a step token is only
\* ever held for an account that was active or is new on an allowed domain.
THEOREM OnlyAdmittedHold == Spec => []OnlyAdmitted
<1>1. Init => AdmitOK
  BY ConfigAssumption DEF Init, AdmitOK, Admitted, NoToken
<1>2. CASE "active" \in StatusEdits
  <2>1. OnlyAdmitted
    BY <1>2 DEF OnlyAdmitted
  <2> QED
    BY <2>1, PTL
<1>3. CASE "active" \notin StatusEdits
  <2>1. IInv /\ AdmitOK /\ [Next]_vars => AdmitOK'
    BY <1>3, AdmitStep DEF IInv
  <2>2. AdmitOK => OnlyAdmitted
    BY DEF AdmitOK, Admitted, OnlyAdmitted
  <2> QED
    BY Inductive, <1>1, <2>1, <2>2, PTL DEF Spec
<1> QED
  BY <1>2, <1>3

----------------------------------------------------------------------------
\* r has inserted the account and has yet to write its creation entry; a is such an entry.
Creating(r, e) == pc[r] = "audit_create" /\ req[r].email = e
Creation(a, e) == a \in audit /\ a.action = "create" /\ a.email = e

\* What is known of an account: whoever inserted it is about to record the creation or has
\* recorded it, there is only one such request or entry, and none for an account that was there.
AccountOK(e) ==
  LET made == \/ \E r \in Requests : Creating(r, e)
              \/ \E a \in audit : Creation(a, e) IN
  /\ users[e].status = "absent" => InitUsers[e].status = "absent"
  /\ made <=> users[e].status # "absent" /\ InitUsers[e].status = "absent"
  /\ made => DomainAllowed(e)
  /\ \A r, s \in Requests : Creating(r, e) /\ Creating(s, e) => r = s
  /\ \A a, b \in audit : Creation(a, e) /\ Creation(b, e) => a = b
  /\ \A r \in Requests, a \in audit : ~(Creating(r, e) /\ Creation(a, e))

\* A request inserts an account only on an allowed domain.
MayCreate(r) == pc[r] = "create_user" => DomainAllowed(req[r].email)

CreationOK == /\ \A e \in Emails : AccountOK(e)
              /\ \A r \in Requests : MayCreate(r)

\* A step that creates no account and records no creation.
Calm ==
  /\ \A e \in Emails : users'[e].status = "absent" <=> users[e].status = "absent"
  /\ \A a : a.action = "create" => (a \in audit' <=> a \in audit)
  /\ \A r \in Requests : /\ pc'[r] = "audit_create" <=> pc[r] = "audit_create"
                         /\ pc[r] = "audit_create" => req'[r] = req[r]
                         /\ pc'[r] = "create_user" => pc[r] = "create_user" /\ req'[r] = req[r]

\* Only three statements of start_login have to do with creation.
LEMMA MostStepsAreCalm ==
  TypeOK /\ [Next]_vars =>
    Calm \/ \E r \in Requests : FindEmail(r) \/ CreateUser(r) \/ RecordCreate(r)
<1> SUFFICES ASSUME TypeOK, [Next]_vars,
                    ~\E r \in Requests : FindEmail(r) \/ CreateUser(r) \/ RecordCreate(r)
             PROVE  Calm
  OBVIOUS
<1>1. ASSUME NEW r \in Requests, NEW b \in Browsers, NEW e \in Emails, BeginEmail(r, b, e)
      PROVE  Calm
  BY <1>1 DEF BeginEmail, Begin, tables, Goto, TypeOK, Calm
<1>2. ASSUME NEW r \in Requests, NEW b \in Browsers, NEW code \in {"right", "wrong"},
             BeginCode(r, b, code)
      PROVE  Calm
  BY <1>2 DEF BeginCode, Begin, tables, Goto, TypeOK, Calm
<1>3. ASSUME NEW r \in Requests, NEW b \in Browsers, NEW p \in Passwords \cup {"weak"},
             BeginPassword(r, b, p)
      PROVE  Calm
  BY <1>3 DEF BeginPassword, Begin, tables, Goto, TypeOK, Calm
<1>4. ASSUME NEW r \in Requests, NEW b \in Browsers, BeginLogout(r, b) PROVE Calm
  BY <1>4 DEF BeginLogout, Begin, tables, Goto, TypeOK, Calm
<1>5. ASSUME NEW r \in Requests, Cleanup(r) PROVE Calm
  BY <1>5 DEF Cleanup, At, Goto, TypeOK, Calm
<1>6. ASSUME NEW r \in Requests, FindEmail(r) PROVE Calm
  BY <1>6
<1>7. ASSUME NEW r \in Requests, CreateUser(r) PROVE Calm
  BY <1>7
<1>8. ASSUME NEW r \in Requests, RecordCreate(r) PROVE Calm
  BY <1>8
<1>9. ASSUME NEW r \in Requests, CreateLoginToken(r) PROVE Calm
  BY <1>9 DEF CreateLoginToken, At, Reply, TypeOK, Calm
<1>10. ASSUME NEW r \in Requests, LoadCodeToken(r) PROVE Calm
  BY <1>10 DEF LoadCodeToken, tables, At, Goto, Reply, TypeOK, Calm
<1>11. ASSUME NEW r \in Requests, LoadPasswordToken(r) PROVE Calm
  BY <1>11 DEF LoadPasswordToken, tables, At, Goto, Reply, TypeOK, Calm
<1>12. ASSUME NEW r \in Requests, LoadUser(r) PROVE Calm
  BY <1>12 DEF LoadUser, tables, At, Goto, Reply, TypeOK, Calm
<1>13. ASSUME NEW r \in Requests, SetPassword(r) PROVE Calm
  BY <1>13 DEF SetPassword, At, Goto, TypeOK, Calm
<1>14. ASSUME NEW r \in Requests, Bump(r) PROVE Calm
  BY <1>14 DEF Bump, At, Goto, Reply, TypeOK, Calm
<1>15. ASSUME NEW r \in Requests, Lock(r) PROVE Calm
  BY <1>15 DEF Lock, At, Reply, TypeOK, Calm
<1>16. ASSUME NEW r \in Requests, Consume(r) PROVE Calm
  BY <1>16 DEF Consume, At, Goto, TypeOK, Calm
<1>17. ASSUME NEW r \in Requests, CreateSession(r) PROVE Calm
  BY <1>17 DEF CreateSession, At, Goto, TypeOK, Calm
<1>18. ASSUME NEW r \in Requests, RecordLogin(r) PROVE Calm
  BY <1>18 DEF RecordLogin, At, Reply, Entry, TypeOK, Calm
<1>19. ASSUME NEW r \in Requests, LoadSession(r) PROVE Calm
  BY <1>19 DEF LoadSession, tables, At, Goto, TypeOK, Calm
<1>20. ASSUME NEW r \in Requests, DeleteSession(r) PROVE Calm
  BY <1>20 DEF DeleteSession, At, Goto, Reply, TypeOK, Calm
<1>21. ASSUME NEW r \in Requests, LoadLogoutUser(r) PROVE Calm
  BY <1>21 DEF LoadLogoutUser, tables, At, Goto, Reply, TypeOK, Calm
<1>22. ASSUME NEW r \in Requests, RecordLogout(r) PROVE Calm
  BY <1>22 DEF RecordLogout, At, Reply, Entry, TypeOK, Calm
<1>23. ASSUME NEW r \in Requests, Answer(r) PROVE Calm
  BY <1>23 DEF Answer, tables, At, Goto, TypeOK, Calm
<1>24. ASSUME NEW r \in Requests, Drop(r) PROVE Calm
  BY <1>24 DEF Drop, tables, TypeOK, Calm
<1>25. ASSUME NEW x \in Requests, ExpireToken(x) PROVE Calm
  BY <1>25 DEF ExpireToken, TypeOK, Calm
<1>26. ASSUME NEW x \in Requests, ExpireSession(x) PROVE Calm
  BY <1>26 DEF ExpireSession, TypeOK, Calm
<1>27. ASSUME NEW e \in Emails, NEW status \in StatusEdits, EditStatus(e, status) PROVE Calm
  BY <1>27, ConfigAssumption DEF EditStatus, TypeOK, Calm
<1>28. ASSUME NEW e \in Emails, NEW password \in PasswordEdits, EditPassword(e, password)
       PROVE  Calm
  BY <1>28 DEF EditPassword, TypeOK, Calm
<1>29. ASSUME UNCHANGED vars PROVE Calm
  BY <1>29 DEF vars, tables, TypeOK, Calm
<1> QED
  BY <1>1, <1>2, <1>3, <1>4, <1>5, <1>6, <1>7, <1>8, <1>9, <1>10, <1>11, <1>12, <1>13, <1>14,
     <1>15, <1>16, <1>17, <1>18, <1>19, <1>20, <1>21, <1>22, <1>23, <1>24, <1>25, <1>26,
     <1>27, <1>28, <1>29
     DEF Next, Arrive, Work, Outside, Quiet

\* An account is left as it is known by a step that changes neither its row's presence nor who
\* creates it.
LEMMA AccountStays ==
  ASSUME NEW e \in Emails, AccountOK(e),
         \A r \in Requests : Creating(r, e)' <=> Creating(r, e),
         \A a : Creation(a, e)' <=> Creation(a, e),
         users'[e].status = "absent" <=> users[e].status = "absent"
  PROVE  AccountOK(e)'
<1>1. \A a : /\ Creation(a, e) => a \in audit
             /\ Creation(a, e)' => a \in audit'
  BY DEF Creation
<1>2. (\E a \in audit' : Creation(a, e)') <=> \E a \in audit : Creation(a, e)
  BY <1>1
<1>3. (\E r \in Requests : Creating(r, e)') <=> \E r \in Requests : Creating(r, e)
  OBVIOUS
<1>4. \A a, b \in audit' : Creation(a, e)' /\ Creation(b, e)' => a = b
  BY <1>1 DEF AccountOK
<1>5. \A r \in Requests, a \in audit' : ~(Creating(r, e)' /\ Creation(a, e)')
  BY <1>1 DEF AccountOK
<1>6. \A r, s \in Requests : Creating(r, e)' /\ Creating(s, e)' => r = s
  BY DEF AccountOK
<1>7. DomainAllowed(e)' <=> DomainAllowed(e)
  BY DEF DomainAllowed
<1> QED
  BY <1>2, <1>3, <1>4, <1>5, <1>6, <1>7 DEF AccountOK

\* Every step keeps what is known of the accounts and their creation.
LEMMA CreationStep == (TypeOK /\ LocalsOK /\ CreationOK) /\ [Next]_vars => CreationOK'
<1> SUFFICES ASSUME TypeOK, LocalsOK, CreationOK, [Next]_vars PROVE CreationOK'
  OBVIOUS
<1>1. CASE Calm
  <2>1. ASSUME NEW e \in Emails PROVE AccountOK(e)'
    <3>1. \A r \in Requests : Creating(r, e)' <=> Creating(r, e)
      BY <1>1 DEF Calm, Creating
    <3>2. \A a : Creation(a, e)' <=> Creation(a, e)
      BY <1>1 DEF Calm, Creation
    <3>3. users'[e].status = "absent" <=> users[e].status = "absent"
      BY <1>1 DEF Calm
    <3> QED
      BY <3>1, <3>2, <3>3, AccountStays DEF CreationOK
  <2>2. ASSUME NEW r \in Requests PROVE MayCreate(r)'
    BY <1>1 DEF Calm, CreationOK, MayCreate
  <2> QED
    BY <2>1, <2>2 DEF CreationOK
<1>2. ASSUME NEW r \in Requests, FindEmail(r) PROVE CreationOK'
  <2>1. ASSUME NEW e \in Emails PROVE AccountOK(e)'
    <3>1. \A s \in Requests : Creating(s, e)' <=> Creating(s, e)
      BY <1>2 DEF FindEmail, TypeOK, At, Goto, Reply, Creating
    <3> QED
      BY <1>2, <3>1 DEF FindEmail, tables, CreationOK, AccountOK, Creation
  <2>2. ASSUME NEW s \in Requests PROVE MayCreate(s)'
    BY <1>2 DEF FindEmail, TypeOK, At, Goto, Reply, CreationOK, MayCreate
  <2> QED
    BY <2>1, <2>2 DEF CreationOK
<1>3. ASSUME NEW r \in Requests, CreateUser(r) PROVE CreationOK'
  <2>1. req[r].email \in Emails /\ DomainAllowed(req[r].email)
    BY <1>3 DEF CreateUser, At, LocalsOK, CreationOK, MayCreate
  <2>2. ASSUME NEW e \in Emails PROVE AccountOK(e)'
    <3>1. CASE users[req[r].email].status = "absent" /\ e = req[r].email
      <4>1. /\ \A s \in Requests : ~Creating(s, e)
            /\ \A a \in audit : ~Creation(a, e)
            /\ InitUsers[e].status = "absent"
        BY <3>1 DEF CreationOK, AccountOK
      <4>2. \A s \in Requests : Creating(s, e)' <=> s = r
        BY <1>3, <3>1, <4>1 DEF CreateUser, TypeOK, At, Goto, Creating
      <4>3. users'[e].status # "absent" /\ audit' = audit
        BY <1>3, <3>1 DEF CreateUser, TypeOK
      <4>4. \A a \in audit' : ~Creation(a, e)'
        BY <4>1, <4>3 DEF Creation
      <4> QED
        BY <2>1, <3>1, <4>1, <4>2, <4>3, <4>4 DEF AccountOK, DomainAllowed
    <3>2. CASE ~(users[req[r].email].status = "absent" /\ e = req[r].email)
      <4>1. \A s \in Requests : Creating(s, e)' <=> Creating(s, e)
        BY <1>3, <3>2 DEF CreateUser, TypeOK, At, Goto, Reply, Creating
      <4>2. users'[e] = users[e] /\ audit' = audit
        BY <1>3, <2>1, <3>2 DEF CreateUser, TypeOK
      <4> QED
        BY <4>1, <4>2 DEF CreationOK, AccountOK, Creation
    <3> QED
      BY <3>1, <3>2
  <2>3. ASSUME NEW s \in Requests PROVE MayCreate(s)'
    BY <1>3 DEF CreateUser, TypeOK, At, Goto, Reply, CreationOK, MayCreate
  <2> QED
    BY <2>2, <2>3 DEF CreationOK
<1>4. ASSUME NEW r \in Requests, RecordCreate(r) PROVE CreationOK'
  <2>1. ASSUME NEW e \in Emails PROVE AccountOK(e)'
    <3>1. CASE e = req[r].email
      <4>1. Creating(r, e)
        BY <1>4, <3>1 DEF RecordCreate, At, Creating
      <4>2. /\ \A s \in Requests : Creating(s, e) => s = r
            /\ \A a \in audit : ~Creation(a, e)
            /\ users[e].status # "absent" /\ InitUsers[e].status = "absent"
            /\ DomainAllowed(e)
        BY <4>1 DEF CreationOK, AccountOK
      <4>3. \A s \in Requests : ~Creating(s, e)'
        BY <1>4, <4>2 DEF RecordCreate, TypeOK, At, Goto, Creating
      <4>4. \A a : Creation(a, e)' <=> a = Entry("create", r)
        BY <1>4, <3>1, <4>2 DEF RecordCreate, Creation, Entry
      <4>5. Entry("create", r) \in audit' /\ users' = users
        BY <1>4 DEF RecordCreate
      <4> QED
        BY <4>2, <4>3, <4>4, <4>5 DEF AccountOK, DomainAllowed
    <3>2. CASE e # req[r].email
      <4>1. \A s \in Requests : Creating(s, e)' <=> Creating(s, e)
        BY <1>4, <3>2 DEF RecordCreate, TypeOK, At, Goto, Creating
      <4>2. \A a : Creation(a, e)' <=> Creation(a, e)
        BY <1>4, <3>2 DEF RecordCreate, Creation, Entry
      <4>3. users' = users
        BY <1>4 DEF RecordCreate
      <4> QED
        BY <4>1, <4>2, <4>3, AccountStays DEF CreationOK
    <3> QED
      BY <3>1, <3>2
  <2>2. ASSUME NEW s \in Requests PROVE MayCreate(s)'
    BY <1>4 DEF RecordCreate, TypeOK, At, Goto, CreationOK, MayCreate
  <2> QED
    BY <2>1, <2>2 DEF CreationOK
<1> QED
  BY <1>1, <1>2, <1>3, <1>4, MostStepsAreCalm

\* What is known of the accounts' creation is always known.
LEMMA Creations == Spec => []CreationOK
<1>1. Init => CreationOK
  BY ConfigAssumption DEF Init, CreationOK, AccountOK, MayCreate, Creating, Creation
<1>2. IInv /\ CreationOK /\ [Next]_vars => CreationOK'
  BY CreationStep DEF IInv
<1> QED
  BY Inductive, <1>1, <1>2, PTL DEF Spec

\* An account that an allowed address creates for itself is created by one request and recorded
\* once, however many first sign-ins race (start_login against the UNIQUE email).
THEOREM AccountsAreCreatedOnce == Spec => []CreatedOnce
<1>1. CreationOK => CreatedOnce
  BY DEF CreationOK, AccountOK, Creation, Creating, CreatedOnce
<1> QED
  BY Creations, <1>1, PTL

----------------------------------------------------------------------------
(* The refinement of SignIn. *)

\* What a lock relies on: the token it locks has reached the limit, if it is still live.
Counted(r) ==
  pc[r] = "lock" /\ Live(req[r].cookie) => tokens[req[r].cookie].attempts >= MaxAttempts

\* A token asks for a code only where the configuration does.
Asked(t) == tokens[t].coded => EmailConfirmation

\* A request of the email step carries no token and guesses nothing.
Plain(r) == req[r].kind = "email" => req[r].cookie = Nil /\ req[r].guess = Nil

\* A request of the code step guesses right or wrong.
Coded(r) == req[r].kind = "code" => req[r].guess \in {"right", "wrong"}

CountedOK == \A r \in Requests : Counted(r) /\ Asked(r) /\ Plain(r) /\ Coded(r)

\* A step brings no token to life but a new one, takes no attempt back, and leads to a lock only
\* from the attempt that reaches the limit.
Counts ==
  \A r \in Requests :
    /\ tokens'[r].state = "live" =>
         \/ pc[r] = "create_token"
         \/ tokens[r].state = "live" /\ tokens'[r].attempts >= tokens[r].attempts
    /\ tokens'[r].coded => tokens[r].coded \/ EmailConfirmation
    /\ pc'[r] = "lock" => /\ req'[r] = req[r]
                          /\ pc[r] = "lock" \/ Bump(r)
    /\ req'[r].kind = "email" => \/ req'[r].cookie = Nil /\ req'[r].guess = Nil
                                 \/ /\ req[r].kind = "email"
                                    /\ req'[r].cookie = req[r].cookie /\ req'[r].guess = req[r].guess
    /\ req'[r].kind = "code" => \/ req'[r].guess \in {"right", "wrong"}
                                \/ req[r].kind = "code" /\ req'[r].guess = req[r].guess

\* Every step counts so.
LEMMA EveryStepCounts == (TypeOK /\ LocalsOK /\ CookiesOK) /\ [Next]_vars => Counts
<1> SUFFICES ASSUME TypeOK, LocalsOK, CookiesOK, [Next]_vars PROVE Counts
  OBVIOUS
<1> USE DEF TokenRow, ReqRecord
<1>1. ASSUME NEW r \in Requests, NEW b \in Browsers, NEW e \in Emails, BeginEmail(r, b, e)
      PROVE  Counts
  BY <1>1 DEF BeginEmail, Begin, tables, Goto, TypeOK, Counts
<1>2. ASSUME NEW r \in Requests, NEW b \in Browsers, NEW code \in {"right", "wrong"},
             BeginCode(r, b, code)
      PROVE  Counts
  BY <1>2 DEF BeginCode, Begin, tables, Goto, TypeOK, Counts
<1>3. ASSUME NEW r \in Requests, NEW b \in Browsers, NEW p \in Passwords \cup {"weak"},
             BeginPassword(r, b, p)
      PROVE  Counts
  BY <1>3 DEF BeginPassword, Begin, tables, Goto, TypeOK, Counts
<1>4. ASSUME NEW r \in Requests, NEW b \in Browsers, BeginLogout(r, b) PROVE Counts
  BY <1>4 DEF BeginLogout, Begin, tables, Goto, TypeOK, Counts
<1>5. ASSUME NEW r \in Requests, Cleanup(r) PROVE Counts
  BY <1>5 DEF Cleanup, At, Goto, NoToken, TypeOK, Counts
<1>6. ASSUME NEW r \in Requests, FindEmail(r) PROVE Counts
  BY <1>6 DEF FindEmail, tables, At, Goto, Reply, TypeOK, Counts
<1>7. ASSUME NEW r \in Requests, CreateUser(r) PROVE Counts
  BY <1>7 DEF CreateUser, At, Goto, Reply, TypeOK, Counts
<1>8. ASSUME NEW r \in Requests, RecordCreate(r) PROVE Counts
  BY <1>8 DEF RecordCreate, At, Goto, TypeOK, Counts
<1>9. ASSUME NEW r \in Requests, CreateLoginToken(r) PROVE Counts
  BY <1>9 DEF CreateLoginToken, At, Reply, TypeOK, Counts
<1>10. ASSUME NEW r \in Requests, LoadCodeToken(r) PROVE Counts
  BY <1>10 DEF LoadCodeToken, tables, At, Goto, Reply, TypeOK, Counts
<1>11. ASSUME NEW r \in Requests, LoadPasswordToken(r) PROVE Counts
  BY <1>11 DEF LoadPasswordToken, tables, At, Goto, Reply, TypeOK, Counts
<1>12. ASSUME NEW r \in Requests, LoadUser(r) PROVE Counts
  BY <1>12 DEF LoadUser, tables, At, Goto, Reply, TypeOK, Counts
<1>13. ASSUME NEW r \in Requests, SetPassword(r) PROVE Counts
  BY <1>13 DEF SetPassword, At, Goto, TypeOK, Counts
<1>14. ASSUME NEW r \in Requests, Bump(r) PROVE Counts
  <2>1. req' = req
    BY <1>14 DEF Bump
  <2>2. \A q \in Requests : pc'[q] = "lock" => pc[q] = "lock" \/ q = r
    BY <1>14 DEF Bump, At, Goto, Reply, TypeOK
  <2>3. \A q \in Requests :
          /\ tokens'[q].state = tokens[q].state /\ tokens'[q].coded = tokens[q].coded
          /\ tokens'[q].attempts >= tokens[q].attempts
    BY <1>14 DEF Bump, TypeOK
  <2> QED
    BY <1>14, <2>1, <2>2, <2>3 DEF Counts
<1>15. ASSUME NEW r \in Requests, Lock(r) PROVE Counts
  BY <1>15 DEF Lock, At, Reply, ConsumeToken, TypeOK, Counts
<1>16. ASSUME NEW r \in Requests, Consume(r) PROVE Counts
  BY <1>16 DEF Consume, At, Goto, ConsumeToken, TypeOK, Counts
<1>17. ASSUME NEW r \in Requests, CreateSession(r) PROVE Counts
  BY <1>17 DEF CreateSession, At, Goto, TypeOK, Counts
<1>18. ASSUME NEW r \in Requests, RecordLogin(r) PROVE Counts
  BY <1>18 DEF RecordLogin, At, Reply, TypeOK, Counts
<1>19. ASSUME NEW r \in Requests, LoadSession(r) PROVE Counts
  BY <1>19 DEF LoadSession, tables, At, Goto, TypeOK, Counts
<1>20. ASSUME NEW r \in Requests, DeleteSession(r) PROVE Counts
  BY <1>20 DEF DeleteSession, At, Goto, Reply, TypeOK, Counts
<1>21. ASSUME NEW r \in Requests, LoadLogoutUser(r) PROVE Counts
  BY <1>21 DEF LoadLogoutUser, tables, At, Goto, Reply, TypeOK, Counts
<1>22. ASSUME NEW r \in Requests, RecordLogout(r) PROVE Counts
  BY <1>22 DEF RecordLogout, At, Reply, TypeOK, Counts
<1>23. ASSUME NEW r \in Requests, Answer(r) PROVE Counts
  BY <1>23 DEF Answer, tables, At, Goto, TypeOK, Counts
<1>24. ASSUME NEW r \in Requests, Drop(r) PROVE Counts
  BY <1>24 DEF Drop, tables, TypeOK, Counts
<1>25. ASSUME NEW x \in Requests, ExpireToken(x) PROVE Counts
  BY <1>25 DEF ExpireToken, TypeOK, Counts
<1>26. ASSUME NEW x \in Requests, ExpireSession(x) PROVE Counts
  BY <1>26 DEF ExpireSession, TypeOK, Counts
<1>27. ASSUME NEW e \in Emails, NEW status \in StatusEdits, EditStatus(e, status) PROVE Counts
  BY <1>27, ConfigAssumption DEF EditStatus, TypeOK, Counts
<1>28. ASSUME NEW e \in Emails, NEW password \in PasswordEdits, EditPassword(e, password)
       PROVE  Counts
  BY <1>28 DEF EditPassword, TypeOK, Counts
<1>29. ASSUME UNCHANGED vars PROVE Counts
  BY <1>29 DEF vars, tables, TypeOK, Counts
<1> QED
  BY <1>1, <1>2, <1>3, <1>4, <1>5, <1>6, <1>7, <1>8, <1>9, <1>10, <1>11, <1>12, <1>13, <1>14,
     <1>15, <1>16, <1>17, <1>18, <1>19, <1>20, <1>21, <1>22, <1>23, <1>24, <1>25, <1>26,
     <1>27, <1>28, <1>29
     DEF Next, Arrive, Work, Outside, Quiet

\* Every step keeps what a lock relies on.
LEMMA CountedStep ==
  (TypeOK /\ LocalsOK /\ CookiesOK /\ CountedOK) /\ [Next]_vars => CountedOK'
<1> SUFFICES ASSUME TypeOK, LocalsOK, CookiesOK, CountedOK, [Next]_vars, NEW r \in Requests
             PROVE  Counted(r)' /\ Asked(r)' /\ Plain(r)' /\ Coded(r)'
  BY DEF CountedOK
<1>1. Counts
  BY EveryStepCounts
<1>2. Asked(r)' /\ Plain(r)' /\ Coded(r)'
  BY <1>1 DEF Counts, CountedOK, Asked, Plain, Coded
<1>3. CASE pc'[r] = "lock" /\ pc[r] = "lock"
  <2>1. req[r].cookie \in Requests /\ pc[req[r].cookie] = "done" /\ req'[r] = req[r]
    BY <1>1, <1>3, NilAssumption DEF Counts, LocalsOK, CookiesOK
  <2>2. MaxAttempts \in Nat /\ tokens[req[r].cookie].attempts \in Nat
    BY <2>1, ConfigAssumption DEF TypeOK, TokenRow
  <2>3. Live(req[r].cookie)' =>
          /\ Live(req[r].cookie)
          /\ tokens'[req[r].cookie].attempts >= tokens[req[r].cookie].attempts
    BY <1>1, <2>1 DEF Counts, Live
  <2>4. Live(req[r].cookie)' => tokens'[req[r].cookie].attempts \in Nat
    BY <2>1, TypeStep DEF TypeOK, TokenRow
  <2> QED
    BY <1>2, <1>3, <2>1, <2>2, <2>3, <2>4 DEF CountedOK, Counted, Live
<1>4. CASE Bump(r) /\ pc'[r] = "lock"
  <2>1. req[r].cookie \in Requests
    BY <1>4 DEF Bump, At, LocalsOK
  <2>2. /\ tokens' = [tokens EXCEPT ![req[r].cookie].attempts = tokens[req[r].cookie].attempts + 1]
        /\ tokens[req[r].cookie].attempts + 1 >= MaxAttempts /\ req' = req
    BY <1>4 DEF Bump, At, Goto, Reply, TypeOK
  <2>3. tokens'[req[r].cookie].attempts = tokens[req[r].cookie].attempts + 1
    BY <2>1, <2>2 DEF TypeOK, TokenRow
  <2> QED
    BY <1>2, <2>2, <2>3 DEF Counted
<1> QED
  BY <1>1, <1>2, <1>3, <1>4 DEF Counts, Counted

\* The variables of SignIn, and its steps under the refinement.
Rights == [r \in Requests |-> RightOf(r)]
Tickets == [t \in Requests |-> TicketOf(t)]
Stutters == UNCHANGED <<users, Tickets, sessions, Rights>>
Moves(r) == Rights'[r] # Rights[r] /\ Promise!Move(r)
Happens == UNCHANGED Rights /\ Promise!Happen

Held(r, step) == [step |-> step, email |-> req[r].email, ticket |-> req[r].cookie,
                  guess |-> req[r].guess]

\* The right of a request by where it stands.
RightIs(r) ==
  /\ pc[r] \in Unearned \/ req[r].kind = "logout" => RightOf(r) = Promise!Bare("none")
  /\ req[r].kind # "logout" =>
       /\ pc[r] \in Earned => RightOf(r) = Held(r, req[r].kind)
       /\ pc[r] = "get_user" => RightOf(r) = Held(r, "open")
       /\ pc[r] = "set_password" => RightOf(r) = Held(r, "fresh")
       /\ pc[r] = "bump" => RightOf(r) = Held(r, "wrong")
       /\ pc[r] \in {"lock", "audit_login", "answer", "done"} => RightOf(r) = Promise!Bare("over")

\* Every request stands at one of these places, before and after a step.
LEMMA RightsRead ==
  ASSUME NEW r \in Requests, LocalsOK, LocalsOK', TypeOK, TypeOK'
  PROVE  RightIs(r) /\ RightIs(r)'
<1>1. RightIs(r)
  BY DEF RightIs, RightOf, Stage, Unearned, Earned, Held, Promise!Bare, LocalsOK, TypeOK, ReqRecord
<1>2. RightIs(r)'
  BY DEF RightIs, RightOf, Stage, Unearned, Earned, Held, Promise!Bare, LocalsOK, TypeOK, ReqRecord
<1> QED
  BY <1>1, <1>2

\* A step that leaves the locals of all others alone gives or takes only one right.
LEMMA OneRight ==
  ASSUME NEW r \in Requests,
         \A q \in Requests \ {r} : pc'[q] = pc[q] /\ req'[q] = req[q]
  PROVE  Rights' = [Rights EXCEPT ![r] = RightOf(r)']
<1>1. ASSUME NEW q \in Requests \ {r} PROVE RightOf(q)' = RightOf(q)
  BY DEF RightOf, Stage
<1> QED
  BY <1>1 DEF Rights

\* What start_login's reads and inserts earn (find_user_by_email, create_user).
LEMMA EmailSteps ==
  ASSUME NEW r \in Requests, LocalsOK, LocalsOK', TypeOK, TypeOK', CountedOK, MayCreate(r),
         FindEmail(r) \/ CreateUser(r)
  PROVE  Moves(r) \/ Stutters
<1> DEFINE e == req[r].email
<1>1. /\ \A q \in Requests \ {r} : pc'[q] = pc[q]
      /\ req' = req /\ tokens' = tokens /\ sessions' = sessions
      /\ req[r].kind = "email" /\ e \in Emails /\ pc[r] \in {"find_email", "create_user"}
  BY DEF FindEmail, CreateUser, At, Goto, Reply, tables, LocalsOK, TypeOK
<1>2. Rights' = [Rights EXCEPT ![r] = RightOf(r)'] /\ Tickets' = Tickets
  BY <1>1, OneRight DEF Tickets, TicketOf
<1>3. Rights[r] = Promise!Bare("none") /\ Rights[r].step = "none"
  BY <1>1, RightsRead DEF Rights, RightIs, Unearned, Promise!Bare
<1>4. [Promise!Bare("email") EXCEPT !.email = e] = Held(r, "email")
  BY <1>1 DEF CountedOK, Plain, Held, Promise!Bare
<1>5. CASE FindEmail(r) /\ pc'[r] = "create_token"
  <2>1. users[e].status = "active" /\ users' = users
    BY <1>1, <1>5 DEF FindEmail, Goto, Reply, tables, TypeOK
  <2>2. RightOf(r)' = Held(r, "email")
    BY <1>1, <1>5, RightsRead DEF RightIs, Earned, Held
  <2>3. Promise!Admit(r, e)
    BY <1>1, <1>2, <1>4, <2>1, <2>2 DEF Promise!Admit, Promise!Earns, Rights, Tickets
  <2> QED
    BY <1>1, <1>2, <1>3, <2>2, <2>3
       DEF Moves, Promise!Move, Promise!Has, Rights, Held
<1>6. CASE FindEmail(r) /\ pc'[r] = "create_user"
  <2>1. users' = users
    BY <1>6 DEF FindEmail, tables
  <2>2. RightOf(r)' = Promise!Bare("none")
    BY <1>6, RightsRead DEF RightIs, Unearned, Promise!Bare
  <2>3. Rights' = Rights
    BY <1>2, <1>3, <2>2 DEF Rights
  <2> QED
    BY <1>1, <1>2, <2>1, <2>3 DEF Stutters
<1>7. CASE CreateUser(r) /\ pc'[r] = "audit_create"
  <2>1. /\ users[e].status = "absent" /\ e \in AllowedEmails
        /\ users' = [users EXCEPT ![e] = [status |-> "active", password |-> Nil]]
    BY <1>1, <1>7 DEF CreateUser, At, Goto, Reply, TypeOK, MayCreate, DomainAllowed
  <2>2. RightOf(r)' = Held(r, "email")
    BY <1>1, <1>7, RightsRead DEF RightIs, Earned, Held
  <2>3. Promise!Join(r, e)
    BY <1>1, <1>2, <1>4, <2>1, <2>2 DEF Promise!Join, Promise!Earns, Rights, Tickets
  <2> QED
    BY <1>1, <1>2, <1>3, <2>2, <2>3
       DEF Moves, Promise!Move, Promise!Has, Rights, Held
<1>8. CASE pc'[r] = "answer"
  <2>1. users' = users
    BY <1>8 DEF FindEmail, CreateUser, At, Goto, Reply, tables, TypeOK
  <2>2. RightOf(r)' = Promise!Bare("over")
    BY <1>1, <1>8, RightsRead DEF RightIs, Promise!Bare
  <2>3. Promise!Refuse(r)
    BY <1>1, <1>2, <2>1, <2>2
       DEF Promise!Refuse, Promise!Ends, Promise!Earns, Rights, Tickets, Promise!Bare
  <2> QED
    BY <1>2, <1>3, <2>2, <2>3
       DEF Moves, Promise!Move, Promise!Has, Rights, Promise!Bare
<1>9. \/ FindEmail(r) /\ pc'[r] \in {"create_token", "create_user"}
      \/ CreateUser(r) /\ pc'[r] = "audit_create"
      \/ pc'[r] = "answer"
  BY DEF FindEmail, CreateUser, At, Goto, Reply, TypeOK
<1> QED
  BY <1>5, <1>6, <1>7, <1>8, <1>9

\* A step that writes the state of one token.
LEMMA OneTicket ==
  ASSUME TypeOK, NEW t \in Requests, NEW state, tokens' = [tokens EXCEPT ![t].state = state]
  PROVE  Tickets' = [Tickets EXCEPT ![t].state = state]
<1>1. \A q \in Requests \ {t} : TicketOf(q)' = TicketOf(q)
  BY DEF TicketOf, TypeOK
<1>2. TicketOf(t)' = [TicketOf(t) EXCEPT !.state = state]
  BY DEF TicketOf, TypeOK, TokenRow
<1> QED
  BY <1>1, <1>2 DEF Tickets

\* What the reads of a step token earn (get_login_token in verify_code and complete_login).
LEMMA TokenReads ==
  ASSUME NEW r \in Requests, LocalsOK, LocalsOK', TypeOK, TypeOK', CountedOK,
         LoadCodeToken(r) \/ LoadPasswordToken(r)
  PROVE  Moves(r) \/ Stutters
<1> DEFINE t == req[r].cookie
<1>1. /\ \A q \in Requests \ {r} : pc'[q] = pc[q] /\ req'[q] = req[q]
      /\ users' = users /\ tokens' = tokens /\ sessions' = sessions
      /\ pc[r] \in {"code_token", "password_token"} /\ t \in Requests
  BY DEF LoadCodeToken, LoadPasswordToken, At, Goto, Reply, tables, LocalsOK, TypeOK
<1>2. Rights' = [Rights EXCEPT ![r] = RightOf(r)'] /\ Tickets' = Tickets
  BY <1>1, OneRight DEF Tickets, TicketOf
<1>3. Rights[r] = Promise!Bare("none") /\ Rights[r].step = "none"
  BY <1>1, RightsRead DEF Rights, RightIs, Unearned, Promise!Bare
<1>4. CASE pc'[r] = "answer"
  <2>1. req' = req /\ req[r].kind # "logout"
    BY <1>1, <1>4 DEF LoadCodeToken, LoadPasswordToken, At, Goto, Reply, TypeOK, LocalsOK
  <2>2. RightOf(r)' = Promise!Bare("over")
    BY <1>4, <2>1, RightsRead DEF RightIs, Promise!Bare
  <2>3. Promise!Refuse(r)
    BY <1>1, <1>2, <2>2
       DEF Promise!Refuse, Promise!Ends, Promise!Earns, Rights, Tickets, Promise!Bare
  <2> QED
    BY <1>2, <1>3, <2>2, <2>3
       DEF Moves, Promise!Move, Promise!Has, Rights, Promise!Bare
<1>5. CASE LoadCodeToken(r) /\ pc'[r] # "answer"
  <2> DEFINE guess == req[r].guess
             step == IF guess = "right" THEN "code" ELSE "wrong"
  <2>1. /\ Live(t) /\ tokens[t].purpose = "email_ok" /\ tokens[t].coded
        /\ req' = [req EXCEPT ![r].email = tokens[t].email]
        /\ pc'[r] = IF guess = "right" THEN "consume" ELSE "bump"
        /\ req[r].kind = "code"
    BY <1>5 DEF LoadCodeToken, At, Goto, Reply, TypeOK, LocalsOK
  <2>2. /\ req'[r].kind = "code" /\ req'[r].email = tokens[t].email
        /\ req'[r].cookie = t /\ req'[r].guess = guess
    BY <2>1 DEF TypeOK, ReqRecord
  <2>3. RightOf(r)' = [step |-> step, email |-> tokens[t].email, ticket |-> t, guess |-> guess]
    BY <2>1, <2>2, RightsRead DEF RightIs, Earned, Held
  <2>4. EmailConfirmation /\ Tickets[t].state = "live" /\ Tickets[t].step = "email"
    BY <1>1, <2>1 DEF CountedOK, Asked, Live, Tickets, TicketOf
  <2>5. Tickets[t].email = tokens[t].email
    BY <1>1 DEF Tickets, TicketOf
  <2>6. Promise!GuessCode(r, t, guess)
    BY <1>1, <1>2, <2>3, <2>4, <2>5
       DEF Promise!GuessCode, Promise!Live, Promise!Earns, Rights, Tickets
  <2>7. guess \in {"right", "wrong"}
    BY <1>5, <2>1 DEF CountedOK, Coded
  <2>8. Rights'[r] # Rights[r]
    BY <1>2, <1>3, <2>3 DEF Rights
  <2> QED
    BY <1>1, <1>3, <2>6, <2>7, <2>8 DEF Moves, Promise!Move, Promise!Has, Rights
<1>6. CASE LoadPasswordToken(r) /\ pc'[r] # "answer"
  <2> DEFINE guess == req[r].guess
  <2>1. /\ Live(t) /\ tokens[t].purpose = ExpectedPurpose
        /\ req' = [req EXCEPT ![r].email = tokens[t].email]
        /\ pc'[r] = "get_user"
        /\ req[r].kind = "password" /\ guess \in Passwords \cup {"weak"}
    BY <1>6 DEF LoadPasswordToken, At, Goto, Reply, TypeOK, LocalsOK
  <2>2. /\ req'[r].kind = "password" /\ req'[r].email = tokens[t].email
        /\ req'[r].cookie = t /\ req'[r].guess = guess
    BY <2>1 DEF TypeOK, ReqRecord
  <2>3. RightOf(r)' = [step |-> "open", email |-> tokens[t].email, ticket |-> t, guess |-> guess]
    BY <2>1, <2>2, RightsRead DEF RightIs, Held
  <2>4. Tickets[t].state = "live" /\ Tickets[t].step = Promise!LastStep
    BY <1>1, <2>1 DEF ExpectedPurpose, Promise!LastStep, Live, Tickets, TicketOf
  <2>5. Tickets[t].email = tokens[t].email
    BY <1>1 DEF Tickets, TicketOf
  <2>6. Promise!Open(r, t, guess)
    BY <1>1, <1>2, <2>3, <2>4, <2>5
       DEF Promise!Open, Promise!Live, Promise!Earns, Rights, Tickets
  <2>7. Rights'[r] # Rights[r]
    BY <1>2, <1>3, <2>3 DEF Rights
  <2> QED
    BY <1>1, <1>3, <2>1, <2>6, <2>7 DEF Moves, Promise!Move, Promise!Has, Rights
<1> QED
  BY <1>4, <1>5, <1>6

\* A request whose right only takes another step turns to it.
LEMMA Turned ==
  ASSUME NEW r \in Requests, NEW step, NEW next,
         Rights[r] = Held(r, step), Rights' = [Rights EXCEPT ![r] = Held(r, next)]
  PROVE  Promise!Turns(r, next)
<1>1. [Held(r, step) EXCEPT !.step = next] = Held(r, next)
  BY DEF Held
<1>2. [Rights EXCEPT ![r].step = next] = [Rights EXCEPT ![r] = Held(r, next)]
  BY <1>1
<1> QED
  BY <1>2 DEF Promise!Turns, Rights

\* What the password is judged on (get_user in complete_login).
LEMMA Judgement ==
  ASSUME NEW r \in Requests, LocalsOK, LocalsOK', TypeOK, TypeOK', LoadUser(r)
  PROVE  Moves(r) \/ Stutters
<1> DEFINE kept == users[req[r].email].password
<1>1. /\ \A q \in Requests \ {r} : pc'[q] = pc[q]
      /\ req' = req /\ users' = users /\ tokens' = tokens /\ sessions' = sessions
      /\ pc[r] = "get_user" /\ req[r].kind = "password"
      /\ req[r].guess \in Passwords \cup {"weak"} /\ "weak" \notin Passwords /\ Nil \notin Passwords
  BY NilAssumption DEF LoadUser, At, Goto, Reply, tables, LocalsOK, TypeOK
<1>2. Rights' = [Rights EXCEPT ![r] = RightOf(r)'] /\ Tickets' = Tickets
  BY <1>1, OneRight DEF Tickets, TicketOf
<1>3. Rights[r] = Held(r, "open") /\ RightOf(r) = Held(r, "open")
  BY <1>1, RightsRead DEF Rights, RightIs
<1>4. \/ kept # Nil /\ req[r].guess = kept /\ pc'[r] = "consume"
      \/ kept # Nil /\ req[r].guess # kept /\ pc'[r] = "bump"
      \/ kept = Nil /\ req[r].guess \in Passwords /\ pc'[r] = "set_password"
      \/ kept = Nil /\ req[r].guess \notin Passwords /\ pc'[r] = "answer"
  BY <1>1 DEF LoadUser, Goto, Reply, TypeOK
<1>5. /\ pc'[r] = "consume" => RightOf(r)' = Held(r, "password")
      /\ pc'[r] = "bump" => RightOf(r)' = Held(r, "wrong")
      /\ pc'[r] = "set_password" => RightOf(r)' = Held(r, "fresh")
      /\ pc'[r] = "answer" => RightOf(r)' = Promise!Bare("over")
  BY <1>1, RightsRead DEF RightIs, Earned, Held
<1>6. ASSUME NEW step, RightOf(r)' = Held(r, step) PROVE Promise!Turns(r, step)
  BY <1>2, <1>3, <1>6, Turned
<1>7. Promise!GuessPassword(r)
  <2>1. /\ Rights[r].step = "open" /\ Rights[r].email = req[r].email
        /\ Rights[r].guess = req[r].guess
    BY <1>3 DEF Held
  <2>2. UNCHANGED <<users, Tickets, sessions>>
    BY <1>1, <1>2
  <2>3. /\ pc'[r] = "consume" => Promise!Turns(r, "password")
        /\ pc'[r] = "bump" => Promise!Turns(r, "wrong")
        /\ pc'[r] = "set_password" => Promise!Turns(r, "fresh")
    BY <1>5, <1>6
  <2>4. pc'[r] = "answer" => Promise!Ends(r)
    BY <1>2, <1>5 DEF Promise!Ends, Promise!Earns, Rights
  <2> QED
    BY <1>4, <2>1, <2>2, <2>3, <2>4 DEF Promise!GuessPassword, Promise!Has, Rights, Tickets
<1>8. Rights'[r] # Rights[r]
  BY <1>2, <1>3, <1>4, <1>5 DEF Rights, Held, Promise!Bare
<1> QED
  BY <1>7, <1>8 DEF Moves, Promise!Move

\* A fresh account is given the password of the request that looked (set_password).
LEMMA Choice ==
  ASSUME NEW r \in Requests, LocalsOK, LocalsOK', TypeOK, TypeOK', SetPassword(r)
  PROVE  Moves(r)
<1>1. /\ \A q \in Requests \ {r} : pc'[q] = pc[q]
      /\ req' = req /\ tokens' = tokens /\ sessions' = sessions
      /\ pc[r] = "set_password" /\ req[r].kind = "password" /\ pc'[r] = "consume"
      /\ users' = [users EXCEPT ![req[r].email].password = req[r].guess]
  BY DEF SetPassword, At, Goto, LocalsOK, TypeOK
<1>2. Rights' = [Rights EXCEPT ![r] = RightOf(r)'] /\ Tickets' = Tickets
  BY <1>1, OneRight DEF Tickets, TicketOf
<1>3. Rights[r] = Held(r, "fresh") /\ RightOf(r)' = Held(r, "password")
  BY <1>1, RightsRead DEF Rights, RightIs, Earned, Held
<1>4. Promise!Turns(r, "password")
  BY <1>2, <1>3, Turned
<1>5. /\ Rights[r].step = "fresh" /\ Rights[r].email = req[r].email
      /\ Rights[r].guess = req[r].guess
  BY <1>3 DEF Held
<1>6. Promise!Choose(r)
  BY <1>1, <1>2, <1>4, <1>5 DEF Promise!Choose, Promise!Has, Rights, Tickets
<1>7. Rights'[r] # Rights[r]
  BY <1>2, <1>3 DEF Rights, Held
<1> QED
  BY <1>6, <1>7 DEF Moves, Promise!Move

\* A wrong guess is counted against a token that is live (bump_login_token_attempts).
LEMMA Missed ==
  ASSUME NEW r \in Requests, LocalsOK, LocalsOK', TypeOK, TypeOK', Bump(r)
  PROVE  Moves(r)
<1> DEFINE t == req[r].cookie
<1>1. /\ \A q \in Requests \ {r} : pc'[q] = pc[q]
      /\ req' = req /\ users' = users /\ sessions' = sessions
      /\ pc[r] = "bump" /\ req[r].kind # "logout" /\ pc'[r] \in {"lock", "answer"} /\ t \in Requests
      /\ tokens' = IF Live(t) THEN [tokens EXCEPT ![t].attempts = tokens[t].attempts + 1] ELSE tokens
  BY DEF Bump, At, Goto, Reply, LocalsOK, TypeOK
<1>2. Rights' = [Rights EXCEPT ![r] = RightOf(r)']
  BY <1>1, OneRight
<1>3. Rights[r] = Held(r, "wrong") /\ RightOf(r)' = Promise!Bare("over")
  BY <1>1, RightsRead DEF Rights, RightIs
<1>4. Rights[r].step = "wrong" /\ Rights[r].ticket = t
  BY <1>3 DEF Held
<1>5. Tickets' = IF Live(t) THEN [Tickets EXCEPT ![t].misses = Tickets[t].misses + 1] ELSE Tickets
  <2>1. \A q \in Requests \ {t} : TicketOf(q)' = TicketOf(q)
    BY <1>1 DEF TicketOf, TypeOK
  <2>2. CASE Live(t)
    <3>1. TicketOf(t)' = [TicketOf(t) EXCEPT !.misses = tokens[t].attempts + 1]
      BY <1>1, <2>2 DEF TicketOf, TypeOK, TokenRow
    <3>2. Tickets' = [Tickets EXCEPT ![t] = TicketOf(t)']
      BY <1>1, <2>1 DEF Tickets
    <3>3. Tickets[t] = TicketOf(t) /\ Tickets[t].misses = tokens[t].attempts
      BY <1>1 DEF Tickets, TicketOf
    <3> QED
      BY <2>2, <3>1, <3>2, <3>3
  <2>3. CASE ~Live(t)
    BY <1>1, <2>3 DEF Tickets, TicketOf
  <2> QED
    BY <2>2, <2>3
<1>6. Promise!Live(t) <=> Live(t)
  BY <1>1 DEF Promise!Live, Live, TicketOf
<1>7. Promise!Miss(r)
  BY <1>1, <1>2, <1>3, <1>4, <1>5, <1>6
     DEF Promise!Miss, Promise!Has, Promise!Ends, Promise!Earns, Rights, Tickets
<1>8. Rights'[r] # Rights[r]
  BY <1>2, <1>3 DEF Rights, Held, Promise!Bare
<1> QED
  BY <1>7, <1>8 DEF Moves, Promise!Move

\* A step token is minted for who may have one (create_login_token).
LEMMA TicketGiven ==
  ASSUME NEW r \in Requests, LocalsOK, LocalsOK', TypeOK, TypeOK', TokensOK, SpentOK,
         CreateLoginToken(r)
  PROVE  Moves(r)
<1>1. /\ \A q \in Requests \ {r} : pc'[q] = pc[q]
      /\ req' = req /\ users' = users /\ sessions' = sessions
      /\ pc[r] = "create_token" /\ req[r].kind \in {"email", "code"} /\ pc'[r] = "answer"
      /\ tokens[r].state = "none"
  BY DEF CreateLoginToken, At, Reply, LocalsOK, TypeOK, TokensOK
<1>2. Rights' = [Rights EXCEPT ![r] = RightOf(r)']
  BY <1>1, OneRight
<1>3. Rights[r] = Held(r, req[r].kind) /\ RightOf(r)' = Promise!Bare("over")
  BY <1>1, RightsRead DEF Rights, RightIs, Earned
<1>4. /\ Rights[r].step = req[r].kind /\ Rights[r].ticket = req[r].cookie
      /\ Rights[r].email = req[r].email
  BY <1>3 DEF Held
<1>5. req[r].kind = "code" => ~Promise!Live(req[r].cookie)
  BY <1>1 DEF SpentOK, Spent, Exchanged, Live, Promise!Live, TicketOf
<1>6. Tickets' = [Tickets EXCEPT ![r] = [state |-> "live", email |-> req[r].email,
                                         step |-> req[r].kind, misses |-> 0]]
  <2>1. tokens'[r].state = "live" /\ tokens'[r].email = req[r].email /\ tokens'[r].attempts = 0
        /\ tokens'[r].purpose = IF req[r].kind = "email" THEN "email_ok" ELSE "code_ok"
    BY DEF CreateLoginToken, TypeOK
  <2>2. \A q \in Requests \ {r} : TicketOf(q)' = TicketOf(q)
    BY DEF CreateLoginToken, TypeOK, TicketOf
  <2>3. TicketOf(r)' = [state |-> "live", email |-> req[r].email,
                        step |-> req[r].kind, misses |-> 0]
    BY <1>1, <2>1 DEF TicketOf
  <2> QED
    BY <2>2, <2>3 DEF Tickets
<1>7. Tickets[r].state = "none"
  BY <1>1 DEF Tickets, TicketOf
<1>8. Promise!GiveTicket(r)
  BY <1>1, <1>2, <1>3, <1>4, <1>5, <1>6, <1>7
     DEF Promise!GiveTicket, Promise!Has, Promise!Ends, Promise!Earns, Rights, Tickets
<1>9. Rights'[r] # Rights[r]
  BY <1>1, <1>2, <1>3 DEF Rights, Held, Promise!Bare
<1> QED
  BY <1>8, <1>9 DEF Moves, Promise!Move

\* A session is opened for who has given the password and spent the ticket (create_session).
LEMMA SessionGiven ==
  ASSUME NEW r \in Requests, LocalsOK, LocalsOK', TypeOK, TypeOK', ChainOK, SpentOK,
         CreateSession(r)
  PROVE  Moves(r)
<1>1. /\ \A q \in Requests \ {r} : pc'[q] = pc[q]
      /\ req' = req /\ users' = users /\ tokens' = tokens
      /\ pc[r] = "create_session" /\ req[r].kind = "password" /\ pc'[r] = "audit_login"
      /\ sessions[r].state = "none"
      /\ sessions' = [sessions EXCEPT ![r] = [state |-> "live", email |-> req[r].email]]
  BY DEF CreateSession, At, Goto, LocalsOK, TypeOK, ChainOK, ChainOf
<1>2. Rights' = [Rights EXCEPT ![r] = RightOf(r)'] /\ Tickets' = Tickets
  BY <1>1, OneRight DEF Tickets, TicketOf
<1>3. Rights[r] = Held(r, "password") /\ RightOf(r)' = Promise!Bare("over")
  BY <1>1, RightsRead DEF Rights, RightIs, Earned
<1>4. /\ Rights[r].step = "password" /\ Rights[r].ticket = req[r].cookie
      /\ Rights[r].email = req[r].email
  BY <1>3 DEF Held
<1>5. ~Promise!Live(req[r].cookie)
  BY <1>1 DEF SpentOK, Spent, Exchanged, Live, Promise!Live, TicketOf
<1>6. Promise!GiveSession(r)
  BY <1>1, <1>2, <1>3, <1>4, <1>5
     DEF Promise!GiveSession, Promise!Has, Promise!Ends, Promise!Earns, Rights, Tickets
<1>7. Rights'[r] # Rights[r]
  BY <1>2, <1>3 DEF Rights, Held, Promise!Bare
<1> QED
  BY <1>6, <1>7 DEF Moves, Promise!Move

\* A token is spent by who has given what it asks for, or by the lock (consume_login_token).
LEMMA TokenSpent ==
  ASSUME NEW r \in Requests, LocalsOK, LocalsOK', TypeOK, TypeOK', CountedOK, Lock(r) \/ Consume(r)
  PROVE  Happens \/ Stutters
<1> DEFINE t == req[r].cookie
<1>1. /\ \A q \in Requests \ {r} : pc'[q] = pc[q]
      /\ req' = req /\ users' = users /\ sessions' = sessions
      /\ req[r].kind \in {"code", "password"} /\ t \in Requests
      /\ tokens' = IF Live(t) THEN [tokens EXCEPT ![t].state = "used"] ELSE tokens
  BY DEF Lock, Consume, At, Goto, Reply, ConsumeToken, LocalsOK, TypeOK
<1>2. RightOf(r)' = RightOf(r)
  <2>1. CASE Lock(r)
    <3>1. pc[r] = "lock" /\ pc'[r] = "answer"
      BY <2>1 DEF Lock, At, Reply, TypeOK
    <3> QED
      BY <1>1, <3>1, RightsRead DEF RightIs, Promise!Bare
  <2>2. CASE Consume(r)
    <3>1. pc[r] = "consume" /\ pc'[r] \in {"create_token", "create_session"}
      BY <2>2 DEF Consume, At, Goto, TypeOK
    <3> QED
      BY <1>1, <3>1, RightsRead DEF RightIs, Earned, Held
  <2> QED
    BY <2>1, <2>2
<1>3. Rights' = Rights
  BY <1>1, <1>2, OneRight DEF Rights
<1>4. CASE ~Live(t)
  BY <1>1, <1>3, <1>4 DEF Stutters, Tickets, TicketOf
<1>5. CASE Live(t)
  <2>1. Tickets' = [Tickets EXCEPT ![t].state = "used"]
    BY <1>1, <1>5, OneTicket
  <2>2. Promise!Live(t) /\ Promise!Becomes(t, "used")
    BY <1>1, <1>5, <2>1 DEF Live, Promise!Live, Promise!Becomes, Tickets, TicketOf
  <2>3. CASE Lock(r)
    <3>1. Tickets[t].misses >= MaxAttempts
      BY <1>1, <1>5, <2>3 DEF Lock, At, CountedOK, Counted, Tickets, TicketOf
    <3>2. Promise!Lock(t)
      BY <1>1, <1>3, <2>2, <3>1 DEF Promise!Lock, Rights, Tickets
    <3> QED
      BY <1>1, <1>3, <3>2 DEF Happens, Promise!Happen
  <2>4. CASE Consume(r)
    <3>1. Rights[r] = Held(r, req[r].kind)
      BY <1>1, <2>4, RightsRead DEF Consume, At, RightIs, Rights, Earned
    <3>2. Rights[r].step \in {"code", "password"} /\ Rights[r].ticket = t
      BY <1>1, <3>1 DEF Held
    <3>3. Promise!Spend(r)
      BY <1>1, <1>3, <2>2, <3>2 DEF Promise!Spend, Promise!Has, Rights
    <3> QED
      BY <1>3, <3>3 DEF Happens, Promise!Happen
  <2> QED
    BY <2>3, <2>4
<1> QED
  BY <1>4, <1>5

\* The statements that earn nothing and are owed to nobody: arrivals, audit entries, answers.
LEMMA NothingEarned ==
  ASSUME NEW r \in Requests, LocalsOK, LocalsOK', TypeOK, TypeOK',
         \/ \E b \in Browsers :
              \/ \E e \in Emails : BeginEmail(r, b, e)
              \/ \E code \in {"right", "wrong"} : BeginCode(r, b, code)
              \/ \E password \in Passwords \cup {"weak"} : BeginPassword(r, b, password)
              \/ BeginLogout(r, b)
         \/ RecordCreate(r) \/ RecordLogin(r) \/ LoadSession(r) \/ LoadLogoutUser(r)
         \/ RecordLogout(r) \/ Answer(r) \/ Drop(r)
  PROVE  Stutters
<1>1. /\ \A q \in Requests \ {r} : pc'[q] = pc[q] /\ req'[q] = req[q]
      /\ users' = users /\ tokens' = tokens /\ sessions' = sessions
  BY DEF BeginEmail, BeginCode, BeginPassword, BeginLogout, Begin, RecordCreate, RecordLogin,
         LoadSession, LoadLogoutUser, RecordLogout, Answer, Drop, At, Goto, Reply, tables, TypeOK
<1>2. RightOf(r)' = RightOf(r)
  <2>1. CASE pc[r] = "idle"
    <3>1. pc'[r] \in Unearned \/ req'[r].kind = "logout"
      BY <2>1 DEF BeginEmail, BeginCode, BeginPassword, BeginLogout, Begin, RecordCreate, RecordLogin,
         LoadSession, LoadLogoutUser, RecordLogout, Answer, Drop, At, Goto, Reply, TypeOK, Unearned
    <3> QED
      BY <2>1, <3>1, RightsRead DEF RightIs, Unearned
  <2>2. CASE pc[r] # "idle" /\ req[r].kind = "logout"
    <3>1. req'[r].kind = "logout"
      BY <2>2 DEF BeginEmail, BeginCode, BeginPassword, BeginLogout, Begin, RecordCreate, RecordLogin,
         LoadSession, LoadLogoutUser, RecordLogout, Answer, Drop, TypeOK, ReqRecord
    <3> QED
      BY <2>2, <3>1, RightsRead DEF RightIs
  <2>3. CASE pc[r] # "idle" /\ req[r].kind # "logout"
    <3>1. RecordCreate(r) \/ RecordLogin(r) \/ Answer(r) \/ Drop(r)
      BY <2>3 DEF BeginEmail, BeginCode, BeginPassword, BeginLogout, Begin, LoadSession,
         LoadLogoutUser, RecordLogout, At, LocalsOK
    <3>2. /\ req' = req
          /\ \/ pc[r] = "audit_create" /\ pc'[r] = "create_token"
             \/ pc[r] \in {"audit_login", "answer"} /\ pc'[r] \in {"answer", "done"}
             \/ pc'[r] = pc[r]
      BY <3>1 DEF RecordCreate, RecordLogin, Answer, Drop, At, Goto, Reply, TypeOK
    <3>3. CASE pc'[r] = pc[r]
      BY <3>2, <3>3 DEF RightOf, Stage
    <3>4. CASE pc[r] = "audit_create" /\ pc'[r] = "create_token"
      BY <2>3, <3>2, <3>4, RightsRead DEF RightIs, Earned, Held
    <3>5. CASE pc[r] \in {"audit_login", "answer"} /\ pc'[r] \in {"answer", "done"}
      BY <2>3, <3>2, <3>5, RightsRead DEF RightIs, Promise!Bare
    <3> QED
      BY <3>2, <3>3, <3>4, <3>5
  <2> QED
    BY <2>1, <2>2, <2>3
<1>3. Rights' = Rights
  BY <1>1, <1>2, OneRight DEF Rights
<1> QED
  BY <1>1, <1>3 DEF Stutters, Tickets, TicketOf

\* What happens to tokens, sessions and accounts while the rights stay as they are.
LEMMA TableSteps ==
  ASSUME LocalsOK, LocalsOK', TypeOK, TypeOK',
         \/ \E r \in Requests : Cleanup(r) \/ DeleteSession(r)
         \/ Outside
  PROVE  Happens \/ Stutters
<1>1. ASSUME NEW r \in Requests, Cleanup(r) PROVE Happens \/ Stutters
  <2>1. /\ \A q \in Requests \ {r} : pc'[q] = pc[q]
        /\ req' = req /\ users' = users /\ sessions' = sessions
        /\ pc[r] = "cleanup" /\ pc'[r] = "find_email"
    BY <1>1 DEF Cleanup, At, Goto, TypeOK
  <2>2. Rights' = Rights
    BY <2>1, OneRight, RightsRead DEF Rights, RightIs, Unearned
  <2>3. CASE tokens' = tokens
    BY <2>1, <2>2, <2>3 DEF Stutters, Tickets, TicketOf
  <2>4. CASE tokens' = [t \in Requests |-> IF tokens[t].state = "expired" THEN NoToken
                                                                          ELSE tokens[t]]
    <3>1. \A t \in Requests :
            TicketOf(t)' = IF TicketOf(t).state = "expired" THEN Promise!NoTicket ELSE TicketOf(t)
      BY <2>4 DEF TicketOf, NoToken, Promise!NoTicket
    <3>2. Promise!Sweep
      BY <2>1, <2>2, <3>1 DEF Promise!Sweep, Tickets, Rights
    <3> QED
      BY <2>2, <3>2 DEF Happens, Promise!Happen
  <2> QED
    BY <1>1, <2>3, <2>4 DEF Cleanup
<1>2. ASSUME NEW r \in Requests, DeleteSession(r) PROVE Happens \/ Stutters
  <2>1. /\ \A q \in Requests \ {r} : pc'[q] = pc[q]
        /\ req' = req /\ users' = users /\ tokens' = tokens
        /\ req[r].kind = "logout" /\ req[r].cookie \in Requests
        /\ sessions' \in {sessions, [sessions EXCEPT ![req[r].cookie] = NoSession]}
    BY <1>2 DEF DeleteSession, At, Goto, Reply, TypeOK, LocalsOK
  <2>2. Rights' = Rights /\ Tickets' = Tickets
    <3>1. RightOf(r)' = RightOf(r)
      BY <2>1, RightsRead DEF RightIs
    <3>2. Rights' = Rights
      BY <2>1, <3>1, OneRight DEF Rights
    <3> QED
      BY <2>1, <3>2 DEF Tickets, TicketOf
  <2>3. CASE sessions' = sessions
    BY <2>1, <2>2, <2>3 DEF Stutters
  <2>4. CASE sessions' = [sessions EXCEPT ![req[r].cookie] = NoSession]
    <3>1. Promise!SignOut(req[r].cookie)
      BY <2>1, <2>2, <2>4 DEF Promise!SignOut, Promise!NoSession, NoSession, Rights, Tickets
    <3> QED
      BY <2>1, <2>2, <3>1 DEF Happens, Promise!Happen
  <2> QED
    BY <2>1, <2>3, <2>4
<1>3. ASSUME Outside PROVE UNCHANGED Rights
  BY <1>3 DEF Outside, ExpireToken, ExpireSession, EditStatus, EditPassword, Rights, RightOf, Stage
<1>4. ASSUME NEW t \in Requests, ExpireToken(t), UNCHANGED Rights PROVE Happens
  <2>1. Tickets' = [Tickets EXCEPT ![t].state = "expired"]
    BY <1>4, OneTicket DEF ExpireToken
  <2>2. Promise!ExpireTicket(t)
    BY <1>4, <2>1 DEF ExpireToken, Promise!ExpireTicket, Promise!Becomes, Tickets, TicketOf, Rights
  <2> QED
    BY <1>4, <2>2 DEF Happens, Promise!Happen
<1>5. ASSUME NEW s \in Requests, ExpireSession(s), UNCHANGED Rights PROVE Happens
  <2>1. Promise!ExpireSession(s)
    BY <1>5 DEF ExpireSession, Promise!ExpireSession, TicketOf, Rights
  <2> QED
    BY <1>5, <2>1 DEF Happens, Promise!Happen
<1>6. ASSUME NEW e \in Emails, UNCHANGED Rights,
             \/ \E status \in StatusEdits : EditStatus(e, status)
             \/ \E password \in PasswordEdits : EditPassword(e, password)
      PROVE  Happens
  <2>1. Promise!Administer(e)
    BY <1>6 DEF EditStatus, EditPassword, Promise!Administer, TicketOf, Rights
  <2> QED
    BY <1>6, <2>1 DEF Happens, Promise!Happen
<1> QED
  BY <1>1, <1>2, <1>3, <1>4, <1>5, <1>6 DEF Outside

\* Every step of a handler or outside the flow is a step of SignIn, or none of its business.
LEMMA StepsMap ==
  ASSUME IInv, IInv', CountedOK, CreationOK, [Next]_vars
  PROVE  [Promise!Next]_<<users, [t \in Requests |-> TicketOf(t)], sessions,
                          [r \in Requests |-> RightOf(r)]>>
<1> USE DEF IInv
<1>1. ASSUME NEW r \in Requests, Arrive(r) PROVE Stutters
  BY <1>1, NothingEarned DEF Arrive
<1>2. ASSUME NEW r \in Requests, Work(r) PROVE Moves(r) \/ Happens \/ Stutters
  <2>1. CASE FindEmail(r) \/ CreateUser(r)
    BY <2>1, EmailSteps DEF CreationOK
  <2>2. CASE LoadCodeToken(r) \/ LoadPasswordToken(r) \/ LoadUser(r)
    BY <2>2, TokenReads, Judgement
  <2>3. CASE SetPassword(r) \/ Bump(r) \/ CreateLoginToken(r) \/ CreateSession(r)
    BY <2>3, Choice, Missed, TicketGiven, SessionGiven
  <2>4. CASE Lock(r) \/ Consume(r)
    BY <2>4, TokenSpent
  <2>5. CASE Cleanup(r) \/ DeleteSession(r)
    BY <2>5, TableSteps
  <2>6. CASE \/ RecordCreate(r) \/ RecordLogin(r) \/ LoadSession(r) \/ LoadLogoutUser(r)
             \/ RecordLogout(r) \/ Answer(r)
    BY <2>6, NothingEarned
  <2> QED
    BY <1>2, <2>1, <2>2, <2>3, <2>4, <2>5, <2>6 DEF Work
<1>3. ASSUME NEW r \in Requests, Drop(r) PROVE Stutters
  BY <1>3, NothingEarned
<1>4. ASSUME Outside PROVE Happens \/ Stutters
  BY <1>4, TableSteps
<1>5. ASSUME UNCHANGED vars PROVE Stutters
  BY <1>5 DEF vars, Stutters, Tickets, TicketOf, Rights, RightOf, Stage
<1>6. (\E r \in Requests : Moves(r)) \/ Happens \/ Stutters
  BY <1>1, <1>2, <1>3, <1>4, <1>5 DEF Next, Quiet
<1> QED
  BY <1>6 DEF Moves, Happens, Stutters, Promise!Next, Rights, Tickets

\* The handlers implement SignIn: whatever the statements of concurrent requests, expiry, the
\* sweep, lost requests and the administrator do to one another, each request earns one right by
\* what it saw and cashes it in once, for a ticket that is spent by then.
THEOREM SignInImplemented == Spec => ImplementsSignIn
<1>1. Init => CountedOK /\ Promise!Init
  <2>1. ASSUME Init PROVE CountedOK
    BY <2>1 DEF Init, CountedOK, Counted, Asked, Plain, Coded, NoToken, NoRequest
  <2>2. ASSUME Init PROVE Promise!Init
    BY <2>2 DEF Init, Promise!Init, Promise!NoTicket, Promise!NoSession, Promise!Bare, NoToken,
       NoSession, TicketOf, RightOf, Stage, Unearned
  <2> QED
    BY <2>1, <2>2
<1>2. IInv /\ CountedOK /\ [Next]_vars => CountedOK'
  BY CountedStep DEF IInv
<1>3. /\ IInv /\ IInv' /\ CountedOK /\ CreationOK /\ [Next]_vars
      => [Promise!Next]_<<users, [t \in Requests |-> TicketOf(t)], sessions,
                          [r \in Requests |-> RightOf(r)]>>
  BY StepsMap
<1> QED
  BY <1>1, <1>2, <1>3, Inductive, Creations, PTL DEF Spec, ImplementsSignIn, Promise!Spec
=============================================================================
