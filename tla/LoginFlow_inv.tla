-------------------------- MODULE LoginFlow_inv --------------------------
(***************************************************************************)
(* The inductive invariant of LoginFlow and its proof, for every value of  *)
(* the constants: any number of requests, browsers and accounts, both      *)
(* configurations, any attempt limit, any administrator.                   *)
(*                                                                         *)
(* IInv ties three things together: what a handler holds in its locals at  *)
(* each await (LocalsOK, CookiesOK), which request minted a token row      *)
(* (TokensOK), and through which steps a token or a session was reached    *)
(* (ChainOK), down to the tokens that were spent on the way (SpentOK).     *)
(* LoginFlow_proofs derives the properties from it.                        *)
(***************************************************************************)
EXTENDS LoginFlow, TLAPS

----------------------------------------------------------------------------
(* The inductive invariant. *)

\* The awaits after the token row has told a handler which account it works for.
PastRead == {"get_user", "set_password", "bump", "lock", "consume", "create_token",
             "create_session", "audit_login", "logout_user", "audit_logout"}

\* What the locals of a handler are at each await.
LocalsOK ==
  \A r \in Requests :
    /\ pc[r] = "idle" =>
         req[r] = NoRequest /\ tokens[r].state = "none" /\ sessions[r].state = "none"
    /\ pc[r] # "idle" => req[r].browser \in Browsers /\ req[r].kind # "none"
    /\ pc[r] \in {"cleanup", "find_email", "create_user", "audit_create"} => req[r].kind = "email"
    /\ pc[r] = "code_token" => req[r].kind = "code"
    /\ pc[r] \in {"password_token", "get_user", "set_password", "create_session", "audit_login"}
         => req[r].kind = "password"
    /\ pc[r] \in {"bump", "lock", "consume"} => req[r].kind \in {"code", "password"}
    /\ pc[r] = "create_token" => req[r].kind \in {"email", "code"}
    /\ pc[r] \in {"get_session", "delete_session", "logout_user", "audit_logout"}
         => req[r].kind = "logout"
    /\ req[r].kind \in {"code", "password", "logout"} => req[r].cookie \in Requests
    /\ req[r].kind = "email" \/ pc[r] \in PastRead => req[r].email \in Emails
    /\ pc[r] \in {"code_token", "password_token"} => req[r].email = Nil
    /\ req[r].kind = "password" => req[r].guess \in Passwords \cup {"weak"}
    /\ pc[r] \in {"set_password", "create_session"} => req[r].guess \in Passwords
    /\ pc[r] = "consume" /\ req[r].kind = "password" => req[r].guess \in Passwords
    /\ pc[r] \in {"consume", "create_token"} /\ req[r].kind = "code" => req[r].guess = "right"
    /\ result[r] # "none" => pc[r] \in {"answer", "done"}

\* A cookie names a request that has been answered.
CookiesOK ==
  /\ \A b \in Browsers :
       /\ jar[b].step # Nil => pc[jar[b].step] = "done"
       /\ jar[b].session # Nil => pc[jar[b].session] = "done"
  /\ \A r \in Requests : req[r].cookie # Nil => pc[req[r].cookie] = "done"

\* A token row is the row its minting request wrote.
TokensOK ==
  \A t \in Requests : tokens[t].state # "none" =>
    /\ pc[t] \in {"answer", "done"}
    /\ req[t].kind \in {"email", "code"}
    /\ tokens[t].email = req[t].email /\ tokens[t].email \in Emails
    /\ tokens[t].purpose = IF req[t].kind = "email" THEN "email_ok" ELSE "code_ok"

\* t was minted by the email step for account e.
EmailStep(t, e) == t \in Requests /\ req[t].kind = "email" /\ req[t].email = e

\* The steps behind a request, a token and a session.
ChainOf(r) ==
  /\ req[r].kind = "code" /\ pc[r] \in PastRead => EmailStep(req[r].cookie, req[r].email)
  /\ req[r].kind = "code" /\ tokens[r].state # "none" =>
       req[r].guess = "right" /\ EmailStep(req[r].cookie, req[r].email)
  /\ req[r].kind = "password" /\ pc[r] \in PastRead => StepFor(req[r].cookie, req[r].email)
  /\ sessions[r].state # "none" =>
       /\ pc[r] \in {"audit_login", "answer", "done"}
       /\ req[r].kind = "password" /\ req[r].guess \in Passwords
       /\ sessions[r].email = req[r].email /\ sessions[r].email \in Emails
       /\ StepFor(req[r].cookie, req[r].email)

ChainOK == \A r \in Requests : ChainOf(r)

\* A step that takes nothing away from the chain behind q.
Undisturbed(q) ==
  /\ req'[q] = req[q]
  /\ req[q].kind \in {"code", "password"} /\ pc'[q] \in PastRead => pc[q] \in PastRead
  /\ tokens'[q].state # "none" => tokens[q].state # "none"
  /\ sessions'[q].state # "none" =>
       /\ sessions[q].state # "none" /\ sessions'[q].email = sessions[q].email
       /\ pc'[q] \in {"audit_login", "answer", "done"}

\* The request has consumed the token it came with, or has told its client so.
Exchanged(r) ==
  \/ pc[r] \in {"create_session", "audit_login"}
  \/ pc[r] = "create_token" /\ req[r].kind = "code"
  \/ result[r] \in {"code_locked", "signed_in"}
  \/ result[r] = "step" /\ req[r].kind = "code"

\* An exchanged token is dead.
Spent(r) == Exchanged(r) => req[r].cookie \in Requests /\ ~Live(req[r].cookie)

SpentOK == \A r \in Requests : Spent(r)

\* The locals of a request that carries an account of the email or code step stay as they are.
ReqFrame ==
  \A t \in Requests :
    req[t].kind \in {"email", "code"} /\ req[t].email \in Emails => req'[t] = req[t]

IInv == TypeOK /\ LocalsOK /\ CookiesOK /\ TokensOK /\ ChainOK /\ SpentOK

\* The rows the tables start with have the types of rows.
LEMMA RowTypes == NoToken \in TokenRow /\ NoSession \in SessionRow /\ NoRequest \in ReqRecord
  BY DEF NoToken, TokenRow, NoSession, SessionRow, NoRequest, ReqRecord

\* Every step keeps the types of the columns and locals.
LEMMA TypeStep == (TypeOK /\ LocalsOK) /\ [Next]_vars => TypeOK'
<1> SUFFICES ASSUME TypeOK, LocalsOK, [Next]_vars PROVE TypeOK'
  OBVIOUS
<1>1. ASSUME NEW r \in Requests, NEW b \in Browsers, NEW e \in Emails, BeginEmail(r, b, e)
      PROVE  TypeOK'
  BY <1>1 DEF BeginEmail, Begin, Goto, TypeOK, tables, PcLabels, ReqRecord
<1>2. ASSUME NEW r \in Requests, NEW b \in Browsers, NEW code \in {"right", "wrong"},
             BeginCode(r, b, code)
      PROVE  TypeOK'
  BY <1>2 DEF BeginCode, Begin, Goto, TypeOK, tables, PcLabels, ReqRecord, JarRow
<1>3. ASSUME NEW r \in Requests, NEW b \in Browsers, NEW p \in Passwords \cup {"weak"},
             BeginPassword(r, b, p)
      PROVE  TypeOK'
  BY <1>3 DEF BeginPassword, Begin, Goto, TypeOK, tables, PcLabels, ReqRecord, JarRow
<1>4. ASSUME NEW r \in Requests, NEW b \in Browsers, BeginLogout(r, b) PROVE TypeOK'
  BY <1>4 DEF BeginLogout, Begin, Goto, TypeOK, tables, PcLabels, ReqRecord, JarRow
<1>5. ASSUME NEW r \in Requests, Cleanup(r) PROVE TypeOK'
  BY <1>5, RowTypes DEF Cleanup, TypeOK, Goto, PcLabels
<1>6. ASSUME NEW r \in Requests, FindEmail(r) PROVE TypeOK'
  BY <1>6 DEF FindEmail, TypeOK, tables, Goto, Reply, PcLabels, Results
<1>7. ASSUME NEW r \in Requests, CreateUser(r) PROVE TypeOK'
  <2>1. req[r].email \in Emails
    BY <1>7 DEF CreateUser, LocalsOK, At
  <2> QED
    BY <1>7, <2>1 DEF CreateUser, TypeOK, Goto, Reply, PcLabels, Results, UserRow, Statuses
<1>8. ASSUME NEW r \in Requests, RecordCreate(r) PROVE TypeOK'
  <2>1. req[r].email \in Emails
    BY <1>8 DEF RecordCreate, LocalsOK, At
  <2> QED
    BY <1>8, <2>1 DEF RecordCreate, TypeOK, Goto, PcLabels, Entry, AuditRow
<1>9. ASSUME NEW r \in Requests, CreateLoginToken(r) PROVE TypeOK'
  <2>1. req[r].email \in Emails
    BY <1>9 DEF CreateLoginToken, LocalsOK, At, PastRead
  <2>2. EmailConfirmation \in BOOLEAN
    BY ConfigAssumption
  <2> QED
    BY <1>9, <2>1, <2>2 DEF CreateLoginToken, TypeOK, Reply, PcLabels, Results, TokenRow
<1>10. ASSUME NEW r \in Requests, LoadCodeToken(r) PROVE TypeOK'
  <2>1. req[r].cookie \in Requests
    BY <1>10 DEF LoadCodeToken, LocalsOK, At
  <2>2. tokens[req[r].cookie].email \in Emails \cup {Nil}
    BY <2>1 DEF TypeOK, TokenRow
  <2>3. [req EXCEPT ![r].email = tokens[req[r].cookie].email] \in [Requests -> ReqRecord]
    BY <2>2 DEF TypeOK, ReqRecord
  <2>4. req' \in [Requests -> ReqRecord]
    BY <1>10, <2>3 DEF LoadCodeToken, TypeOK
  <2> QED
    BY <1>10, <2>1, <2>2, <2>3, <2>4 DEF LoadCodeToken, TypeOK, tables, Goto, Reply, PcLabels,
       Results
<1>11. ASSUME NEW r \in Requests, LoadPasswordToken(r) PROVE TypeOK'
  <2>1. req[r].cookie \in Requests
    BY <1>11 DEF LoadPasswordToken, LocalsOK, At
  <2>2. tokens[req[r].cookie].email \in Emails \cup {Nil}
    BY <2>1 DEF TypeOK, TokenRow
  <2>3. [req EXCEPT ![r].email = tokens[req[r].cookie].email] \in [Requests -> ReqRecord]
    BY <2>2 DEF TypeOK, ReqRecord
  <2>4. req' \in [Requests -> ReqRecord]
    BY <1>11, <2>3 DEF LoadPasswordToken, TypeOK
  <2> QED
    BY <1>11, <2>1, <2>2, <2>3, <2>4 DEF LoadPasswordToken, TypeOK, tables, Goto, Reply,
       PcLabels, Results
<1>12. ASSUME NEW r \in Requests, LoadUser(r) PROVE TypeOK'
  BY <1>12 DEF LoadUser, TypeOK, tables, Goto, Reply, PcLabels, Results
<1>13. ASSUME NEW r \in Requests, SetPassword(r) PROVE TypeOK'
  <2>1. req[r].email \in Emails
    BY <1>13 DEF SetPassword, LocalsOK, At, PastRead
  <2>2. req[r].guess \in Passwords
    BY <1>13 DEF SetPassword, LocalsOK, At
  <2> QED
    BY <1>13, <2>1, <2>2 DEF SetPassword, TypeOK, Goto, PcLabels, UserRow
<1>14. ASSUME NEW r \in Requests, Bump(r) PROVE TypeOK'
  <2>1. req[r].cookie \in Requests
    BY <1>14 DEF Bump, LocalsOK, At
  <2>2. tokens[req[r].cookie].attempts + 1 \in Nat
    BY <2>1 DEF TypeOK, TokenRow
  <2>3. [tokens EXCEPT ![req[r].cookie].attempts = tokens[req[r].cookie].attempts + 1]
          \in [Requests -> TokenRow]
    BY <2>1, <2>2 DEF TypeOK, TokenRow
  <2> QED
    BY <1>14, <2>1, <2>2, <2>3 DEF Bump, TypeOK, Goto, Reply, PcLabels, Results
<1>15. ASSUME NEW r \in Requests, Lock(r) PROVE TypeOK'
  <2>1. req[r].cookie \in Requests
    BY <1>15 DEF Lock, LocalsOK, At
  <2>2. [tokens EXCEPT ![req[r].cookie].state = "used"] \in [Requests -> TokenRow]
    BY <2>1 DEF TypeOK, TokenRow
  <2> QED
    BY <1>15, <2>1, <2>2 DEF Lock, TypeOK, Reply, PcLabels, Results, ConsumeToken
<1>16. ASSUME NEW r \in Requests, Consume(r) PROVE TypeOK'
  <2>1. req[r].cookie \in Requests
    BY <1>16 DEF Consume, LocalsOK, At
  <2>2. [tokens EXCEPT ![req[r].cookie].state = "used"] \in [Requests -> TokenRow]
    BY <2>1 DEF TypeOK, TokenRow
  <2> QED
    BY <1>16, <2>1, <2>2 DEF Consume, TypeOK, Goto, PcLabels, ConsumeToken
<1>17. ASSUME NEW r \in Requests, CreateSession(r) PROVE TypeOK'
  <2>1. req[r].email \in Emails
    BY <1>17 DEF CreateSession, LocalsOK, At, PastRead
  <2> QED
    BY <1>17, <2>1 DEF CreateSession, TypeOK, Goto, PcLabels, SessionRow
<1>18. ASSUME NEW r \in Requests, RecordLogin(r) PROVE TypeOK'
  <2>1. req[r].email \in Emails
    BY <1>18 DEF RecordLogin, LocalsOK, At, PastRead
  <2> QED
    BY <1>18, <2>1 DEF RecordLogin, TypeOK, Reply, PcLabels, Results, Entry, AuditRow
<1>19. ASSUME NEW r \in Requests, LoadSession(r) PROVE TypeOK'
  <2>1. req[r].cookie \in Requests
    BY <1>19 DEF LoadSession, LocalsOK, At
  <2>2. sessions[req[r].cookie].email \in Emails \cup {Nil}
    BY <2>1 DEF TypeOK, SessionRow
  <2>3. [req EXCEPT ![r].email = sessions[req[r].cookie].email] \in [Requests -> ReqRecord]
    BY <2>2 DEF TypeOK, ReqRecord
  <2> QED
    BY <1>19, <2>1, <2>2, <2>3 DEF LoadSession, TypeOK, tables, Goto, PcLabels
<1>20. ASSUME NEW r \in Requests, DeleteSession(r) PROVE TypeOK'
  <2>1. req[r].cookie \in Requests
    BY <1>20 DEF DeleteSession, LocalsOK, At
  <2> QED
    BY <1>20, <2>1, RowTypes DEF DeleteSession, TypeOK, Goto, Reply, PcLabels, Results
<1>21. ASSUME NEW r \in Requests, LoadLogoutUser(r) PROVE TypeOK'
  BY <1>21 DEF LoadLogoutUser, TypeOK, tables, Goto, Reply, PcLabels, Results
<1>22. ASSUME NEW r \in Requests, RecordLogout(r) PROVE TypeOK'
  <2>1. req[r].email \in Emails
    BY <1>22 DEF RecordLogout, LocalsOK, At, PastRead
  <2> QED
    BY <1>22, <2>1 DEF RecordLogout, TypeOK, Reply, PcLabels, Results, Entry, AuditRow
<1>23. ASSUME NEW r \in Requests, Answer(r) PROVE TypeOK'
  <2>1. req[r].browser \in Browsers
    BY <1>23 DEF Answer, LocalsOK, At
  <2>2. StepCookie(r, jar[req[r].browser].step) \in Requests \cup {Nil}
    BY <2>1 DEF StepCookie, TypeOK, JarRow
  <2>3. SessionCookie(r, jar[req[r].browser].session) \in Requests \cup {Nil}
    BY <2>1 DEF SessionCookie, TypeOK, JarRow
  <2> QED
    BY <1>23, <2>1, <2>2, <2>3 DEF Answer, TypeOK, tables, Goto, PcLabels, JarRow
<1>24. ASSUME NEW r \in Requests, Drop(r) PROVE TypeOK'
  BY <1>24 DEF Drop, TypeOK, tables
<1>25. ASSUME NEW x \in Requests, ExpireToken(x) PROVE TypeOK'
  BY <1>25 DEF ExpireToken, TypeOK, TokenRow
<1>26. ASSUME NEW x \in Requests, ExpireSession(x) PROVE TypeOK'
  BY <1>26 DEF ExpireSession, TypeOK, SessionRow
<1>27. ASSUME NEW e \in Emails, NEW status \in StatusEdits, EditStatus(e, status) PROVE TypeOK'
  BY <1>27, ConfigAssumption DEF EditStatus, TypeOK, UserRow, Statuses
<1>28. ASSUME NEW e \in Emails, NEW password \in PasswordEdits, EditPassword(e, password)
       PROVE  TypeOK'
  BY <1>28, ConfigAssumption DEF EditPassword, TypeOK, UserRow
<1>29. ASSUME UNCHANGED vars PROVE TypeOK'
  BY <1>29 DEF vars, TypeOK
<1> QED
  BY <1>1, <1>2, <1>3, <1>4, <1>5, <1>6, <1>7, <1>8, <1>9, <1>10, <1>11, <1>12, <1>13, <1>14,
     <1>15, <1>16, <1>17, <1>18, <1>19, <1>20, <1>21, <1>22, <1>23, <1>24, <1>25, <1>26,
     <1>27, <1>28, <1>29
     DEF Next, Arrive, Work, Outside, Quiet

\* Every step keeps what the handlers hold at their awaits: a handler reaches an await only
\* through the statements of its own kind.
LEMMA LocalsStep == (TypeOK /\ LocalsOK /\ CookiesOK /\ TokensOK) /\ [Next]_vars => LocalsOK'
<1> SUFFICES ASSUME TypeOK, LocalsOK, CookiesOK, TokensOK, [Next]_vars PROVE LocalsOK'
  OBVIOUS
<1>1. ASSUME NEW r \in Requests, NEW b \in Browsers, NEW e \in Emails, BeginEmail(r, b, e)
      PROVE  LocalsOK'
  BY <1>1, NilAssumption DEF BeginEmail, Begin, Goto, TypeOK, tables, LocalsOK
<1>2. ASSUME NEW r \in Requests, NEW b \in Browsers, NEW code \in {"right", "wrong"},
             BeginCode(r, b, code)
      PROVE  LocalsOK'
  <2>1. jar[b].step \in Requests
    BY <1>2 DEF BeginCode, TypeOK, JarRow
  <2> QED
    BY <1>2, <2>1, NilAssumption DEF BeginCode, Begin, Goto, TypeOK, tables, LocalsOK, PastRead
<1>3. ASSUME NEW r \in Requests, NEW b \in Browsers, NEW p \in Passwords \cup {"weak"},
             BeginPassword(r, b, p)
      PROVE  LocalsOK'
  <2>1. jar[b].step \in Requests
    BY <1>3 DEF BeginPassword, TypeOK, JarRow
  <2> QED
    BY <1>3, <2>1, NilAssumption DEF BeginPassword, Begin, Goto, TypeOK, tables, LocalsOK,
       PastRead
<1>4. ASSUME NEW r \in Requests, NEW b \in Browsers, BeginLogout(r, b) PROVE LocalsOK'
  <2>1. jar[b].session \in Requests
    BY <1>4 DEF BeginLogout, TypeOK, JarRow
  <2> QED
    BY <1>4, <2>1, NilAssumption DEF BeginLogout, Begin, Goto, TypeOK, tables, LocalsOK,
       PastRead
<1>5. ASSUME NEW r \in Requests, Cleanup(r) PROVE LocalsOK'
  BY <1>5 DEF Cleanup, At, Goto, LocalsOK
<1>6. ASSUME NEW r \in Requests, FindEmail(r) PROVE LocalsOK'
  BY <1>6 DEF FindEmail, TypeOK, tables, At, Goto, Reply, LocalsOK
<1>7. ASSUME NEW r \in Requests, CreateUser(r) PROVE LocalsOK'
  BY <1>7 DEF CreateUser, TypeOK, At, Goto, Reply, LocalsOK
<1>8. ASSUME NEW r \in Requests, RecordCreate(r) PROVE LocalsOK'
  BY <1>8 DEF RecordCreate, At, Goto, LocalsOK
<1>9. ASSUME NEW r \in Requests, CreateLoginToken(r) PROVE LocalsOK'
  BY <1>9 DEF CreateLoginToken, TypeOK, At, Reply, LocalsOK, PastRead
<1>10. ASSUME NEW r \in Requests, LoadCodeToken(r) PROVE LocalsOK'
  <2>1. req[r].cookie \in Requests
    BY <1>10 DEF LoadCodeToken, LocalsOK, At
  <2>2. Live(req[r].cookie) => tokens[req[r].cookie].email \in Emails
    BY <2>1 DEF TokensOK, Live
  <2>3. /\ req'[r].kind = req[r].kind /\ req'[r].cookie = req[r].cookie
        /\ req'[r].guess = req[r].guess
        /\ req'[r].browser = req[r].browser
        /\ req'[r].email \in {req[r].email, tokens[req[r].cookie].email}
        /\ \A q \in Requests \ {r} : req'[q] = req[q]
    BY <1>10 DEF LoadCodeToken, TypeOK, ReqRecord
  <2>4. pc'[r] # "answer" => req'[r].email \in Emails
    BY <1>10, <2>1, <2>2 DEF LoadCodeToken, Reply, TypeOK, ReqRecord
  <2> QED
    BY <1>10, <2>1, <2>2, <2>3, <2>4 DEF LoadCodeToken, TypeOK, tables, At, Goto, Reply,
       LocalsOK, PastRead
<1>11. ASSUME NEW r \in Requests, LoadPasswordToken(r) PROVE LocalsOK'
  <2>1. req[r].cookie \in Requests
    BY <1>11 DEF LoadPasswordToken, LocalsOK, At
  <2>2. Live(req[r].cookie) => tokens[req[r].cookie].email \in Emails
    BY <2>1 DEF TokensOK, Live
  <2>3. /\ req'[r].kind = req[r].kind /\ req'[r].cookie = req[r].cookie
        /\ req'[r].guess = req[r].guess
        /\ req'[r].browser = req[r].browser
        /\ req'[r].email \in {req[r].email, tokens[req[r].cookie].email}
        /\ \A q \in Requests \ {r} : req'[q] = req[q]
    BY <1>11 DEF LoadPasswordToken, TypeOK, ReqRecord
  <2>4. pc'[r] # "answer" => req'[r].email \in Emails
    BY <1>11, <2>1, <2>2 DEF LoadPasswordToken, Reply, TypeOK, ReqRecord
  <2> QED
    BY <1>11, <2>1, <2>2, <2>3, <2>4 DEF LoadPasswordToken, TypeOK, tables, At, Goto, Reply,
       LocalsOK, PastRead
<1>12. ASSUME NEW r \in Requests, LoadUser(r) PROVE LocalsOK'
  BY <1>12, NilAssumption DEF LoadUser, TypeOK, tables, At, Goto, Reply, LocalsOK, PastRead,
     UserRow
<1>13. ASSUME NEW r \in Requests, SetPassword(r) PROVE LocalsOK'
  BY <1>13 DEF SetPassword, At, Goto, LocalsOK, PastRead
<1>14. ASSUME NEW r \in Requests, Bump(r) PROVE LocalsOK'
  <2>1. req[r].cookie \in Requests
    BY <1>14 DEF Bump, LocalsOK, At
  <2>2. \A q \in Requests : tokens'[q].state = "none" <=> tokens[q].state = "none"
    BY <1>14, <2>1 DEF Bump, TypeOK, TokenRow
  <2> QED
    BY <1>14, <2>1, <2>2 DEF Bump, TypeOK, At, Goto, Reply, LocalsOK, PastRead
<1>15. ASSUME NEW r \in Requests, Lock(r) PROVE LocalsOK'
  <2>1. req[r].cookie \in Requests
    BY <1>15 DEF Lock, LocalsOK, At
  <2>2. \A q \in Requests : tokens'[q].state = "none" <=> tokens[q].state = "none"
    BY <1>15, <2>1 DEF Lock, ConsumeToken, Live
  <2> QED
    BY <1>15, <2>1, <2>2 DEF Lock, TypeOK, At, Reply, LocalsOK, PastRead
<1>16. ASSUME NEW r \in Requests, Consume(r) PROVE LocalsOK'
  <2>1. req[r].cookie \in Requests
    BY <1>16 DEF Consume, LocalsOK, At
  <2>2. \A q \in Requests : tokens'[q].state = "none" <=> tokens[q].state = "none"
    BY <1>16, <2>1 DEF Consume, ConsumeToken, Live
  <2> QED
    BY <1>16, <2>1, <2>2 DEF Consume, At, Goto, LocalsOK, PastRead
<1>17. ASSUME NEW r \in Requests, CreateSession(r) PROVE LocalsOK'
  BY <1>17 DEF CreateSession, At, Goto, LocalsOK, PastRead
<1>18. ASSUME NEW r \in Requests, RecordLogin(r) PROVE LocalsOK'
  BY <1>18 DEF RecordLogin, TypeOK, At, Reply, LocalsOK, PastRead
<1>19. ASSUME NEW r \in Requests, LoadSession(r) PROVE LocalsOK'
  BY <1>19 DEF LoadSession, tables, At, Goto, LocalsOK, PastRead
<1>20. ASSUME NEW r \in Requests, DeleteSession(r) PROVE LocalsOK'
  <2>1. req[r].cookie \in Requests
    BY <1>20 DEF DeleteSession, LocalsOK, At
  <2>2. \A q \in Requests : sessions[q].state = "none" => sessions'[q].state = "none"
    BY <1>20, <2>1 DEF DeleteSession, NoSession, TypeOK
  <2>3. req[r].email \in Emails \cup {Nil}
    BY DEF TypeOK, ReqRecord
  <2> QED
    BY <1>20, <2>1, <2>2, <2>3 DEF DeleteSession, TypeOK, At, Goto, Reply, LocalsOK, PastRead
<1>21. ASSUME NEW r \in Requests, LoadLogoutUser(r) PROVE LocalsOK'
  BY <1>21 DEF LoadLogoutUser, TypeOK, tables, At, Goto, Reply, LocalsOK, PastRead
<1>22. ASSUME NEW r \in Requests, RecordLogout(r) PROVE LocalsOK'
  BY <1>22 DEF RecordLogout, TypeOK, At, Reply, LocalsOK, PastRead
<1>23. ASSUME NEW r \in Requests, Answer(r) PROVE LocalsOK'
  BY <1>23 DEF Answer, tables, At, Goto, LocalsOK, PastRead
<1>24. ASSUME NEW r \in Requests, Drop(r) PROVE LocalsOK'
  BY <1>24 DEF Drop, tables, LocalsOK
<1>25. ASSUME NEW x \in Requests, ExpireToken(x) PROVE LocalsOK'
  BY <1>25 DEF ExpireToken, LocalsOK
<1>26. ASSUME NEW x \in Requests, ExpireSession(x) PROVE LocalsOK'
  BY <1>26 DEF ExpireSession, LocalsOK
<1>27. ASSUME NEW e \in Emails, NEW status \in StatusEdits, EditStatus(e, status)
       PROVE  LocalsOK'
  BY <1>27 DEF EditStatus, LocalsOK
<1>28. ASSUME NEW e \in Emails, NEW password \in PasswordEdits, EditPassword(e, password)
       PROVE  LocalsOK'
  BY <1>28 DEF EditPassword, LocalsOK
<1>29. ASSUME UNCHANGED vars PROVE LocalsOK'
  BY <1>29 DEF vars, LocalsOK
<1> QED
  BY <1>1, <1>2, <1>3, <1>4, <1>5, <1>6, <1>7, <1>8, <1>9, <1>10, <1>11, <1>12, <1>13, <1>14,
     <1>15, <1>16, <1>17, <1>18, <1>19, <1>20, <1>21, <1>22, <1>23, <1>24, <1>25, <1>26,
     <1>27, <1>28, <1>29
     DEF Next, Arrive, Work, Outside, Quiet

\* Every step keeps that cookies name answered requests: a browser only sends what an answer set.
LEMMA CookiesStep == (TypeOK /\ LocalsOK /\ CookiesOK /\ TokensOK) /\ [Next]_vars => CookiesOK'
<1> SUFFICES ASSUME TypeOK, LocalsOK, CookiesOK, TokensOK, [Next]_vars PROVE CookiesOK'
  OBVIOUS
<1>1. ASSUME NEW r \in Requests, NEW b \in Browsers, NEW e \in Emails, BeginEmail(r, b, e)
      PROVE  CookiesOK'
  <2>1. req[r].cookie = Nil /\ pc[r] = "idle"
    BY <1>1 DEF BeginEmail, Begin, LocalsOK, NoRequest
  <2> QED
    BY <1>1, <2>1, NilAssumption DEF BeginEmail, Begin, Goto, CookiesOK
<1>2. ASSUME NEW r \in Requests, NEW b \in Browsers, NEW code \in {"right", "wrong"},
             BeginCode(r, b, code)
      PROVE  CookiesOK'
  <2>1. pc[r] = "idle"
    BY <1>2 DEF BeginCode, Begin
  <2> QED
    BY <1>2, <2>1, NilAssumption DEF BeginCode, Begin, Goto, CookiesOK
<1>3. ASSUME NEW r \in Requests, NEW b \in Browsers, NEW p \in Passwords \cup {"weak"},
             BeginPassword(r, b, p)
      PROVE  CookiesOK'
  <2>1. pc[r] = "idle"
    BY <1>3 DEF BeginPassword, Begin
  <2> QED
    BY <1>3, <2>1, NilAssumption DEF BeginPassword, Begin, Goto, CookiesOK
<1>4. ASSUME NEW r \in Requests, NEW b \in Browsers, BeginLogout(r, b) PROVE CookiesOK'
  <2>1. pc[r] = "idle"
    BY <1>4 DEF BeginLogout, Begin
  <2> QED
    BY <1>4, <2>1, NilAssumption DEF BeginLogout, Begin, Goto, CookiesOK
<1>5. ASSUME NEW r \in Requests, Cleanup(r) PROVE CookiesOK'
  BY <1>5 DEF Cleanup, At, Goto, CookiesOK
<1>6. ASSUME NEW r \in Requests, FindEmail(r) PROVE CookiesOK'
  BY <1>6 DEF FindEmail, TypeOK, At, Goto, Reply, CookiesOK, JarRow, ReqRecord
<1>7. ASSUME NEW r \in Requests, CreateUser(r) PROVE CookiesOK'
  BY <1>7 DEF CreateUser, TypeOK, At, Goto, Reply, CookiesOK, JarRow, ReqRecord
<1>8. ASSUME NEW r \in Requests, RecordCreate(r) PROVE CookiesOK'
  BY <1>8 DEF RecordCreate, At, Goto, CookiesOK
<1>9. ASSUME NEW r \in Requests, CreateLoginToken(r) PROVE CookiesOK'
  BY <1>9 DEF CreateLoginToken, At, Reply, CookiesOK
<1>10. ASSUME NEW r \in Requests, LoadCodeToken(r) PROVE CookiesOK'
  <2>1. \A q \in Requests : req'[q].cookie = req[q].cookie
    BY <1>10 DEF LoadCodeToken, TypeOK, ReqRecord
  <2>2. \A q \in Requests : pc[q] = "done" => pc'[q] = "done"
    BY <1>10 DEF LoadCodeToken, At, Goto, Reply, TypeOK
  <2>3. jar' = jar
    BY <1>10 DEF LoadCodeToken
  <2> QED
    BY <2>1, <2>2, <2>3 DEF TypeOK, CookiesOK, ReqRecord, JarRow
<1>11. ASSUME NEW r \in Requests, LoadPasswordToken(r) PROVE CookiesOK'
  <2>1. \A q \in Requests : req'[q].cookie = req[q].cookie
    BY <1>11 DEF LoadPasswordToken, TypeOK, ReqRecord
  <2>2. \A q \in Requests : pc[q] = "done" => pc'[q] = "done"
    BY <1>11 DEF LoadPasswordToken, At, Goto, Reply, TypeOK
  <2>3. jar' = jar
    BY <1>11 DEF LoadPasswordToken
  <2> QED
    BY <2>1, <2>2, <2>3 DEF TypeOK, CookiesOK, ReqRecord, JarRow
<1>12. ASSUME NEW r \in Requests, LoadUser(r) PROVE CookiesOK'
  BY <1>12 DEF LoadUser, TypeOK, At, Goto, Reply, CookiesOK, JarRow, ReqRecord
<1>13. ASSUME NEW r \in Requests, SetPassword(r) PROVE CookiesOK'
  BY <1>13 DEF SetPassword, At, Goto, CookiesOK
<1>14. ASSUME NEW r \in Requests, Bump(r) PROVE CookiesOK'
  BY <1>14 DEF Bump, TypeOK, At, Goto, Reply, CookiesOK, JarRow, ReqRecord
<1>15. ASSUME NEW r \in Requests, Lock(r) PROVE CookiesOK'
  BY <1>15 DEF Lock, At, Reply, CookiesOK
<1>16. ASSUME NEW r \in Requests, Consume(r) PROVE CookiesOK'
  BY <1>16 DEF Consume, At, Goto, CookiesOK
<1>17. ASSUME NEW r \in Requests, CreateSession(r) PROVE CookiesOK'
  BY <1>17 DEF CreateSession, At, Goto, CookiesOK
<1>18. ASSUME NEW r \in Requests, RecordLogin(r) PROVE CookiesOK'
  BY <1>18 DEF RecordLogin, At, Reply, CookiesOK
<1>19. ASSUME NEW r \in Requests, LoadSession(r) PROVE CookiesOK'
  <2>1. \A q \in Requests : req'[q].cookie = req[q].cookie
    BY <1>19 DEF LoadSession
  <2> QED
    BY <1>19, <2>1 DEF LoadSession, At, Goto, CookiesOK
<1>20. ASSUME NEW r \in Requests, DeleteSession(r) PROVE CookiesOK'
  BY <1>20 DEF DeleteSession, TypeOK, At, Goto, Reply, CookiesOK, JarRow, ReqRecord
<1>21. ASSUME NEW r \in Requests, LoadLogoutUser(r) PROVE CookiesOK'
  BY <1>21 DEF LoadLogoutUser, TypeOK, At, Goto, Reply, CookiesOK, JarRow, ReqRecord
<1>22. ASSUME NEW r \in Requests, RecordLogout(r) PROVE CookiesOK'
  BY <1>22 DEF RecordLogout, At, Reply, CookiesOK
<1>23. ASSUME NEW r \in Requests, Answer(r) PROVE CookiesOK'
  <2>1. req[r].browser \in Browsers
    BY <1>23 DEF Answer, LocalsOK, At
  <2> QED
    BY <1>23, <2>1 DEF Answer, TypeOK, Goto, CookiesOK, StepCookie, SessionCookie
<1>24. ASSUME NEW r \in Requests, Drop(r) PROVE CookiesOK'
  BY <1>24 DEF Drop, CookiesOK
<1>25. ASSUME NEW x \in Requests, ExpireToken(x) PROVE CookiesOK'
  BY <1>25 DEF ExpireToken, CookiesOK
<1>26. ASSUME NEW x \in Requests, ExpireSession(x) PROVE CookiesOK'
  BY <1>26 DEF ExpireSession, CookiesOK
<1>27. ASSUME NEW e \in Emails, NEW status \in StatusEdits, EditStatus(e, status)
       PROVE  CookiesOK'
  BY <1>27 DEF EditStatus, CookiesOK
<1>28. ASSUME NEW e \in Emails, NEW password \in PasswordEdits, EditPassword(e, password)
       PROVE  CookiesOK'
  BY <1>28 DEF EditPassword, CookiesOK
<1>29. ASSUME UNCHANGED vars PROVE CookiesOK'
  BY <1>29 DEF vars, CookiesOK
<1> QED
  BY <1>1, <1>2, <1>3, <1>4, <1>5, <1>6, <1>7, <1>8, <1>9, <1>10, <1>11, <1>12, <1>13, <1>14,
     <1>15, <1>16, <1>17, <1>18, <1>19, <1>20, <1>21, <1>22, <1>23, <1>24, <1>25, <1>26,
     <1>27, <1>28, <1>29
     DEF Next, Arrive, Work, Outside, Quiet

\* No step changes the locals of a request that has become the origin of a token.
LEMMA FrameStep == (TypeOK /\ LocalsOK /\ CookiesOK /\ TokensOK) /\ [Next]_vars => ReqFrame
<1> SUFFICES ASSUME TypeOK, LocalsOK, CookiesOK, TokensOK, [Next]_vars PROVE ReqFrame
  OBVIOUS
<1>1. ASSUME NEW r \in Requests, NEW b \in Browsers, NEW e \in Emails, BeginEmail(r, b, e)
      PROVE  ReqFrame
  <2>1. req[r].kind = "none"
    BY <1>1 DEF BeginEmail, Begin, LocalsOK, NoRequest
  <2> QED
    BY <1>1, <2>1 DEF BeginEmail, Begin, ReqFrame
<1>2. ASSUME NEW r \in Requests, NEW b \in Browsers, NEW code \in {"right", "wrong"},
             BeginCode(r, b, code)
      PROVE  ReqFrame
  <2>1. req[r].kind = "none"
    BY <1>2 DEF BeginCode, Begin, LocalsOK, NoRequest
  <2> QED
    BY <1>2, <2>1 DEF BeginCode, Begin, ReqFrame
<1>3. ASSUME NEW r \in Requests, NEW b \in Browsers, NEW p \in Passwords \cup {"weak"},
             BeginPassword(r, b, p)
      PROVE  ReqFrame
  <2>1. req[r].kind = "none"
    BY <1>3 DEF BeginPassword, Begin, LocalsOK, NoRequest
  <2> QED
    BY <1>3, <2>1 DEF BeginPassword, Begin, ReqFrame
<1>4. ASSUME NEW r \in Requests, NEW b \in Browsers, BeginLogout(r, b) PROVE ReqFrame
  <2>1. req[r].kind = "none"
    BY <1>4 DEF BeginLogout, Begin, LocalsOK, NoRequest
  <2> QED
    BY <1>4, <2>1 DEF BeginLogout, Begin, ReqFrame
<1>5. ASSUME NEW r \in Requests, Cleanup(r) PROVE ReqFrame
  BY <1>5 DEF Cleanup, ReqFrame
<1>6. ASSUME NEW r \in Requests, FindEmail(r) PROVE ReqFrame
  BY <1>6 DEF FindEmail, ReqFrame
<1>7. ASSUME NEW r \in Requests, CreateUser(r) PROVE ReqFrame
  BY <1>7 DEF CreateUser, ReqFrame
<1>8. ASSUME NEW r \in Requests, RecordCreate(r) PROVE ReqFrame
  BY <1>8 DEF RecordCreate, ReqFrame
<1>9. ASSUME NEW r \in Requests, CreateLoginToken(r) PROVE ReqFrame
  BY <1>9 DEF CreateLoginToken, ReqFrame
<1>10. ASSUME NEW r \in Requests, LoadCodeToken(r) PROVE ReqFrame
  <2>1. req[r].email = Nil
    BY <1>10 DEF LoadCodeToken, At, LocalsOK
  <2> QED
    BY <1>10, <2>1, NilAssumption DEF LoadCodeToken, TypeOK, ReqFrame
<1>11. ASSUME NEW r \in Requests, LoadPasswordToken(r) PROVE ReqFrame
  <2>1. req[r].email = Nil
    BY <1>11 DEF LoadPasswordToken, At, LocalsOK
  <2> QED
    BY <1>11, <2>1, NilAssumption DEF LoadPasswordToken, TypeOK, ReqFrame
<1>12. ASSUME NEW r \in Requests, LoadUser(r) PROVE ReqFrame
  BY <1>12 DEF LoadUser, ReqFrame
<1>13. ASSUME NEW r \in Requests, SetPassword(r) PROVE ReqFrame
  BY <1>13 DEF SetPassword, ReqFrame
<1>14. ASSUME NEW r \in Requests, Bump(r) PROVE ReqFrame
  BY <1>14 DEF Bump, ReqFrame
<1>15. ASSUME NEW r \in Requests, Lock(r) PROVE ReqFrame
  BY <1>15 DEF Lock, ReqFrame
<1>16. ASSUME NEW r \in Requests, Consume(r) PROVE ReqFrame
  BY <1>16 DEF Consume, ReqFrame
<1>17. ASSUME NEW r \in Requests, CreateSession(r) PROVE ReqFrame
  BY <1>17 DEF CreateSession, ReqFrame
<1>18. ASSUME NEW r \in Requests, RecordLogin(r) PROVE ReqFrame
  BY <1>18 DEF RecordLogin, ReqFrame
<1>19. ASSUME NEW r \in Requests, LoadSession(r) PROVE ReqFrame
  <2>1. req[r].kind = "logout"
    BY <1>19 DEF LoadSession, At, LocalsOK
  <2> QED
    BY <1>19, <2>1 DEF LoadSession, ReqFrame
<1>20. ASSUME NEW r \in Requests, DeleteSession(r) PROVE ReqFrame
  BY <1>20 DEF DeleteSession, ReqFrame
<1>21. ASSUME NEW r \in Requests, LoadLogoutUser(r) PROVE ReqFrame
  BY <1>21 DEF LoadLogoutUser, ReqFrame
<1>22. ASSUME NEW r \in Requests, RecordLogout(r) PROVE ReqFrame
  BY <1>22 DEF RecordLogout, ReqFrame
<1>23. ASSUME NEW r \in Requests, Answer(r) PROVE ReqFrame
  BY <1>23 DEF Answer, ReqFrame
<1>24. ASSUME NEW r \in Requests, Drop(r) PROVE ReqFrame
  BY <1>24 DEF Drop, ReqFrame
<1>25. ASSUME NEW x \in Requests, ExpireToken(x) PROVE ReqFrame
  BY <1>25 DEF ExpireToken, ReqFrame
<1>26. ASSUME NEW x \in Requests, ExpireSession(x) PROVE ReqFrame
  BY <1>26 DEF ExpireSession, ReqFrame
<1>27. ASSUME NEW e \in Emails, NEW status \in StatusEdits, EditStatus(e, status) PROVE ReqFrame
  BY <1>27 DEF EditStatus, ReqFrame
<1>28. ASSUME NEW e \in Emails, NEW password \in PasswordEdits, EditPassword(e, password)
       PROVE  ReqFrame
  BY <1>28 DEF EditPassword, ReqFrame
<1>29. ASSUME UNCHANGED vars PROVE ReqFrame
  BY <1>29 DEF vars, ReqFrame
<1> QED
  BY <1>1, <1>2, <1>3, <1>4, <1>5, <1>6, <1>7, <1>8, <1>9, <1>10, <1>11, <1>12, <1>13, <1>14,
     <1>15, <1>16, <1>17, <1>18, <1>19, <1>20, <1>21, <1>22, <1>23, <1>24, <1>25, <1>26,
     <1>27, <1>28, <1>29
     DEF Next, Arrive, Work, Outside, Quiet

\* Every step keeps that a token row says what its minting request said.
LEMMA TokensStep == (TypeOK /\ LocalsOK /\ CookiesOK /\ TokensOK) /\ [Next]_vars => TokensOK'
<1> SUFFICES ASSUME TypeOK, LocalsOK, CookiesOK, TokensOK, [Next]_vars PROVE TokensOK'
  OBVIOUS
<1>1. ASSUME NEW r \in Requests, NEW b \in Browsers, NEW e \in Emails, BeginEmail(r, b, e)
      PROVE  TokensOK'
  <2>1. pc[r] = "idle" /\ tokens[r].state = "none"
    BY <1>1 DEF BeginEmail, Begin, LocalsOK
  <2> QED
    BY <1>1, <2>1 DEF BeginEmail, Begin, Goto, tables, TokensOK
<1>2. ASSUME NEW r \in Requests, NEW b \in Browsers, NEW code \in {"right", "wrong"},
             BeginCode(r, b, code)
      PROVE  TokensOK'
  <2>1. pc[r] = "idle" /\ tokens[r].state = "none"
    BY <1>2 DEF BeginCode, Begin, LocalsOK
  <2> QED
    BY <1>2, <2>1 DEF BeginCode, Begin, Goto, tables, TokensOK
<1>3. ASSUME NEW r \in Requests, NEW b \in Browsers, NEW p \in Passwords \cup {"weak"},
             BeginPassword(r, b, p)
      PROVE  TokensOK'
  <2>1. pc[r] = "idle" /\ tokens[r].state = "none"
    BY <1>3 DEF BeginPassword, Begin, LocalsOK
  <2> QED
    BY <1>3, <2>1 DEF BeginPassword, Begin, Goto, tables, TokensOK
<1>4. ASSUME NEW r \in Requests, NEW b \in Browsers, BeginLogout(r, b) PROVE TokensOK'
  <2>1. pc[r] = "idle" /\ tokens[r].state = "none"
    BY <1>4 DEF BeginLogout, Begin, LocalsOK
  <2> QED
    BY <1>4, <2>1 DEF BeginLogout, Begin, Goto, tables, TokensOK
<1>5. ASSUME NEW r \in Requests, Cleanup(r) PROVE TokensOK'
  BY <1>5 DEF Cleanup, At, Goto, TokensOK, NoToken
<1>6. ASSUME NEW r \in Requests, FindEmail(r) PROVE TokensOK'
  BY <1>6 DEF FindEmail, TypeOK, tables, At, Goto, Reply, TokensOK
<1>7. ASSUME NEW r \in Requests, CreateUser(r) PROVE TokensOK'
  BY <1>7 DEF CreateUser, TypeOK, At, Goto, Reply, TokensOK
<1>8. ASSUME NEW r \in Requests, RecordCreate(r) PROVE TokensOK'
  BY <1>8 DEF RecordCreate, At, Goto, TokensOK
<1>9. ASSUME NEW r \in Requests, CreateLoginToken(r) PROVE TokensOK'
  <2>1. req[r].email \in Emails /\ req[r].kind \in {"email", "code"}
    BY <1>9 DEF CreateLoginToken, LocalsOK, At, PastRead
  <2> QED
    BY <1>9, <2>1 DEF CreateLoginToken, TypeOK, Reply, TokensOK
<1>10. ASSUME NEW r \in Requests, LoadCodeToken(r) PROVE TokensOK'
  <2>1. tokens[r].state = "none"
    BY <1>10 DEF LoadCodeToken, At, TokensOK
  <2> QED
    BY <1>10, <2>1 DEF LoadCodeToken, TypeOK, tables, Goto, Reply, TokensOK
<1>11. ASSUME NEW r \in Requests, LoadPasswordToken(r) PROVE TokensOK'
  <2>1. tokens[r].state = "none"
    BY <1>11 DEF LoadPasswordToken, At, TokensOK
  <2> QED
    BY <1>11, <2>1 DEF LoadPasswordToken, TypeOK, tables, Goto, Reply, TokensOK
<1>12. ASSUME NEW r \in Requests, LoadUser(r) PROVE TokensOK'
  BY <1>12 DEF LoadUser, TypeOK, tables, At, Goto, Reply, TokensOK
<1>13. ASSUME NEW r \in Requests, SetPassword(r) PROVE TokensOK'
  BY <1>13 DEF SetPassword, At, Goto, TokensOK
<1>14. ASSUME NEW r \in Requests, Bump(r) PROVE TokensOK'
  <2>1. \A q \in Requests : /\ tokens'[q].state = "none" <=> tokens[q].state = "none"
                            /\ tokens'[q].email = tokens[q].email
                            /\ tokens'[q].purpose = tokens[q].purpose
    BY <1>14 DEF Bump, TypeOK, TokenRow
  <2>2. tokens[r].state = "none" /\ req' = req /\ \A q \in Requests \ {r} : pc'[q] = pc[q]
    BY <1>14 DEF Bump, At, Goto, Reply, TypeOK, TokensOK
  <2> QED
    BY <2>1, <2>2 DEF TokensOK
<1>15. ASSUME NEW r \in Requests, Lock(r) PROVE TokensOK'
  <2>1. \A q \in Requests : /\ tokens'[q].state = "none" <=> tokens[q].state = "none"
                            /\ tokens'[q].email = tokens[q].email
                            /\ tokens'[q].purpose = tokens[q].purpose
    BY <1>15 DEF Lock, ConsumeToken, Live
  <2>2. tokens[r].state = "none" /\ req' = req /\ \A q \in Requests \ {r} : pc'[q] = pc[q]
    BY <1>15 DEF Lock, At, Reply, TokensOK
  <2> QED
    BY <2>1, <2>2 DEF TokensOK
<1>16. ASSUME NEW r \in Requests, Consume(r) PROVE TokensOK'
  <2>1. \A q \in Requests : /\ tokens'[q].state = "none" <=> tokens[q].state = "none"
                            /\ tokens'[q].email = tokens[q].email
                            /\ tokens'[q].purpose = tokens[q].purpose
    BY <1>16 DEF Consume, ConsumeToken, Live
  <2>2. tokens[r].state = "none" /\ req' = req /\ \A q \in Requests \ {r} : pc'[q] = pc[q]
    BY <1>16 DEF Consume, At, Goto, TokensOK
  <2> QED
    BY <2>1, <2>2 DEF TokensOK
<1>17. ASSUME NEW r \in Requests, CreateSession(r) PROVE TokensOK'
  BY <1>17 DEF CreateSession, At, Goto, TokensOK
<1>18. ASSUME NEW r \in Requests, RecordLogin(r) PROVE TokensOK'
  BY <1>18 DEF RecordLogin, Reply, TokensOK
<1>19. ASSUME NEW r \in Requests, LoadSession(r) PROVE TokensOK'
  <2>1. tokens[r].state = "none"
    BY <1>19 DEF LoadSession, At, TokensOK
  <2> QED
    BY <1>19, <2>1 DEF LoadSession, tables, Goto, TokensOK
<1>20. ASSUME NEW r \in Requests, DeleteSession(r) PROVE TokensOK'
  BY <1>20 DEF DeleteSession, TypeOK, At, Goto, Reply, TokensOK
<1>21. ASSUME NEW r \in Requests, LoadLogoutUser(r) PROVE TokensOK'
  BY <1>21 DEF LoadLogoutUser, TypeOK, tables, At, Goto, Reply, TokensOK
<1>22. ASSUME NEW r \in Requests, RecordLogout(r) PROVE TokensOK'
  BY <1>22 DEF RecordLogout, Reply, TokensOK
<1>23. ASSUME NEW r \in Requests, Answer(r) PROVE TokensOK'
  BY <1>23 DEF Answer, tables, Goto, TokensOK
<1>24. ASSUME NEW r \in Requests, Drop(r) PROVE TokensOK'
  BY <1>24 DEF Drop, tables, TokensOK
<1>25. ASSUME NEW x \in Requests, ExpireToken(x) PROVE TokensOK'
  <2>1. \A q \in Requests : /\ tokens'[q].state = "none" <=> tokens[q].state = "none"
                            /\ tokens'[q].email = tokens[q].email
                            /\ tokens'[q].purpose = tokens[q].purpose
    BY <1>25 DEF ExpireToken
  <2> QED
    BY <1>25, <2>1 DEF ExpireToken, TokensOK
<1>26. ASSUME NEW x \in Requests, ExpireSession(x) PROVE TokensOK'
  BY <1>26 DEF ExpireSession, TokensOK
<1>27. ASSUME NEW e \in Emails, NEW status \in StatusEdits, EditStatus(e, status)
       PROVE  TokensOK'
  BY <1>27 DEF EditStatus, TokensOK
<1>28. ASSUME NEW e \in Emails, NEW password \in PasswordEdits, EditPassword(e, password)
       PROVE  TokensOK'
  BY <1>28 DEF EditPassword, TokensOK
<1>29. ASSUME UNCHANGED vars PROVE TokensOK'
  BY <1>29 DEF vars, TokensOK
<1> QED
  BY <1>1, <1>2, <1>3, <1>4, <1>5, <1>6, <1>7, <1>8, <1>9, <1>10, <1>11, <1>12, <1>13, <1>14,
     <1>15, <1>16, <1>17, <1>18, <1>19, <1>20, <1>21, <1>22, <1>23, <1>24, <1>25, <1>26,
     <1>27, <1>28, <1>29
     DEF Next, Arrive, Work, Outside, Quiet

\* What a step does not disturb keeps its chain.
LEMMA ChainKept ==
  ASSUME TypeOK, LocalsOK, TokensOK, ReqFrame, NEW q \in Requests, ChainOf(q), Undisturbed(q)
  PROVE  ChainOf(q)'
<1>1. tokens[q].state # "none" \/ pc[q] \in PastRead => req[q].email \in Emails
  BY DEF LocalsOK, TokensOK
<1>2. req[q].email \in Emails =>
        /\ EmailStep(req[q].cookie, req[q].email) => EmailStep(req[q].cookie, req[q].email)'
        /\ StepFor(req[q].cookie, req[q].email) => StepFor(req[q].cookie, req[q].email)'
  BY DEF ReqFrame, EmailStep, StepFor, Undisturbed
<1> QED
  BY <1>1, <1>2 DEF ChainOf, Undisturbed

\* Every step keeps the chain behind every request: reading a token row (LoadCodeToken,
\* LoadPasswordToken) starts one from the purpose of the row, the rest only carries it along.
LEMMA ChainStep ==
  (TypeOK /\ LocalsOK /\ CookiesOK /\ TokensOK /\ ChainOK) /\ [Next]_vars =>
    ChainOK'
<1> SUFFICES ASSUME TypeOK, LocalsOK, CookiesOK, TokensOK, ChainOK, [Next]_vars,
                    NEW q \in Requests
             PROVE  ChainOf(q)'
  BY DEF ChainOK
<1>kept. Undisturbed(q) => ChainOf(q)'
  BY FrameStep, ChainKept DEF ChainOK
<1>has. sessions[q].state # "none" => pc[q] \in {"audit_login", "answer", "done"}
  BY DEF ChainOK, ChainOf
<1>1. ASSUME NEW r \in Requests, NEW b \in Browsers, NEW e \in Emails, BeginEmail(r, b, e)
      PROVE  ChainOf(q)'
  <2>1. CASE q # r
    <3>1. Undisturbed(q)
      BY <1>1, <1>has, <2>1 DEF BeginEmail, Begin, tables, Goto, Undisturbed
    <3> QED
      BY <1>kept, <3>1
  <2>2. CASE q = r
    <3>1. pc[r] = "idle" /\ tokens[r].state = "none" /\ sessions[r].state = "none"
      BY <1>1 DEF BeginEmail, Begin, LocalsOK
    <3>2. tokens' = tokens /\ sessions' = sessions /\ pc'[r] \notin PastRead
      BY <1>1 DEF BeginEmail, Begin, Goto, tables, PastRead
    <3> QED
      BY <2>2, <3>1, <3>2 DEF ChainOf
  <2> QED
    BY <2>1, <2>2
<1>2. ASSUME NEW r \in Requests, NEW b \in Browsers, NEW code \in {"right", "wrong"},
             BeginCode(r, b, code)
      PROVE  ChainOf(q)'
  <2>1. CASE q # r
    <3>1. Undisturbed(q)
      BY <1>2, <1>has, <2>1 DEF BeginCode, Begin, tables, Goto, Undisturbed
    <3> QED
      BY <1>kept, <3>1
  <2>2. CASE q = r
    <3>1. pc[r] = "idle" /\ tokens[r].state = "none" /\ sessions[r].state = "none"
      BY <1>2 DEF BeginCode, Begin, LocalsOK
    <3>2. tokens' = tokens /\ sessions' = sessions /\ pc'[r] \notin PastRead
      BY <1>2 DEF BeginCode, Begin, Goto, tables, PastRead
    <3> QED
      BY <2>2, <3>1, <3>2 DEF ChainOf
  <2> QED
    BY <2>1, <2>2
<1>3. ASSUME NEW r \in Requests, NEW b \in Browsers, NEW p \in Passwords \cup {"weak"},
             BeginPassword(r, b, p)
      PROVE  ChainOf(q)'
  <2>1. CASE q # r
    <3>1. Undisturbed(q)
      BY <1>3, <1>has, <2>1 DEF BeginPassword, Begin, tables, Goto, Undisturbed
    <3> QED
      BY <1>kept, <3>1
  <2>2. CASE q = r
    <3>1. pc[r] = "idle" /\ tokens[r].state = "none" /\ sessions[r].state = "none"
      BY <1>3 DEF BeginPassword, Begin, LocalsOK
    <3>2. tokens' = tokens /\ sessions' = sessions /\ pc'[r] \notin PastRead
      BY <1>3 DEF BeginPassword, Begin, Goto, tables, PastRead
    <3> QED
      BY <2>2, <3>1, <3>2 DEF ChainOf
  <2> QED
    BY <2>1, <2>2
<1>4. ASSUME NEW r \in Requests, NEW b \in Browsers, BeginLogout(r, b) PROVE ChainOf(q)'
  <2>1. CASE q # r
    <3>1. Undisturbed(q)
      BY <1>4, <1>has, <2>1 DEF BeginLogout, Begin, tables, Goto, Undisturbed
    <3> QED
      BY <1>kept, <3>1
  <2>2. CASE q = r
    <3>1. pc[r] = "idle" /\ tokens[r].state = "none" /\ sessions[r].state = "none"
      BY <1>4 DEF BeginLogout, Begin, LocalsOK
    <3>2. tokens' = tokens /\ sessions' = sessions /\ pc'[r] \notin PastRead
      BY <1>4 DEF BeginLogout, Begin, Goto, tables, PastRead
    <3> QED
      BY <2>2, <3>1, <3>2 DEF ChainOf
  <2> QED
    BY <2>1, <2>2
<1>5. ASSUME NEW r \in Requests, Cleanup(r) PROVE ChainOf(q)'
  <2>1. Undisturbed(q)
    BY <1>5, <1>has DEF Cleanup, At, Goto, Undisturbed, PastRead
  <2> QED
    BY <2>1, <1>kept
<1>6. ASSUME NEW r \in Requests, FindEmail(r) PROVE ChainOf(q)'
  <2>1. Undisturbed(q)
    BY <1>6, <1>has DEF FindEmail, TypeOK, tables, At, Goto, Reply, Undisturbed, LocalsOK
  <2> QED
    BY <2>1, <1>kept
<1>7. ASSUME NEW r \in Requests, CreateUser(r) PROVE ChainOf(q)'
  <2>1. Undisturbed(q)
    BY <1>7, <1>has DEF CreateUser, TypeOK, At, Goto, Reply, Undisturbed, PastRead
  <2> QED
    BY <2>1, <1>kept
<1>8. ASSUME NEW r \in Requests, RecordCreate(r) PROVE ChainOf(q)'
  <2>1. Undisturbed(q)
    BY <1>8, <1>has DEF RecordCreate, At, Goto, Undisturbed, LocalsOK
  <2> QED
    BY <2>1, <1>kept
<1>9. ASSUME NEW r \in Requests, CreateLoginToken(r) PROVE ChainOf(q)'
  <2>1. CASE q # r
    <3>1. Undisturbed(q)
      BY <1>9, <1>has, <2>1 DEF CreateLoginToken, Reply, Undisturbed
    <3> QED
      BY <1>kept, <3>1
  <2>2. CASE q = r
    <3>1. pc[r] = "create_token" /\ sessions[r].state = "none"
      BY <1>9, <1>has, <2>2 DEF CreateLoginToken, At
    <3>2. req[r].kind = "code" => req[r].guess = "right" /\ EmailStep(req[r].cookie, req[r].email)
      BY <3>1 DEF LocalsOK, ChainOK, ChainOf, PastRead
    <3>3. req' = req /\ sessions' = sessions /\ pc'[r] \notin PastRead
      BY <1>9 DEF CreateLoginToken, Reply, TypeOK, PastRead
    <3> QED
      BY <2>2, <3>1, <3>2, <3>3 DEF ChainOf, EmailStep
  <2> QED
    BY <2>1, <2>2
<1>10. ASSUME NEW r \in Requests, LoadCodeToken(r) PROVE ChainOf(q)'
  <2>1. CASE q # r
    <3>1. Undisturbed(q)
      BY <1>10, <1>has, <2>1 DEF LoadCodeToken, TypeOK, tables, Goto, Reply, Undisturbed
    <3> QED
      BY <1>kept, <3>1
  <2>2. CASE q = r
    <3>1. /\ tokens[r].state = "none" /\ sessions[r].state = "none"
          /\ req[r].kind = "code" /\ req[r].cookie \in Requests
      BY <1>10, <1>has, <2>2 DEF LoadCodeToken, At, TokensOK, LocalsOK
    <3>2. tokens' = tokens /\ sessions' = sessions
      BY <1>10 DEF LoadCodeToken, tables
    <3>3. \A s \in Requests : /\ req'[s].kind = req[s].kind /\ req'[s].cookie = req[s].cookie
                              /\ req'[s].guess = req[s].guess /\ (s # r => req'[s] = req[s])
      BY <1>10 DEF LoadCodeToken, TypeOK, ReqRecord
    <3>4. ASSUME pc'[r] \in PastRead PROVE EmailStep(req[r].cookie, req[r].email)'
      <4>1. /\ Live(req[r].cookie) /\ tokens[req[r].cookie].purpose = "email_ok"
            /\ req'[r].email = tokens[req[r].cookie].email
        BY <1>10, <3>4 DEF LoadCodeToken, Reply, TypeOK, PastRead, ReqRecord
      <4>2. /\ req[req[r].cookie].kind = "email"
            /\ req[req[r].cookie].email = tokens[req[r].cookie].email
        BY <3>1, <4>1 DEF TokensOK, Live
      <4> QED
        BY <3>1, <3>3, <4>1, <4>2 DEF EmailStep
    <3> QED
      BY <2>2, <3>1, <3>2, <3>3, <3>4 DEF ChainOf
  <2> QED
    BY <2>1, <2>2
<1>11. ASSUME NEW r \in Requests, LoadPasswordToken(r) PROVE ChainOf(q)'
  <2>1. CASE q # r
    <3>1. Undisturbed(q)
      BY <1>11, <1>has, <2>1 DEF LoadPasswordToken, TypeOK, tables, Goto, Reply, Undisturbed
    <3> QED
      BY <1>kept, <3>1
  <2>2. CASE q = r
    <3>1. /\ tokens[r].state = "none" /\ sessions[r].state = "none"
          /\ req[r].kind = "password" /\ req[r].cookie \in Requests
      BY <1>11, <1>has, <2>2 DEF LoadPasswordToken, At, TokensOK, LocalsOK
    <3>2. tokens' = tokens /\ sessions' = sessions
      BY <1>11 DEF LoadPasswordToken, tables
    <3>3. \A s \in Requests : /\ req'[s].kind = req[s].kind /\ req'[s].cookie = req[s].cookie
                              /\ req'[s].guess = req[s].guess /\ (s # r => req'[s] = req[s])
      BY <1>11 DEF LoadPasswordToken, TypeOK, ReqRecord
    <3>4. ASSUME pc'[r] \in PastRead PROVE StepFor(req[r].cookie, req[r].email)'
      <4>1. /\ Live(req[r].cookie) /\ tokens[req[r].cookie].purpose = ExpectedPurpose
            /\ req'[r].email = tokens[req[r].cookie].email
        BY <1>11, <3>4 DEF LoadPasswordToken, Reply, TypeOK, PastRead, ReqRecord
      <4>2. /\ req[req[r].cookie].kind = IF EmailConfirmation THEN "code" ELSE "email"
            /\ req[req[r].cookie].email = tokens[req[r].cookie].email
            /\ req[r].cookie # r /\ tokens[req[r].cookie].state # "none"
        BY <3>1, <4>1 DEF TokensOK, Live, ExpectedPurpose
      <4>3. StepFor(req[r].cookie, tokens[req[r].cookie].email)
        BY <3>1, <4>2 DEF ChainOK, ChainOf, EmailStep, StepFor
      <4>4. tokens[req[r].cookie].email \in Emails
        BY <3>1, <4>2 DEF TokensOK
      <4> QED
        BY <3>1, <3>3, <4>1, <4>3, <4>4, FrameStep DEF StepFor
    <3> QED
      BY <2>2, <3>1, <3>2, <3>3, <3>4 DEF ChainOf
  <2> QED
    BY <2>1, <2>2
<1>12. ASSUME NEW r \in Requests, LoadUser(r) PROVE ChainOf(q)'
  <2>1. Undisturbed(q)
    BY <1>12, <1>has DEF LoadUser, TypeOK, tables, At, Goto, Reply, Undisturbed, PastRead
  <2> QED
    BY <2>1, <1>kept
<1>13. ASSUME NEW r \in Requests, SetPassword(r) PROVE ChainOf(q)'
  <2>1. Undisturbed(q)
    BY <1>13, <1>has DEF SetPassword, At, Goto, Undisturbed, PastRead
  <2> QED
    BY <2>1, <1>kept
<1>14. ASSUME NEW r \in Requests, Bump(r) PROVE ChainOf(q)'
  <2>1. tokens'[q].state # "none" => tokens[q].state # "none"
    BY <1>14 DEF Bump, Live, TypeOK
  <2>2. Undisturbed(q)
    BY <1>14, <1>has, <2>1 DEF Bump, TypeOK, At, Goto, Reply, Undisturbed, PastRead
  <2> QED
    BY <2>1, <2>2, <1>kept
<1>15. ASSUME NEW r \in Requests, Lock(r) PROVE ChainOf(q)'
  <2>1. tokens'[q].state # "none" => tokens[q].state # "none"
    BY <1>15 DEF Lock, ConsumeToken, Live
  <2>2. Undisturbed(q)
    BY <1>15, <1>has, <2>1 DEF Lock, Reply, Undisturbed, PastRead
  <2> QED
    BY <2>1, <2>2, <1>kept
<1>16. ASSUME NEW r \in Requests, Consume(r) PROVE ChainOf(q)'
  <2>1. tokens'[q].state # "none" => tokens[q].state # "none"
    BY <1>16 DEF Consume, ConsumeToken, Live
  <2>2. Undisturbed(q)
    BY <1>16, <1>has, <2>1 DEF Consume, At, Goto, Undisturbed, PastRead
  <2> QED
    BY <2>1, <2>2, <1>kept
<1>17. ASSUME NEW r \in Requests, CreateSession(r) PROVE ChainOf(q)'
  <2>1. CASE q # r
    <3>1. Undisturbed(q)
      BY <1>17, <1>has, <2>1 DEF CreateSession, Goto, Undisturbed
    <3> QED
      BY <1>kept, <3>1
  <2>2. CASE q = r
    <3>1. /\ pc[r] = "create_session" /\ tokens[r].state = "none"
          /\ req[r].kind = "password" /\ req[r].guess \in Passwords /\ req[r].email \in Emails
      BY <1>17 DEF CreateSession, At, TokensOK, LocalsOK, PastRead
    <3>2. StepFor(req[r].cookie, req[r].email)
      BY <3>1 DEF ChainOK, ChainOf, PastRead
    <3>3. /\ req' = req /\ tokens' = tokens /\ pc'[r] = "audit_login"
          /\ sessions'[r].email = req[r].email
      BY <1>17 DEF CreateSession, Goto, TypeOK
    <3> QED
      BY <2>2, <3>1, <3>2, <3>3 DEF ChainOf, StepFor
  <2> QED
    BY <2>1, <2>2
<1>18. ASSUME NEW r \in Requests, RecordLogin(r) PROVE ChainOf(q)'
  <2>1. Undisturbed(q)
    BY <1>18, <1>has DEF RecordLogin, Reply, Undisturbed, PastRead
  <2> QED
    BY <2>1, <1>kept
<1>19. ASSUME NEW r \in Requests, LoadSession(r) PROVE ChainOf(q)'
  <2>1. CASE q # r
    <3>1. Undisturbed(q)
      BY <1>19, <1>has, <2>1 DEF LoadSession, tables, Goto, Undisturbed
    <3> QED
      BY <1>kept, <3>1
  <2>2. CASE q = r
    <3>1. /\ tokens[r].state = "none" /\ sessions[r].state = "none"
          /\ req[r].kind = "logout" /\ req[r].cookie \in Requests
      BY <1>19, <1>has, <2>2 DEF LoadSession, At, TokensOK, LocalsOK
    <3>2. tokens' = tokens /\ sessions' = sessions
      BY <1>19 DEF LoadSession, tables
    <3>3. \A s \in Requests : /\ req'[s].kind = req[s].kind /\ req'[s].cookie = req[s].cookie
                              /\ req'[s].guess = req[s].guess /\ (s # r => req'[s] = req[s])
      BY <1>19 DEF LoadSession
    <3> QED
      BY <2>2, <3>1, <3>2, <3>3 DEF ChainOf
  <2> QED
    BY <2>1, <2>2
<1>20. ASSUME NEW r \in Requests, DeleteSession(r) PROVE ChainOf(q)'
  <2>1. Undisturbed(q)
    BY <1>20, <1>has DEF DeleteSession, TypeOK, At, Goto, Reply, Undisturbed, NoSession,
       LocalsOK
  <2> QED
    BY <2>1, <1>kept
<1>21. ASSUME NEW r \in Requests, LoadLogoutUser(r) PROVE ChainOf(q)'
  <2>1. Undisturbed(q)
    BY <1>21, <1>has DEF LoadLogoutUser, TypeOK, tables, At, Goto, Reply, Undisturbed, PastRead
  <2> QED
    BY <2>1, <1>kept
<1>22. ASSUME NEW r \in Requests, RecordLogout(r) PROVE ChainOf(q)'
  <2>1. Undisturbed(q)
    BY <1>22, <1>has DEF RecordLogout, Reply, Undisturbed, PastRead
  <2> QED
    BY <2>1, <1>kept
<1>23. ASSUME NEW r \in Requests, Answer(r) PROVE ChainOf(q)'
  <2>1. Undisturbed(q)
    BY <1>23, <1>has DEF Answer, tables, Goto, Undisturbed, PastRead
  <2> QED
    BY <2>1, <1>kept
<1>24. ASSUME NEW r \in Requests, Drop(r) PROVE ChainOf(q)'
  <2>1. Undisturbed(q)
    BY <1>24, <1>has DEF Drop, tables, Undisturbed
  <2> QED
    BY <2>1, <1>kept
<1>25. ASSUME NEW x \in Requests, ExpireToken(x) PROVE ChainOf(q)'
  <2>1. tokens'[q].state # "none" => tokens[q].state # "none"
    BY <1>25 DEF ExpireToken
  <2>2. Undisturbed(q)
    BY <1>25, <1>has, <2>1 DEF ExpireToken, Undisturbed
  <2> QED
    BY <2>1, <2>2, <1>kept
<1>26. ASSUME NEW x \in Requests, ExpireSession(x) PROVE ChainOf(q)'
  <2>1. Undisturbed(q)
    BY <1>26, <1>has DEF ExpireSession, Undisturbed
  <2> QED
    BY <2>1, <1>kept
<1>27. ASSUME NEW e \in Emails, NEW status \in StatusEdits, EditStatus(e, status)
       PROVE  ChainOf(q)'
  <2>1. Undisturbed(q)
    BY <1>27, <1>has DEF EditStatus, Undisturbed
  <2> QED
    BY <2>1, <1>kept
<1>28. ASSUME NEW e \in Emails, NEW password \in PasswordEdits, EditPassword(e, password)
       PROVE  ChainOf(q)'
  <2>1. Undisturbed(q)
    BY <1>28, <1>has DEF EditPassword, Undisturbed
  <2> QED
    BY <2>1, <1>kept
<1>29. ASSUME UNCHANGED vars PROVE ChainOf(q)'
  BY <1>29, <1>kept, <1>has DEF vars, Undisturbed
<1> QED
  BY <1>1, <1>2, <1>3, <1>4, <1>5, <1>6, <1>7, <1>8, <1>9, <1>10, <1>11, <1>12, <1>13, <1>14,
     <1>15, <1>16, <1>17, <1>18, <1>19, <1>20, <1>21, <1>22, <1>23, <1>24, <1>25, <1>26,
     <1>27, <1>28, <1>29
     DEF Next, Arrive, Work, Outside, Quiet

\* A token that has been handed out and is dead is not revived: only the insert of its minting
\* request makes a row live, and that request has been answered.
LEMMA DeadStays ==
  TypeOK /\ [Next]_vars => \A t \in Requests : pc[t] = "done" /\ ~Live(t) =>
    ~Live(t)'
<1> SUFFICES ASSUME TypeOK, [Next]_vars, NEW t \in Requests, pc[t] = "done", ~Live(t)
             PROVE  ~Live(t)'
  OBVIOUS
<1>1. ASSUME NEW r \in Requests, NEW b \in Browsers, NEW e \in Emails, BeginEmail(r, b, e)
      PROVE  ~Live(t)'
  BY <1>1 DEF BeginEmail, Begin, tables, Live
<1>2. ASSUME NEW r \in Requests, NEW b \in Browsers, NEW code \in {"right", "wrong"},
             BeginCode(r, b, code)
      PROVE  ~Live(t)'
  BY <1>2 DEF BeginCode, Begin, tables, Live
<1>3. ASSUME NEW r \in Requests, NEW b \in Browsers, NEW p \in Passwords \cup {"weak"},
             BeginPassword(r, b, p)
      PROVE  ~Live(t)'
  BY <1>3 DEF BeginPassword, Begin, tables, Live
<1>4. ASSUME NEW r \in Requests, NEW b \in Browsers, BeginLogout(r, b) PROVE ~Live(t)'
  BY <1>4 DEF BeginLogout, Begin, tables, Live
<1>5. ASSUME NEW r \in Requests, Cleanup(r) PROVE ~Live(t)'
  BY <1>5 DEF Cleanup, Live, NoToken
<1>6. ASSUME NEW r \in Requests, FindEmail(r) PROVE ~Live(t)'
  BY <1>6 DEF FindEmail, tables, Live
<1>7. ASSUME NEW r \in Requests, CreateUser(r) PROVE ~Live(t)'
  BY <1>7 DEF CreateUser, Live
<1>8. ASSUME NEW r \in Requests, RecordCreate(r) PROVE ~Live(t)'
  BY <1>8 DEF RecordCreate, Live
<1>9. ASSUME NEW r \in Requests, CreateLoginToken(r) PROVE ~Live(t)'
  BY <1>9 DEF CreateLoginToken, Live, At
<1>10. ASSUME NEW r \in Requests, LoadCodeToken(r) PROVE ~Live(t)'
  BY <1>10 DEF LoadCodeToken, tables, Live
<1>11. ASSUME NEW r \in Requests, LoadPasswordToken(r) PROVE ~Live(t)'
  BY <1>11 DEF LoadPasswordToken, tables, Live
<1>12. ASSUME NEW r \in Requests, LoadUser(r) PROVE ~Live(t)'
  BY <1>12 DEF LoadUser, tables, Live
<1>13. ASSUME NEW r \in Requests, SetPassword(r) PROVE ~Live(t)'
  BY <1>13 DEF SetPassword, Live
<1>14. ASSUME NEW r \in Requests, Bump(r) PROVE ~Live(t)'
  BY <1>14 DEF Bump, TypeOK, Live
<1>15. ASSUME NEW r \in Requests, Lock(r) PROVE ~Live(t)'
  BY <1>15 DEF Lock, Live, ConsumeToken
<1>16. ASSUME NEW r \in Requests, Consume(r) PROVE ~Live(t)'
  BY <1>16 DEF Consume, Live, ConsumeToken
<1>17. ASSUME NEW r \in Requests, CreateSession(r) PROVE ~Live(t)'
  BY <1>17 DEF CreateSession, Live
<1>18. ASSUME NEW r \in Requests, RecordLogin(r) PROVE ~Live(t)'
  BY <1>18 DEF RecordLogin, Live
<1>19. ASSUME NEW r \in Requests, LoadSession(r) PROVE ~Live(t)'
  BY <1>19 DEF LoadSession, tables, Live
<1>20. ASSUME NEW r \in Requests, DeleteSession(r) PROVE ~Live(t)'
  BY <1>20 DEF DeleteSession, Live
<1>21. ASSUME NEW r \in Requests, LoadLogoutUser(r) PROVE ~Live(t)'
  BY <1>21 DEF LoadLogoutUser, tables, Live
<1>22. ASSUME NEW r \in Requests, RecordLogout(r) PROVE ~Live(t)'
  BY <1>22 DEF RecordLogout, Live
<1>23. ASSUME NEW r \in Requests, Answer(r) PROVE ~Live(t)'
  BY <1>23 DEF Answer, tables, Live
<1>24. ASSUME NEW r \in Requests, Drop(r) PROVE ~Live(t)'
  BY <1>24 DEF Drop, tables, Live
<1>25. ASSUME NEW x \in Requests, ExpireToken(x) PROVE ~Live(t)'
  BY <1>25 DEF ExpireToken, Live
<1>26. ASSUME NEW x \in Requests, ExpireSession(x) PROVE ~Live(t)'
  BY <1>26 DEF ExpireSession, Live
<1>27. ASSUME NEW e \in Emails, NEW status \in StatusEdits, EditStatus(e, status)
       PROVE  ~Live(t)'
  BY <1>27 DEF EditStatus, Live
<1>28. ASSUME NEW e \in Emails, NEW password \in PasswordEdits, EditPassword(e, password)
       PROVE  ~Live(t)'
  BY <1>28 DEF EditPassword, Live
<1>29. ASSUME UNCHANGED vars PROVE ~Live(t)'
  BY <1>29 DEF vars, Live
<1> QED
  BY <1>1, <1>2, <1>3, <1>4, <1>5, <1>6, <1>7, <1>8, <1>9, <1>10, <1>11, <1>12, <1>13, <1>14,
     <1>15, <1>16, <1>17, <1>18, <1>19, <1>20, <1>21, <1>22, <1>23, <1>24, <1>25, <1>26,
     <1>27, <1>28, <1>29
     DEF Next, Arrive, Work, Outside, Quiet

\* Every step keeps that an exchanged token is dead: a request becomes Exchanged by consuming
\* its token (Consume, Lock), whoever consumed it first.
LEMMA SpentStep == (TypeOK /\ LocalsOK /\ CookiesOK /\ SpentOK) /\ [Next]_vars => SpentOK'
<1> SUFFICES ASSUME TypeOK, LocalsOK, CookiesOK, SpentOK, [Next]_vars, NEW q \in Requests
             PROVE  Spent(q)'
  BY DEF SpentOK
<1>kept. Exchanged(q) /\ req'[q].cookie = req[q].cookie => Spent(q)'
  <2>1. SUFFICES ASSUME Exchanged(q), req'[q].cookie = req[q].cookie
                 PROVE  req'[q].cookie \in Requests /\ tokens'[req'[q].cookie].state # "live"
    BY DEF Spent, Live
  <2>2. req[q].cookie \in Requests /\ ~Live(req[q].cookie)
    BY <2>1 DEF SpentOK, Spent
  <2>3. pc[req[q].cookie] = "done"
    BY <2>2, NilAssumption DEF CookiesOK
  <2> QED
    BY <2>1, <2>2, <2>3, DeadStays DEF Live
<1>1. ASSUME NEW r \in Requests, NEW b \in Browsers, NEW e \in Emails, BeginEmail(r, b, e)
      PROVE  Spent(q)'
  <2>1. Exchanged(q)' => Exchanged(q) /\ req'[q].cookie = req[q].cookie
    BY <1>1 DEF BeginEmail, Begin, Goto, Exchanged, LocalsOK
  <2> QED
    BY <2>1, <1>kept DEF Spent
<1>2. ASSUME NEW r \in Requests, NEW b \in Browsers, NEW code \in {"right", "wrong"},
             BeginCode(r, b, code)
      PROVE  Spent(q)'
  <2>1. Exchanged(q)' => Exchanged(q) /\ req'[q].cookie = req[q].cookie
    BY <1>2 DEF BeginCode, Begin, Goto, Exchanged, LocalsOK
  <2> QED
    BY <2>1, <1>kept DEF Spent
<1>3. ASSUME NEW r \in Requests, NEW b \in Browsers, NEW p \in Passwords \cup {"weak"},
             BeginPassword(r, b, p)
      PROVE  Spent(q)'
  <2>1. Exchanged(q)' => Exchanged(q) /\ req'[q].cookie = req[q].cookie
    BY <1>3 DEF BeginPassword, Begin, Goto, Exchanged, LocalsOK
  <2> QED
    BY <2>1, <1>kept DEF Spent
<1>4. ASSUME NEW r \in Requests, NEW b \in Browsers, BeginLogout(r, b) PROVE Spent(q)'
  <2>1. Exchanged(q)' => Exchanged(q) /\ req'[q].cookie = req[q].cookie
    BY <1>4 DEF BeginLogout, Begin, Goto, Exchanged, LocalsOK
  <2> QED
    BY <2>1, <1>kept DEF Spent
<1>5. ASSUME NEW r \in Requests, Cleanup(r) PROVE Spent(q)'
  <2>1. Exchanged(q)' => Exchanged(q) /\ req'[q].cookie = req[q].cookie
    BY <1>5 DEF Cleanup, Goto, Exchanged
  <2> QED
    BY <2>1, <1>kept DEF Spent
<1>6. ASSUME NEW r \in Requests, FindEmail(r) PROVE Spent(q)'
  <2>1. Exchanged(q)' => Exchanged(q) /\ req'[q].cookie = req[q].cookie
    BY <1>6 DEF FindEmail, TypeOK, At, Goto, Reply, Exchanged, LocalsOK
  <2> QED
    BY <2>1, <1>kept DEF Spent
<1>7. ASSUME NEW r \in Requests, CreateUser(r) PROVE Spent(q)'
  <2>1. Exchanged(q)' => Exchanged(q) /\ req'[q].cookie = req[q].cookie
    BY <1>7 DEF CreateUser, TypeOK, Goto, Reply, Exchanged
  <2> QED
    BY <2>1, <1>kept DEF Spent
<1>8. ASSUME NEW r \in Requests, RecordCreate(r) PROVE Spent(q)'
  <2>1. Exchanged(q)' => Exchanged(q) /\ req'[q].cookie = req[q].cookie
    BY <1>8 DEF RecordCreate, At, Goto, Exchanged, LocalsOK
  <2> QED
    BY <2>1, <1>kept DEF Spent
<1>9. ASSUME NEW r \in Requests, CreateLoginToken(r) PROVE Spent(q)'
  <2>1. Exchanged(q)' => Exchanged(q) /\ req'[q].cookie = req[q].cookie
    BY <1>9 DEF CreateLoginToken, At, Reply, Exchanged
  <2> QED
    BY <2>1, <1>kept DEF Spent
<1>10. ASSUME NEW r \in Requests, LoadCodeToken(r) PROVE Spent(q)'
  <2>1. Exchanged(q)' => Exchanged(q) /\ req'[q].cookie = req[q].cookie
    BY <1>10 DEF LoadCodeToken, ReqRecord, TypeOK, Goto, Reply, Exchanged
  <2> QED
    BY <2>1, <1>kept DEF Spent
<1>11. ASSUME NEW r \in Requests, LoadPasswordToken(r) PROVE Spent(q)'
  <2>1. Exchanged(q)' => Exchanged(q) /\ req'[q].cookie = req[q].cookie
    BY <1>11 DEF LoadPasswordToken, ReqRecord, TypeOK, Goto, Reply, Exchanged
  <2> QED
    BY <2>1, <1>kept DEF Spent
<1>12. ASSUME NEW r \in Requests, LoadUser(r) PROVE Spent(q)'
  <2>1. Exchanged(q)' => Exchanged(q) /\ req'[q].cookie = req[q].cookie
    BY <1>12 DEF LoadUser, TypeOK, Goto, Reply, Exchanged
  <2> QED
    BY <2>1, <1>kept DEF Spent
<1>13. ASSUME NEW r \in Requests, SetPassword(r) PROVE Spent(q)'
  <2>1. Exchanged(q)' => Exchanged(q) /\ req'[q].cookie = req[q].cookie
    BY <1>13 DEF SetPassword, Goto, Exchanged
  <2> QED
    BY <2>1, <1>kept DEF Spent
<1>14. ASSUME NEW r \in Requests, Bump(r) PROVE Spent(q)'
  <2>1. Exchanged(q)' => Exchanged(q) /\ req'[q].cookie = req[q].cookie
    BY <1>14 DEF Bump, TypeOK, Goto, Reply, Exchanged
  <2> QED
    BY <2>1, <1>kept DEF Spent
<1>15. ASSUME NEW r \in Requests, Lock(r) PROVE Spent(q)'
  <2>1. CASE q # r
    <3>1. Exchanged(q)' => Exchanged(q) /\ req'[q].cookie = req[q].cookie
      BY <1>15, <2>1 DEF Lock, Reply, Exchanged
    <3> QED
      BY <1>kept, <3>1 DEF Spent
  <2>2. CASE q = r
    <3>1. req[r].cookie \in Requests /\ req' = req
      BY <1>15 DEF Lock, At, LocalsOK
    <3>2. ~Live(req[r].cookie)'
      BY <1>15, <3>1 DEF Lock, ConsumeToken, Live, TypeOK
    <3> QED
      BY <2>2, <3>1, <3>2 DEF Spent
  <2> QED
    BY <2>1, <2>2
<1>16. ASSUME NEW r \in Requests, Consume(r) PROVE Spent(q)'
  <2>1. CASE q # r
    <3>1. Exchanged(q)' => Exchanged(q) /\ req'[q].cookie = req[q].cookie
      BY <1>16, <2>1 DEF Consume, Goto, Exchanged
    <3> QED
      BY <1>kept, <3>1 DEF Spent
  <2>2. CASE q = r
    <3>1. req[r].cookie \in Requests /\ req' = req
      BY <1>16 DEF Consume, At, LocalsOK
    <3>2. ~Live(req[r].cookie)'
      BY <1>16, <3>1 DEF Consume, ConsumeToken, Live, TypeOK
    <3> QED
      BY <2>2, <3>1, <3>2 DEF Spent
  <2> QED
    BY <2>1, <2>2
<1>17. ASSUME NEW r \in Requests, CreateSession(r) PROVE Spent(q)'
  <2>1. Exchanged(q)' => Exchanged(q) /\ req'[q].cookie = req[q].cookie
    BY <1>17 DEF CreateSession, At, Goto, Exchanged
  <2> QED
    BY <2>1, <1>kept DEF Spent
<1>18. ASSUME NEW r \in Requests, RecordLogin(r) PROVE Spent(q)'
  <2>1. Exchanged(q)' => Exchanged(q) /\ req'[q].cookie = req[q].cookie
    BY <1>18 DEF RecordLogin, At, Reply, Exchanged
  <2> QED
    BY <2>1, <1>kept DEF Spent
<1>19. ASSUME NEW r \in Requests, LoadSession(r) PROVE Spent(q)'
  <2>1. Exchanged(q)' => Exchanged(q) /\ req'[q].cookie = req[q].cookie
    BY <1>19 DEF LoadSession, Goto, Exchanged
  <2> QED
    BY <2>1, <1>kept DEF Spent
<1>20. ASSUME NEW r \in Requests, DeleteSession(r) PROVE Spent(q)'
  <2>1. Exchanged(q)' => Exchanged(q) /\ req'[q].cookie = req[q].cookie
    BY <1>20 DEF DeleteSession, TypeOK, Goto, Reply, Exchanged
  <2> QED
    BY <2>1, <1>kept DEF Spent
<1>21. ASSUME NEW r \in Requests, LoadLogoutUser(r) PROVE Spent(q)'
  <2>1. Exchanged(q)' => Exchanged(q) /\ req'[q].cookie = req[q].cookie
    BY <1>21 DEF LoadLogoutUser, TypeOK, Goto, Reply, Exchanged
  <2> QED
    BY <2>1, <1>kept DEF Spent
<1>22. ASSUME NEW r \in Requests, RecordLogout(r) PROVE Spent(q)'
  <2>1. Exchanged(q)' => Exchanged(q) /\ req'[q].cookie = req[q].cookie
    BY <1>22 DEF RecordLogout, Reply, Exchanged
  <2> QED
    BY <2>1, <1>kept DEF Spent
<1>23. ASSUME NEW r \in Requests, Answer(r) PROVE Spent(q)'
  <2>1. Exchanged(q)' => Exchanged(q) /\ req'[q].cookie = req[q].cookie
    BY <1>23 DEF Answer, Goto, Exchanged
  <2> QED
    BY <2>1, <1>kept DEF Spent
<1>24. ASSUME NEW r \in Requests, Drop(r) PROVE Spent(q)'
  <2>1. Exchanged(q)' => Exchanged(q) /\ req'[q].cookie = req[q].cookie
    BY <1>24 DEF Drop, Exchanged
  <2> QED
    BY <2>1, <1>kept DEF Spent
<1>25. ASSUME NEW x \in Requests, ExpireToken(x) PROVE Spent(q)'
  <2>1. Exchanged(q)' => Exchanged(q) /\ req'[q].cookie = req[q].cookie
    BY <1>25 DEF ExpireToken, Exchanged
  <2> QED
    BY <2>1, <1>kept DEF Spent
<1>26. ASSUME NEW x \in Requests, ExpireSession(x) PROVE Spent(q)'
  <2>1. Exchanged(q)' => Exchanged(q) /\ req'[q].cookie = req[q].cookie
    BY <1>26 DEF ExpireSession, Exchanged
  <2> QED
    BY <2>1, <1>kept DEF Spent
<1>27. ASSUME NEW e \in Emails, NEW status \in StatusEdits, EditStatus(e, status)
       PROVE  Spent(q)'
  <2>1. Exchanged(q)' => Exchanged(q) /\ req'[q].cookie = req[q].cookie
    BY <1>27 DEF EditStatus, Exchanged
  <2> QED
    BY <2>1, <1>kept DEF Spent
<1>28. ASSUME NEW e \in Emails, NEW password \in PasswordEdits, EditPassword(e, password)
       PROVE  Spent(q)'
  <2>1. Exchanged(q)' => Exchanged(q) /\ req'[q].cookie = req[q].cookie
    BY <1>28 DEF EditPassword, Exchanged
  <2> QED
    BY <2>1, <1>kept DEF Spent
<1>29. ASSUME UNCHANGED vars PROVE Spent(q)'
  BY <1>29, <1>kept DEF vars, Exchanged, Spent
<1> QED
  BY <1>1, <1>2, <1>3, <1>4, <1>5, <1>6, <1>7, <1>8, <1>9, <1>10, <1>11, <1>12, <1>13, <1>14,
     <1>15, <1>16, <1>17, <1>18, <1>19, <1>20, <1>21, <1>22, <1>23, <1>24, <1>25, <1>26,
     <1>27, <1>28, <1>29
     DEF Next, Arrive, Work, Outside, Quiet

\* The initial tables and requests.
LEMMA InitOK == Init => IInv
<1> SUFFICES ASSUME Init PROVE IInv
  OBVIOUS
<1>1. TypeOK
  BY RowTypes, ConfigAssumption DEF Init, TypeOK, PcLabels, Results, JarRow
<1>2. LocalsOK /\ CookiesOK /\ TokensOK
  BY NilAssumption DEF Init, LocalsOK, CookiesOK, TokensOK, NoRequest, NoToken, NoSession,
     PastRead
<1>3. ChainOK /\ SpentOK
  BY DEF Init, ChainOK, ChainOf, SpentOK, Spent, Exchanged, NoRequest, NoToken, NoSession,
     PastRead
<1> QED
  BY <1>1, <1>2, <1>3 DEF IInv

\* Every step keeps the inductive invariant.
LEMMA IInvStep == IInv /\ [Next]_vars => IInv'
  BY TypeStep, LocalsStep, CookiesStep, TokensStep, ChainStep, SpentStep DEF IInv

\* The inductive invariant holds in every behaviour.
THEOREM Inductive == Spec => []IInv
  BY InitOK, IInvStep, PTL DEF Spec
=============================================================================
