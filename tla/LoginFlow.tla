----------------------------- MODULE LoginFlow -----------------------------
(***************************************************************************)
(* The sign-in flow of twentytoo: email -> (code, when configured) ->      *)
(* password -> session, and sign-out.  AuthService                         *)
(* (application/auth/service.rs) runs each step as an asynchronous handler *)
(* that awaits one SQL statement after the other, without a transaction:   *)
(* a statement is atomic, and between two statements of a request any      *)
(* other request may run, a row may expire, an administrator may edit the  *)
(* account, and the request itself may be abandoned.                       *)
(*                                                                         *)
(* One action stands for one awaited statement together with the           *)
(* computation the handler does on its result, up to its next await.       *)
(***************************************************************************)
EXTENDS Naturals, FiniteSets

CONSTANTS
  Requests,           \* HTTP requests; a token or session is named by the request that minted it
  Browsers,           \* cookie jars
  Emails,             \* addresses, trimmed and lowercased; users are never deleted, so also user ids
  Passwords,          \* passwords of at least 8 characters, standing for their hashes too
  Nil,                \* SQL NULL, an absent cookie, a local that is not set yet
  AllowedEmails,      \* the addresses on a domain of AuthConfig.allowed_domains
  InitUsers,          \* the users table before the first request
  EmailConfirmation,  \* AuthConfig.email_confirmation
  MaxAttempts,        \* 5 in the code
  StatusEdits,        \* the statuses the administrator of this model sets
  PasswordEdits       \* the passwords the administrator of this model sets

Statuses == {"absent", "active", "invited", "disabled"}
UserRow == [status: Statuses, password: Passwords \cup {Nil}]

ASSUME ConfigAssumption ==
  /\ AllowedEmails \subseteq Emails
  /\ InitUsers \in [Emails -> UserRow]
  /\ EmailConfirmation \in BOOLEAN
  /\ MaxAttempts \in Nat \ {0}
  /\ StatusEdits \subseteq {"active", "disabled"}
  /\ PasswordEdits \subseteq Passwords

\* Nil is none of the values it stands in for the absence of.
ASSUME NilAssumption ==
  /\ Nil \notin Requests /\ Nil \notin Browsers /\ Nil \notin Emails /\ Nil \notin Passwords
  /\ {"weak", "right", "wrong"} \cap (Passwords \cup {Nil}) = {}

VARIABLES
  users,     \* [Emails -> UserRow]: table users, "absent" for no row
  tokens,    \* [Requests -> TokenRow]: table login_tokens
  sessions,  \* [Requests -> SessionRow]: table sessions
  audit,     \* the audit entries of the flow, each with the request that wrote it
  req,       \* [Requests -> ReqRecord]: what a handler holds in its locals
  pc,        \* [Requests -> PcLabels]: the statement a handler awaits next
  result,    \* [Requests -> Results]: the outcome a handler answers with
  dropped,   \* requests abandoned at their pc: client gone, process down, or an error passed on by ?
  jar        \* [Browsers -> JarRow]: the step and session cookies a browser holds

tables == <<users, tokens, sessions, audit>>
vars == <<users, tokens, sessions, audit, req, pc, result, dropped, jar>>

TokenRow == [state: {"none", "live", "used", "expired"}, email: Emails \cup {Nil},
             purpose: {"email_ok", "code_ok"}, coded: BOOLEAN, attempts: Nat]
SessionRow == [state: {"none", "live", "expired"}, email: Emails \cup {Nil}]
AuditRow == [action: {"create", "login", "logout"}, email: Emails, req: Requests]
\* guess is what the form carries: a password, or whether the code is the one that was sent.
ReqRecord == [kind: {"none", "email", "code", "password", "logout"},
              browser: Browsers \cup {Nil}, email: Emails \cup {Nil},
              cookie: Requests \cup {Nil},
              guess: Passwords \cup {"weak", "right", "wrong", Nil}]
JarRow == [step: Requests \cup {Nil}, session: Requests \cup {Nil}]
PcLabels == {"idle", "cleanup", "find_email", "create_user", "audit_create", "create_token",
             "code_token", "password_token", "get_user", "set_password", "bump", "lock",
             "consume", "create_session", "audit_login", "get_session", "delete_session",
             "logout_user", "audit_logout", "answer", "done"}
Results == {"none", "step", "unknown_email", "bad_token", "bad_code", "code_locked",
            "bad_password", "weak_password", "signed_in", "signed_out", "error"}

NoToken == [state |-> "none", email |-> Nil, purpose |-> "email_ok", coded |-> FALSE,
            attempts |-> 0]
NoSession == [state |-> "none", email |-> Nil]
NoRequest == [kind |-> "none", browser |-> Nil, email |-> Nil, cookie |-> Nil, guess |-> Nil]

Init ==
  /\ users = InitUsers
  /\ tokens = [t \in Requests |-> NoToken]
  /\ sessions = [s \in Requests |-> NoSession]
  /\ audit = {}
  /\ req = [r \in Requests |-> NoRequest]
  /\ pc = [r \in Requests |-> "idle"]
  /\ result = [r \in Requests |-> "none"]
  /\ dropped = {}
  /\ jar = [b \in Browsers |-> [step |-> Nil, session |-> Nil]]

----------------------------------------------------------------------------
(* Control flow of a handler. *)

At(r, l) == pc[r] = l /\ r \notin dropped
Goto(r, l) == pc' = [pc EXCEPT ![r] = l] /\ UNCHANGED result
Reply(r, outcome) ==
  /\ pc' = [pc EXCEPT ![r] = "answer"]
  /\ result' = [result EXCEPT ![r] = outcome]

Begin(r, locals, l) ==
  /\ pc[r] = "idle"
  /\ req' = [req EXCEPT ![r] = locals]
  /\ Goto(r, l)
  /\ UNCHANGED <<tables, dropped, jar>>

----------------------------------------------------------------------------
(* The statements on the login_tokens table. *)

\* get_login_token returns a row, and the updates below touch it, only while it is live.
Live(t) == tokens[t].state = "live"

ConsumeToken(t) ==
  tokens' = IF Live(t) THEN [tokens EXCEPT ![t].state = "used"] ELSE tokens

----------------------------------------------------------------------------
(* POST /login/email: AuthService::start_login. *)

DomainAllowed(e) == e \in AllowedEmails

BeginEmail(r, b, e) ==
  Begin(r, [kind |-> "email", browser |-> b, email |-> e, cookie |-> Nil, guess |-> Nil],
        "cleanup")

\* The sweep of expired tokens; its error is ignored.
Cleanup(r) ==
  /\ At(r, "cleanup")
  /\ tokens' \in {tokens, [t \in Requests |-> IF tokens[t].state = "expired" THEN NoToken
                                                                            ELSE tokens[t]]}
  /\ Goto(r, "find_email")
  /\ UNCHANGED <<users, sessions, audit, req, dropped, jar>>

\* Mutant: the status of a known account is not looked at.
FindEmail_AnyStatus(r) ==
  LET status == users[req[r].email].status IN
  /\ At(r, "find_email")
  /\ \/ status # "absent" /\ Goto(r, "create_token")
     \/ status = "absent" /\ DomainAllowed(req[r].email) /\ Goto(r, "create_user")
     \/ status = "absent" /\ ~DomainAllowed(req[r].email) /\ Reply(r, "unknown_email")
  /\ UNCHANGED <<tables, req, dropped, jar>>

FindEmail(r) ==
  LET status == users[req[r].email].status IN
  /\ At(r, "find_email")
  /\ \/ /\ status = "active"
        /\ Goto(r, "create_token")
     \/ /\ status = "absent" /\ DomainAllowed(req[r].email)
        /\ Goto(r, "create_user")
     \/ /\ status \in {"invited", "disabled"} \/ (status = "absent" /\ ~DomainAllowed(req[r].email))
        /\ Reply(r, "unknown_email")
  /\ UNCHANGED <<tables, req, dropped, jar>>

\* Mutant: the insert is an upsert that hands the loser of a race the existing row.
CreateUser_Upsert(r) ==
  /\ At(r, "create_user")
  /\ users' = [users EXCEPT ![req[r].email].status = "active"]
  /\ Goto(r, "audit_create")
  /\ UNCHANGED <<tokens, sessions, audit, req, dropped, jar>>

\* The insert of a self-created account.  email is UNIQUE: losing a race is an error.
CreateUser(r) ==
  LET e == req[r].email IN
  /\ At(r, "create_user")
  /\ \/ /\ users[e].status = "absent"
        /\ users' = [users EXCEPT ![e] = [status |-> "active", password |-> Nil]]
        /\ Goto(r, "audit_create")
     \/ /\ users[e].status # "absent"
        /\ Reply(r, "error")
        /\ UNCHANGED users
  /\ UNCHANGED <<tokens, sessions, audit, req, dropped, jar>>

Entry(action, r) == [action |-> action, email |-> req[r].email, req |-> r]

RecordCreate(r) ==
  /\ At(r, "audit_create")
  /\ audit' = audit \cup {Entry("create", r)}
  /\ Goto(r, "create_token")
  /\ UNCHANGED <<users, tokens, sessions, req, dropped, jar>>

\* The last statement of start_login, and of verify_code after a right code.
CreateLoginToken(r) ==
  LET byEmail == req[r].kind = "email" IN
  /\ At(r, "create_token")
  /\ tokens' = [tokens EXCEPT ![r] =
       [state |-> "live", email |-> req[r].email,
        purpose |-> IF byEmail THEN "email_ok" ELSE "code_ok",
        coded |-> byEmail /\ EmailConfirmation, attempts |-> 0]]
  /\ Reply(r, "step")
  /\ UNCHANGED <<users, sessions, audit, req, dropped, jar>>

----------------------------------------------------------------------------
(* POST /login/code: AuthService::verify_code.  Without a step cookie the  *)
(* handler redirects to /login and touches nothing; the guard leaves that  *)
(* request out.                                                            *)

BeginCode(r, b, code) ==
  /\ jar[b].step # Nil
  /\ Begin(r, [kind |-> "code", browser |-> b, email |-> Nil, cookie |-> jar[b].step,
               guess |-> code], "code_token")

\* Mutant: any live step token takes a code, and so buys another one.
LoadCodeToken_AnyPurpose(r) ==
  /\ At(r, "code_token")
  /\ IF Live(req[r].cookie)
       THEN /\ req' = [req EXCEPT ![r].email = tokens[req[r].cookie].email]
            /\ Goto(r, IF req[r].guess = "right" THEN "consume" ELSE "bump")
       ELSE Reply(r, "bad_token") /\ UNCHANGED req
  /\ UNCHANGED <<tables, dropped, jar>>

LoadCodeToken(r) ==
  LET row == tokens[req[r].cookie]
      usable == Live(req[r].cookie) /\ row.purpose = "email_ok" /\ row.coded IN
  /\ At(r, "code_token")
  /\ \/ /\ ~usable
        /\ Reply(r, "bad_token")
        /\ UNCHANGED req
     \/ /\ usable
        /\ req' = [req EXCEPT ![r].email = row.email]
        /\ Goto(r, IF req[r].guess = "right" THEN "consume" ELSE "bump")
  /\ UNCHANGED <<tables, dropped, jar>>

----------------------------------------------------------------------------
(* POST /login/password: AuthService::complete_login. *)

BeginPassword(r, b, password) ==
  /\ jar[b].step # Nil
  /\ Begin(r, [kind |-> "password", browser |-> b, email |-> Nil, cookie |-> jar[b].step,
               guess |-> password], "password_token")

ExpectedPurpose == IF EmailConfirmation THEN "code_ok" ELSE "email_ok"

\* Mutant: any live step token opens the password step.
LoadPasswordToken_AnyPurpose(r) ==
  /\ At(r, "password_token")
  /\ IF Live(req[r].cookie)
       THEN /\ req' = [req EXCEPT ![r].email = tokens[req[r].cookie].email]
            /\ Goto(r, "get_user")
       ELSE Reply(r, "bad_token") /\ UNCHANGED req
  /\ UNCHANGED <<tables, dropped, jar>>

\* Every token carries a user_id here, so the None branch of the column is not taken.
LoadPasswordToken(r) ==
  LET row == tokens[req[r].cookie]
      usable == Live(req[r].cookie) /\ row.purpose = ExpectedPurpose IN
  /\ At(r, "password_token")
  /\ \/ /\ ~usable
        /\ Reply(r, "bad_token")
        /\ UNCHANGED req
     \/ /\ usable
        /\ req' = [req EXCEPT ![r].email = row.email]
        /\ Goto(r, "get_user")
  /\ UNCHANGED <<tables, dropped, jar>>

\* Mutant: an account that has a password takes a new one like a fresh account.
LoadUser_SetsOver(r) ==
  LET stored == users[req[r].email].password IN
  /\ At(r, "get_user")
  /\ IF req[r].guess = "weak" THEN Reply(r, "weak_password")
       ELSE Goto(r, IF stored = Nil THEN "set_password" ELSE "consume")
  /\ UNCHANGED <<tables, req, dropped, jar>>

\* The password is judged on the row read here; no statement deletes a user, so there is one.
LoadUser(r) ==
  LET stored == users[req[r].email].password IN
  /\ At(r, "get_user")
  /\ \/ /\ stored # Nil
        /\ Goto(r, IF req[r].guess = stored THEN "consume" ELSE "bump")
     \/ /\ stored = Nil /\ req[r].guess = "weak"
        /\ Reply(r, "weak_password")
     \/ /\ stored = Nil /\ req[r].guess # "weak"
        /\ Goto(r, "set_password")
  /\ UNCHANGED <<tables, req, dropped, jar>>

SetPassword(r) ==
  /\ At(r, "set_password")
  /\ users' = [users EXCEPT ![req[r].email].password = req[r].guess]
  /\ Goto(r, "consume")
  /\ UNCHANGED <<tokens, sessions, audit, req, dropped, jar>>

\* Mutants: the lock comes one attempt late; the update lacks its used_at and expires_at filter;
\* a token that is gone is tried again instead of being reported.
Bump_Late(r) ==
  LET t == req[r].cookie IN
  /\ At(r, "bump")
  /\ IF Live(t)
       THEN /\ tokens' = [tokens EXCEPT ![t].attempts = @ + 1]
            /\ IF tokens[t].attempts >= MaxAttempts THEN Goto(r, "lock") ELSE Reply(r, "bad_password")
       ELSE Reply(r, "error") /\ UNCHANGED tokens
  /\ UNCHANGED <<users, sessions, audit, req, dropped, jar>>
Bump_Unfiltered(r) ==
  LET t == req[r].cookie IN
  /\ At(r, "bump")
  /\ tokens' = [tokens EXCEPT ![t].attempts = @ + 1]
  /\ IF tokens[t].attempts + 1 >= MaxAttempts THEN Goto(r, "lock") ELSE Reply(r, "bad_password")
  /\ UNCHANGED <<users, sessions, audit, req, dropped, jar>>
Bump_Retries(r) ==
  LET t == req[r].cookie IN
  /\ At(r, "bump")
  /\ IF Live(t)
       THEN tokens' = [tokens EXCEPT ![t].attempts = @ + 1] /\ Reply(r, "bad_password")
       ELSE Goto(r, "bump") /\ UNCHANGED tokens
  /\ UNCHANGED <<users, sessions, audit, req, dropped, jar>>

\* A wrong code or password.  The counter is one UPDATE ... RETURNING; a token that is no longer
\* live is DbError::NotFound.
Bump(r) ==
  LET t == req[r].cookie
      attempts == tokens[t].attempts + 1 IN
  /\ At(r, "bump")
  /\ \/ /\ Live(t)
        /\ tokens' = [tokens EXCEPT ![t].attempts = attempts]
        /\ IF attempts >= MaxAttempts
             THEN Goto(r, "lock")
             ELSE Reply(r, IF req[r].kind = "code" THEN "bad_code" ELSE "bad_password")
     \/ /\ ~Live(t)
        /\ Reply(r, "error")
        /\ UNCHANGED tokens
  /\ UNCHANGED <<users, sessions, audit, req, dropped, jar>>

Lock(r) ==
  /\ At(r, "lock")
  /\ ConsumeToken(req[r].cookie)
  /\ Reply(r, IF req[r].kind = "code" THEN "code_locked" ELSE "bad_token")
  /\ UNCHANGED <<users, sessions, audit, req, dropped, jar>>

\* Mutant: the token is exchanged without being consumed.
Consume_Skipped(r) ==
  /\ At(r, "consume")
  /\ Goto(r, IF req[r].kind = "code" THEN "create_token" ELSE "create_session")
  /\ UNCHANGED <<tables, req, dropped, jar>>

\* Both steps go on whatever consume_login_token returned.
Consume(r) ==
  /\ At(r, "consume")
  /\ ConsumeToken(req[r].cookie)
  /\ Goto(r, IF req[r].kind = "code" THEN "create_token" ELSE "create_session")
  /\ UNCHANGED <<users, sessions, audit, req, dropped, jar>>

\* Mutant: the session is answered without its audit entry.
CreateSession_Unaudited(r) ==
  /\ At(r, "create_session")
  /\ sessions' = [sessions EXCEPT ![r] = [state |-> "live", email |-> req[r].email]]
  /\ Reply(r, "signed_in")
  /\ UNCHANGED <<users, tokens, audit, req, dropped, jar>>

CreateSession(r) ==
  /\ At(r, "create_session")
  /\ sessions' = [sessions EXCEPT ![r] = [state |-> "live", email |-> req[r].email]]
  /\ Goto(r, "audit_login")
  /\ UNCHANGED <<users, tokens, audit, req, dropped, jar>>

RecordLogin(r) ==
  /\ At(r, "audit_login")
  /\ audit' = audit \cup {Entry("login", r)}
  /\ Reply(r, "signed_in")
  /\ UNCHANGED <<users, tokens, sessions, req, dropped, jar>>

----------------------------------------------------------------------------
(* POST /logout: logout_handler. *)

BeginLogout(r, b) ==
  /\ jar[b].session # Nil
  /\ Begin(r, [kind |-> "logout", browser |-> b, email |-> Nil, cookie |-> jar[b].session,
               guess |-> Nil], "get_session")

LoadSession(r) ==
  LET row == sessions[req[r].cookie] IN
  /\ At(r, "get_session")
  /\ req' = IF row.state = "live" THEN [req EXCEPT ![r].email = row.email] ELSE req
  /\ Goto(r, "delete_session")
  /\ UNCHANGED <<tables, dropped, jar>>

\* Mutant: a sign-out is audited even when no session, and so no user, was found.
DeleteSession_AuditsNobody(r) ==
  /\ At(r, "delete_session")
  /\ sessions' = [sessions EXCEPT ![req[r].cookie] = NoSession]
  /\ Goto(r, "audit_logout")
  /\ UNCHANGED <<users, tokens, audit, req, dropped, jar>>

\* The error of the delete is ignored: the row may survive.
DeleteSession(r) ==
  /\ At(r, "delete_session")
  /\ sessions' \in {sessions, [sessions EXCEPT ![req[r].cookie] = NoSession]}
  /\ IF req[r].email = Nil THEN Reply(r, "signed_out") ELSE Goto(r, "logout_user")
  /\ UNCHANGED <<users, tokens, audit, req, dropped, jar>>

\* get_user(..).await.ok().flatten(): an error skips the audit entry.
LoadLogoutUser(r) ==
  /\ At(r, "logout_user")
  /\ Goto(r, "audit_logout") \/ Reply(r, "signed_out")
  /\ UNCHANGED <<tables, req, dropped, jar>>

\* "A failed audit write must not block signing out."
RecordLogout(r) ==
  /\ At(r, "audit_logout")
  /\ audit' \in {audit, audit \cup {Entry("logout", r)}}
  /\ Reply(r, "signed_out")
  /\ UNCHANGED <<users, tokens, sessions, req, dropped, jar>>

----------------------------------------------------------------------------
(* The response reaches the browser with its Set-Cookie headers.  An error *)
(* response sets none.                                                     *)

StepCookie(r, held) ==
  CASE result[r] = "step" -> r
    [] result[r] \in {"bad_token", "code_locked", "signed_in", "signed_out"} -> Nil
    [] OTHER -> held

SessionCookie(r, held) ==
  CASE result[r] = "signed_in" -> r
    [] result[r] = "signed_out" -> Nil
    [] OTHER -> held

Answer(r) ==
  LET b == req[r].browser IN
  /\ At(r, "answer")
  /\ Goto(r, "done")
  /\ jar' = [jar EXCEPT ![b] = [step |-> StepCookie(r, jar[b].step),
                                session |-> SessionCookie(r, jar[b].session)]]
  /\ UNCHANGED <<tables, req, dropped>>

\* The handler's future is dropped, or a statement fails and ? ends the request with an error.
Drop(r) ==
  /\ pc[r] \notin {"idle", "done"} /\ r \notin dropped
  /\ dropped' = dropped \cup {r}
  /\ UNCHANGED <<tables, req, pc, result, jar>>

----------------------------------------------------------------------------
(* What happens to the tables outside the flow. *)

\* now() passes expires_at; a used row ages like a live one.
ExpireToken(t) ==
  /\ tokens[t].state \in {"live", "used"}
  /\ tokens' = [tokens EXCEPT ![t].state = "expired"]
  /\ UNCHANGED <<users, sessions, audit, req, pc, result, dropped, jar>>

ExpireSession(s) ==
  /\ sessions[s].state = "live"
  /\ sessions' = [sessions EXCEPT ![s].state = "expired"]
  /\ UNCHANGED <<users, tokens, audit, req, pc, result, dropped, jar>>

\* The statements of the users area's update handler.
EditStatus(e, status) ==
  /\ users[e].status \notin {"absent", status}
  /\ users' = [users EXCEPT ![e].status = status]
  /\ UNCHANGED <<tokens, sessions, audit, req, pc, result, dropped, jar>>

EditPassword(e, password) ==
  /\ users[e].status # "absent" /\ users[e].password # password
  /\ users' = [users EXCEPT ![e].password = password]
  /\ UNCHANGED <<tokens, sessions, audit, req, pc, result, dropped, jar>>

----------------------------------------------------------------------------

Arrive(r) ==
  \E b \in Browsers :
    \/ \E e \in Emails : BeginEmail(r, b, e)
    \/ \E code \in {"right", "wrong"} : BeginCode(r, b, code)
    \/ \E password \in Passwords \cup {"weak"} : BeginPassword(r, b, password)
    \/ BeginLogout(r, b)

\* The next step of a request in flight.
Work(r) ==
  \/ Cleanup(r) \/ FindEmail(r) \/ CreateUser(r) \/ RecordCreate(r) \/ CreateLoginToken(r)
  \/ LoadCodeToken(r)
  \/ LoadPasswordToken(r) \/ LoadUser(r) \/ SetPassword(r)
  \/ Bump(r) \/ Lock(r) \/ Consume(r) \/ CreateSession(r) \/ RecordLogin(r)
  \/ LoadSession(r) \/ DeleteSession(r) \/ LoadLogoutUser(r) \/ RecordLogout(r)
  \/ Answer(r)

Outside ==
  \/ \E t \in Requests : ExpireToken(t) \/ ExpireSession(t)
  \/ \E e \in Emails : \/ \E status \in StatusEdits : EditStatus(e, status)
                       \/ \E password \in PasswordEdits : EditPassword(e, password)

\* Every request has been answered or abandoned: the instance may rest here, and nowhere else.
Quiet ==
  /\ \A r \in Requests : pc[r] = "done" \/ r \in dropped
  /\ UNCHANGED vars

Next ==
  \/ \E r \in Requests : Arrive(r) \/ Work(r) \/ Drop(r)
  \/ Outside
  \/ Quiet

Spec == Init /\ [][Next]_vars

\* A request that is polled gets to its next await: the runtime polls every ready future and the
\* database answers or fails.  Nothing makes a client send a request or a row expire.
FairSpec == Spec /\ \A r \in Requests : WF_vars(Work(r))

----------------------------------------------------------------------------
(* Properties. *)

\* The columns and locals have their types.
TypeOK ==
  /\ users \in [Emails -> UserRow]
  /\ tokens \in [Requests -> TokenRow]
  /\ sessions \in [Requests -> SessionRow]
  /\ audit \subseteq AuditRow
  /\ req \in [Requests -> ReqRecord]
  /\ pc \in [Requests -> PcLabels]
  /\ result \in [Requests -> Results]
  /\ dropped \subseteq Requests
  /\ jar \in [Browsers -> JarRow]

\* t was minted for account e by the last step before the password: the email step, or with
\* email confirmation a right code given to a token that the email step minted for e.
StepFor(t, e) ==
  /\ t \in Requests /\ req[t].email = e
  /\ IF EmailConfirmation
       THEN /\ req[t].kind = "code" /\ req[t].guess = "right"
            /\ LET first == req[t].cookie IN
                 first \in Requests /\ req[first].kind = "email" /\ req[first].email = e
       ELSE req[t].kind = "email"

\* A session exists only at the end of the whole chain of steps, all of them taken for the
\* account the session acts as (verify_code, complete_login).
LoginChain ==
  \A s \in Requests : sessions[s].state # "none" =>
    /\ req[s].kind = "password" /\ req[s].guess \in Passwords
    /\ StepFor(req[s].cookie, sessions[s].email)

\* Once a client has been told that its step token was exchanged or locked, no later request can
\* use that token (service.rs: "single-use").
AnsweredTokenIsDead ==
  \A r \in Requests :
    \/ result[r] \in {"code_locked", "signed_in"}
    \/ result[r] = "step" /\ req[r].kind = "code"
    => ~Live(req[r].cookie)

\* A token that has taken the last wrong attempt is live only while the request that took it is
\* about to consume it, or was abandoned before it could (the two statements of the lock).
LockPending ==
  \A t \in Requests : Live(t) /\ tokens[t].attempts >= MaxAttempts =>
    \E r \in Requests : pc[r] = "lock" /\ req[r].cookie = t

\* A session without its audit entry belongs to a request that has not been answered: the entry
\* is its next statement (complete_login audits after it creates the session).
LoginAudited ==
  \A s \in Requests :
    /\ sessions[s].state # "none" => Entry("login", s) \in audit \/ pc[s] = "audit_login"
    /\ result[s] = "signed_in" => Entry("login", s) \in audit

\* However many first sign-ins race on an allowed domain, the account is created by one request:
\* it has at most one creation entry, and none only when its creator has yet to write it.
CreatedOnce ==
  \A e \in Emails :
    LET entries == {a \in audit : a.action = "create" /\ a.email = e} IN
    /\ \A a, b \in entries : a = b
    /\ entries # {} => InitUsers[e].status = "absent" /\ DomainAllowed(e)
    /\ users[e].status # InitUsers[e].status /\ InitUsers[e].status = "absent" =>
         \/ entries # {}
         \/ \E r \in Requests : pc[r] = "audit_create" /\ req[r].email = e

\* Unless an administrator activates accounts, a step token is only ever held for an account that
\* was active, or for a new one on an allowed domain (start_login turns the others away).
OnlyAdmitted ==
  "active" \notin StatusEdits =>
    \A t \in Requests : tokens[t].state # "none" =>
      LET first == InitUsers[tokens[t].email].status IN
      first = "active" \/ (first = "absent" /\ DomainAllowed(tokens[t].email))

\* A request goes past the password step only with the password its account has at that
\* statement: verified on the row read there, or just set by it (complete_login).
PasswordJudged ==
  [][\A r \in Requests :
       req[r].kind = "password" /\ pc[r] # "consume" /\ pc'[r] = "consume" =>
         users'[req[r].email].password = req[r].guess]_vars

\* A used or expired token is never live again and takes no more attempts; only the sweep
\* removes it (the used_at and expires_at filters of every statement).
DeadTokensStay ==
  [][\A t \in Requests : tokens[t].state \in {"used", "expired"} =>
       \/ tokens'[t] = tokens[t]
       \/ tokens'[t] = [tokens[t] EXCEPT !.state = "expired"]
       \/ tokens[t].state = "expired" /\ tokens'[t] = NoToken]_vars

\* The awaits before a handler has earned anything, and those before it is given what it earned.
Unearned == {"idle", "cleanup", "find_email", "create_user", "code_token", "password_token"}
Earned == {"audit_create", "create_token", "consume", "create_session"}

\* What a handler has earned by the statements behind it, and has yet to be given or to pay.
Stage(r) ==
  IF pc[r] \in Unearned \/ req[r].kind = "logout" THEN "none"
  ELSE CASE pc[r] \in Earned -> req[r].kind
         [] pc[r] = "get_user" -> "open"
         [] pc[r] = "set_password" -> "fresh"
         [] pc[r] = "bump" -> "wrong"
         [] OTHER -> "over"

RightOf(r) ==
  LET step == Stage(r) IN
  IF step = "none" \/ step = "over"
    THEN [step |-> step, email |-> Nil, ticket |-> Nil, guess |-> Nil]
    ELSE [step |-> step, email |-> req[r].email, ticket |-> req[r].cookie,
          guess |-> req[r].guess]

TicketOf(t) == [state |-> tokens[t].state, email |-> tokens[t].email,
                step |-> IF tokens[t].purpose = "email_ok" THEN "email" ELSE "code",
                misses |-> tokens[t].attempts]

Promise == INSTANCE SignIn WITH tickets <- [t \in Requests |-> TicketOf(t)],
                                right <- [r \in Requests |-> RightOf(r)]

\* However the statements of concurrent requests interleave, each request earns one right by what
\* it has seen and cashes it in once, for a ticket that is spent by then (start_login,
\* verify_code, complete_login against SignIn).
ImplementsSignIn == Promise!Spec

\* Every request comes to an end: answered, or abandoned on the way.
RequestsEnd ==
  \A r \in Requests : pc[r] # "idle" ~> (pc[r] = "done" \/ r \in dropped)

----------------------------------------------------------------------------
(* What the documents say and the flow does not do. *)

\* login_tokens.rs: a token is consumed atomically, "so a racing second consumer sees it as gone";
\* service.rs: each step is anchored by a "single-use token".  One token, at most one session.
SingleUse ==
  \A s1, s2 \in Requests :
    sessions[s1].state # "none" /\ sessions[s2].state # "none" /\ req[s1].cookie = req[s2].cookie
      => s1 = s2

\* 0001_users.sql: "the auth flow must reject `invited` (no password yet) and `disabled` accounts".
\* A session is only created for an account that is active at that statement.
InactiveNeverSignsIn ==
  [][\A s \in Requests : sessions[s].state = "none" /\ sessions'[s].state = "live" =>
       users[sessions'[s].email].status = "active"]_vars

\* complete_login: "verify (or, for a fresh domain account, set) the password".  The flow sets a
\* password only where there is none.
OnlyFreshIsSet ==
  [][\A r \in Requests : pc[r] = "set_password" /\ pc'[r] = "consume" =>
       users[req[r].email].password = Nil]_vars
=============================================================================
