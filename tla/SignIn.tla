------------------------------- MODULE SignIn -------------------------------
(***************************************************************************)
(* What the sign-in flow promises, without handlers, cookies and answers.  *)
(* A request earns one right, by one look at the tables, and cashes it in  *)
(* at most once: an account that is admitted for a ticket, a ticket and a  *)
(* right code for the next ticket, a ticket and the password of the        *)
(* account for a session.  A ticket is spent before anything is given for  *)
(* it, and a wrong guess earns nothing but a miss on its ticket.           *)
(***************************************************************************)
EXTENDS Naturals

CONSTANTS Requests, Emails, Passwords, Nil, AllowedEmails, InitUsers, EmailConfirmation,
          MaxAttempts, StatusEdits, PasswordEdits

VARIABLES
  users,     \* [Emails -> [status, password]]
  tickets,   \* [Requests -> [state, email, step, misses]], by the request that was given it
  sessions,  \* [Requests -> [state, email]], by the request that was given it
  right      \* [Requests -> [step, email, ticket, guess]]: what a request has earned

NoTicket == [state |-> "none", email |-> Nil, step |-> "email", misses |-> 0]
NoSession == [state |-> "none", email |-> Nil]
Bare(step) == [step |-> step, email |-> Nil, ticket |-> Nil, guess |-> Nil]

Init ==
  /\ users = InitUsers
  /\ tickets = [t \in Requests |-> NoTicket]
  /\ sessions = [s \in Requests |-> NoSession]
  /\ right = [r \in Requests |-> Bare("none")]

----------------------------------------------------------------------------
(* Rights and tickets. *)

Has(r, step) == right[r].step = step
Earns(r, earned) == right' = [right EXCEPT ![r] = earned]
Turns(r, step) == right' = [right EXCEPT ![r].step = step]
Ends(r) == Earns(r, Bare("over"))

Live(t) == tickets[t].state = "live"
Becomes(t, state) == tickets' = [tickets EXCEPT ![t].state = state]

\* The step whose ticket opens the password step.
LastStep == IF EmailConfirmation THEN "code" ELSE "email"

----------------------------------------------------------------------------
(* Earning.  The first four are for a request that has earned nothing yet. *)

Admit(r, e) ==
  /\ users[e].status = "active"
  /\ Earns(r, [Bare("email") EXCEPT !.email = e])
  /\ UNCHANGED <<users, tickets, sessions>>

Join(r, e) ==
  /\ users[e].status = "absent" /\ e \in AllowedEmails
  /\ users' = [users EXCEPT ![e] = [status |-> "active", password |-> Nil]]
  /\ Earns(r, [Bare("email") EXCEPT !.email = e])
  /\ UNCHANGED <<tickets, sessions>>

GuessCode(r, t, guess) ==
  /\ EmailConfirmation /\ Live(t) /\ tickets[t].step = "email"
  /\ Earns(r, [step |-> IF guess = "right" THEN "code" ELSE "wrong",
               email |-> tickets[t].email, ticket |-> t, guess |-> guess])
  /\ UNCHANGED <<users, tickets, sessions>>

Open(r, t, guess) ==
  /\ Live(t) /\ tickets[t].step = LastStep
  /\ Earns(r, [step |-> "open", email |-> tickets[t].email, ticket |-> t, guess |-> guess])
  /\ UNCHANGED <<users, tickets, sessions>>

\* It is turned away.
Refuse(r) == Ends(r) /\ UNCHANGED <<users, tickets, sessions>>

GuessPassword(r) ==
  LET kept == users[right[r].email].password IN
  /\ Has(r, "open")
  /\ \/ kept # Nil /\ right[r].guess = kept /\ Turns(r, "password")
     \/ kept # Nil /\ right[r].guess # kept /\ Turns(r, "wrong")
     \/ kept = Nil /\ right[r].guess \in Passwords /\ Turns(r, "fresh")
     \/ kept = Nil /\ right[r].guess \notin Passwords /\ Ends(r)
  /\ UNCHANGED <<users, tickets, sessions>>

\* The account had no password when the request looked.
Choose(r) ==
  /\ Has(r, "fresh")
  /\ users' = [users EXCEPT ![right[r].email].password = right[r].guess]
  /\ Turns(r, "password")
  /\ UNCHANGED <<tickets, sessions>>

----------------------------------------------------------------------------
(* Cashing in. *)

Miss(r) ==
  LET t == right[r].ticket IN
  /\ Has(r, "wrong")
  /\ tickets' = IF Live(t) THEN [tickets EXCEPT ![t].misses = @ + 1] ELSE tickets
  /\ Ends(r)
  /\ UNCHANGED <<users, sessions>>

Lock(t) ==
  /\ Live(t) /\ tickets[t].misses >= MaxAttempts
  /\ Becomes(t, "used")
  /\ UNCHANGED <<users, sessions, right>>

Spend(r) ==
  /\ Has(r, "code") \/ Has(r, "password")
  /\ Live(right[r].ticket)
  /\ Becomes(right[r].ticket, "used")
  /\ UNCHANGED <<users, sessions, right>>

GiveTicket(r) ==
  /\ Has(r, "email") \/ (Has(r, "code") /\ ~Live(right[r].ticket))
  /\ tickets[r].state = "none"
  /\ tickets' = [tickets EXCEPT ![r] = [state |-> "live", email |-> right[r].email,
                                        step |-> right[r].step, misses |-> 0]]
  /\ Ends(r)
  /\ UNCHANGED <<users, sessions>>

GiveSession(r) ==
  /\ Has(r, "password") /\ ~Live(right[r].ticket)
  /\ sessions[r].state = "none"
  /\ sessions' = [sessions EXCEPT ![r] = [state |-> "live", email |-> right[r].email]]
  /\ Ends(r)
  /\ UNCHANGED <<users, tickets>>

----------------------------------------------------------------------------
(* What takes rights away or changes the accounts. *)

SignOut(s) == /\ sessions' = [sessions EXCEPT ![s] = NoSession]
              /\ UNCHANGED <<users, tickets, right>>

ExpireTicket(t) == /\ tickets[t].state \in {"live", "used"} /\ Becomes(t, "expired")
                   /\ UNCHANGED <<users, sessions, right>>

ExpireSession(s) == /\ sessions[s].state = "live"
                    /\ sessions' = [sessions EXCEPT ![s].state = "expired"]
                    /\ UNCHANGED <<users, tickets, right>>

Sweep == /\ tickets' = [t \in Requests |-> IF tickets[t].state = "expired" THEN NoTicket
                                                                           ELSE tickets[t]]
         /\ UNCHANGED <<users, sessions, right>>

Administer(e) ==
  /\ users[e].status # "absent"
  /\ \/ \E status \in StatusEdits : users' = [users EXCEPT ![e].status = status]
     \/ \E password \in PasswordEdits : users' = [users EXCEPT ![e].password = password]
  /\ UNCHANGED <<tickets, sessions, right>>

----------------------------------------------------------------------------

\* What a request does for itself takes it from one right to another.
Move(r) ==
  \/ /\ Has(r, "none")
     /\ \/ \E e \in Emails : Admit(r, e) \/ Join(r, e)
        \/ \E t \in Requests, guess \in {"right", "wrong"} : GuessCode(r, t, guess)
        \/ \E t \in Requests, guess \in Passwords \cup {"weak"} : Open(r, t, guess)
        \/ Refuse(r)
  \/ GuessPassword(r) \/ Choose(r) \/ Miss(r) \/ GiveTicket(r) \/ GiveSession(r)

\* What happens to a ticket, a session or an account leaves every right as it is.
Happen ==
  \/ \E t \in Requests : SignOut(t) \/ Spend(t) \/ Lock(t) \/ ExpireTicket(t) \/ ExpireSession(t)
  \/ Sweep
  \/ \E e \in Emails : Administer(e)

Next == \/ \E r \in Requests : right'[r] # right[r] /\ Move(r)
        \/ UNCHANGED right /\ Happen

Spec == Init /\ [][Next]_<<users, tickets, sessions, right>>
=============================================================================
