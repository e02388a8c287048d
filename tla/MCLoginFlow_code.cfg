SPECIFICATION Spec
CONSTANTS
  r1 = r1  r2 = r2  r3 = r3  r4 = r4  b1 = b1  b2 = b2  ada = ada  eve = eve  p1 = p1  p2 = p2
  Nil = Nil
  Requests = {r1, r2, r3, r4}
  Browsers = {b1, b2}
  Emails = {ada, eve}
  Passwords = {p1}
  AllowedEmails = {}
  InitUsers <- ActiveAndInvited
  EmailConfirmation = TRUE
  MaxAttempts = 2
  StatusEdits = {}
  PasswordEdits = {}
SYMMETRY Interchangeable
INVARIANTS TypeOK LockPending LoginChain AnsweredTokenIsDead OnlyAdmitted
PROPERTIES DeadTokensStay ImplementsSignIn
