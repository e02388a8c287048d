SPECIFICATION FairSpec
CONSTANTS
  r1 = r1  r2 = r2  r3 = r3  r4 = r4  b1 = b1  b2 = b2  ada = ada  eve = eve  p1 = p1  p2 = p2
  Nil = Nil
  Requests = {r1, r2, r3}
  Browsers = {b1}
  Emails = {eve}
  Passwords = {p1, p2}
  AllowedEmails = {eve}
  InitUsers <- Newcomers
  EmailConfirmation = FALSE
  MaxAttempts = 1
  StatusEdits = {"disabled"}
  PasswordEdits = {p2}
INVARIANTS LoginAudited CreatedOnce
PROPERTIES PasswordJudged RequestsEnd
