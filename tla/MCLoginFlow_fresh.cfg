SPECIFICATION Spec
CONSTANTS
  r1 = r1  r2 = r2  r3 = r3  r4 = r4  b1 = b1  b2 = b2  ada = ada  eve = eve  p1 = p1  p2 = p2
  Nil = Nil
  Browsers = {b1}
  Passwords = {p1, p2}
  EmailConfirmation = FALSE
  MaxAttempts = 2
  PasswordEdits = {}
  Requests = {r1, r2, r3, r4}
  Emails = {ada}
  AllowedEmails = {ada}
  InitUsers <- Newcomers
  StatusEdits = {}
SYMMETRY Interchangeable
PROPERTIES OnlyFreshIsSet
