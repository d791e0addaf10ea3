\* An administrator creates an account.
SPECIFICATION Spec
CONSTANTS
  OneColumn = TRUE  OneIsTrue = TRUE
  r1 = r1  r2 = r2  b1 = b1  b2 = b2
  Requests = {r1, r2}
  Browsers = {b1, b2}
  Names = {"root", "alice", "bob"}
  Seeds = {"root", "alice"}
  Admins = {"root"}
  PasswordOf <- MCPasswordOf
  Passwords = {"secret", "hunter2"}
  NewUsers <- MCNewUsers
  Switched = {"alice"}
  Salts = {"salt"}
  SessionTTL = 1
  MaxClock = 1
  MaxTokens = 1
  MaxAsked = 1
CHECK_DEADLOCK FALSE
INVARIANT HashesParse
