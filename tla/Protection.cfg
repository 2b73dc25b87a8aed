\* Nobody has to call, and nobody has to use the application.
CHECK_DEADLOCK FALSE
CONSTANTS
  Parts = {"resilience", "enhanced", "ratelimit", "accounts"}
  p1 = p1
  m1 = m1
  Provider = {p1}
  Model = {m1}
  None = None
  Owner <- MCOwner
  Caller = {c1}
  FailureThreshold = 2
  SuccessThreshold = 2
  RecoveryTimeout = 1
  LockAfter = 1
  ServerLockAfter = 2
  MaxWraps = 2
  MaxRun = 2
  EProvider = {p1}
  ECaller = {c1, c2, c3}
  Unused = Unused
  EFailureThreshold = 3
  ESuccessThreshold = 2
  ETimeout = 1
  ELockAfter = 2
  ELockTime = 4
  EMaxAge = 6
  EMaxRun = 4
  LPlace = {r1, r2}
  Client = {a1}
  LUser = {u1}
  Nobody = Nobody
  Limits <- MCLimits
  WindowSeconds = 1
  MaxHits = 3
  Request = {q1, q2}
  Name = {n1, n2}
  NoName = NoName
  MaxLoginAttempts = 1
  MaxSessions = 2
  MaxTokens = 1
SYMMETRY Symmetry
SPECIFICATION Spec
INVARIANTS
  OutagesCoherent
  OpenIsLocked
  AdmittedBounded
  AccountsOverlap
  SessionsOverlap
  StaleSessionsOverlap
  TokensOverlap
  GuessesBounded
