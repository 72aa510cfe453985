CONSTANTS
  c1 = c1
  c2 = c2
  Callers = {c1, c2}
  MaxAge = 2
  MaxLogins = 1
  MaxCrashes = 1
  Faults = {"network", "storage", "refusal"}
SPECIFICATION FairSpec
CHECK_DEADLOCK FALSE
INVARIANTS
  TypeOK
  NoParallelExchange
  SpentTokensAreReplaced
  SignOutSticks
PROPERTIES
  SessionIsKept
  CallersAreAnswered
