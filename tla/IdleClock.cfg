\* Two commands, one E2B caller; thresholds of one and two seconds.
CONSTANTS
  Commands = {e1, e2}
  Callers = {c1}
  Policies <- MCPolicies
  Timeouts = {1, 3}
  MostBeat = 2
  MaxIdle = 5
  MaxSweep = 1
  Never = Never
  Free = Free
  Scanner = Scanner
CHECK_DEADLOCK FALSE
SPECIFICATION FairSpec
INVARIANTS
  IInv
  NotMidCommand
PROPERTIES
  ShortenedByCrossing
  Reaped
  Cools
