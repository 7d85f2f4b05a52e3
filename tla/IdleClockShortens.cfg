\* connect against "only ever extended, never shortened".
CONSTANTS
  Commands = {e1}
  Callers = {c1}
  Policies <- MCPolicies
  Timeouts = {1, 3}
  MostBeat = 2
  MaxIdle = 6
  MaxSweep = 1
  Never = Never
  Free = Free
  Scanner = Scanner
CHECK_DEADLOCK FALSE
SPECIFICATION Spec
PROPERTIES
  NeverShortened
