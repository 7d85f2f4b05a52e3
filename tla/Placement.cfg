\* A name asked for, placed, woken, killed and born again, a few verbs at a time.
CONSTANTS
  Nodes = {n1, n2}
  Clients = {c1, c2}
  Ids = {i1, i2}
  Nowhere = Nowhere
  Free = Free
  OpSets = {{"acquire", "destroy", "use"}, {"acquire", "kill"}, {"acquire", "spawn"}, {"spawn", "kill"}}
  Room = 1
  MaxRestarts = 1
  Overtaken = FALSE
  Returns = FALSE
SYMMETRY Symmetry
CHECK_DEADLOCK FALSE
SPECIFICATION OneLateSpec
INVARIANTS
  PInv
  NoneMeansGone
  GateKept
PROPERTIES
  LiveEntryStays
  OneHome
