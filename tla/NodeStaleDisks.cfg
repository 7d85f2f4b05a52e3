\* A sandbox archived, restored and stopped again while one pass goes on.
CONSTANTS
  Ids = {i1}
  Clients = {c1}
  Scanner = Scanner
  Keeper = Keeper
  Free = Free
  NoId = NoId
  Ops = {"acquire", "destroy"}
  Misfires = FALSE
  SlowDelete = FALSE
  MkdirFails = FALSE
  MaxDrift = 0
  MaxCrashes = 0
  Neighbours = {TRUE, FALSE}
  LongPass = TRUE
  SlowBirth = FALSE
  Leftovers = FALSE
SPECIFICATION NodeSpec
PROPERTIES OnlyOrderedDie

