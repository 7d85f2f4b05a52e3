\* A wake of a paused sandbox cut short by a crash between its thaw and its ledger write.
CONSTANTS
  Ids = {i1}
  Clients = {c1}
  Scanner = Scanner
  Keeper = Keeper
  Free = Free
  NoId = NoId
  Ops = {"acquire", "pause"}
  Misfires = FALSE
  SlowDelete = FALSE
  MkdirFails = FALSE
  MaxDrift = 0
  MaxCrashes = 1
  Neighbours = {TRUE}
  LongPass = FALSE
  SlowBirth = FALSE
  Leftovers = FALSE
SPECIFICATION NodeSpec
INVARIANTS AwakeNotPaused
