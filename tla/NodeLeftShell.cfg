\* A restore beside a shell an unfinished clean-up left, cut short by a crash.
CONSTANTS
  Ids = {i1}
  Clients = {c1}
  Scanner = Scanner
  Keeper = Keeper
  Free = Free
  NoId = NoId
  Ops = {"acquire"}
  Misfires = FALSE
  SlowDelete = FALSE
  MkdirFails = FALSE
  MaxDrift = 0
  MaxCrashes = 1
  Neighbours = {TRUE, FALSE}
  LongPass = FALSE
  SlowBirth = FALSE
  Leftovers = TRUE
SPECIFICATION NodeSpec
INVARIANTS BodyKept

