\* The only sandbox of the node is in cold storage, with local leftovers.
CONSTANTS
  Ids = {i1}
  Clients = {c1}
  Scanner = Scanner
  Keeper = Keeper
  Free = Free
  NoId = NoId
  Ops = {"acquire", "destroy"}
  Misfires = FALSE
  SlowDelete = FALSE
  MkdirFails = FALSE
  MaxDrift = 0
  MaxCrashes = 1
  Neighbours = {FALSE}
  LongPass = TRUE
  SlowBirth = TRUE
  Leftovers = TRUE
SPECIFICATION AlternateSpec
PROPERTIES ServesAgain

