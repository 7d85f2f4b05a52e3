\* Passes over a node at rest make ledger and bodies agree, after a death, a prune,
\* a change of settings or a crash.
CONSTANTS
  Ids = {i1}
  Clients = {c1}
  Scanner = Scanner
  Keeper = Keeper
  Free = Free
  NoId = NoId
  Ops = {"acquire", "destroy"}
  Misfires = FALSE
  SlowDelete = FALSE
  MkdirFails = TRUE
  MaxDrift = 1
  MaxCrashes = 1
  Neighbours = {TRUE, FALSE}
  LongPass = TRUE
  SlowBirth = TRUE
  Leftovers = TRUE
SPECIFICATION AlternateSpec
PROPERTIES
  Heals

