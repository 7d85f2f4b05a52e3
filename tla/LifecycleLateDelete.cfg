\* The object delete that ends a restore lands after the next archive.
CONSTANTS
  Ids = {i1}
  Clients = {c1}
  Scanner = Scanner
  Keeper = Keeper
  Free = Free
  NoId = NoId
  Ops = {"acquire", "use", "rebuild", "destroy", "create", "connect", "pause", "drop", "kill", "envd", "proxy"}
  Misfires = TRUE
  SlowDelete = TRUE
  MkdirFails = FALSE
  MaxDrift = 0
  MaxCrashes = 0
SPECIFICATION Spec
INVARIANTS BodyKept
