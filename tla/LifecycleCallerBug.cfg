\* A wake that queued behind the scanner's archive.
CONSTANTS
  Ids = {i1}
  Clients = {c1, c2}
  Scanner = Scanner
  Keeper = Keeper
  Free = Free
  NoId = NoId
  Ops = {"acquire", "use", "rebuild", "destroy", "create", "connect", "pause", "drop", "kill", "envd", "proxy"}
  Misfires = FALSE
  SlowDelete = FALSE
  MkdirFails = FALSE
  MaxDrift = 0
  MaxCrashes = 0
SPECIFICATION Spec
INVARIANTS NoCallerBug
