\* An E2B kill that queued behind the scanner and finds a row restoring.
CONSTANTS
  Ids = {i1}
  Clients = {c1, c2}
  Scanner = Scanner
  Keeper = Keeper
  Free = Free
  NoId = NoId
  Ops = {"acquire", "use", "rebuild", "destroy", "create", "connect", "pause", "drop", "kill", "envd", "proxy"}
  Misfires = FALSE
  SlowDelete = FALSE
  MkdirFails = FALSE
  MaxDrift = 0
  MaxCrashes = 0
SPECIFICATION Spec
PROPERTIES RestoringOwnedAlone
