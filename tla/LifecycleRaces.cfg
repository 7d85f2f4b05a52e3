\* Two requests, the scanner and a restore on one id; every failure, a
\* death or prune or settings change, and a crash.
CONSTANTS
  Ids = {i1}
  Clients = {c1, c2}
  Scanner = Scanner
  Keeper = Keeper
  Free = Free
  NoId = NoId
  Ops = {"acquire", "use", "rebuild", "destroy", "create", "connect", "pause", "drop", "kill", "envd", "proxy"}
  Misfires = TRUE
  SlowDelete = FALSE
  MkdirFails = TRUE
  MaxDrift = 1
  MaxCrashes = 1
SPECIFICATION Spec
SYMMETRY Symmetric
INVARIANTS IInv BodyKept
PROPERTIES OnlyHolderMoves RestoringOwned
