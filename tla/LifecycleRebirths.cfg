\* A name that dies and is born again under a second id, while its old id's
\* restore still runs; verbs and transfers fail, none lands late; one crash.
CONSTANTS
  Ids = {i1, i2}
  Clients = {c1, c2}
  Scanner = Scanner
  Keeper = Keeper
  Free = Free
  NoId = NoId
  Ops = {"acquire", "destroy", "create", "kill"}
  Misfires = FALSE
  SlowDelete = FALSE
  MkdirFails = TRUE
  MaxDrift = 0
  MaxCrashes = 1
SPECIFICATION Spec
SYMMETRY Symmetric
PROPERTIES LedgerKept
