\* Two requests and the scanner; every verb and transfer may fail, none lands late.
\* Every verb that joins a restore, and two that do not.
CONSTANTS
  Ids = {i1}
  Clients = {c1, c2}
  Scanner = Scanner
  Keeper = Keeper
  Free = Free
  NoId = NoId
  Ops = {"acquire", "rebuild", "create", "connect", "kill", "envd"}
  Misfires = FALSE
  SlowDelete = FALSE
  MkdirFails = FALSE
  MaxDrift = 0
  MaxCrashes = 0
SPECIFICATION FairSpec
PROPERTIES ReadyRuns Answered RestoreEnds
