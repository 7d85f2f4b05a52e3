\* Passes, verbs that land late, scans, restores, one crash and one move of the
\* environment, interleaved.
CONSTANTS
  Ids = {i1}
  Clients = {c1}
  Scanner = Scanner
  Keeper = Keeper
  Free = Free
  NoId = NoId
  Ops = {"acquire"}
  Misfires = TRUE
  SlowDelete = FALSE
  MkdirFails = FALSE
  MaxDrift = 1
  MaxCrashes = 1
  Neighbours = {TRUE, FALSE}
  LongPass = FALSE
  SlowBirth = FALSE
  Leftovers = FALSE
SPECIFICATION NodeSpec
INVARIANTS
  KInv
PROPERTIES
  OnlyOrderedDie
  LedgerRepaired

