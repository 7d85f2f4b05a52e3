CONSTANTS
  Keys = {k1, k2}
  Tasks = {t1, t2, t3, t4}
  None = None
SPECIFICATION FairSpec
INVARIANTS
  EntryWhileBusy
PROPERTIES
  ChainedRuns
  ServesInOrder
