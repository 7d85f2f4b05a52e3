\* Two nodes; MCFleet has the days.
CONSTANTS
  Nodes = {n1, n2}
  LastBuild = 2
  LastVersion = 3
  Days <- MCDays
CHECK_DEADLOCK FALSE
SPECIFICATION FairSpec
INVARIANTS
  FInv
  OneAway
  TargetHeld
PROPERTIES
  ToldOnce
  Converges
  RollEnds
