\* A poll, another visitor, and a stream or the poll's retry.
CONSTANTS
  s1 = s1
  p1 = p1
  p2 = p2
  o1 = o1
  Streams = {s1}
  Polls = {p1, p2}
  Visitors = {v1}
  Ops = {o1}
  NoOp = NoOp
  OpOf <- MCOpOf
  MaxWatchers = 2
  MaxOps = 1
  Absences <- MCAbsences
  Keeper = Keeper
  Daemon = Daemon
  Free = Free
  NoOne = NoOne
CHECK_DEADLOCK FALSE
SPECIFICATION FairSpec
INVARIANTS
  WInv
  Owned
  OncePerOperation
  Told
PROPERTIES
  Reaped
