\* HangUpsHeard fails: who left before the stream was pumped is beaten for.
\* A command, a terminal, and a client that connects to either.
CONSTANTS
  p1 = p1
  p2 = p2
  s1 = s1
  s2 = s2
  Procs = {p1, p2}
  Streams = {s1, s2}
  Starter <- MCStarter
  Ttys = {p2}
  Chunks <- MCChunks
  Cap = 1
  Tail = 1
  EarlyOutput = FALSE
  Misreads = FALSE
  NoOne = NoOne
CHECK_DEADLOCK FALSE
SPECIFICATION FairSpec
PROPERTIES
  HangUpsHeard
