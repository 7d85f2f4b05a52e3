------------------------ MODULE ProcessStreamsProofs ------------------------
(***************************************************************************)
(* Proofs about the process streams, for any processes, streams, amounts   *)
(* of output and limits.                                                   *)
(***************************************************************************)
EXTENDS ProcessStreams, Integers, TLAPS

USE StreamAssumption DEF StreamAssumption

-----------------------------------------------------------------------------
(* What the parts of the handlers do. *)
LEMMA FullFacts ==
  ASSUME TypeOK, NEW slow
  PROVE  Full(slow) \in [Streams -> Conns] /\ \A s \in Streams : Full(slow)[s].open = conn[s].open
<1>1. ASSUME NEW c \in Conns PROVE [c EXCEPT !.full = TRUE] \in Conns /\ [c EXCEPT !.full = TRUE].open = c.open
  BY DEF Conns
<1> QED BY <1>1 DEF TypeOK, Full

LEMMA ToldFacts ==
  ASSUME NEW x \in Wires, NEW end \in {"exit", "failure"}
  PROVE  /\ Told(x, end) \in Wires /\ Told(x, end).seen = x.seen
         /\ Told(x, end).end = IF x.end = "none" THEN end ELSE x.end
  BY DEF Told, Wires

LEMMA FinalizeFacts ==
  ASSUME TypeOK, NEW p \in Procs, NEW end \in {"exit", "failure"}, Finalize(p, end)
  PROVE  /\ rec' \in [Procs -> {"none", "listed", "ended"}] /\ subs' \in [Procs -> SUBSET Streams]
         /\ wire' \in [Streams -> Wires] /\ conn' \in [Streams -> Conns]
         /\ \A s \in Streams : conn'[s].open = conn[s].open /\ wire'[s].seen = wire[s].seen
         /\ rec[p] # "listed" => UNCHANGED <<rec, subs, wire>>
         /\ rec[p] = "listed" =>
              /\ rec' = [rec EXCEPT ![p] = "ended"] /\ subs' = [subs EXCEPT ![p] = {}]
              /\ \A s \in Streams : wire'[s].end =
                   IF s \in subs[p] /\ wire[s].end = "none" THEN end ELSE wire[s].end
<1>1. CASE rec[p] # "listed" BY <1>1 DEF Finalize, TypeOK
<1>2. CASE rec[p] = "listed"
  <2>1. conn' \in [Streams -> Conns] /\ \A s \in Streams : conn'[s].open = conn[s].open
    BY <1>2, FullFacts DEF Finalize
  <2>2. wire' = [s \in Streams |-> IF s \in subs[p] THEN Told(wire[s], end) ELSE wire[s]]
    BY <1>2 DEF Finalize
  <2>3. \A s \in Streams : wire[s] \in Wires BY DEF TypeOK
  <2>4. rec' = [rec EXCEPT ![p] = "ended"] /\ subs' = [subs EXCEPT ![p] = {}] BY <1>2 DEF Finalize
  <2> QED BY <1>2, <2>1, <2>2, <2>3, <2>4, ToldFacts DEF TypeOK
<1> QED BY <1>1, <1>2

LEMMA LeavesFacts ==
  ASSUME TypeOK, NEW s \in Streams, Leaves(s)
  PROVE  /\ strm' \in [Streams -> Handlers] /\ wire' \in [Streams -> Wires] /\ conn' \in [Streams -> Conns]
         /\ waits' \in [Procs -> SUBSET Streams]
         /\ strm'[s].pc = "done" /\ strm'[s].to = strm[s].to
         /\ wire'[s].end = "none" /\ ~conn'[s].open
         /\ \A t \in Streams \ {s} : strm'[t] = strm[t] /\ wire'[t] = wire[t] /\ conn'[t] = conn[t]
<1>1. ASSUME NEW h \in Handlers
      PROVE  LET g == [h EXCEPT !.pc = "done"] IN g \in Handlers /\ g.pc = "done" /\ g.to = h.to
  BY DEF Handlers
<1>2. strm' = [strm EXCEPT ![s] = [strm[s] EXCEPT !.pc = "done"]] BY DEF Leaves, Goes
<1>3. strm[s] \in Handlers BY DEF TypeOK
<1>4. strm' \in [Streams -> Handlers] /\ strm'[s].pc = "done" /\ strm'[s].to = strm[s].to
  BY <1>1, <1>2, <1>3 DEF TypeOK
<1> QED BY <1>2, <1>4 DEF Leaves, Released, Gone, TypeOK, Wires, Conns

LEMMA OverFacts ==
  ASSUME NEW how \in {"off", "on", "done", "cut"}
  PROVE  /\ Over(how) \in Pumps /\ Over(how).at = how /\ Over(how).mem = 0 /\ Over(how).sent = 0
         /\ ~Over(how).sinking /\ ~Over(how).tail
  BY DEF Over, Pumps

-----------------------------------------------------------------------------
(* Types. *)
LEMMA InitType == Init => TypeOK
<1>1. Over("off") \in Pumps BY OverFacts
<1>2. ASSUME NEW p \in Procs PROVE [at |-> "none", left |-> Chunks[p], held |-> 0] \in Processes
  <2>1. Chunks[p] \in Nat /\ 0 \in 0..Cap OBVIOUS
  <2> QED BY <2>1 DEF Processes
<1>3. /\ [pc |-> "waking", to |-> NoOne, deaf |-> FALSE] \in Handlers /\ [seen |-> 0, end |-> "none"] \in Wires
      /\ [open |-> TRUE, full |-> FALSE] \in Conns
  BY DEF Handlers, Wires, Conns
<1> SUFFICES ASSUME Init PROVE TypeOK OBVIOUS
<1>4. proc \in [Procs -> Processes] /\ pump \in [Procs -> Pumps] BY <1>1, <1>2 DEF Init
<1>5. strm \in [Streams -> Handlers] /\ wire \in [Streams -> Wires] /\ conn \in [Streams -> Conns]
  BY <1>3 DEF Init
<1> QED BY <1>4, <1>5 DEF Init, TypeOK

LEMMA PumpRecord ==
  ASSUME NEW x \in Pumps
  PROVE  /\ \A how \in {"off", "on", "done", "cut"} : [x EXCEPT !.at = how] \in Pumps
         /\ [x EXCEPT !.mem = @ + 1] \in Pumps
         /\ [x EXCEPT !.sinking = TRUE, !.sent = @ + 1] \in Pumps
         /\ x.mem > 0 => [x EXCEPT !.sinking = FALSE, !.mem = @ - 1] \in Pumps
         /\ \A b \in BOOLEAN : [x EXCEPT !.asked = TRUE, !.tail = b] \in Pumps /\ [x EXCEPT !.tail = b] \in Pumps
<1>1. \A how \in {"off", "on", "done", "cut"} : [x EXCEPT !.at = how] \in Pumps BY DEF Pumps
<1>2. [x EXCEPT !.mem = @ + 1] \in Pumps BY DEF Pumps
<1>3. [x EXCEPT !.sinking = TRUE, !.sent = @ + 1] \in Pumps
  <2>1. x.sent + 1 \in Nat BY DEF Pumps
  <2>2. ASSUME NEW n \in Nat PROVE [x EXCEPT !.sinking = TRUE, !.sent = n] \in Pumps BY Zenon DEF Pumps
  <2> QED BY <2>1, <2>2
<1>4. x.mem > 0 => [x EXCEPT !.sinking = FALSE, !.mem = @ - 1] \in Pumps
  <2>1. x.mem > 0 => x.mem - 1 \in Nat BY DEF Pumps
  <2>2. ASSUME NEW n \in Nat PROVE [x EXCEPT !.sinking = FALSE, !.mem = n] \in Pumps BY Zenon DEF Pumps
  <2> QED BY <2>1, <2>2
<1>5. ASSUME NEW b \in BOOLEAN
      PROVE  [x EXCEPT !.asked = TRUE, !.tail = b] \in Pumps /\ [x EXCEPT !.tail = b] \in Pumps
  BY DEF Pumps
<1> QED BY <1>1, <1>2, <1>3, <1>4, <1>5

LEMMA ProcRecord ==
  ASSUME NEW x \in Processes
  PROVE  /\ \A how \in {"none", "running", "exited", "handled"} : [x EXCEPT !.at = how] \in Processes
         /\ x.left > 0 /\ x.held < Cap => [x EXCEPT !.left = @ - 1, !.held = @ + 1] \in Processes
         /\ x.held > 0 => [x EXCEPT !.held = @ - 1] \in Processes
         /\ [x EXCEPT !.held = 0] \in Processes
<1>0. Cap \in Nat \ {0} /\ x.left \in Nat /\ x.held \in 0..Cap BY DEF Processes
<1>1. \A how \in {"none", "running", "exited", "handled"} : [x EXCEPT !.at = how] \in Processes BY DEF Processes
<1>2. x.left > 0 /\ x.held < Cap => [x EXCEPT !.left = @ - 1, !.held = @ + 1] \in Processes
  <2>1. x.left > 0 /\ x.held < Cap => x.left - 1 \in Nat /\ x.held + 1 \in 0..Cap BY <1>0
  <2>2. ASSUME NEW m \in Nat, NEW n \in 0..Cap PROVE [x EXCEPT !.left = m, !.held = n] \in Processes
    BY Zenon DEF Processes
  <2> QED BY <2>1, <2>2
<1>3. x.held > 0 => [x EXCEPT !.held = @ - 1] \in Processes BY <1>0 DEF Processes
<1>4. [x EXCEPT !.held = 0] \in Processes BY <1>0 DEF Processes
<1> QED BY <1>1, <1>2, <1>3, <1>4

LEMMA StreamRecord ==
  ASSUME NEW x \in Handlers, NEW p \in Procs
  PROVE  /\ \A c \in {"waking", "sizing", "broken", "pumping", "closing", "done"} : [x EXCEPT !.pc = c] \in Handlers
         /\ [x EXCEPT !.pc = "sizing", !.to = p] \in Handlers
         /\ \A b \in BOOLEAN : [pc |-> "pumping", to |-> p, deaf |-> b] \in Handlers
  BY DEF Handlers

LEMMA NextType == ASSUME TypeOK, Conserved, [Next]_vars PROVE TypeOK'
<1> USE DEF TypeOK
<1>1. ASSUME NEW p \in Procs, Process(p) PROVE TypeOK'
  <2>0. /\ proc[p] \in Processes /\ pump[p] \in Pumps /\ Starter[p] \in Streams
        /\ strm[Starter[p]] \in Handlers /\ conn[Starter[p]] \in Conns
    OBVIOUS
  <2>1. CASE Spawn(p)
    <3>1. strm' \in [Streams -> Handlers]
      <4>1. (~conn[Starter[p]].open) \in BOOLEAN BY <2>0 DEF Conns
      <4>2. CASE p \in Ttys
        <5>1. [strm[Starter[p]] EXCEPT !.pc = "sizing", !.to = p] \in Handlers BY <2>0, StreamRecord
        <5>2. strm' = [strm EXCEPT ![Starter[p]] = [strm[Starter[p]] EXCEPT !.pc = "sizing", !.to = p]]
          BY <2>0, <2>1, <4>2 DEF Spawn
        <5> QED BY <2>0, <5>1, <5>2
      <4>3. CASE p \notin Ttys
        <5>1. [pc |-> "pumping", to |-> p, deaf |-> ~conn[Starter[p]].open] \in Handlers BY <4>1, StreamRecord
        <5> QED BY <2>0, <2>1, <4>3, <5>1 DEF Spawn, Pumping
      <4> QED BY <4>2, <4>3
    <3>2. proc' \in [Procs -> Processes] /\ pump' \in [Procs -> Pumps]
      BY <2>0, <2>1, PumpRecord, ProcRecord DEF Spawn
    <3> QED BY <2>1, <3>1, <3>2 DEF Spawn
  <2>2. CASE Sized(p)
    <3>1. strm' \in [Streams -> Handlers]
      <4>1. (~conn[Starter[p]].open) \in BOOLEAN BY <2>0 DEF Conns
      <4>2. [pc |-> "pumping", to |-> p, deaf |-> ~conn[Starter[p]].open] \in Handlers BY <4>1, StreamRecord
      <4>3. [strm[Starter[p]] EXCEPT !.pc = "broken"] \in Handlers BY <2>0, StreamRecord
      <4> QED BY <2>0, <2>2, <4>2, <4>3 DEF Sized, Pumping, Goes
    <3> QED BY <2>2, <3>1 DEF Sized
  <2>3. CASE StartFails(p)
    <3>1. proc' \in [Procs -> Processes] /\ pump' \in [Procs -> Pumps]
      <4>1. [proc[p] EXCEPT !.at = "running"] \in Processes /\ [pump[p] EXCEPT !.at = "cut"] \in Pumps
        BY <2>0, PumpRecord, ProcRecord
      <4>2. CASE UNCHANGED <<proc, pump>> BY <2>0, <4>2
      <4>3. CASE proc' = [proc EXCEPT ![p].at = "running"] /\ pump' = [pump EXCEPT ![p].at = "cut"]
        BY <2>0, <4>1, <4>3
      <4> QED BY <2>3, <4>2, <4>3 DEF StartFails
    <3> QED BY <2>0, <2>3, <3>1, LeavesFacts DEF StartFails
  <2>4. CASE SizeFails(p) BY <2>0, <2>4, LeavesFacts DEF SizeFails
  <2>5. CASE Write(p) BY <2>0, <2>5, ProcRecord DEF Write
  <2>6. CASE Exit(p) BY <2>0, <2>6, ProcRecord DEF Exit
  <2>7. CASE HandleExit(p) BY <2>7 DEF HandleExit
  <2>8. CASE Handled(p) BY <2>0, <2>8, ProcRecord DEF Handled
  <2>9. CASE Read(p)
    <3>1. proc[p].held > 0 BY <2>9 DEF Read
    <3> QED BY <2>0, <2>9, <3>1, PumpRecord, ProcRecord DEF Read
  <2>10. CASE Sink(p)
    <3>1. pump' \in [Procs -> Pumps] BY <2>0, <2>10, PumpRecord DEF Sink
    <3>2. ASSUME NEW w \in Wires PROVE [w EXCEPT !.seen = @ + 1] \in Wires
      <4>1. w.seen + 1 \in Nat BY DEF Wires
      <4> QED BY <4>1 DEF Wires
    <3>3. wire' \in [Streams -> Wires] BY <2>10, <3>2 DEF Sink
    <3>4. PICK slow \in Slow(subs[p]) : waits' = [waits EXCEPT ![p] = slow] /\ conn' = Full(slow) BY <2>10 DEF Sink
    <3>5. slow \in SUBSET Streams BY DEF Slow
    <3> QED BY <2>10, <3>1, <3>3, <3>4, <3>5, FullFacts DEF Sink
  <2>11. CASE Sunk(p)
    <3>1. pump[p].mem > 0 BY <2>11 DEF Sunk, Conserved
    <3> QED BY <2>0, <2>11, <3>1, PumpRecord DEF Sunk
  <2>12. CASE Probe(p)
    <3>1. (proc[p].at # "running") \in BOOLEAN OBVIOUS
    <3> QED BY <2>0, <2>12, <3>1, PumpRecord DEF Probe
  <2>13. CASE ProbeUnanswered(p)
    <3>1. PICK silent \in BOOLEAN : pump' = [pump EXCEPT ![p].tail = silent] BY <2>13 DEF ProbeUnanswered
    <3>2. [pump[p] EXCEPT !.tail = silent] \in Pumps BY <2>0, PumpRecord
    <3> QED BY <2>13, <3>1, <3>2 DEF ProbeUnanswered
  <2>14. CASE Settle(p)
    <3>1. PICK end \in {"exit", "failure"} : Finalize(p, end) BY <2>14 DEF Settle
    <3> QED BY <2>14, <3>1, FinalizeFacts, OverFacts DEF Settle
  <2>15. CASE Overdue(p)
    <3>1. Finalize(p, "failure") BY <2>15 DEF Overdue
    <3>2. proc' \in [Procs -> Processes] /\ pump' \in [Procs -> Pumps] /\ waits' \in [Procs -> SUBSET Streams]
      BY <2>0, <2>15, ProcRecord, OverFacts DEF Overdue
    <3> QED BY <2>15, <3>1, <3>2, FinalizeFacts DEF Overdue
  <2> QED BY <1>1, <2>1, <2>2, <2>3, <2>4, <2>5, <2>6, <2>7, <2>8, <2>9, <2>10, <2>11, <2>12, <2>13, <2>14, <2>15
       DEF Process, Output
<1>2. ASSUME NEW s \in Streams, Stream(s) PROVE TypeOK'
  <2>0. strm[s] \in Handlers /\ conn[s] \in Conns /\ wire[s] \in Wires OBVIOUS
  <2>1. CASE Refused(s) BY <2>1, LeavesFacts DEF Refused
  <2>2. ASSUME NEW p \in Procs, Connect(s, p) PROVE TypeOK'
    <3>1. pump[p] \in Pumps /\ (~conn[s].open) \in BOOLEAN BY <2>0 DEF Conns
    <3>2. strm' \in [Streams -> Handlers] BY <2>0, <2>2, <3>1, StreamRecord DEF Connect, Pumping
    <3>3. [wire[s] EXCEPT !.seen = pump[p].sent] \in Wires BY <2>0, <3>1 DEF Wires, Pumps
    <3> QED BY <2>2, <3>2, <3>3 DEF Connect
  <2>3. CASE StreamEnds(s) BY <2>3, LeavesFacts DEF StreamEnds, Detached
  <2>4. CASE Noticed(s) BY <2>4, LeavesFacts DEF Noticed, Detached
  <2>5. CASE Deadline(s)
    <3>1. strm' \in [Streams -> Handlers]
      <4>1. [strm[s] EXCEPT !.pc = "closing"] \in Handlers BY <2>0 DEF Handlers
      <4> QED BY <2>5, <4>1 DEF Deadline, Goes
    <3>2. wire' \in [Streams -> Wires] BY <2>0, <2>5, ToldFacts DEF Deadline
    <3> QED BY <2>5, <3>1, <3>2, FullFacts DEF Deadline
  <2>6. CASE Closed(s) BY <2>6, LeavesFacts DEF Closed, Detached
  <2> QED BY <1>2, <2>1, <2>2, <2>3, <2>4, <2>5, <2>6 DEF Stream
<1>3. ASSUME NEW s \in Streams, Client(s) PROVE TypeOK'
  <2>1. ASSUME NEW c \in Conns PROVE [c EXCEPT !.full = FALSE] \in Conns /\ Gone \in Conns BY DEF Conns, Gone
  <2>2. conn' \in [Streams -> Conns]
    <3>1. [conn[s] EXCEPT !.full = FALSE] \in Conns /\ Gone \in Conns BY <2>1
    <3>2. conn' = [conn EXCEPT ![s] = Gone] \/ conn' = [conn EXCEPT ![s] = [conn[s] EXCEPT !.full = FALSE]]
      BY <1>3 DEF Client, HangUp, Drain, Stall
    <3> QED BY <3>1, <3>2
  <2>3. waits' \in [Procs -> SUBSET Streams] BY <1>3 DEF Client, HangUp, Drain, Stall, Released
  <2> QED BY <1>3, <2>2, <2>3 DEF Client, HangUp, Drain, Stall
<1>4. CASE Shutdown
  <2>1. wire' \in [Streams -> Wires] BY <1>4, ToldFacts DEF Shutdown
  <2> QED BY <1>4, <2>1, FullFacts DEF Shutdown
<1>5. CASE UNCHANGED vars BY <1>5 DEF vars
<1> QED BY <1>1, <1>2, <1>3, <1>4, <1>5 DEF Next

-----------------------------------------------------------------------------
(* The rest of the invariant, by what a step touches. *)
Rest == Conserved /\ Paced /\ Complete /\ Attached /\ Begun
Sizing(p) == strm[Starter[p]].pc = "sizing" /\ strm[Starter[p]].to = p

LEMMA InitRest == ASSUME Init PROVE Rest
<1>1. \A p \in Procs : pump[p] = Over("off") /\ Starter[p] \in Streams BY DEF Init
<1>2. Conserved BY <1>1, OverFacts DEF Init, Conserved
<1>3. Paced BY <1>1, OverFacts DEF Init, Paced
<1>4. Complete /\ Attached BY DEF Init, Complete, Attached, HeadFirst
<1>5. Begun BY <1>1 DEF Init, Begun
<1> QED BY <1>2, <1>3, <1>4, <1>5 DEF Rest

(* A step of one process, its pump or dockerd that no stream sees. *)
LEMMA QuietStep ==
  ASSUME TypeOK, Rest, TypeOK', NEW p \in Procs, UNCHANGED <<rec, subs, strm, wire, conn>>,
         \A q \in Procs \ {p} : proc'[q] = proc[q] /\ pump'[q] = pump[q],
         \A q \in Procs : dockerd' = q => proc'[q].at = "exited",
         proc[p].at # "none", proc'[p].at # "none",
         pump'[p].at = pump[p].at, pump'[p].sent = pump[p].sent,
         proc'[p].left = proc[p].left \/ (pump[p].at = "on" /\ (Sizing(p) => EarlyOutput)),
         pump'[p].sinking => pump'[p].at = "on" /\ pump'[p].mem > 0,
         pump'[p].at = "on" => Written(p)' = proc'[p].held + (IF pump'[p].sinking THEN pump'[p].mem - 1 ELSE pump'[p].mem) + pump'[p].sent,
         ~Misreads /\ (pump'[p].tail \/ pump'[p].mem > 1) => proc'[p].at # "running",
         proc'[p].at = "handled" => proc'[p].held = 0
  PROVE  Rest'
<1> USE DEF Rest
<1>1. Conserved'
  <2>1. ASSUME NEW q \in Procs \ {p}, pump[q].at = "on"
        PROVE  Written(q)' = proc'[q].held + (IF pump'[q].sinking THEN pump'[q].mem - 1 ELSE pump'[q].mem) + pump'[q].sent
    BY <2>1 DEF Conserved, Written
  <2>2. ASSUME NEW q \in Procs, pump'[q].at = "on", NEW s \in subs'[q], conn'[s].open PROVE wire'[s].seen = pump'[q].sent
    BY <2>2 DEF Conserved
  <2>3. ASSUME NEW q \in Procs, pump'[q].sinking PROVE pump'[q].at = "on" /\ pump'[q].mem > 0
    BY <2>3 DEF Conserved
  <2> QED BY <2>1, <2>2, <2>3 DEF Conserved
<1>2. Paced' BY DEF Paced
<1>3. Complete'
  <2> SUFFICES ASSUME NEW s \in Streams, wire'[s].end = "exit", conn'[s].open
               PROVE  \E q \in Procs : strm'[s].to = q /\ pump'[q].at # "on" /\ wire'[s].seen = Written(q)'
    BY DEF Complete
  <2>1. PICK q \in Procs : strm[s].to = q /\ pump[q].at # "on" /\ wire[s].seen = Written(q) BY DEF Complete
  <2>2. proc'[q].left = proc[q].left BY <2>1
  <2> QED BY <2>1, <2>2 DEF Written
<1>4. Attached' BY DEF Attached, HeadFirst, Beating
<1>5. Begun'
  <2>1. ASSUME NEW q \in Procs, proc'[q].at = "none"
        PROVE  /\ proc'[q].left = Chunks[q] /\ proc'[q].held = 0 /\ pump'[q] = Over("off")
               /\ rec'[q] = "none" /\ subs'[q] = {} /\ \A s \in Streams : strm'[s].to # q
    BY <2>1 DEF Begun
  <2>2. ASSUME NEW q \in Procs, strm[Starter[q]].pc = "waking" PROVE proc'[q].at = "none" BY <2>2 DEF Begun
  <2>3. ASSUME NEW q \in Procs, Sizing(q)
        PROVE  /\ q \in Ttys /\ pump'[q].at = "on" /\ rec'[q] = "none" /\ subs'[q] = {Starter[q]}
               /\ EarlyOutput \/ (proc'[q].left = Chunks[q] /\ wire'[Starter[q]].seen = 0)
    BY <2>3 DEF Begun, Sizing
  <2>4. \A q \in Procs : proc'[q].at = "handled" => proc'[q].held = 0 BY DEF Begun
  <2> QED BY <2>1, <2>2, <2>3, <2>4 DEF Begun, Sizing
<1> QED BY <1>1, <1>2, <1>3, <1>4, <1>5

LEMMA BalanceInt == ASSUME NEW n \in Nat, NEW b PROVE (IF b THEN n - 1 ELSE n) \in Int
  OBVIOUS

LEMMA OneMore ==
  ASSUME NEW c \in Nat, NEW l \in Nat, NEW h \in Nat, NEW s \in Nat, NEW m \in Int, c - l = h + m + s
  PROVE  c - (l - 1) = (h + 1) + m + s
  OBVIOUS

LEMMA QuietSteps ==
  ASSUME TypeOK, Rest, TypeOK', NEW p \in Procs,
         Write(p) \/ Exit(p) \/ HandleExit(p) \/ Handled(p) \/ Read(p) \/ Sunk(p) \/ Probe(p) \/ ProbeUnanswered(p)
  PROVE  Rest'
<1>0. /\ proc[p] \in Processes /\ pump[p] \in Pumps
      /\ proc[p].left \in Nat /\ proc[p].held \in Nat /\ pump[p].mem \in Nat /\ pump[p].sent \in Nat /\ Chunks[p] \in Nat
  BY DEF TypeOK, Processes, Pumps
<1>1. pump[p].at = "on" => proc[p].at # "none" BY OverFacts DEF Rest, Begun
<1>2. pump[p].at = "on" =>
        Chunks[p] - proc[p].left = proc[p].held + (IF pump[p].sinking THEN pump[p].mem - 1 ELSE pump[p].mem) + pump[p].sent
  BY DEF Rest, Conserved, Written
<1>3. pump[p].sinking => pump[p].at = "on" /\ pump[p].mem > 0 BY DEF Rest, Conserved
<1>4. ~Misreads /\ (pump[p].tail \/ pump[p].mem > 1) => proc[p].at # "running" BY DEF Rest, Paced
<1>5. \A q \in Procs : dockerd = q => proc[q].at = "exited" BY DEF Rest, Begun
<1>a. proc[p].at = "handled" => proc[p].held = 0 BY DEF Rest, Begun
<1> USE DEF TypeOK
<1>6. CASE Write(p)
  <2>1. /\ proc'[p].at = proc[p].at /\ proc'[p].left = proc[p].left - 1 /\ proc'[p].held = proc[p].held + 1
        /\ pump' = pump /\ pump[p].at = "on" /\ \A q \in Procs \ {p} : proc'[q] = proc[q]
    BY <1>0, <1>6 DEF Write, Processes
  <2>2. UNCHANGED <<rec, subs, strm, wire, conn, dockerd>> BY <1>6 DEF Write
  <2>3. Sizing(p) => EarlyOutput BY <1>6 DEF Write, Sizing, Rest, Begun
  <2>4. proc[p].at = "running" BY <1>6 DEF Write
  <2>5. Written(p)' = proc'[p].held + (IF pump'[p].sinking THEN pump'[p].mem - 1 ELSE pump'[p].mem) + pump'[p].sent
    <3>1. Written(p)' = Chunks[p] - (proc[p].left - 1) BY <2>1 DEF Written
    <3>2. PICK m \in Int : m = IF pump[p].sinking THEN pump[p].mem - 1 ELSE pump[p].mem BY <1>0, BalanceInt
    <3>3. Chunks[p] - proc[p].left = proc[p].held + m + pump[p].sent BY <1>2, <2>1, <3>2
    <3>4. Chunks[p] - (proc[p].left - 1) = (proc[p].held + 1) + m + pump[p].sent
      <4>1. Chunks[p] \in Nat /\ proc[p].left \in Nat /\ proc[p].held \in Nat /\ pump[p].sent \in Nat BY <1>0
      <4> HIDE DEF StreamAssumption
      <4> DEFINE c == Chunks[p]  l == proc[p].left  h == proc[p].held  s == pump[p].sent
      <4>2. c \in Nat /\ l \in Nat /\ h \in Nat /\ s \in Nat /\ m \in Int /\ c - l = h + m + s BY <3>2, <3>3, <4>1
      <4>3. c - (l - 1) = (h + 1) + m + s
        <5> HIDE DEF c, l, h, s
        <5> QED BY <4>2, OneMore
      <4> QED BY <4>3
    <3> QED BY <2>1, <3>1, <3>2, <3>4
  <2> QED BY <1>a, <1>1, <1>3, <1>4, <1>5, <2>1, <2>2, <2>3, <2>4, <2>5, QuietStep
<1>7. CASE Exit(p)
  <2>1. /\ proc'[p].at = "exited" /\ proc'[p].left = proc[p].left /\ proc'[p].held = proc[p].held
        /\ pump' = pump /\ \A q \in Procs \ {p} : proc'[q] = proc[q]
    BY <1>0, <1>7 DEF Exit, Processes
  <2>2. UNCHANGED <<rec, subs, strm, wire, conn, dockerd>> /\ proc[p].at # "none" BY <1>7 DEF Exit
  <2>3. pump'[p].at = "on" => Written(p)' = proc'[p].held + (IF pump'[p].sinking THEN pump'[p].mem - 1 ELSE pump'[p].mem) + pump'[p].sent
    BY <1>0, <1>2, <1>3, <2>1 DEF Written
  <2> QED BY <1>a, <1>3, <1>5, <2>1, <2>2, <2>3, QuietStep
<1>8. CASE HandleExit(p)
  <2>1. proc' = proc /\ pump' = pump /\ dockerd' = p /\ proc[p].at = "exited" BY <1>8 DEF HandleExit
  <2>2. UNCHANGED <<rec, subs, strm, wire, conn>> BY <1>8 DEF HandleExit
  <2>3. pump'[p].at = "on" => Written(p)' = proc'[p].held + (IF pump'[p].sinking THEN pump'[p].mem - 1 ELSE pump'[p].mem) + pump'[p].sent
    BY <1>0, <1>2, <1>3, <2>1 DEF Written
  <2> QED BY <1>a, <1>3, <1>4, <1>5, <2>1, <2>2, <2>3, QuietStep
<1>9. CASE Handled(p)
  <2>1. /\ proc'[p].at = "handled" /\ proc'[p].left = proc[p].left /\ proc'[p].held = proc[p].held
        /\ pump' = pump /\ dockerd' = NoOne /\ \A q \in Procs \ {p} : proc'[q] = proc[q]
    BY <1>0, <1>9 DEF Handled, Processes
  <2>2. UNCHANGED <<rec, subs, strm, wire, conn>> /\ proc[p].at = "exited" /\ proc[p].held = 0 BY <1>5, <1>9 DEF Handled
  <2>3. pump'[p].at = "on" => Written(p)' = proc'[p].held + (IF pump'[p].sinking THEN pump'[p].mem - 1 ELSE pump'[p].mem) + pump'[p].sent
    BY <1>0, <1>2, <1>3, <2>1 DEF Written
  <2> QED BY <1>a, <1>3, <2>1, <2>2, <2>3, QuietStep
<1>10. CASE Read(p)
  <2>1. /\ proc'[p].at = proc[p].at /\ proc'[p].left = proc[p].left /\ proc'[p].held = proc[p].held - 1
        /\ \A q \in Procs \ {p} : proc'[q] = proc[q] /\ pump'[q] = pump[q]
    BY <1>0, <1>10 DEF Read, Processes
  <2>2. /\ pump'[p].mem = pump[p].mem + 1 /\ pump'[p].at = "on" /\ pump[p].at = "on" /\ pump'[p].sent = pump[p].sent
        /\ pump'[p].sinking = pump[p].sinking /\ pump'[p].tail = pump[p].tail
    BY <1>0, <1>10 DEF Read, Pumps
  <2>3. UNCHANGED <<rec, subs, strm, wire, conn, dockerd>> /\ proc[p].held > 0 BY <1>10 DEF Read
  <2>4. Written(p)' = proc'[p].held + (IF pump'[p].sinking THEN pump'[p].mem - 1 ELSE pump'[p].mem) + pump'[p].sent
    <3>1. Written(p)' = Chunks[p] - proc[p].left BY <2>1 DEF Written
    <3>2. PICK m \in Int : m = IF pump[p].sinking THEN pump[p].mem - 1 ELSE pump[p].mem BY <1>0, BalanceInt
    <3>3. m + 1 = IF pump'[p].sinking THEN pump'[p].mem - 1 ELSE pump'[p].mem BY <1>0, <2>2, <3>2
    <3>4. Chunks[p] - proc[p].left = proc[p].held + m + pump[p].sent BY <1>2, <2>2, <3>2
    <3>5. Chunks[p] - proc[p].left = (proc[p].held - 1) + (m + 1) + pump[p].sent
      <4>1. proc[p].held \in Int /\ pump[p].sent \in Int BY <1>0 DEF Processes, Pumps
      <4> QED BY <3>2, <3>4, <4>1
    <3> QED BY <2>1, <2>2, <3>1, <3>3, <3>5
  <2>5. pump'[p].mem > 1 => pump[p].tail BY <1>0, <1>10, <2>2 DEF Read, Allowance
  <2>6. pump'[p].sinking => pump'[p].mem > 0 BY <1>0, <2>2
  <2> QED BY <1>a, <1>1, <1>4, <1>5, <2>1, <2>2, <2>3, <2>4, <2>5, <2>6, QuietStep
<1>11. CASE Sunk(p)
  <2>1. /\ pump'[p].mem = pump[p].mem - 1 /\ pump'[p].at = pump[p].at /\ pump'[p].sent = pump[p].sent
        /\ ~pump'[p].sinking /\ pump'[p].tail = pump[p].tail /\ \A q \in Procs \ {p} : pump'[q] = pump[q]
    BY <1>0, <1>11 DEF Sunk, Pumps
  <2>2. UNCHANGED <<proc, rec, subs, strm, wire, conn, dockerd>> /\ pump[p].sinking BY <1>11 DEF Sunk
  <2>3. Written(p)' = proc'[p].held + (IF pump'[p].sinking THEN pump'[p].mem - 1 ELSE pump'[p].mem) + pump'[p].sent
    <3>1. Written(p)' = Chunks[p] - proc[p].left BY <2>2 DEF Written
    <3> QED BY <1>0, <1>2, <1>3, <2>1, <2>2, <3>1
  <2>4. pump'[p].mem > 1 => pump[p].mem > 1 BY <1>0, <2>1
  <2> QED BY <1>a, <1>1, <1>3, <1>4, <1>5, <2>1, <2>2, <2>3, <2>4, QuietStep
<1>12. CASE Probe(p) \/ ProbeUnanswered(p)
  <2>1. /\ pump'[p].mem = pump[p].mem /\ pump'[p].at = "on" /\ pump[p].at = "on" /\ pump'[p].sent = pump[p].sent
        /\ pump'[p].sinking = pump[p].sinking /\ \A q \in Procs \ {p} : pump'[q] = pump[q]
    BY <1>0, <1>12 DEF Probe, ProbeUnanswered, Undelivered, Pumps
  <2>2. ~Misreads /\ pump'[p].tail => proc[p].at # "running"
    BY <1>0, <1>12 DEF Probe, ProbeUnanswered, Pumps
  <2>3. UNCHANGED <<proc, rec, subs, strm, wire, conn, dockerd>> BY <1>12 DEF Probe, ProbeUnanswered
  <2>4. Written(p)' = proc'[p].held + (IF pump'[p].sinking THEN pump'[p].mem - 1 ELSE pump'[p].mem) + pump'[p].sent
    BY <1>0, <1>2, <1>3, <2>1, <2>3 DEF Written
  <2> QED BY <1>a, <1>1, <1>3, <1>4, <1>5, <2>1, <2>2, <2>3, <2>4, QuietStep
<1> QED BY <1>6, <1>7, <1>8, <1>9, <1>10, <1>11, <1>12

(* A client that takes what waits, or is gone. *)
LEMMA ClientStep == ASSUME TypeOK, Rest, NEW t \in Streams, Client(t) PROVE Rest'
<1> USE DEF Rest
<1>1. UNCHANGED <<proc, dockerd, pump, rec, subs, strm, wire>> BY DEF Client, HangUp, Drain, Stall
<1>2. \A s \in Streams : conn'[s].open => conn[s].open
  <2>1. conn' = [conn EXCEPT ![t] = Gone] \/ conn' = [conn EXCEPT ![t] = [conn[t] EXCEPT !.full = FALSE]]
    BY DEF Client, HangUp, Drain, Stall
  <2>2. conn[t] \in Conns BY DEF TypeOK
  <2>3. [conn[t] EXCEPT !.full = FALSE].open = conn[t].open /\ ~Gone.open BY <2>2 DEF Conns, Gone
  <2> QED BY <2>1, <2>3 DEF TypeOK
<1>3. Conserved'
  <2>1. \A q \in Procs : \A s \in subs[q] : s \in Streams BY DEF TypeOK
  <2> QED BY <1>1, <1>2, <2>1 DEF Conserved, Written
<1>4. Complete' BY <1>1, <1>2 DEF Complete, Written
<1>5. Paced' /\ Attached' /\ Begun' BY <1>1 DEF Paced, Attached, HeadFirst, Beating, Begun
<1> QED BY <1>3, <1>4, <1>5

(* An answer that is over, whoever it was for. *)
LEMMA LeavesStep ==
  ASSUME TypeOK, Rest, TypeOK', NEW s \in Streams, Leaves(s),
         UNCHANGED <<proc, dockerd, pump, rec>>, subs' = subs \/ subs' = Detached(s),
         \A p \in Procs : rec[p] = "listed" => s \notin subs'[p]
  PROVE  Rest'
<1> USE DEF Rest
<1>1. /\ strm'[s].pc = "done" /\ strm'[s].to = strm[s].to /\ wire'[s].end = "none" /\ ~conn'[s].open
      /\ \A t \in Streams \ {s} : strm'[t] = strm[t] /\ wire'[t] = wire[t] /\ conn'[t] = conn[t]
  BY LeavesFacts
<1>2. \A p \in Procs : /\ subs'[p] \subseteq subs[p] /\ subs[p] \subseteq Streams
                       /\ \A t \in Streams \ {s} : t \in subs'[p] <=> t \in subs[p]
  BY DEF Detached, TypeOK
<1>3. Conserved' BY <1>1, <1>2 DEF Conserved, Written
<1>4. Paced' BY DEF Paced
<1>5. Complete' BY <1>1 DEF Complete, Written
<1>6. Attached'
  <2>1. ASSUME NEW t \in Streams, strm'[t].pc = "pumping", wire'[t].end = "none" PROVE t \in subs'[strm'[t].to]
    <3>1. t # s BY <1>1, <2>1
    <3>2. t \in subs[strm[t].to] BY <1>1, <2>1, <3>1 DEF Attached
    <3>3. strm[t].to \in Procs BY <1>1, <2>1, <3>1 DEF Begun, TypeOK, Handlers
    <3> QED BY <1>1, <1>2, <3>1, <3>2, <3>3
  <2>2. ASSUME NEW p \in Procs, rec'[p] = "listed", NEW t \in subs'[p]
        PROVE  Beating(t)' \/ strm'[t].pc = "broken"
    <3>1. t \in Streams \ {s} /\ t \in subs[p] BY <1>2, <2>2
    <3> QED BY <1>1, <2>2, <3>1 DEF Attached, Beating
  <2>3. (EarlyOutput \/ HeadFirst)' BY <1>1 DEF Attached, HeadFirst
  <2> QED BY <2>1, <2>2, <2>3 DEF Attached
<1>7. Begun'
  <2>1. ASSUME NEW p \in Procs, strm'[Starter[p]].pc = "waking" PROVE proc'[p].at = "none"
    BY <1>1, <2>1 DEF Begun
  <2>2. ASSUME NEW p \in Procs, Sizing(p)'
        PROVE  /\ p \in Ttys /\ pump'[p].at = "on" /\ rec'[p] = "none" /\ subs'[p] = {Starter[p]}
               /\ EarlyOutput \/ (proc'[p].left = Chunks[p] /\ wire'[Starter[p]].seen = 0)
    <3>1. Starter[p] \in Streams \ {s} BY <1>1, <2>2 DEF Sizing
    <3>2. Sizing(p) BY <1>1, <2>2, <3>1 DEF Sizing
    <3>3. subs[p] = {Starter[p]} BY <3>2 DEF Begun, Sizing
    <3> QED BY <1>1, <1>2, <3>1, <3>2, <3>3 DEF Begun, Sizing
  <2>3. ASSUME NEW p \in Procs, NEW t \in subs'[p] PROVE strm'[t].to = p /\ strm'[t].pc # "waking"
    BY <1>1, <1>2, <2>3 DEF Begun
  <2>4. ASSUME NEW t \in Streams
        PROVE  /\ strm'[t].pc = "waking" => wire'[t].seen = 0 /\ wire'[t].end = "none" /\ strm'[t].to = NoOne
               /\ strm'[t].pc \in {"sizing", "pumping", "closing", "broken"} => strm'[t].to # NoOne
    BY <1>1 DEF Begun
  <2>5. ASSUME NEW p \in Procs, proc'[p].at = "none"
        PROVE  /\ proc'[p].left = Chunks[p] /\ proc'[p].held = 0 /\ pump'[p] = Over("off")
               /\ rec'[p] = "none" /\ subs'[p] = {} /\ \A t \in Streams : strm'[t].to # p
    BY <1>1, <1>2, <2>5 DEF Begun
  <2>6. \A p \in Procs : (dockerd' = p => proc'[p].at = "exited") /\ (proc'[p].at = "handled" => proc'[p].held = 0)
    BY DEF Begun
  <2> QED BY <2>1, <2>2, <2>3, <2>4, <2>5, <2>6 DEF Begun, Sizing
<1> QED BY <1>3, <1>4, <1>5, <1>6, <1>7

LEMMA LeavingSteps ==
  ASSUME TypeOK, Rest, TypeOK', NEW s \in Streams,
         Refused(s) \/ StreamEnds(s) \/ Noticed(s) \/ Closed(s) \/ \E p \in Procs : s = Starter[p] /\ SizeFails(p)
  PROVE  Rest'
<1>1. CASE Refused(s)
  <2>1. \A p \in Procs : s \notin subs[p] BY <1>1 DEF Refused, Rest, Begun
  <2> QED BY <1>1, <2>1, LeavesStep DEF Refused
<1>2. CASE StreamEnds(s) \/ Noticed(s) \/ Closed(s)
  <2>1. subs' = Detached(s) /\ Leaves(s) /\ UNCHANGED <<proc, dockerd, pump, rec>>
    BY <1>2 DEF StreamEnds, Noticed, Closed
  <2>2. \A p \in Procs : s \notin subs'[p] BY <2>1 DEF Detached
  <2> QED BY <2>1, <2>2, LeavesStep
<1>3. ASSUME NEW p \in Procs, s = Starter[p], SizeFails(p) PROVE Rest'
  <2>1. Sizing(p) /\ Leaves(s) /\ UNCHANGED <<proc, dockerd, pump, rec, subs>> BY <1>3 DEF SizeFails, Sizing
  <2>2. rec[p] = "none" BY <2>1 DEF Rest, Begun, Sizing
  <2>3. \A q \in Procs : s \in subs[q] => strm[s].to = q BY DEF Rest, Begun
  <2>4. strm[s].to = p BY <1>3, <2>1 DEF Sizing
  <2> QED BY <2>1, <2>2, <2>3, <2>4, LeavesStep
<1> QED BY <1>1, <1>2, <1>3

(* The parts of Begun, for steps that disturb more than one of them. *)
Traceless(p) ==
  /\ proc[p].left = Chunks[p] /\ proc[p].held = 0 /\ pump[p] = Over("off")
  /\ rec[p] = "none" /\ subs[p] = {} /\ \A s \in Streams : strm[s].to # p
Sole(p) ==
  /\ p \in Ttys /\ pump[p].at = "on" /\ rec[p] = "none" /\ subs[p] = {Starter[p]}
  /\ EarlyOutput \/ (proc[p].left = Chunks[p] /\ wire[Starter[p]].seen = 0)
Posed(s) ==
  /\ strm[s].pc = "waking" => wire[s].seen = 0 /\ wire[s].end = "none" /\ strm[s].to = NoOne
  /\ strm[s].pc \in {"sizing", "pumping", "closing", "broken"} => strm[s].to # NoOne

LEMMA BegunParts ==
  Begun <=> /\ \A p \in Procs : strm[Starter[p]].pc = "waking" => proc[p].at = "none"
            /\ \A p \in Procs : proc[p].at = "none" => Traceless(p)
            /\ \A p \in Procs : Sizing(p) => Sole(p)
            /\ \A p \in Procs : \A s \in subs[p] : strm[s].to = p /\ strm[s].pc # "waking"
            /\ \A p \in Procs : (dockerd = p => proc[p].at = "exited") /\ (proc[p].at = "handled" => proc[p].held = 0)
            /\ \A s \in Streams : Posed(s)
  BY DEF Begun, Traceless, Sole, Posed, Sizing

(* A deadline. *)
LEMMA DeadlineStep == ASSUME TypeOK, Rest, TypeOK', NEW s \in Streams, Deadline(s) PROVE Rest'
<1> USE DEF Rest
<1>1. UNCHANGED <<proc, dockerd, pump, rec, subs>> BY DEF Deadline
<1>2. /\ strm'[s].pc = "closing" /\ strm[s].pc = "pumping" /\ strm'[s].to = strm[s].to
      /\ \A t \in Streams \ {s} : strm'[t] = strm[t] /\ wire'[t] = wire[t]
  BY DEF Deadline, Goes, TypeOK, Handlers
<1>3. wire'[s].seen = wire[s].seen /\ wire'[s].end # "none" /\ (wire'[s].end = "exit" => wire[s].end = "exit")
  <2>1. wire'[s] = Told(wire[s], "failure") /\ wire[s] \in Wires BY DEF Deadline, TypeOK
  <2> QED BY <2>1, ToldFacts
<1>4. \A t \in Streams : conn'[t].open = conn[t].open BY FullFacts DEF Deadline
<1>5. \A p \in Procs : subs[p] \subseteq Streams BY DEF TypeOK
<1>6. \A t \in Streams : wire'[t].seen = wire[t].seen /\ strm'[t].to = strm[t].to BY <1>2, <1>3
<1>7. Conserved' BY <1>1, <1>4, <1>5, <1>6 DEF Conserved, Written
<1>8. Paced' BY <1>1 DEF Paced
<1>9. Complete' BY <1>1, <1>2, <1>3, <1>4, <1>6 DEF Complete, Written
<1>10. Attached'
  <2>1. ASSUME NEW p \in Procs, NEW t \in subs[p], Beating(t) \/ strm[t].pc = "broken"
        PROVE  Beating(t)' \/ strm'[t].pc = "broken"
    BY <1>2, <1>5, <2>1 DEF Beating
  <2> QED BY <1>1, <1>2, <2>1 DEF Attached, HeadFirst
<1>11. Begun'
  <2>1. \A p \in Procs : proc'[p].at = "none" => Traceless(p)' BY <1>1, <1>6, BegunParts DEF Traceless
  <2>2. \A p \in Procs : Sizing(p)' => Sole(p)' BY <1>1, <1>2, <1>6, BegunParts DEF Sizing, Sole
  <2>3. \A p \in Procs : \A t \in subs'[p] : strm'[t].to = p /\ strm'[t].pc # "waking"
    BY <1>1, <1>2, <1>5, BegunParts
  <2>4. \A t \in Streams : Posed(t)' BY <1>2, <1>6, BegunParts DEF Posed
  <2>5. \A p \in Procs : strm'[Starter[p]].pc = "waking" => proc'[p].at = "none" BY <1>1, <1>2, BegunParts
  <2>6. \A p \in Procs : (dockerd' = p => proc'[p].at = "exited") /\ (proc'[p].at = "handled" => proc'[p].held = 0)
    BY <1>1, BegunParts
  <2> QED BY <2>1, <2>2, <2>3, <2>4, <2>5, <2>6 DEF Begun, Traceless, Sole, Posed, Sizing
<1> QED BY <1>7, <1>8, <1>9, <1>10, <1>11

(* A process whose output is over, and what its subscribers are told. *)
LEMMA EndStep ==
  ASSUME TypeOK, Rest, TypeOK', NEW p \in Procs, NEW end \in {"exit", "failure"}, Finalize(p, end),
         pump[p].at = "on", ~Sizing(p), UNCHANGED <<dockerd, strm>>,
         \A q \in Procs \ {p} : proc'[q] = proc[q] /\ pump'[q] = pump[q],
         proc'[p].at = proc[p].at, proc'[p].left = proc[p].left, proc'[p].held \in {0, proc[p].held},
         NEW how \in {"done", "cut"}, pump'[p] = Over(how),
         end = "exit" => \A s \in subs[p] : conn[s].open => wire[s].seen = Written(p)
  PROVE  Rest'
<1> USE DEF Rest
<1>1. /\ \A s \in Streams : conn'[s].open = conn[s].open /\ wire'[s].seen = wire[s].seen
      /\ \A q \in Procs \ {p} : rec'[q] = rec[q] /\ subs'[q] = subs[q]
      /\ \A q \in Procs : subs'[q] \subseteq subs[q] /\ subs[q] \subseteq Streams
      /\ rec'[p] # "listed" /\ (rec[p] = "none" => rec'[p] = "none" /\ subs'[p] = subs[p])
      /\ rec[p] = "listed" => subs'[p] = {}
  <2>0. \A q \in Procs : subs[q] \subseteq Streams BY DEF TypeOK
  <2>1. CASE rec[p] = "listed"
    <3>1. rec' = [rec EXCEPT ![p] = "ended"] /\ subs' = [subs EXCEPT ![p] = {}] BY <2>1, FinalizeFacts
    <3>2. rec'[p] = "ended" /\ subs'[p] = {} /\ \A q \in Procs \ {p} : rec'[q] = rec[q] /\ subs'[q] = subs[q]
      BY <3>1 DEF TypeOK
    <3>3. \A s \in Streams : conn'[s].open = conn[s].open /\ wire'[s].seen = wire[s].seen BY FinalizeFacts
    <3> QED BY <2>0, <2>1, <3>2, <3>3
  <2>2. CASE rec[p] # "listed" BY <2>0, <2>2, FinalizeFacts DEF TypeOK
  <2> QED BY <2>1, <2>2
<1>2. pump'[p].at # "on" /\ ~pump'[p].sinking /\ ~pump'[p].tail /\ pump'[p].mem = 0 BY OverFacts
<1>3. \A q \in Procs : Written(q)' = Written(q) BY DEF Written
<1>4. Conserved'
  <2>1. ASSUME NEW q \in Procs, pump'[q].at = "on"
        PROVE  /\ q # p /\ proc'[q] = proc[q] /\ pump'[q] = pump[q] /\ subs'[q] = subs[q]
    BY <1>1, <1>2, <2>1
  <2>2. \A q \in Procs : pump'[q].sinking => q # p /\ pump'[q] = pump[q] BY <1>2
  <2> QED BY <1>1, <1>3, <2>1, <2>2 DEF Conserved
<1>5. Paced' BY <1>2 DEF Paced
<1>6. Complete'
  <2> SUFFICES ASSUME NEW s \in Streams, wire'[s].end = "exit", conn'[s].open
               PROVE  \E q \in Procs : strm'[s].to = q /\ pump'[q].at # "on" /\ wire'[s].seen = Written(q)'
    BY DEF Complete
  <2>1. CASE wire[s].end = "exit"
    <3>1. PICK q \in Procs : strm[s].to = q /\ pump[q].at # "on" /\ wire[s].seen = Written(q)
      BY <1>1, <2>1 DEF Complete
    <3>2. q # p BY <3>1
    <3> QED BY <1>1, <1>3, <3>1, <3>2
  <2>2. CASE wire[s].end # "exit"
    <3>1. end = "exit" /\ s \in subs[p] BY <2>2, FinalizeFacts
    <3>2. strm[s].to = p BY <3>1, BegunParts
    <3> QED BY <1>1, <1>2, <1>3, <3>1, <3>2
  <2> QED BY <2>1, <2>2
<1>7. Attached'
  <2>1. ASSUME NEW s \in Streams, strm'[s].pc = "pumping", wire'[s].end = "none" PROVE s \in subs'[strm'[s].to]
    <3>1. wire[s].end = "none" BY <2>1, FinalizeFacts
    <3>2. s \in subs[strm[s].to] BY <2>1, <3>1 DEF Attached
    <3>3. strm[s].to \in Procs BY <2>1, BegunParts DEF Posed, TypeOK, Handlers
    <3>4. rec[p] = "listed" => strm[s].to # p BY <2>1, <3>1, <3>2, FinalizeFacts
    <3>5. rec[p] # "listed" => subs' = subs BY FinalizeFacts
    <3> QED BY <1>1, <3>2, <3>3, <3>4, <3>5
  <2>2. ASSUME NEW q \in Procs, rec'[q] = "listed"
        PROVE  pump'[q].at = "on" /\ \A s \in subs'[q] : Beating(s)' \/ strm'[s].pc = "broken"
    <3>1. q # p BY <1>1, <2>2
    <3> QED BY <1>1, <2>2, <3>1 DEF Attached, Beating
  <2> QED BY <2>1, <2>2 DEF Attached, HeadFirst
<1>8. Begun'
  <2>0. proc[p].at # "none" BY OverFacts, BegunParts DEF Traceless
  <2>1. \A q \in Procs : proc'[q].at = "none" => Traceless(q)' BY <1>1, <2>0, BegunParts DEF Traceless
  <2>2. \A q \in Procs : Sizing(q)' => Sole(q)' BY <1>1, BegunParts DEF Sizing, Sole
  <2>3. \A q \in Procs : \A t \in subs'[q] : strm'[t].to = q /\ strm'[t].pc # "waking" BY <1>1, BegunParts
  <2>4. \A t \in Streams : Posed(t)'
    <3>1. ASSUME NEW t \in Streams, strm[t].pc = "waking" PROVE wire'[t].end = "none"
      <4>1. wire[t].end = "none" BY <3>1, BegunParts DEF Posed
      <4>2. t \notin subs[p] BY <3>1, BegunParts
      <4> QED BY <4>1, <4>2, FinalizeFacts
    <3> QED BY <1>1, <3>1, BegunParts DEF Posed
  <2>5. \A q \in Procs : strm'[Starter[q]].pc = "waking" => proc'[q].at = "none" BY BegunParts
  <2>6. \A q \in Procs : (dockerd' = q => proc'[q].at = "exited") /\ (proc'[q].at = "handled" => proc'[q].held = 0)
    BY BegunParts
  <2> QED BY <2>1, <2>2, <2>3, <2>4, <2>5, <2>6 DEF Begun, Traceless, Sole, Posed, Sizing
<1> QED BY <1>4, <1>5, <1>6, <1>7, <1>8

LEMMA EndSteps == ASSUME TypeOK, Rest, TypeOK', NEW p \in Procs, Settle(p) \/ Overdue(p) PROVE Rest'
<1>0. proc[p] \in Processes /\ pump[p] \in Pumps BY DEF TypeOK
<1>1. CASE Settle(p)
  <2>1. PICK end \in {"exit", "failure"} : Finalize(p, end) BY <1>1 DEF Settle
  <2>2. pump[p].at = "on" /\ ~Sizing(p) /\ proc[p].at = "handled" /\ pump[p].mem = 0 BY <1>1 DEF Settle, Awaited, Sizing
  <2>3. proc' = proc /\ pump' = [pump EXCEPT ![p] = Over("done")] /\ UNCHANGED <<dockerd, strm>> BY <1>1 DEF Settle
  <2>4. pump'[p] = Over("done") /\ \A q \in Procs \ {p} : pump'[q] = pump[q] BY <2>3 DEF TypeOK
  <2>5. ASSUME NEW s \in subs[p], conn[s].open PROVE wire[s].seen = Written(p)
    <3>1. proc[p].held = 0 BY <2>2, BegunParts DEF Rest
    <3>2. ~pump[p].sinking BY <2>2 DEF Rest, Conserved
    <3>3. Written(p) = 0 + 0 + pump[p].sent BY <2>2, <3>1, <3>2 DEF Rest, Conserved
    <3>4. pump[p].sent \in Nat BY <1>0 DEF Pumps
    <3>5. wire[s].seen = pump[p].sent BY <2>2, <2>5 DEF Rest, Conserved
    <3> QED BY <3>3, <3>4, <3>5
  <2> QED BY <2>1, <2>2, <2>3, <2>4, <2>5, EndStep
<1>2. CASE Overdue(p)
  <2>1. Finalize(p, "failure") /\ pump[p].at = "on" /\ p \notin Ttys BY <1>2 DEF Overdue
  <2>2. ~Sizing(p) BY <2>1, BegunParts DEF Rest, Sole
  <2>3. /\ proc'[p].at = proc[p].at /\ proc'[p].left = proc[p].left /\ proc'[p].held = 0 /\ pump'[p] = Over("cut")
        /\ \A q \in Procs \ {p} : proc'[q] = proc[q] /\ pump'[q] = pump[q]
    BY <1>0, <1>2 DEF Overdue, Processes, TypeOK
  <2>4. UNCHANGED <<dockerd, strm>> BY <1>2 DEF Overdue
  <2> QED BY <2>1, <2>2, <2>3, <2>4, EndStep
<1> QED BY <1>1, <1>2

(* The subscription of a reader to a listed process. *)
LEMMA ConnectStep == ASSUME TypeOK, Rest, TypeOK', NEW t \in Streams, NEW p \in Procs, Connect(t, p) PROVE Rest'
<1> USE DEF Rest
<1>1. /\ UNCHANGED <<proc, dockerd, pump, rec, conn>> /\ strm[t].pc = "waking" /\ rec[p] = "listed"
      /\ subs'[p] = subs[p] \cup {t} /\ \A q \in Procs \ {p} : subs'[q] = subs[q]
      /\ strm'[t].pc = "pumping" /\ strm'[t].to = p
      /\ \A s \in Streams \ {t} : strm'[s] = strm[s] /\ wire'[s] = wire[s]
  BY DEF Connect, Pumping, TypeOK
<1>2. wire'[t].seen = pump[p].sent /\ wire'[t].end = "none"
  <2>1. wire'[t] = [wire[t] EXCEPT !.seen = pump[p].sent] /\ wire[t] \in Wires BY DEF Connect, TypeOK
  <2>2. wire[t].end = "none" BY <1>1 DEF Begun
  <2> QED BY <2>1, <2>2 DEF Wires
<1>3. \A q \in Procs : t \notin subs[q] /\ subs[q] \subseteq Streams BY <1>1 DEF Begun, TypeOK
<1>4. proc[p].at # "none" /\ ~Sizing(p) BY <1>1 DEF Begun, Sizing
<1>5. Conserved'
  <2>1. ASSUME NEW q \in Procs, pump'[q].at = "on", NEW s \in subs'[q], conn'[s].open PROVE wire'[s].seen = pump'[q].sent
    <3>1. CASE s = t
      <4>1. q = p BY <1>1, <1>3, <2>1, <3>1
      <4> QED BY <1>1, <1>2, <3>1, <4>1
    <3>2. CASE s # t
      <4>1. s \in subs[q] /\ s \in Streams \ {t} BY <1>1, <1>3, <2>1, <3>2
      <4> QED BY <1>1, <2>1, <4>1 DEF Conserved
    <3> QED BY <3>1, <3>2
  <2> QED BY <1>1, <2>1 DEF Conserved, Written
<1>6. Paced' BY <1>1 DEF Paced
<1>7. Complete'
  <2> SUFFICES ASSUME NEW s \in Streams, wire'[s].end = "exit", conn'[s].open
               PROVE  \E q \in Procs : strm'[s].to = q /\ pump'[q].at # "on" /\ wire'[s].seen = Written(q)'
    BY DEF Complete
  <2>1. s # t BY <1>2
  <2>2. strm'[s] = strm[s] /\ wire'[s] = wire[s] BY <1>1, <2>1
  <2> QED BY <1>1, <2>2 DEF Complete, Written
<1>8. Attached'
  <2>1. ASSUME NEW s \in Streams, strm'[s].pc = "pumping", wire'[s].end = "none" PROVE s \in subs'[strm'[s].to]
    <3>1. CASE s = t BY <1>1, <3>1
    <3>2. CASE s # t
      <4>1. s \in subs[strm[s].to] BY <1>1, <2>1, <3>2 DEF Attached
      <4>2. strm[s].to \in Procs BY <1>1, <2>1, <3>2 DEF Begun, TypeOK, Handlers
      <4> QED BY <1>1, <3>2, <4>1, <4>2
    <3> QED BY <3>1, <3>2
  <2>2. ASSUME NEW q \in Procs, rec'[q] = "listed", NEW s \in subs'[q]
        PROVE  Beating(s)' \/ strm'[s].pc = "broken"
    <3>1. CASE s = t BY <1>1, <3>1 DEF Beating
    <3>2. CASE s # t
      <4>1. s \in subs[q] /\ s \in Streams \ {t} BY <1>1, <1>3, <2>2, <3>2
      <4>2. Beating(s) \/ strm[s].pc = "broken" BY <1>1, <2>2, <4>1 DEF Attached
      <4> QED BY <1>1, <4>1, <4>2 DEF Beating
    <3> QED BY <3>1, <3>2
  <2>3. (EarlyOutput \/ HeadFirst)' BY <1>1 DEF Attached, HeadFirst
  <2> QED BY <1>1, <2>1, <2>2, <2>3 DEF Attached
<1>9. Begun'
  <2>1. ASSUME NEW q \in Procs, proc'[q].at = "none" PROVE Traceless(q)'
    <3>1. q # p /\ Traceless(q) BY <1>1, <1>4, <2>1, BegunParts
    <3> QED BY <1>1, <3>1 DEF Traceless
  <2>2. ASSUME NEW q \in Procs, Sizing(q)' PROVE Sole(q)'
    <3>1. Starter[q] # t /\ Starter[q] \in Streams BY <1>1, <2>2 DEF Sizing
    <3>2. Sizing(q) BY <1>1, <2>2, <3>1 DEF Sizing
    <3>3. q # p BY <1>4, <3>2
    <3> QED BY <1>1, <3>1, <3>2, <3>3, BegunParts DEF Sole
  <2>3. ASSUME NEW q \in Procs, NEW s \in subs'[q] PROVE strm'[s].to = q /\ strm'[s].pc # "waking"
    <3>1. CASE s = t
      <4>1. q = p BY <1>1, <1>3, <2>3, <3>1
      <4> QED BY <1>1, <3>1, <4>1
    <3>2. CASE s # t
      <4>1. s \in subs[q] /\ s \in Streams \ {t} BY <1>1, <1>3, <2>3, <3>2
      <4> QED BY <1>1, <4>1, BegunParts
    <3> QED BY <3>1, <3>2
  <2>4. ASSUME NEW s \in Streams PROVE Posed(s)'
    <3>1. CASE s = t BY <1>1, <3>1 DEF Posed
    <3>2. CASE s # t BY <1>1, <3>2, BegunParts DEF Posed
    <3> QED BY <3>1, <3>2
  <2>5. \A q \in Procs : strm'[Starter[q]].pc = "waking" => proc'[q].at = "none" BY <1>1, BegunParts
  <2>6. \A q \in Procs : (dockerd' = q => proc'[q].at = "exited") /\ (proc'[q].at = "handled" => proc'[q].held = 0)
    BY <1>1, BegunParts
  <2> QED BY <2>1, <2>2, <2>3, <2>4, <2>5, <2>6 DEF Begun, Traceless, Sole, Posed, Sizing
<1> QED BY <1>5, <1>6, <1>7, <1>8, <1>9

(* A chunk that goes to every subscriber. *)
LEMMA SinkStep == ASSUME TypeOK, Rest, TypeOK', NEW p \in Procs, Sink(p) PROVE Rest'
<1> USE DEF Rest
<1>0. pump[p] \in Pumps /\ proc[p] \in Processes /\ Chunks[p] \in Nat BY DEF TypeOK
<1>1. /\ UNCHANGED <<proc, dockerd, rec, subs, strm>> /\ pump[p].at = "on" /\ pump[p].mem > 0 /\ ~pump[p].sinking
      /\ pump'[p].at = "on" /\ pump'[p].mem = pump[p].mem /\ pump'[p].sinking /\ pump'[p].sent = pump[p].sent + 1
      /\ pump'[p].tail = pump[p].tail /\ \A q \in Procs \ {p} : pump'[q] = pump[q]
  BY <1>0 DEF Sink, TypeOK, Pumps
<1>2. \A s \in Streams : conn'[s].open = conn[s].open
  <2>1. PICK slow : conn' = Full(slow) BY DEF Sink
  <2> QED BY <2>1, FullFacts
<1>3. \A s \in Streams : /\ wire'[s].end = wire[s].end
                         /\ Hears(p, s) => wire'[s].seen = wire[s].seen + 1
                         /\ ~Hears(p, s) => wire'[s] = wire[s]
  <2>1. \A s \in Streams : wire[s] \in Wires BY DEF TypeOK
  <2>2. wire' = [s \in Streams |-> IF Hears(p, s) THEN [wire[s] EXCEPT !.seen = @ + 1] ELSE wire[s]] BY DEF Sink
  <2> QED BY <2>1, <2>2 DEF Wires
<1>4. \A q \in Procs : \A s \in subs[q] : s \in Streams /\ strm[s].to = q BY DEF TypeOK, Begun
<1>5. Conserved'
  <2>1. ASSUME NEW q \in Procs, pump'[q].at = "on", NEW s \in subs'[q], conn'[s].open PROVE wire'[s].seen = pump'[q].sent
    <3>1. s \in subs[q] /\ s \in Streams /\ conn[s].open BY <1>1, <1>2, <1>4, <2>1
    <3>2. pump[q].at = "on" BY <1>1, <2>1
    <3>3. wire[s].seen = pump[q].sent BY <3>1, <3>2 DEF Conserved
    <3>4. CASE q = p BY <1>1, <1>3, <3>1, <3>3, <3>4 DEF Hears
    <3>5. CASE q # p
      <4>1. ~Hears(p, s) BY <1>4, <3>1, <3>5 DEF Hears
      <4> QED BY <1>1, <1>3, <3>1, <3>3, <3>5, <4>1
    <3> QED BY <3>4, <3>5
  <2>2. Written(p)' = proc'[p].held + (pump'[p].mem - 1) + pump'[p].sent
    <3>1. Chunks[p] - proc[p].left = proc[p].held + pump[p].mem + pump[p].sent BY <1>1 DEF Conserved, Written
    <3>2. /\ Chunks[p] \in Nat /\ proc[p].left \in Nat /\ proc[p].held \in Nat
          /\ pump[p].mem \in Nat /\ pump[p].sent \in Nat
      BY <1>0 DEF Processes, Pumps
    <3>3. Chunks[p] - proc[p].left = proc[p].held + (pump[p].mem - 1) + (pump[p].sent + 1) BY <3>1, <3>2
    <3> QED BY <1>1, <3>3 DEF Written
  <2>3. ASSUME NEW q \in Procs \ {p}, pump'[q].at = "on"
        PROVE  Written(q)' = proc'[q].held + (IF pump'[q].sinking THEN pump'[q].mem - 1 ELSE pump'[q].mem) + pump'[q].sent
    BY <1>1, <2>3 DEF Conserved, Written
  <2>4. ASSUME NEW q \in Procs, pump'[q].sinking PROVE pump'[q].at = "on" /\ pump'[q].mem > 0
    BY <1>1, <2>4 DEF Conserved
  <2> QED BY <1>1, <2>1, <2>2, <2>3, <2>4 DEF Conserved
<1>6. Paced' BY <1>1 DEF Paced
<1>7. Complete'
  <2> SUFFICES ASSUME NEW s \in Streams, wire'[s].end = "exit", conn'[s].open
               PROVE  \E q \in Procs : strm'[s].to = q /\ pump'[q].at # "on" /\ wire'[s].seen = Written(q)'
    BY DEF Complete
  <2>1. PICK q \in Procs : strm[s].to = q /\ pump[q].at # "on" /\ wire[s].seen = Written(q)
    BY <1>2, <1>3 DEF Complete
  <2>2. q # p BY <1>1, <2>1
  <2>3. ~Hears(p, s) BY <1>4, <2>1, <2>2 DEF Hears
  <2> QED BY <1>1, <1>3, <2>1, <2>2, <2>3 DEF Written
<1>8. Attached' BY <1>1, <1>3, <1>4 DEF Attached, Beating, HeadFirst
<1>9. Begun'
  <2>1. proc[p].at # "none" BY <1>1, OverFacts, BegunParts DEF Traceless
  <2>2. ASSUME NEW q \in Procs, proc'[q].at = "none" PROVE Traceless(q)'
    BY <1>1, <2>1, <2>2, BegunParts DEF Traceless
  <2>3. ASSUME NEW q \in Procs, Sizing(q)' PROVE Sole(q)'
    <3>1. Sizing(q) /\ Sole(q) /\ Starter[q] \in Streams BY <1>1, <2>3, BegunParts DEF Sizing
    <3>2. CASE EarlyOutput BY <1>1, <3>1, <3>2 DEF Sole
    <3>3. CASE ~EarlyOutput
      <4>1. q # p
        <5> SUFFICES ASSUME q = p PROVE FALSE OBVIOUS
        <5>1. Chunks[p] - proc[p].left = proc[p].held + pump[p].mem + pump[p].sent BY <1>1 DEF Conserved, Written
        <5>2. Chunks[p] = proc[p].left BY <3>1, <3>3 DEF Sole
        <5>3. proc[p].held \in Nat /\ pump[p].mem \in Nat /\ pump[p].sent \in Nat /\ pump[p].mem > 0
          BY <1>0, <1>1 DEF Processes, Pumps
        <5>4. Chunks[p] - proc[p].left = 0 BY <1>0, <5>2
        <5> QED BY <5>1, <5>3, <5>4
      <4>2. ~Hears(p, Starter[q])
        <5>1. strm[Starter[q]].to = q BY <3>1 DEF Sizing
        <5> QED BY <1>4, <4>1, <5>1 DEF Hears
      <4>3. wire'[Starter[q]] = wire[Starter[q]] BY <1>3, <3>1, <4>2
      <4> QED BY <1>1, <3>1, <4>1, <4>3 DEF Sole
    <3> QED BY <3>2, <3>3
  <2>4. ASSUME NEW s \in Streams PROVE Posed(s)'
    <3>1. CASE strm[s].pc = "waking"
      <4>1. ~Hears(p, s) BY <3>1, BegunParts DEF Hears
      <4> QED BY <1>1, <1>3, <4>1, BegunParts DEF Posed
    <3>2. CASE strm[s].pc # "waking" BY <1>1, <3>2, BegunParts DEF Posed
    <3> QED BY <3>1, <3>2
  <2>5. \A q \in Procs : strm'[Starter[q]].pc = "waking" => proc'[q].at = "none" BY <1>1, BegunParts
  <2>6. \A q \in Procs : (dockerd' = q => proc'[q].at = "exited") /\ (proc'[q].at = "handled" => proc'[q].held = 0)
    BY <1>1, BegunParts
  <2>7. \A q \in Procs : \A s \in subs'[q] : strm'[s].to = q /\ strm'[s].pc # "waking" BY <1>1, BegunParts
  <2> QED BY <2>2, <2>3, <2>4, <2>5, <2>6, <2>7 DEF Begun, Traceless, Sole, Posed, Sizing
<1> QED BY <1>5, <1>6, <1>7, <1>8, <1>9

(* A process begins: its starter is at hand, and nothing of it was there. *)
LEMMA Beginning ==
  ASSUME TypeOK, Rest, NEW p \in Procs, strm[Starter[p]].pc = "waking"
  PROVE  /\ proc[p].at = "none" /\ Traceless(p) /\ Starter[p] \in Streams /\ strm[Starter[p]].to = NoOne
         /\ wire[Starter[p]].seen = 0 /\ wire[Starter[p]].end = "none"
         /\ pump[p].at = "off" /\ pump[p].mem = 0 /\ pump[p].sent = 0 /\ ~pump[p].sinking /\ ~pump[p].tail
         /\ \A q \in Procs : Starter[p] \notin subs[q] /\ (q # p => Starter[q] # Starter[p])
<1>1. proc[p].at = "none" /\ Traceless(p) BY BegunParts DEF Rest
<1>2. pump[p] = Over("off") BY <1>1 DEF Traceless
<1>3. \A q \in Procs : Starter[p] \notin subs[q] BY BegunParts DEF Rest
<1>4. Posed(Starter[p]) BY BegunParts DEF Rest
<1> QED BY <1>1, <1>2, <1>3, <1>4, OverFacts DEF Posed

LEMMA SpawnStep == ASSUME TypeOK, Rest, TypeOK', NEW p \in Procs, Spawn(p) PROVE Rest'
<1> USE DEF Rest
<1> DEFINE t == Starter[p]
<1>0. /\ proc[p].at = "none" /\ Traceless(p) /\ t \in Streams /\ strm[t].to = NoOne
      /\ wire[t].seen = 0 /\ wire[t].end = "none"
      /\ pump[p].at = "off" /\ pump[p].mem = 0 /\ pump[p].sent = 0 /\ ~pump[p].sinking /\ ~pump[p].tail
      /\ \A q \in Procs : t \notin subs[q] /\ (q # p => Starter[q] # t)
  BY Beginning DEF Spawn
<1>a. proc[p] \in Processes /\ pump[p] \in Pumps /\ strm[t] \in Handlers /\ Chunks[p] \in Nat BY <1>0 DEF TypeOK
<1>1. /\ UNCHANGED <<dockerd, wire, conn>> /\ dockerd = NoOne /\ subs'[p] = {t}
      /\ \A q \in Procs \ {p} : proc'[q] = proc[q] /\ pump'[q] = pump[q] /\ subs'[q] = subs[q] /\ rec'[q] = rec[q]
      /\ proc'[p].at = "running" /\ proc'[p].left = proc[p].left /\ proc'[p].held = proc[p].held
      /\ pump'[p].at = "on" /\ pump'[p].mem = 0 /\ pump'[p].sent = 0 /\ ~pump'[p].sinking /\ ~pump'[p].tail
  BY <1>0, <1>a DEF Spawn, TypeOK, Processes, Pumps
<1>2. /\ \A s \in Streams \ {t} : strm'[s] = strm[s]
      /\ strm'[t].to = p
      /\ p \in Ttys => strm'[t].pc = "sizing" /\ rec'[p] = rec[p]
      /\ p \notin Ttys => strm'[t].pc = "pumping" /\ rec'[p] = "listed"
  <2>1. CASE p \in Ttys
    <3>1. strm' = [strm EXCEPT ![t] = [strm[t] EXCEPT !.pc = "sizing", !.to = p]] /\ UNCHANGED rec
      BY <1>0, <2>1 DEF Spawn
    <3> QED BY <1>0, <1>a, <2>1, <3>1 DEF TypeOK, Handlers
  <2>2. CASE p \notin Ttys
    <3>1. strm' = [strm EXCEPT ![t] = [pc |-> "pumping", to |-> p, deaf |-> ~conn[t].open]]
          /\ rec' = [rec EXCEPT ![p] = "listed"]
      BY <2>2 DEF Spawn, Pumping
    <3> QED BY <1>0, <2>2, <3>1 DEF TypeOK
  <2> QED BY <2>1, <2>2
<1>3. \A q \in Procs : subs[q] \subseteq Streams BY DEF TypeOK
<1>4. proc[p].left = Chunks[p] /\ proc[p].held = 0 /\ rec[p] = "none" /\ subs[p] = {} BY <1>0 DEF Traceless
<1>b. \A s \in Streams : strm[s].to # p BY <1>0 DEF Traceless
<1>5. Conserved'
  <2>1. Written(p)' = 0 /\ proc'[p].held = 0 BY <1>1, <1>4, <1>a DEF Written
  <2> QED BY <1>0, <1>1, <2>1 DEF Conserved, Written
<1>6. Paced' BY <1>1 DEF Paced
<1>7. Complete'
  <2> SUFFICES ASSUME NEW s \in Streams, wire'[s].end = "exit", conn'[s].open
               PROVE  \E q \in Procs : strm'[s].to = q /\ pump'[q].at # "on" /\ wire'[s].seen = Written(q)'
    BY DEF Complete
  <2>1. PICK q \in Procs : strm[s].to = q /\ pump[q].at # "on" /\ wire[s].seen = Written(q)
    BY <1>1 DEF Complete
  <2>2. s # t /\ q # p BY <1>0, <1>1, <1>b, <2>1
  <2> QED BY <1>1, <1>2, <2>1, <2>2 DEF Written
<1>8. Attached'
  <2>1. ASSUME NEW s \in Streams, strm'[s].pc = "pumping", wire'[s].end = "none" PROVE s \in subs'[strm'[s].to]
    <3>1. CASE s = t BY <1>1, <1>2, <3>1
    <3>2. CASE s # t
      <4>1. s \in subs[strm[s].to] BY <1>1, <1>2, <2>1, <3>2 DEF Attached
      <4>2. strm[s].to \in Procs BY <1>1, <1>2, <2>1, <3>2 DEF Begun, TypeOK, Handlers
      <4> QED BY <1>1, <1>2, <1>b, <3>2, <4>1, <4>2
    <3> QED BY <3>1, <3>2
  <2>2. ASSUME NEW q \in Procs, rec'[q] = "listed"
        PROVE  pump'[q].at = "on" /\ \A s \in subs'[q] : Beating(s)' \/ strm'[s].pc = "broken"
    <3>1. CASE q = p
      <4>1. p \notin Ttys BY <1>2, <1>4, <2>2, <3>1
      <4> QED BY <1>1, <1>2, <3>1, <4>1 DEF Beating
    <3>2. CASE q # p
      <4>1. pump[q].at = "on" /\ \A s \in subs[q] : Beating(s) \/ strm[s].pc = "broken"
        BY <1>1, <2>2, <3>2 DEF Attached
      <4> QED BY <1>0, <1>1, <1>2, <1>3, <3>2, <4>1 DEF Beating
    <3> QED BY <3>1, <3>2
  <2>3. (EarlyOutput \/ HeadFirst)' BY <1>2 DEF Attached, HeadFirst
  <2> QED BY <2>1, <2>2, <2>3 DEF Attached
<1>9. Begun'
  <2>1. ASSUME NEW q \in Procs, proc'[q].at = "none" PROVE Traceless(q)'
    <3>1. q # p /\ Traceless(q) BY <1>1, <2>1, BegunParts
    <3> QED BY <1>1, <1>2, <3>1 DEF Traceless
  <2>2. ASSUME NEW q \in Procs, Sizing(q)' PROVE Sole(q)'
    <3>1. CASE q = p
      <4>1. p \in Ttys BY <1>2, <2>2, <3>1 DEF Sizing
      <4> QED BY <1>0, <1>1, <1>2, <1>4, <3>1, <4>1 DEF Sole
    <3>2. CASE q # p
      <4>1. Starter[q] \in Streams \ {t} BY <1>0, <3>2
      <4>2. Sizing(q) BY <1>2, <2>2, <4>1 DEF Sizing
      <4> QED BY <1>1, <3>2, <4>2, BegunParts DEF Sole
    <3> QED BY <3>1, <3>2
  <2>3. ASSUME NEW q \in Procs, NEW s \in subs'[q] PROVE strm'[s].to = q /\ strm'[s].pc # "waking"
    <3>1. CASE q = p BY <1>1, <1>2, <2>3, <3>1
    <3>2. CASE q # p
      <4>1. s \in subs[q] /\ s \in Streams \ {t} BY <1>0, <1>1, <1>3, <2>3, <3>2
      <4> QED BY <1>2, <4>1, BegunParts
    <3> QED BY <3>1, <3>2
  <2>4. ASSUME NEW s \in Streams PROVE Posed(s)'
    <3>1. CASE s = t BY <1>2, <3>1 DEF Posed
    <3>2. CASE s # t BY <1>1, <1>2, <3>2, BegunParts DEF Posed
    <3> QED BY <3>1, <3>2
  <2>5. ASSUME NEW q \in Procs, strm'[Starter[q]].pc = "waking" PROVE proc'[q].at = "none"
    <3>1. q # p BY <1>2, <2>5
    <3>2. Starter[q] \in Streams \ {t} BY <1>0, <3>1
    <3> QED BY <1>1, <1>2, <2>5, <3>1, <3>2, BegunParts
  <2>6. \A q \in Procs : (dockerd' = q => proc'[q].at = "exited") /\ (proc'[q].at = "handled" => proc'[q].held = 0)
    BY <1>1, BegunParts
  <2> QED BY <2>1, <2>2, <2>3, <2>4, <2>5, <2>6 DEF Begun, Traceless, Sole, Posed, Sizing
<1> QED BY <1>5, <1>6, <1>7, <1>8, <1>9

(* The size of a terminal is set. *)
LEMMA SizedStep == ASSUME TypeOK, Rest, TypeOK', NEW p \in Procs, Sized(p) PROVE Rest'
<1> USE DEF Rest
<1> DEFINE t == Starter[p]
<1>0. Sizing(p) /\ Sole(p) /\ t \in Streams /\ strm[t] \in Handlers BY BegunParts DEF Sized, Sizing, TypeOK
<1>1. /\ UNCHANGED <<proc, dockerd, pump, subs, wire, conn>>
      /\ rec'[p] = "listed" /\ \A q \in Procs \ {p} : rec'[q] = rec[q]
      /\ \A s \in Streams \ {t} : strm'[s] = strm[s]
      /\ strm'[t].to = p /\ strm'[t].pc \in {"pumping", "broken"} /\ (strm'[t].pc = "broken" => wire[t].seen # 0)
  <2>1. strm[t].to = p BY <1>0 DEF Sizing
  <2>2. CASE wire[t].seen = 0 BY <1>0, <2>2 DEF Sized, Pumping, TypeOK
  <2>3. CASE wire[t].seen # 0 BY <1>0, <2>1, <2>3 DEF Sized, Goes, TypeOK, Handlers
  <2> QED BY <2>2, <2>3
<1>2. pump[p].at = "on" /\ subs[p] = {t} /\ (EarlyOutput \/ wire[t].seen = 0) BY <1>0 DEF Sole
<1>3. \A s \in Streams : strm'[s].to = strm[s].to BY <1>0, <1>1 DEF Sizing
<1>4. \A q \in Procs : subs[q] \subseteq Streams BY DEF TypeOK
<1>5. Conserved' BY <1>1 DEF Conserved, Written
<1>6. Paced' BY <1>1 DEF Paced
<1>7. Complete' BY <1>1, <1>3 DEF Complete, Written
<1>8. Attached'
  <2>1. ASSUME NEW s \in Streams, strm'[s].pc = "pumping", wire'[s].end = "none" PROVE s \in subs'[strm'[s].to]
    <3>1. CASE s = t BY <1>1, <1>2, <3>1
    <3>2. CASE s # t BY <1>1, <2>1, <3>2 DEF Attached
    <3> QED BY <3>1, <3>2
  <2>2. ASSUME NEW q \in Procs, rec'[q] = "listed"
        PROVE  pump'[q].at = "on" /\ \A s \in subs'[q] : Beating(s)' \/ strm'[s].pc = "broken"
    <3>1. CASE q = p BY <1>1, <1>2, <3>1 DEF Beating
    <3>2. CASE q # p
      <4>1. pump[q].at = "on" /\ \A s \in subs[q] : Beating(s) \/ strm[s].pc = "broken"
        BY <1>1, <2>2, <3>2 DEF Attached
      <4>2. t \notin subs[q] BY <1>0, <3>2, BegunParts DEF Sizing
      <4> QED BY <1>1, <1>4, <4>1, <4>2 DEF Beating
    <3> QED BY <3>1, <3>2
  <2>3. (EarlyOutput \/ HeadFirst)' BY <1>1, <1>2 DEF Attached, HeadFirst
  <2> QED BY <2>1, <2>2, <2>3 DEF Attached
<1>9. Begun'
  <2>0. proc[p].at # "none" BY <1>2, OverFacts, BegunParts DEF Traceless
  <2>1. ASSUME NEW q \in Procs, proc'[q].at = "none" PROVE Traceless(q)'
    BY <1>1, <1>3, <2>0, <2>1, BegunParts DEF Traceless
  <2>2. ASSUME NEW q \in Procs, Sizing(q)' PROVE Sole(q)'
    <3>1. Starter[q] \in Streams \ {t} BY <1>1, <2>2 DEF Sizing
    <3>2. Sizing(q) /\ q # p BY <1>1, <2>2, <3>1 DEF Sizing
    <3> QED BY <1>1, <3>2, BegunParts DEF Sole
  <2>3. \A q \in Procs : \A s \in subs'[q] : strm'[s].to = q /\ strm'[s].pc # "waking"
    BY <1>1, <1>3, <1>4, BegunParts
  <2>4. ASSUME NEW s \in Streams PROVE Posed(s)'
    <3>1. CASE s = t BY <1>1, <3>1 DEF Posed
    <3>2. CASE s # t BY <1>1, <3>2, BegunParts DEF Posed
    <3> QED BY <3>1, <3>2
  <2>5. \A q \in Procs : strm'[Starter[q]].pc = "waking" => proc'[q].at = "none" BY <1>1, BegunParts
  <2>6. \A q \in Procs : (dockerd' = q => proc'[q].at = "exited") /\ (proc'[q].at = "handled" => proc'[q].held = 0)
    BY <1>1, BegunParts
  <2> QED BY <2>1, <2>2, <2>3, <2>4, <2>5, <2>6 DEF Begun, Traceless, Sole, Posed, Sizing
<1> QED BY <1>5, <1>6, <1>7, <1>8, <1>9

(* A start that is given up, with or without a process that lives on. *)
LEMMA StartFailsStep == ASSUME TypeOK, Rest, TypeOK', NEW p \in Procs, StartFails(p) PROVE Rest'
<1> USE DEF Rest
<1> DEFINE t == Starter[p]
<1>0. /\ proc[p].at = "none" /\ Traceless(p) /\ t \in Streams /\ strm[t].to = NoOne
      /\ pump[p].mem = 0 /\ ~pump[p].sinking /\ ~pump[p].tail
      /\ \A q \in Procs : t \notin subs[q] /\ (q # p => Starter[q] # t)
  BY Beginning DEF StartFails
<1>1. UNCHANGED <<dockerd, rec, subs>> /\ Leaves(t) BY DEF StartFails
<1>2. /\ strm'[t].pc = "done" /\ strm'[t].to = NoOne /\ wire'[t].end = "none" /\ ~conn'[t].open
      /\ \A s \in Streams \ {t} : strm'[s] = strm[s] /\ wire'[s] = wire[s] /\ conn'[s] = conn[s]
  BY <1>0, <1>1, LeavesFacts
<1>3. CASE UNCHANGED <<proc, pump>> BY <1>0, <1>1, <1>3, LeavesStep
<1>4. CASE proc' = [proc EXCEPT ![p].at = "running"] /\ pump' = [pump EXCEPT ![p].at = "cut"]
  <2>0. proc[p] \in Processes /\ pump[p] \in Pumps BY DEF TypeOK
  <2>1. /\ proc'[p].at = "running" /\ pump'[p].at = "cut" /\ pump'[p].mem = 0 /\ ~pump'[p].sinking /\ ~pump'[p].tail
        /\ \A q \in Procs \ {p} : proc'[q] = proc[q] /\ pump'[q] = pump[q]
    BY <1>0, <1>4, <2>0 DEF TypeOK, Processes, Pumps
  <2>2. subs[p] = {} /\ rec[p] = "none" /\ \A s \in Streams : strm[s].to # p BY <1>0 DEF Traceless
  <2>3. \A q \in Procs : subs[q] \subseteq Streams \ {t} BY <1>0 DEF TypeOK
  <2>4. Conserved' BY <1>1, <1>2, <2>1, <2>3 DEF Conserved, Written
  <2>5. Paced' BY <2>1 DEF Paced
  <2>6. Complete'
    <3> SUFFICES ASSUME NEW s \in Streams, wire'[s].end = "exit", conn'[s].open
                 PROVE  \E q \in Procs : strm'[s].to = q /\ pump'[q].at # "on" /\ wire'[s].seen = Written(q)'
      BY DEF Complete
    <3>1. s # t BY <1>2
    <3>2. PICK q \in Procs : strm[s].to = q /\ pump[q].at # "on" /\ wire[s].seen = Written(q)
      BY <1>2, <3>1 DEF Complete
    <3>3. q # p BY <2>2, <3>2
    <3> QED BY <1>2, <2>1, <3>1, <3>2, <3>3 DEF Written
  <2>7. Attached'
    <3>1. ASSUME NEW s \in Streams, strm'[s].pc = "pumping", wire'[s].end = "none" PROVE s \in subs'[strm'[s].to]
      BY <1>1, <1>2, <3>1 DEF Attached
    <3>2. ASSUME NEW q \in Procs, rec'[q] = "listed"
          PROVE  pump'[q].at = "on" /\ \A s \in subs'[q] : Beating(s)' \/ strm'[s].pc = "broken"
      <4>1. q # p BY <1>1, <2>2, <3>2
      <4> QED BY <1>1, <1>2, <2>1, <2>3, <3>2, <4>1 DEF Attached, Beating
    <3>3. (EarlyOutput \/ HeadFirst)' BY <1>2 DEF Attached, HeadFirst
    <3> QED BY <3>1, <3>2, <3>3 DEF Attached
  <2>8. Begun'
    <3>1. ASSUME NEW q \in Procs, proc'[q].at = "none" PROVE Traceless(q)'
      <4>1. q # p /\ Traceless(q) BY <2>1, <3>1, BegunParts
      <4>2. \A s \in Streams : strm'[s].to = strm[s].to BY <1>0, <1>2
      <4> QED BY <1>1, <2>1, <4>1, <4>2 DEF Traceless
    <3>2. ASSUME NEW q \in Procs, Sizing(q)' PROVE Sole(q)'
      <4>1. Starter[q] \in Streams \ {t} BY <1>2, <3>2 DEF Sizing
      <4>2. Sizing(q) /\ q # p BY <1>2, <3>2, <4>1 DEF Sizing
      <4> QED BY <1>1, <1>2, <2>1, <4>1, <4>2, BegunParts DEF Sole
    <3>3. \A q \in Procs : \A s \in subs'[q] : strm'[s].to = q /\ strm'[s].pc # "waking"
      BY <1>1, <1>2, <2>3, BegunParts
    <3>4. ASSUME NEW s \in Streams PROVE Posed(s)'
      <4>1. CASE s = t BY <1>2, <4>1 DEF Posed
      <4>2. CASE s # t BY <1>2, <4>2, BegunParts DEF Posed
      <4> QED BY <4>1, <4>2
    <3>5. ASSUME NEW q \in Procs, strm'[Starter[q]].pc = "waking" PROVE proc'[q].at = "none"
      <4>1. q # p BY <1>2, <3>5
      <4>2. Starter[q] \in Streams \ {t} BY <1>0, <4>1
      <4> QED BY <1>2, <2>1, <3>5, <4>1, <4>2, BegunParts
    <3>6. ASSUME NEW q \in Procs
          PROVE  (dockerd' = q => proc'[q].at = "exited") /\ (proc'[q].at = "handled" => proc'[q].held = 0)
      <4>1. dockerd # p BY <1>0, BegunParts
      <4> QED BY <1>1, <2>1, <4>1, BegunParts
    <3> QED BY <3>1, <3>2, <3>3, <3>4, <3>5, <3>6 DEF Begun, Traceless, Sole, Posed, Sizing
  <2> QED BY <2>4, <2>5, <2>6, <2>7, <2>8
<1> QED BY <1>3, <1>4 DEF StartFails

(* The shutdown ends every listed process in its readers' eyes. *)
LEMMA ShutdownStep == ASSUME TypeOK, Rest, TypeOK', Shutdown PROVE Rest'
<1> USE DEF Rest
<1> DEFINE ended == {p \in Procs : rec[p] = "listed"}
           told == UNION {subs[p] : p \in ended}
<1>1. /\ UNCHANGED <<proc, dockerd, pump, waits, strm>>
      /\ rec' = [p \in Procs |-> IF p \in ended THEN "ended" ELSE rec[p]]
      /\ subs' = [p \in Procs |-> IF p \in ended THEN {} ELSE subs[p]]
      /\ wire' = [s \in Streams |-> IF s \in told THEN Told(wire[s], "failure") ELSE wire[s]]
  BY DEF Shutdown
<1>2. \A s \in Streams : conn'[s].open = conn[s].open
  <2>1. PICK slow : conn' = Full(slow) BY DEF Shutdown
  <2> QED BY <2>1, FullFacts
<1>3. \A s \in Streams : /\ wire'[s].seen = wire[s].seen
                         /\ wire'[s].end = IF s \in told /\ wire[s].end = "none" THEN "failure" ELSE wire[s].end
  <2>1. \A s \in Streams : wire[s] \in Wires BY DEF TypeOK
  <2> QED BY <1>1, <2>1, ToldFacts
<1>4. /\ \A p \in Procs : subs[p] \subseteq Streams /\ subs'[p] \subseteq subs[p]
      /\ \A p \in Procs : rec'[p] # "listed" /\ (rec[p] = "none" <=> rec'[p] = "none")
      /\ \A p \in Procs : rec[p] # "listed" => subs'[p] = subs[p]
  BY <1>1 DEF TypeOK
<1>5. Conserved'
  <2>1. ASSUME NEW p \in Procs, pump'[p].at = "on", NEW s \in subs'[p], conn'[s].open PROVE wire'[s].seen = pump'[p].sent
    <3>1. s \in subs[p] /\ s \in Streams BY <1>4, <2>1
    <3> QED BY <1>1, <1>2, <1>3, <2>1, <3>1 DEF Conserved
  <2> QED BY <1>1, <2>1 DEF Conserved, Written
<1>6. Paced' BY <1>1 DEF Paced
<1>7. Complete' BY <1>1, <1>2, <1>3 DEF Complete, Written
<1>8. Attached'
  <2>1. ASSUME NEW s \in Streams, strm'[s].pc = "pumping", wire'[s].end = "none" PROVE s \in subs'[strm'[s].to]
    <3>1. wire[s].end = "none" /\ s \notin told BY <1>3, <2>1
    <3>2. s \in subs[strm[s].to] /\ strm[s].to \in Procs
      BY <1>1, <2>1, <3>1, BegunParts DEF Attached, Posed, TypeOK, Handlers
    <3>3. rec[strm[s].to] # "listed" BY <3>1, <3>2
    <3> QED BY <1>1, <1>4, <3>2, <3>3
  <2> QED BY <1>1, <1>4, <2>1 DEF Attached, HeadFirst
<1>9. Begun'
  <2>1. ASSUME NEW p \in Procs, proc'[p].at = "none" PROVE Traceless(p)'
    BY <1>1, <1>4, <2>1, BegunParts DEF Traceless
  <2>2. ASSUME NEW p \in Procs, Sizing(p)' PROVE Sole(p)'
    <3>1. Sizing(p) /\ Sole(p) BY <1>1, <2>2, BegunParts DEF Sizing
    <3>2. rec[p] = "none" BY <3>1 DEF Sole
    <3> QED BY <1>1, <1>3, <1>4, <3>1, <3>2 DEF Sole
  <2>3. \A p \in Procs : \A s \in subs'[p] : strm'[s].to = p /\ strm'[s].pc # "waking" BY <1>1, <1>4, BegunParts
  <2>4. ASSUME NEW s \in Streams PROVE Posed(s)'
    <3>1. strm[s].pc = "waking" => s \notin told BY BegunParts
    <3> QED BY <1>1, <1>3, <3>1, BegunParts DEF Posed
  <2>5. \A p \in Procs : strm'[Starter[p]].pc = "waking" => proc'[p].at = "none" BY <1>1, BegunParts
  <2>6. \A p \in Procs : (dockerd' = p => proc'[p].at = "exited") /\ (proc'[p].at = "handled" => proc'[p].held = 0)
    BY <1>1, BegunParts
  <2> QED BY <2>1, <2>2, <2>3, <2>4, <2>5, <2>6 DEF Begun, Traceless, Sole, Posed, Sizing
<1> QED BY <1>5, <1>6, <1>7, <1>8, <1>9

-----------------------------------------------------------------------------
LEMMA NextRest == ASSUME TypeOK, Rest, [Next]_vars PROVE TypeOK' /\ Rest'
<1>1. TypeOK' BY NextType DEF Rest
<1>2. ASSUME NEW p \in Procs, Process(p) PROVE Rest'
  <2>1. CASE Spawn(p) BY <1>1, <2>1, SpawnStep
  <2>2. CASE Sized(p) BY <1>1, <2>2, SizedStep
  <2>3. CASE StartFails(p) BY <1>1, <2>3, StartFailsStep
  <2>4. CASE SizeFails(p)
    <3>1. Starter[p] \in Streams OBVIOUS
    <3> QED BY <1>1, <2>4, <3>1, LeavingSteps
  <2>5. CASE Write(p) \/ Exit(p) \/ HandleExit(p) \/ Handled(p) \/ Read(p) \/ Sunk(p) \/ Probe(p) \/ ProbeUnanswered(p)
    BY <1>1, <2>5, QuietSteps
  <2>6. CASE Sink(p) BY <1>1, <2>6, SinkStep
  <2>7. CASE Settle(p) \/ Overdue(p) BY <1>1, <2>7, EndSteps
  <2> QED BY <1>2, <2>1, <2>2, <2>3, <2>4, <2>5, <2>6, <2>7 DEF Process, Output
<1>3. ASSUME NEW s \in Streams, Stream(s) \/ Client(s) PROVE Rest'
  <2>1. CASE Refused(s) \/ StreamEnds(s) \/ Noticed(s) \/ Closed(s) BY <1>1, <2>1, LeavingSteps
  <2>2. ASSUME NEW p \in Procs, Connect(s, p) PROVE Rest' BY <1>1, <2>2, ConnectStep
  <2>3. CASE Deadline(s) BY <1>1, <2>3, DeadlineStep
  <2>4. CASE Client(s) BY <2>4, ClientStep
  <2> QED BY <1>3, <2>1, <2>2, <2>3, <2>4 DEF Stream
<1>4. CASE Shutdown BY <1>1, <1>4, ShutdownStep
<1>5. CASE UNCHANGED vars
  <2>0. UNCHANGED <<proc, dockerd, pump, waits, rec, subs, strm, wire, conn>> BY <1>5 DEF vars
  <2>1. Conserved' /\ Paced' BY <2>0 DEF Rest, Conserved, Paced, Written
  <2>2. Complete' BY <2>0 DEF Rest, Complete, Written
  <2>3. Attached' BY <2>0 DEF Rest, Attached, HeadFirst, Beating
  <2>4. Begun' BY <2>0 DEF Rest, Begun
  <2> QED BY <1>1, <2>1, <2>2, <2>3, <2>4 DEF Rest
<1> QED BY <1>1, <1>2, <1>3, <1>4, <1>5 DEF Next

(* Everything below holds in every state the streams reach. *)
THEOREM AlwaysSInv == Spec => []SInv
<1>1. Init => SInv BY InitType, InitRest DEF SInv, Rest
<1>2. SInv /\ [Next]_vars => SInv' BY NextRest DEF SInv, Rest
<1> QED BY <1>1, <1>2, PTL DEF Spec

(* Who is told of an exit has been given every byte written since it came. *)
THEOREM AlwaysComplete == Spec => []Complete
<1>1. SInv => Complete BY DEF SInv
<1> QED BY <1>1, AlwaysSInv, PTL

(* The first output never overtakes the answer's head, provided no terminal
   writes before it has its size. *)
THEOREM AlwaysHeadFirst == ASSUME ~EarlyOutput PROVE Spec => []HeadFirst
<1>1. SInv => HeadFirst BY DEF SInv, Attached
<1> QED BY <1>1, AlwaysSInv, PTL
=============================================================================
