-------------------------- MODULE IdleClockProofs ---------------------------
(***************************************************************************)
(* Proofs about the idle clock and the deadline, for any commands, callers,*)
(* policies, timeouts and bounds.                                          *)
(***************************************************************************)
EXTENDS IdleClock, TLAPS

USE IdleAssumption DEF Ages, Thresholds, States, Kinds, Deadlines

-----------------------------------------------------------------------------
(* A heartbeat comes before the threshold it keeps the row under. *)
LEMMA BeatEarly ==
  ASSUME NEW f \in Ages \ {0, 1}
  PROVE  Beat(f) \in Nat /\ Beat(f) < f
  BY SMT DEF Beat, Least

LEMMA PolicyShape ==
  ASSUME NEW p \in Policies
  PROVE  /\ p.freeze \in Ages \ {0, 1}
         /\ p.stop \in Thresholds /\ p.archive \in Thresholds
         /\ p.stop # Never => p.freeze <= p.stop
         /\ p.archive # Never => p.freeze <= p.archive
  OBVIOUS

LEMMA InitIInv == Init => IInv
<1> SUFFICES ASSUME Init PROVE IInv OBVIOUS
<1>1. PICK p \in Policies : row = NoRow(p) BY DEF Init
<1>2. TypeOK
  <2>1. row \in Rows
    BY <1>1 DEF NoRow, Rows
  <2>2. slot \in Commands \cup Callers \cup {Free, Scanner} BY DEF Init
  <2>3. cmd \in [Commands -> Runs]
    BY DEF Init, NoCommand, Runs
  <2>4. con \in [Callers -> Connects]
    BY DEF Init, NoConnect, Connects
  <2>5. sweep \in Sweeps
    BY DEF Init, NoSweep, Sweeps
  <2> QED BY <2>1, <2>2, <2>3, <2>4, <2>5 DEF TypeOK
<1>3. Warm BY DEF Init, Warm, NoCommand
<1>4. Holding BY <1>1 DEF Init, Holding, NoRow, NoCommand, NoConnect, NoSweep
<1> QED BY <1>2, <1>3, <1>4 DEF IInv

(* Time passes for a row, its commands and the sweep alike: a beat is due
   before the row is older than it. *)
LEMMA TickIInv == ASSUME IInv, Tick PROVE IInv'
<1>1. TypeOK'
  <2> USE DEF IInv, TypeOK, Tick
  <2>1. Least(row.idle + 1, MaxIdle) \in Ages BY DEF Least, Rows
  <2>2. row' \in Rows
    <3>1. row \in Rows OBVIOUS
    <3>2. Aged(row.ttl) \in Deadlines BY <3>1 DEF Aged, Rows
    <3>3. row' = [row EXCEPT !.idle = Least(row.idle + 1, MaxIdle), !.ttl = Aged(row.ttl)] OBVIOUS
    <3> QED BY <2>1, <3>1, <3>2, <3>3 DEF Rows
  <2>3. ASSUME NEW e \in Commands PROVE cmd'[e] \in Runs
    <3>1. cmd[e] \in Runs OBVIOUS
    <3>2. cmd[e].pc = "running" => cmd[e].left - 1 \in Nat BY <3>1 DEF Runs
    <3> QED BY <3>1, <3>2 DEF Runs
  <2>4. ASSUME NEW c \in Callers PROVE con'[c] \in Connects
    <3>1. con[c] \in Connects OBVIOUS
    <3>2. Aged(con[c].seen) \in Deadlines BY <3>1 DEF Aged, Connects
    <3>3. con'[c] = [con[c] EXCEPT !.seen = Aged(con[c].seen)] OBVIOUS
    <3> QED BY <3>1, <3>2, <3>3 DEF Connects
  <2>5. sweep' \in Sweeps BY DEF Sweeps
  <2> QED BY <2>2, <2>3, <2>4, <2>5
<1>2. Warm'
  <2>1. row \in Rows /\ cmd \in [Commands -> Runs] /\ Warm BY DEF IInv, TypeOK
  <2>2. row'.state = row.state /\ row'.idle <= row.idle + 1
    BY <2>1 DEF Tick, Least, Rows
  <2> SUFFICES ASSUME NEW e \in Commands, cmd'[e].pc = "running"
               PROVE  /\ row'.state # "none"
                      /\ row'.idle + cmd'[e].left <= cmd'[e].beat
                      /\ cmd'[e].under > 1 /\ cmd'[e].beat = Beat(cmd'[e].under)
    BY DEF Warm, Beat
  <2>3. cmd'[e] = [cmd[e] EXCEPT !.left = IF cmd[e].pc = "running" THEN cmd[e].left - 1 ELSE cmd[e].left]
    BY DEF Tick
  <2>4. /\ cmd[e].pc = "running" /\ cmd'[e].left = cmd[e].left - 1
        /\ cmd'[e].beat = cmd[e].beat /\ cmd'[e].under = cmd[e].under
    BY <2>1, <2>3 DEF Runs
  <2>5. row.idle \in Nat /\ cmd[e].left \in Nat /\ cmd[e].beat \in Nat /\ row'.idle \in Nat
    BY <1>1, <2>1 DEF TypeOK, Rows, Runs
  <2>6. row'.idle + (cmd[e].left - 1) <= row.idle + cmd[e].left BY <2>2, <2>5
  <2>7. row.state # "none" /\ row.idle + cmd[e].left <= cmd[e].beat
        /\ cmd[e].under > 1 /\ cmd[e].beat = Beat(cmd[e].under)
    BY <2>1, <2>4 DEF Warm
  <2> QED BY <2>2, <2>4, <2>5, <2>6, <2>7
<1>3. Holding'
  BY DEF IInv, TypeOK, Holding, Tick, Aged, Rows, Runs, Connects, Sweeps
<1> QED BY <1>1, <1>2, <1>3 DEF IInv

LEMMA BirthIInv ==
  ASSUME IInv, NEW kind \in Kinds, NEW p \in Policies, NEW t \in Timeouts, Birth(kind, p, t)
  PROVE  IInv'
<1>1. TypeOK'
  <2> USE DEF IInv, TypeOK, Birth
  <2>1. row' \in Rows
    <3>1. t \in Int OBVIOUS
    <3> QED BY <3>1, SMTT(30) DEF Rows
  <2>2. cmd' \in [Commands -> Runs]
    BY DEF NoCommand, Runs
  <2> QED BY <2>1, <2>2
<1>2. Warm' BY DEF IInv, TypeOK, Warm, Birth, NoCommand
<1>3. Holding' BY DEF IInv, TypeOK, Holding, Birth, NoCommand
<1> QED BY <1>1, <1>2, <1>3 DEF IInv

LEMMA AwakeRow == ASSUME row \in Rows PROVE Awake \in Rows
<1>1. [row EXCEPT !.paused = FALSE] \in Rows BY DEF Rows
<1>2. 0 \in Ages OBVIOUS
<1>3. [[row EXCEPT !.paused = FALSE] EXCEPT !.idle = 0] \in Rows BY <1>1, <1>2 DEF Rows
<1>4. [[[row EXCEPT !.paused = FALSE] EXCEPT !.idle = 0] EXCEPT !.state = "active"] \in Rows
  BY <1>3 DEF Rows
<1> QED BY <1>4 DEF Awake, Rows

(* A command beats as the policy of its start has it. *)
LEMMA CommandIInv ==
  ASSUME IInv, NEW e \in Commands, Command(e)
  PROVE  IInv'
<1> USE DEF IInv, TypeOK
<1>1. CASE Start(e)
  BY <1>1 DEF Start, Runs, Warm, Holding, Wakeable
<1>2. CASE Run(e)
  <2>1. row.policy.freeze \in Ages \ {0, 1} /\ Beat(row.policy.freeze) \in Nat
    BY PolicyShape, BeatEarly DEF Rows
  <2>2. slot = e /\ row.state # "none" BY <1>2 DEF Run, Holding
  <2>3. TypeOK'
    <3>1. row \in Rows /\ row' = Awake BY <1>2 DEF Run
    <3>3. row' \in Rows BY <3>1, AwakeRow
    <3>2. cmd' \in [Commands -> Runs] BY <1>2, <2>1 DEF Run, Runs
    <3> QED BY <1>2, <3>3, <3>2 DEF Run
  <2>4. Warm'
    <3>1. row'.idle = 0 /\ row'.state = "active" BY <1>2 DEF Run, Awake, Rows
    <3>2. cmd'[e] = [pc |-> "running", beat |-> Beat(row.policy.freeze),
                     left |-> Beat(row.policy.freeze), under |-> row.policy.freeze]
      BY <1>2 DEF Run
    <3>3. ASSUME NEW d \in Commands, d # e, cmd[d].pc = "running"
          PROVE  0 + cmd[d].left <= cmd[d].beat
      BY <3>3 DEF Warm, Rows, Runs
    <3>4. row.policy.freeze > 1 BY <2>1
    <3> QED BY <1>2, <2>1, <3>1, <3>2, <3>3, <3>4 DEF Run, Warm
  <2>5. Holding' BY <1>2, <2>2 DEF Run, Awake, Rows, Runs, Holding
  <2> QED BY <2>3, <2>4, <2>5
<1>3. CASE Beats(e)
  BY <1>3 DEF Beats, Rows, Runs, Warm, Holding
<1>4. CASE End(e)
  BY <1>4 DEF End, Under, Rows, Runs, Warm, Holding, NoCommand
<1>5. CASE Mutes(e)
  <2>1. cmd' \in [Commands -> Runs] BY <1>5 DEF Mutes, NoCommand, Runs
  <2>2. Warm' BY <1>5 DEF Mutes, Warm, NoCommand
  <2>3. Holding' BY <1>5 DEF Mutes, Holding, NoCommand
  <2> QED BY <1>5, <2>1, <2>2, <2>3 DEF Mutes
<1> QED BY <1>1, <1>2, <1>3, <1>4, <1>5 DEF Command

-----------------------------------------------------------------------------
(* The callers' operations that leave the commands alone. *)
LEMMA SetPolicyIInv == ASSUME IInv, NEW p \in Policies, SetPolicy(p) PROVE IInv'
<1> USE DEF IInv, TypeOK, SetPolicy
<1>1. row \in Rows /\ row' = [row EXCEPT !.policy = p] OBVIOUS
<1>2. row' \in Rows BY <1>1 DEF Rows
<1>3. Warm' BY <1>1 DEF Warm, Rows
<1>4. Holding' BY <1>1 DEF Holding, Rows
<1> QED BY <1>2, <1>3, <1>4

LEMMA SetTimeoutIInv == ASSUME IInv, NEW t \in Timeouts, SetTimeout(t) PROVE IInv'
<1> USE DEF IInv, TypeOK, SetTimeout
<1>1. row \in Rows /\ row' = [row EXCEPT !.ttl = t] /\ t \in Int OBVIOUS
<1>2. row' \in Rows BY <1>1 DEF Rows
<1>3. con' \in [Callers -> Connects]
  <2>1. ASSUME NEW c \in Callers
        PROVE [con[c] EXCEPT !.crossed = @ \/ con[c].pc = "waking"] \in Connects
    <3>1. con[c] \in Connects OBVIOUS
    <3> QED BY <3>1 DEF Connects
  <2> QED BY <2>1 DEF Crossed
<1>4. \A c \in Callers : con'[c].pc = con[c].pc
  BY DEF Crossed, Connects
<1>5. Warm' BY <1>1 DEF Warm, Rows
<1>6. Holding' BY <1>1, <1>4 DEF Holding, Rows
<1> QED BY <1>2, <1>3, <1>5, <1>6

LEMMA SurfaceIInv == ASSUME IInv, NEW c \in Callers, Surface(c) PROVE IInv'
<1> USE DEF IInv, TypeOK
<1>1. ASSUME NEW t \in Timeouts, Ask(c, t) PROVE IInv'
  <2>1. con' \in [Callers -> Connects] BY <1>1 DEF Ask, NoConnect, Connects
  <2>2. Holding' BY <1>1 DEF Ask, NoConnect, Connects, Holding
  <2> QED BY <1>1, <2>1, <2>2 DEF Ask, Warm
<1>2. CASE Connect(c)
  <2>1. con' \in [Callers -> Connects]
    <3>1. con[c] \in Connects /\ NoConnect \in Connects /\ row.ttl \in Deadlines
      BY DEF NoConnect, Connects, Rows
    <3>2. [con[c] EXCEPT !.pc = "waking", !.seen = row.ttl, !.stale = row.state = "active"] \in Connects
      BY <3>1 DEF Connects
    <3>3. CASE con' = [con EXCEPT ![c] = NoConnect] BY <3>1, <3>3
    <3>4. CASE con' = [con EXCEPT ![c].pc = "waking", ![c].seen = row.ttl, ![c].stale = row.state = "active"]
      <4>1. con' = [con EXCEPT ![c] = [con[c] EXCEPT !.pc = "waking", !.seen = row.ttl,
                                                     !.stale = row.state = "active"]]
        BY <3>4
      <4> QED BY <3>2, <4>1
    <3> QED BY <1>2, <3>3, <3>4 DEF Connect
  <2>2. Holding' BY <1>2 DEF Connect, NoConnect, Connects, Holding
  <2>3. slot' \in Commands \cup Callers \cup {Free, Scanner} BY <1>2 DEF Connect
  <2> QED BY <1>2, <2>1, <2>2, <2>3 DEF Connect, Warm
<1>3. CASE Connected(c)
  <2>1. row \in Rows /\ con[c] \in Connects /\ slot = c BY <1>3 DEF Connected, Holding
  <2>2. PICK b \in BOOLEAN, t \in Deadlines :
          /\ row' = [Awake EXCEPT !.paused = b, !.ttl = t]
          /\ row.kind = "native" => t = row.ttl
          /\ row.kind # "native" => t # Never
    <3>1. con[c].want \in Int BY <2>1 DEF Connects
    <3>2. Awake.ttl = row.ttl /\ Awake.paused = FALSE BY <2>1 DEF Awake, Rows
    <3>3. row.kind # "native" => row.ttl # Never BY DEF Holding
    <3>4. row.ttl \in Deadlines BY <2>1 DEF Rows
    <3>5. row' = [Awake EXCEPT !.paused = FALSE, !.ttl = row'.ttl]
             /\ row'.ttl \in {row.ttl, con[c].want}
             /\ (row.kind = "native" => row'.ttl = row.ttl)
      BY <1>3, <2>1, <3>2 DEF Connected, Awake, Rows
    <3> QED BY <3>1, <3>3, <3>4, <3>5
  <2>3. row' \in Rows BY <2>1, <2>2, AwakeRow DEF Rows
  <2>5. con' \in [Callers -> Connects] BY <1>3 DEF Connected, NoConnect, Connects
  <2>6. Warm' BY <1>3, <2>1, <2>2 DEF Connected, Warm, Awake, Rows, Runs
  <2>7. Holding' BY <1>3, <2>1, <2>2 DEF Connected, Holding, Awake, Rows, NoConnect, Connects
  <2> QED BY <1>3, <2>3, <2>5, <2>6, <2>7 DEF Connected
<1> QED BY <1>1, <1>2, <1>3 DEF Surface

LEMMA GoneKeeps ==
  ASSUME TypeOK, Gone
  PROVE  /\ row' \in Rows /\ row'.state = "none" /\ row'.kind = "native" /\ row'.ttl = Never
         /\ cmd' \in [Commands -> Runs]
         /\ \A e \in Commands : cmd'[e].pc # "running" /\ (cmd'[e].pc = "waking" <=> cmd[e].pc = "waking")
<1>1. row \in Rows /\ row' = NoRow(row.policy) BY DEF TypeOK, Gone
<1>2. row' \in Rows /\ row'.state = "none" /\ row'.kind = "native" /\ row'.ttl = Never
  BY <1>1 DEF NoRow, Rows
<1>3. ASSUME NEW e \in Commands
      PROVE  cmd'[e] \in Runs /\ cmd'[e].pc # "running" /\ (cmd'[e].pc = "waking" <=> cmd[e].pc = "waking")
  BY DEF TypeOK, Gone, NoCommand, Under, Runs
<1> QED BY <1>2, <1>3 DEF Gone

LEMMA VerbsIInv == ASSUME IInv, Pause \/ Kill \/ Restore \/ Restored PROVE IInv'
<1> USE DEF IInv, TypeOK
<1>0. row \in Rows OBVIOUS
<1>1. CASE Pause
  <2>4. PICK to \in States \ {"none"} : row' = [row EXCEPT !.state = to, !.paused = TRUE]
    BY <1>0, <1>1 DEF Pause, Rows, States
  <2>5. /\ row'.state # "none" /\ row.state # "none" /\ row'.idle = row.idle
        /\ row'.ttl = row.ttl /\ row'.kind = row.kind
    BY <1>0, <1>1, <2>4 DEF Pause, Rows
  <2>1. row' \in Rows BY <1>0, <2>4 DEF Rows
  <2>2. Warm' BY <1>1, <2>5 DEF Pause, Warm
  <2>3. Holding' BY <1>1, <2>5 DEF Pause, Holding
  <2> QED BY <1>1, <2>1, <2>2, <2>3 DEF Pause
<1>2. CASE Kill
  <2>1. slot = Free BY <1>2 DEF Kill
  <2>2. TypeOK' BY <1>2, GoneKeeps DEF Kill
  <2>3. \A e \in Commands : cmd'[e].pc # "running" BY <1>2, GoneKeeps DEF Kill
  <2>5. Warm' BY <2>3 DEF Warm
  <2>4. Holding' BY <1>2, <2>1, GoneKeeps DEF Kill, Holding
  <2> QED BY <2>2, <2>4, <2>5
<1>3. CASE Restore
  <2>1. row' \in Rows BY <1>0, <1>3 DEF Restore, Rows
  <2>2. Warm' BY <1>0, <1>3 DEF Restore, Rows, Warm
  <2>3. Holding' BY <1>0, <1>3 DEF Restore, Rows, Holding
  <2> QED BY <1>3, <2>1, <2>2, <2>3 DEF Restore
<1>4. CASE Restored
  <2>1. row' \in Rows BY <1>0, <1>4, AwakeRow DEF Restored, Rows
  <2>2. row'.idle = 0 \/ row'.idle = row.idle
    BY <1>0, <1>4 DEF Restored, Awake, Rows
  <2>4. row'.state # "none" BY <1>0, <1>4 DEF Restored, Awake, Rows
  <2>5. Warm' BY <1>0, <1>4, <2>2, <2>4 DEF Restored, Rows, Runs, Warm
  <2>3. Holding' BY <1>0, <1>4 DEF Restored, Awake, Rows, Holding
  <2> QED BY <1>4, <2>1, <2>3, <2>5 DEF Restored
<1> QED BY <1>1, <1>2, <1>3, <1>4

LEMMA ScanIInv == ASSUME IInv, Scan PROVE IInv'
<1> USE DEF IInv, TypeOK
<1>0. row \in Rows /\ sweep \in Sweeps OBVIOUS
<1>1. CASE Sweep
  BY <1>0, <1>1 DEF Sweep, Sweeps, Warm, Holding
<1>2. CASE Skip
  BY <1>0, <1>2 DEF Skip, NoSweep, Sweeps, Warm, Holding
<1>3. CASE Judge
  <2>1. Verdict \in {"off", "killing", "pausing", "freezing", "stopping", "archiving"}
    BY DEF Verdict
  <2>4. Verdict # "off" => row.state # "none"
    BY DEF Verdict, DueDeadline, DueMove, Holding
  <2>2. sweep' \in Sweeps BY <1>3, <2>1 DEF Judge, Sweeps
  <2>3. Holding' BY <1>0, <1>3, <2>1, <2>4 DEF Judge, Sweeps, Holding
  <2> QED BY <1>3, <2>2, <2>3 DEF Judge, Warm
<1>4. CASE Cool
  <2>1. slot = Scanner /\ row.state # "none" BY <1>4 DEF Cool, Colder, Holding
  <2>2. Colder[sweep.pc] \in {"frozen", "stopped", "archived"} BY <1>4 DEF Cool, Colder
  <2>3. row' \in Rows BY <1>0, <1>4, <2>2 DEF Cool, Rows
  <2>4. Warm' BY <1>0, <1>4, <2>2 DEF Cool, Rows, Warm
  <2>5. Holding' BY <1>0, <1>4, <2>1, <2>2 DEF Cool, Rows, NoSweep, Sweeps, Holding
  <2>6. sweep' \in Sweeps BY <1>4 DEF Cool, NoSweep, Sweeps
  <2> QED BY <1>4, <2>3, <2>4, <2>5, <2>6 DEF Cool
<1>5. CASE Reap
  <2>1. slot = Scanner BY <1>5 DEF Reap, Holding
  <2>2. sweep' \in Sweeps BY <1>5 DEF Reap, NoSweep, Sweeps
  <2>3. \A e \in Commands : cmd'[e].pc # "running" BY <1>5, GoneKeeps DEF Reap
  <2>5. Warm' BY <2>3 DEF Warm
  <2>4. Holding' BY <1>5, <2>1, GoneKeeps DEF Reap, NoSweep, Holding
  <2> QED BY <1>5, <2>2, <2>4, <2>5, GoneKeeps DEF Reap
<1>6. CASE Fail
  BY <1>6 DEF Fail, NoSweep, Sweeps, Warm, Holding
<1> QED BY <1>1, <1>2, <1>3, <1>4, <1>5, <1>6 DEF Scan

LEMMA NextIInv == ASSUME IInv, [Next]_vars PROVE IInv'
<1>1. CASE UNCHANGED vars
  BY <1>1 DEF vars, IInv, TypeOK, Warm, Holding
<1> QED BY <1>1, TickIInv, BirthIInv, CommandIInv, SetPolicyIInv, SetTimeoutIInv, SurfaceIInv, VerbsIInv, ScanIInv DEF Next

(* The row stays as fresh as the heartbeats of the commands that run, and the
   slot says who is at what. *)
THEOREM AlwaysIInv == Spec => []IInv
  BY InitIInv, NextIInv, PTL DEF Spec

-----------------------------------------------------------------------------
(* Past the threshold is past the freeze threshold of the policy. *)
LEMMA PastFreeze ==
  ASSUME row \in Rows, NEW since \in Nat, DueMove(since) # "none"
  PROVE  row.idle >= row.policy.freeze
<1>1. row.policy \in Policies /\ row.idle \in Nat BY DEF Rows
<1>2. \E threshold \in {row.policy.freeze, row.policy.stop, row.policy.archive} : Past(threshold, since)
  BY DEF DueMove
<1> QED BY <1>1, <1>2, PolicyShape DEF Past

(* What can happen beside the scanner while it has the slot. *)
Beside ==
  \/ Tick
  \/ \E d \in Commands : Beats(d) \/ Mutes(d) \/ End(d)
  \/ \E t \in Timeouts : SetTimeout(t)
  \/ \E c \in Callers, t \in Timeouts : Ask(c, t)
  \/ UNCHANGED vars

LEMMA HeldByScanner ==
  ASSUME IInv, slot = Scanner, slot' = Scanner, [Next]_vars PROVE Beside
<1> USE DEF IInv, TypeOK
<1>1. slot # Free /\ \A d \in Commands \cup Callers : slot # d OBVIOUS
<1>2. sweep.pc \notin {"off", "early", "late"} BY DEF Holding
<1>3. ASSUME NEW d \in Commands, Command(d) PROVE Beats(d) \/ Mutes(d) \/ End(d)
  <2>1. cmd[d].pc # "waking" BY <1>1 DEF Holding
  <2> QED BY <1>1, <1>3, <2>1 DEF Command, Start, Run
<1>4. ASSUME NEW c \in Callers, Surface(c) PROVE \E t \in Timeouts : Ask(c, t)
  <2>1. con[c].pc # "waking" BY <1>1 DEF Holding
  <2> QED BY <1>1, <1>4, <2>1 DEF Surface, Connect, Connected
<1>5. ~Scan
  BY <1>1, <1>2 DEF Scan, Sweep, Skip, Judge, Cool, Reap, Fail
<1> QED BY <1>1, <1>3, <1>4, <1>5 DEF Next, Beside, Birth, SetPolicy, Pause, Kill, Restore, Restored

(* A freeze under way holds the slot, so no policy changes under it and no
   command starts: what Judge saw stands. *)
LEMMA NextNotMidCommand ==
  ASSUME IInv, IInv', NotMidCommand, [Next]_vars PROVE NotMidCommand'
<1> SUFFICES ASSUME sweep'.pc \in {"freezing", "stopping", "archiving"},
                    NEW e \in Commands, cmd'[e].pc = "running"
             PROVE  row'.policy.freeze < cmd'[e].under
  BY DEF NotMidCommand
<1> USE DEF IInv, TypeOK
<1>1. row \in Rows /\ sweep \in Sweeps /\ cmd[e] \in Runs OBVIOUS
<1>2. slot' = Scanner BY DEF Holding
<1>3. CASE Judge
  <2>1. Verdict \in {"freezing", "stopping", "archiving"} /\ DueMove(sweep.since) # "none"
    BY <1>1, <1>3 DEF Judge, Verdict, Sweeps
  <2>2. row.idle >= row.policy.freeze BY <1>1, <2>1, PastFreeze DEF Sweeps
  <2>3. cmd[e].pc = "running" /\ cmd' = cmd /\ row' = row BY <1>3 DEF Judge
  <2>4. row.idle <= cmd[e].beat /\ cmd[e].beat = Beat(cmd[e].under)
    BY <1>1, <2>3 DEF Warm, Rows, Runs
  <2>5. cmd[e].under >= 2 => Beat(cmd[e].under) < cmd[e].under
    BY <1>1, BeatEarly DEF Runs
  <2>6. cmd[e].under \in Nat \ {0, 1} BY <1>1, <2>3 DEF Warm, Runs
  <2>7. row.policy.freeze \in Nat BY <1>1, PolicyShape DEF Rows
  <2> QED BY <1>1, <2>2, <2>3, <2>4, <2>5, <2>6, <2>7 DEF Rows, Runs
<1>4. CASE slot # Scanner /\ ~Judge
  <2>1. sweep.pc \in {"off", "early", "late"} BY <1>4 DEF Holding
  <2> QED BY <1>1, <1>2, <1>4, <2>1
          DEF Next, vars, Tick, Birth, Command, Start, Run, Beats, Mutes, End, SetPolicy, SetTimeout, Surface, Ask,
              Connect, Connected, Pause, Kill, Restore, Restored, Scan, Sweep, Skip, Cool, Reap, Fail, Colder, NoSweep
<1>5. CASE slot = Scanner
  <2>2. sweep.pc \notin {"off", "early", "late"} BY <1>5 DEF Holding
  <2>3. Beside BY <1>2, <1>5, HeldByScanner
  <2>4. sweep'.pc = sweep.pc /\ row'.policy = row.policy
    BY <1>1, <2>2, <2>3 DEF Beside, Tick, Beats, Mutes, End, SetTimeout, Ask, vars, Rows, Sweeps
  <2>5. cmd[e].pc = "running" /\ cmd'[e].under = cmd[e].under
    <3>1. CASE Tick BY <1>1, <3>1 DEF Tick, Runs
    <3>2. CASE \E d \in Commands : Beats(d) \/ Mutes(d) \/ End(d) BY <1>1, <3>2 DEF Beats, Mutes, End, NoCommand, Runs
    <3>3. CASE UNCHANGED cmd BY <3>3
    <3> QED BY <2>3, <3>1, <3>2, <3>3 DEF Beside, SetTimeout, Ask, vars
  <2> QED BY <2>4, <2>5 DEF NotMidCommand
<1> QED BY <1>3, <1>4, <1>5

(* No command is frozen, stopped or archived by its idle clock. *)
THEOREM AlwaysNotMidCommand == Spec => []NotMidCommand
<1>1. Init => NotMidCommand BY DEF Init, NotMidCommand, NoSweep
<1> QED BY <1>1, AlwaysIInv, NextNotMidCommand, PTL DEF Spec

-----------------------------------------------------------------------------
(* A kill under way: the row stays dead, since setTimeout refuses it and
   connect waits for the slot. *)
LEMMA NextCondemned ==
  ASSUME IInv, IInv', Condemned, [Next]_vars PROVE Condemned'
<1> SUFFICES ASSUME sweep'.pc = "killing" PROVE View' = "dead" BY DEF Condemned
<1> USE DEF IInv, TypeOK
<1>1. row \in Rows /\ sweep \in Sweeps OBVIOUS
<1>2. slot' = Scanner BY DEF Holding
<1>3. CASE Judge
  <2>1. Verdict = "killing" BY <1>3 DEF Judge
  <2>2. DueDeadline(sweep.since) = "kill" BY <2>1 DEF Verdict
  <2>3. row.ttl # Never /\ ~(row.ttl + sweep.since > 0) /\ row.kind # "pause"
    BY <2>2 DEF DueDeadline
  <2>4. row.ttl \in Int /\ sweep.since \in Nat BY <1>1, <2>3 DEF Rows, Sweeps
  <2>5. row.ttl <= 0 BY <2>3, <2>4
  <2> QED BY <1>3, <2>3, <2>5 DEF Judge, View, Expired
<1>4. CASE slot # Scanner /\ ~Judge
  <2>1. sweep.pc \in {"off", "early", "late"} BY <1>4 DEF Holding
  <2> QED BY <1>1, <1>2, <1>4, <2>1
          DEF Next, vars, Tick, Birth, Command, Start, Run, Beats, Mutes, End, SetPolicy, SetTimeout, Surface, Ask,
              Connect, Connected, Pause, Kill, Restore, Restored, Scan, Sweep, Skip, Cool, Reap, Fail, Colder, NoSweep
<1>5. CASE slot = Scanner
  <2>1. sweep.pc \notin {"off", "early", "late"} BY <1>5 DEF Holding
  <2>2. Beside BY <1>2, <1>5, HeldByScanner
  <2>3. sweep.pc = "killing"
    BY <1>1, <2>1, <2>2 DEF Beside, Tick, Beats, Mutes, End, SetTimeout, Ask, vars, Sweeps
  <2>4. View = "dead" BY <2>3 DEF Condemned
  <2>5. row.ttl \in Int /\ row.ttl <= 0 /\ row.kind # "pause"
    BY <1>1, <2>4 DEF View, Expired, Rows
  <2>6. row'.ttl \in Int /\ row'.ttl <= 0 /\ row'.kind = row.kind
    <3>1. CASE Tick
      <4>1. row'.ttl = Aged(row.ttl) /\ row'.kind = row.kind BY <1>1, <3>1 DEF Tick, Rows
      <4> QED BY <2>5, <4>1 DEF Aged
    <3>2. CASE \E d \in Commands : Beats(d) \/ Mutes(d) \/ End(d)
      BY <1>1, <2>5, <3>2 DEF Beats, Mutes, End, Rows
    <3>3. CASE UNCHANGED row BY <2>5, <3>3
    <3> QED BY <2>2, <2>4, <3>1, <3>2, <3>3 DEF Beside, SetTimeout, Ask, vars
  <2> QED BY <2>5, <2>6 DEF View, Expired
<1> QED BY <1>3, <1>4, <1>5

(* What the scanner kills has been dead to callers since before it took the
   slot, and no timeout is taken meanwhile. *)
THEOREM AlwaysCondemned == Spec => []Condemned
<1>1. Init => Condemned BY DEF Init, Condemned, NoSweep
<1> QED BY <1>1, AlwaysIInv, NextCondemned, PTL DEF Spec

-----------------------------------------------------------------------------
(* What a connect goes by is the deadline of the row, unless a timeout has
   been set since. *)
Read ==
  \A c \in Callers :
    con[c].pc = "waking" /\ con[c].stale /\ ~con[c].crossed => con[c].seen = row.ttl

LEMMA NextRead == ASSUME IInv, Read, [Next]_vars PROVE Read'
<1> SUFFICES ASSUME NEW c \in Callers, con'[c].pc = "waking", con'[c].stale, ~con'[c].crossed
             PROVE  con'[c].seen = row'.ttl
  BY DEF Read
<1> USE DEF IInv, TypeOK
<1>1. row \in Rows /\ con[c] \in Connects OBVIOUS
<1>2. CASE Tick
  <2>1. con[c].pc = "waking" /\ con[c].stale /\ ~con[c].crossed /\ con'[c].seen = Aged(con[c].seen)
    BY <1>1, <1>2 DEF Tick, Connects
  <2>2. row'.ttl = Aged(row.ttl) BY <1>1, <1>2 DEF Tick, Rows
  <2> QED BY <2>1, <2>2 DEF Read
<1>3. CASE \E t \in Timeouts : SetTimeout(t)
  BY <1>1, <1>3 DEF SetTimeout, Crossed, Connects
<1>4. CASE \E d \in Callers : Surface(d)
  <2>1. PICK d \in Callers : Surface(d) BY <1>4
  <2>2. CASE d = c
    <3>1. ASSUME NEW t \in Timeouts, Ask(c, t) PROVE FALSE
      BY <1>1, <3>1 DEF Ask, NoConnect, Connects
    <3>2. ~Connected(c)
      BY <1>1 DEF Connected, NoConnect
    <3>3. Connect(c) BY <2>1, <2>2, <3>1, <3>2 DEF Surface
    <3>4. con' # [con EXCEPT ![c] = NoConnect] BY DEF NoConnect
    <3>5. con'[c].seen = row.ttl /\ row' = row BY <1>1, <3>3, <3>4 DEF Connect, Connects
    <3> QED BY <3>5
  <2>3. CASE d # c
    <3>1. con'[c] = con[c] BY <2>1, <2>3 DEF Surface, Ask, Connect, Connected
    <3>2. slot = c BY <3>1 DEF Holding
    <3>3. ~Connect(d) /\ ~Connected(d) BY <2>3, <3>2 DEF Connect, Connected, Holding
    <3> QED BY <2>1, <3>1, <3>3 DEF Surface, Ask, Read
  <2> QED BY <2>2, <2>3
<1>5. CASE UNCHANGED con /\ slot = c /\ ~Tick
  <2>1. slot # Free /\ slot # Scanner /\ \A e \in Commands : slot # e BY <1>5
  <2>2. row'.ttl = row.ttl
    <3>1. ASSUME NEW e \in Commands, Command(e) PROVE row'.ttl = row.ttl
      BY <1>1, <3>1 DEF Command, Start, Run, Awake, Beats, Mutes, End, Rows
    <3>2. ASSUME Scan PROVE row'.ttl = row.ttl
      BY <1>1, <2>1, <3>2 DEF Scan, Sweep, Skip, Judge, Cool, Reap, Fail, Rows, Holding, Colder
    <3>3. ASSUME NEW t \in Timeouts, SetTimeout(t) PROVE FALSE
      <4>1. con[c].pc = "waking" /\ ~con[c].crossed /\ con[c] = con'[c] BY <1>5
      <4>2. con'[c] = [con[c] EXCEPT !.crossed = @ \/ con[c].pc = "waking"]
        BY <3>3 DEF SetTimeout, Crossed
      <4>3. con'[c].crossed = (con[c].crossed \/ con[c].pc = "waking") BY <1>1, <4>2 DEF Connects
      <4> QED BY <4>1, <4>3
    <3>4. ASSUME NEW d \in Callers, Surface(d) PROVE row'.ttl = row.ttl
      <4>1. con[c].pc = "waking" /\ con'[c].pc = "waking" BY <1>5
      <4>2. ~Connected(d) BY <1>1, <1>5, <4>1 DEF Connected, Holding, NoConnect
      <4> QED BY <2>1, <3>4, <4>2 DEF Surface, Ask, Connect
    <3> QED BY <1>5, <2>1, <3>1, <3>2, <3>3, <3>4
            DEF Next, vars, Birth, SetPolicy, Pause, Kill, Restore, Restored
  <2> QED BY <1>5, <2>2 DEF Read
<1> QED BY <1>1, <1>2, <1>3, <1>4, <1>5
        DEF Next, vars, Birth, Command, Start, Run, Beats, Mutes, End, SetPolicy, Pause, Kill, Restore, Restored,
            Scan, Sweep, Skip, Judge, Cool, Reap, Fail, Holding

LEMMA ReadExtends ==
  ASSUME IInv, Read, [Next]_vars, NEW c \in Callers, Shortens(c)
  PROVE  con[c].crossed /\ con[c].stale
<1> USE DEF IInv, TypeOK
<1>1. row \in Rows /\ con[c] \in Connects /\ slot = c BY DEF Shortens, Holding
<1>2. slot # Free /\ slot # Scanner /\ (\A e \in Commands : slot # e) /\ \A d \in Callers : slot = d => d = c
  BY <1>1
<1>3. con'[c] # con[c] BY DEF Shortens
<1>4. Connected(c)
  <2>1. ASSUME NEW d \in Callers, Surface(d) PROVE Connected(c)
    <3>1. d = c BY <1>3, <2>1 DEF Surface, Ask, Connect, Connected
    <3> QED BY <1>2, <2>1, <3>1 DEF Surface, Ask, Connect, Shortens
  <2>2. ASSUME NEW t \in Timeouts, SetTimeout(t) PROVE FALSE
    BY <1>1, <2>2 DEF SetTimeout, Crossed, Shortens, Connects
  <2>3. ~Tick BY <1>1 DEF Tick, Shortens, Connects
  <2> QED BY <1>3, <2>1, <2>2, <2>3
          DEF Next, vars, Birth, Command, Start, Run, Beats, Mutes, End, SetPolicy, Pause, Kill, Restore, Restored,
              Scan, Sweep, Skip, Judge, Cool, Reap, Fail
<1>5. con[c].want \in Nat /\ row.ttl \in Int BY <1>1 DEF Shortens, Connects, Rows
<1>6. row'.ttl < row.ttl /\ row'.ttl \in {row.ttl, con[c].want}
  BY <1>1, <1>4 DEF Shortens, Connected, Awake, Rows
<1>7. row'.ttl = con[c].want /\ con[c].want < row.ttl BY <1>5, <1>6
<1>8. con[c].want > (IF con[c].stale THEN con[c].seen ELSE row.ttl)
  BY <1>1, <1>4, <1>5, <1>7 DEF Connected, Awake, Rows
<1>9. con[c].stale BY <1>5, <1>7, <1>8
<1>10. con[c].crossed
  <2> SUFFICES ASSUME ~con[c].crossed PROVE FALSE OBVIOUS
  <2>1. con[c].seen = row.ttl BY <1>9 DEF Read, Shortens
  <2> QED BY <1>5, <1>7, <1>8, <1>9, <2>1
<1> QED BY <1>9, <1>10

(* A connect shortens a deadline only where a timeout set while it woke an
   awake sandbox crossed it. *)
THEOREM AlwaysExtends == Spec => ShortenedByCrossing
<1>1. Init => Read BY DEF Init, Read, NoConnect
<1>2. ASSUME IInv, Read, [Next]_vars
      PROVE [\A c \in Callers : Shortens(c) => con[c].crossed /\ con[c].stale]_vars
  BY <1>2, ReadExtends
<1> QED BY <1>1, <1>2, AlwaysIInv, NextRead, PTL DEF Spec, ShortenedByCrossing
=============================================================================
