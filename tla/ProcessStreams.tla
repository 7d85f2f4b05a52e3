--------------------------- MODULE ProcessStreams ---------------------------
(***************************************************************************)
(* The processes of one sandbox and the streams that watch them            *)
(* (server/src: e2b/process-table.ts, e2b/envd/process.ts and shared.ts,   *)
(* executor/docker-streams.ts, the exec half of executor/docker.ts).       *)
(*                                                                         *)
(* A process writes into dockerd, a pump takes its output out of there     *)
(* chunk by chunk, and a chunk is taken when every stream's client has it: *)
(* the slowest sets the pace.  Streams come and go, the process stays.     *)
(* dockerd handles the exits of one container one at a time, and each only *)
(* when nothing of the output is left with it - so once a process ended,   *)
(* the pump no longer waits for anybody.                                   *)
(*                                                                         *)
(* Output is counted, not modelled; stdin and terminal sizes are left out, *)
(* and so is what fits into the sockets between.                           *)
(***************************************************************************)
EXTENDS Naturals

CONSTANTS
  Procs, Streams,
  Starter,      \* Starter[p]: the Start request of p; other streams connect
  Ttys,         \* the processes that are terminals
  Chunks,       \* Chunks[p]: how much p writes, at most
  Cap,          \* how much dockerd holds before the writer blocks
  Tail,         \* how far the pump reads ahead of an ended process's readers
  EarlyOutput,  \* may a terminal write before its size is set?
  Misreads,     \* may dockerd be silent about a process that runs?
  NoOne

ASSUME StreamAssumption ==
  /\ Starter \in [Procs -> Streams]
  /\ \A p, q \in Procs : Starter[p] = Starter[q] => p = q
  /\ Ttys \subseteq Procs
  /\ Chunks \in [Procs -> Nat]
  /\ Cap \in Nat \ {0} /\ Tail \in Nat /\ Cap <= Tail
  /\ EarlyOutput \in BOOLEAN /\ Misreads \in BOOLEAN
  /\ NoOne \notin Procs

VARIABLES
  proc,     \* proc[p]: the process, as the host and dockerd know it
  dockerd,  \* the process whose exit dockerd is handling
  pump,     \* pump[p]: its output on the way to the sinks
  waits,    \* waits[p]: the streams whose clients have yet to take the chunk
  rec,      \* rec[p]: its entry in the table
  subs,     \* subs[p]: its subscribers
  strm,     \* strm[s]: a stream's handler
  wire,     \* wire[s]: what was written to its client
  conn,     \* conn[s]: the client
  down      \* the daemon is shutting down

vars == <<proc, dockerd, pump, waits, rec, subs, strm, wire, conn, down>>

Processes == [at : {"none", "running", "exited", "handled"}, left : Nat, held : 0..Cap]
(* tail: believed ended; asked: dockerd has named the pid. *)
Pumps == [at : {"off", "on", "done", "cut"}, mem : Nat, sinking : BOOLEAN, sent : Nat,
          tail : BOOLEAN, asked : BOOLEAN]
Handlers == [pc : {"waking", "sizing", "broken", "pumping", "closing", "done"},
             to : Procs \cup {NoOne}, deaf : BOOLEAN]
(* seen: how far into the output; a failure is an error, a shutdown, a deadline. *)
Wires == [seen : Nat, end : {"none", "exit", "failure"}]
Conns == [open : BOOLEAN, full : BOOLEAN]

TypeOK ==
  /\ proc \in [Procs -> Processes]
  /\ dockerd \in Procs \cup {NoOne}
  /\ pump \in [Procs -> Pumps]
  /\ waits \in [Procs -> SUBSET Streams]
  /\ rec \in [Procs -> {"none", "listed", "ended"}]
  /\ subs \in [Procs -> SUBSET Streams]
  /\ strm \in [Streams -> Handlers]
  /\ wire \in [Streams -> Wires]
  /\ conn \in [Streams -> Conns]
  /\ down \in BOOLEAN

(* A pump that does not run has nothing in hand. *)
Over(how) == [at |-> how, mem |-> 0, sinking |-> FALSE, sent |-> 0, tail |-> FALSE, asked |-> FALSE]

Init ==
  /\ proc = [p \in Procs |-> [at |-> "none", left |-> Chunks[p], held |-> 0]]
  /\ dockerd = NoOne
  /\ pump = [p \in Procs |-> Over("off")]
  /\ waits = [p \in Procs |-> {}]
  /\ rec = [p \in Procs |-> "none"]
  /\ subs = [p \in Procs |-> {}]
  /\ strm = [s \in Streams |-> [pc |-> "waking", to |-> NoOne, deaf |-> FALSE]]
  /\ wire = [s \in Streams |-> [seen |-> 0, end |-> "none"]]
  /\ conn = [s \in Streams |-> [open |-> TRUE, full |-> FALSE]]
  /\ down = FALSE

-----------------------------------------------------------------------------
Goes(s, where) == strm' = [strm EXCEPT ![s].pc = where]

Gone == [open |-> FALSE, full |-> FALSE]
(* Nobody waits for s any longer. *)
Released(s) == [p \in Procs |-> waits[p] \ {s}]

(* The answer is over, and what it told is told. *)
Leaves(s) ==
  /\ Goes(s, "done")
  /\ wire' = [wire EXCEPT ![s] = [seen |-> 0, end |-> "none"]]
  /\ conn' = [conn EXCEPT ![s] = Gone]
  /\ waits' = Released(s)

(* The pump of a stream: heartbeat, keepalives, deadline - and an ear for the
   client's leaving, which hears nothing of one that has left. *)
Pumping(s, p) == strm' = [strm EXCEPT ![s] = [pc |-> "pumping", to |-> p, deaf |-> ~conn[s].open]]
Beating(s) == strm[s].pc \in {"pumping", "closing"}

(* A stream that lets go of its process; the process goes on. *)
Detached(s) == [p \in Procs |-> subs[p] \ {s}]

(* writeToClient, to several: taken at once, or when the client has room. *)
Full(some) == [s \in Streams |-> IF s \in some THEN [conn[s] EXCEPT !.full = TRUE] ELSE conn[s]]
Slow(readers) == {slow \in SUBSET {s \in readers : conn[s].open} : \A s \in readers : conn[s].open /\ conn[s].full => s \in slow}

-----------------------------------------------------------------------------
(* Start and Connect. *)

(* wakeForStream fails, or the pid is not listed: a frame says so. *)
Refused(s) ==
  /\ strm[s].pc = "waking"
  /\ Leaves(s)
  /\ UNCHANGED <<proc, dockerd, pump, rec, subs, down>>

(* The start frame, then the subscription: what comes from now on. *)
Connect(s, p) ==
  /\ strm[s].pc = "waking"
  /\ rec[p] = "listed"
  /\ subs' = [subs EXCEPT ![p] = @ \cup {s}]
  /\ wire' = [wire EXCEPT ![s].seen = pump[p].sent]
  /\ Pumping(s, p)
  /\ UNCHANGED <<proc, dockerd, pump, waits, rec, conn, down>>

(* The exec begins, its pump with it; a command is registered at once ... *)
Spawn(p) ==
  LET s == Starter[p] IN
  /\ strm[s].pc = "waking" /\ dockerd = NoOne
  /\ proc' = [proc EXCEPT ![p].at = "running"]
  /\ pump' = [pump EXCEPT ![p].at = "on"]
  /\ subs' = [subs EXCEPT ![p] = {s}]
  /\ IF p \in Ttys
     THEN strm' = [strm EXCEPT ![s].pc = "sizing", ![s].to = p] /\ UNCHANGED rec
     ELSE Pumping(s, p) /\ rec' = [rec EXCEPT ![p] = "listed"]
  /\ UNCHANGED <<dockerd, waits, wire, conn, down>>

(* ... a terminal when it has its size - by when it must not have spoken: the
   answer's head is not written yet, and will not be. *)
Sized(p) ==
  LET s == Starter[p] IN
  /\ strm[s].pc = "sizing" /\ strm[s].to = p
  /\ rec' = [rec EXCEPT ![p] = "listed"]
  /\ IF wire[s].seen = 0 THEN Pumping(s, p) ELSE Goes(s, "broken")
  /\ UNCHANGED <<proc, dockerd, pump, waits, subs, wire, conn, down>>

(* No exec, or one that begins when it was given up on: its stream is let go. *)
StartFails(p) ==
  LET s == Starter[p] IN
  /\ strm[s].pc = "waking"
  /\ \/ UNCHANGED <<proc, pump>>
     \/ /\ proc' = [proc EXCEPT ![p].at = "running"]
        /\ pump' = [pump EXCEPT ![p].at = "cut"]
  /\ Leaves(s)
  /\ UNCHANGED <<dockerd, rec, subs, down>>

(* A size that cannot be set is a start that failed; the terminal lives. *)
SizeFails(p) ==
  LET s == Starter[p] IN
  /\ strm[s].pc = "sizing" /\ strm[s].to = p
  /\ Leaves(s)
  /\ UNCHANGED <<proc, dockerd, pump, rec, subs, down>>

-----------------------------------------------------------------------------
(* The process, and dockerd's handling of its end. *)

Write(p) ==
  /\ proc[p].at = "running" /\ pump[p].at = "on"
  /\ proc[p].left > 0 /\ proc[p].held < Cap
  /\ p \in Ttys /\ strm[Starter[p]].pc = "sizing" => EarlyOutput
  /\ proc' = [proc EXCEPT ![p].left = @ - 1, ![p].held = @ + 1]
  /\ UNCHANGED <<dockerd, pump, waits, rec, subs, strm, wire, conn, down>>

(* By itself, by a signal, with its container. *)
Exit(p) ==
  /\ proc[p].at = "running"
  /\ proc' = [proc EXCEPT ![p].at = "exited"]
  /\ UNCHANGED <<dockerd, pump, waits, rec, subs, strm, wire, conn, down>>

HandleExit(p) ==
  /\ proc[p].at = "exited" /\ dockerd = NoOne
  /\ dockerd' = p
  /\ UNCHANGED <<proc, pump, waits, rec, subs, strm, wire, conn, down>>

Handled(p) ==
  /\ dockerd = p /\ proc[p].held = 0
  /\ proc' = [proc EXCEPT ![p].at = "handled"]
  /\ dockerd' = NoOne
  /\ UNCHANGED <<pump, waits, rec, subs, strm, wire, conn, down>>

-----------------------------------------------------------------------------
(* OutputDelivery. *)

Allowance(p) == IF pump[p].tail THEN Tail ELSE 0

Read(p) ==
  /\ pump[p].at = "on" /\ proc[p].held > 0
  /\ pump[p].mem <= Allowance(p)
  /\ proc' = [proc EXCEPT ![p].held = @ - 1]
  /\ pump' = [pump EXCEPT ![p].mem = @ + 1]
  /\ UNCHANGED <<dockerd, waits, rec, subs, strm, wire, conn, down>>

Hears(p, s) == s \in subs[p] /\ conn[s].open

(* A chunk goes to every subscriber there is; the next waits for all. *)
Sink(p) ==
  /\ pump[p].at = "on" /\ pump[p].mem > 0 /\ ~pump[p].sinking
  /\ pump' = [pump EXCEPT ![p].sinking = TRUE, ![p].sent = @ + 1]
  /\ wire' = [s \in Streams |-> IF Hears(p, s) THEN [wire[s] EXCEPT !.seen = @ + 1] ELSE wire[s]]
  /\ \E slow \in Slow(subs[p]) :
       waits' = [waits EXCEPT ![p] = slow] /\ conn' = Full(slow)
  /\ UNCHANGED <<proc, dockerd, rec, subs, strm, down>>

Sunk(p) ==
  /\ pump[p].sinking /\ waits[p] = {}
  /\ pump' = [pump EXCEPT ![p].sinking = FALSE, ![p].mem = @ - 1]
  /\ UNCHANGED <<proc, dockerd, waits, rec, subs, strm, wire, conn, down>>

Undelivered(p) == pump[p].at = "on" /\ pump[p].mem > 0

(* Mutant: the reader sets the pace to the end. *)
ProbeNever(p) ==
  /\ Undelivered(p)
  /\ pump' = [pump EXCEPT ![p].asked = TRUE, ![p].tail = FALSE]
  /\ UNCHANGED <<proc, dockerd, waits, rec, subs, strm, wire, conn, down>>

(* Every five seconds while output waits: has the process ended?  dockerd
   names its pid, the host's process table answers. *)
Probe(p) ==
  /\ Undelivered(p)
  /\ pump' = [pump EXCEPT ![p].asked = TRUE, ![p].tail = proc[p].at # "running"]
  /\ UNCHANGED <<proc, dockerd, waits, rec, subs, strm, wire, conn, down>>

(* Until it has: a silence is read as the end, an error as none. *)
ProbeUnanswered(p) ==
  /\ Undelivered(p) /\ ~pump[p].asked
  /\ \E silent \in BOOLEAN :
       /\ silent /\ proc[p].at = "running" => Misreads
       /\ pump' = [pump EXCEPT ![p].tail = silent]
  /\ UNCHANGED <<proc, dockerd, waits, rec, subs, strm, wire, conn, down>>

-----------------------------------------------------------------------------
(* Ends. *)

(* onEnd of every subscriber, once: the table forgets the process first. *)
Told(x, end) == IF x.end = "none" THEN [x EXCEPT !.end = end] ELSE x
Finalize(p, end) ==
  IF rec[p] # "listed" THEN UNCHANGED <<rec, subs, wire, conn>>
  ELSE /\ rec' = [rec EXCEPT ![p] = "ended"]
       /\ subs' = [subs EXCEPT ![p] = {}]
       /\ wire' = [s \in Streams |-> IF s \in subs[p] THEN Told(wire[s], end) ELSE wire[s]]
       /\ \E slow \in Slow(subs[p]) : conn' = Full(slow)

(* Nobody awaits a terminal's exit before it has its size. *)
Awaited(p) == pump[p].at = "on" /\ ~(strm[Starter[p]].pc = "sizing" /\ strm[Starter[p]].to = p)

(* Mutant: the raw stream's end taken for the delivery's. *)
SettleRead(p) ==
  /\ Awaited(p) /\ proc[p].at = "handled"
  /\ pump' = [pump EXCEPT ![p] = Over("done")]
  /\ \E end \in {"exit", "failure"} : Finalize(p, end)
  /\ UNCHANGED <<proc, dockerd, waits, strm, down>>

(* awaitExitCode: the stream has ended, every chunk is taken, and dockerd
   tells the exit code, or does not. *)
Settle(p) ==
  /\ Awaited(p) /\ proc[p].at = "handled" /\ pump[p].mem = 0
  /\ pump' = [pump EXCEPT ![p] = Over("done")]
  /\ \E end \in {"exit", "failure"} : Finalize(p, end)
  /\ UNCHANGED <<proc, dockerd, waits, strm, down>>

(* waitForEnd: no end by the command's deadline and a grace.  The stream is
   destroyed, and with it what dockerd was blocked on. *)
Overdue(p) ==
  /\ p \notin Ttys /\ pump[p].at = "on"
  /\ pump' = [pump EXCEPT ![p] = Over("cut")]
  /\ waits' = [waits EXCEPT ![p] = {}]
  /\ proc' = [proc EXCEPT ![p].held = 0]
  /\ Finalize(p, "failure")
  /\ UNCHANGED <<dockerd, strm, down>>

(* The stream's own: the end is on the wire ... *)
StreamEnds(s) ==
  /\ strm[s].pc = "pumping" /\ wire[s].end # "none" /\ ~conn[s].full
  /\ Leaves(s)
  /\ subs' = Detached(s)
  /\ UNCHANGED <<proc, dockerd, pump, rec, down>>

(* ... its client has left ... *)
Noticed(s) ==
  /\ strm[s].pc = "pumping" /\ ~conn[s].open /\ ~strm[s].deaf
  /\ Leaves(s)
  /\ subs' = Detached(s)
  /\ UNCHANGED <<proc, dockerd, pump, rec, down>>

(* ... or its deadline has come: the error goes out, then the stream. *)
Deadline(s) ==
  /\ strm[s].pc = "pumping"
  /\ Goes(s, "closing")
  /\ wire' = [wire EXCEPT ![s] = Told(@, "failure")]
  /\ \E slow \in Slow({s}) : conn' = Full(slow)
  /\ UNCHANGED <<proc, dockerd, pump, waits, rec, subs, down>>

Closed(s) ==
  /\ strm[s].pc = "closing" /\ ~conn[s].full
  /\ Leaves(s)
  /\ subs' = Detached(s)
  /\ UNCHANGED <<proc, dockerd, pump, rec, down>>

(* Every listed process is ended in its readers' eyes; it lives. *)
Shutdown ==
  /\ ~down /\ down' = TRUE
  /\ LET ended == {p \in Procs : rec[p] = "listed"}
         told == UNION {subs[p] : p \in ended} IN
     /\ rec' = [p \in Procs |-> IF p \in ended THEN "ended" ELSE rec[p]]
     /\ subs' = [p \in Procs |-> IF p \in ended THEN {} ELSE subs[p]]
     /\ wire' = [s \in Streams |-> IF s \in told THEN Told(wire[s], "failure") ELSE wire[s]]
     /\ \E slow \in Slow(told) : conn' = Full(slow)
  /\ UNCHANGED <<proc, dockerd, pump, waits, strm>>

-----------------------------------------------------------------------------
(* Clients. *)

HangUp(s) ==
  /\ conn[s].open
  /\ conn' = [conn EXCEPT ![s] = Gone]
  /\ waits' = Released(s)
  /\ UNCHANGED <<proc, dockerd, pump, rec, subs, strm, wire, down>>

Drain(s) ==
  /\ conn[s].full
  /\ conn' = [conn EXCEPT ![s].full = FALSE]
  /\ waits' = Released(s)
  /\ UNCHANGED <<proc, dockerd, pump, rec, subs, strm, wire, down>>

(* Mutant: the write is given up, the connection kept. *)
StallUndestroyed(s) ==
  /\ conn[s].full
  /\ waits' = Released(s)
  /\ UNCHANGED <<proc, dockerd, pump, rec, subs, strm, wire, conn, down>>

(* Five minutes without a byte taken: the client is made gone. *)
Stall(s) ==
  /\ conn[s].full
  /\ conn' = [conn EXCEPT ![s] = Gone]
  /\ waits' = Released(s)
  /\ UNCHANGED <<proc, dockerd, pump, rec, subs, strm, wire, down>>

-----------------------------------------------------------------------------
Output(p) == Read(p) \/ Sink(p) \/ Sunk(p) \/ Probe(p) \/ ProbeUnanswered(p) \/ Settle(p) \/ Overdue(p)
Process(p) ==
  \/ Spawn(p) \/ Sized(p) \/ StartFails(p) \/ SizeFails(p)
  \/ Write(p) \/ Exit(p) \/ HandleExit(p) \/ Handled(p)
  \/ Output(p)
Stream(s) ==
  \/ Refused(s) \/ (\E p \in Procs : Connect(s, p))
  \/ StreamEnds(s) \/ Noticed(s) \/ Deadline(s) \/ Closed(s)
Client(s) == HangUp(s) \/ Drain(s) \/ Stall(s)

Next ==
  \/ \E p \in Procs : Process(p)
  \/ \E s \in Streams : Stream(s) \/ Client(s)
  \/ Shutdown

Spec == Init /\ [][Next]_vars

(* What the daemon and dockerd do by themselves; what one fairness holds
   together is bounded but for the first that is never done. *)
Delivers(p) == Read(p) \/ Sink(p) \/ Sunk(p) \/ Settle(p)
Exits == \E p \in Procs : HandleExit(p) \/ Handled(p)
Machinery ==
  /\ WF_vars(Exits)
  /\ \A p \in Procs : WF_vars(Delivers(p)) /\ WF_vars(Probe(p)) /\ WF_vars(Sized(p) \/ SizeFails(p))
  /\ \A s \in Streams : WF_vars(StreamEnds(s) \/ Noticed(s) \/ Closed(s))

(* The stall clock. *)
Clocks == \A s \in Streams : WF_vars(Stall(s))

FairSpec == Spec /\ Machinery

-----------------------------------------------------------------------------
Written(p) == Chunks[p] - proc[p].left

(* Nothing is lost or made up on the way, and a subscriber is where the pump is. *)
Conserved ==
  \A p \in Procs :
    /\ pump[p].sinking => pump[p].at = "on" /\ pump[p].mem > 0
    /\ pump[p].at = "on" =>
         Written(p) = proc[p].held + (IF pump[p].sinking THEN pump[p].mem - 1 ELSE pump[p].mem) + pump[p].sent
    /\ pump[p].at = "on" => \A s \in subs[p] : conn[s].open => wire[s].seen = pump[p].sent

(* The daemon holds one chunk while the process runs, unless a silence was
   read as its end (docker-streams.ts 116-121). *)
Paced ==
  \A p \in Procs : ~Misreads /\ (pump[p].tail \/ pump[p].mem > 1) => proc[p].at # "running"

(* Who is told of an exit has been given all output since it subscribed
   (process-table.ts 57, docker.ts 1359-1366). *)
Complete ==
  \A s \in Streams : wire[s].end = "exit" /\ conn[s].open =>
    \E p \in Procs : strm[s].to = p /\ pump[p].at # "on" /\ wire[s].seen = Written(p)

(* The answer's head goes out before the first output does. *)
HeadFirst == \A s \in Streams : strm[s].pc # "broken"

(* A heartbeat goes with a subscription to a listed process or with its end,
   and a listed process with its pump; nobody is written to unattended. *)
Attached ==
  /\ \A s \in Streams : strm[s].pc = "pumping" /\ wire[s].end = "none" => s \in subs[strm[s].to]
  /\ \A p \in Procs : rec[p] = "listed" =>
       pump[p].at = "on" /\ \A s \in subs[p] : Beating(s) \/ strm[s].pc = "broken"
  /\ EarlyOutput \/ HeadFirst

(* What has not begun has left no trace; a terminal without its size is its
   starter's alone, and who subscribes subscribes to one process. *)
Begun ==
  /\ \A p \in Procs :
       /\ strm[Starter[p]].pc = "waking" => proc[p].at = "none"
       /\ proc[p].at = "none" =>
            /\ proc[p].left = Chunks[p] /\ proc[p].held = 0 /\ pump[p] = Over("off")
            /\ rec[p] = "none" /\ subs[p] = {} /\ \A s \in Streams : strm[s].to # p
       /\ strm[Starter[p]].pc = "sizing" /\ strm[Starter[p]].to = p =>
            /\ p \in Ttys /\ pump[p].at = "on" /\ rec[p] = "none" /\ subs[p] = {Starter[p]}
            /\ EarlyOutput \/ (proc[p].left = Chunks[p] /\ wire[Starter[p]].seen = 0)
       /\ \A s \in subs[p] : strm[s].to = p /\ strm[s].pc # "waking"
       /\ dockerd = p => proc[p].at = "exited"
       /\ proc[p].at = "handled" => proc[p].held = 0
  /\ \A s \in Streams :
       /\ strm[s].pc = "waking" => wire[s].seen = 0 /\ wire[s].end = "none" /\ strm[s].to = NoOne
       /\ strm[s].pc \in {"sizing", "pumping", "closing", "broken"} => strm[s].to # NoOne

SInv == TypeOK /\ Conserved /\ Paced /\ Complete /\ Attached /\ Begun

(* dockerd's handling of an exit does not wait for a client to read or to be
   given up on, and so neither does any other exec of the container
   (docker-streams.ts 116-141).  Needs ~Misreads: behind a silence misread the
   reader sets the pace of a process that has yet to end. *)
Unparked == []<>(dockerd = NoOne)

(* The heartbeat ends with the client or the process, whatever the client
   reads (process.ts 125-126) - unless the client had left before the stream
   was pumped: again and again, no stream beats for nobody. *)
Idle(s) == (~conn[s].open /\ ~strm[s].deaf) \/ proc[strm[s].to].at \in {"exited", "handled"}
Attended == Clocks => []<>(\A s \in Streams : Beating(s) => ~Idle(s))

(* Every client that leaves is noticed. *)
HangUpsHeard == Clocks => []<>(\A s \in Streams : Beating(s) => conn[s].open)
=============================================================================
