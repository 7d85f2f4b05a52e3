----------------------------- MODULE IdleClock ------------------------------
(***************************************************************************)
(* The two clocks of one sandbox, and the scanner that reads them          *)
(* (server/src: scanner.ts, exec-heartbeat.ts, the timing halves of        *)
(* routes/sandboxes.ts, e2b/control.ts, e2b/view.ts and db/ledger.ts).     *)
(*                                                                         *)
(* The idle clock runs from the last activity; a command keeps it fresh    *)
(* with a heartbeat.  The deadline of an E2B sandbox is absolute: only     *)
(* create, connect and setTimeout move it, and setTimeout without the      *)
(* slot.  Time is discrete; the row holds ages, not dates: how long idle,  *)
(* how long to the deadline.  What the verbs do to containers is Lifecycle's. *)
(***************************************************************************)
EXTENDS Integers

CONSTANTS
  Commands,    \* commands and connections that run outside the slot
  Callers,     \* callers of the E2B surface
  Policies,    \* the policies that are asked for
  Timeouts,    \* the timeouts that are asked for
  MostBeat,    \* the longest heartbeat interval: ten seconds
  MaxIdle,     \* ages stop here, past every threshold and a sweep
  MaxSweep,    \* how long a sweep takes to come to the row, at most
  Never, Free, Scanner

Ages == 0..MaxIdle
Thresholds == Ages \cup {Never}

ASSUME IdleAssumption ==
  /\ Policies \subseteq [freeze : Ages \ {0, 1}, stop : Thresholds, archive : Thresholds]
  /\ \A p \in Policies : /\ p.stop # Never => p.freeze <= p.stop
                         /\ p.archive # Never => p.stop # Never /\ p.stop <= p.archive
  /\ Timeouts \subseteq Nat \ {0}
  /\ MostBeat \in Nat \ {0} /\ MaxIdle \in Nat /\ MaxSweep \in Nat
  /\ Never \notin Int
  /\ Scanner # Free /\ {Scanner, Free} \cap (Commands \cup Callers) = {}
  /\ Commands \cap Callers = {}

VARIABLES
  row,    \* the ledger's row
  slot,   \* who holds the name's slot
  cmd,    \* cmd[e]: a command, its heartbeat, the threshold it started under
  con,    \* con[c]: a connect, what it asks for and the deadline it has read
  sweep   \* the scanner's visit to the row

vars == <<row, slot, cmd, con, sweep>>

States == {"none", "active", "frozen", "stopped", "archived", "restoring"}
Kinds == {"native", "kill", "pause"}
Deadlines == Int \cup {Never}

Rows == [state : States, policy : Policies, idle : Ages, ttl : Deadlines, kind : Kinds, paused : BOOLEAN]
Runs == [pc : {"idle", "waking", "running", "mute"}, beat : Nat, left : Nat, under : Ages]
Connects == [pc : {"idle", "queued", "waking"}, want : Nat, seen : Deadlines, stale : BOOLEAN, crossed : BOOLEAN]
Sweeps == [pc : {"off", "early", "late", "freezing", "pausing", "stopping", "archiving", "killing"},
           since : 0..MaxSweep]

TypeOK ==
  /\ row \in Rows
  /\ slot \in Commands \cup Callers \cup {Free, Scanner}
  /\ cmd \in [Commands -> Runs]
  /\ con \in [Callers -> Connects]
  /\ sweep \in Sweeps

NoCommand == [pc |-> "idle", beat |-> 0, left |-> 0, under |-> 0]
NoConnect == [pc |-> "idle", want |-> 0, seen |-> Never, stale |-> FALSE, crossed |-> FALSE]
NoSweep == [pc |-> "off", since |-> 0]
NoRow(p) == [state |-> "none", policy |-> p, idle |-> 0, ttl |-> Never, kind |-> "native", paused |-> FALSE]

Init ==
  /\ row \in {NoRow(p) : p \in Policies}
  /\ slot = Free
  /\ cmd = [e \in Commands |-> NoCommand]
  /\ con = [c \in Callers |-> NoConnect]
  /\ sweep = NoSweep

-----------------------------------------------------------------------------
(* Half the freeze threshold, never above ten seconds. *)
Least(a, b) == IF a < b THEN a ELSE b

(* Mutant: as long as the threshold. *)
BeatWhole(freeze) == Least(freeze, MostBeat)
Beat(freeze) == Least(freeze \div 2, MostBeat)

(* What the E2B surface says of the row. *)
Expired == row.ttl # Never /\ row.ttl <= 0
View ==
  IF Expired THEN IF row.kind = "pause" THEN "paused" ELSE "dead"
  ELSE IF row.paused THEN "paused" ELSE "running"

Awake == [row EXCEPT !.state = "active", !.idle = 0, !.paused = FALSE]
Wakeable == row.state \in {"active", "frozen", "stopped"}

Under == {"running", "mute"}  \* under way, with a heartbeat or without

(* The sandbox is destroyed: its commands fail with it. *)
Gone ==
  /\ row' = NoRow(row.policy)
  /\ cmd' = [e \in Commands |-> IF cmd[e].pc \in Under THEN NoCommand ELSE cmd[e]]

-----------------------------------------------------------------------------
(* One unit of time.  Timers are on time, and a sweep comes to the row before
   long. *)
Aged(t) == IF t = Never THEN Never ELSE IF t > -MaxSweep THEN t - 1 ELSE t

Tick ==
  /\ \A e \in Commands : cmd[e].pc = "running" => cmd[e].left > 0
  /\ sweep.pc \in {"early", "late"} => sweep.since < MaxSweep
  /\ row' = [row EXCEPT !.idle = Least(@ + 1, MaxIdle), !.ttl = Aged(@)]
  /\ cmd' = [e \in Commands |-> [cmd[e] EXCEPT !.left = IF cmd[e].pc = "running" THEN @ - 1 ELSE @]]
  /\ con' = [c \in Callers |-> [con[c] EXCEPT !.seen = Aged(@)]]
  /\ sweep' = [sweep EXCEPT !.since = IF sweep.pc \in {"early", "late"} THEN @ + 1 ELSE @]
  /\ UNCHANGED slot

(* acquireSandbox and POST /sandboxes build what is not there; the latter
   ends what is dead and not yet reaped first. *)
Birth(kind, p, t) ==
  /\ slot = Free
  /\ row.state = "none" \/ (kind # "native" /\ View = "dead")
  /\ row' = [state |-> "active", policy |-> p, idle |-> 0, kind |-> kind, paused |-> FALSE,
             ttl |-> IF kind = "native" THEN Never ELSE t]
  /\ cmd' = [e \in Commands |-> NoCommand]
  /\ UNCHANGED <<slot, con, sweep>>

(* execCommand, a process stream, a proxied connection: woken in the slot ... *)
Start(e) ==
  /\ cmd[e].pc = "idle" /\ slot = Free
  /\ Wakeable
  /\ slot' = e
  /\ cmd' = [cmd EXCEPT ![e].pc = "waking"]
  /\ UNCHANGED <<row, con, sweep>>

(* Mutant: a sandbox awake already is not touched. *)
RunUntouched(e) ==
  /\ cmd[e].pc = "waking"
  /\ row' = IF row.state = "active" THEN row ELSE Awake
  /\ cmd' = [cmd EXCEPT ![e] = [pc |-> "running", beat |-> Beat(row.policy.freeze),
                                left |-> Beat(row.policy.freeze), under |-> row.policy.freeze]]
  /\ slot' = Free
  /\ UNCHANGED <<con, sweep>>

(* ... run outside it, the heartbeat set by the policy read there ... *)
Run(e) ==
  /\ cmd[e].pc = "waking"
  /\ row' = Awake
  /\ cmd' = [cmd EXCEPT ![e] = [pc |-> "running", beat |-> Beat(row.policy.freeze),
                                left |-> Beat(row.policy.freeze), under |-> row.policy.freeze]]
  /\ slot' = Free
  /\ UNCHANGED <<con, sweep>>

Beats(e) ==
  /\ cmd[e].pc = "running" /\ cmd[e].left = 0
  /\ row' = [row EXCEPT !.idle = 0]
  /\ cmd' = [cmd EXCEPT ![e].left = cmd[e].beat]
  /\ UNCHANGED <<slot, con, sweep>>

(* A touch that throws ends the heartbeat, not the command ... *)
Mutes(e) ==
  /\ cmd[e].pc = "running" /\ cmd[e].left = 0
  /\ cmd' = [cmd EXCEPT ![e] = [NoCommand EXCEPT !.pc = "mute"]]
  /\ UNCHANGED <<row, slot, con, sweep>>

(* ... and the countdown starts when it ends. *)
End(e) ==
  /\ cmd[e].pc \in Under
  /\ row' = [row EXCEPT !.idle = 0]
  /\ cmd' = [cmd EXCEPT ![e] = NoCommand]
  /\ UNCHANGED <<slot, con, sweep>>

(* updatePolicy: a ledger write in the slot, and no activity. *)
SetPolicy(p) ==
  /\ slot = Free /\ row.state # "none"
  /\ row' = [row EXCEPT !.policy = p]
  /\ UNCHANGED <<slot, cmd, con, sweep>>

Crossed == [c \in Callers |-> [con[c] EXCEPT !.crossed = @ \/ con[c].pc = "waking"]]

(* setTimeout, in both directions and without the slot. *)
SetTimeout(t) ==
  /\ row.state # "none" /\ row.kind # "native"
  /\ View # "dead"
  /\ row' = [row EXCEPT !.ttl = t]
  /\ con' = Crossed
  /\ UNCHANGED <<slot, cmd, sweep>>

-----------------------------------------------------------------------------
(* connect, and create by a name that lives. *)
Ask(c, t) ==
  /\ con[c].pc = "idle"
  /\ row.state # "none" /\ View # "dead"
  /\ con' = [con EXCEPT ![c] = [NoConnect EXCEPT !.pc = "queued", !.want = t]]
  /\ UNCHANGED <<row, slot, cmd, sweep>>

(* Looked at again in the slot; an awake row is what the wake hands back. *)
Connect(c) ==
  /\ con[c].pc = "queued" /\ slot = Free
  /\ IF row.state = "none" \/ View = "dead" \/ ~Wakeable
     THEN con' = [con EXCEPT ![c] = NoConnect] /\ UNCHANGED slot
     ELSE /\ slot' = c
          /\ con' = [con EXCEPT ![c].pc = "waking", ![c].seen = row.ttl, ![c].stale = row.state = "active"]
  /\ UNCHANGED <<row, cmd, sweep>>

(* Mutant: the connect's timeout replaces the deadline. *)
ConnectedAnyway(c) ==
  /\ con[c].pc = "waking"
  /\ row' = [Awake EXCEPT !.ttl = IF row.kind # "native" THEN con[c].want ELSE @]
  /\ con' = [con EXCEPT ![c] = NoConnect]
  /\ slot' = Free
  /\ UNCHANGED <<cmd, sweep>>

(* extendDeadline, against the deadline of the row the wake returned: read
   before the wake if the sandbox was awake, after it if not. *)
Connected(c) ==
  LET current == IF con[c].stale THEN con[c].seen ELSE row.ttl IN
  /\ con[c].pc = "waking"
  /\ row' = [Awake EXCEPT !.paused = IF con[c].stale THEN @ ELSE FALSE,
                          !.ttl = IF row.kind # "native" /\ con[c].want > current THEN con[c].want ELSE @]
  /\ con' = [con EXCEPT ![c] = NoConnect]
  /\ slot' = Free
  /\ UNCHANGED <<cmd, sweep>>

(* pause: whatever runs in it; with memory:false on to a stop. *)
Pause ==
  /\ slot = Free /\ row.state # "none" /\ View = "running"
  /\ \E to \in IF row.state \in {"active", "frozen"} THEN {"frozen", "stopped"} ELSE {row.state} :
       row' = [row EXCEPT !.state = to, !.paused = TRUE]
  /\ UNCHANGED <<slot, cmd, con, sweep>>

(* kill, destroySandbox - of a restoring row, an E2B kill's. *)
Kill ==
  /\ slot = Free /\ row.state # "none"
  /\ Gone
  /\ UNCHANGED <<slot, con, sweep>>

(* acquire of an archived sandbox, and what becomes of it. *)
Restore ==
  /\ slot = Free /\ row.state = "archived"
  /\ row' = [row EXCEPT !.state = "restoring"]
  /\ UNCHANGED <<slot, cmd, con, sweep>>

Restored ==
  /\ slot = Free /\ row.state = "restoring"
  /\ row' \in {Awake, [row EXCEPT !.state = "archived"]}
  /\ UNCHANGED <<slot, cmd, con, sweep>>

-----------------------------------------------------------------------------
(* The scanner: rows are judged by the sweep's own time, since ago. *)

(* Mutant: only what is awake has a deadline. *)
DueDeadlineAwake(since) ==
  IF row.state # "active" \/ row.ttl = Never THEN "none"
  ELSE IF row.ttl + since > 0 THEN "none"
  ELSE IF row.kind # "pause" THEN "kill" ELSE "pause"

DueDeadline(since) ==
  IF row.state = "restoring" \/ row.ttl = Never THEN "none"
  ELSE IF row.ttl + since > 0 THEN "none"
  ELSE IF row.kind # "pause" THEN "kill"
  ELSE IF row.state = "active" THEN "pause" ELSE "none"

Past(threshold, since) == threshold # Never /\ row.idle - since >= threshold

(* Mutant: a sandbox with a deadline is left to it. *)
DueMoveImmortal(since) ==
  IF row.state = "active" /\ row.ttl = Never /\ Past(row.policy.freeze, since) THEN "freeze"
  ELSE IF row.state = "frozen" /\ Past(row.policy.stop, since) THEN "stop"
  ELSE IF row.state = "stopped" /\ Past(row.policy.archive, since) THEN "archive"
  ELSE "none"

DueMove(since) ==
  IF row.state = "active" /\ Past(row.policy.freeze, since) THEN "freeze"
  ELSE IF row.state = "frozen" /\ Past(row.policy.stop, since) THEN "stop"
  ELSE IF row.state = "stopped" /\ Past(row.policy.archive, since) THEN "archive"
  ELSE "none"

(* A row due for something by the sweep's snapshot; archives come last (a row
   due for both is its deadline's first, its archive a later sweep's). *)
Sweep ==
  /\ sweep.pc = "off" /\ row.state # "none"
  /\ \/ /\ DueDeadline(0) # "none" \/ DueMove(0) \in {"freeze", "stop"}
        /\ sweep' = [pc |-> "early", since |-> 0]
     \/ /\ DueDeadline(0) = "none" /\ DueMove(0) = "archive"
        /\ sweep' = [pc |-> "late", since |-> 0]
  /\ UNCHANGED <<row, slot, cmd, con>>

(* tryRun: a busy slot is left alone. *)
Skip ==
  /\ sweep.pc \in {"early", "late"} /\ slot # Free
  /\ sweep' = NoSweep
  /\ UNCHANGED <<row, slot, cmd, con>>

(* What the row is due for when its slot has come: the deadline first. *)
Verdict ==
  LET deadline == DueDeadline(sweep.since)
      move == DueMove(sweep.since) IN
  CASE row.state = "none" -> "off"
    [] sweep.pc = "early" /\ deadline = "kill" -> "killing"
    [] sweep.pc = "early" /\ deadline = "pause" -> "pausing"
    [] sweep.pc = "early" /\ deadline = "none" /\ move = "freeze" -> "freezing"
    [] sweep.pc = "early" /\ deadline = "none" /\ move = "stop" -> "stopping"
    [] sweep.pc = "late" /\ deadline = "none" /\ move = "archive" -> "archiving"
    [] OTHER -> "off"

Judge ==
  /\ sweep.pc \in {"early", "late"} /\ slot = Free
  /\ sweep' = [pc |-> Verdict, since |-> 0]
  /\ slot' = IF Verdict = "off" THEN Free ELSE Scanner
  /\ UNCHANGED <<row, cmd, con>>

Colder == [freezing |-> "frozen", pausing |-> "frozen", stopping |-> "stopped", archiving |-> "archived"]

Cool ==
  /\ sweep.pc \in DOMAIN Colder
  /\ row' = [row EXCEPT !.state = Colder[sweep.pc]]
  /\ sweep' = NoSweep /\ slot' = Free
  /\ UNCHANGED <<cmd, con>>

Reap ==
  /\ sweep.pc = "killing"
  /\ Gone
  /\ sweep' = NoSweep /\ slot' = Free
  /\ UNCHANGED con

(* The verb fails: the row is the next sweep's. *)
Fail ==
  /\ slot = Scanner
  /\ sweep' = NoSweep /\ slot' = Free
  /\ UNCHANGED <<row, cmd, con>>

-----------------------------------------------------------------------------
Command(e) == Start(e) \/ Run(e) \/ Beats(e) \/ Mutes(e) \/ End(e)
Surface(c) == (\E t \in Timeouts : Ask(c, t)) \/ Connect(c) \/ Connected(c)
Scan == Sweep \/ Skip \/ Judge \/ Cool \/ Reap \/ Fail

Next ==
  \/ Tick
  \/ \E kind \in Kinds, p \in Policies, t \in Timeouts : Birth(kind, p, t)
  \/ \E e \in Commands : Command(e)
  \/ \E p \in Policies : SetPolicy(p)
  \/ \E t \in Timeouts : SetTimeout(t)
  \/ \E c \in Callers : Surface(c)
  \/ Pause \/ Kill \/ Restore \/ Restored
  \/ Scan

Spec == Init /\ [][Next]_vars

(* Time goes on, wakes and restores end, sweeps follow each other; one finds
   the slot free in the end (its holders are short, the queue behind them is
   not endless), and a verb asked for again and again comes off. *)
Fairness ==
  /\ WF_vars(Tick) /\ SF_vars(Sweep /\ slot = Free)
  /\ SF_vars(Judge) /\ SF_vars(Cool) /\ SF_vars(Reap) /\ SF_vars(Restored)
  /\ \A e \in Commands : WF_vars(Run(e)) /\ WF_vars(Beats(e))
  /\ \A c \in Callers : WF_vars(Connected(c))

FairSpec == Spec /\ Fairness

-----------------------------------------------------------------------------
(* A running command keeps the row as fresh as its heartbeat, whoever holds
   the slot; and the slot says what its holder is at. *)
Warm ==
  \A e \in Commands : cmd[e].pc = "running" =>
    /\ row.state # "none"
    /\ row.idle + cmd[e].left <= cmd[e].beat
    /\ cmd[e].under > 1 /\ cmd[e].beat = Beat(cmd[e].under)

Holding ==
  /\ \A e \in Commands : cmd[e].pc = "waking" <=> slot = e
  /\ \A c \in Callers : con[c].pc = "waking" <=> slot = c
  /\ slot = Scanner <=> sweep.pc \notin {"off", "early", "late"}
  /\ slot # Free => row.state # "none"
  /\ row.kind = "native" <=> row.ttl = Never
  /\ row.state = "none" => row.kind = "native"

IInv == TypeOK /\ Warm /\ Holding

(* Nothing is put to sleep by the idle clock with a command running in it
   (exec-heartbeat.ts 4-9) - unless its threshold has been lowered since the
   command started, or its heartbeat has ended at a touch that failed. *)
NotMidCommand ==
  sweep.pc \in {"freezing", "stopping", "archiving"} =>
    \A e \in Commands : cmd[e].pc = "running" => row.policy.freeze < cmd[e].under

(* What the scanner kills is dead to callers, and stays so until it is gone:
   no timeout is taken that does not count (control.ts findLive, setTimeout). *)
Condemned == sweep.pc = "killing" => View = "dead"

(* connect extends, and never shortens (control.ts 241-246) - unless a timeout
   set while it woke an awake sandbox is taken for the one it read. *)
Shortens(c) == con[c].pc = "waking" /\ con'[c].pc = "idle" /\ row.ttl # Never /\ row'.ttl < row.ttl

NeverShortened == [][\A c \in Callers : ~Shortens(c)]_vars

ShortenedByCrossing == [][\A c \in Callers : Shortens(c) => con[c].crossed /\ con[c].stale]_vars

(* A kill deadline is enforced, from whatever state - a restore, which the
   scanner waits for, may put it off for as long as restores follow each other
   (scanner.ts 30-36). *)
Reaped == <>[](row.state # "restoring") => (View = "dead" /\ row.state # "none" ~> View # "dead")

(* A sandbox nobody touches any more does not stay awake, deadline or not. *)
Cools == <>[][row'.idle >= row.idle]_row => []<>(row.state # "active")
=============================================================================
