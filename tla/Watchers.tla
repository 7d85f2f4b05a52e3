------------------------------ MODULE Watchers ------------------------------
(***************************************************************************)
(* The directory watchers of one sandbox (server/src: e2b/watcher-table.ts,*)
(* executor/watch-lifecycle.ts, DockerExecutor.watchDir, e2b/envd/watch.ts)*)
(* against the verbs that move its container.                              *)
(*                                                                         *)
(* A request owns at most one record of the table, and bears its name.  A  *)
(* stream reserves it, wakes the sandbox in the slot and starts the watcher*)
(* outside; a poll does all of it in the slot, under an operation it may   *)
(* retry.  The physical process lives in the container.  Events are not    *)
(* modelled, nor what images and specs make a shell stale.                 *)
(***************************************************************************)
EXTENDS Naturals, FiniteSets

CONSTANTS
  Streams,      \* WatchDir requests
  Polls,        \* CreateWatcher requests, and the RemoveWatcher that follows
  Visitors,     \* whatever else wakes the sandbox
  Ops, NoOp,    \* operation IDs of polls, and none
  OpOf,         \* the operation of each poll
  MaxWatchers,  \* 128
  MaxOps,       \* 256
  Absences,     \* sets of requests that may stay away, to bound a run
  Keeper, Daemon, Free, NoOne

Watches == Streams \cup Polls
Requests == Watches \cup Visitors

ASSUME WatchAssumption ==
  /\ Streams \cap Polls = {} /\ Watches \cap Visitors = {}
  /\ Requests \cap {Keeper, Daemon, Free, NoOne} = {}
  /\ Keeper # Free
  /\ NoOp \notin Ops /\ OpOf \in [Polls -> Ops \cup {NoOp}]
  /\ MaxWatchers \in Nat /\ MaxOps \in Nat
  /\ Absences \subseteq SUBSET Requests

VARIABLES
  shell,  \* the container
  row,    \* the ledger's state
  slot,   \* who holds the name's slot
  job,    \* what the keeper - scanner, reconciler, a destroy - does in it
  pc,     \* where each request is
  todo,   \* todo[r]: retired watchers the wake of r has yet to reap
  rec,    \* rec[w]: the record of w
  proc,   \* proc[w]: its process; "seen" once its exit is reported
  stop,   \* stop[w]: who awaits the stop of w that is under way
  ops,    \* the operation ledger
  ans,    \* ans[p]: the watcher a poll was told of
  down    \* the daemon's shutdown

vars == <<shell, row, slot, job, pc, todo, rec, proc, stop, ops, ans, down>>

Actors == Requests \cup {Daemon}
Stages == {"idle", "queued", "waking", "reaping", "starting", "spawned", "undoing", "opening",
           "open", "closing", "stopping", "answered", "leaving", "done"}
Records == [state : {"none", "starting", "active", "retired", "ended"}, listed : BOOLEAN, handle : BOOLEAN,
            published : BOOLEAN, told : BOOLEAN]
Entries == [kind : {"none", "live", "tombstone"}, by : Polls \cup {NoOne}]

TypeOK ==
  /\ shell \in {"up", "paused", "down"}
  /\ row \in {"active", "frozen", "stopped", "gone"}
  /\ slot \in Requests \cup {Keeper, Free}
  /\ job \in {"none", "freeze", "stop", "destroy"}
  /\ pc \in [Requests -> Stages]
  /\ todo \in [Requests -> SUBSET Watches]
  /\ rec \in [Watches -> Records]
  /\ proc \in [Watches -> {"none", "alive", "stray", "dead", "seen"}]
  /\ stop \in [Watches -> SUBSET Actors]
  /\ ops \in [Ops -> Entries]
  /\ ans \in [Polls -> Polls \cup {NoOne}]
  /\ down \in {"no", "closing", "closed"}

NoRecord == [state |-> "none", listed |-> FALSE, handle |-> FALSE, published |-> FALSE, told |-> FALSE]
NoEntry == [kind |-> "none", by |-> NoOne]

Init ==
  /\ shell = "up" /\ row = "active" /\ slot = Free /\ job = "none"
  /\ \E away \in Absences : pc = [r \in Requests |-> IF r \in away THEN "done" ELSE "idle"]
  /\ todo = [r \in Requests |-> {}]
  /\ rec = [w \in Watches |-> NoRecord]
  /\ proc = [w \in Watches |-> "none"]
  /\ stop = [w \in Watches |-> {}]
  /\ ops = [o \in Ops |-> NoEntry]
  /\ ans = [p \in Polls |-> NoOne]
  /\ down = "no"

-----------------------------------------------------------------------------
(* The table. *)
Listed == { w \in Watches : rec[w].listed }
(* Mutant: polling watchers only, as before streams had records. *)
RetiredPolls == { w \in Listed \cap Polls : rec[w].state = "retired" }
Retired == { w \in Listed : rec[w].state = "retired" }

Ended(x) == IF x.state = "ended" THEN x ELSE [x EXCEPT !.state = "ended", !.listed = FALSE]

(* A published watcher's operation outlives it as a tombstone. *)
OpsWithout(gone, keep) ==
  [o \in Ops |->
     IF ops[o].kind # "live" \/ ops[o].by \notin gone \/ rec[ops[o].by].state = "ended" THEN ops[o]
     ELSE IF keep /\ rec[ops[o].by].published THEN [ops[o] EXCEPT !.kind = "tombstone"]
     ELSE NoEntry]

(* Mutant: the operation stays bound. *)
FinalizeBound(w) ==
  /\ rec' = [rec EXCEPT ![w] = Ended(@)]
  /\ UNCHANGED ops

Finalize(w) ==
  /\ rec' = [rec EXCEPT ![w] = Ended(@)]
  /\ ops' = OpsWithout({w}, TRUE)

(* Mutant: records go, streams are not told. *)
DisposeQuietly ==
  /\ rec' = [w \in Watches |-> Ended(rec[w])]
  /\ ops' = OpsWithout(Listed, FALSE)

(* disposeSandbox, once the container is proven gone: streams are told. *)
Dispose ==
  /\ rec' = [w \in Watches |-> IF w \in Listed THEN [Ended(rec[w]) EXCEPT !.told = w \in Streams] ELSE rec[w]]
  /\ ops' = OpsWithout(Listed, FALSE)

(* What dies with the container. *)
Killed == [w \in Watches |-> IF proc[w] \in {"alive", "stray"} THEN "dead" ELSE proc[w]]

(* reserve: starting and retired records count. *)
MayReserve == down = "no" /\ Cardinality(Listed) < MaxWatchers
NewRecord == [NoRecord EXCEPT !.state = "starting", !.listed = TRUE]

(* stopRetired: joined when under way, nothing to wait for without a handle. *)
Stoppable(w) == rec[w].state # "ended" /\ rec[w].handle
Joined(a, w) == [stop EXCEPT ![w] = @ \cup {a}]
Awaiting(a) == \E w \in Watches : a \in stop[w]

-----------------------------------------------------------------------------
(* WatchDir reserves before it wakes ... *)
Reserve(s) ==
  /\ s \in Streams /\ pc[s] = "idle" /\ row # "gone" /\ MayReserve
  /\ rec' = [rec EXCEPT ![s] = NewRecord]
  /\ pc' = [pc EXCEPT ![s] = "queued"]
  /\ UNCHANGED <<shell, row, slot, job, todo, proc, stop, ops, ans, down>>

(* ... CreateWatcher, and any other use, only wakes. *)
Call(r) ==
  /\ r \in Polls \cup Visitors /\ pc[r] = "idle" /\ row # "gone"
  /\ pc' = [pc EXCEPT ![r] = "queued"]
  /\ UNCHANGED <<shell, row, slot, job, todo, rec, proc, stop, ops, ans, down>>

Take(r) ==
  /\ pc[r] = "queued" /\ slot = Free /\ row # "gone"
  /\ slot' = r
  /\ pc' = [pc EXCEPT ![r] = "waking"]
  /\ UNCHANGED <<shell, row, job, todo, rec, proc, stop, ops, ans, down>>

(* No row, or the wake failed: a stream's reservation is cancelled. *)
Over(r) == pc' = [pc EXCEPT ![r] = IF r \in Visitors THEN "idle" ELSE "done"]
Refuse(r) ==
  /\ \/ pc[r] = "queued" /\ slot = Free /\ row = "gone" /\ UNCHANGED slot
     \/ pc[r] = "waking" /\ slot' = Free
  /\ IF r \in Streams /\ rec[r].listed /\ rec[r].state = "starting"
     THEN Finalize(r) ELSE UNCHANGED <<rec, ops>>
  /\ Over(r)
  /\ UNCHANGED <<shell, row, job, todo, proc, stop, ans, down>>

(* The shell is fine, or paused and fine. *)
WakeWarm(r) ==
  /\ pc[r] = "waking" /\ shell # "down" /\ row \in {"active", "frozen"}
  /\ shell' = "up" /\ row' = "active"
  /\ todo' = [todo EXCEPT ![r] = Retired]
  /\ pc' = [pc EXCEPT ![r] = "reaping"]
  /\ UNCHANGED <<slot, job, rec, proc, stop, ops, ans, down>>

(* No shell left, or one that is stale: a new one is built, and the watchers
   of the old one are disposed of - unless they were when it was stopped. *)
WakeAnew(r) ==
  /\ pc[r] = "waking"
  /\ shell = "down" \/ row = "frozen"
  /\ shell' = "up" /\ row' = "active" /\ proc' = Killed
  /\ \/ Dispose
     \/ row = "stopped" /\ UNCHANGED <<rec, ops>>
  /\ todo' = [todo EXCEPT ![r] = {}]
  /\ pc' = [pc EXCEPT ![r] = "reaping"]
  /\ UNCHANGED <<slot, job, stop, ans, down>>

(* The new shell does not come up: the row is stopped, the old one gone. *)
WakeHalf(r) ==
  /\ pc[r] = "waking" /\ (shell = "down" \/ row = "frozen")
  /\ shell' = "down" /\ row' = "stopped" /\ proc' = Killed
  /\ Dispose
  /\ slot' = Free
  /\ Over(r)
  /\ UNCHANGED <<job, todo, stop, ans, down>>

(* reapDeferred: one retired watcher after the other, whatever comes of it. *)
ReapNext(r) ==
  /\ pc[r] = "reaping" /\ ~Awaiting(r)
  /\ \E w \in todo[r] :
       /\ todo' = [todo EXCEPT ![r] = @ \ {w}]
       /\ stop' = IF Stoppable(w) THEN Joined(r, w) ELSE stop
  /\ UNCHANGED <<shell, row, slot, job, pc, rec, proc, ops, ans, down>>

Woken(r) == pc[r] = "reaping" /\ ~Awaiting(r) /\ todo[r] = {}

Visited(v) ==
  /\ v \in Visitors /\ Woken(v)
  /\ slot' = Free
  /\ pc' = [pc EXCEPT ![v] = "idle"]
  /\ UNCHANGED <<shell, row, job, todo, rec, proc, stop, ops, ans, down>>

(* wakeForStream gives the slot back. *)
WokenStream(s) ==
  /\ s \in Streams /\ Woken(s)
  /\ slot' = Free
  /\ pc' = [pc EXCEPT ![s] = "opening"]
  /\ UNCHANGED <<shell, row, job, todo, rec, proc, stop, ops, ans, down>>

(* createStreaming, refused when the reservation is no longer there. *)
Open(s) ==
  /\ pc[s] = "opening"
  /\ pc' = [pc EXCEPT ![s] = IF rec[s].listed /\ rec[s].state = "starting" THEN "starting" ELSE "done"]
  /\ UNCHANGED <<shell, row, slot, job, todo, rec, proc, stop, ops, ans, down>>

-----------------------------------------------------------------------------
(* create: an operation seen before is answered again, or refused when its
   path or options are others. *)
Entry(p) == IF OpOf[p] = NoOp THEN NoEntry ELSE ops[OpOf[p]]

Replay(p) ==
  /\ p \in Polls /\ Woken(p) /\ Entry(p).kind # "none"
  /\ \/ ans' = [ans EXCEPT ![p] = Entry(p).by] /\ pc' = [pc EXCEPT ![p] = "answered"]
     \/ pc' = [pc EXCEPT ![p] = "done"] /\ UNCHANGED ans
  /\ slot' = Free
  /\ UNCHANGED <<shell, row, job, todo, rec, proc, stop, ops, down>>

OpsFull(p) == OpOf[p] # NoOp /\ Cardinality({ o \in Ops : ops[o].kind # "none" }) >= MaxOps

Create(p) ==
  /\ p \in Polls /\ Woken(p) /\ Entry(p).kind = "none"
  /\ IF ~OpsFull(p) /\ MayReserve
     THEN /\ rec' = [rec EXCEPT ![p] = NewRecord]
          /\ ops' = [o \in Ops |-> IF o = OpOf[p] THEN [kind |-> "live", by |-> p] ELSE ops[o]]
          /\ pc' = [pc EXCEPT ![p] = "starting"]
          /\ UNCHANGED slot
     ELSE pc' = [pc EXCEPT ![p] = "done"] /\ slot' = Free /\ UNCHANGED <<rec, ops>>
  /\ UNCHANGED <<shell, row, job, todo, proc, stop, ans, down>>

(* A tombstone's five minutes are over. *)
Expire(o) ==
  /\ ops[o].kind = "tombstone"
  /\ ops' = [ops EXCEPT ![o] = NoEntry]
  /\ UNCHANGED <<shell, row, slot, job, pc, todo, rec, proc, stop, ans, down>>

-----------------------------------------------------------------------------
(* start: the process, then its readiness. *)
Leave(w) == slot' = IF slot = w THEN Free ELSE slot

Spawn(w) ==
  /\ pc[w] = "starting" /\ shell = "up"
  /\ proc' = [proc EXCEPT ![w] = "alive"]
  /\ pc' = [pc EXCEPT ![w] = "spawned"]
  /\ UNCHANGED <<shell, row, slot, job, todo, rec, stop, ops, ans, down>>

(* No container, no directory, a start given up at its deadline that landed -
   whose process nobody will ever stop - or an end before readiness. *)
StartFails(w) ==
  /\ \/ pc[w] = "starting" /\ proc' \in {proc, [proc EXCEPT ![w] = IF shell = "up" THEN "stray" ELSE @]}
     \/ pc[w] = "spawned" /\ proc[w] = "dead" /\ proc' = [proc EXCEPT ![w] = "seen"]
  /\ Finalize(w)
  /\ pc' = [pc EXCEPT ![w] = "done"]
  /\ Leave(w)
  /\ UNCHANGED <<shell, row, job, todo, stop, ans, down>>

Established(w) ==
  /\ pc[w] = "spawned"
  /\ IF rec[w].state = "starting"
     THEN /\ rec' = [rec EXCEPT ![w] = [@ EXCEPT !.handle = TRUE, !.state = "active", !.published = TRUE]]
          /\ pc' = [pc EXCEPT ![w] = IF w \in Polls THEN "answered" ELSE "open"]
          /\ ans' = [p \in Polls |-> IF p = w THEN w ELSE ans[p]]
          /\ Leave(w)
          /\ UNCHANGED stop
     ELSE /\ rec' = [rec EXCEPT ![w] = [@ EXCEPT !.handle = TRUE, !.state = "retired"]]
          /\ pc' = [pc EXCEPT ![w] = "undoing"]
          /\ stop' = Joined(w, w)
          /\ UNCHANGED <<ans, slot>>
  /\ UNCHANGED <<shell, row, job, todo, proc, ops, down>>

Undone(w) ==
  /\ pc[w] = "undoing" /\ ~Awaiting(w)
  /\ Finalize(w)
  /\ pc' = [pc EXCEPT ![w] = "done"]
  /\ Leave(w)
  /\ UNCHANGED <<shell, row, job, todo, proc, stop, ans, down>>

-----------------------------------------------------------------------------
(* The stream's end - the watcher's, its deadline, the client's - and the
   poll's RemoveWatcher, both by removeGoal; only a poll asks for the slot. *)
EndStream(s) ==
  /\ pc[s] = "open"
  /\ pc' = [pc EXCEPT ![s] = "closing"]
  /\ UNCHANGED <<shell, row, slot, job, todo, rec, proc, stop, ops, ans, down>>

Remove(p) ==
  /\ p \in Polls /\ pc[p] = "answered" /\ slot = Free
  /\ slot' = IF row = "gone" THEN Free ELSE p
  /\ pc' = [pc EXCEPT ![p] = IF row = "gone" THEN "done" ELSE "leaving"]
  /\ UNCHANGED <<shell, row, job, todo, rec, proc, stop, ops, ans, down>>

Target(r) == IF r \in Polls THEN ans[r] ELSE r

(* Mutant: the operation is free as soon as its watcher is retired. *)
RemoveGoalFrees(r) ==
  LET w == Target(r) IN
  /\ pc[r] \in {"closing", "leaving"}
  /\ rec' = IF rec[w].listed THEN [rec EXCEPT ![w].state = "retired"] ELSE rec
  /\ ops' = OpsWithout({w}, FALSE)
  /\ IF rec[w].listed /\ row = "active" /\ rec[w].handle
     THEN stop' = Joined(r, w) /\ pc' = [pc EXCEPT ![r] = "stopping"] /\ UNCHANGED slot
     ELSE pc' = [pc EXCEPT ![r] = "done"] /\ Leave(r) /\ UNCHANGED stop
  /\ UNCHANGED <<shell, row, job, todo, proc, ans, down>>

RemoveGoal(r) ==
  LET w == Target(r) IN
  /\ pc[r] \in {"closing", "leaving"}
  /\ rec' = IF rec[w].listed THEN [rec EXCEPT ![w].state = "retired"] ELSE rec
  /\ IF rec[w].listed /\ row = "active" /\ rec[w].handle
     THEN stop' = Joined(r, w) /\ pc' = [pc EXCEPT ![r] = "stopping"] /\ UNCHANGED slot
     ELSE pc' = [pc EXCEPT ![r] = "done"] /\ Leave(r) /\ UNCHANGED stop
  /\ UNCHANGED <<shell, row, job, todo, proc, ops, ans, down>>

(* Stopped, or given up for now ... *)
Removed(r) ==
  /\ pc[r] = "stopping" /\ ~Awaiting(r)
  /\ pc' = [pc EXCEPT ![r] = "done"]
  /\ Leave(r)
  /\ UNCHANGED <<shell, row, job, todo, rec, proc, stop, ops, ans, down>>

(* ... or, for a stream, tried again, thrice at most. *)
RemoveAgain(s) ==
  /\ s \in Streams /\ pc[s] = "stopping" /\ ~Awaiting(s) /\ Stoppable(s)
  /\ stop' = Joined(s, s)
  /\ UNCHANGED <<shell, row, slot, job, pc, todo, rec, proc, ops, ans, down>>

-----------------------------------------------------------------------------
(* WatchProcessLifecycle: a stop and the process's own end. *)
StopLands(w) ==
  /\ stop[w] # {} /\ shell = "up" /\ proc[w] = "alive"
  /\ proc' = [proc EXCEPT ![w] = "dead"]
  /\ stop' = [stop EXCEPT ![w] = {}]
  /\ Finalize(w)
  /\ UNCHANGED <<shell, row, slot, job, pc, todo, ans, down>>

(* Nothing left to stop: the exit is reported, or the container is down. *)
StopMoot(w) ==
  /\ stop[w] # {} /\ (proc[w] = "seen" \/ shell = "down")
  /\ stop' = [stop EXCEPT ![w] = {}]
  /\ Finalize(w)
  /\ UNCHANGED <<shell, row, slot, job, pc, todo, proc, ans, down>>

(* Mutant: a stop that failed is as good as one that landed. *)
StopFailsFinal(w) ==
  /\ stop[w] # {} /\ proc[w] # "seen"
  /\ stop' = [stop EXCEPT ![w] = {}]
  /\ Finalize(w)
  /\ UNCHANGED <<shell, row, slot, job, pc, todo, proc, ans, down>>

(* The signal fails and the container is up or paused, or cannot be asked. *)
StopFails(w) ==
  /\ stop[w] # {} /\ proc[w] # "seen"
  /\ stop' = [stop EXCEPT ![w] = {}]
  /\ UNCHANGED <<shell, row, slot, job, pc, todo, rec, proc, ops, ans, down>>

(* inotifywait ends on its own. *)
Ends(w) ==
  /\ proc[w] \in {"alive", "stray"} /\ shell = "up"
  /\ proc' = [proc EXCEPT ![w] = "dead"]
  /\ UNCHANGED <<shell, row, slot, job, pc, todo, rec, stop, ops, ans, down>>

OfItself(w) == [Ended(rec[w]) EXCEPT !.told = rec[w].told \/ w \in Streams]

(* The exit is reported: an end of its own, unless a stop is under way. *)
Report(w) ==
  /\ proc[w] = "dead" /\ rec[w].handle
  /\ proc' = [proc EXCEPT ![w] = "seen"]
  /\ IF stop[w] # {} \/ rec[w].state = "ended" THEN UNCHANGED <<rec, ops>>
     ELSE /\ rec' = [rec EXCEPT ![w] = OfItself(w)]
          /\ ops' = OpsWithout({w}, TRUE)
  /\ UNCHANGED <<shell, row, slot, job, pc, todo, stop, ans, down>>

-----------------------------------------------------------------------------
(* The keeper: freeze, stop or destroy, container first and ledger second. *)
Keep(what) ==
  /\ slot = Free /\ job' = what /\ slot' = Keeper
  /\ \/ what = "freeze" /\ row = "active" /\ shell = "up" /\ shell' = "paused" /\ UNCHANGED proc
     \/ what = "stop" /\ row \in {"active", "frozen"} /\ shell' = "down" /\ proc' = Killed
     \/ what = "destroy" /\ row # "gone" /\ shell' = "down" /\ proc' = Killed
  /\ UNCHANGED <<row, pc, todo, rec, stop, ops, ans, down>>

Kept ==
  /\ slot = Keeper
  /\ row' = CASE job = "freeze" -> "frozen" [] job = "stop" -> "stopped" [] OTHER -> "gone"
  /\ IF job = "freeze" THEN UNCHANGED <<rec, ops>> ELSE Dispose
  /\ slot' = Free /\ job' = "none"
  /\ UNCHANGED <<shell, pc, todo, proc, stop, ans, down>>

(* The container dies: nobody knows until the next wake or pass. *)
Die ==
  /\ shell = "up"
  /\ shell' = "down" /\ proc' = Killed
  /\ UNCHANGED <<row, slot, job, pc, todo, rec, stop, ops, ans, down>>

(* shutdown: every stream told, every watcher stopped, for five seconds. *)
Shutdown ==
  /\ down = "no" /\ down' = "closing"
  /\ rec' = [w \in Watches |-> IF w \in Listed THEN [rec[w] EXCEPT !.state = "retired", !.told = w \in Streams]
                               ELSE rec[w]]
  /\ stop' = [w \in Watches |-> IF w \in Listed /\ rec[w].handle THEN stop[w] \cup {Daemon} ELSE stop[w]]
  /\ UNCHANGED <<shell, row, slot, job, pc, todo, proc, ops, ans>>

ShutdownEnds ==
  /\ down = "closing" /\ down' = "closed"
  /\ rec' = [w \in Watches |-> IF w \in Listed THEN Ended(rec[w]) ELSE rec[w]]
  /\ ops' = OpsWithout(Listed, TRUE)
  /\ UNCHANGED <<shell, row, slot, job, pc, todo, proc, stop, ans>>

-----------------------------------------------------------------------------
Request(r) ==
  \/ Call(r) \/ Take(r) \/ Refuse(r) \/ WakeWarm(r) \/ WakeAnew(r) \/ WakeHalf(r) \/ ReapNext(r) \/ Visited(r)
Stream(s) == Reserve(s) \/ WokenStream(s) \/ Open(s) \/ EndStream(s) \/ RemoveAgain(s)
Poll(p) == Replay(p) \/ Create(p) \/ Remove(p)
Watcher(w) ==
  \/ Spawn(w) \/ StartFails(w) \/ Established(w) \/ Undone(w)
  \/ RemoveGoal(w) \/ Removed(w)
  \/ StopLands(w) \/ StopMoot(w) \/ StopFails(w) \/ Ends(w) \/ Report(w)

Next ==
  \/ \E r \in Requests : Request(r)
  \/ \E s \in Streams : Stream(s)
  \/ \E p \in Polls : Poll(p)
  \/ \E w \in Watches : Watcher(w)
  \/ \E o \in Ops : Expire(o)
  \/ \E what \in {"freeze", "stop", "destroy"} : Keep(what)
  \/ Kept \/ Die \/ Shutdown \/ ShutdownEnds

Spec == Init /\ [][Next]_vars

(* Who has begun goes on, exits are reported, signals come to an end, and of
   those sent again and again one is delivered. *)
Forward(r) ==
  \/ Refuse(r) \/ WakeWarm(r) \/ WakeAnew(r) \/ WakeHalf(r) \/ ReapNext(r) \/ Visited(r)
  \/ r \in Streams /\ (WokenStream(r) \/ Open(r))
  \/ Replay(r) \/ Create(r)
  \/ r \in Watches /\ (StartFails(r) \/ Established(r) \/ Undone(r) \/ RemoveGoal(r) \/ Removed(r))

Stopping(w) == StopLands(w) \/ StopMoot(w) \/ StopFails(w)

Fairness ==
  /\ WF_vars(ShutdownEnds)
  /\ \A r \in Requests : WF_vars(Forward(r))
  /\ \A w \in Watches : WF_vars(Report(w)) /\ WF_vars(Stopping(w)) /\ SF_vars(StopLands(w))

FairSpec == Spec /\ Fairness

-----------------------------------------------------------------------------
(* The slot's holder is at work in it, the table within its ceiling, and an
   operation bound to a record exactly as long as the record is there. *)
InSlot(r) ==
  \/ pc[r] \in {"waking", "reaping"}
  \/ r \in Polls /\ pc[r] \in {"starting", "spawned", "undoing", "leaving", "stopping"}

Bound ==
  \A p \in Polls : OpOf[p] # NoOp =>
    (rec[p].listed <=> ops[OpOf[p]] = [kind |-> "live", by |-> p])

WInv ==
  /\ TypeOK
  /\ \A r \in Requests : InSlot(r) <=> slot = r
  /\ slot = Keeper <=> job # "none"
  /\ Cardinality(Listed) <= MaxWatchers
  /\ Bound
  /\ \A w \in Watches : stop[w] # {} => rec[w].handle

(* No watcher that was published runs on in the container when the table has
   lost sight of it: what cannot be stopped is kept until it can
   (watcher-table.ts 9-20).  A start disposed of under way is another matter:
   it is stopped once, and forgotten. *)
Owned ==
  down = "no" => \A w \in Watches : proc[w] = "alive" /\ rec[w].published => rec[w].listed

(* A retried CreateWatcher does not start a second watcher beside the first
   (watcher-table.ts 113-116). *)
OncePerOperation ==
  \A p, q \in Polls :
    p # q /\ OpOf[p] # NoOp /\ OpOf[p] = OpOf[q] => ~(proc[p] = "alive" /\ proc[q] = "alive")

(* An open stream whose watcher is no more has been told why. *)
Told == \A s \in Streams : pc[s] = "open" => rec[s].state = "active" \/ rec[s].told

(* What was reserved before the wake is there after it (watcher-table.ts 160:
   released "after wake/start refusal"). *)
ReservationKept ==
  down = "no" => \A s \in Streams : pc[s] = "opening" => rec[s].listed

(* A sandbox that is used rids itself of its retired watchers. *)
Reaped ==
  []<>(\E v \in Visitors : pc[v] = "reaping") =>
    \A w \in Watches : rec[w].state = "retired" ~> rec[w].state = "ended"
=============================================================================
