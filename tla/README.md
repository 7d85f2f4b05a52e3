# Dormice in TLA+

Dormice runs sandboxes (one container around one disk file) that fall asleep when
idle: an active sandbox is frozen, a frozen one stopped, a stopped one archived to
S3, and the next request wakes it from wherever it is.  What is hard about it is
that four parties move one sandbox - request handlers, the idle scanner, a
restore task and the reconciler - over verbs that take minutes, fail half-way or
land after they were given up on, in a daemon that may die between any two of
them, over data that must survive everything short of a destroy.

This directory holds TLA+ modules of that core, TLC configurations that check
them on small instances, and TLAPS proofs of what matters most for every
instance.

Line numbers below are of `src/packages/server/src/` unless they say otherwise.

## 1. Inventory

| component | state | operations | hard about it | what makes it correct |
|---|---|---|---|---|
| Per-sandbox queue (`keyed-queue.ts`) | map key -> tail of a promise chain | `run`, `tryRun` | microtask order, rejected tasks, the clean-up of the map | one task at a time, in order of arrival, nobody blocked; `tryRun` told the truth |
| Ledger (`db/ledger.ts`, `db/schema.ts`) | a row per sandbox: state, pausedByUser, policy, deadlines, spec | `createSandbox`, `transition`, `deleteSandbox`, `writeShellDeath`, `overwriteState`, `setPausedByUser`, ... | two writes bypass the transition table | one row per name; moves along `ALLOWED_TRANSITIONS` |
| Docker executor (`executor/docker.ts`) | containers and disk files | create, start, freeze, unfreeze, stop, destroy, removeContainer, removeDisk, exportDisk, importDisk, exec, files | every call has a deadline and may land after it; verbs are several calls | a failed verb leaves something the next one can go on from |
| Lifecycle verbs (`lifecycle.ts`, `routes/sandboxes.ts`) | none of their own | acquire, exec and files, rebuild, destroy, policy, disk, spec | reality first, ledger second, an await between | no ledger write comes too late; data is kept; ready means running |
| Idle scanner (`scanner.ts`) | a snapshot of rows | freeze, stop, archive, E2B deadline kill or pause | it judges rows that requests are waking | it moves nothing in use |
| Archiver (`archive/archiver.ts`) | tracker: id -> restore task | archive, beginRestore, restoreJoin, runRestore | hours outside the slot; failure half-way; a crash loses the tracker | data in the disk or in the object at every instant; a restoring row has its task |
| E2B control (`e2b/control.ts`) | protocol deadlines in the rows | create, connect, timeout, pause, kill, list | decisions taken on a row read before queueing | the same promises through the second API |
| Reconciler, its loop and the boot (`reconciler.ts`, `heartbeat.ts`, `startup-guard.ts`, `main.ts`) | first strikes of orphans; a pass's lists of rows, containers and disks | startup guard and pass, runtime passes | it acts on lists minutes old while requests go on; orphans go outside any slot | drift is repaired; nothing live is destroyed; a crashed daemon serves again |
| Idle clock, exec heartbeat (`exec-heartbeat.ts`, `e2b/view.ts`) | lastActiveAt, deadlineAt, policy of a row | touch, beat, updatePolicy, setTimeout, extendDeadline | a command runs outside the slot, setTimeout writes outside it | what runs is not frozen; what is due goes, and nothing else |
| Watchers (`e2b/watcher-table.ts`, `executor/watch-lifecycle.ts`, `e2b/envd/watch.ts`) | records, their processes, the ledger of operations | reserve, create, retire, stop, reap, dispose, shut down | a stop may fail; the container may freeze, die or be rebuilt under it | every process has an owner, an operation starts once, a stream is told |
| Gateway placement and forwarding (`gateway/src/find.ts`, `cache.ts`, `placement.ts`, `routes/create.ts`, `destroy.ts`) | name cache, placement counts, slot of a name | find, place, forward create, destroy, kill | silent nodes, stale cache, lost answers, clients that leave | a name lives on one node; nothing known to exist is built twice |
| Fleet and check-in (`gateway/src/fleet.ts`, `routes/nodes.ts`, `server/src/check-in.ts`) | node rows and their memory, configuration version | check-in, join, remove, apply a bundle | restarts, rows that fail to be written, lost answers | a node's configuration converges to the gateway's |
| Rolling upgrade and updater (`gateway/src/rolling.ts`, `routes/upgrade.ts`, `server/src/updater.ts`) | the tell on a node's row, the unit | tell, fulfil, unstick | silence during a restart, a gateway that moves on | one node away at a time; told once; the roll ends |
| Process streams (`e2b/process-table.ts`, `e2b/envd/process.ts`, `envd/shared.ts`, `executor/docker-streams.ts`) | records by pid with their subscribers, output on its way, heartbeats | start, connect, pump, probe, end, shut down, signal, input | slow, stalled and leaving readers; dockerd parked behind unread output; terminals sized after their start | output arrives whole and in order before the end; no reader holds the container; no heartbeat without a reader |
| Settings, keys (`gateway/src/routes/settings.ts`, `db/api-keys.ts`) | settings row, key rows | update, mint, revoke | a change that strands archived sandboxes | refused while something depends on it |
| CLI, SDK, console, website | presentation | calls of the above | | not modelled |

**How they interact.**  A request reaches a node through the gateway, which finds
or places its name and forwards it.  A node posts a check-in to the gateway every few seconds; the answer
carries the configuration bundle and, in turn, the word to upgrade.  On the node every verb that moves a sandbox
runs in the name's queue slot, and so do the scanner's moves and the reconciler's
repairs, which enter by `tryRun` only.  Inside the slot a verb awaits the
executor and then writes the ledger.  A restore runs as a task of the archiver:
begun in somebody's slot, it downloads and imports outside of it and takes the
slot once, to finish.  Who joins a restore (E2B connect, create, kill) waits for
the task outside the slot and queues again afterwards; so does traffic of envd, the
proxy of sandbox ports does not wait.

## 2. Modules

| module | models |
|---|---|
| `Slot` | what a caller of the queue is promised: a line per key, served in order |
| `KeyedQueue` | `keyed-queue.ts`: the promise chain, link by link; implements `Slot` |
| `Ledger` | the rows of one name: `ALLOWED_TRANSITIONS` and the two writes that bypass it |
| `Shell` | the executor's lifecycle verbs as sets of outcomes |
| `Lifecycle` | every verb that moves a sandbox, await by await; implements `Ledger` |
| `LifecycleInv` | the inductive invariant of `Lifecycle`, and what holds besides: which verbs take a restoring row or run into the caller bug, and what ready means while nothing is disturbed |
| `Node` | the daemon: `Lifecycle`, the reconciler's passes and the boot; implements `Ledger` with its overwrites |
| `NodeInv` | the inductive invariant of `Node` |
| `IdleClock` | the two clocks of a row, the heartbeat, the scanner's verdicts, with their arithmetic |
| `Watchers` | the directory watchers of one sandbox against the verbs that move its container |
| `Directory` | what the fleet promises about a name: it lives on one node |
| `Placement` | the gateway and its nodes over one name; implements `Directory` |
| `Fleet` | check-ins, configuration and the rolling upgrade |
| `ProcessStreams` | the processes of one sandbox, dockerd, the pump and the streams that read them |
| `MCLifecycle`, `MCNode`, `MCIdleClock`, `MCWatchers`, `MCProcessStreams`, `MCPlacement`, `MCFleet` | symmetry, policies, days, passes that alternate with requests: what TLC needs |
| `KeyedQueueProofs`, `LifecycleProofs`, `NodeProofs`, `IdleClockProofs`, `WatchersProofs`, `ProcessStreamsProofs`, `PlacementProofs`, `FleetProofs` | the theorems |

`Slot` <- `KeyedQueue`; `Ledger`, `Shell` <- `Lifecycle` <- `LifecycleInv` <- `Node`
<- `NodeInv`; `Directory` <- `Placement`.  `IdleClock`, `Watchers` and `ProcessStreams`
look at one sandbox of the same daemon from other sides: `IdleClock` has the numbers
`Lifecycle` leaves open (which moves of the scanner some clock calls for),
`Watchers` the watchers a container carries, with the container's own moves
reduced to what a watcher can tell apart, `ProcessStreams` its commands and
terminals and who reads them.

### KeyedQueue

A task of the model is an activation of a caller of `run` or `tryRun`; `tails` is
the code's map, with the task whose tail an entry holds; `prev` is the `.then` a
task waits on.  A task is `chained` until its predecessor's tail resolves,
`released` while it is the next microtask, `running`, then `resolved` or
`rejected` until its own tail resolves (`CleanUp`).  That last step is one step
because both reactions of a tail - the `delete` that `run` attached and the next
task's `.then` - run in one microtask drain, clean-up first.  `ahead` is a history
variable, the code has no such thing; it is how `Slot` says "in order".

### Shell

A verb is the set of `[ok, shell, disk]` it may leave.  A verb that is several
Docker calls may fail after each; a freeze fails with its pause done when the read of
the memory figure after it throws (`executor/docker.ts` 2368), a stop with its kill done
when the wait after it does (698).
`Misfires` adds the outcomes in which a call given up on at its deadline
(`executor/deadline.ts`) had landed.  A disk is `half` when its file exists without
its contents.

### Lifecycle

One name on one node.  `row`, `paused` are the ledger's columns, `shell`, `disk`
the executor's reality, `object` the archive object - `stale` from the moment the
sandbox woke from it, when it no longer is the latest data - `store` whether S3 is
configured, `restore` the tracker, `slot` the holder of the name's slot.

An actor is a request handler in flight or the scanner; `pc` is the await it is
at.  A step is what the event loop runs between two awaits, or one executor or
S3 verb.  So `TakeAcquire` is `findOrCreate` from the slot to its first await,
`Boot` the await on `executor.start`, `Awaken` the transition that follows it.
A birth is three steps, because a reconciler's listing may fall between them:
`Provisioning` (the disk), `Launching` (the container), `Created` (the row).
`Wake`, `Birth`, `Destroy` and `BeginRestore` are the shared first stretches of
`wakeSandbox`, the birth, `destroySandbox` and `beginRestore`.

* **Slot.**  `KeyedQueue` is abstracted to its promise: a handler in line may take
  the slot when it is free.  Which of several is first is left open, which is
  more than the queue allows: safety holds for every order.  `tryRun` of the
  scanner needs a slot nobody holds or is in line for.
* **E2B verbs** read the row first, outside the slot (`AskE2b`), and take the
  archive detour on what they read; `Seek` is `restoreJoin`'s moment in the slot,
  `join` the wait for the task, `back` the return to the line.
* **Traffic** wakes too: `envd` is `wakeForUse` and `inSlot` (`e2b/envd/shared.ts`
  274-303), with the detour, `proxy` the port proxy (`sandbox-proxy.ts` 91-107), without
  one; both look again in the slot whether the sandbox counts as running, neither at the
  cold states (`TakeTraffic`).  With the native routes, connect and create these are
  all callers of `wakeSandbox`.
* **Thresholds and deadlines** are nondeterministic: any move of the scanner that
  some clock could call for may happen.
* **Restore task.**  `get`, `import` outside the slot; `finish` in line; `start`,
  `commit` (or `usurped`, when the row is gone) in the slot; `delete` outside
  again; `undo` and `revert` are the catch block.
* **Environment.**  A shell dies, an operator prunes one, a Docker call given up on
  lands after its verb has let go of the slot (`LandLate`; which calls are still out is
  not kept, so any may, and it counts as a drift), the S3 settings are switched (never off
  while the gateway's census counts a sandbox in cold storage,
  `gateway/src/routes/settings.ts`), the daemon crashes.  A container's creation that
  lands after its slot is left out.

`Next` is `Traffic` (what the daemon does), `Environment` and `Crash`, so that
`Node` can compose the three with the reconciler.

Not in this module: exec and the file verbs beyond the wake they begin with (they
hold the slot no longer than a wake, or touch nothing modelled), spec, disk size,
metadata; policy and timeouts are `IdleClock`'s.

### Node

`phase` is where a pass of `reconcile` is; `snap`, `seen`, `kept` are its lists of
rows, containers and disks in the order it reads them (at boot reality first),
`todo` what its present loop has not reached, `at` what it is repairing,
`strikes` and `suspects` the orphans of the pass before and of this one.

* **A pass** is `BeginPass`, `ListContainers`, `ListDisks` (or `ListFails`), then
  `ConsiderRow` for each row - `Healthy` by the lists costs nothing, an unwell one
  is repaired if `tryRun` finds its slot quiet and the row is in the state read -
  then `ConsiderBody` for each container, and each disk, of no row; `EndPass`.
* **A repair** holds the slot as `Keeper`.  `Judge` is the fresh `containerState`
  and what it decides, one operator per arm; an arm that only writes the ledger
  ends there, the others go on to one executor verb (`SweepBody`, `SweepDisk`,
  `RemoveShell`, `RevertZombie`) or to reading the exit (`RecordExit`).  The disk is
  not looked at again: `kept` is the list's, as in the code.
* **Orphans** (`Slay`, `Purge`) go outside any slot, at the second strike - at once
  at boot - if the ledger still has no row.
* **Boot**: `startup` until the boot's pass ends; nothing is served before
  (`Serve`).  `Refused` is the startup guard; `Neighbours` says whether the node
  has other, healthy sandboxes, which keep the guard quiet; both by default.
* **A crash** (`Restart`) takes the pass along and boots.

Three shapes are behind constants, off in the run that checks safety, on in the
run that checks healing: `LongPass` (a sandbox back in the state the pass read
after its disk was listed gone; `NodeStaleDisks.cfg`), `Leftovers` (a shell beside the disk of
a restore that lost its task; `NodeLeftShell.cfg`), `SlowBirth` (a birth that outlasts the
interval between two passes, where the second strike hits a body being born:
reconciler.ts 118-121 takes such a body for "genuinely unreachable").

### IdleClock

A row is its state, policy and ages: `idle`, how long since the last activity, and
`ttl`, how long to the deadline.  `Tick` ages both, the heartbeats and what a
connect has read.  A command is `waking` in the slot, then `running` outside it with
the heartbeat (`Beat`: half the freeze threshold, ten seconds at most) of the policy
it found there, until its end or the first touch that fails (`Mutes`, `exec-heartbeat.ts`
20-24); `under` is history, the threshold it started under.  A connect is
`queued`, then `waking` with the deadline it read (`seen`, `stale` when the row was
awake already and is handed back as read); `crossed` is history, a timeout set
meanwhile.  A sweep judges by its own start (`since` ago): `Sweep` nominates from the
snapshot, `Judge` looks again in the slot, the deadline first, archives in the late
half only.  A pause freezes, or with `memory: false` stops; a kill may meet a restoring
row.  Each wake, pause, restore and destroy is one step here, whose await by
await form is `Lifecycle`.

### Watchers

A request is a stream (WatchDir), a poll (CreateWatcher and the RemoveWatcher that
follows) or another visitor that wakes the sandbox; a watcher bears its request's
name.  `rec` is the table's record, `proc` the inotifywait in the container, `stop`
who awaits a stop under way (`WatchProcessLifecycle` has one at a time, joined by
others), `ops` the operation ledger with its tombstones.  A stream reserves, wakes in
the slot, starts outside of it; a poll does all of it in the slot.  `Keep` and `Kept`
are the two halves of a freeze, stop or destroy - container, then ledger and
`disposeSandbox` - and `WakeAnew` the rebuild of a dead or stale shell.

### ProcessStreams

Output is counted.  A process has `left` to write, dockerd `held` of it; the pump
has `mem` chunks, the first of them `sinking`, and has `sent` so many; a stream's
client has `seen` so many since it came.  `Written(p) = held + mem + sent` is what
`Conserved` says, the chunk being sunk counted once.

* **A chunk** is taken from dockerd (`Read`), handed to every subscriber there is
  (`Sink`, the broadcast) and done with when all of `waits` have it (`Sunk`): a client
  with room takes at once, one that has not is `full` until it drains, hangs up or
  has stalled for five minutes (`writeToClient`).  Before the end of the process
  the pump reads one chunk ahead of nobody; once it is believed ended (`tail`), `Tail`
  chunks.
* **dockerd** handles one exit of the container at a time (`dockerd`) and each only
  with nothing of its output left, which is why `Probe` asks every five seconds
  whether the process has ended: its pid, once named, answers; until then a silence is
  read as an end (`ProbeUnanswered`).  A start that meets dockerd at it waits or fails.
* **Streams.**  Start is `Spawn` - exec, record, first subscriber - and for a terminal
  `Sized`, before which it is in no table; Connect subscribes to what is listed and
  sees what comes from then on.  `pumping` is `pumpProcessStream`: heartbeat, deadline
  and an ear for the client's leaving, `deaf` if that had left before.  A stream ends
  by the process's end (`StreamEnds`), its client (`Noticed`) or its deadline
  (`Deadline`, `Closed`); none of them touches the process.
* **Ends.**  `Settle` is `awaitExitCode` after the pump delivered everything, `Overdue` the
  bound of `waitForEnd` (commands only; a terminal has none), `Shutdown` the table's.
  All go through `Finalize`, which forgets the record first.
* `StartFails` may leave a process behind: an exec given up on at its deadline may have
  begun, and its stream is let go when it lands.  `SizeFails` leaves a terminal
  that runs, pumped and unlisted.

Two flags, off in the run: `EarlyOutput` (a terminal writes before it has its size) and
`Misreads` (dockerd is silent for fifteen seconds about a process that runs).

### Placement

One name (and unnamed creates beside it) as the gateway sees it.  `home` is where
each sandbox lives, the truth of the nodes; `cache`, `slot`, `placed`, `placedIds`
are the gateway's; a handler is in `line`, asks to `confirm` a cached entry, asks
everybody (`ask`), asks by id (`seek`, a round of which only the answer of the node it
was born on matters, judged when it may be of the past), awaits its call, or checks a
404 off the request path (`verify`).
A call is `sent`, `landed`, answered `yes` or `no`, whether or not somebody still
waits for it.  `Evict` is the full cache of other names (`cache.ts` 59-62).  `look.there`,
`standing` and `slack` are history.

A check-in resets a node's count whenever it comes, in the middle of creates too: what
is under way then is in neither figure (`gateway/src/fleet.ts` 324-329).  `standing` is
what the gateway has placed on a node since its last reading and stands or may yet, and
`slack` how much of the count's arithmetic the reset has taken from it: a place for each
create under way (`Due`).  The reading is taken to be of the moment it is processed.  A
restart keeps what stands and grants it as slack, since the counts start at zero.

Two shapes are behind constants, off in the run, because with them the code does not
promise what the run asks: `Overtaken` (a question overtakes a create given up on while
still on the wire) and `Returns` (a node removed as gone for good comes back with its
sandboxes).

### Fleet

`said` is the gateway's memory of a node and `row` what its database holds; `ans` is
the answer on its way.  `Take` is the whole of `/checkIn`: join or refresh, end of a
tell, next tell, row, answer; `TakeUnwritten` and `TakeFails` are the same with writes
that fail, the row's share landing or not.  Requests are taken in the order a node made
them - one given up on after ten seconds is taken before the next, fifteen seconds
apart, or never - and a daemon without a build is a node that cannot upgrade itself.
`Older`, `TellStands`, `Upgrading`, `Stuck`, `Behind`,
`Turn` are `rolling.ts`.  A unit is the transient systemd unit of an upgrade: it
builds, replaces the daemon (`Replace`), and outlives the restart (`UnitEnds`).  Time
is three facts - two intervals of silence, twenty minutes since a tell, the order
of commits.  `day` bounds what a behaviour contains: which events, how many; the
proofs are for any set of days.  `owed` and `adrift` are history.

## 3. Runs

| run | instance | shows |
|---|---|---|
| `keyed_queue` | 4 callers, 2 keys | `EntryWhileBusy` (the map never forgets or keeps an entry wrongly); `ChainedRuns` under fair microtasks; `ServesInOrder` (implements `Slot`) |
| `lifecycle_races` | 1 id, 2 handlers, the scanner, all verbs, every failure and late landing, one drift, one crash | `IInv` (with `CommitsLegal`) and of its parts `BodyKept`; `OnlyHolderMoves`; `RestoringOwned` (who may take a row from its restore task) |
| `lifecycle_rebirths` | 2 ids, 2 handlers, acquire, destroy, E2B create and kill, every failure, one crash | `LedgerKept` when a name is destroyed and born again while its first id's restore may still run |
| `lifecycle_calm` | 1 id, 2 handlers, the scanner, every verb that joins a restore (create, connect, kill, envd), acquire and rebuild; no late landing, no crash | `ReadyRuns`, and the liveness `Answered`, `RestoreEnds` |
| `node` | 1 id, 1 handler that acquires, the scanner, a restore task, passes at any time, late landings, one drift, one crash and its boot | `KInv`; `OnlyOrderedDie` (a row goes only by an order); `LedgerRepaired` (implements `Ledger!RepairedSpec`) |
| `node_heals` | 1 id, 1 handler that acquires and destroys, one drift or one crash, failing `mkdir`, all three shapes let in, passes at rest | `Heals`: once only the reconciler moves, row and bodies come to agree and stay so |
| `placement` | 2 nodes, 2 callers, 2 ids, room for 1, readings at any time, a gateway restart | `OneHome` (implements `Directory`), `PInv`, `NoneMeansGone`, `GateKept`, `LiveEntryStays` |
| `fleet` | 2 nodes, 3 commits, 3 versions, six kinds of day | `FInv`, `OneAway`, `ToldOnce`, `TargetHeld`, and the liveness `Converges`, `RollEnds` |
| `idle_clock` | 2 commands, 1 E2B caller, policies (1, 1.5, 2 s) and (2 s, never, never), timeouts below and above them | `IInv`, `NotMidCommand`, `ShortenedByCrossing`, and the liveness `Reaped`, `Cools` |
| `watchers` | a poll, a visitor, and either the poll's retry or a stream; room for 2 watchers and 1 operation | `WInv`, `Owned`, `OncePerOperation`, `Told`, and the liveness `Reaped` |
| `process_streams` | a command that writes 2 chunks and a silent terminal, the streams of their starters, either of which may connect to the other's process instead | `SInv` (`Conserved`, `Paced`, `Complete`, `Attached`, `Begun`), and the liveness `Unparked`, `Attended` |
| `late_delete` | violation of `BodyKept` | finding 1 |

**Bounds.**  Four callers on two keys contain every shape of a chain: a tail with
two behind it, a clean-up that is and is not the last link, a return of a caller
that is out, and a second key that must not matter.  In `Lifecycle` everything
happens on one name, so one id shows every race of two requests, the scanner and
the restore task; the second id is needed only for a rebirth, whose other party is
the old id's task, and two ids are all a single rebirth has.  One crash is enough
for a safety property that holds after it for every state, since a second crash
starts from a state the first could have started from; one drift likewise for
the interleavings, and `LifecycleProofs` removes all four bounds.  Symmetry is
used for safety only.  In `node` a request more, a drift or an id multiplies an
already large graph by passes in every phase; one handler, the scanner, a restore
task and the keeper are the four parties that meet there, and `NodeProofs` removes the
bounds again.
`node_heals` explores every state a node at rest can be left in by requests that
fail anywhere, and every pass over it: `AlternateSpec` starts passes only when
nothing else is under way, because convergence is asked of exactly those, and one
thing goes wrong from outside, a drift or a crash between any two steps.  Calls that
land late are off there: a start that lands late can leave a running shell over no disk,
which every pass takes for healthy (section 5).

In `placement` two nodes are what a name can be torn between and two callers what
can tear it; a second id is the sandbox born after the first is gone, a second node's
worth of births being the same by symmetry.  `Room = 1` makes a placement that
should not be counted visible at once.  `OpSets` serves a few verbs at a time, all of
them between its sets, each pair that meets over the same state in one of them; readings
that come in the middle of creates do so on one node at a time (`OneLateSpec`); the proofs
have all verbs and nodes at once.  In `fleet` two nodes show every question about one that
waits for the other; three commits allow a push on the heels of another.  Each day
has the events that matter to each other and the proofs have all of them at once.
In `idle_clock` a unit is half the least freeze threshold, so that a heartbeat is one
unit, and the second policy has the double: a lowering mid-command crosses it.  Ages
stop at `MaxIdle`, past the largest threshold and a sweep; a sweep's slowness
(`MaxSweep`) is one unit.  In `watchers` a retry and its original, a stream and a
poll, a table of two and an operation ledger of one are the smallest instances in
which limits are met and shared; three watchers at once would be ten million states.
In `process_streams` two chunks are what it takes to have one with a reader and one
with dockerd, which is when its handling of the exit waits; a second process shows
whom it keeps waiting, and the second stream is its starter or the first's second
reader.  The terminal is silent there, since one that writes after its size is a
command without a bound on its end; `Cap = Tail = 1` is the tightest case of
`Cap <= Tail` (what dockerd holds fits the tail many times over, `docker-streams.ts`
103-109), and the proofs have any numbers.

**Fairness.**  Every await ends: executor calls have deadlines and transfers end
or fail, so `Work` is weakly fair.  `TakeTurn` and a restore task's finish are
strongly fair, because the queue serves its line in order: somebody in line finds
the slot free in its turn, between others' turns - which is what `KeyedQueue`
shows as `ChainedRuns`.  Nothing makes requests arrive or the scanner move.  In
`node_heals` passes follow each other (`Loop.schedule` chains them), and a read or
repair that is tried for ever succeeds at last (`Succeeds`): without that, a Docker
that always fails heals nothing.  In `Fleet` a node posts again and again and of its
check-ins one gets through, of its answers one is heard (strong fairness of `Take`
and `Hear`); units end, daemons boot, twenty minutes pass (weak).  In `IdleClock`
time goes on, timers fire on time, and a scanner that sweeps for ever meets the slot
free and a verb that works (strong).  In `Watchers` who has begun goes on, exits are
reported, and of the stops sent again and again one is delivered.  `Placement` has
no liveness property: a fleet may stay silent.  In `ProcessStreams` pump, probe,
dockerd and the streams' own ends go on (`Machinery`, all weak); clients promise nothing, and
processes need not end.  The five-minute clock (`Clocks`) is a premise of `Attended` only:
`Unparked` holds without it, which is its point.

**Flags that split the runs.**  `SlowDelete` (finding 1) lets the object delete
that ends a restore outlast the sandbox's next archive; it is off everywhere but
in `late_delete`, and is the one assumption of the data theorem.  `MkdirFails` is
off in `lifecycle_calm`: a failing `mkdir` outside the task's `try` leaves a
restoring row without a task, whose restore does not end (below).
`Misfires`, crashes and drift are off there for the same reason: they do leave
restoring rows without a task and ready answers over nothing, until the
reconciler comes by.  The other native verbs and the proxy are left to `lifecycle_races`:
they take no detour and wait for nobody but the slot.

**What some properties leave out.**  `OneAway` is asked of calm days: a gateway put
back to an older build, rows that could not be written, a node removed at its
upgrade and an upgrade slower than twenty minutes each let two nodes be away at
once, and the code says so of the last.  `NotMidCommand` excepts a command whose
policy was lowered under it - its heartbeat keeps the old interval
(`exec-heartbeat.ts` 4-9) - or whose heartbeat a failed touch has ended, so either may be
frozen.  `RestoringOwned` excepts an E2B kill or create that holds the slot,
`LiveEntryStays` a full cache, and `GateKept` grants the slack of a reading that came in
the middle of creates.  A probe's ready (`ReadyRuns`) may be said over a paused shell: a
freeze that failed after its pause leaves one, and the look at an active row
(`lifecycle.ts` 225-229) asks whether it has stopped only.  `ShortenedByCrossing` says when a
connect shortens a deadline although `control.ts` 241-246 says it never does.
`Attended` excepts a client that had left before its stream was pumped, and asks for
an instant, again and again, at which no stream beats for nobody: each one is let go,
and new ones come.  `Unparked` needs a silence not misread (`~Misreads`): behind one,
the reader sets the pace of a process whose end is yet to come.
`Reaped` of `IdleClock` excepts restores that follow each other for ever, which the
scanner waits for.  `TargetHeld` excepts a node removed and added again, which keeps
its copy with the old swap target at the same version (`nodes.ts` 41-44 says the
version says all).  `Owned` is about watchers that were established: a start
disposed of under way is stopped once and then forgotten, and a start whose answer
came too late leaves a stray process for the day-long backstop of the container.

## 4. Proofs

`KeyedQueueProofs`: for any keys and callers.  `IInv` is `Links` (a chained task is
behind a task of its own key, and everything that one is behind), `Ordered` (of
two tasks under a key one is ahead of the other) and `LastLink` (the map entry is
the last link).  Mutual exclusion (`SlotIsExclusive`) is not inductive by itself - a
`released` task runs whatever the others do - and follows from these: two running
tasks both have an empty `ahead`, which `Ordered` forbids.  `ChainImplementsSlot` is
the refinement: every step of the chain is a step of `Slot` or a stutter.

`LifecycleProofs`: for any ids, handlers, verbs and bounds, with `~SlowDelete`.
`LifecycleInv!IInv` adds to the properties what each step in the slot may rely on:

* `SlotHeld` ties the slot to the program counters: the holder is at a step of
  the slot and everybody else is not.  Everything rests on it.
* `CommitsLegal` - a verb that moved reality finds the row as it left it - needs
  `SlotHeld` and `RestoreRow` (what a restore task may assume of its row).
* `BodyKept` needs `Uploaded` (the archive is recorded over an object that is
  there to stay), `RestoreDisk` (what a restore finishes with is whole), `Births`
  and `Fresh` (a birth works on an id nobody else knows), `Doomed` (only what was
  ordered destroyed is torn down) and `CommitsLegal`.
* `OneRow`, `OnKnown` keep the name unique and the ids defined.

`Inductive` proves `Spec => []IInv` with one step per action; `SlotIsHeld`,
`DataSurvives`, `NoLateCommit` and `AwakeIsNotPaused` read off its parts.
`LedgerImplemented` and `HolderMoves` are action properties proved from it.  Where
`~SlowDelete` fails, `late_delete` shows that `DataSurvives` fails.

Three properties of the code's comments hold with exceptions only (section 5).  Each
has a theorem that names the exceptions, of all the verbs the daemon serves:

* A restoring row is changed by its restore task, or deleted by an E2B kill or create
  that holds its slot (`RestoringIsOwned`).  It rests on `Spared` - who tears a restoring
  row down is one of these two, since the native verbs look at the row in the slot and a
  row comes to be restoring in a free slot only (`RestoringBegins`).
* Who runs into `wakeSandbox`'s caller bug is a verb that looks at the row before it
  queues: E2B connect or create, an envd wake or the proxy (`CallerBugsLookEarly`).
* "ready" is true of the container until something is disturbed - a shell dies or is
  pruned, the settings change, the daemon crashes - as long as no verb lands late
  (`ReadyTillDisturbed`, of every verb and failure; `ReadyIsTrue` for a calm
  environment).  A probe asks only whether the shell is stopped, so the proof needs to
  know it is not gone: the shell of an active row is there unless a verb is about to
  record what it did (`Lively`), and who is about to record a row active has brought it
  up (`Risen`).  The hypotheses are what that takes: a call that lands after its
  deadline, a pruned container, or a crash between a verb and its record leave an active
  row over a shell that is gone, which the probe takes for a running one.

`NodeProofs`: for any ids, handlers, verbs and bounds, with `~SlowDelete` and the
three shapes of `Node` off.  Its invariant is `NodeInv!KInv`: `IInv` and what a
pass may rely on while the daemon goes on working.

* `Framed` is the rely condition: a lemma per group of verbs shows that traffic
  never takes the slot for the keeper or from it, moves no row while the keeper
  holds it, gives birth only on fresh ids, and lets rows appear by a birth and
  vanish by an order.  With it `ServeHolds` needs no look at the verbs.
* `RowHeld` - the row under repair is as the pass read it, of the kind the verb is
  for - and `KeeperHolds` make a repair as safe as a verb in the slot.
* `GoneByOrder` - a hot row still as read whose disk was not listed is condemned -
  is what deleting a row rests on, and what `LongPass` breaks.
* `NoBirthStruck` and `BodyUnowned` protect a birth from the second strike
  (`SlowBirth` breaks them), `Alone` and `ZombieWhole` are for the boot
  (`Leftovers` breaks the latter).

`NodeInductive` proves `NodeSpec => []KInv`; `NodeDataSurvives`, `OrdersOnly`,
`RepairsImplementLedger` and `HolderOrKeeper` follow from it and from two lemmas on
what a step of the pass writes.  Three more say what `Lifecycle`'s promises come to
beside a reconciler: no verb's ledger write comes too late (`NodeNoLateCommit`); a
restoring row is taken from no task that lives (`NodeRestoringOwned`, by `PassInSlot`
and `RowHeld`); and only a repair can leave a paused sandbox awake
(`NodeAwakeNotPaused`) - which does happen, `NodePausedAwake.cfg` in section 5.

`FleetProofs`: for any nodes, commits, versions and days.  `FInv` is `Kept` (memory
and row agree on tell and swap target, so a restart forgets nothing) and
`AwayCounted` (on a calm day a node away on a tell is one the gateway counts as
upgrading, silent or not).  `OneAway` is not inductive: that a second node is not
told while the first is away needs `AwayCounted`, whose own steps need, for each
node, what its answer and its unit may carry (`Owing`: a tell on its way or at work
is on the node's row and owed) and what its standing is meanwhile (`Sent`,
`Standing`).  `ToldOnce` follows from `Owing`'s history, `TargetHeld` from an
invariant on every answer on its way.

`IdleClockProofs`: for any thresholds, timeouts and bounds.  `NotMidCommand` rests on
`Warm` - a running command keeps the row as young as its heartbeat has run, and its
heartbeat is at most half the threshold it started under - and on what the scanner
read in the slot staying true until its verb lands (`Holding`: the slot names its
holder; `Beside`: a verdict under way is still the row's).  `Condemned` needs that
nobody sets a timeout on a row that is dead to the E2B surface; `AlwaysExtends` that
a connect's `seen` ages with the row unless a timeout crossed it (`Read`).

`WatchersProofs`: for any requests, operations, limits.  `Owned` and `Told` follow
from `Sound`: `Slotted` (who is in the slot is at work in it), `Still` (while the
keeper has moved the container and not yet written the ledger, the processes are
dead) and `Shape` (which states of record, process and request go together).  `WInv`
and `OncePerOperation` need that table and operations go together (`Tabled`): a step
keeps the records that count, drops some, or enters one below the ceiling
(`TableStep`), and with a record goes the operation bound to it.  Who has a process,
or is about to start one, has a record until the shutdown, and the record has its
operation, so of two requests of one operation only one gets there (`Single`).

`ProcessStreamsProofs`: for any processes, streams, amounts of output and limits, with
both flags either way.  `SInv` is inductive as it stands.  `Complete` - who is told of an
exit has seen everything written - is what readers are promised; it rests on `Conserved`
at the instant of `Settle`, where dockerd and the pump hold nothing (`Begun`: a handled
exit left nothing behind), and on nobody writing after the pump is done.  `Begun` also
says that a terminal without its size is its starter's alone, which keeps the first
output behind the answer's head (`AlwaysHeadFirst`, given `~EarlyOutput`).  The proof goes by
what a step touches: `QuietStep` for a process, its pump and dockerd, `LeavesStep` for an
answer that is over, `EndStep` for an end, and one lemma for each action that does more.

`PlacementProofs`: for any nodes, callers, ids and bounds, with `Overtaken` and `Returns`
off.  `PInv` is inductive once `Rooted` is in it: nobody moves a sandbox and no id is
born twice, so what the cache, an answer or a call says of where one lives was true
once, and can be wrong now only because that sandbox is gone.  That makes
`NoneMeansGone` a matter of `Noticed` - a sandbox there from a round's start is on a
member still to be asked, among the answers, or behind a silence - and `Sound` says the
same of where a create may still land, so `OneSite` (the name lives, or is yet to be
built, on one node at most) outlives the next placement; `Directory` needs no more.
The proof sorts the invariant by world and by client (`LInv`): `ClientStep` is one
lemma for whatever a client does, `EndStep` for a sandbox's end by destroy or expiry and
a node's by removal, `BuildStep` for a birth, where the name's slot keeps everybody
else out.  `KeepsOneHome` and `KeepsLiveEntry` follow from it.

`GateKept` needs an account of every placement, not only of those that stand: a node's
`placed` goes down when a failed create is learnt of or a sandbox placed since the
reading is destroyed, so each decrement that may still come is charged to it already
(`Charged`: what stands, failed creates not yet learnt of, ids placed and known).
`Affords` - no more is charged than `placed` counts and `slack` grants, and `placed` is
within `Room` - is inductive with `Owes` and `Stands` (who is charged, and where), by four counting lemmas:
an answer moves a charge, swaps it for the sandbox's id, or takes it away with the
count.  `Firsts` - a placed create is alone and its name nowhere - keeps a create from
waking what another built and leaving its charge behind.  A check-in starts the count
over and grants in slack what is charged to it at that moment (`WipedAnew`): a create
still out, and for one answered yes its ids, whose answer is yet to be learnt.  The
theorem needs callers and ids to be finite sets, because it counts them.

Only model-checked: the liveness properties (`ChainedRuns`, `Answered`, `RestoreEnds`,
`Heals`, `Converges`, `RollEnds`, `Reaped`, `Cools`, `Unparked`, `Attended`), whose
proofs need fairness and ENABLED, which the prover does not handle.  Every other
property of a passing run is a theorem.

## 5. Findings

1. *A late object delete can take the only copy* (`late_delete`).  `runRestore`
   deletes the object after it let go of the slot (`archive/archiver.ts` 349);
   nothing orders that delete with the next archive of the same id.
Known disagreements with a configuration that reproduces each of them, outside the
list of runs; the passing runs leave these shapes out, by the constants or verbs
named here:

| configuration | violates | what happens | left out by |
|---|---|---|---|
| `LifecycleCallerBug.cfg` | `NoCallerBug` | E2B connect and create and the envd wakes decide on the archive detour from a row read before they queue, the proxy takes none; the scanner's archive ahead of them makes `wakeSandbox` throw its "caller bug" (`lifecycle.ts` 280-282) | `NoCallerBug` is in no passing run; `CallerBugsLookEarly` says who gets there |
| `LifecycleE2bKill.cfg` | `RestoringOwnedAlone` | E2B kill destroys a row that became restoring after it looked (`archive/archiver.ts` 327: "the restoring state belongs to the restore task alone"); the native destroy answers 409 there | `RestoringOwned` states the exception |
| `NodeStaleDisks.cfg` | `OnlyOrderedDie` | a repair inspects the container again but not the disk (`reconciler.ts` 246): a sandbox archived as the disks were listed, then restored and stopped, has its row deleted | `LongPass` |
| `NodeLeftShell.cfg` | `BodyKept` | a leftover shell passes for a finished restore at boot (`reconciler.ts` 132-134); the row becomes stopped over no disk | `Leftovers` |
| `NodePausedAwake.cfg` | `AwakeNotPaused` | a crash between a wake's thaw and its ledger write leaves a frozen, paused row over a running shell; the boot's repair overwrites the state alone (`reconciler.ts` 279), and the sandbox is awake but shown as paused until its next freeze and wake, though `lifecycle.ts` 288-289 says an awake sandbox is by definition not paused | `AwakeNotPaused` is asked of `Lifecycle` only |
| `NodeBootRefused.cfg` | `ServesAgain` | `locallyClaimedCount` leaves cold rows out of the guard: the leftovers of a node's only sandbox read as a foreign host, at every boot | `ServesAgain` is in no passing run |
| `WatchersReservation.cfg` | `ReservationKept` | WatchDir reserves its record before it wakes (`e2b/envd/watch.ts` 117); the wake that replaces a dead shell, or a stop ahead of it in the slot, disposes of every record of the sandbox, the reservation included (`e2b/watcher-table.ts` 281), and the stream ends in `internal` | `ReservationKept` is in no passing run |
| `ProcessStreamsGhost.cfg` | `HangUpsHeard` | a client that leaves during the wake or the start is not heard leaving (`e2b/envd/process.ts` 157): heartbeat and subscription go on until the process ends or the deadline comes, though 125-126 says the heartbeat lives as long as someone is attached | `Idle` states the exception |
| `ProcessStreamsEarly.cfg` | `HeadFirst` | a terminal's pump starts before its size is set (`executor/docker.ts` 1304-1315): output in between is written before `writeHead`, which then throws, and nobody pumps the stream; `executor/executor.ts` promises no output before `execStream` resolves | `EarlyOutput` |
| `ProcessStreamsMisread.cfg` | `Unparked` | dockerd's silence about a process that runs is read as its end, and the pump fills the tail ahead of a reader who stopped; when the process does end, what dockerd still holds has no place to go until that client stalls out | `Misreads` |
| `IdleClockShortens.cfg` | `NeverShortened` | a connect to an awake sandbox writes over a timeout set while it queried the container (`control.ts` 241-246) | `ShortenedByCrossing` states the exception |

Without a configuration: a failing `mkdir` in `runRestore` (302; the promise's
only handlers are 100-101) and a `requireStore` that throws after the transition
(230-236) both leave a restoring row without a task; a freeze that lands after its
deadline, or fails on the memory figure after its pause, makes `acquire` answer ready
over a paused shell (`lifecycle.ts` 225-229).  A restart or the next pass of the
reconciler repairs these (`Heals`).  They do not repair the
running form of `NodeLeftShell.cfg`: an exited shell that a late start brings up, left
beside the disk by an archive whose clean-up failed, outlives the disk, which the next
restore's catch block removes; should the restore after that lose its task, every pass takes
the shell for a finished restore and then for a healthy sandbox (`NodeHeals.cfg` with
`Misfires`).  A failed
object delete is not retried, and destroying a hot sandbox does not look at the
store, so objects nothing refers to stay behind
(`website/content/docs/archiving.mdx` 98-100 says nothing leaks).  A configuration bundle that cannot be applied
takes the tell of the same answer with it, which is then said to nobody until an
operator unsticks the node.  A terminal whose size cannot be set runs on in no table;
a start under way registers its process after the shutdown ended all others; and
output may follow a deadline's last frame while that frame is still being written.  `Spawn` has the start frame written as it
subscribes: a client that is gone or full at that instant is one that leaves or
stalls right after.

## 6. Not modelled

* *API keys, templates and the account*: small state, one writer.
* *Stdin, resizing, signals and List of the process surface*: a signal is an `Exit` at any
  moment; the rest touches nothing the streams' ends depend on.
* *Spec, metadata, disk size, files, metrics*: single ledger columns or reads; they
  take the slot like the verbs modelled and touch nothing these properties speak of.
* *The executor's inside*: how a container, a quota or a cgroup is made.  `Shell`
  has each verb's outcomes, which is what the daemon sees.
* *Gateway*: merged lists, signed URLs, the proxy, endpoints of nodes, what makes one
  node a better place than another.
* *CLI, SDK, console, website*: most lines of the repository; clients and pages that
  keep no state the system depends on.

## 7. Plan

API keys and the account: revocation against the gateway's cache.
