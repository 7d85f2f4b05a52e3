----------------------------- MODULE Lifecycle -----------------------------
(***************************************************************************)
(* One sandbox name on one node: every verb that moves the sandbox, step   *)
(* by step between awaits (lifecycle.ts, scanner.ts, archive/archiver.ts,  *)
(* routes/sandboxes.ts, e2b/control.ts, e2b/envd/shared.ts,                *)
(* sandbox-proxy.ts).                                                      *)
(*                                                                         *)
(* Request handlers and the idle scanner take the name's slot              *)
(* (KeyedQueue) and work in it: reality first, ledger second.  The restore *)
(* task of an id works outside the slot through the slow middle and takes  *)
(* it only to finish.  Shells die, an operator prunes them, S3 fails and   *)
(* the settings switch it off and on, the daemon crashes.                  *)
(*                                                                         *)
(* A step is what runs between two awaits, or one executor or S3 verb.     *)
(***************************************************************************)
EXTENDS Naturals

CONSTANTS
  Ids,         \* the ids a birth may mint (a bound: the code draws UUIDs)
  Clients,     \* request handlers in flight at once (a bound)
  Scanner, Keeper, Free, NoId,  \* the idle scanner, the reconciler (Node.tla), nobody, no id
  Ops,         \* the request verbs this instance serves
  Misfires,    \* a verb given up on at its deadline may have landed
  SlowDelete,  \* the object delete that ends a restore may outlast the sandbox's next archive
  MkdirFails,  \* the restore's temp directory may fail to be made
  MaxDrift,    \* how often the environment moves a shell or the S3 settings (a bound)
  MaxCrashes   \* how often the daemon crashes (a bound)

Actors == Clients \cup {Scanner}

AllOps == {"acquire", "use", "rebuild", "destroy",      \* native verbs, by name
           "create",                                    \* E2B, by name
           "connect", "pause", "drop", "kill",          \* E2B, by id ("drop": pause with memory:false)
          "envd", "proxy"}                             \* data-plane traffic, by id

ASSUME NamesAssumption ==
  /\ Scanner \notin Clients /\ Actors \cap Ids = {} /\ NoId \notin Ids
  /\ Free \notin Actors \cup Ids /\ Keeper \notin Actors \cup Ids \cup {Free}
ASSUME OpsAssumption == Ops \subseteq AllOps
ASSUME FlagsAssumption == Misfires \in BOOLEAN /\ SlowDelete \in BOOLEAN /\ MkdirFails \in BOOLEAN
ASSUME BoundsAssumption == MaxDrift \in Nat /\ MaxCrashes \in Nat

VARIABLES
  row,        \* row[i]: the ledger state of id i, "absent" without a row
  paused,     \* paused[i]: pausedByUser
  shell,      \* shell[i]: the container
  disk,       \* disk[i]: the disk file
  object,     \* object[i]: the archive object - "stale" once the sandbox woke from it
  store,      \* an S3 archive store is configured
  slot,       \* who holds the name's slot: an actor, a restore task (its id), the keeper, or Free
  pc, op, on, \* per actor: where it is, its verb, the id it works on
  restore,    \* restore[i]: the restore task of i, "off" when the tracker has none
  minted,     \* ids a birth has drawn
  condemned,  \* history: ids whose destruction somebody ordered
  drift, crashes  \* how often each has happened

rows == <<row, paused>>
body == <<shell, disk>>
tasks == <<pc, op, on>>
world == <<store, drift, crashes>>
vars == <<row, paused, shell, disk, object, store, slot, pc, op, on, restore,
          minted, condemned, drift, crashes>>

E == INSTANCE Shell
L == INSTANCE Ledger

Idle == {"idle", "ready", "done", "bug"}   \* an actor at rest, by its last answer
Waiting == {"seek", "join", "back", "queued"}  \* outside the slot
Lined == {"seek", "queued"}                    \* of these, in the slot's line
Working == {"provision", "launch", "record", "probe", "dead", "cold", "swapped", "boot", "awaken",
            "rebuild", "rebuilt", "freeze", "frozen", "stop", "stopped",
            "demolish", "erase", "forget", "export", "upload", "confirm", "clear"}

Tracked == {"get", "import", "finish", "start", "commit", "usurped", "delete", "undo", "revert"}
Finishing == {"start", "commit", "usurped"}  \* the restore task's steps in the slot

TypeOK ==
  /\ row \in [Ids -> L!SandboxStates \cup {"absent"}]
  /\ paused \in [Ids -> BOOLEAN]
  /\ shell \in [Ids -> E!Shells] /\ disk \in [Ids -> E!Disks]
  /\ object \in [Ids -> {"none", "current", "stale"}]
  /\ store \in BOOLEAN
  /\ slot \in Actors \cup Ids \cup {Keeper, Free}
  /\ pc \in [Actors -> Idle \cup Waiting \cup Working]
  /\ op \in [Actors -> AllOps \cup {"cool"}]
  /\ on \in [Actors -> Ids \cup {NoId}]
  /\ restore \in [Ids -> Tracked \cup {"off"}]
  /\ minted \subseteq Ids /\ condemned \subseteq Ids
  /\ drift \in 0..MaxDrift /\ crashes \in 0..MaxCrashes

Init ==
  /\ row = [i \in Ids |-> "absent"] /\ paused = [i \in Ids |-> FALSE]
  /\ shell = [i \in Ids |-> "none"] /\ disk = [i \in Ids |-> "none"]
  /\ object = [i \in Ids |-> "none"]
  /\ store = TRUE
  /\ slot = Free
  /\ pc = [a \in Actors |-> "idle"]
  /\ op = [a \in Actors |-> "cool"]
  /\ on = [a \in Actors |-> NoId]
  /\ restore = [i \in Ids |-> "off"]
  /\ minted = {} /\ condemned = {}
  /\ drift = 0 /\ crashes = 0

-----------------------------------------------------------------------------
(* Steps of an actor *)

Goto(a, p) == pc' = [pc EXCEPT ![a] = p] /\ UNCHANGED <<op, on>>

(* The request is answered and its handler is at rest. *)
Rest(a, p) ==
  /\ pc' = [pc EXCEPT ![a] = p]
  /\ op' = [op EXCEPT ![a] = "cool"]
  /\ on' = [on EXCEPT ![a] = NoId]

(* Mutant: an answer that does not give the slot back. *)
AnswerInSlot(a, p) == UNCHANGED slot /\ Rest(a, p)

(* The slot's task settles, with an answer. *)
Answer(a, p) == slot' = Free /\ Rest(a, p)

(* One executor verb on the id a works on; a failure fails the whole verb. *)
Verb(a, outcomes, next) ==
  \E r \in outcomes :
    /\ shell' = [shell EXCEPT ![on[a]] = r.shell]
    /\ disk' = [disk EXCEPT ![on[a]] = r.disk]
    /\ IF r.ok THEN Goto(a, next) /\ UNCHANGED slot ELSE Answer(a, "done")
    /\ UNCHANGED <<row, paused, object, restore, minted, condemned, world>>

(* The ledger write an await resumes with; then the next verb or the answer. *)
Record(a, to, after) ==
  /\ L!Move(on[a], to)
  /\ after
  /\ UNCHANGED <<body, object, restore, minted, condemned, world>>

Named == L!Rows
ColdStorage == {"archived", "restoring"}

(* Begin works on id i inside the slot at p; or ends there without an await. *)
Enter(a, i, p) ==
  /\ slot' = a /\ on' = [on EXCEPT ![a] = i] /\ pc' = [pc EXCEPT ![a] = p]
  /\ UNCHANGED op
Refuse(a, p) == Rest(a, p) /\ UNCHANGED slot

(* wakeSandbox's first step by the row's state *)
Wake(a, i) ==
  CASE row[i] = "active" -> Enter(a, i, "probe")
    [] row[i] \in {"frozen", "stopped"} -> Enter(a, i, "cold")
    [] OTHER -> Refuse(a, "bug")

(* A birth draws a fresh UUID. *)
Birth(a) ==
  \/ \E i \in Ids \ minted : minted' = minted \cup {i} /\ Enter(a, i, "provision")
  \/ minted = Ids /\ Refuse(a, "done") /\ UNCHANGED minted

(* destroySandbox's first step: an archived body is its object. *)
Destroy(a, i) ==
  IF row[i] = "archived"
  THEN IF store THEN Enter(a, i, "erase") /\ condemned' = condemned \cup {i}
                ELSE Refuse(a, "done") /\ UNCHANGED condemned
  ELSE Enter(a, i, "demolish") /\ condemned' = condemned \cup {i}

(* beginRestore: a live entry is handed out as it is; requireStore throws
   after the transition. *)
BeginRestore(i) ==
  IF restore[i] # "off" THEN UNCHANGED <<row, restore>>
  ELSE /\ L!Move(i, "restoring")
       /\ restore' = [restore EXCEPT ![i] = IF store THEN "get" ELSE "off"]

(* The restore task ends; whoever joined it goes on - a kill whatever the
   outcome, the others only if the sandbox is back. *)
EndRestore(i, ok) ==
  /\ restore' = [restore EXCEPT ![i] = "off"]
  /\ LET joined == {a \in Actors : pc[a] = "join" /\ on[a] = i}
         failed == {a \in joined : ~ok /\ op[a] # "kill"}
     IN /\ pc' = [a \in Actors |-> IF a \in failed THEN "done"
                                   ELSE IF a \in joined THEN "back" ELSE pc[a]]
        /\ op' = [a \in Actors |-> IF a \in failed THEN "cool" ELSE op[a]]
        /\ on' = [a \in Actors |-> IF a \in failed THEN NoId ELSE on[a]]

-----------------------------------------------------------------------------
(* Arrivals *)

(* A native verb goes straight to the queue. *)
Ask(a, o) ==
  /\ a \in Clients /\ pc[a] \in Idle
  /\ o \in Ops \cap {"acquire", "use", "rebuild", "destroy"}
  /\ pc' = [pc EXCEPT ![a] = "queued"]
  /\ op' = [op EXCEPT ![a] = o]
  /\ on' = [on EXCEPT ![a] = NoId]
  /\ UNCHANGED <<rows, body, object, slot, restore, minted, condemned, world>>

(* An E2B verb or traffic first looks at the row outside the slot: connect,
   create and envd take the archive detour, kill takes it for a restoring
   row only, the proxy never. *)
AskE2b(a, o, i) ==
  /\ a \in Clients /\ pc[a] \in Idle
  /\ o \in Ops \cap {"create", "connect", "pause", "drop", "kill", "envd", "proxy"}
  /\ IF o = "create" THEN (i \in Named) \/ (Named = {} /\ i = NoId) ELSE i \in Named
  /\ o \in {"pause", "drop", "envd", "proxy"} => ~paused[i]
  /\ LET detour == i \in Named /\ (\/ o \in {"create", "connect", "envd"} /\ row[i] \in ColdStorage
                                   \/ o = "kill" /\ row[i] = "restoring")
     IN IF detour /\ o # "kill" /\ ~store THEN Rest(a, "done")
        ELSE /\ pc' = [pc EXCEPT ![a] = IF detour THEN "seek" ELSE "queued"]
             /\ op' = [op EXCEPT ![a] = o]
             /\ on' = [on EXCEPT ![a] = i]
  /\ UNCHANGED <<rows, body, object, slot, restore, minted, condemned, world>>

(* restoreJoin's moment in the slot: find or begin the task.  A begin that
   throws for want of a store fails the join. *)
Seek(a) ==
  LET i == on[a] IN
  /\ pc[a] = "seek" /\ slot = Free
  /\ \/ row[i] = "archived" /\ BeginRestore(i)
        /\ IF restore'[i] # "off" THEN Goto(a, "join") 
           ELSE IF op[a] = "kill" THEN Goto(a, "queued") ELSE Rest(a, "done")
     \/ row[i] # "archived" /\ UNCHANGED <<row, restore>>
        /\ Goto(a, IF row[i] = "restoring" /\ restore[i] # "off" THEN "join" ELSE "queued")
  /\ UNCHANGED <<paused, body, object, slot, minted, condemned, world>>

(* Whoever joined a restore lines up for the slot with its own verb. *)
Rejoin(a) ==
  /\ pc[a] = "back"
  /\ Goto(a, "queued")
  /\ UNCHANGED <<rows, body, object, slot, restore, minted, condemned, world>>

(* The slot is free: the first synchronous stretch of a queued verb. *)
Turn(a, o) == pc[a] = "queued" /\ op[a] = o /\ slot = Free

(* findOrCreate *)
TakeAcquire(a) ==
  /\ Turn(a, "acquire")
  /\ \/ Named = {} /\ Birth(a) /\ UNCHANGED <<row, restore>>
     \/ \E i \in Named :
          /\ UNCHANGED minted
          /\ CASE row[i] = "archived" /\ store -> BeginRestore(i) /\ Refuse(a, "done")
               [] row[i] \in ColdStorage /\ ~(row[i] = "archived" /\ store) ->
                    Refuse(a, "done") /\ UNCHANGED <<row, restore>>
               [] OTHER -> Wake(a, i) /\ UNCHANGED <<row, restore>>
  /\ UNCHANGED <<paused, body, object, condemned, world>>

(* wakeForUse: 404 without a row, 409 in cold storage *)
TakeUse(a) ==
  /\ Turn(a, "use")
  /\ \/ (\A i \in Named : row[i] \in ColdStorage) /\ Refuse(a, "done")
     \/ \E i \in Named : row[i] \notin ColdStorage /\ Wake(a, i)
  /\ UNCHANGED <<rows, body, object, restore, minted, condemned, world>>

TakeRebuild(a) ==
  /\ Turn(a, "rebuild")
  /\ \/ (\A i \in Named : row[i] \in ColdStorage) /\ Refuse(a, "done")
     \/ \E i \in Named : row[i] \notin ColdStorage /\ Enter(a, i, "rebuild")
  /\ UNCHANGED <<rows, body, object, restore, minted, condemned, world>>

(* Mutant: no 409 while restoring. *)
TakeDestroyUnchecked(a) ==
  /\ Turn(a, "destroy")
  /\ \/ Named = {} /\ Refuse(a, "done") /\ UNCHANGED condemned
     \/ \E i \in Named : Destroy(a, i)
  /\ UNCHANGED <<rows, body, object, restore, minted, world>>

(* destroySandbox (native): 409 while restoring *)
TakeDestroy(a) ==
  /\ Turn(a, "destroy")
  /\ \/ (\A i \in Named : row[i] = "restoring") /\ Refuse(a, "done") /\ UNCHANGED condemned
     \/ \E i \in Named : row[i] # "restoring" /\ Destroy(a, i)
  /\ UNCHANGED <<rows, body, object, restore, minted, world>>

(* E2B kill: the row is not looked at again, only its being there. *)
TakeKill(a) ==
  /\ Turn(a, "kill")
  /\ IF on[a] \in Named THEN Destroy(a, on[a]) ELSE Refuse(a, "done") /\ UNCHANGED condemned
  /\ UNCHANGED <<rows, body, object, restore, minted, world>>

(* E2B connect: gone, past its deadline, or woken. *)
TakeConnect(a) ==
  /\ Turn(a, "connect")
  /\ \/ on[a] \in Named /\ Wake(a, on[a])
     \/ Refuse(a, "done")
  /\ UNCHANGED <<rows, body, object, restore, minted, condemned, world>>

(* Traffic - envd's wakes and the proxy's: what no longer counts as running
   is refused, the rest woken, whatever became of its row meanwhile. *)
TakeTraffic(a) ==
  /\ pc[a] = "queued" /\ op[a] \in {"envd", "proxy"} /\ slot = Free
  /\ \/ on[a] \in Named /\ ~paused[on[a]] /\ Wake(a, on[a])
     \/ Refuse(a, "done")
  /\ UNCHANGED <<rows, body, object, restore, minted, condemned, world>>

(* E2B create by name: the sandbox is woken, or - past its kill deadline -
   destroyed and born anew. *)
TakeCreate(a) ==
  /\ Turn(a, "create")
  /\ \/ Named = {} /\ Birth(a) /\ UNCHANGED condemned
     \/ \E i \in Named : Wake(a, i) /\ UNCHANGED <<minted, condemned>>
     \/ \E i \in Named : Destroy(a, i) /\ UNCHANGED minted
  /\ UNCHANGED <<rows, body, object, restore, world>>

(* E2B pause: freeze what is active; memory:false goes on to a stop. *)
TakePause(a) ==
  LET i == on[a] IN
  /\ pc[a] = "queued" /\ op[a] \in {"pause", "drop"} /\ slot = Free
  /\ \/ i \notin Named /\ Refuse(a, "done") /\ UNCHANGED paused
     \/ i \in Named /\ row[i] = "active" /\ Enter(a, i, "freeze") /\ UNCHANGED paused
     \/ i \in Named /\ op[a] = "drop" /\ row[i] = "frozen" /\ Enter(a, i, "stop") /\ UNCHANGED paused
     \/ /\ i \in Named /\ row[i] # "active" /\ ~(op[a] = "drop" /\ row[i] = "frozen")
        /\ paused' = [paused EXCEPT ![i] = TRUE]
        /\ Refuse(a, "done")
  /\ UNCHANGED <<row, body, object, restore, minted, condemned, world>>

-----------------------------------------------------------------------------
(* tryRun: nobody holds the slot or waits for it. *)
Quiet ==
  /\ slot = Free
  /\ \A a \in Clients : pc[a] \notin Lined
  /\ \A j \in Ids : restore[j] \notin {"finish", "revert"}

(* The idle scanner takes a quiet slot and re-reads the row in it.  Which
   threshold or deadline has passed is the clock's business; here any may. *)
Sweep(i) == pc[Scanner] \in Idle /\ Quiet /\ i \in Named

ScanFreeze(i) ==
  /\ Sweep(i) /\ row[i] = "active" /\ Enter(Scanner, i, "freeze")
  /\ UNCHANGED <<rows, body, object, restore, minted, condemned, world>>

ScanStop(i) ==
  /\ Sweep(i) /\ row[i] = "frozen" /\ Enter(Scanner, i, "stop")
  /\ UNCHANGED <<rows, body, object, restore, minted, condemned, world>>

(* A kill deadline; a restoring row has none due. *)
ScanExpire(i) ==
  /\ Sweep(i) /\ row[i] # "restoring" /\ Destroy(Scanner, i)
  /\ UNCHANGED <<rows, body, object, restore, minted, world>>

ScanArchive(i) ==
  /\ Sweep(i) /\ row[i] = "stopped" /\ store /\ Enter(Scanner, i, "export")
  /\ UNCHANGED <<rows, body, object, restore, minted, condemned, world>>

-----------------------------------------------------------------------------
(* The steps in the slot *)

(* executor.create: the disk first, then the container around it. *)
Provisioning(a) == pc[a] = "provision" /\ Verb(a, E!Provision(shell[on[a]], disk[on[a]]), "launch")

Launching(a) == pc[a] = "launch" /\ Verb(a, E!Launch(shell[on[a]], disk[on[a]]), "record")

(* createSandbox: the row is inserted when the shell is up. *)
Created(a) ==
  /\ pc[a] = "record"
  /\ L!Insert(on[a])
  /\ paused' = [paused EXCEPT ![on[a]] = FALSE]
  /\ Answer(a, "ready")
  /\ UNCHANGED <<body, object, restore, minted, condemned, world>>

(* Mutant: the ledger's word is taken for the container's. *)
ProbeLedgerOnly(a) ==
  /\ pc[a] = "probe"
  /\ Answer(a, "ready")
  /\ UNCHANGED <<rows, body, object, restore, minted, condemned, world>>

(* wakeSandbox on an active row: exitOf is null for any shell that is not
   stopped, one that is gone included; the inspect itself may fail. *)
Probe(a) ==
  /\ pc[a] = "probe"
  /\ \/ shell[on[a]] # "stopped" /\ Answer(a, "ready")
     \/ shell[on[a]] = "stopped" /\ Goto(a, "dead") /\ UNCHANGED slot
     \/ Answer(a, "done")
  /\ UNCHANGED <<rows, body, object, restore, minted, condemned, world>>

(* recordShellDeath, then the cold wake of the stopped row *)
RecordDeath(a) ==
  /\ pc[a] = "dead"
  /\ row' = [row EXCEPT ![on[a]] = "stopped"]
  /\ Goto(a, "cold")
  /\ UNCHANGED <<paused, body, object, slot, restore, minted, condemned, world>>

(* wakeSandbox on a cold row: a shell born of another image or spec is
   swapped first; a frozen one is thawed, a stopped one started. *)
WakeCold(a) ==
  LET i == on[a] IN
  /\ pc[a] = "cold"
  /\ \/ shell[i] # "none" /\ Verb(a, E!RemoveContainer(shell[i], disk[i]), "swapped")
     \/ row[i] = "frozen" /\ Verb(a, E!Unfreeze(shell[i], disk[i]), "awaken")
     \/ row[i] = "stopped" /\ Verb(a, E!Start(shell[i], disk[i]), "awaken")

(* rebuildSandbox's ledger half *)
Shelled(a, after) ==
  \/ row[on[a]] = "stopped" /\ after
     /\ UNCHANGED <<rows, body, object, restore, minted, condemned, world>>
  \/ row[on[a]] # "stopped" /\ Record(a, "stopped", after) /\ UNCHANGED paused

Swapped(a) == pc[a] = "swapped" /\ Shelled(a, Goto(a, "boot") /\ UNCHANGED slot)

Boot(a) == pc[a] = "boot" /\ Verb(a, E!Start(shell[on[a]], disk[on[a]]), "awaken")

Awaken(a) ==
  /\ pc[a] = "awaken"
  /\ paused' = [paused EXCEPT ![on[a]] = FALSE]
  /\ Record(a, "active", Answer(a, "ready"))

Rebuilding(a) == pc[a] = "rebuild" /\ Verb(a, E!RemoveContainer(shell[on[a]], disk[on[a]]), "rebuilt")

Rebuilt(a) == pc[a] = "rebuilt" /\ Shelled(a, Answer(a, "done"))

Freezing(a) == pc[a] = "freeze" /\ Verb(a, E!Freeze(shell[on[a]], disk[on[a]]), "frozen")

(* A scanner's freeze ends here; an E2B pause leaves its mark, a pause
   without memory stops what it froze. *)
Frozen(a) ==
  /\ pc[a] = "frozen"
  /\ Record(a, "frozen", IF op[a] = "drop" THEN Goto(a, "stop") /\ UNCHANGED slot
                         ELSE Answer(a, "done"))
  /\ paused' = IF op[a] = "pause" THEN [paused EXCEPT ![on[a]] = TRUE] ELSE paused

Stopping(a) == pc[a] = "stop" /\ Verb(a, E!Stop(shell[on[a]], disk[on[a]]), "stopped")

Stopped(a) ==
  /\ pc[a] = "stopped"
  /\ Record(a, "stopped", Answer(a, "done"))
  /\ paused' = IF op[a] = "drop" THEN [paused EXCEPT ![on[a]] = TRUE] ELSE paused

Demolishing(a) == pc[a] = "demolish" /\ Verb(a, E!Destroy(shell[on[a]], disk[on[a]]), "forget")

(* store.delete; a failed one may have landed. *)
Erasing(a) ==
  /\ pc[a] = "erase"
  /\ \/ object' = [object EXCEPT ![on[a]] = "none"] /\ Goto(a, "forget") /\ UNCHANGED slot
     \/ Answer(a, "done") /\ UNCHANGED object
     \/ Misfires /\ Answer(a, "done") /\ object' = [object EXCEPT ![on[a]] = "none"]
  /\ UNCHANGED <<rows, body, restore, minted, condemned, world>>

(* deleteSandbox; an E2B create goes on to the birth. *)
Forget(a) ==
  /\ pc[a] = "forget"
  /\ row' = [row EXCEPT ![on[a]] = "absent"]
  /\ paused' = [paused EXCEPT ![on[a]] = FALSE]
  /\ IF op[a] = "create"
     THEN \/ \E i \in Ids \ minted :
               minted' = minted \cup {i} /\ Enter(a, i, "provision")
          \/ minted = Ids /\ Answer(a, "done") /\ UNCHANGED minted
     ELSE Answer(a, "done") /\ UNCHANGED minted
  /\ UNCHANGED <<body, object, restore, condemned, world>>

(* Archiver.archive: export, put, transition, then the local copy is freed. *)
Exporting(a) == pc[a] = "export" /\ Verb(a, E!ExportDisk(shell[on[a]], disk[on[a]]), "upload")

(* Mutant: a failed upload is recorded all the same. *)
UploadingUnchecked(a) ==
  /\ pc[a] = "upload"
  /\ SlowDelete \/ restore[on[a]] # "delete"
  /\ \/ object' = [object EXCEPT ![on[a]] = "current"]
     \/ UNCHANGED object
  /\ Goto(a, "confirm")
  /\ UNCHANGED <<rows, body, slot, restore, minted, condemned, world>>

Uploading(a) ==
  /\ pc[a] = "upload"
  /\ SlowDelete \/ restore[on[a]] # "delete"
  /\ \/ object' = [object EXCEPT ![on[a]] = "current"] /\ Goto(a, "confirm") /\ UNCHANGED slot
     \/ Answer(a, "done") /\ UNCHANGED object
  /\ UNCHANGED <<rows, body, restore, minted, condemned, world>>

Confirm(a) ==
  /\ pc[a] = "confirm"
  /\ Record(a, "archived", Goto(a, "clear") /\ UNCHANGED slot)
  /\ UNCHANGED paused

Clearing(a) ==
  /\ pc[a] = "clear"
  /\ \E r \in E!Destroy(shell[on[a]], disk[on[a]]) :
       /\ shell' = [shell EXCEPT ![on[a]] = r.shell]
       /\ disk' = [disk EXCEPT ![on[a]] = r.disk]
  /\ Answer(a, "done")
  /\ UNCHANGED <<rows, object, restore, minted, condemned, world>>

-----------------------------------------------------------------------------
(* The restore task of id i *)

Advance(i, p) == restore' = [restore EXCEPT ![i] = p]

(* mkdir, outside the task's try: its failure skips the revert. *)
Unmade(i) ==
  /\ MkdirFails /\ restore[i] = "get" /\ EndRestore(i, FALSE)
  /\ UNCHANGED <<rows, body, object, slot, minted, condemned, world>>

Fetch(i) ==
  /\ restore[i] = "get"
  /\ \/ object[i] # "none" /\ Advance(i, "import")
     \/ Advance(i, "undo")
  /\ UNCHANGED <<rows, body, object, slot, tasks, minted, condemned, world>>

(* A verb of the restore task; a failure goes to the catch block, out of the slot. *)
RestoreVerb(i, outcomes, next) ==
  \E r \in outcomes :
    /\ shell' = [shell EXCEPT ![i] = r.shell]
    /\ disk' = [disk EXCEPT ![i] = r.disk]
    /\ Advance(i, IF r.ok THEN next ELSE "undo")
    /\ slot' = IF slot = i /\ (~r.ok \/ next = "undo") THEN Free ELSE slot
    /\ UNCHANGED <<rows, object, tasks, minted, condemned, world>>

(* Mutant: a failed import is finished all the same. *)
ImportUnchecked(i) ==
  /\ restore[i] = "import"
  /\ \E r \in E!ImportDisk(shell[i], disk[i]) : disk' = [disk EXCEPT ![i] = r.disk]
  /\ Advance(i, "finish")
  /\ UNCHANGED <<rows, shell, object, slot, tasks, minted, condemned, world>>

Import(i) == restore[i] = "import" /\ RestoreVerb(i, E!ImportDisk(shell[i], disk[i]), "finish")

(* The finish takes the slot and looks again. *)
TakeFinish(i) ==
  /\ restore[i] = "finish" /\ slot = Free
  /\ slot' = i
  /\ Advance(i, IF row[i] = "restoring" THEN "start" ELSE "usurped")
  /\ UNCHANGED <<rows, body, object, tasks, minted, condemned, world>>

Usurped(i) == restore[i] = "usurped" /\ RestoreVerb(i, E!RemoveDisk(shell[i], disk[i]), "undo")

StartRestored(i) == restore[i] = "start" /\ RestoreVerb(i, E!Start(shell[i], disk[i]), "commit")

Restored(i) ==
  /\ restore[i] = "commit"
  /\ paused' = [paused EXCEPT ![i] = FALSE]
  /\ L!Move(i, "active")
  /\ object' = [object EXCEPT ![i] = IF @ = "none" THEN "none" ELSE "stale"]
  /\ slot' = Free
  /\ Advance(i, "delete")
  /\ UNCHANGED <<body, tasks, minted, condemned, world>>

(* Mutant: the delete inside the task's try - a failure runs the catch block. *)
DeleteObjectCaught(i) ==
  /\ restore[i] = "delete"
  /\ \/ object' = [object EXCEPT ![i] = "none"] /\ EndRestore(i, TRUE)
     \/ UNCHANGED object /\ Advance(i, "undo") /\ UNCHANGED tasks
  /\ UNCHANGED <<rows, body, slot, minted, condemned, world>>

(* The object's job is done; best effort. *)
DeleteObject(i) ==
  /\ restore[i] = "delete"
  /\ object' = [object EXCEPT ![i] = "none"] \/ UNCHANGED object
  /\ EndRestore(i, TRUE)
  /\ UNCHANGED <<rows, body, slot, minted, condemned, world>>

(* Mutant: a clean-up that fails ends the task before the revert. *)
UndoQuits(i) ==
  /\ restore[i] = "undo"
  /\ disk' = [disk EXCEPT ![i] = "none"]
  /\ EndRestore(i, FALSE)
  /\ UNCHANGED <<rows, shell, object, slot, minted, condemned, world>>

(* The catch block: the half-built disk goes, outside the slot... *)
Undo(i) ==
  /\ restore[i] = "undo"
  /\ \E r \in E!RemoveDisk(shell[i], disk[i]) : disk' = [disk EXCEPT ![i] = r.disk]
  /\ Advance(i, "revert")
  /\ UNCHANGED <<rows, shell, object, slot, tasks, minted, condemned, world>>

(* Mutant: the row is not looked at again. *)
RevertUnchecked(i) ==
  /\ restore[i] = "revert" /\ slot = Free
  /\ row' = [row EXCEPT ![i] = "archived"]
  /\ EndRestore(i, FALSE)
  /\ UNCHANGED <<paused, body, object, slot, minted, condemned, world>>

(* ... and in the slot a row still restoring reverts to archived. *)
Revert(i) ==
  /\ restore[i] = "revert" /\ slot = Free
  /\ IF row[i] = "restoring" THEN L!Move(i, "archived") ELSE UNCHANGED row
  /\ EndRestore(i, FALSE)
  /\ UNCHANGED <<paused, body, object, slot, minted, condemned, world>>

-----------------------------------------------------------------------------
(* The environment *)

(* A box exits whole - OOM, pids cap, the host. *)
Die(i) ==
  /\ drift < MaxDrift /\ shell[i] \in {"running", "paused"}
  /\ shell' = [shell EXCEPT ![i] = "stopped"]
  /\ drift' = drift + 1
  /\ UNCHANGED <<rows, disk, object, store, slot, tasks, restore, minted, condemned, crashes>>

(* An operator's container prune or rm *)
Prune(i) ==
  /\ drift < MaxDrift /\ shell[i] # "none"
  /\ shell' = [shell EXCEPT ![i] = "none"]
  /\ drift' = drift + 1
  /\ UNCHANGED <<rows, disk, object, store, slot, tasks, restore, minted, condemned, crashes>>

(* A Docker call its verb gave up on lands after the verb has let go of the
   slot: a pause, an unpause, a start (a kill is a Die, a removal a Prune).
   Which calls were given up on is not kept, so any may land. *)
LandLate(i) ==
  /\ Misfires /\ drift < MaxDrift /\ shell[i] # "none"
  /\ shell' = [shell EXCEPT ![i] = IF @ = "running" THEN "paused" ELSE "running"]
  /\ drift' = drift + 1
  /\ UNCHANGED <<rows, disk, object, store, slot, tasks, restore, minted, condemned, crashes>>

(* A configuration copy switches the archive store off or on.  The gateway
   refuses to clear a store while its census counts an archived or restoring
   sandbox (gateway/src/routes/settings.ts); the census is taken as exact, so
   an archive in flight is what can still end up without a store. *)
SwitchStore ==
  /\ drift < MaxDrift
  /\ store => \A i \in Named : row[i] \notin ColdStorage
  /\ store' = ~store
  /\ drift' = drift + 1
  /\ UNCHANGED <<rows, body, object, slot, tasks, restore, minted, condemned, crashes>>

(* The daemon dies between two steps: everything in memory is gone. *)
Crash ==
  /\ crashes < MaxCrashes
  /\ crashes' = crashes + 1
  /\ slot' = Free
  /\ pc' = [a \in Actors |-> "idle"] /\ op' = [a \in Actors |-> "cool"] /\ on' = [a \in Actors |-> NoId]
  /\ restore' = [i \in Ids |-> "off"]
  /\ UNCHANGED <<rows, body, object, store, minted, condemned, drift>>

-----------------------------------------------------------------------------
Arrive(a) ==
  \/ \E o \in Ops : Ask(a, o)
  \/ \E o \in Ops, i \in Ids \cup {NoId} : AskE2b(a, o, i)

TakeTurn(a) ==
  \/ Seek(a) \/ TakeAcquire(a) \/ TakeUse(a) \/ TakeRebuild(a) \/ TakeDestroy(a)
  \/ TakeKill(a) \/ TakeConnect(a) \/ TakeTraffic(a) \/ TakeCreate(a) \/ TakePause(a)

Work(a) ==
  \/ Rejoin(a) \/ Provisioning(a) \/ Launching(a) \/ Created(a) \/ Probe(a) \/ RecordDeath(a) \/ WakeCold(a) \/ Swapped(a)
  \/ Boot(a) \/ Awaken(a) \/ Rebuilding(a) \/ Rebuilt(a) \/ Freezing(a) \/ Frozen(a)
  \/ Stopping(a) \/ Stopped(a) \/ Demolishing(a) \/ Erasing(a) \/ Forget(a)
  \/ Exporting(a) \/ Uploading(a) \/ Confirm(a) \/ Clearing(a)

Scan(i) == ScanFreeze(i) \/ ScanStop(i) \/ ScanExpire(i) \/ ScanArchive(i)

RestoreStep(i) ==
  \/ Unmade(i) \/ Fetch(i) \/ Import(i) \/ TakeFinish(i) \/ Usurped(i) \/ StartRestored(i)
  \/ Restored(i) \/ DeleteObject(i) \/ Undo(i) \/ Revert(i)

Environment == SwitchStore \/ \E i \in Ids : Die(i) \/ Prune(i) \/ LandLate(i)

Traffic ==
  \/ \E a \in Actors : Arrive(a) \/ TakeTurn(a) \/ Work(a)
  \/ \E i \in Ids : Scan(i) \/ RestoreStep(i)

Next == Traffic \/ Environment \/ Crash

Spec == Init /\ [][Next]_vars

(* Every await ends: executor calls have deadlines, transfers end or fail,
   and the queue serves its line in order (ChainedRuns in KeyedQueue), so a
   task that keeps finding the slot free in its turn takes it. *)
Fairness ==
  /\ \A a \in Actors : WF_vars(Work(a)) /\ SF_vars(TakeTurn(a))
  /\ \A i \in Ids : SF_vars(RestoreStep(i))

FairSpec == Spec /\ Fairness

-----------------------------------------------------------------------------
(* Properties *)

(* Who is in the slot.  The actor or restore task whose steps are in the
   slot is its holder, and the holder is at such a step. *)
SlotHeld ==
  /\ \A a \in Actors : pc[a] \in Working <=> slot = a
  /\ \A i \in Ids : restore[i] \in Finishing <=> slot = i

(* "What lives in /home/user survives everything short of destroying the
   sandbox" (persistence.mdx): a row nobody ordered destroyed has its data in
   its disk while it is hot, and its latest data in its archive object while
   it is archived or restoring - through failing verbs, failing transfers,
   crashes between any two steps and any interleaving of the verbs. *)
DataKept(i) ==
  row[i] # "absent" /\ i \notin condemned =>
    IF row[i] \in ColdStorage THEN object[i] = "current" ELSE disk[i] = "full"
BodyKept == \A i \in Ids : DataKept(i)

(* No ledger write comes too late: when a verb has moved reality and resumes
   to record it, the row still allows the move - transition() never throws
   after the fact, and no birth finds the name taken. *)
CommitsLegal ==
  /\ \A a \in Actors :
       /\ pc[a] \in {"freeze", "frozen"} => row[on[a]] = "active"
       /\ pc[a] \in {"stop", "stopped"} => row[on[a]] = "frozen"
       /\ pc[a] \in {"cold", "boot", "awaken"} => row[on[a]] \in {"frozen", "stopped"}
       /\ pc[a] \in {"swapped", "rebuild", "rebuilt"} => row[on[a]] \in {"active", "frozen", "stopped"}
       /\ pc[a] \in {"probe", "dead"} => row[on[a]] = "active"
       /\ pc[a] \in {"export", "upload", "confirm"} => row[on[a]] = "stopped"
       /\ pc[a] = "clear" => row[on[a]] = "archived"
       /\ pc[a] \in {"provision", "launch", "record"} => Named = {}
  /\ \A i \in Ids : restore[i] \in {"start", "commit"} => row[i] = "restoring"

(* The detailed verbs keep the ledger's own specification: one row per name,
   moves along ALLOWED_TRANSITIONS, deaths only of active rows. *)
LedgerKept == L!Spec

(* The step of i's own restore task that ends the restore *)
TaskEnds(i) == restore[i] \in {"commit", "revert"} /\ restore'[i] # restore[i]

(* A restoring row changes only by a step of its own restore task, or goes
   with an E2B kill or create that looked at it before it queued and finds it
   restoring in the slot (control.ts): the native verbs, the scanner, wakes
   and other restores leave it alone. *)
RestoringOwned ==
  [][\A i \in Ids : row[i] = "restoring" /\ row'[i] # "restoring" =>
        \/ TaskEnds(i)
        \/ row'[i] = "absent" /\ \E a \in Actors : slot = a /\ on[a] = i /\ op[a] \in {"kill", "create"}]_vars

(* "The restoring state belongs to the restore task alone" (archiver.ts
   327), which an E2B kill or create breaks. *)
RestoringOwnedAlone ==
  [][\A i \in Ids : row[i] = "restoring" /\ row'[i] # "restoring" => TaskEnds(i)]_vars

(* While a row is hot its body is moved by the slot's holder, or by the
   environment: a restore task's clean-up outside the slot never reaches a
   sandbox that is back. *)
HolderMoved ==
  \A i \in Ids :
    row[i] \in {"active", "frozen", "stopped"} /\ (shell'[i] # shell[i] \/ disk'[i] # disk[i])
    => drift' # drift \/ slot = i \/ \E a \in Actors : slot = a /\ on[a] = i
OnlyHolderMoves == [][HolderMoved]_vars

(* "An awake sandbox is by definition not paused" (lifecycle.ts). *)
AwakeNotPaused == \A i \in Ids : row[i] = "active" => ~paused[i]

(* An answer of "ready" is a statement about the container: after a birth or
   a cold wake it is running, and after the look at an active row it is not
   gone and not stopped - a freeze that failed after its pause leaves it
   paused, which the look does not tell - unless its destruction was ordered. *)
ReadyTrue ==
  \A a \in Actors : pc[a] # "ready" /\ pc'[a] = "ready" /\ on[a] \notin condemned =>
     /\ row'[on[a]] = "active"
     /\ shell[on[a]] \in IF pc[a] = "probe" THEN {"running", "paused"} ELSE {"running"}
ReadyRuns == [][ReadyTrue]_vars

(* wakeSandbox on an archived or restoring row is a caller bug: "every
   legitimate path branches to the archiver before landing here". *)
NoCallerBug == \A a \in Actors : pc[a] # "bug"

(* Every request is answered, whatever else is queued and whatever fails. *)
Answered == \A a \in Clients : pc[a] \notin Idle ~> pc[a] \in Idle

(* A restore comes to an end: the sandbox is back, archived again, or gone. *)
RestoreEnds == \A i \in Ids : row[i] = "restoring" ~> row[i] # "restoring"
=============================================================================
