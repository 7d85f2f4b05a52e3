----------------------------- MODULE NodeProofs -----------------------------
(***************************************************************************)
(* Proofs about Node: the reconciler's passes, its boot and the verbs of   *)
(* the daemon keep one inductive invariant together, for any ids, handlers *)
(* and failures, any number of crashes and moves of the environment.  The  *)
(* shapes the constants ~SlowDelete, ~SlowBirth, ~LongPass and ~Leftovers  *)
(* leave out are assumed away; a run shows what happens in each of them.   *)
(***************************************************************************)
EXTENDS NodeInv, LifecycleProofs

USE NamesAssumption
    DEF Actors, Idle, Waiting, Working, Tracked, Finishing, ColdStorage,
        Named, L!Rows, rows, body, tasks, world, looks

-----------------------------------------------------------------------------
(* What the daemon's traffic never does to a pass under way *)

(* Drawn ids stay drawn and orders stay given; nobody takes the slot for the
   keeper, or from it, or moves a row while it holds it; a birth works on an
   id drawn for it; a row appears by its birth and leaves by an order. *)
Framed ==
  /\ minted \subseteq minted' /\ condemned \subseteq condemned'
  /\ slot # Keeper => slot' # Keeper
  /\ slot = Keeper => /\ UNCHANGED <<row, slot>>
                      /\ \A i \in Ids : restore[i] = "off" => restore'[i] = "off" /\ shell'[i] = shell[i]
  /\ \A a \in Actors : Born(a)' => \/ Born(a) /\ on'[a] = on[a]
                                   \/ on'[a] \in Ids \ minted
  /\ \A i \in Ids : /\ row[i] = "absent" /\ row'[i] # "absent" => \E a \in Actors : Born(a) /\ on[a] = i
                    /\ row[i] # "absent" /\ row'[i] = "absent" => i \in condemned

LEMMA ArriveFramed == ASSUME IInv, NEW a \in Actors, Arrive(a) PROVE Framed
  BY DEF Arrive, Ask, AskE2b, Rest, Framed, Born, IInv, TypeOK

LEMMA TurnFramed == ASSUME IInv, NEW a \in Actors, TakeTurn(a) PROVE Framed
  <1> USE DEF Framed, Born, IInv, TypeOK, OnKnown, Turn, Enter, Refuse, Rest, Goto, Wake, Destroy, L!Move
  <1>1. CASE Seek(a) BY <1>1 DEF Seek, BeginRestore
  <1>2. CASE TakeAcquire(a)
    <2>1. CASE Named = {} /\ Birth(a) /\ UNCHANGED <<row, restore>>
      BY <1>2, <2>1 DEF TakeAcquire, Birth
    <2>2. CASE \E i \in Named : Wake(a, i) /\ UNCHANGED <<row, restore, minted>>
      BY <1>2, <2>2 DEF TakeAcquire
    <2>3. CASE \E i \in Named : BeginRestore(i) /\ Refuse(a, "done") /\ UNCHANGED minted
      BY <1>2, <2>3 DEF TakeAcquire, BeginRestore
    <2>4. CASE Refuse(a, "done") /\ UNCHANGED <<row, restore, minted>>
      BY <1>2, <2>4 DEF TakeAcquire
    <2> QED BY <1>2, <2>1, <2>2, <2>3, <2>4, Zenon DEF TakeAcquire
  <1>3. CASE TakeUse(a) BY <1>3 DEF TakeUse
  <1>4. CASE TakeRebuild(a) BY <1>4 DEF TakeRebuild
  <1>5. CASE TakeDestroy(a) BY <1>5 DEF TakeDestroy
  <1>6. CASE TakeKill(a) BY <1>6 DEF TakeKill
  <1>7. CASE TakeConnect(a) \/ TakeTraffic(a) BY <1>7 DEF TakeConnect, TakeTraffic
  <1>8. CASE TakeCreate(a) BY <1>8 DEF TakeCreate, Birth
  <1>9. CASE TakePause(a) BY <1>9 DEF TakePause
  <1> QED BY <1>1, <1>2, <1>3, <1>4, <1>5, <1>6, <1>7, <1>8, <1>9 DEF TakeTurn

LEMMA WorkFramed == ASSUME IInv, NEW a \in Actors, Work(a) PROVE Framed
  <1> USE DEF Framed, Born, IInv, TypeOK, SlotHeld, OnKnown, Goto, Answer, Rest
  <1>1. CASE \/ Provisioning(a) \/ Launching(a) \/ WakeCold(a) \/ Boot(a) \/ Rebuilding(a)
             \/ Freezing(a) \/ Stopping(a) \/ Demolishing(a) \/ Exporting(a)
    <2>1. pc[a] \in Working
      BY <1>1 DEF Provisioning, Launching, WakeCold, Boot, Rebuilding, Freezing, Stopping,
                  Demolishing, Exporting
    <2>2. slot = a /\ slot # Keeper BY <2>1
    <2>3. (slot' = slot \/ slot' = Free) /\ UNCHANGED <<row, minted, condemned>>
      BY <1>1 DEF Provisioning, Launching, WakeCold, Boot, Rebuilding, Freezing, Stopping,
                  Demolishing, Exporting, Verb
    <2>4. ASSUME NEW b \in Actors, Born(b)' PROVE Born(b) /\ on'[b] = on[b]
      <3>1. CASE Provisioning(a) \/ Launching(a) BY <2>4, <3>1 DEF Provisioning, Launching, Verb
      <3>2. CASE ~(Provisioning(a) \/ Launching(a))
        <4>1. ASSUME NEW outcomes, NEW p \in Working \ {"provision", "launch", "record"}, Verb(a, outcomes, p)
              PROVE  Born(b) /\ on'[b] = on[b]
          <5>1. \/ pc' = [pc EXCEPT ![a] = p] /\ on' = on
                \/ pc' = [pc EXCEPT ![a] = "done"] /\ on' = [on EXCEPT ![a] = NoId]
            BY <4>1 DEF Verb
          <5> QED BY <2>4, <5>1 DEF Born
        <4> QED BY <1>1, <3>2, <4>1 DEF WakeCold, Boot, Rebuilding, Freezing, Stopping, Demolishing, Exporting
      <3> QED BY <3>1, <3>2
    <2> QED BY <2>2, <2>3, <2>4
  <1>2. CASE Rejoin(a) \/ Probe(a) \/ Erasing(a) \/ Uploading(a) \/ Clearing(a)
    BY <1>2 DEF Rejoin, Probe, Erasing, Uploading, Clearing
  <1>3. CASE Created(a) BY <1>3 DEF Created, L!Insert
  <1>4. CASE RecordDeath(a) BY <1>4 DEF RecordDeath, CommitsLegal
  <1>5. CASE Forget(a) BY <1>5 DEF Forget, Enter, Doomed
  <1>6. CASE \/ Swapped(a) \/ Awaken(a) \/ Rebuilt(a) \/ Frozen(a) \/ Stopped(a) \/ Confirm(a)
    BY <1>6 DEF Swapped, Awaken, Rebuilt, Frozen, Stopped, Confirm, Shelled, Record, L!Move, L!Allowed
  <1> QED BY <1>1, <1>2, <1>3, <1>4, <1>5, <1>6 DEF Work

LEMMA ScanFramed == ASSUME IInv, NEW i \in Ids, Scan(i) PROVE Framed
  BY DEF Scan, ScanFreeze, ScanStop, ScanExpire, ScanArchive, Sweep, Quiet, Enter, Refuse, Rest,
         Destroy, Framed, Born, IInv, TypeOK

LEMMA RestoreFramed == ASSUME IInv, NEW i \in Ids, RestoreStep(i) PROVE Framed
  <1> USE DEF Framed, Born, IInv, TypeOK, SlotHeld, RestoreRow, Advance, EndRestore, L!Move, L!Allowed
  <1>1. CASE Unmade(i) \/ Fetch(i) \/ DeleteObject(i) \/ Undo(i)
    BY <1>1 DEF Unmade, Fetch, DeleteObject, Undo
  <1>2. CASE Import(i) \/ Usurped(i) \/ StartRestored(i)
    BY <1>2 DEF Import, Usurped, StartRestored, RestoreVerb
  <1>3. CASE TakeFinish(i) BY <1>3 DEF TakeFinish
  <1>4. CASE Restored(i) BY <1>4 DEF Restored
  <1>5. CASE Revert(i) BY <1>5 DEF Revert
  <1> QED BY <1>1, <1>2, <1>3, <1>4, <1>5 DEF RestoreStep

LEMMA TrafficFramed == ASSUME IInv, Traffic PROVE Framed
  BY ArriveFramed, TurnFramed, WorkFramed, ScanFramed, RestoreFramed DEF Traffic

-----------------------------------------------------------------------------
(* The invariant, step by step *)

LEMMA NodeInitHolds == NodeInit => KInv
  <1> SUFFICES ASSUME NodeInit PROVE KInv
    OBVIOUS
  <1>1. IInv
    BY InitHolds DEF NodeInit
  <1>2. KeeperHolds /\ Alone /\ SeenMinted /\ RowHeld /\ GoneByOrder /\ NoBirthStruck /\ BodyUnowned /\ ZombieWhole
    BY DEF NodeInit, Init, Unread, Unseen, Mending, KeeperHolds, Alone, SeenMinted, RowHeld,
           GoneByOrder, NoBirthStruck, BodyUnowned, ZombieWhole
  <1>3. PassTypeOK
    BY DEF NodeInit, Unread, Unseen, PassTypeOK, Phases, Mending, L!SandboxStates, E!Shells
  <1> QED BY <1>1, <1>2, <1>3 DEF KInv

(* The daemon's traffic leaves a pass under way what it relies on. *)
LEMMA ServeHolds ==
  ASSUME ~SlowDelete, ~LongPass, ~Leftovers, KInv, Serve PROVE KInv'
  <1>1. IInv'
    BY NextHolds DEF KInv, Serve, Next
  <1>2. Framed
    BY TrafficFramed DEF KInv, Serve
  <1>3. UNCHANGED pass /\ ~startup /\ NoReturn /\ NoShellBesideHalf
    BY DEF Serve
  <1> USE <1>2, <1>3 DEF pass, Framed
  <1>4. PassTypeOK' /\ Alone'
    BY DEF KInv, PassTypeOK, Alone
  <1>5. KeeperHolds' /\ SeenMinted'
    BY DEF KInv, KeeperHolds, SeenMinted
  <1>6. RowHeld'
    BY DEF KInv, KeeperHolds, RowHeld
  <1>7. GoneByOrder'
    BY DEF KInv, GoneByOrder, NoReturn, KeeperHolds
  <1>8. NoBirthStruck'
    BY DEF KInv, NoBirthStruck, SeenMinted, Born
  <1>9. BodyUnowned'
    BY DEF KInv, BodyUnowned, SeenMinted, Born, IInv, TypeOK
  <1>10. ZombieWhole'
    BY DEF NoShellBesideHalf, ZombieWhole
  <1> QED BY <1>1, <1>4, <1>5, <1>6, <1>7, <1>8, <1>9, <1>10 DEF KInv

(* Deaths, prunes and settings touch no row and no disk. *)
LEMMA WorldHolds == ASSUME ~SlowDelete, KInv, Environment, UNCHANGED pass PROVE KInv'
  <1>1. IInv'
    BY NextHolds DEF KInv, Next
  <1>2. /\ UNCHANGED <<row, disk, slot, tasks, restore, minted, condemned>>
        /\ \A i \in Ids : shell'[i] # "none" => shell[i] # "none"
    BY DEF Environment, SwitchStore, Die, Prune, LandLate, KInv, IInv, TypeOK
  <1> QED
    BY <1>1, <1>2 DEF pass, KInv, PassTypeOK, KeeperHolds, Alone, SeenMinted, RowHeld, GoneByOrder,
                      NoBirthStruck, BodyUnowned, ZombieWhole, Born

(* A crash takes the pass with it. *)
LEMMA RestartHolds == ASSUME ~SlowDelete, ~Leftovers, KInv, Restart PROVE KInv'
  <1>1. IInv'
    BY NextHolds DEF KInv, Restart, Next
  <1>2. PassTypeOK'
    BY DEF Restart, Boots, ForgetLooks, Unread, Unseen, PassTypeOK, Phases, Mending, L!SandboxStates, E!Shells
  <1>3. KeeperHolds' /\ Alone' /\ SeenMinted'
    BY DEF Restart, Crash, Boots, ForgetLooks, Unread, Unseen, KeeperHolds, Mending, Alone, SeenMinted
  <1>4. RowHeld' /\ GoneByOrder' /\ NoBirthStruck' /\ BodyUnowned' /\ ZombieWhole'
    BY DEF Restart, Boots, RowHeld, Mending, GoneByOrder, NoBirthStruck, BodyUnowned, ForgetLooks,
           NoShellBesideHalf, ZombieWhole
  <1> QED BY <1>1, <1>2, <1>3, <1>4 DEF KInv

(* Reading the picture, and moving on from one loop to the next, touch
   nothing but the pass. *)
LEMMA ReadHolds ==
  ASSUME ~SlowDelete, ~SlowBirth, KInv,
         \/ BeginPass \/ ListContainers \/ ListFails \/ ListDisks \/ BootRefused
         \/ RowsDone \/ OrphansDone \/ EndPass \/ (\E i \in Ids : ConsiderBody(i))
  PROVE  KInv'
  <1>1. UNCHANGED vars
    BY DEF BeginPass, ListContainers, ListFails, ListDisks, BootRefused, RowsDone, OrphansDone,
           EndPass, ConsiderBody
  <1>2. IInv'
    BY <1>1, NextHolds DEF KInv
  <1>3. KeeperHolds' /\ Alone' /\ ZombieWhole'
    <2>1. phase \notin Mending /\ phase' \notin Mending
      BY DEF Mending, BeginPass, ListContainers, ListFails, ListDisks, BootRefused, RowsDone, OrphansDone,
             EndPass, ConsiderBody, Boots
    <2>2. \/ (\A a \in Actors : pc[a] = "idle") /\ (\A i \in Ids : restore[i] = "off")
          \/ ~startup'
      BY DEF KInv, Alone, BeginPass, ListContainers, ListFails, ListDisks, BootRefused, RowsDone, OrphansDone,
             EndPass, ConsiderBody, Boots
    <2> QED BY <1>1, <2>1, <2>2 DEF vars, KInv, KeeperHolds, Alone, ZombieWhole
  <1> USE <1>1, <1>2, <1>3
      DEF vars, PassTypeOK, Phases, Mending, SeenMinted, RowHeld, GoneByOrder, NoBirthStruck,
          BodyUnowned, Born, ForgetLooks, Unread, Unseen, Unowned, L!SandboxStates, E!Shells
  <1>4. CASE BeginPass
    BY <1>4 DEF KInv, BeginPass, IInv, TypeOK, Fresh
  <1>5. CASE ListContainers
    BY <1>5 DEF KInv, ListContainers, IInv, TypeOK, Fresh
  <1>6. CASE ListFails
    BY <1>6 DEF KInv, ListFails
  <1>7. CASE ListDisks
    <2>1. PassTypeOK' /\ SeenMinted'
      BY <1>7 DEF KInv, ListDisks, IInv, TypeOK, Fresh
    <2>2. GoneByOrder'
      BY <1>7 DEF KInv, ListDisks, IInv, BodyKept, DataKept, Hot
    <2> QED
      BY <1>7, <2>1, <2>2 DEF KInv, ListDisks
  <1>8. CASE BootRefused
    BY <1>8 DEF KInv, BootRefused, Boots
  <1>9. CASE RowsDone \/ OrphansDone
    BY <1>9 DEF KInv, RowsDone, OrphansDone
  <1>10. CASE EndPass
    BY <1>10 DEF KInv, EndPass
  <1>11. ASSUME NEW i \in Ids, ConsiderBody(i) PROVE KInv'
    <2>1. i \in minted
      BY <1>11 DEF KInv, ConsiderBody
    <2> QED
      BY <1>11, <2>1 DEF KInv, ConsiderBody, Alone
  <1> QED BY <1>4, <1>5, <1>6, <1>7, <1>8, <1>9, <1>10, <1>11

-----------------------------------------------------------------------------
(* Repairs, in the slot of a row *)

(* The keeper takes a quiet slot with the row as the pass read it. *)
LEMMA ConsiderRowHolds == ASSUME KInv, NEW i \in Ids, ConsiderRow(i) PROVE KInv'
  <1> USE DEF ConsiderRow, KInv
  <1>1. IInv'
    BY DEF IInv, TypeOK, SlotHeld, CommitsLegal, BodyKept, DataKept, OneRow, OnKnown, Fresh, Births,
           Doomed, Uploaded, RestoreRow, RestoreDisk, Quiet
  <1>2. PassTypeOK' /\ KeeperHolds' /\ Alone' /\ SeenMinted'
    BY DEF PassTypeOK, Phases, Mending, KeeperHolds, Alone, SeenMinted, Quiet
  <1>3. RowHeld'
    BY DEF RowHeld, Mending, Healthy, PassTypeOK, Hot
  <1>4. GoneByOrder' /\ NoBirthStruck' /\ BodyUnowned' /\ ZombieWhole'
    BY DEF GoneByOrder, NoBirthStruck, BodyUnowned, ZombieWhole, Born, Mending
  <1> QED BY <1>1, <1>2, <1>3, <1>4

(* A repair gives its slot back, leaving bodies alone: what it writes is a
   row it found hot, or restoring without a task over a whole disk. *)
LEMMA WriteHolds ==
  ASSUME KInv, phase \in Mending, Release,
         \/ Keep
         \/ DropRow /\ row[at] \in Hot /\ at \in condemned
         \/ \E to \in Hot : Overwrite(to) /\ (row[at] \in Hot \/ disk[at] = "full") /\ row[at] # "archived",
         UNCHANGED <<body, tasks, restore, minted, condemned, world,
                     startup, looks, todo, strikes, suspects>>
  PROVE  KInv'
  <1> USE DEF KInv, Release
  <1>1. at \in Ids /\ slot = Keeper /\ row[at] # "absent" /\ at \in minted
    BY DEF RowHeld, KeeperHolds, IInv, Fresh
  <1>2. \A a \in Actors : pc[a] \notin Working
    BY <1>1 DEF IInv, SlotHeld
  <1>3. \A i \in Ids : restore[i] \notin Finishing
    BY <1>1 DEF IInv, SlotHeld
  <1>4. row[at] = "restoring" => restore[at] = "off"
    BY DEF RowHeld
  <1>5. TypeOK'
    <2>1. CASE Keep
      BY <1>1, <2>1 DEF IInv, TypeOK, Keep
    <2>2. CASE DropRow
      <3>1. paused' \in [Ids -> BOOLEAN]
        BY <2>2, Zenon DEF IInv, TypeOK, DropRow
      <3> QED BY <1>1, <2>2, <3>1 DEF IInv, TypeOK, DropRow
    <2>3. ASSUME NEW to \in Hot, Overwrite(to) PROVE TypeOK'
      BY <1>1, <2>3 DEF IInv, TypeOK, Overwrite, Hot, L!SandboxStates
    <2> QED BY <2>1, <2>2, <2>3
  <1>8. SlotHeld' /\ CommitsLegal' /\ OnKnown' /\ Births' /\ Doomed' /\ Uploaded'
    BY <1>1, <1>2, <1>3 DEF IInv, TypeOK, SlotHeld, CommitsLegal, OnKnown, Births, Doomed, Uploaded
  <1>6. BodyKept' /\ OneRow' /\ Fresh' /\ RestoreRow' /\ RestoreDisk'
    BY <1>1, <1>2, <1>3, <1>4 DEF IInv, TypeOK, BodyKept, DataKept, OneRow, Fresh, RestoreRow, RestoreDisk,
       Keep, DropRow, Overwrite, Hot
  <1>7. PassTypeOK' /\ KeeperHolds' /\ Alone' /\ SeenMinted' /\ RowHeld'
    BY <1>1 DEF PassTypeOK, Phases, Mending, KeeperHolds, Alone, SeenMinted, RowHeld
  <1>9. GoneByOrder' /\ NoBirthStruck' /\ BodyUnowned' /\ ZombieWhole'
    BY <1>1 DEF IInv, TypeOK, GoneByOrder, NoBirthStruck, BodyUnowned, ZombieWhole, Born, Mending,
       RowHeld, Keep, DropRow, Overwrite, Hot
  <1> QED BY <1>5, <1>6, <1>7, <1>8, <1>9 DEF IInv

(* A look decides: it moves on to a verb that fits the row, or writes. *)
LEMMA JudgeHolds == ASSUME KInv, Judge PROVE KInv'
  <1>1. phase = "inspect" /\ phase \in Mending /\ at \in Ids /\ row[at] = snap[at]
    BY DEF Judge, KInv, RowHeld, Mending
  <1>2. UNCHANGED <<body, tasks, restore, minted, condemned, world, startup, looks, todo, strikes, suspects>>
    BY DEF Judge
  <1>3. shell[at] \in E!Shells
    BY <1>1 DEF KInv, IInv, TypeOK
  <1>4. ASSUME Keep, NEW p \in {"destroy", "freeDisk", "revive", "unshell", "death"}, Proceed(p),
               p \in {"destroy", "freeDisk"} => row[at] = "archived",
               p = "revive" => row[at] = "restoring" /\ shell[at] = "none",
               p \in {"unshell", "death"} => row[at] \in Hot
        PROVE  KInv'
    <2> USE <1>1, <1>2, <1>4 DEF Keep, Proceed, KInv
    <2>1. IInv'
      BY DEF IInv, TypeOK, SlotHeld, CommitsLegal, BodyKept, DataKept, OneRow, OnKnown, Fresh, Births,
             Doomed, Uploaded, RestoreRow, RestoreDisk
    <2>2. PassTypeOK' /\ KeeperHolds' /\ Alone' /\ SeenMinted' /\ RowHeld'
      BY DEF PassTypeOK, Phases, Mending, KeeperHolds, Alone, SeenMinted, RowHeld
    <2>3. GoneByOrder' /\ NoBirthStruck' /\ BodyUnowned' /\ ZombieWhole'
      BY DEF GoneByOrder, NoBirthStruck, BodyUnowned, ZombieWhole, Born, Mending
    <2> QED BY <2>1, <2>2, <2>3
  <1>5. CASE JudgeArchived
    BY <1>1, <1>2, <1>4, <1>5, WriteHolds DEF JudgeArchived
  <1>6. CASE JudgeRestoring
    <2>1. CASE shell[at] # "none"
      <3>1. disk[at] = "full"
        BY <1>1, <1>6, <2>1 DEF JudgeRestoring, KInv, ZombieWhole, RowHeld
      <3>2. Means(shell[at]) \in Hot
        BY DEF Means, Hot
      <3> QED BY <1>1, <1>2, <1>6, <2>1, <3>1, <3>2, WriteHolds DEF JudgeRestoring
    <2>2. CASE shell[at] = "none"
      BY <1>1, <1>4, <1>6, <2>2 DEF JudgeRestoring
    <2> QED BY <2>1, <2>2
  <1>7. CASE JudgeGone
    <2>1. at \notin kept => at \in condemned
      BY <1>1, <1>7 DEF JudgeGone, KInv, GoneByOrder
    <2>2. row[at] \in Hot /\ "stopped" \in Hot
      BY <1>1, <1>7 DEF JudgeGone, Hot
    <2> QED BY <1>1, <1>2, <1>7, <2>1, <2>2, WriteHolds DEF JudgeGone, Hot
  <1>8. CASE JudgeExited
    BY <1>1, <1>2, <1>4, <1>8, WriteHolds DEF JudgeExited
  <1>9. CASE JudgeLive
    <2>1. row[at] \in Hot /\ Means(shell[at]) \in Hot
      BY <1>1, <1>9 DEF JudgeLive, Means, Hot
    <2> QED BY <1>1, <1>2, <1>9, <2>1, WriteHolds DEF JudgeLive, Hot
  <1> QED BY <1>5, <1>6, <1>7, <1>8, <1>9 DEF Judge

(* The exit of a dead shell is recorded, or a repair fails. *)
LEMMA NoteHolds == ASSUME KInv, RepairFails \/ RecordExit PROVE KInv'
  <1>1. phase \in Mending
    BY DEF RepairFails, RecordExit, Mending
  <1>2. CASE RepairFails
    BY <1>1, <1>2, WriteHolds DEF RepairFails, Keep
  <1>3. CASE RecordExit
    <2>1. row[at] \in Hot /\ "stopped" \in Hot
      BY <1>3 DEF RecordExit, KInv, RowHeld, Mending, Hot
    <2> QED BY <1>1, <1>3, <2>1, WriteHolds DEF RecordExit, Hot
  <1> QED BY <1>2, <1>3

(* A verb of a repair: a hot row loses a shell, an archived one whatever is
   left of it, and a restoring one its unfinished disk and its name. *)
LEMMA MendHolds == ASSUME KInv, SweepBody \/ SweepDisk \/ RemoveShell \/ RevertZombie PROVE KInv'
  <1>1. phase \in Mending
    BY DEF SweepBody, SweepDisk, RemoveShell, RevertZombie, Mend, Mending
  <1>2. /\ at \in Ids /\ slot = Keeper /\ row[at] # "absent" /\ at \in minted
        /\ shell[at] \in E!Shells /\ disk[at] \in E!Disks
    BY <1>1 DEF KInv, RowHeld, KeeperHolds, IInv, Fresh, TypeOK
  <1>3. PICK s \in E!Shells, d \in E!Disks :
          /\ shell' = [shell EXCEPT ![at] = s] /\ disk' = [disk EXCEPT ![at] = d]
          /\ \/ Keep /\ (row[at] = "archived" \/ (row[at] \in Hot /\ d = disk[at]) \/ (row[at] = "restoring" /\ s = "none"))
             \/ Overwrite("archived") /\ row[at] = "restoring"
    <2>1. CASE SweepBody
      <3>1. PICK r \in E!Destroy(shell[at], disk[at]) :
              shell' = [shell EXCEPT ![at] = r.shell] /\ disk' = [disk EXCEPT ![at] = r.disk] /\ Keep
        BY <2>1 DEF SweepBody, Mend, Recorded
      <3>2. row[at] = "archived"
        BY <1>1, <2>1 DEF SweepBody, Mend, KInv, RowHeld
      <3> QED BY <1>2, <3>1, <3>2, OutcomesTyped
    <2>2. CASE SweepDisk
      <3>1. PICK r \in E!RemoveDisk(shell[at], disk[at]) :
              shell' = [shell EXCEPT ![at] = r.shell] /\ disk' = [disk EXCEPT ![at] = r.disk] /\ Keep
        BY <2>2 DEF SweepDisk, Mend, Recorded
      <3>2. row[at] = "archived"
        BY <1>1, <2>2 DEF SweepDisk, Mend, KInv, RowHeld
      <3> QED BY <1>2, <3>1, <3>2, OutcomesTyped
    <2>3. CASE RemoveShell
      <3>1. PICK r \in E!RemoveContainer(shell[at], disk[at]) :
              shell' = [shell EXCEPT ![at] = r.shell] /\ disk' = [disk EXCEPT ![at] = r.disk] /\ Keep
        BY <2>3 DEF RemoveShell, Mend, Recorded
      <3>2. row[at] \in Hot
        BY <1>1, <2>3 DEF RemoveShell, Mend, KInv, RowHeld
      <3> QED BY <1>2, <3>1, <3>2, OutcomesTyped, HotVerbsKeepDisk
    <2>4. CASE RevertZombie
      <3>1. PICK r \in E!RemoveDisk(shell[at], disk[at]) :
              /\ shell' = [shell EXCEPT ![at] = r.shell] /\ disk' = [disk EXCEPT ![at] = r.disk]
              /\ Reverted(r.ok)
        BY <2>4 DEF RevertZombie, Mend
      <3>2. row[at] = "restoring" /\ shell[at] = "none"
        BY <1>1, <2>4 DEF RevertZombie, Mend, KInv, RowHeld
      <3>3. r.shell = "none"
        BY <3>2 DEF E!RemoveDisk, E!Done, E!Failed, E!Landed
      <3> QED BY <1>2, <3>1, <3>2, <3>3, OutcomesTyped DEF Reverted
    <2> QED BY <2>1, <2>2, <2>3, <2>4
  <1>4. /\ Release
        /\ UNCHANGED <<tasks, restore, minted, condemned, world, startup, looks, todo, strikes, suspects>>
    BY DEF SweepBody, SweepDisk, RemoveShell, RevertZombie, Mend
  <1>5. (\A a \in Actors : pc[a] \notin Working) /\ (\A i \in Ids : restore[i] \notin Finishing)
    BY <1>2 DEF KInv, IInv, SlotHeld
  <1>6. row[at] = "restoring" => restore[at] = "off"
    BY <1>1 DEF KInv, RowHeld
  <1> USE <1>2, <1>3, <1>4, <1>5, <1>6
  <1>7. TypeOK'
    BY DEF KInv, IInv, TypeOK, Release, Keep, Overwrite, L!SandboxStates
  <1>8. SlotHeld' /\ CommitsLegal' /\ OnKnown' /\ Births' /\ Doomed' /\ Uploaded'
    BY DEF KInv, IInv, TypeOK, SlotHeld, CommitsLegal, OnKnown, Births, Doomed, Uploaded, Release
  <1>9. BodyKept' /\ OneRow' /\ Fresh'
    BY DEF KInv, IInv, TypeOK, BodyKept, DataKept, OneRow, Fresh, Keep, Overwrite, Hot
  <1>10. RestoreRow' /\ RestoreDisk'
    BY DEF KInv, IInv, TypeOK, RestoreRow, RestoreDisk, Keep, Overwrite, Hot
  <1>11. PassTypeOK' /\ KeeperHolds' /\ Alone' /\ SeenMinted' /\ RowHeld'
    BY DEF KInv, Release, PassTypeOK, Phases, Mending, KeeperHolds, Alone, SeenMinted, RowHeld
  <1>12. GoneByOrder'
    BY <1>1 DEF KInv, IInv, TypeOK, GoneByOrder, RowHeld, Release, Keep, Overwrite, Hot, Mending
  <1>13. NoBirthStruck' /\ BodyUnowned'
    BY <1>1 DEF KInv, NoBirthStruck, BodyUnowned, Born, Release, Mending
  <1>14. ZombieWhole'
    BY DEF KInv, IInv, TypeOK, ZombieWhole, Keep, Overwrite, Hot
  <1> QED BY <1>7, <1>8, <1>9, <1>10, <1>11, <1>12, <1>13, <1>14 DEF KInv, IInv

(* A body destroyed outside any slot belongs to no row and to no birth. *)
LEMMA WipeHolds == ASSUME KInv, Slay \/ Purge PROVE KInv'
  <1>1. /\ at \in Ids /\ at \in minted /\ row[at] = "absent"
        /\ \A a \in Actors : Born(a) => on[a] # at
        /\ shell[at] \in E!Shells /\ disk[at] \in E!Disks
    BY DEF Slay, Purge, Remove, KInv, BodyUnowned, IInv, TypeOK
  <1>2. PICK s \in E!Shells, d \in E!Disks :
          shell' = [shell EXCEPT ![at] = s] /\ disk' = [disk EXCEPT ![at] = d]
    <2>1. PICK r \in E!Destroy(shell[at], disk[at]) \cup E!RemoveDisk(shell[at], disk[at]) :
            shell' = [shell EXCEPT ![at] = r.shell] /\ disk' = [disk EXCEPT ![at] = r.disk]
      BY DEF Slay, Purge, Remove
    <2> QED BY <1>1, <2>1, OutcomesTyped
  <1>3. /\ phase \in {"slay", "purge"} /\ phase' \in {"orphans", "strays"} /\ at' = NoId
        /\ UNCHANGED <<rows, object, slot, tasks, restore, minted, condemned, world,
                       startup, looks, todo, strikes, suspects>>
    BY DEF Slay, Purge, Remove
  <1> USE <1>1, <1>2, <1>3
  <1>4. TypeOK' /\ SlotHeld' /\ CommitsLegal' /\ OneRow' /\ OnKnown' /\ Doomed' /\ Uploaded'
    BY DEF KInv, IInv, TypeOK, SlotHeld, CommitsLegal, OneRow, OnKnown, Doomed, Uploaded
  <1>5. BodyKept' /\ Fresh' /\ Births' /\ RestoreRow' /\ RestoreDisk'
    BY DEF KInv, IInv, TypeOK, BodyKept, DataKept, Fresh, Births, Born, RestoreRow, RestoreDisk
  <1>6. PassTypeOK' /\ KeeperHolds' /\ Alone' /\ SeenMinted' /\ RowHeld'
    BY DEF KInv, PassTypeOK, Phases, Mending, KeeperHolds, Alone, SeenMinted, RowHeld
  <1>7. GoneByOrder' /\ NoBirthStruck' /\ BodyUnowned' /\ ZombieWhole'
    BY DEF KInv, IInv, TypeOK, GoneByOrder, NoBirthStruck, BodyUnowned, ZombieWhole, Born, Mending
  <1> QED BY <1>4, <1>5, <1>6, <1>7 DEF KInv, IInv

(* Every step of the node preserves the invariant. *)
LEMMA NodeHolds ==
  ASSUME ~SlowDelete, ~SlowBirth, ~LongPass, ~Leftovers, KInv, [NodeNext]_nodeVars PROVE KInv'
  <1>1. CASE PassStep
    BY <1>1, ReadHolds, ConsiderRowHolds, JudgeHolds, NoteHolds, MendHolds, WipeHolds DEF PassStep
  <1>2. CASE UNCHANGED nodeVars
    <2>1. IInv'
      BY <1>2, NextHolds DEF KInv, nodeVars
    <2> QED
      BY <1>2, <2>1 DEF nodeVars, vars, pass, KInv, PassTypeOK, KeeperHolds, Alone, SeenMinted, RowHeld,
                        GoneByOrder, NoBirthStruck, BodyUnowned, ZombieWhole, Born
  <1> QED BY <1>1, <1>2, ServeHolds, WorldHolds, RestartHolds DEF NodeNext, Drift

(* The invariant of a node: what every verb and every repair may rely on
   while requests, scans, restores, passes and crashes interleave. *)
THEOREM NodeInductive ==
  ASSUME ~SlowDelete, ~SlowBirth, ~LongPass, ~Leftovers PROVE NodeSpec => []KInv
  <1>1. NodeInit => KInv BY NodeInitHolds
  <1>2. KInv /\ [NodeNext]_nodeVars => KInv' BY NodeHolds
  <1> QED BY <1>1, <1>2, PTL DEF NodeSpec

(* Data survives the reconciler too: no repair and no orphan's destruction
   costs a sandbox that nobody ordered destroyed its disk or its object. *)
THEOREM NodeDataSurvives ==
  ASSUME ~SlowDelete, ~SlowBirth, ~LongPass, ~Leftovers PROVE NodeSpec => []BodyKept
  <1>1. KInv => BodyKept BY DEF KInv, IInv
  <1> QED BY <1>1, NodeInductive, PTL

-----------------------------------------------------------------------------
(* What a pass does to the ledger and to the bodies *)

(* A step of the pass writes the ledger in the slot, at the row it holds:
   an observed fact, or the end of a row whose destruction was ordered. *)
LEMMA PassWrites ==
  ASSUME KInv, PassStep
  PROVE  \/ UNCHANGED row
         \/ /\ at \in Ids
            /\ \/ row' = [row EXCEPT ![at] = "absent"] /\ row[at] # "absent" /\ at \in condemned
               \/ \E to \in Hot : row' = [row EXCEPT ![at] = to] /\ row[at] \in Hot \cup {"restoring"}
               \/ row' = [row EXCEPT ![at] = "archived"] /\ row[at] = "restoring"
  <1>1. phase \in Mending => at \in Ids /\ row[at] = snap[at] /\ row[at] # "absent"
    BY DEF KInv, RowHeld
  <1>2. CASE Judge
    <2>1. phase = "inspect" /\ at \in Ids /\ row[at] = snap[at]
      BY <1>1, <1>2 DEF Judge, Mending
    <2>2. CASE JudgeGone
      <3>1. at \notin kept => at \in condemned
        BY <2>1, <2>2 DEF JudgeGone, KInv, GoneByOrder, Mending
      <3> QED BY <2>1, <2>2, <3>1 DEF JudgeGone, DropRow, Overwrite, Keep, Hot
    <2>3. CASE JudgeArchived \/ JudgeExited
      BY <2>3 DEF JudgeArchived, JudgeExited, Keep
    <2>4. CASE JudgeRestoring \/ JudgeLive
      <3>1. Means(shell[at]) \in Hot
        BY DEF Means, Hot
      <3> QED BY <2>1, <2>4, <3>1 DEF JudgeRestoring, JudgeLive, Overwrite, Keep, Hot
    <2> QED BY <1>2, <2>2, <2>3, <2>4 DEF Judge
  <1>3. CASE RecordExit
    BY <1>1, <1>3 DEF RecordExit, KInv, RowHeld, Mending, Overwrite, Keep, Hot
  <1>4. CASE RevertZombie
    BY <1>1, <1>4 DEF RevertZombie, Mend, KInv, RowHeld, Mending, Reverted, Overwrite, Keep
  <1>5. CASE SweepBody \/ SweepDisk \/ RemoveShell \/ Slay \/ Purge \/ RepairFails
    BY <1>5 DEF SweepBody, SweepDisk, RemoveShell, Mend, Recorded, Keep, Slay, Purge, Remove, RepairFails
  <1>6. CASE \/ BeginPass \/ ListContainers \/ ListFails \/ ListDisks \/ BootRefused
             \/ RowsDone \/ OrphansDone \/ EndPass \/ \E i \in Ids : ConsiderRow(i) \/ ConsiderBody(i)
    BY <1>6 DEF BeginPass, ListContainers, ListFails, ListDisks, BootRefused, RowsDone, OrphansDone,
                EndPass, ConsiderRow, ConsiderBody, vars
  <1> QED BY <1>2, <1>3, <1>4, <1>5, <1>6 DEF PassStep

(* The environment and a crash write no row. *)
LEMMA WorldWrites == ASSUME Environment \/ Crash PROVE UNCHANGED row
  BY DEF Environment, SwitchStore, Die, Prune, LandLate, Crash

(* A row leaves the ledger by an order only: what a pass does not see, it
   does not forget. *)
THEOREM OrdersOnly ==
  ASSUME ~SlowDelete, ~SlowBirth, ~LongPass, ~Leftovers PROVE NodeSpec => OnlyOrderedDie
  <1> DEFINE Ordered == \A i \in Ids : row[i] # "absent" /\ row'[i] = "absent" => i \in condemned
  <1>1. KInv /\ [NodeNext]_nodeVars => [Ordered]_nodeVars
    <2> SUFFICES ASSUME KInv, NodeNext PROVE Ordered
      OBVIOUS
    <2>1. CASE PassStep
      BY <2>1, PassWrites DEF Hot, KInv, IInv, TypeOK
    <2>2. CASE Serve
      BY <2>2, TrafficFramed DEF Serve, Framed, KInv
    <2>3. CASE Environment \/ Restart
      BY <2>3, WorldWrites DEF Restart
    <2> QED BY <2>1, <2>2, <2>3 DEF NodeNext, Drift
  <1> QED BY <1>1, NodeInductive, PTL DEF NodeSpec, OnlyOrderedDie

(* Verbs and repairs together implement the ledger with its overwrites. *)
THEOREM RepairsImplementLedger ==
  ASSUME ~SlowDelete, ~SlowBirth, ~LongPass, ~Leftovers PROVE NodeSpec => LedgerRepaired
  <1>1. NodeInit => L!Init
    BY DEF NodeInit, Init, L!Init
  <1>2. KInv /\ [NodeNext]_nodeVars => [L!RepairedNext]_row
    <2> SUFFICES ASSUME KInv, [NodeNext]_nodeVars PROVE [L!RepairedNext]_row
      OBVIOUS
    <2>1. CASE PassStep
      BY <2>1, PassWrites DEF L!RepairedNext, L!Observe, L!Next, L!Delete, L!SandboxStates, Hot
    <2>2. CASE Serve
      BY <2>2, StepAllowed DEF Serve, Next, KInv, L!RepairedNext
    <2>3. CASE Environment \/ Restart \/ UNCHANGED nodeVars
      BY <2>3, WorldWrites DEF Restart, nodeVars, vars
    <2> QED BY <2>1, <2>2, <2>3 DEF NodeNext, Drift
  <1> QED BY <1>1, <1>2, NodeInductive, PTL DEF NodeSpec, LedgerRepaired, L!RepairedSpec

(* While a row is hot only the slot's holder, the keeper at that row, or the
   environment moves its shell and disk. *)
THEOREM HolderOrKeeper ==
  ASSUME ~SlowDelete, ~SlowBirth, ~LongPass, ~Leftovers PROVE NodeSpec => HolderOrKeeperMoves
  <1> DEFINE Mended == \E i \in Ids : slot = Keeper /\ at = i
                         /\ \A j \in Ids \ {i} : shell'[j] = shell[j] /\ disk'[j] = disk[j]
  <1>1. KInv /\ [NodeNext]_nodeVars => [HolderMoved \/ Mended]_nodeVars
    <2> SUFFICES ASSUME KInv, NodeNext PROVE HolderMoved \/ Mended
      OBVIOUS
    <2>1. CASE PassStep
      <3>1. CASE SweepBody \/ SweepDisk \/ RemoveShell \/ RevertZombie
        <4>1. slot = Keeper /\ at \in Ids
          BY <3>1 DEF SweepBody, SweepDisk, RemoveShell, RevertZombie, Mend, KInv, KeeperHolds, RowHeld, Mending
        <4>2. PICK s, d : shell' = [shell EXCEPT ![at] = s] /\ disk' = [disk EXCEPT ![at] = d]
          BY <3>1 DEF SweepBody, SweepDisk, RemoveShell, RevertZombie, Mend
        <4> QED BY <4>1, <4>2 DEF KInv, IInv, TypeOK
      <3>2. CASE Slay \/ Purge
        <4>1. row[at] = "absent"
          BY <3>2 DEF Slay, Purge, Remove, KInv, BodyUnowned
        <4>2. PICK s, d : shell' = [shell EXCEPT ![at] = s] /\ disk' = [disk EXCEPT ![at] = d]
          BY <3>2 DEF Slay, Purge, Remove
        <4> QED BY <4>1, <4>2 DEF HolderMoved, KInv, IInv, TypeOK
      <3>3. CASE UNCHANGED body
        BY <3>3 DEF HolderMoved
      <3> QED
        BY <2>1, <3>1, <3>2, <3>3
        DEF PassStep, BeginPass, ListContainers, ListFails, ListDisks, BootRefused, RowsDone, OrphansDone,
            EndPass, ConsiderRow, ConsiderBody, Judge, RepairFails, RecordExit, vars
    <2>2. CASE Serve \/ Environment \/ Restart
      BY <2>2, StepMoves DEF Serve, Restart, Next, KInv
    <2> QED BY <2>1, <2>2 DEF NodeNext, Drift
  <1> QED BY <1>1, NodeInductive, PTL DEF NodeSpec, HolderOrKeeperMoves

-----------------------------------------------------------------------------
(* What a pass leaves to the verbs *)

(* No ledger write of a verb comes too late, with a reconciler that overwrites
   rows beside it: it repairs in the slot, where no verb is then at work. *)
THEOREM NodeNoLateCommit ==
  ASSUME ~SlowDelete, ~SlowBirth, ~LongPass, ~Leftovers
  PROVE  NodeSpec => [](SlotHeld /\ CommitsLegal /\ KeeperHolds)
  <1>1. KInv => SlotHeld /\ CommitsLegal /\ KeeperHolds BY DEF KInv, IInv
  <1> QED BY <1>1, NodeInductive, PTL

(* A pass writes the ledger in the slot only, and only the row it repairs,
   which has no restore task. *)
LEMMA PassInSlot ==
  ASSUME KInv, PassStep, NEW i \in Ids, row'[i] # row[i] \/ paused'[i] # paused[i]
  PROVE  slot = Keeper /\ at = i /\ (row[i] = "restoring" => restore[i] = "off")
  <1>1. CASE Judge \/ RecordExit \/ RevertZombie
    <2>1. phase \in {"inspect", "death", "revive"}
      BY <1>1 DEF Judge, RecordExit, RevertZombie, Mend
    <2>2. slot = Keeper /\ at \in Ids /\ (row[at] = "restoring" => restore[at] = "off")
      BY <2>1 DEF KInv, KeeperHolds, RowHeld, Mending
    <2>0. DOMAIN row = Ids /\ DOMAIN paused = Ids
      BY DEF KInv, IInv, TypeOK
    <2>3. \A j \in Ids \ {at} : row'[j] = row[j] /\ paused'[j] = paused[j]
      <3>1. CASE Judge
        BY <2>0, <3>1 DEF Judge, JudgeArchived, JudgeRestoring, JudgeGone, JudgeExited, JudgeLive,
                          Overwrite, DropRow, Keep
      <3>2. CASE RecordExit \/ RevertZombie
        BY <2>0, <3>2 DEF RecordExit, RevertZombie, Mend, Reverted, Overwrite, Keep
      <3> QED BY <1>1, <3>1, <3>2
    <2> QED BY <2>2, <2>3
  <1>2. CASE UNCHANGED rows
    BY <1>2
  <1> QED
    BY <1>1, <1>2 DEF PassStep, SweepBody, SweepDisk, RemoveShell, Mend, Recorded, Keep, Slay, Purge, Remove,
       RepairFails, BeginPass, ListContainers, ListFails, ListDisks, BootRefused, RowsDone, OrphansDone, EndPass,
       ConsiderRow, ConsiderBody, vars

(* The reconciler takes a restoring row from no task that lives: such a row is
   changed by its own restore task, by an ordered destruction, or by a repair
   in the slot that finds it without a task. *)
THEOREM NodeRestoringOwned ==
  ASSUME ~SlowDelete, ~SlowBirth, ~LongPass, ~Leftovers
  PROVE  NodeSpec => [][\A i \in Ids : row[i] = "restoring" /\ row'[i] # "restoring" =>
                          \/ restore[i] \in {"commit", "revert"} /\ restore'[i] # restore[i]
                          \/ row'[i] = "absent" /\ i \in condemned
                          \/ slot = Keeper /\ at = i /\ restore[i] = "off"]_nodeVars
  <1> DEFINE Owned == \A i \in Ids : row[i] = "restoring" /\ row'[i] # "restoring" =>
                        \/ restore[i] \in {"commit", "revert"} /\ restore'[i] # restore[i]
                        \/ row'[i] = "absent" /\ i \in condemned
                        \/ slot = Keeper /\ at = i /\ restore[i] = "off"
  <1>1. KInv /\ [NodeNext]_nodeVars => [Owned]_nodeVars
    <2> SUFFICES ASSUME KInv, NodeNext PROVE Owned
      OBVIOUS
    <2>1. CASE PassStep
      BY <2>1, PassInSlot
    <2>2. CASE Serve \/ Environment \/ Restart
      <3>1. IInv /\ Next BY <2>2 DEF Serve, Restart, Next, KInv
      <3> QED BY <3>1, RestoringEnds DEF IInv, Doomed
    <2> QED BY <2>1, <2>2 DEF NodeNext, Drift
  <1> QED BY <1>1, NodeInductive, PTL DEF NodeSpec

(* "An awake sandbox is by definition not paused": every wake sees to it, and
   only a repair of the reconciler, which overwrites the state alone, can
   leave a paused sandbox awake. *)
THEOREM NodeAwakeNotPaused ==
  ASSUME ~SlowDelete, ~SlowBirth, ~LongPass, ~Leftovers
  PROVE  NodeSpec => [][\A i \in Ids : row'[i] = "active" /\ paused'[i] =>
                          \/ row[i] = "active" /\ paused[i]
                          \/ slot = Keeper /\ at = i]_nodeVars
  <1> DEFINE Honest == \A i \in Ids : row'[i] = "active" /\ paused'[i] =>
                         \/ row[i] = "active" /\ paused[i]
                         \/ slot = Keeper /\ at = i
  <1>1. KInv /\ [NodeNext]_nodeVars => [Honest]_nodeVars
    <2> SUFFICES ASSUME KInv, NodeNext PROVE Honest
      OBVIOUS
    <2>1. CASE PassStep
      BY <2>1, PassInSlot
    <2>2. CASE Serve \/ Environment \/ Restart
      <3>1. IInv /\ Next BY <2>2 DEF Serve, Restart, Next, KInv
      <3> QED BY <3>1, AwakeStep
    <2> QED BY <2>1, <2>2 DEF NodeNext, Drift
  <1> QED BY <1>1, NodeInductive, PTL DEF NodeSpec
=============================================================================
