--------------------------- MODULE LifecycleProofs ---------------------------
(***************************************************************************)
(* Proofs about Lifecycle, for any set of ids and handlers, any served     *)
(* verbs, any number of crashes and of moves of the environment, verbs     *)
(* that land late and temp directories that fail.  One assumption of the   *)
(* environment is needed: the object delete that ends a restore does not   *)
(* outlast the sandbox's next archive (~SlowDelete); LifecycleLateDelete   *)
(* shows what happens without it.  The last two parts say what only those  *)
(* verbs can break that look at a row before they queue, and what is true  *)
(* while no verb lands late and nothing is disturbed.                      *)
(***************************************************************************)
EXTENDS LifecycleInv, TLAPS

USE NamesAssumption
    DEF Actors, Idle, Waiting, Working, Tracked, Finishing, ColdStorage,
        Named, L!Rows, rows, body, tasks, world

(* The invariant holds before the first request. *)
LEMMA InitHolds == Init => IInv
  BY BoundsAssumption
  DEF Init, IInv, TypeOK, SlotHeld, CommitsLegal, BodyKept, DataKept,
      OneRow, OnKnown, Fresh, Births, Doomed, Uploaded, RestoreRow, RestoreDisk,
      AllOps, E!Shells, E!Disks, L!SandboxStates

(* What an executor verb may leave behind is a shell and a disk. *)
LEMMA OutcomesTyped ==
  ASSUME NEW s \in E!Shells, NEW d \in E!Disks,
         NEW r \in UNION {E!Freeze(s, d), E!Unfreeze(s, d), E!Stop(s, d), E!Start(s, d),
                          E!RemoveContainer(s, d), E!Destroy(s, d), E!Provision(s, d), E!Launch(s, d),
                          E!RemoveDisk(s, d), E!ExportDisk(s, d), E!ImportDisk(s, d)}
  PROVE  r.shell \in E!Shells /\ r.disk \in E!Disks
  <1> USE DEF E!Done, E!Failed, E!Landed, E!Shells, E!Disks
  <1>1. CASE r \in E!Freeze(s, d) \cup E!Unfreeze(s, d) BY <1>1 DEF E!Freeze, E!Unfreeze
  <1>2. CASE r \in E!Stop(s, d) BY <1>2 DEF E!Stop
  <1>3. CASE r \in E!Start(s, d) BY <1>3 DEF E!Start, E!Launch
  <1>4. CASE r \in E!RemoveContainer(s, d) BY <1>4 DEF E!RemoveContainer, E!Downfall
  <1>5. CASE r \in E!Destroy(s, d) BY <1>5 DEF E!Destroy, E!Downfall
  <1>6. CASE r \in E!Provision(s, d) \cup E!Launch(s, d) BY <1>6 DEF E!Provision, E!Launch
  <1>7. CASE r \in E!RemoveDisk(s, d) \cup E!ExportDisk(s, d) BY <1>7 DEF E!RemoveDisk, E!ExportDisk
  <1>8. CASE r \in E!ImportDisk(s, d) BY <1>8 DEF E!ImportDisk, E!Provision
  <1> QED BY <1>1, <1>2, <1>3, <1>4, <1>5, <1>6, <1>7, <1>8

(* The verbs of a hot sandbox never touch its disk, whatever becomes of the
   shell: freeze, thaw, stop, start, the container swap and the export; nor
   does the launch of a container. *)
LEMMA HotVerbsKeepDisk ==
  ASSUME NEW s \in E!Shells, NEW d \in E!Disks,
         NEW r \in UNION {E!Freeze(s, d), E!Unfreeze(s, d), E!Stop(s, d), E!Start(s, d),
                          E!RemoveContainer(s, d), E!ExportDisk(s, d), E!Launch(s, d)}
  PROVE  r.disk = d
  BY DEF E!Freeze, E!Unfreeze, E!Stop, E!Start, E!Launch, E!RemoveContainer, E!Downfall,
         E!ExportDisk, E!Done, E!Failed, E!Landed

(* A provisioning or an import that reports success leaves a whole disk. *)
LEMMA FilledDisk ==
  ASSUME NEW s \in E!Shells, NEW d \in E!Disks,
         NEW r \in E!Provision(s, d) \cup E!ImportDisk(s, d), r.ok
  PROVE  r.disk = "full"
  BY DEF E!Provision, E!ImportDisk, E!Done, E!Failed, E!Landed

(* A verb of a hot sandbox preserves the invariant when its row lets the
   next step follow. *)
LEMMA HotVerb ==
  ASSUME IInv, NEW a \in Actors, NEW outcomes, NEW next,
         <<pc[a], next>> \in {<<"cold", "swapped">>, <<"cold", "awaken">>, <<"boot", "awaken">>,
                              <<"rebuild", "rebuilt">>, <<"freeze", "frozen">>,
                              <<"stop", "stopped">>, <<"export", "upload">>},
         outcomes \in {E!Freeze(shell[on[a]], disk[on[a]]), E!Unfreeze(shell[on[a]], disk[on[a]]),
                       E!Stop(shell[on[a]], disk[on[a]]), E!Start(shell[on[a]], disk[on[a]]),
                       E!RemoveContainer(shell[on[a]], disk[on[a]]),
                       E!ExportDisk(shell[on[a]], disk[on[a]])},
         Verb(a, outcomes, next)
  PROVE  IInv'
  <1>1. /\ on[a] \in Ids /\ slot = a
        /\ shell[on[a]] \in E!Shells /\ disk[on[a]] \in E!Disks
    BY DEF IInv, TypeOK, OnKnown, SlotHeld
  <1>2. PICK r \in outcomes :
          /\ shell' = [shell EXCEPT ![on[a]] = r.shell]
          /\ disk' = [disk EXCEPT ![on[a]] = r.disk]
          /\ IF r.ok THEN Goto(a, next) /\ UNCHANGED slot ELSE Answer(a, "done")
          /\ UNCHANGED <<row, paused, object, restore, minted, condemned, world>>
    BY DEF Verb
  <1>3. r.shell \in E!Shells
    BY <1>1, OutcomesTyped
  <1>4. disk' = disk
    BY <1>1, <1>2, HotVerbsKeepDisk DEF IInv, TypeOK
  <1>5. TypeOK' /\ SlotHeld' /\ OnKnown'
    BY <1>1, <1>2, <1>3, <1>4 DEF IInv, TypeOK, SlotHeld, OnKnown, Goto, Answer, Rest
  <1>6. CommitsLegal'
    BY <1>1, <1>2 DEF IInv, TypeOK, CommitsLegal, Goto, Answer, Rest
  <1>7. BodyKept' /\ OneRow' /\ RestoreRow' /\ RestoreDisk'
    BY <1>2, <1>4 DEF IInv, BodyKept, DataKept, OneRow, RestoreRow, RestoreDisk
  <1>9. Fresh'
    BY <1>1, <1>2, <1>4 DEF IInv, TypeOK, Fresh, CommitsLegal
  <1>8. Births' /\ Doomed' /\ Uploaded'
    BY <1>1, <1>2, <1>4 DEF IInv, TypeOK, Births, Doomed, Uploaded, Goto, Answer, Rest
  <1> QED BY <1>5, <1>6, <1>7, <1>8, <1>9 DEF IInv

(* Requests that arrive outside the slot touch nothing but themselves. *)
LEMMA ArriveStep == ASSUME IInv, NEW a \in Actors, Arrive(a) PROVE IInv'
  <1> USE DEF IInv, TypeOK, SlotHeld, CommitsLegal, BodyKept, DataKept,
              OneRow, OnKnown, Fresh, Births, Doomed, Uploaded, RestoreRow, RestoreDisk
  <1>1. ASSUME NEW o \in Ops, Ask(a, o) PROVE IInv'
    BY <1>1 DEF Ask, AllOps
  <1>2. ASSUME NEW o \in Ops, NEW i \in Ids \cup {NoId}, AskE2b(a, o, i) PROVE IInv'
    BY <1>2 DEF AskE2b, Rest, AllOps
  <1> QED BY <1>1, <1>2 DEF Arrive

(* A verb's turn in the slot: it enters where the row allows, or answers. *)
LEMMA TurnStep == ASSUME IInv, NEW a \in Actors, TakeTurn(a) PROVE IInv'
  <1> USE DEF IInv, TypeOK, SlotHeld, CommitsLegal, BodyKept, DataKept,
              OneRow, OnKnown, Fresh, Births, Doomed, Uploaded, RestoreRow, RestoreDisk,
              Turn, Enter, Refuse, Rest, Goto, Wake, Destroy, L!Move, L!Allowed, L!SandboxStates, AllOps
  <1>1. CASE Seek(a) BY <1>1 DEF Seek, BeginRestore
  <1>2. CASE TakeAcquire(a)
    <2>1. TypeOK' /\ SlotHeld' /\ OnKnown' BY <1>2 DEF TakeAcquire, BeginRestore, Birth
    <2>2. CommitsLegal' /\ Doomed' /\ Uploaded' BY <1>2 DEF TakeAcquire, BeginRestore, Birth
    <2>3. BodyKept' /\ OneRow' /\ Fresh' BY <1>2 DEF TakeAcquire, BeginRestore, Birth
    <2>4. Births' /\ RestoreRow' /\ RestoreDisk' BY <1>2 DEF TakeAcquire, BeginRestore, Birth
    <2> QED BY <2>1, <2>2, <2>3, <2>4
  <1>3. CASE TakeUse(a)
    <2>1. TypeOK' /\ SlotHeld' /\ OnKnown' BY <1>3 DEF TakeUse
    <2>2. CommitsLegal' /\ Doomed' /\ Uploaded' BY <1>3 DEF TakeUse
    <2>3. BodyKept' /\ OneRow' /\ Fresh' BY <1>3 DEF TakeUse
    <2>4. Births' /\ RestoreRow' /\ RestoreDisk' BY <1>3 DEF TakeUse
    <2> QED BY <2>1, <2>2, <2>3, <2>4
  <1>4. CASE TakeRebuild(a) BY <1>4 DEF TakeRebuild
  <1>5. CASE TakeDestroy(a)
    <2>1. TypeOK' /\ SlotHeld' /\ OnKnown' BY <1>5 DEF TakeDestroy
    <2>2. CommitsLegal' /\ Doomed' /\ Uploaded' BY <1>5 DEF TakeDestroy
    <2>3. BodyKept' /\ OneRow' /\ Fresh' BY <1>5 DEF TakeDestroy
    <2>4. Births' /\ RestoreRow' /\ RestoreDisk' BY <1>5 DEF TakeDestroy
    <2> QED BY <2>1, <2>2, <2>3, <2>4
  <1>6. CASE TakeKill(a)
    <2>1. TypeOK' /\ SlotHeld' /\ OnKnown' BY <1>6 DEF TakeKill
    <2>2. CommitsLegal' /\ Doomed' /\ Uploaded' BY <1>6 DEF TakeKill
    <2>3. BodyKept' /\ OneRow' /\ Fresh' BY <1>6 DEF TakeKill
    <2>4. Births' /\ RestoreRow' /\ RestoreDisk' BY <1>6 DEF TakeKill
    <2> QED BY <2>1, <2>2, <2>3, <2>4
  <1>7. CASE TakeConnect(a) \/ TakeTraffic(a) BY <1>7 DEF TakeConnect, TakeTraffic
  <1>8. CASE TakeCreate(a)
    <2>1. TypeOK' /\ SlotHeld' /\ OnKnown' BY <1>8 DEF TakeCreate, Birth
    <2>2. CommitsLegal' /\ Doomed' /\ Uploaded' BY <1>8 DEF TakeCreate, Birth
    <2>3. BodyKept' /\ OneRow' /\ Fresh' BY <1>8 DEF TakeCreate, Birth
    <2>4. Births' /\ RestoreRow' /\ RestoreDisk' BY <1>8 DEF TakeCreate, Birth
    <2> QED BY <2>1, <2>2, <2>3, <2>4
  <1>9. CASE TakePause(a)
    <2>1. CASE on[a] \in Named /\ row[on[a]] # "active" /\ paused' = [paused EXCEPT ![on[a]] = TRUE] /\ Refuse(a, "done")
      <3>1. TypeOK' /\ SlotHeld' /\ OnKnown' BY <1>9, <2>1 DEF TakePause
      <3>2. CommitsLegal' BY <1>9, <2>1 DEF TakePause
      <3>5. Doomed' /\ Uploaded' BY <1>9, <2>1 DEF TakePause
      <3>3. BodyKept' /\ OneRow' /\ Fresh' BY <1>9, <2>1 DEF TakePause
      <3>4. Births' /\ RestoreRow' /\ RestoreDisk' BY <1>9, <2>1 DEF TakePause
      <3> QED BY <3>1, <3>2, <3>3, <3>4, <3>5
    <2>2. CASE UNCHANGED paused
      <3>1. TypeOK' /\ SlotHeld' /\ OnKnown' BY <1>9, <2>2 DEF TakePause
      <3>2. CommitsLegal' /\ Doomed' /\ Uploaded' BY <1>9, <2>2 DEF TakePause
      <3>3. BodyKept' /\ OneRow' /\ Fresh' BY <1>9, <2>2 DEF TakePause
      <3>4. Births' /\ RestoreRow' /\ RestoreDisk' BY <1>9, <2>2 DEF TakePause
      <3> QED BY <3>1, <3>2, <3>3, <3>4
    <2> QED BY <1>9, <2>1, <2>2 DEF TakePause
  <1> QED BY <1>1, <1>2, <1>3, <1>4, <1>5, <1>6, <1>7, <1>8, <1>9 DEF TakeTurn

(* The idle scanner enters a free slot with the row it has just re-read. *)
LEMMA ScanStep == ASSUME IInv, NEW i \in Ids, Scan(i) PROVE IInv'
  <1> USE DEF IInv, TypeOK, SlotHeld, CommitsLegal, BodyKept, DataKept,
              OneRow, OnKnown, Fresh, Births, Doomed, Uploaded, RestoreRow, RestoreDisk,
              Sweep, Quiet, Enter, Refuse, Rest, Goto, Destroy, L!SandboxStates, AllOps
  <1>1. CASE ScanFreeze(i)
    <2>1. TypeOK' /\ SlotHeld' /\ OnKnown' BY <1>1 DEF ScanFreeze
    <2>2. CommitsLegal' /\ Doomed' /\ Uploaded' BY <1>1 DEF ScanFreeze
    <2>3. BodyKept' /\ OneRow' /\ Fresh' BY <1>1 DEF ScanFreeze
    <2>4. Births' /\ RestoreRow' /\ RestoreDisk' BY <1>1 DEF ScanFreeze
    <2> QED BY <2>1, <2>2, <2>3, <2>4
  <1>2. CASE ScanStop(i)
    <2>1. TypeOK' /\ SlotHeld' /\ OnKnown' BY <1>2 DEF ScanStop
    <2>2. CommitsLegal' /\ Doomed' /\ Uploaded' BY <1>2 DEF ScanStop
    <2>3. BodyKept' /\ OneRow' /\ Fresh' BY <1>2 DEF ScanStop
    <2>4. Births' /\ RestoreRow' /\ RestoreDisk' BY <1>2 DEF ScanStop
    <2> QED BY <2>1, <2>2, <2>3, <2>4
  <1>3. CASE ScanExpire(i) BY <1>3 DEF ScanExpire
  <1>4. CASE ScanArchive(i) BY <1>4 DEF ScanArchive
  <1> QED BY <1>1, <1>2, <1>3, <1>4 DEF Scan

(* The steps in the slot that only move a hot shell. *)
LEMMA ShellStep ==
  ASSUME IInv, NEW a \in Actors,
         WakeCold(a) \/ Boot(a) \/ Rebuilding(a) \/ Freezing(a) \/ Stopping(a) \/ Exporting(a)
  PROVE  IInv'
  BY HotVerb DEF WakeCold, Boot, Rebuilding, Freezing, Stopping, Exporting

(* Births and teardowns: the steps in the slot that make or free a disk. *)
LEMMA DiskStep ==
  ASSUME IInv, NEW a \in Actors,
         Provisioning(a) \/ Launching(a) \/ Demolishing(a) \/ Clearing(a)
  PROVE  IInv'
  <1>1. slot = a /\ on[a] \in Ids /\ shell[on[a]] \in E!Shells /\ disk[on[a]] \in E!Disks
    BY DEF IInv, TypeOK, OnKnown, SlotHeld, Provisioning, Launching, Demolishing, Clearing
  <1> USE DEF IInv, TypeOK, SlotHeld, CommitsLegal, BodyKept, DataKept,
              OneRow, OnKnown, Fresh, Births, Doomed, Uploaded, RestoreRow, RestoreDisk,
              Verb, Goto, Answer, Rest, AllOps, L!SandboxStates
  <1>2. CASE Provisioning(a)
    <2>1. PICK r \in E!Provision(shell[on[a]], disk[on[a]]) :
            /\ shell' = [shell EXCEPT ![on[a]] = r.shell]
            /\ disk' = [disk EXCEPT ![on[a]] = r.disk]
            /\ IF r.ok THEN Goto(a, "launch") /\ UNCHANGED slot ELSE Answer(a, "done")
            /\ UNCHANGED <<row, paused, object, restore, minted, condemned, world>>
      BY <1>2 DEF Provisioning
    <2>2. r.shell \in E!Shells /\ r.disk \in E!Disks /\ (r.ok => r.disk = "full")
      BY <1>1, OutcomesTyped, FilledDisk
    <2>3. TypeOK' /\ SlotHeld' /\ OnKnown' BY <1>1, <1>2, <2>1, <2>2 DEF Provisioning
    <2>4. CommitsLegal' /\ Doomed' /\ Uploaded' BY <1>1, <1>2, <2>1, <2>2 DEF Provisioning
    <2>5. BodyKept' /\ OneRow' /\ Fresh' BY <1>1, <1>2, <2>1, <2>2 DEF Provisioning
    <2>6. Births' /\ RestoreRow' /\ RestoreDisk' BY <1>1, <1>2, <2>1, <2>2 DEF Provisioning
    <2> QED BY <2>3, <2>4, <2>5, <2>6
  <1>5. CASE Launching(a)
    <2>1. PICK r \in E!Launch(shell[on[a]], disk[on[a]]) :
            /\ shell' = [shell EXCEPT ![on[a]] = r.shell]
            /\ disk' = [disk EXCEPT ![on[a]] = r.disk]
            /\ IF r.ok THEN Goto(a, "record") /\ UNCHANGED slot ELSE Answer(a, "done")
            /\ UNCHANGED <<row, paused, object, restore, minted, condemned, world>>
      BY <1>5 DEF Launching
    <2>2. r.shell \in E!Shells /\ disk' = disk
      BY <1>1, <2>1, OutcomesTyped, HotVerbsKeepDisk
    <2>3. TypeOK' /\ SlotHeld' /\ OnKnown' BY <1>1, <1>5, <2>1, <2>2 DEF Launching
    <2>4. CommitsLegal' /\ Doomed' /\ Uploaded' BY <1>1, <1>5, <2>1, <2>2 DEF Launching
    <2>5. BodyKept' /\ OneRow' /\ Fresh' BY <1>1, <1>5, <2>1, <2>2 DEF Launching
    <2>6. Births' /\ RestoreRow' /\ RestoreDisk' BY <1>1, <1>5, <2>1, <2>2 DEF Launching
    <2> QED BY <2>3, <2>4, <2>5, <2>6
  <1>3. CASE Demolishing(a)
    <2>1. PICK r \in E!Destroy(shell[on[a]], disk[on[a]]) :
            /\ shell' = [shell EXCEPT ![on[a]] = r.shell]
            /\ disk' = [disk EXCEPT ![on[a]] = r.disk]
            /\ IF r.ok THEN Goto(a, "forget") /\ UNCHANGED slot ELSE Answer(a, "done")
            /\ UNCHANGED <<row, paused, object, restore, minted, condemned, world>>
      BY <1>3 DEF Demolishing
    <2>2. r.shell \in E!Shells /\ r.disk \in E!Disks
      BY <1>1, OutcomesTyped
    <2>3. TypeOK' /\ SlotHeld' /\ OnKnown' BY <1>1, <1>3, <2>1, <2>2 DEF Demolishing
    <2>4. CommitsLegal' /\ Doomed' /\ Uploaded' BY <1>1, <1>3, <2>1, <2>2 DEF Demolishing
    <2>5. BodyKept' /\ OneRow' /\ Fresh' BY <1>1, <1>3, <2>1, <2>2 DEF Demolishing
    <2>6. Births' /\ RestoreRow' /\ RestoreDisk' BY <1>1, <1>3, <2>1, <2>2 DEF Demolishing
    <2> QED BY <2>3, <2>4, <2>5, <2>6
  <1>4. CASE Clearing(a)
    <2>1. PICK r \in E!Destroy(shell[on[a]], disk[on[a]]) :
            /\ shell' = [shell EXCEPT ![on[a]] = r.shell]
            /\ disk' = [disk EXCEPT ![on[a]] = r.disk]
      BY <1>4 DEF Clearing
    <2>2. r.shell \in E!Shells /\ r.disk \in E!Disks
      BY <1>1, OutcomesTyped
    <2>3. TypeOK' /\ SlotHeld' /\ OnKnown' BY <1>1, <1>4, <2>1, <2>2 DEF Clearing
    <2>4. CommitsLegal' /\ Doomed' /\ Uploaded' BY <1>1, <1>4, <2>1, <2>2 DEF Clearing
    <2>5. BodyKept' /\ OneRow' /\ Fresh' BY <1>1, <1>4, <2>1, <2>2 DEF Clearing
    <2>6. Births' /\ RestoreRow' /\ RestoreDisk' BY <1>1, <1>4, <2>1, <2>2 DEF Clearing
    <2> QED BY <2>3, <2>4, <2>5, <2>6
  <1> QED BY <1>2, <1>3, <1>4, <1>5

(* The ledger writes and the object's steps in the slot. *)
LEMMA LedgerStep ==
  ASSUME IInv, NEW a \in Actors,
         \/ Rejoin(a) \/ Created(a) \/ Probe(a) \/ RecordDeath(a) \/ Swapped(a) \/ Awaken(a)
         \/ Rebuilt(a) \/ Frozen(a) \/ Stopped(a) \/ Erasing(a) \/ Forget(a) \/ Uploading(a)
         \/ Confirm(a),
         ~SlowDelete
  PROVE  IInv'
  <1> USE DEF IInv, TypeOK, SlotHeld, CommitsLegal, BodyKept, DataKept,
              OneRow, OnKnown, Fresh, Births, Doomed, Uploaded, RestoreRow, RestoreDisk,
              Enter, Goto, Answer, Rest, Record, Shelled, L!Move, L!Allowed, L!SandboxStates, AllOps
  <1>1. CASE Rejoin(a) BY <1>1 DEF Rejoin
  <1>2. CASE Created(a)
    <2>1. TypeOK' /\ SlotHeld' /\ OnKnown' BY <1>2 DEF Created, L!Insert
    <2>2. CommitsLegal' /\ Doomed' /\ Uploaded' BY <1>2 DEF Created, L!Insert
    <2>3. BodyKept' /\ OneRow' /\ Fresh' BY <1>2 DEF Created, L!Insert
    <2>4. Births' /\ RestoreRow' /\ RestoreDisk' BY <1>2 DEF Created, L!Insert
    <2> QED BY <2>1, <2>2, <2>3, <2>4
  <1>3. CASE Probe(a) BY <1>3 DEF Probe
  <1>4. CASE RecordDeath(a) BY <1>4 DEF RecordDeath
  <1>5. CASE Swapped(a)
    <2>1. TypeOK' /\ SlotHeld' /\ OnKnown' BY <1>5 DEF Swapped
    <2>2. CommitsLegal' /\ Doomed' /\ Uploaded' BY <1>5 DEF Swapped
    <2>3. BodyKept' /\ OneRow' /\ Fresh' BY <1>5 DEF Swapped
    <2>4. Births' /\ RestoreRow' /\ RestoreDisk' BY <1>5 DEF Swapped
    <2> QED BY <2>1, <2>2, <2>3, <2>4
  <1>6. CASE Awaken(a)
    <2>1. TypeOK' /\ SlotHeld' /\ OnKnown' BY <1>6 DEF Awaken
    <2>2. CommitsLegal' /\ Doomed' /\ Uploaded' BY <1>6 DEF Awaken
    <2>3. BodyKept' /\ OneRow' /\ Fresh' BY <1>6 DEF Awaken
    <2>4. Births' /\ RestoreRow' /\ RestoreDisk' BY <1>6 DEF Awaken
    <2> QED BY <2>1, <2>2, <2>3, <2>4
  <1>7. CASE Rebuilt(a) BY <1>7 DEF Rebuilt
  <1>8. CASE Frozen(a) BY <1>8 DEF Frozen
  <1>9. CASE Stopped(a) BY <1>9 DEF Stopped
  <1>10. CASE Erasing(a)
    <2>1. TypeOK' /\ SlotHeld' /\ OnKnown' BY <1>10 DEF Erasing
    <2>2. CommitsLegal' /\ Doomed' /\ Uploaded' BY <1>10 DEF Erasing
    <2>3. BodyKept' /\ OneRow' /\ Fresh' BY <1>10 DEF Erasing
    <2>4. Births' /\ RestoreRow' /\ RestoreDisk' BY <1>10 DEF Erasing
    <2> QED BY <2>1, <2>2, <2>3, <2>4
  <1>11. CASE Forget(a) BY <1>11 DEF Forget
  <1>12. CASE Uploading(a) BY <1>12 DEF Uploading
  <1>13. CASE Confirm(a) BY <1>13 DEF Confirm
  <1> QED BY <1>1, <1>2, <1>3, <1>4, <1>5, <1>6, <1>7, <1>8, <1>9, <1>10, <1>11, <1>12, <1>13

(* The restore task: outside the slot it works on a disk no hot row owns,
   in the slot it commits what it finished or cleans up after a usurper. *)
LEMMA RestoreHolds == ASSUME IInv, NEW i \in Ids, RestoreStep(i) PROVE IInv'
  <1>1. shell[i] \in E!Shells /\ disk[i] \in E!Disks
    BY DEF IInv, TypeOK
  <1> USE DEF IInv, TypeOK, SlotHeld, CommitsLegal, BodyKept, DataKept,
              OneRow, OnKnown, Fresh, Births, Doomed, Uploaded, RestoreRow, RestoreDisk,
              Advance, EndRestore, L!Move, L!Allowed, L!SandboxStates, AllOps
  <1>2. CASE Unmade(i)
    <2>1. TypeOK' /\ SlotHeld' /\ OnKnown' BY <1>2 DEF Unmade
    <2>2. CommitsLegal' /\ Doomed' /\ Uploaded' BY <1>2 DEF Unmade
    <2>3. BodyKept' /\ OneRow' /\ Fresh' BY <1>2 DEF Unmade
    <2>4. Births' /\ RestoreRow' /\ RestoreDisk' BY <1>2 DEF Unmade
    <2> QED BY <2>1, <2>2, <2>3, <2>4
  <1>3. CASE Fetch(i) BY <1>3 DEF Fetch
  <1>4. CASE TakeFinish(i) BY <1>4 DEF TakeFinish
  <1>5. CASE Restored(i) BY <1>5 DEF Restored
  <1>6. CASE DeleteObject(i) BY <1>6 DEF DeleteObject
  <1>7. CASE Revert(i)
    <2>1. TypeOK' /\ SlotHeld' /\ OnKnown' BY <1>7 DEF Revert
    <2>2. CommitsLegal' /\ Doomed' /\ Uploaded' BY <1>7 DEF Revert
    <2>3. BodyKept' /\ OneRow' /\ Fresh' BY <1>7 DEF Revert
    <2>4. Births' /\ RestoreRow' /\ RestoreDisk' BY <1>7 DEF Revert
    <2> QED BY <2>1, <2>2, <2>3, <2>4
  <1>8. CASE Import(i)
    <2>1. PICK r \in E!ImportDisk(shell[i], disk[i]) :
            /\ shell' = [shell EXCEPT ![i] = r.shell]
            /\ disk' = [disk EXCEPT ![i] = r.disk]
            /\ Advance(i, IF r.ok THEN "finish" ELSE "undo")
            /\ slot' = IF slot = i /\ (~r.ok \/ "finish" = "undo") THEN Free ELSE slot
            /\ UNCHANGED <<rows, object, tasks, minted, condemned, world>>
      BY <1>8 DEF Import, RestoreVerb
    <2>2. r.shell \in E!Shells /\ r.disk \in E!Disks /\ (r.ok => r.disk = "full")
      BY <1>1, OutcomesTyped, FilledDisk
    <2> QED BY <1>8, <2>1, <2>2 DEF Import
  <1>9. CASE Usurped(i)
    <2>1. PICK r \in E!RemoveDisk(shell[i], disk[i]) :
            /\ shell' = [shell EXCEPT ![i] = r.shell]
            /\ disk' = [disk EXCEPT ![i] = r.disk]
            /\ Advance(i, "undo")
            /\ slot' = Free
            /\ UNCHANGED <<rows, object, tasks, minted, condemned, world>>
      BY <1>9 DEF Usurped, RestoreVerb
    <2>2. r.shell \in E!Shells /\ r.disk \in E!Disks
      BY <1>1, OutcomesTyped
    <2> QED BY <1>9, <2>1, <2>2 DEF Usurped
  <1>10. CASE StartRestored(i)
    <2>1. PICK r \in E!Start(shell[i], disk[i]) :
            /\ shell' = [shell EXCEPT ![i] = r.shell]
            /\ disk' = [disk EXCEPT ![i] = r.disk]
            /\ Advance(i, IF r.ok THEN "commit" ELSE "undo")
            /\ slot' = IF r.ok THEN slot ELSE Free
            /\ UNCHANGED <<rows, object, tasks, minted, condemned, world>>
      BY <1>10 DEF StartRestored, RestoreVerb
    <2>2. r.shell \in E!Shells /\ disk' = disk
      BY <1>1, <2>1, OutcomesTyped, HotVerbsKeepDisk
    <2> QED BY <1>10, <2>1, <2>2 DEF StartRestored
  <1>11. CASE Undo(i)
    <2>1. PICK r \in E!RemoveDisk(shell[i], disk[i]) : disk' = [disk EXCEPT ![i] = r.disk]
      BY <1>11 DEF Undo
    <2>2. r.disk \in E!Disks
      BY <1>1, OutcomesTyped
    <2> QED BY <1>11, <2>1, <2>2 DEF Undo
  <1> QED BY <1>2, <1>3, <1>4, <1>5, <1>6, <1>7, <1>8, <1>9, <1>10, <1>11 DEF RestoreStep

(* Deaths, prunes and settings touch no row and no data; a crash empties the
   daemon's memory and nothing else. *)
LEMMA EnvironmentHolds == ASSUME IInv, Environment \/ Crash PROVE IInv'
  <1> USE DEF IInv, TypeOK, SlotHeld, CommitsLegal, BodyKept, DataKept,
              OneRow, OnKnown, Fresh, Births, Doomed, Uploaded, RestoreRow, RestoreDisk
  <1> USE BoundsAssumption
  <1>1. ASSUME NEW i \in Ids, Die(i) \/ Prune(i) \/ LandLate(i) PROVE IInv'
    BY <1>1 DEF Die, Prune, LandLate, E!Shells
  <1>2. CASE SwitchStore BY <1>2 DEF SwitchStore
  <1>3. CASE Crash BY <1>3 DEF Crash, AllOps
  <1> QED BY <1>1, <1>2, <1>3 DEF Environment

(* Every step preserves the invariant. *)
LEMMA NextHolds == ASSUME ~SlowDelete, IInv, [Next]_vars PROVE IInv'
  <1>1. ASSUME NEW a \in Actors, Work(a) PROVE IInv'
    BY <1>1, ShellStep, DiskStep, LedgerStep DEF Work
  <1>2. CASE UNCHANGED vars
    BY <1>2 DEF vars, IInv, TypeOK, SlotHeld, CommitsLegal, BodyKept, DataKept,
                OneRow, OnKnown, Fresh, Births, Doomed, Uploaded, RestoreRow, RestoreDisk
  <1> QED
    BY <1>1, <1>2, ArriveStep, TurnStep, ScanStep, RestoreHolds, EnvironmentHolds DEF Next, Traffic

(* The invariant of every behaviour: who is in the slot, what each step there
   may rely on, and where each row's data is. *)
THEOREM Inductive == ASSUME ~SlowDelete PROVE Spec => []IInv
  <1>1. Init => IInv BY InitHolds
  <1>2. IInv /\ [Next]_vars => IInv' BY NextHolds
  <1> QED BY <1>1, <1>2, PTL DEF Spec

(* Each variable keeps to its values. *)
THEOREM TypeCorrect == ASSUME ~SlowDelete PROVE Spec => []TypeOK
  <1>1. IInv => TypeOK BY DEF IInv
  <1> QED BY <1>1, Inductive, PTL

(* The slot's holder is the one whose steps run in it. *)
THEOREM SlotIsHeld == ASSUME ~SlowDelete PROVE Spec => []SlotHeld
  <1>1. IInv => SlotHeld BY DEF IInv
  <1> QED BY <1>1, Inductive, PTL

(* Data survives everything short of destroying the sandbox: failing and late
   verbs, failing transfers, deaths, settings changes, crashes and every
   interleaving of requests, scanner and restore tasks. *)
THEOREM DataSurvives == ASSUME ~SlowDelete PROVE Spec => []BodyKept
  <1>1. IInv => BodyKept BY DEF IInv
  <1> QED BY <1>1, Inductive, PTL

(* No ledger write of a verb comes too late to be legal. *)
THEOREM NoLateCommit == ASSUME ~SlowDelete PROVE Spec => []CommitsLegal
  <1>1. IInv => CommitsLegal BY DEF IInv
  <1> QED BY <1>1, Inductive, PTL

(* Whoever awakens a row clears its mark, and only a row that is not active is
   marked. *)
LEMMA AwakeStep ==
  ASSUME IInv, [Next]_vars, NEW k \in Ids, row'[k] = "active", paused'[k]
  PROVE  row[k] = "active" /\ paused[k]
  <1> DEFINE Kept == row[k] = "active" /\ paused[k]
  <1> USE DEF IInv, TypeOK, OnKnown, CommitsLegal
  <1>1. ASSUME NEW a \in Actors, Arrive(a) PROVE Kept
    BY <1>1 DEF Arrive, Ask, AskE2b
  <1>2. ASSUME NEW a \in Actors, TakeTurn(a) PROVE Kept
    <2>1. CASE TakePause(a)
      BY <2>1 DEF TakePause
    <2>2. CASE Seek(a) \/ TakeAcquire(a)
      <3>1. row[k] = "active"
        <4>1. CASE \E i \in Ids : BeginRestore(i)
          BY <4>1 DEF BeginRestore, L!Move
        <4>2. CASE UNCHANGED row
          BY <4>2
        <4> QED BY <2>2, <4>1, <4>2 DEF Seek, TakeAcquire
      <3>2. UNCHANGED paused
        BY <2>2 DEF Seek, TakeAcquire
      <3> QED BY <3>1, <3>2
    <2> QED
      BY <1>2, <2>1, <2>2 DEF TakeTurn, TakeUse, TakeRebuild, TakeDestroy, TakeKill, TakeConnect, TakeTraffic, TakeCreate
  <1>3. ASSUME NEW a \in Actors, Work(a) PROVE Kept
    <2>1. CASE UNCHANGED rows
      BY <2>1
    <2>2. CASE Swapped(a) \/ Rebuilt(a) \/ Frozen(a) \/ Stopped(a) \/ Confirm(a) \/ RecordDeath(a)
      BY <2>2 DEF Swapped, Rebuilt, Frozen, Stopped, Confirm, RecordDeath, Shelled, Record, L!Move
    <2>3. CASE Created(a) \/ Awaken(a) \/ Forget(a)
      BY <2>3 DEF Created, Awaken, Forget, Record, L!Move, L!Insert
    <2> QED
      BY <1>3, <2>1, <2>2, <2>3
      DEF Work, Rejoin, Provisioning, Launching, Probe, WakeCold, Boot, Rebuilding, Freezing,
          Stopping, Demolishing, Erasing, Exporting, Uploading, Clearing, Verb
  <1>4. ASSUME NEW i \in Ids, Scan(i) PROVE Kept
    BY <1>4 DEF Scan, ScanFreeze, ScanStop, ScanExpire, ScanArchive
  <1>5. ASSUME NEW i \in Ids, RestoreStep(i) PROVE Kept
    <2>1. CASE Restored(i)
      <3>1. \A j \in Ids \ {i} : row'[j] = row[j] /\ paused'[j] = paused[j]
        BY <2>1 DEF Restored, L!Move
      <3>2. ~paused'[i]
        BY <2>1 DEF Restored
      <3> QED BY <3>1, <3>2
    <2>2. CASE Revert(i)
      <3>1. row[k] = "active"
        BY <2>2 DEF Revert, L!Move
      <3>2. UNCHANGED paused
        BY <2>2 DEF Revert
      <3> QED BY <3>1, <3>2
    <2>3. CASE UNCHANGED rows
      BY <2>3
    <2> QED
      BY <1>5, <2>1, <2>2, <2>3 DEF RestoreStep, Unmade, Fetch, Import, TakeFinish, Usurped, StartRestored,
                                    DeleteObject, Undo, RestoreVerb
  <1>6. CASE Environment \/ Crash \/ UNCHANGED vars
    BY <1>6 DEF Environment, SwitchStore, Die, Prune, LandLate, Crash, vars
  <1> QED BY <1>1, <1>2, <1>3, <1>4, <1>5, <1>6 DEF Next, Traffic

(* An awake sandbox is not paused. *)
THEOREM AwakeIsNotPaused == ASSUME ~SlowDelete PROVE Spec => []AwakeNotPaused
  <1>1. Init => AwakeNotPaused
    BY DEF Init, AwakeNotPaused
  <1>2. IInv /\ AwakeNotPaused /\ [Next]_vars => AwakeNotPaused'
    BY AwakeStep DEF AwakeNotPaused
  <1> QED BY <1>1, <1>2, Inductive, PTL DEF Spec

-----------------------------------------------------------------------------
(* Refinement of the ledger, and who moves a hot body *)

(* A ledger write of a verb is a move the ledger allows. *)
LEMMA WriteAllowed ==
  ASSUME IInv, NEW a \in Actors, TakeTurn(a) \/ Work(a) PROVE [L!Next]_row
  <1> USE DEF L!Next, L!Move, L!SandboxStates
  <1>1. CASE Seek(a) BY <1>1 DEF Seek, BeginRestore, IInv, OnKnown
  <1>2. CASE TakeAcquire(a) BY <1>2 DEF TakeAcquire, BeginRestore
  <1>3. CASE \/ TakeUse(a) \/ TakeRebuild(a) \/ TakeDestroy(a) \/ TakeKill(a) \/ TakeConnect(a)
             \/ TakeTraffic(a) \/ TakeCreate(a) \/ TakePause(a)
    BY <1>3 DEF TakeUse, TakeRebuild, TakeDestroy, TakeKill, TakeConnect, TakeTraffic, TakeCreate, TakePause
  <1>4. CASE \/ Rejoin(a) \/ Provisioning(a) \/ Launching(a) \/ Probe(a) \/ WakeCold(a) \/ Boot(a) \/ Rebuilding(a)
             \/ Freezing(a) \/ Stopping(a) \/ Demolishing(a) \/ Erasing(a) \/ Exporting(a)
             \/ Uploading(a) \/ Clearing(a)
    BY <1>4 DEF Rejoin, Provisioning, Launching, Probe, WakeCold, Boot, Rebuilding, Freezing, Stopping,
                Demolishing, Erasing, Exporting, Uploading, Clearing, Verb
  <1>5. CASE \/ Swapped(a) \/ Awaken(a) \/ Rebuilt(a) \/ Frozen(a) \/ Stopped(a) \/ Confirm(a)
    BY <1>5 DEF IInv, OnKnown, Swapped, Awaken, Rebuilt, Frozen, Stopped, Confirm, Shelled, Record
  <1>6. CASE Created(a) BY <1>6 DEF Created, IInv, OnKnown
  <1>7. CASE RecordDeath(a)
    BY <1>7 DEF RecordDeath, L!Death, IInv, OnKnown, CommitsLegal, TypeOK
  <1>8. CASE Forget(a)
    BY <1>8 DEF Forget, L!Delete, IInv, OnKnown, Doomed, TypeOK
  <1> QED BY <1>1, <1>2, <1>3, <1>4, <1>5, <1>6, <1>7, <1>8 DEF TakeTurn, Work

(* So is every step's. *)
LEMMA StepAllowed == ASSUME IInv, [Next]_vars PROVE [L!Next]_row
  <1>1. ASSUME NEW a \in Actors, Arrive(a) PROVE [L!Next]_row
    BY <1>1 DEF Arrive, Ask, AskE2b
  <1>2. ASSUME NEW i \in Ids, Scan(i) PROVE [L!Next]_row
    BY <1>2 DEF Scan, ScanFreeze, ScanStop, ScanExpire, ScanArchive
  <1>3. ASSUME NEW i \in Ids, RestoreStep(i) PROVE [L!Next]_row
    <2>1. CASE Restored(i) \/ Revert(i)
      BY <2>1 DEF Restored, Revert, L!Next, L!Move, L!SandboxStates
    <2>2. CASE ~(Restored(i) \/ Revert(i))
      BY <1>3, <2>2 DEF RestoreStep, Unmade, Fetch, Import, TakeFinish, Usurped, StartRestored,
                        DeleteObject, Undo, RestoreVerb
    <2> QED BY <2>1, <2>2
  <1>4. CASE Environment \/ Crash \/ UNCHANGED vars
    BY <1>4 DEF Environment, SwitchStore, Die, Prune, LandLate, Crash, vars
  <1> QED BY <1>1, <1>2, <1>3, <1>4, WriteAllowed DEF Next, Traffic

(* The verbs implement the ledger: one row per name, ALLOWED_TRANSITIONS,
   deaths of active rows only, and deletions. *)
THEOREM LedgerImplemented == ASSUME ~SlowDelete PROVE Spec => LedgerKept
  <1>1. Init => L!Init BY DEF Init, L!Init
  <1>2. IInv /\ [Next]_vars => [L!Next]_row BY StepAllowed
  <1> QED BY <1>1, <1>2, Inductive, PTL DEF Spec, LedgerKept, L!Spec

(* Only the slot's holder, or the environment, moves a hot sandbox's body. *)
LEMMA StepMoves == ASSUME IInv, Next PROVE HolderMoved
  <1>1. ASSUME NEW a \in Actors, Work(a) PROVE HolderMoved
    <2>1. CASE \/ Provisioning(a) \/ Launching(a) \/ WakeCold(a) \/ Boot(a) \/ Rebuilding(a) \/ Freezing(a) \/ Stopping(a)
               \/ Demolishing(a) \/ Exporting(a) \/ Clearing(a)
      <3>1. slot = a
        BY <2>1 DEF IInv, SlotHeld, Provisioning, Launching, WakeCold, Boot, Rebuilding, Freezing, Stopping,
                    Demolishing, Exporting, Clearing
      <3>2. PICK s, d : shell' = [shell EXCEPT ![on[a]] = s] /\ disk' = [disk EXCEPT ![on[a]] = d]
        BY <2>1 DEF Provisioning, Launching, WakeCold, Boot, Rebuilding, Freezing, Stopping, Demolishing,
                    Exporting, Clearing, Verb
      <3> QED BY <3>1, <3>2 DEF HolderMoved, IInv, TypeOK
    <2>2. CASE UNCHANGED body
      BY <2>2 DEF HolderMoved
    <2> QED
      BY <1>1, <2>1, <2>2 DEF Work, Rejoin, Created, Probe, RecordDeath, Swapped, Awaken, Rebuilt,
         Frozen, Stopped, Erasing, Forget, Uploading, Confirm, Shelled, Record
  <1>2. ASSUME NEW a \in Actors, Arrive(a) \/ TakeTurn(a) PROVE HolderMoved
    BY <1>2 DEF HolderMoved, Arrive, Ask, AskE2b, TakeTurn, Seek, TakeAcquire, TakeUse, TakeRebuild,
                TakeDestroy, TakeKill, TakeConnect, TakeTraffic, TakeCreate, TakePause
  <1>3. ASSUME NEW i \in Ids, Scan(i) PROVE HolderMoved
    BY <1>3 DEF HolderMoved, Scan, ScanFreeze, ScanStop, ScanExpire, ScanArchive
  <1>4. ASSUME NEW i \in Ids, RestoreStep(i) PROVE HolderMoved
    <2>1. CASE Import(i) \/ Usurped(i) \/ StartRestored(i) \/ Undo(i)
      <3>1. row[i] \in {"restoring", "absent"}
        BY <2>1 DEF IInv, RestoreRow, Import, Usurped, StartRestored, Undo
      <3>2. PICK s, d : shell' = [shell EXCEPT ![i] = s] /\ disk' = [disk EXCEPT ![i] = d]
        BY <2>1 DEF Import, Usurped, StartRestored, RestoreVerb, Undo, IInv, TypeOK
      <3> QED BY <3>1, <3>2 DEF HolderMoved, IInv, TypeOK
    <2>2. CASE UNCHANGED body
      BY <2>2 DEF HolderMoved
    <2> QED
      BY <1>4, <2>1, <2>2 DEF RestoreStep, Unmade, Fetch, TakeFinish, Restored, DeleteObject, Revert
  <1>5. CASE Environment
    BY <1>5 DEF HolderMoved, Environment, SwitchStore, Die, Prune, LandLate, IInv, TypeOK
  <1>6. CASE Crash
    BY <1>6 DEF HolderMoved, Crash
  <1> QED BY <1>1, <1>2, <1>3, <1>4, <1>5, <1>6 DEF Next, Traffic

(* A hot sandbox's shell and disk move only by the slot's holder or by the
   environment: no clean-up of a restore outside the slot reaches them. *)
THEOREM HolderMoves == ASSUME ~SlowDelete PROVE Spec => OnlyHolderMoves
  <1>1. IInv /\ [Next]_vars => [HolderMoved]_vars
    BY StepMoves DEF HolderMoved
  <1> QED BY <1>1, Inductive, PTL DEF Spec, OnlyHolderMoves

-----------------------------------------------------------------------------
(* What the verbs that look at the row before they queue can break, and they
   alone *)

(* Only E2B connect and create and the data plane's traffic wake a row they
   have not looked at in the slot. *)
LEMMA BugStep ==
  ASSUME IInv, [Next]_vars, NEW c \in Actors, pc[c] # "bug", pc'[c] = "bug"
  PROVE  op[c] \in EarlyLookers
  <1> USE DEF IInv, TypeOK
  <1>1. ASSUME NEW a \in Actors, Arrive(a) PROVE FALSE
    BY <1>1 DEF Arrive, Ask, AskE2b, Rest
  <1>2. ASSUME NEW a \in Actors, TakeTurn(a) PROVE op[c] \in EarlyLookers
    <2>1. ASSUME NEW i \in Named, row[i] \notin ColdStorage, Wake(a, i)
          PROVE  \E p \in Working : pc' = [pc EXCEPT ![a] = p]
      BY <2>1 DEF Wake, Enter, L!SandboxStates
    <2>2. CASE TakeAcquire(a) BY <2>1, <2>2 DEF TakeAcquire, Birth, Enter, Refuse, Rest
    <2>3. CASE TakeUse(a) BY <2>1, <2>3 DEF TakeUse, Refuse, Rest
    <2>4. CASE Seek(a) \/ TakeRebuild(a) \/ TakeDestroy(a) \/ TakeKill(a) \/ TakePause(a)
      BY <2>4 DEF Seek, TakeRebuild, TakeDestroy, TakeKill, TakePause, Destroy, Enter, Refuse, Rest, Goto
    <2>5. CASE TakeConnect(a) \/ TakeTraffic(a) \/ TakeCreate(a)
      <3>1. op[a] \in EarlyLookers BY <2>5 DEF TakeConnect, TakeTraffic, TakeCreate, Turn, EarlyLookers
      <3>2. \A b \in Actors \ {a} : pc'[b] = pc[b]
        BY <2>5 DEF TakeConnect, TakeTraffic, TakeCreate, Wake, Birth, Destroy, Enter, Refuse, Rest
      <3> QED BY <3>1, <3>2
    <2> QED BY <1>2, <2>2, <2>3, <2>4, <2>5 DEF TakeTurn
  <1>3. ASSUME NEW a \in Actors, Work(a) PROVE FALSE
    <2>1. \E p \in Working \cup Waiting \cup {"done", "ready"} : pc' = [pc EXCEPT ![a] = p]
      BY <1>3 DEF Work, Rejoin, Provisioning, Launching, Created, Probe, RecordDeath, WakeCold, Swapped, Boot,
                  Awaken, Rebuilding, Rebuilt, Freezing, Frozen, Stopping, Stopped, Demolishing, Erasing,
                  Forget, Exporting, Uploading, Confirm, Clearing, Verb, Shelled, Record, Enter, Goto,
                  Answer, Rest
    <2> QED BY <2>1
  <1>4. ASSUME NEW i \in Ids, Scan(i) PROVE FALSE
    BY <1>4 DEF Scan, ScanFreeze, ScanStop, ScanExpire, ScanArchive, Destroy, Enter, Refuse, Rest
  <1>5. ASSUME NEW i \in Ids, RestoreStep(i) PROVE FALSE
    <2>1. CASE UNCHANGED pc BY <2>1
    <2>2. CASE \E ok \in BOOLEAN : EndRestore(i, ok) BY <2>2 DEF EndRestore
    <2> QED BY <1>5, <2>1, <2>2 DEF RestoreStep, Unmade, Fetch, Import, TakeFinish, Usurped, StartRestored,
                                    Restored, DeleteObject, Undo, Revert, RestoreVerb
  <1>6. CASE Environment \/ Crash \/ UNCHANGED vars
    BY <1>6 DEF Environment, SwitchStore, Die, Prune, LandLate, Crash, vars
  <1> QED BY <1>1, <1>2, <1>3, <1>4, <1>5, <1>6 DEF Next, Traffic

(* "Every legitimate path branches to the archiver before landing here": true
   of acquire and every native verb, the scanner and the restore task; who
   lands there is an E2B connect or create, an envd wake or the proxy's,
   whose detour, if any, was taken before it queued. *)
THEOREM CallerBugsLookEarly ==
  ASSUME ~SlowDelete
  PROVE  Spec => [][\A a \in Actors : pc[a] # "bug" /\ pc'[a] = "bug" => op[a] \in EarlyLookers]_vars
  <1>1. IInv /\ [Next]_vars => [\A a \in Actors : pc[a] # "bug" /\ pc'[a] = "bug" => op[a] \in EarlyLookers]_vars
    BY BugStep
  <1> QED BY <1>1, Inductive, PTL DEF Spec

(* A row comes to be restoring in a free slot only. *)
LEMMA RestoringBegins ==
  ASSUME IInv, [Next]_vars, NEW i \in Ids, row'[i] = "restoring", row[i] # "restoring"
  PROVE  slot = Free
  <1> USE DEF IInv, TypeOK
  <1>1. ASSUME NEW a \in Actors, TakeTurn(a) PROVE slot = Free
    BY <1>1 DEF TakeTurn, Seek, TakeAcquire, TakeUse, TakeRebuild, TakeDestroy, TakeKill, TakeConnect, TakeTraffic,
                TakeCreate, TakePause, Turn
  <1>2. ASSUME NEW a \in Actors, Work(a) PROVE FALSE
    <2>1. \/ row' = row
          \/ \E j \in Ids, to \in {"active", "frozen", "stopped", "archived", "absent"} :
               row' = [row EXCEPT ![j] = to]
      <3>1. CASE Created(a) \/ RecordDeath(a) \/ Forget(a)
        BY <3>1 DEF Created, RecordDeath, Forget, L!Insert, OnKnown
      <3>2. CASE Swapped(a) \/ Rebuilt(a) \/ Awaken(a) \/ Frozen(a) \/ Stopped(a) \/ Confirm(a)
        BY <3>2 DEF Swapped, Rebuilt, Awaken, Frozen, Stopped, Confirm, Shelled, Record, L!Move, OnKnown
      <3>3. CASE UNCHANGED rows BY <3>3
      <3> QED
        BY <1>2, <3>1, <3>2, <3>3 DEF Work, Rejoin, Provisioning, Launching, Probe, WakeCold, Boot, Rebuilding,
           Freezing, Stopping, Demolishing, Erasing, Exporting, Uploading, Clearing, Verb
    <2> QED BY <2>1
  <1>3. ASSUME NEW a \in Actors, Arrive(a) PROVE FALSE
    BY <1>3 DEF Arrive, Ask, AskE2b
  <1>4. ASSUME NEW j \in Ids, Scan(j) PROVE FALSE
    BY <1>4 DEF Scan, ScanFreeze, ScanStop, ScanExpire, ScanArchive
  <1>5. ASSUME NEW j \in Ids, RestoreStep(j) PROVE FALSE
    <2>1. CASE \E to \in {"active", "archived"} : L!Move(j, to) BY <2>1 DEF L!Move
    <2>2. CASE UNCHANGED row BY <2>2
    <2> QED BY <1>5, <2>1, <2>2 DEF RestoreStep, Restored, Revert, Unmade, Fetch, Import, TakeFinish, Usurped, StartRestored,
                                    DeleteObject, Undo, RestoreVerb
  <1>6. CASE Environment \/ Crash \/ UNCHANGED vars
    BY <1>6 DEF Environment, SwitchStore, Die, Prune, LandLate, Crash, vars
  <1> QED BY <1>1, <1>2, <1>3, <1>4, <1>5, <1>6 DEF Next, Traffic

(* A teardown goes on with its row, or begins with one that is not
   restoring: only E2B kill and create order one unseen. *)
LEMMA TeardownBegins ==
  ASSUME IInv, [Next]_vars, NEW a \in Actors, pc'[a] \in {"demolish", "erase", "forget"}
  PROVE  \/ pc[a] \in {"demolish", "erase", "forget"} /\ on'[a] = on[a] /\ op'[a] = op[a]
         \/ row[on'[a]] # "restoring" /\ row' = row
         \/ op'[a] \in {"kill", "create"}
  <1> DEFINE Goal == \/ pc[a] \in {"demolish", "erase", "forget"} /\ on'[a] = on[a] /\ op'[a] = op[a]
                     \/ row[on'[a]] # "restoring" /\ row' = row
                     \/ op'[a] \in {"kill", "create"}
  <1> USE DEF IInv, TypeOK
  <1>1. ASSUME NEW b \in Actors, Arrive(b) PROVE Goal
    BY <1>1 DEF Arrive, Ask, AskE2b, Rest
  <1>2. ASSUME NEW b \in Actors, TakeTurn(b) PROVE Goal
    <2>1. CASE TakeKill(b) \/ TakeCreate(b)
      <3>1. op[b] \in {"kill", "create"} BY <2>1 DEF TakeKill, TakeCreate, Turn
      <3>2. CASE op' = op
        <4>1. \A c \in Actors \ {b} : pc'[c] = pc[c] /\ on'[c] = on[c]
          BY <2>1 DEF TakeKill, TakeCreate, Birth, Wake, Destroy, Enter, Refuse, Rest
        <4> QED BY <3>1, <3>2, <4>1
      <3>3. CASE \E p \in {"done", "bug"} : Rest(b, p) BY <3>3 DEF Rest
      <3> QED BY <2>1, <3>2, <3>3 DEF TakeKill, TakeCreate, Birth, Wake, Destroy, Enter, Refuse
    <2>2. CASE TakeDestroy(b)
      <3>1. row' = row BY <2>2 DEF TakeDestroy
      <3>2. \A c \in Actors \ {b} : pc'[c] = pc[c] /\ on'[c] = on[c] /\ op'[c] = op[c]
        BY <2>2 DEF TakeDestroy, Destroy, Enter, Refuse, Rest
      <3>3. pc'[b] \in {"demolish", "erase"} => row[on'[b]] # "restoring"
        BY <2>2 DEF TakeDestroy, Destroy, Enter, Refuse, Rest
      <3>4. pc'[b] # "forget" BY <2>2 DEF TakeDestroy, Destroy, Enter, Refuse, Rest
      <3> QED BY <3>1, <3>2, <3>3, <3>4
    <2>3. CASE Seek(b) \/ TakeRebuild(b) \/ TakePause(b)
      BY <2>3 DEF Seek, TakeRebuild, TakePause, Enter, Refuse, Rest, Goto
    <2>4. CASE TakeAcquire(b) BY <2>4 DEF TakeAcquire, Birth, Wake, Enter, Refuse, Rest
    <2>5. CASE TakeUse(b) \/ TakeConnect(b) \/ TakeTraffic(b)
      BY <2>5 DEF TakeUse, TakeConnect, TakeTraffic, Wake, Enter, Refuse, Rest
    <2> QED BY <1>2, <2>1, <2>2, <2>3, <2>4, <2>5 DEF TakeTurn
  <1>3. ASSUME NEW b \in Actors, Work(b) PROVE Goal
    <2>1. CASE Demolishing(b) \/ Erasing(b)
      BY <2>1 DEF Demolishing, Erasing, Verb, Goto, Answer, Rest
    <2>2. CASE \/ Rejoin(b) \/ Provisioning(b) \/ Launching(b) \/ WakeCold(b) \/ Boot(b) \/ Rebuilding(b)
               \/ Freezing(b) \/ Stopping(b) \/ Exporting(b)
      <3>1. ASSUME NEW outcomes, NEW next, next \notin {"demolish", "erase", "forget"}, Verb(b, outcomes, next)
            PROVE  Goal
        BY <3>1 DEF Verb, Goto, Answer, Rest
      <3>2. CASE Rejoin(b) BY <3>2 DEF Rejoin, Goto
      <3> QED BY <2>2, <3>1, <3>2 DEF Provisioning, Launching, WakeCold, Boot, Rebuilding, Freezing, Stopping,
                                      Exporting
    <2>3. CASE \/ Swapped(b) \/ Awaken(b) \/ Rebuilt(b) \/ Frozen(b) \/ Stopped(b) \/ Confirm(b)
      BY <2>3 DEF Swapped, Awaken, Rebuilt, Frozen, Stopped, Confirm, Shelled, Record, Goto, Answer, Rest
    <2>4. CASE \/ Created(b) \/ Probe(b) \/ RecordDeath(b) \/ Forget(b) \/ Uploading(b) \/ Clearing(b)
      BY <2>4 DEF Created, Probe, RecordDeath, Forget, Uploading, Clearing, Enter, Goto, Answer, Rest
    <2> QED BY <1>3, <2>1, <2>2, <2>3, <2>4 DEF Work
  <1>4. ASSUME NEW i \in Ids, Scan(i) PROVE Goal
    BY <1>4 DEF Scan, ScanFreeze, ScanStop, ScanExpire, ScanArchive, Sweep, Destroy, Enter, Refuse, Rest
  <1>5. ASSUME NEW i \in Ids, RestoreStep(i) PROVE Goal
    <2>1. CASE UNCHANGED <<pc, op, on>> BY <2>1
    <2>2. CASE \E ok \in BOOLEAN : EndRestore(i, ok) BY <2>2 DEF EndRestore
    <2> QED BY <1>5, <2>1, <2>2 DEF RestoreStep, Unmade, Fetch, Import, TakeFinish, Usurped, StartRestored,
                                    Restored, DeleteObject, Undo, Revert, RestoreVerb
  <1>6. CASE Environment \/ Crash \/ UNCHANGED vars
    BY <1>6 DEF Environment, SwitchStore, Die, Prune, LandLate, Crash, vars
  <1> QED BY <1>1, <1>2, <1>3, <1>4, <1>5, <1>6 DEF Next, Traffic

(* So no other teardown in the slot is ever of a restoring row. *)
LEMMA SparedStep == ASSUME IInv, Spared, [Next]_vars PROVE Spared'
  <1> SUFFICES ASSUME NEW a \in Actors, pc'[a] \in {"demolish", "erase", "forget"},
                      row'[on'[a]] = "restoring", op'[a] \notin {"kill", "create"}
               PROVE  FALSE
    BY DEF Spared
  <1>1. pc[a] \in {"demolish", "erase", "forget"} /\ on'[a] = on[a] /\ op'[a] = op[a]
    BY TeardownBegins
  <1>2. slot = a /\ on[a] \in Ids /\ row[on[a]] # "restoring"
    BY <1>1 DEF IInv, SlotHeld, OnKnown, Spared
  <1> QED BY <1>1, <1>2, RestoringBegins, NamesAssumption

(* Who ends a restoring state is the restore task, by its commit or its
   revert, or a teardown. *)
LEMMA RestoringEnds ==
  ASSUME IInv, [Next]_vars, NEW i \in Ids, row[i] = "restoring", row'[i] # "restoring"
  PROVE  \/ restore[i] \in {"commit", "revert"} /\ restore'[i] # restore[i]
         \/ \E a \in Actors : pc[a] = "forget" /\ on[a] = i /\ row'[i] = "absent"
  <1> USE DEF IInv, TypeOK
  <1>1. ASSUME NEW a \in Actors, TakeTurn(a) PROVE FALSE
    <2>1. CASE Seek(a) \/ TakeAcquire(a)
      BY <1>1, <2>1 DEF Seek, TakeAcquire, BeginRestore, L!Move
    <2>2. CASE UNCHANGED row BY <2>2
    <2> QED BY <1>1, <2>1, <2>2 DEF TakeTurn, TakeUse, TakeRebuild, TakeDestroy, TakeKill, TakeConnect, TakeTraffic,
                                    TakeCreate, TakePause
  <1>2. ASSUME NEW a \in Actors, Work(a) PROVE pc[a] = "forget" /\ on[a] = i /\ row'[i] = "absent"
    <2>1. CASE Created(a) BY <2>1 DEF Created, L!Insert
    <2>2. CASE RecordDeath(a) BY <2>2 DEF RecordDeath, CommitsLegal
    <2>3. CASE Forget(a) BY <2>3 DEF Forget
    <2>4. CASE Swapped(a) \/ Rebuilt(a)
      BY <2>4 DEF Swapped, Rebuilt, Shelled, Record, L!Move, CommitsLegal
    <2>5. CASE Awaken(a) \/ Frozen(a) \/ Stopped(a) \/ Confirm(a)
      BY <2>5 DEF Awaken, Frozen, Stopped, Confirm, Record, L!Move, CommitsLegal
    <2>6. CASE UNCHANGED rows BY <2>6
    <2> QED
      BY <1>2, <2>1, <2>2, <2>3, <2>4, <2>5, <2>6 DEF Work, Rejoin, Provisioning, Launching, Probe, WakeCold,
         Boot, Rebuilding, Freezing, Stopping, Demolishing, Erasing, Exporting, Uploading, Clearing, Verb
  <1>3. ASSUME NEW a \in Actors, Arrive(a) PROVE FALSE
    BY <1>3 DEF Arrive, Ask, AskE2b
  <1>4. ASSUME NEW j \in Ids, Scan(j) PROVE FALSE
    BY <1>4 DEF Scan, ScanFreeze, ScanStop, ScanExpire, ScanArchive
  <1>5. ASSUME NEW j \in Ids, RestoreStep(j)
        PROVE  restore[i] \in {"commit", "revert"} /\ restore'[i] # restore[i]
    <2>1. CASE Restored(j) BY <2>1 DEF Restored, L!Move, Advance
    <2>2. CASE Revert(j) BY <2>2 DEF Revert, L!Move, EndRestore
    <2>3. CASE UNCHANGED rows BY <2>3
    <2> QED BY <1>5, <2>1, <2>2, <2>3 DEF RestoreStep, Unmade, Fetch, Import, TakeFinish, Usurped,
                                    StartRestored, DeleteObject, Undo, RestoreVerb
  <1>6. CASE Environment \/ Crash \/ UNCHANGED vars
    BY <1>6 DEF Environment, SwitchStore, Die, Prune, LandLate, Crash, vars
  <1> QED BY <1>1, <1>2, <1>3, <1>4, <1>5, <1>6 DEF Next, Traffic

(* "The restoring state belongs to the restore task alone": but for the E2B
   kill and create that find it restoring in the slot. *)
THEOREM RestoringIsOwned ==
  ASSUME ~SlowDelete PROVE Spec => RestoringOwned
  <1>1. Init => Spared BY DEF Init, Spared
  <1>2. IInv /\ Spared /\ [Next]_vars => Spared' BY SparedStep
  <1> DEFINE Owned(i) == row[i] = "restoring" /\ row'[i] # "restoring" =>
        \/ TaskEnds(i)
        \/ row'[i] = "absent" /\ \E a \in Actors : slot = a /\ on[a] = i /\ op[a] \in {"kill", "create"}
  <1>3. IInv /\ Spared /\ [Next]_vars => [\A i \in Ids : Owned(i)]_vars
    <2> SUFFICES ASSUME IInv, Spared, [Next]_vars, NEW i \in Ids, row[i] = "restoring", row'[i] # "restoring"
                 PROVE  \/ TaskEnds(i)
                        \/ row'[i] = "absent" /\ \E a \in Actors : slot = a /\ on[a] = i /\ op[a] \in {"kill", "create"}
      OBVIOUS
    <2>1. CASE TaskEnds(i) BY <2>1
    <2>2. ASSUME NEW a \in Actors, pc[a] = "forget", on[a] = i, row'[i] = "absent"
          PROVE  slot = a /\ op[a] \in {"kill", "create"}
      BY <2>2 DEF Spared, IInv, SlotHeld
    <2> QED BY <2>1, <2>2, RestoringEnds DEF TaskEnds
  <1> QED BY <1>1, <1>2, <1>3, Inductive, PTL DEF Spec, RestoringOwned

-----------------------------------------------------------------------------
(* What "ready" says of the container, while nothing is disturbed and no
   verb lands late *)

(* Then a freeze, a thaw, a start, a launch and a swap that fail leave the
   shell as it was, paused or down, and one that brings a shell up has it
   running. *)
LEMMA PunctualVerbs ==
  ASSUME ~Misfires, NEW s \in E!Shells, NEW d \in E!Disks
  PROVE  /\ \A r \in E!Freeze(s, d) : r.ok \/ r.shell \in {s, "paused"}
         /\ \A r \in E!RemoveContainer(s, d) :
              r.ok \/ r.shell \in {s, "stopped"} \/ (s = "paused" /\ r.shell = "running")
         /\ \A r \in E!Unfreeze(s, d) \cup E!Start(s, d) \cup E!Launch(s, d) :
              r.ok => r.shell = "running"
         /\ \A r \in E!Provision(s, d) \cup E!ImportDisk(s, d) \cup E!RemoveDisk(s, d) : r.shell = s
  BY DEF E!Freeze, E!RemoveContainer, E!Downfall, E!Unfreeze, E!Start, E!Launch, E!Provision,
         E!ImportDisk, E!RemoveDisk, E!Done, E!Failed, E!Landed

(* A step that moves no shell, makes no row active and brings nobody near a
   ledger write disturbs neither fact. *)
LEMMA ShellsKept ==
  ASSUME IInv, Lively, Risen, shell' = shell, condemned \subseteq condemned',
         \A i \in Ids : row'[i] = "active" => row[i] = "active",
         \A i \in Ids : restore'[i] = "commit" => restore[i] = "commit",
         \A a \in Actors :
           \/ pc'[a] = pc[a] /\ on'[a] = on[a]
           \/ {pc[a], pc'[a]} \cap {"frozen", "swapped", "rebuilt", "awaken", "record"} = {}
  PROVE  Lively' /\ Risen'
  <1>1. Risen' BY DEF Risen
  <1>2. \A i \in Ids, a \in Actors :
          on[a] = i /\ pc[a] \in {"frozen", "swapped", "rebuilt"} => on'[a] = i /\ pc'[a] = pc[a]
    OBVIOUS
  <1>3. Lively' BY <1>2 DEF Lively
  <1> QED BY <1>1, <1>3

(* The slot's holder moves its own sandbox and writes its own row; what
   it leaves is to be as alive as the row will say. *)
LEMMA HolderKeepsLively ==
  ASSUME IInv, Lively, Risen, NEW a \in Actors, slot = a, NEW s, NEW to,
         shell' = [shell EXCEPT ![on[a]] = s], row' = [row EXCEPT ![on[a]] = to],
         condemned' = condemned, restore' = restore,
         \A b \in Actors \ {a} : pc'[b] = pc[b] /\ on'[b] = on[b],
         pc'[a] \in {"awaken", "record"} => on'[a] = on[a] /\ s = "running",
         \/ to # "active" \/ on[a] \in condemned \/ s # "none"
         \/ on'[a] = on[a] /\ pc'[a] \in {"frozen", "swapped", "rebuilt"}
  PROVE  Lively' /\ Risen'
  <1>1. on[a] \in Ids /\ \A b \in Actors \ {a} : pc'[b] \notin Working
    BY DEF IInv, SlotHeld, OnKnown
  <1>2. \A i \in Ids : restore[i] # "commit"
    BY DEF IInv, SlotHeld
  <1>3. Risen' BY <1>1, <1>2 DEF Risen, IInv, TypeOK
  <1>4. ASSUME NEW i \in Ids \ condemned, row'[i] = "active",
               \A b \in Actors : on'[b] = i => pc'[b] \notin {"frozen", "swapped", "rebuilt"}
        PROVE  shell'[i] # "none"
    <2>1. CASE i = on[a] BY <1>1, <1>4, <2>1 DEF IInv, TypeOK
    <2>2. CASE i # on[a]
      <3>1. row[i] = "active" /\ shell'[i] = shell[i] BY <1>4, <2>2 DEF IInv, TypeOK
      <3>2. \A b \in Actors : on[b] = i => pc[b] \notin {"frozen", "swapped", "rebuilt"}
        BY <1>1, <1>4, <2>2
      <3> QED BY <3>1, <3>2 DEF Lively
    <2> QED BY <2>1, <2>2
  <1> QED BY <1>3, <1>4 DEF Lively

(* Requests, turns and the scanner's entries move no shell. *)
LEMMA EntriesKeepLively ==
  ASSUME IInv, Lively, Risen,
         \/ \E a \in Actors : Arrive(a) \/ TakeTurn(a)
         \/ \E i \in Ids : Scan(i)
  PROVE  Lively' /\ Risen'
  <1> DEFINE Far(a) == \/ pc'[a] = pc[a] /\ on'[a] = on[a]
                       \/ {pc[a], pc'[a]} \cap {"frozen", "swapped", "rebuilt", "awaken", "record"} = {}
             Kept == /\ shell' = shell /\ condemned \subseteq condemned'
                     /\ \A i \in Ids : row'[i] = "active" => row[i] = "active"
                     /\ \A i \in Ids : restore'[i] = "commit" => restore[i] = "commit"
  <1> USE DEF IInv, TypeOK
  <1>1. ASSUME NEW a \in Actors, Arrive(a) PROVE Kept /\ \A b \in Actors : Far(b)
    BY <1>1 DEF Arrive, Ask, AskE2b, Rest
  <1>2. ASSUME NEW a \in Actors, TakeTurn(a) PROVE Kept /\ \A b \in Actors : Far(b)
    <2>1. Kept
      <3>1. CASE Seek(a) \/ TakeAcquire(a)
        <4>1. shell' = shell /\ condemned' = condemned BY <3>1 DEF Seek, TakeAcquire
        <4>2. UNCHANGED <<row, restore>> \/ \E i \in Ids : BeginRestore(i)
          BY <3>1 DEF Seek, TakeAcquire, OnKnown
        <4>3. CASE UNCHANGED <<row, restore>> BY <4>1, <4>3
        <4>4. ASSUME NEW i \in Ids, BeginRestore(i) PROVE Kept
          <5>1. row' = row \/ row' = [row EXCEPT ![i] = "restoring"] BY <4>4 DEF BeginRestore, L!Move
          <5>2. restore' = restore \/ \E p \in {"get", "off"} : restore' = [restore EXCEPT ![i] = p]
            BY <4>4 DEF BeginRestore
          <5> QED BY <4>1, <5>1, <5>2
        <4> QED BY <4>2, <4>3, <4>4
      <3>2. CASE TakeUse(a) \/ TakeRebuild(a) \/ TakeConnect(a) \/ TakeTraffic(a) \/ TakePause(a)
        BY <3>2 DEF TakeUse, TakeRebuild, TakeConnect, TakeTraffic, TakePause
      <3>3. CASE TakeDestroy(a) \/ TakeKill(a) \/ TakeCreate(a)
        BY <3>3 DEF TakeDestroy, TakeKill, TakeCreate, Destroy
      <3> QED BY <1>2, <3>1, <3>2, <3>3 DEF TakeTurn
    <2>2. /\ pc[a] \in Waiting
          /\ \E p \in (Idle \cup Waiting \cup Working) \ {"frozen", "swapped", "rebuilt", "awaken", "record"} :
               pc' = [pc EXCEPT ![a] = p]
          /\ \A b \in Actors \ {a} : on'[b] = on[b]
      <3> USE DEF Enter, Refuse, Rest, Goto, Turn
      <3>1. CASE Seek(a) \/ TakeRebuild(a) \/ TakePause(a) BY <3>1 DEF Seek, TakeRebuild, TakePause
      <3>2. CASE TakeAcquire(a) BY <3>2 DEF TakeAcquire, Birth, Wake
      <3>3. CASE TakeUse(a) \/ TakeConnect(a) \/ TakeTraffic(a)
        BY <3>3 DEF TakeUse, TakeConnect, TakeTraffic, Wake
      <3>4. CASE TakeDestroy(a) \/ TakeKill(a) BY <3>4 DEF TakeDestroy, TakeKill, Destroy
      <3>5. CASE TakeCreate(a) BY <3>5 DEF TakeCreate, Birth, Wake, Destroy
      <3> QED BY <1>2, <3>1, <3>2, <3>3, <3>4, <3>5 DEF TakeTurn
    <2>3. \A b \in Actors : Far(b) BY <2>2
    <2> QED BY <2>1, <2>3
  <1>3. ASSUME NEW i \in Ids, Scan(i) PROVE Kept /\ \A b \in Actors : Far(b)
    BY <1>3 DEF Scan, ScanFreeze, ScanStop, ScanExpire, ScanArchive, Sweep, Destroy, Enter, Refuse, Rest
  <1>4. Kept /\ \A b \in Actors : Far(b) BY <1>1, <1>2, <1>3
  <1> QED BY <1>4, ShellsKept

(* The steps in the slot bring a shell up before they say so, and say it is
   down before anybody else may look. *)
LEMMA WorkKeepsLively ==
  ASSUME ~Misfires, IInv, Lively, Risen, NEW a \in Actors, Work(a) PROVE Lively' /\ Risen'
  <1> USE DEF IInv, TypeOK
  <1>1. CASE Rejoin(a)
    BY <1>1, ShellsKept DEF Rejoin, Goto
  <1> SUFFICES ASSUME ~Rejoin(a) PROVE Lively' /\ Risen'
    BY <1>1
  <1>2. slot = a /\ on[a] \in Ids /\ shell[on[a]] \in E!Shells /\ disk[on[a]] \in E!Disks
    BY DEF SlotHeld, OnKnown, Work, Provisioning, Launching, Created, Probe, RecordDeath, WakeCold, Swapped, Boot,
           Awaken, Rebuilding, Rebuilt, Freezing, Frozen, Stopping, Stopped, Demolishing, Erasing,
           Forget, Exporting, Uploading, Confirm, Clearing
  <1>3. ASSUME NEW outcomes, NEW next, Verb(a, outcomes, next),
               \A r \in outcomes : r.ok /\ next \in {"awaken", "record"} => r.shell = "running",
               \A r \in outcomes : \/ row[on[a]] # "active" \/ on[a] \in condemned
                                   \/ r.shell # "none"
                                   \/ r.ok /\ next \in {"frozen", "swapped", "rebuilt"}
        PROVE  Lively' /\ Risen'
    <2>1. PICK r \in outcomes :
            /\ shell' = [shell EXCEPT ![on[a]] = r.shell]
            /\ IF r.ok THEN Goto(a, next) ELSE Rest(a, "done")
            /\ UNCHANGED <<row, restore, condemned>>
      BY <1>3 DEF Verb, Answer
    <2>2. row' = [row EXCEPT ![on[a]] = row[on[a]]] BY <2>1
    <2>3. \A b \in Actors \ {a} : pc'[b] = pc[b] /\ on'[b] = on[b] BY <2>1 DEF Goto, Rest
    <2>4. r.ok => pc'[a] = next /\ on'[a] = on[a] BY <2>1 DEF Goto
    <2>5. ~r.ok => pc'[a] = "done" BY <2>1 DEF Rest
    <2>6. pc'[a] \in {"awaken", "record"} => on'[a] = on[a] /\ r.shell = "running"
      BY <1>3, <2>4, <2>5
    <2>7. \/ row[on[a]] # "active" \/ on[a] \in condemned \/ r.shell # "none"
          \/ on'[a] = on[a] /\ pc'[a] \in {"frozen", "swapped", "rebuilt"}
      BY <1>3, <2>4
    <2>8. shell' = [shell EXCEPT ![on[a]] = r.shell] /\ condemned' = condemned /\ restore' = restore
      BY <2>1
    <2> QED BY <1>2, <2>2, <2>3, <2>6, <2>7, <2>8, HolderKeepsLively
  <1>4. CASE Provisioning(a) \/ Launching(a)
    <2>1. row[on[a]] # "active" BY <1>2, <1>4 DEF CommitsLegal, Provisioning, Launching
    <2>2. CASE Provisioning(a) BY <1>3, <2>1, <2>2 DEF Provisioning
    <2>3. CASE Launching(a)
      <3>1. \A r \in E!Launch(shell[on[a]], disk[on[a]]) : r.ok => r.shell = "running"
        BY <1>2, PunctualVerbs
      <3> QED BY <1>3, <2>1, <2>3, <3>1 DEF Launching
    <2> QED BY <1>4, <2>2, <2>3
  <1>5. CASE WakeCold(a) \/ Boot(a)
    <2>1. row[on[a]] # "active" BY <1>2, <1>5 DEF CommitsLegal, WakeCold, Boot
    <2>2. \A r \in E!Unfreeze(shell[on[a]], disk[on[a]]) \cup E!Start(shell[on[a]], disk[on[a]]) :
            r.ok => r.shell = "running"
      BY <1>2, PunctualVerbs
    <2>3. CASE WakeCold(a) BY <1>3, <2>1, <2>2, <2>3 DEF WakeCold
    <2>4. CASE Boot(a) BY <1>3, <2>1, <2>2, <2>4 DEF Boot
    <2> QED BY <1>5, <2>3, <2>4
  <1>6. CASE Stopping(a) \/ Exporting(a)
    <2>1. row[on[a]] # "active" BY <1>2, <1>6 DEF CommitsLegal, Stopping, Exporting
    <2> QED BY <1>2, <1>3, <1>6, <2>1 DEF Stopping, Exporting
  <1>7. CASE Rebuilding(a) \/ Freezing(a)
    <2>1. \/ row[on[a]] # "active" \/ on[a] \in condemned
          \/ shell[on[a]] # "none"
      <3>1. \A b \in Actors : on[b] = on[a] => pc[b] \notin {"frozen", "swapped", "rebuilt"}
        BY <1>2, <1>7 DEF SlotHeld, Rebuilding, Freezing
      <3> QED BY <1>2, <3>1 DEF Lively
    <2>2. CASE Rebuilding(a)
      <3>1. \A r \in E!RemoveContainer(shell[on[a]], disk[on[a]]) :
              \/ row[on[a]] # "active" \/ on[a] \in condemned
              \/ r.shell # "none" \/ r.ok
        BY <1>2, <2>1, PunctualVerbs
      <3> QED BY <1>3, <2>2, <3>1 DEF Rebuilding
    <2>3. CASE Freezing(a)
      <3>1. \A r \in E!Freeze(shell[on[a]], disk[on[a]]) :
              \/ row[on[a]] # "active" \/ on[a] \in condemned
              \/ r.shell # "none" \/ r.ok
        BY <1>2, <2>1, PunctualVerbs
      <3> QED BY <1>3, <2>3, <3>1 DEF Freezing
    <2> QED BY <1>7, <2>2, <2>3
  <1>8. CASE Demolishing(a)
    <2>1. on[a] \in condemned BY <1>8 DEF Doomed, Demolishing
    <2> QED BY <1>3, <1>8, <2>1 DEF Demolishing
  <1>9. CASE Created(a) \/ Awaken(a)
    <2>1. shell[on[a]] = "running" BY <1>9 DEF Risen, Created, Awaken
    <2>2. /\ shell' = [shell EXCEPT ![on[a]] = "running"] /\ row' = [row EXCEPT ![on[a]] = "active"]
          /\ UNCHANGED <<restore, condemned>>
      BY <1>9, <2>1 DEF Created, Awaken, Record, L!Insert, L!Move
    <2>3. Rest(a, "ready") BY <1>9 DEF Created, Awaken, Record, Answer
    <2>4. pc'[a] = "ready" /\ \A b \in Actors \ {a} : pc'[b] = pc[b] /\ on'[b] = on[b] BY <2>3 DEF Rest
    <2> QED BY <1>2, <2>1, <2>2, <2>4, HolderKeepsLively
  <1>10. CASE RecordDeath(a) \/ Swapped(a) \/ Rebuilt(a) \/ Frozen(a) \/ Stopped(a) \/ Confirm(a)
    <2>1. /\ shell' = [shell EXCEPT ![on[a]] = shell[on[a]]]
          /\ \E to \in {"frozen", "stopped", "archived"} : row' = [row EXCEPT ![on[a]] = to]
          /\ UNCHANGED <<restore, condemned>>
      <3>1. CASE Swapped(a) \/ Rebuilt(a)
        BY <1>2, <3>1 DEF Swapped, Rebuilt, Shelled, Record, L!Move
      <3>2. CASE ~(Swapped(a) \/ Rebuilt(a))
        BY <1>2, <1>10, <3>2 DEF RecordDeath, Frozen, Stopped, Confirm, Record, L!Move
      <3> QED BY <3>1, <3>2
    <2>2. /\ \A b \in Actors \ {a} : pc'[b] = pc[b] /\ on'[b] = on[b]
          /\ pc'[a] \notin {"awaken", "record"}
      BY <1>2, <1>10 DEF RecordDeath, Swapped, Rebuilt, Frozen, Stopped, Confirm, Shelled, Record,
                         Goto, Answer, Rest
    <2> QED BY <1>2, <2>1, <2>2, HolderKeepsLively
  <1>11. CASE Clearing(a)
    <2>1. row[on[a]] # "active" BY <1>2, <1>11 DEF CommitsLegal, Clearing
    <2>2. PICK s : shell' = [shell EXCEPT ![on[a]] = s] BY <1>11 DEF Clearing
    <2>3. row' = [row EXCEPT ![on[a]] = row[on[a]]] /\ UNCHANGED <<restore, condemned>>
      BY <1>11 DEF Clearing
    <2>4. pc'[a] = "done" /\ \A b \in Actors \ {a} : pc'[b] = pc[b] /\ on'[b] = on[b]
      BY <1>11 DEF Clearing, Answer, Rest
    <2> QED BY <1>2, <2>1, <2>2, <2>3, <2>4, HolderKeepsLively
  <1>12. CASE Forget(a)
    <2>1. /\ shell' = shell /\ row' = [row EXCEPT ![on[a]] = "absent"]
          /\ UNCHANGED <<restore, condemned>>
      BY <1>12 DEF Forget
    <2>2. /\ pc[a] = "forget" /\ pc'[a] \in {"done", "provision"}
          /\ \A b \in Actors \ {a} : pc'[b] = pc[b] /\ on'[b] = on[b]
      BY <1>12 DEF Forget, Enter, Answer, Rest
    <2> QED BY <2>1, <2>2, ShellsKept
  <1>13. CASE Probe(a) \/ Erasing(a) \/ Uploading(a)
    <2>1. UNCHANGED <<shell, row, restore, condemned>>
      BY <1>13 DEF Probe, Erasing, Uploading
    <2>2. /\ pc[a] \in {"probe", "erase", "upload"} /\ pc'[a] \in {"ready", "dead", "done", "forget", "confirm"}
          /\ \A b \in Actors \ {a} : pc'[b] = pc[b] /\ on'[b] = on[b]
      BY <1>13 DEF Probe, Erasing, Uploading, Goto, Answer, Rest
    <2> QED BY <2>1, <2>2, ShellsKept
  <1> QED BY <1>4, <1>5, <1>6, <1>7, <1>8, <1>9, <1>10, <1>11, <1>12, <1>13 DEF Work

(* A restore task works on a row that is not active, starts the shell before
   it commits, and its other steps leave the shell alone. *)
LEMMA RestoreKeepsLively ==
  ASSUME ~Misfires, IInv, Lively, Risen, NEW i \in Ids, RestoreStep(i) PROVE Lively' /\ Risen'
  <1> DEFINE Far(a) == \/ pc'[a] = pc[a] /\ on'[a] = on[a]
                       \/ {pc[a], pc'[a]} \cap {"frozen", "swapped", "rebuilt", "awaken", "record"} = {}
  <1> USE DEF IInv, TypeOK
  <1>1. shell[i] \in E!Shells /\ disk[i] \in E!Disks OBVIOUS
  <1>2. ASSUME NEW ok, EndRestore(i, ok) PROVE \A a \in Actors : Far(a)
    BY <1>2 DEF EndRestore
  <1>3. CASE Unmade(i) \/ DeleteObject(i) \/ Revert(i)
    <2>1. shell' = shell /\ condemned' = condemned BY <1>3 DEF Unmade, DeleteObject, Revert
    <2>2. restore' = [restore EXCEPT ![i] = "off"] /\ \A a \in Actors : Far(a)
      BY <1>2, <1>3 DEF Unmade, DeleteObject, Revert, EndRestore
    <2>3. \A j \in Ids : row'[j] = "active" => row[j] = "active"
      <3>1. row' = row \/ row' = [row EXCEPT ![i] = "archived"]
        BY <1>3 DEF Unmade, DeleteObject, Revert, L!Move
      <3> QED BY <3>1
    <2> QED BY <2>1, <2>2, <2>3, ShellsKept
  <1>4. CASE Fetch(i) \/ TakeFinish(i) \/ Undo(i)
    <2>1. UNCHANGED <<shell, row, condemned, pc, on>> BY <1>4 DEF Fetch, TakeFinish, Undo
    <2>2. \A j \in Ids : restore'[j] = "commit" => restore[j] = "commit"
      BY <1>4 DEF Fetch, TakeFinish, Undo, Advance
    <2> QED BY <2>1, <2>2, ShellsKept
  <1>5. CASE Import(i) \/ Usurped(i)
    <2>1. shell' = shell
      <3>1. PICK r \in E!ImportDisk(shell[i], disk[i]) \cup E!RemoveDisk(shell[i], disk[i]) :
              shell' = [shell EXCEPT ![i] = r.shell]
        BY <1>5 DEF Import, Usurped, RestoreVerb
      <3>2. r.shell = shell[i] BY <1>1, PunctualVerbs
      <3> QED BY <3>1, <3>2
    <2>2. UNCHANGED <<row, condemned, pc, on>> BY <1>5 DEF Import, Usurped, RestoreVerb
    <2>3. \A j \in Ids : restore'[j] = "commit" => restore[j] = "commit"
      BY <1>5 DEF Import, Usurped, RestoreVerb, Advance
    <2> QED BY <2>1, <2>2, <2>3, ShellsKept
  <1>6. CASE StartRestored(i)
    <2>1. PICK r \in E!Start(shell[i], disk[i]) :
            /\ shell' = [shell EXCEPT ![i] = r.shell]
            /\ restore' = [restore EXCEPT ![i] = IF r.ok THEN "commit" ELSE "undo"]
            /\ UNCHANGED <<row, condemned, pc, on>>
      BY <1>6 DEF StartRestored, RestoreVerb, Advance
    <2>2. r.ok => r.shell = "running" BY <1>1, PunctualVerbs
    <2>3. slot = i /\ row[i] = "restoring" BY <1>6 DEF SlotHeld, CommitsLegal, StartRestored
    <2>4. Lively' BY <2>1, <2>3 DEF Lively
    <2>5. \A a \in Actors : pc[a] \notin Working BY <2>3 DEF SlotHeld
    <2>6. \A j \in Ids \ {i} : restore[j] # "commit" BY <2>3 DEF SlotHeld
    <2> QED BY <2>1, <2>2, <2>4, <2>5, <2>6 DEF Risen
  <1>7. CASE Restored(i)
    <2>1. shell[i] = "running" BY <1>7 DEF Risen, Restored
    <2>2. /\ row' = [row EXCEPT ![i] = "active"] /\ restore' = [restore EXCEPT ![i] = "delete"]
          /\ UNCHANGED <<shell, condemned, pc, on>>
      BY <1>7 DEF Restored, L!Move, Advance
    <2> QED BY <2>1, <2>2 DEF Lively, Risen
  <1> QED BY <1>3, <1>4, <1>5, <1>6, <1>7 DEF RestoreStep

(* What has been disturbed is so for good: requests, scanner and restore
   tasks count nothing. *)
LEMMA DisturbedForGood ==
  ASSUME IInv, [Next]_vars, Undisturbed' PROVE Undisturbed /\ ~Environment /\ ~Crash
  <1>1. ~Environment /\ ~Crash
    BY BoundsAssumption DEF Undisturbed, Environment, SwitchStore, Die, Prune, LandLate, Crash, IInv, TypeOK
  <1>2. ASSUME NEW a \in Actors, Arrive(a) \/ TakeTurn(a) PROVE UNCHANGED <<drift, crashes>>
    BY <1>2 DEF Arrive, Ask, AskE2b, TakeTurn, Seek, TakeAcquire, TakeUse, TakeRebuild, TakeDestroy, TakeKill,
                TakeConnect, TakeTraffic, TakeCreate, TakePause
  <1>3. ASSUME NEW a \in Actors, Work(a) PROVE UNCHANGED <<drift, crashes>>
    BY <1>3 DEF Work, Rejoin, Provisioning, Launching, Created, Probe, RecordDeath, WakeCold, Swapped, Boot,
                Awaken, Rebuilding, Rebuilt, Freezing, Frozen, Stopping, Stopped, Demolishing, Erasing,
                Forget, Exporting, Uploading, Confirm, Clearing, Verb, Shelled, Record
  <1>4. ASSUME NEW i \in Ids, Scan(i) \/ RestoreStep(i) PROVE UNCHANGED <<drift, crashes>>
    BY <1>4 DEF Scan, ScanFreeze, ScanStop, ScanExpire, ScanArchive, RestoreStep, Unmade, Fetch, Import,
                TakeFinish, Usurped, StartRestored, Restored, DeleteObject, Undo, Revert, RestoreVerb
  <1>5. CASE UNCHANGED vars BY <1>1, <1>5 DEF vars, Undisturbed
  <1>6. CASE Traffic
    <2>1. UNCHANGED <<drift, crashes>> BY <1>2, <1>3, <1>4, <1>6 DEF Traffic
    <2> QED BY <1>1, <2>1 DEF Undisturbed
  <1> QED BY <1>1, <1>5, <1>6 DEF Next

(* As long as nothing is disturbed, the two facts stand. *)
LEMMA LivelyHolds ==
  ASSUME ~Misfires, IInv, Undisturbed => Lively /\ Risen, [Next]_vars
  PROVE  (Undisturbed => Lively /\ Risen)'
  <1> SUFFICES ASSUME Undisturbed' PROVE Lively' /\ Risen'
    OBVIOUS
  <1>1. Lively /\ Risen /\ ~Environment /\ ~Crash BY DisturbedForGood
  <1>2. CASE UNCHANGED vars
    BY <1>1, <1>2 DEF vars, Lively, Risen
  <1>3. CASE Traffic
    BY <1>1, <1>3, EntriesKeepLively, WorkKeepsLively, RestoreKeepsLively DEF Traffic
  <1> QED BY <1>1, <1>2, <1>3 DEF Next

(* "ready" is answered by a birth or a wake that has brought the shell up, or
   by a probe of an active row's shell that finds it not stopped. *)
LEMMA ReadyStep ==
  ASSUME IInv, Undisturbed => Lively /\ Risen, [Next]_vars, Undisturbed' PROVE ReadyTrue
  <1> USE DEF IInv, TypeOK
  <1> SUFFICES ASSUME NEW a \in Actors, pc[a] # "ready", pc'[a] = "ready", on[a] \notin condemned
               PROVE  /\ row'[on[a]] = "active"
                      /\ shell[on[a]] \in IF pc[a] = "probe" THEN {"running", "paused"} ELSE {"running"}
    BY DEF ReadyTrue
  <1>0. Lively /\ Risen BY DisturbedForGood
  <1>1. Created(a) \/ Awaken(a) \/ Probe(a)
    <2>1. ASSUME NEW b \in Actors, Arrive(b) PROVE FALSE
      BY <2>1 DEF Arrive, Ask, AskE2b, Rest
    <2>2. ASSUME NEW b \in Actors, TakeTurn(b) PROVE FALSE
      BY <2>2 DEF TakeTurn, Seek, TakeAcquire, TakeUse, TakeRebuild, TakeDestroy, TakeKill, TakeConnect, TakeTraffic,
                  TakeCreate, TakePause, Turn, Birth, Wake, Destroy, Enter, Refuse, Rest, Goto
    <2>3. ASSUME NEW b \in Actors, Work(b) PROVE b = a /\ (Created(a) \/ Awaken(a) \/ Probe(a))
      <3>1. \E p \in Idle \cup Waiting \cup Working : pc' = [pc EXCEPT ![b] = p]
        BY <2>3 DEF Work, Rejoin, Provisioning, Launching, Created, Probe, RecordDeath, WakeCold, Swapped, Boot,
                    Awaken, Rebuilding, Rebuilt, Freezing, Frozen, Stopping, Stopped, Demolishing, Erasing,
                    Forget, Exporting, Uploading, Confirm, Clearing, Verb, Shelled, Record, Enter, Goto,
                    Answer, Rest
      <3>2. b = a BY <3>1
      <3>3. CASE \/ Rejoin(b) \/ Provisioning(b) \/ Launching(b) \/ WakeCold(b) \/ Boot(b) \/ Rebuilding(b)
                 \/ Freezing(b) \/ Stopping(b) \/ Demolishing(b) \/ Exporting(b)
        <4>1. ASSUME NEW outcomes, NEW next, next # "ready", Verb(b, outcomes, next) PROVE FALSE
          BY <3>2, <4>1 DEF Verb, Goto, Answer, Rest
        <4>2. ~Rejoin(b) BY <3>2 DEF Rejoin, Goto
        <4> QED BY <3>3, <4>1, <4>2 DEF Provisioning, Launching, WakeCold, Boot, Rebuilding, Freezing, Stopping,
                                        Demolishing, Exporting
      <3>4. CASE \/ Swapped(b) \/ Rebuilt(b) \/ Frozen(b) \/ Stopped(b) \/ Confirm(b)
        BY <3>2, <3>4 DEF Swapped, Rebuilt, Frozen, Stopped, Confirm, Shelled, Record, Goto, Answer, Rest
      <3>5. CASE RecordDeath(b) \/ Erasing(b) \/ Forget(b) \/ Uploading(b) \/ Clearing(b)
        BY <3>2, <3>5 DEF RecordDeath, Erasing, Forget, Uploading, Clearing, Enter, Goto, Answer, Rest
      <3> QED BY <2>3, <3>2, <3>3, <3>4, <3>5 DEF Work
    <2>4. ASSUME NEW i \in Ids, Scan(i) PROVE FALSE
      BY <2>4 DEF Scan, ScanFreeze, ScanStop, ScanExpire, ScanArchive, Destroy, Enter, Refuse, Rest
    <2>5. ASSUME NEW i \in Ids, RestoreStep(i) PROVE FALSE
      <3>1. CASE UNCHANGED pc BY <3>1
      <3>2. CASE \E ok \in BOOLEAN : EndRestore(i, ok) BY <3>2 DEF EndRestore
      <3> QED BY <2>5, <3>1, <3>2 DEF RestoreStep, Unmade, Fetch, Import, TakeFinish, Usurped, StartRestored,
                                      Restored, DeleteObject, Undo, Revert, RestoreVerb
    <2>6. ~(Environment \/ Crash \/ UNCHANGED vars)
      BY DEF Environment, SwitchStore, Die, Prune, LandLate, Crash, vars
    <2> QED BY <2>1, <2>2, <2>3, <2>4, <2>5, <2>6 DEF Next, Traffic
  <1>2. slot = a /\ on[a] \in Ids
    BY <1>1 DEF SlotHeld, OnKnown, Created, Awaken, Probe
  <1>3. CASE Created(a) \/ Awaken(a)
    <2>1. shell[on[a]] = "running" BY <1>0, <1>3 DEF Risen, Created, Awaken
    <2> QED BY <1>2, <1>3, <2>1 DEF Created, Awaken, Record, L!Insert, L!Move
  <1>4. CASE Probe(a)
    <2>1. row[on[a]] = "active" /\ row' = row BY <1>4 DEF CommitsLegal, Probe
    <2>2. shell[on[a]] # "stopped" BY <1>4 DEF Probe, Goto, Answer, Rest
    <2>3. \A b \in Actors : on[b] = on[a] => pc[b] \notin {"frozen", "swapped", "rebuilt"}
      BY <1>2, <1>4 DEF SlotHeld, Probe
    <2>4. shell[on[a]] \in {"running", "paused"}
      <3>1. shell[on[a]] # "none" BY <1>0, <1>2, <2>1, <2>3 DEF Lively
      <3> QED BY <1>2, <2>2, <3>1 DEF E!Shells
    <2>5. pc[a] = "probe" BY <1>4 DEF Probe
    <2> QED BY <2>1, <2>4, <2>5
  <1> QED BY <1>1, <1>3, <1>4

(* Until a shell dies, is pruned or meets a late call, the settings change or the daemon crashes
   between a verb and its record, "ready" is true of the container - whatever
   else fails, as long as no verb lands after it was given up on. *)
THEOREM ReadyTillDisturbed ==
  ASSUME ~SlowDelete, ~Misfires PROVE Spec => [][Undisturbed' => ReadyTrue]_vars
  <1>1. Init => (Undisturbed => Lively /\ Risen) BY DEF Init, Lively, Risen
  <1>2. IInv /\ (Undisturbed => Lively /\ Risen) /\ [Next]_vars => (Undisturbed => Lively /\ Risen)'
    BY LivelyHolds
  <1>3. IInv /\ (Undisturbed => Lively /\ Risen) /\ [Next]_vars => [Undisturbed' => ReadyTrue]_vars
    BY ReadyStep
  <1> QED BY <1>1, <1>2, <1>3, Inductive, PTL DEF Spec

(* In a calm environment, always. *)
THEOREM ReadyIsTrue ==
  ASSUME ~SlowDelete, ~Misfires, MaxDrift = 0, MaxCrashes = 0 PROVE Spec => ReadyRuns
  <1>1. TypeOK => Undisturbed BY DEF TypeOK, Undisturbed
  <1> QED BY <1>1, ReadyTillDisturbed, TypeCorrect, PTL DEF ReadyRuns
=============================================================================
