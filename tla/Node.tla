-------------------------------- MODULE Node --------------------------------
(***************************************************************************)
(* A node's daemon: the verbs of Lifecycle, the reconciler that repairs    *)
(* what the ledger and the bodies disagree on (reconciler.ts), the loop    *)
(* that drives it (heartbeat.ts) and the boot that runs it first           *)
(* (main.ts, startup-guard.ts).                                            *)
(*                                                                         *)
(* A pass reads the ledger, then lists containers, then disks; it repairs  *)
(* rows one by one in their slots - the list nominates, a fresh look       *)
(* decides - and at last destroys, outside any slot, the bodies without a  *)
(* row that the pass before this one saw already.  At boot reality is read *)
(* first, nothing else runs, and one look is enough.                       *)
(***************************************************************************)
EXTENDS LifecycleInv

CONSTANTS
  Neighbours,  \* whether the node has other, healthy sandboxes: what a boot may find
  LongPass,    \* a sandbox may come back to a state the pass read before its disk was listed gone
  SlowBirth,   \* a birth may outlast the interval between two passes
  Leftovers    \* a shell may survive beside the unfinished disk of an interrupted restore

ASSUME PassAssumption ==
  Neighbours \subseteq BOOLEAN /\ LongPass \in BOOLEAN /\ SlowBirth \in BOOLEAN /\ Leftovers \in BOOLEAN

VARIABLES
  phase,     \* where the pass is
  startup,   \* the pass is the boot's: nothing is served yet
  snap,      \* the rows' states as the pass read them
  seen,      \* the containers as it listed them
  kept,      \* the disks as it listed them
  todo,      \* what its present loop has yet to consider
  at,        \* what it is repairing
  strikes,   \* the bodies without a row the pass before saw: priorSuspects
  suspects   \* and those this pass sees

looks == <<snap, seen, kept>>
pass == <<phase, startup, snap, seen, kept, todo, at, strikes, suspects>>
nodeVars == <<vars, pass>>

Hot == {"active", "frozen", "stopped"}
Mending == {"inspect", "destroy", "freeDisk", "revive", "unshell", "death"}  \* in the slot
Phases == {"rest", "list", "disks", "rows", "orphans", "slay", "strays", "purge"} \cup Mending

PassTypeOK ==
  /\ phase \in Phases /\ startup \in BOOLEAN
  /\ snap \in [Ids -> L!SandboxStates \cup {"absent"}] /\ seen \in [Ids -> E!Shells]
  /\ kept \subseteq Ids /\ todo \subseteq Ids /\ at \in Ids \cup {NoId}
  /\ strikes \subseteq Ids /\ suspects \subseteq Ids

(* LEDGER_STATE *)
Means(s) == CASE s = "running" -> "active" [] s = "paused" -> "frozen" [] OTHER -> "stopped"

Unread == [i \in Ids |-> "absent"]
Unseen == [i \in Ids |-> "none"]

(* What a pass has looked at is forgotten when it ends. *)
ForgetLooks == snap' = Unread /\ seen' = Unseen /\ kept' = {} /\ todo' = {} /\ at' = NoId /\ suspects' = {}

(* The daemon starts, and first of all lists what is on the host. *)
Boots == phase' = "list" /\ startup' = TRUE /\ strikes' = {} /\ ForgetLooks

NodeInit ==
  /\ Init
  /\ phase = "list" /\ startup = TRUE /\ strikes = {} /\ suspects = {}
  /\ snap = Unread /\ seen = Unseen /\ kept = {} /\ todo = {} /\ at = NoId

-----------------------------------------------------------------------------
(* Reading the whole picture *)

Born(a) == pc[a] \in {"provision", "launch", "record"}  \* a is giving birth

(* Without SlowBirth a birth the pass before saw is over by the next. *)
BeginPass ==
  /\ phase = "rest"
  /\ SlowBirth \/ \A a \in Actors : Born(a) => on[a] \notin strikes
  /\ phase' = "list" /\ snap' = row
  /\ UNCHANGED <<vars, startup, seen, kept, todo, at, strikes, suspects>>

ListContainers ==
  /\ phase = "list"
  /\ phase' = "disks" /\ seen' = shell
  /\ UNCHANGED <<vars, startup, snap, kept, todo, at, strikes, suspects>>

(* A pass that cannot read fails; its first strikes stay those of the pass
   before.  (A boot that cannot read exits and starts again.) *)
ListFails ==
  /\ phase \in {"list", "disks"} /\ ~startup
  /\ phase' = "rest" /\ ForgetLooks
  /\ UNCHANGED <<vars, startup, strikes>>

(* The startup guard refuses a node whose rows claim local bodies beside an
   empty host, or the reverse: this sandbox decides it if it is alone. *)
Refused(found) == (\E i \in Named : row[i] \in Hot) # (found # {})

ListDisks ==
  /\ phase = "disks"
  /\ kept' = {i \in Ids : disk[i] # "none"}
  /\ snap' = IF startup THEN row ELSE snap
  /\ phase' = "rows" /\ todo' = {i \in Ids : snap'[i] # "absent"}
  /\ startup => TRUE \in Neighbours \/ ~Refused(kept' \cup {i \in Ids : seen[i] # "none"})
  /\ UNCHANGED <<vars, startup, seen, at, strikes, suspects>>

(* A refused boot exits, and the service manager starts it again. *)
BootRefused ==
  /\ phase = "disks" /\ startup /\ FALSE \in Neighbours
  /\ Refused({i \in Ids : disk[i] # "none" \/ seen[i] # "none"})
  /\ Boots
  /\ UNCHANGED vars

-----------------------------------------------------------------------------
(* Repairing the rows, each in its slot *)

Healthy(i) ==
  CASE snap[i] = "archived" -> seen[i] = "none" /\ i \notin kept
    [] snap[i] = "restoring" -> restore[i] # "off"
    [] OTHER -> IF seen[i] = "none" THEN snap[i] = "stopped" /\ i \in kept
                ELSE Means(seen[i]) = snap[i] /\ (seen[i] # "stopped" \/ startup)

(* Mutant: no fresh look at the row in its slot. *)
ConsiderRowStale(i) ==
  /\ phase = "rows" /\ i \in todo
  /\ todo' = todo \ {i}
  /\ IF ~Healthy(i) /\ Quiet
     THEN phase' = "inspect" /\ at' = i /\ slot' = Keeper
     ELSE UNCHANGED <<phase, at, slot>>
  /\ UNCHANGED <<rows, body, object, tasks, restore, minted, condemned, world,
                 startup, looks, strikes, suspects>>

(* A row the listing shows unwell is repaired if its slot is quiet and the
   row is still in the state the pass read. *)
ConsiderRow(i) ==
  /\ phase = "rows" /\ i \in todo
  /\ todo' = todo \ {i}
  /\ IF ~Healthy(i) /\ Quiet /\ row[i] = snap[i]
     THEN phase' = "inspect" /\ at' = i /\ slot' = Keeper
     ELSE UNCHANGED <<phase, at, slot>>
  /\ UNCHANGED <<rows, body, object, tasks, restore, minted, condemned, world,
                 startup, looks, strikes, suspects>>

Release == phase' = "rows" /\ at' = NoId /\ slot' = Free
Proceed(p) == phase' = p /\ UNCHANGED <<at, slot>>

(* overwriteState: a restoring row that comes back hot leaves its object
   behind. *)
Overwrite(to) ==
  /\ row' = [row EXCEPT ![at] = to]
  /\ object' = [object EXCEPT ![at] =
                  IF row[at] = "restoring" /\ to # "archived" /\ @ # "none" THEN "stale" ELSE @]
  /\ UNCHANGED paused

Keep == UNCHANGED <<rows, object>>

DropRow ==
  /\ row' = [row EXCEPT ![at] = "absent"]
  /\ paused' = [paused EXCEPT ![at] = FALSE]
  /\ UNCHANGED object

(* What the container is now, beside what its row and the list of disks say *)
JudgeArchived ==
  /\ snap[at] = "archived" /\ Keep
  /\ IF shell[at] # "none" THEN Proceed("destroy")
     ELSE IF at \in kept THEN Proceed("freeDisk") ELSE Release

JudgeRestoring ==
  /\ snap[at] = "restoring"
  /\ IF shell[at] # "none" THEN Overwrite(Means(shell[at])) /\ Release
     ELSE Proceed("revive") /\ Keep

(* Mutant: a missing container alone condemns the row. *)
JudgeGoneHasty ==
  /\ snap[at] \in Hot /\ shell[at] = "none"
  /\ IF snap[at] # "stopped" \/ at \notin kept THEN DropRow ELSE Keep
  /\ Release

JudgeGone ==
  /\ snap[at] \in Hot /\ shell[at] = "none"
  /\ IF at \notin kept THEN DropRow
     ELSE IF row[at] # "stopped" THEN Overwrite("stopped") ELSE Keep
  /\ Release

JudgeExited ==
  /\ snap[at] \in Hot /\ shell[at] = "stopped" /\ Keep
  /\ IF row[at] # "stopped" THEN Proceed("death")
     ELSE IF startup THEN Release ELSE Proceed("unshell")

JudgeLive ==
  /\ snap[at] \in Hot /\ shell[at] \in {"running", "paused"}
  /\ IF Means(shell[at]) # row[at] THEN Overwrite(Means(shell[at])) ELSE Keep
  /\ Release

Judge ==
  /\ phase = "inspect"
  /\ JudgeArchived \/ JudgeRestoring \/ JudgeGone \/ JudgeExited \/ JudgeLive
  /\ UNCHANGED <<body, tasks, restore, minted, condemned, world,
                 startup, looks, todo, strikes, suspects>>

(* A repair that throws is a failure of the pass, retried by the next. *)
RepairFails ==
  /\ phase \in {"inspect", "death"} /\ Release
  /\ UNCHANGED <<rows, body, object, tasks, restore, minted, condemned, world,
                 startup, looks, todo, strikes, suspects>>

(* One executor verb in the slot, and what the ledger records of it. *)
Mend(p, outcomes, record(_)) ==
  /\ phase = p
  /\ \E r \in outcomes :
       /\ shell' = [shell EXCEPT ![at] = r.shell]
       /\ disk' = [disk EXCEPT ![at] = r.disk]
       /\ record(r.ok)
  /\ Release
  /\ UNCHANGED <<tasks, restore, minted, condemned, world, startup, looks, todo, strikes, suspects>>

Recorded(ok) == Keep
Reverted(ok) == IF ok THEN Overwrite("archived") ELSE Keep

SweepBody == Mend("destroy", E!Destroy(shell[at], disk[at]), Recorded)
SweepDisk == Mend("freeDisk", E!RemoveDisk(shell[at], disk[at]), Recorded)
RemoveShell == Mend("unshell", E!RemoveContainer(shell[at], disk[at]), Recorded)
RevertZombie == Mend("revive", E!RemoveDisk(shell[at], disk[at]), Reverted)

(* recordShellDeath, if the shell is still dead when its exit is read *)
RecordExit ==
  /\ phase = "death"
  /\ IF shell[at] = "stopped" THEN Overwrite("stopped") ELSE Keep
  /\ Release
  /\ UNCHANGED <<body, tasks, restore, minted, condemned, world,
                 startup, looks, todo, strikes, suspects>>

-----------------------------------------------------------------------------
(* Bodies without a row, outside any slot *)

Unowned(i) == snap[i] = "absent"

RowsDone ==
  /\ phase = "rows" /\ todo = {}
  /\ phase' = "orphans" /\ todo' = {i \in Ids : Unowned(i) /\ seen[i] # "none"}
  /\ UNCHANGED <<vars, startup, looks, at, strikes, suspects>>

OrphansDone ==
  /\ phase = "orphans" /\ todo = {}
  /\ phase' = "strays" /\ todo' = {i \in kept : Unowned(i) /\ seen[i] = "none"}
  /\ UNCHANGED <<vars, startup, looks, at, strikes, suspects>>

(* Mutant: one look is enough at any time. *)
ConsiderBodyAtOnce(i) ==
  /\ phase \in {"orphans", "strays"} /\ i \in todo
  /\ todo' = todo \ {i}
  /\ IF row[i] = "absent"
     THEN at' = i /\ phase' = IF phase = "orphans" THEN "slay" ELSE "purge"
     ELSE UNCHANGED <<at, phase>>
  /\ UNCHANGED <<vars, startup, looks, strikes, suspects>>

(* The second look condemns a body, if the ledger still has no row for it. *)
ConsiderBody(i) ==
  /\ phase \in {"orphans", "strays"} /\ i \in todo
  /\ todo' = todo \ {i}
  /\ IF startup \/ i \in strikes
     THEN /\ UNCHANGED suspects
          /\ IF row[i] = "absent"
             THEN at' = i /\ phase' = IF phase = "orphans" THEN "slay" ELSE "purge"
             ELSE UNCHANGED <<at, phase>>
     ELSE suspects' = suspects \cup {i} /\ UNCHANGED <<at, phase>>
  /\ UNCHANGED <<vars, startup, looks, strikes>>

Remove(p, outcomes, back) ==
  /\ phase = p
  /\ \E r \in outcomes : shell' = [shell EXCEPT ![at] = r.shell] /\ disk' = [disk EXCEPT ![at] = r.disk]
  /\ phase' = back /\ at' = NoId
  /\ UNCHANGED <<rows, object, slot, tasks, restore, minted, condemned, world,
                 startup, looks, todo, strikes, suspects>>

Slay == Remove("slay", E!Destroy(shell[at], disk[at]), "orphans")
Purge == Remove("purge", E!RemoveDisk(shell[at], disk[at]), "strays")

(* Mutant: first strikes are not carried over. *)
EndPassForgetful ==
  /\ phase = "strays" /\ todo = {}
  /\ phase' = "rest" /\ startup' = FALSE /\ strikes' = {} /\ ForgetLooks
  /\ UNCHANGED vars

(* The pass is over; after the boot's the daemon listens. *)
EndPass ==
  /\ phase = "strays" /\ todo = {}
  /\ phase' = "rest" /\ startup' = FALSE /\ strikes' = suspects /\ ForgetLooks
  /\ UNCHANGED vars

-----------------------------------------------------------------------------
PassStep ==
  \/ BeginPass \/ ListContainers \/ ListFails \/ ListDisks \/ BootRefused
  \/ \E i \in Ids : ConsiderRow(i) \/ ConsiderBody(i)
  \/ Judge \/ RepairFails \/ SweepBody \/ SweepDisk \/ RemoveShell \/ RevertZombie \/ RecordExit
  \/ RowsDone \/ OrphansDone \/ Slay \/ Purge \/ EndPass

(* Two shapes this specification leaves out unless a constant lets them in:
   a row back in the state the pass read, after its disk was listed gone, ... *)
NoReturn ==
  \A i \in Ids : phase = "rows" /\ snap[i] \in Hot /\ i \notin kept /\ row[i] # snap[i]
                 => row'[i] # snap[i]

(* ... and a shell beside the disk of a restore that has lost its task. *)
NoShellBesideHalf ==
  \A i \in Ids : row'[i] = "restoring" /\ restore'[i] = "off" /\ shell'[i] # "none"
                 => disk'[i] = "full"

Serve ==
  /\ ~startup /\ Traffic
  /\ LongPass \/ NoReturn
  /\ Leftovers \/ NoShellBesideHalf
  /\ UNCHANGED pass

Restart ==
  /\ Crash /\ Boots
  /\ Leftovers \/ NoShellBesideHalf

Drift == Environment /\ UNCHANGED pass

NodeNext == PassStep \/ Serve \/ Drift \/ Restart

NodeSpec == NodeInit /\ [][NodeNext]_nodeVars

-----------------------------------------------------------------------------
(* Properties *)

(* Who is in the slot, the keeper included. *)
KeeperHolds == phase \in Mending <=> slot = Keeper

(* A row leaves the ledger only when somebody ordered the sandbox destroyed:
   the reconciler deletes none it merely does not see. *)
OnlyOrderedDie ==
  [][\A i \in Ids : row[i] # "absent" /\ row'[i] = "absent" => i \in condemned]_nodeVars

(* Verbs and repairs together keep the ledger's rules. *)
LedgerRepaired == L!RepairedSpec

(* While a row is hot its body is moved by the slot's holder - the keeper on
   this id included - or by the environment: no orphan's destruction, which
   runs outside the slot, reaches a sandbox that has a row. *)
HolderOrKeeperMoves ==
  [][HolderMoved \/ \E i \in Ids : slot = Keeper /\ at = i
        /\ \A j \in Ids \ {i} : shell'[j] = shell[j] /\ disk'[j] = disk[j]]_nodeVars

(* Once nothing but the reconciler moves, ledger and bodies come to agree
   and stay so: live shells under awake and frozen rows, a disk alone under
   stopped ones, nothing under archived ones, nothing without a row. *)
AtRest == (\A a \in Actors : pc[a] \in Idle) /\ (\A i \in Ids : restore[i] = "off")
Agreed ==
  \A i \in Ids :
    CASE row[i] \in {"absent", "archived"} -> shell[i] = "none" /\ disk[i] = "none"
      [] row[i] = "active" -> shell[i] = "running" /\ disk[i] # "none"
      [] row[i] = "frozen" -> shell[i] = "paused" /\ disk[i] # "none"
      [] row[i] = "stopped" -> shell[i] = "none" /\ disk[i] # "none"
      [] OTHER -> FALSE
Heals == <>[]AtRest => <>[]Agreed

(* A daemon that has crashed serves again. *)
ServesAgain == startup ~> ~startup

(* Reads and repairs that keep being tried succeed at last. *)
Repaired == \/ shell'[at] = "none" /\ disk'[at] = "none"
            \/ phase = "unshell" /\ shell'[at] = "none"
Succeeds ==
  /\ SF_nodeVars(ListContainers) /\ SF_nodeVars(ListDisks) /\ SF_nodeVars(Judge) /\ SF_nodeVars(RecordExit)
  /\ SF_nodeVars(SweepBody /\ Repaired) /\ SF_nodeVars(SweepDisk /\ Repaired)
  /\ SF_nodeVars(RemoveShell /\ Repaired) /\ SF_nodeVars(RevertZombie /\ row'[at] = "archived")
  /\ SF_nodeVars(Slay /\ Repaired) /\ SF_nodeVars(Purge /\ Repaired)
FairNodeSpec == NodeSpec /\ WF_nodeVars(PassStep) /\ Succeeds
=============================================================================
