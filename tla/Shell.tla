-------------------------------- MODULE Shell --------------------------------
(***************************************************************************)
(* The executor's lifecycle verbs on one sandbox body (executor/docker.ts):*)
(* its shell - the container - and its disk.  A verb is the set of its     *)
(* outcomes [ok, shell, disk]: done, refused, or failed after some of its  *)
(* Docker calls.  Every call has a deadline (executor/deadline.ts): with   *)
(* Misfires a verb may report failure although its last call landed.       *)
(*                                                                         *)
(* "half" is a disk file that exists without its contents: an interrupted  *)
(* provisioning or import.                                                 *)
(***************************************************************************)
CONSTANT Misfires  \* BOOLEAN

Shells == {"none", "running", "paused", "stopped"}
Disks == {"none", "half", "full"}

Done(s, d) == [ok |-> TRUE, shell |-> s, disk |-> d]
Failed(s, d) == [ok |-> FALSE, shell |-> s, disk |-> d]
Landed(S) == IF Misfires THEN S ELSE {}

(* freeze: wants a running shell; pause, then squeeze its memory - reading
   how much there is may fail with the shell already paused. *)
Freeze(s, d) ==
  IF s # "running" THEN {Failed(s, d)}
  ELSE {Done("paused", d), Failed(s, d), Failed("paused", d)}

(* unfreeze: wants a paused shell. *)
Unfreeze(s, d) ==
  IF s # "paused" THEN {Failed(s, d)}
  ELSE {Done("running", d), Failed(s, d)} \cup Landed({Failed("running", d)})

(* stop: wants a paused shell; unpause, kill, wait for the exit - the wait
   may fail after the kill - then remove the exited shell, best effort, so a
   stop may leave it. *)
Stop(s, d) ==
  IF s # "paused" THEN {Failed(s, d)}
  ELSE {Done("none", d), Done("stopped", d), Failed(s, d), Failed("running", d), Failed("stopped", d)}

(* provisionDisk: the file, its filesystem, its mount; a failure leaves it
   as far as it got. *)
Provision(s, d) == {Done(s, "full"), Failed(s, "none"), Failed(s, "half"), Failed(s, "full")}

(* launchContainer: create, then start; whether there is a disk to bind is
   not looked at. *)
Launch(s, d) ==
  IF s # "none" THEN {Failed(s, d)}
  ELSE {Done("running", d), Failed(s, d), Failed("stopped", d)} \cup Landed({Failed("running", d)})

(* start: a stopped shell starts; a missing one is built around the disk
   (create the container, then start it); any other is refused. *)
Start(s, d) ==
  IF s \in {"running", "paused"} \/ d = "none" THEN {Failed(s, d)}
  ELSE IF s = "none" THEN Launch(s, d)
  ELSE {Done("running", d), Failed(s, d)} \cup Landed({Failed("running", d)})

(* takeContainerDown: unpause a paused shell, kill, wait, remove. *)
Downfall(s, d) ==
  {Failed(s, d), Failed("stopped", d)}
  \cup (IF s = "paused" THEN {Failed("running", d)} ELSE {})
  \cup Landed({Failed("none", d)})

(* removeContainer: an absent shell is the goal state, but only beside a disk. *)
RemoveContainer(s, d) ==
  IF s = "none" THEN {IF d = "none" THEN Failed(s, d) ELSE Done(s, d)} \cup {Failed(s, d)}
  ELSE {Done("none", d)} \cup Downfall(s, d)

(* destroy: shell down, then disk torn down - its file first, then its mount
   point; both absent is an error. *)
Destroy(s, d) ==
  IF s = "none" /\ d = "none" THEN {Failed(s, d)}
  ELSE {Done("none", "none"), Failed(s, d), Failed("none", d), Failed("none", "none")}
       \cup (IF s = "none" THEN {} ELSE Downfall(s, d))

(* removeDisk: idempotent; touches no shell. *)
RemoveDisk(s, d) == {Done(s, "none"), Failed(s, d), Failed(s, "none")}

(* exportDisk: reads the mounted tree; refused while a shell lives. *)
ExportDisk(s, d) ==
  IF s \in {"running", "paused"} \/ d = "none" THEN {Failed(s, d)}
  ELSE {Done(s, d), Failed(s, d)}

(* importDisk: refused beside an existing disk; provisions one and fills it,
   tearing it down when the filling fails - but not when provisioning does. *)
ImportDisk(s, d) ==
  IF d # "none" THEN {Failed(s, d)}
  ELSE Provision(s, d) \ {Failed(s, "full")}
=============================================================================
