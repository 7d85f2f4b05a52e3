------------------------------- MODULE NodeInv -------------------------------
(***************************************************************************)
(* The inductive invariant behind Node's safety properties: what a pass of *)
(* the reconciler may rely on while the rest of the daemon moves on.       *)
(***************************************************************************)
EXTENDS Node

(* Before the daemon listens nobody but the keeper is at work. *)
Alone ==
  startup => /\ \A a \in Actors : pc[a] = "idle"
             /\ \A i \in Ids : restore[i] = "off"

(* What a pass has seen, or carries over, some birth has drawn. *)
SeenMinted ==
  /\ strikes \cup suspects \cup kept \cup todo \subseteq minted
  /\ \A i \in Ids : seen[i] # "none" \/ snap[i] # "absent" => i \in minted

(* The row under repair is in the state the pass read, of the kind each
   verb is for, and a restoring one has no task. *)
RowHeld ==
  /\ phase = "rows" => \A i \in todo : snap[i] # "absent"
  /\ phase \in Mending =>
       /\ \A i \in todo : snap[i] # "absent"
       /\ at \in Ids /\ row[at] = snap[at] /\ row[at] # "absent"
       /\ phase \in {"destroy", "freeDisk"} => row[at] = "archived"
       /\ phase = "revive" => row[at] = "restoring" /\ shell[at] = "none"
       /\ phase \in {"unshell", "death"} => row[at] \in Hot
       /\ row[at] = "restoring" => restore[at] = "off"

(* A hot row still in the state it was read in, whose disk the listing did
   not find, is being destroyed by order. *)
GoneByOrder ==
  phase \in {"rows"} \cup Mending =>
    \A i \in Ids : snap[i] \in Hot /\ i \notin kept /\ row[i] = snap[i] => i \in condemned

(* A body in its second pass without a row is no birth's. *)
NoBirthStruck ==
  phase # "rest" => \A a \in Actors : Born(a) => on[a] \notin strikes
BodyUnowned ==
  phase \in {"slay", "purge"} =>
    /\ at \in minted /\ row[at] = "absent"
    /\ \A a \in Actors : Born(a) => on[a] # at

(* A restore without a task either has all of its disk or no shell. *)
ZombieWhole ==
  \A i \in Ids : row[i] = "restoring" /\ restore[i] = "off" /\ shell[i] # "none" => disk[i] = "full"

KInv ==
  /\ IInv /\ PassTypeOK /\ KeeperHolds /\ Alone /\ SeenMinted /\ RowHeld
  /\ GoneByOrder /\ NoBirthStruck /\ BodyUnowned /\ ZombieWhole
=============================================================================
