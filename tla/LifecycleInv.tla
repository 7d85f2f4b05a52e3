---------------------------- MODULE LifecycleInv ----------------------------
(***************************************************************************)
(* The inductive invariant behind Lifecycle's safety properties: what each *)
(* step in the slot, and each step of a restore task, may rely on about    *)
(* the row, the disk and the archive object it is working with.            *)
(***************************************************************************)
EXTENDS Lifecycle

(* At most one row carries the name. *)
OneRow == \A i, j \in Named : i = j

(* An actor that works, seeks or rejoins knows its id. *)
OnKnown == \A a \in Actors : pc[a] \in Working \cup {"seek", "join", "back"} => on[a] \in Ids

(* Of an id no birth has drawn there is nothing. *)
Fresh ==
  \A i \in Ids \ minted :
    row[i] = "absent" /\ restore[i] = "off" /\ shell[i] = "none" /\ disk[i] = "none"

(* A birth in the slot works on a drawn id without a restore task, and has
   its disk before it records. *)
Births ==
  \A a \in Actors : pc[a] \in {"provision", "launch", "record"} =>
    /\ on[a] \in minted /\ restore[on[a]] = "off"
    /\ pc[a] # "provision" => disk[on[a]] = "full"

(* A teardown in the slot was ordered, and its row is still there. *)
Doomed == \A a \in Actors : pc[a] \in {"demolish", "erase", "forget"} =>
            on[a] \in condemned /\ row[on[a]] # "absent"

(* A row is recorded archived over an object that is there to stay. *)
Uploaded == \A a \in Actors : pc[a] = "confirm" =>
              object[on[a]] = "current" /\ restore[on[a]] # "delete"

(* Before its commit a restore task's row is restoring, or destroyed under
   it by order; after it the row is not in cold storage until the object is
   gone. *)
RestoreRow ==
  \A i \in Ids :
    /\ restore[i] \in Tracked \ {"delete"}
       => row[i] = "restoring" \/ (row[i] = "absent" /\ i \in condemned)
    /\ restore[i] = "delete" => row[i] \notin ColdStorage

(* What a restore finishes with is a whole disk. *)
RestoreDisk ==
  \A i \in Ids : restore[i] \in {"finish", "start", "commit"} /\ i \notin condemned
                 => disk[i] = "full"

IInv ==
  /\ TypeOK /\ SlotHeld /\ CommitsLegal /\ BodyKept
  /\ OneRow /\ OnKnown /\ Fresh /\ Births /\ Doomed /\ Uploaded /\ RestoreRow /\ RestoreDisk

-----------------------------------------------------------------------------
(* What holds besides *)

(* The verbs that wake a sandbox in the slot by a row they took their archive
   detour for, or none, before they queued. *)
EarlyLookers == {"connect", "create", "envd", "proxy"}

(* No teardown but an E2B kill's or create's is of a restoring row. *)
Spared ==
  \A a \in Actors : pc[a] \in {"demolish", "erase", "forget"} /\ row[on[a]] = "restoring"
                   => op[a] \in {"kill", "create"}

(* No shell has died, been pruned or met a late call, no settings have
   changed, no crash. *)
Undisturbed == drift = 0 /\ crashes = 0

(* Then the shell of an active row runs or has just been downed or paused by
   a verb that failed, unless a verb is about to record what it did to it... *)
Lively ==
  \A i \in Ids \ condemned :
    row[i] = "active" /\ (\A a \in Actors : on[a] = i => pc[a] \notin {"frozen", "swapped", "rebuilt"})
    => shell[i] # "none"

(* ... and whoever is about to record a sandbox active has its shell up. *)
Risen ==
  /\ \A a \in Actors : pc[a] \in {"awaken", "record"} => shell[on[a]] = "running"
  /\ \A i \in Ids : restore[i] = "commit" => shell[i] = "running"
=============================================================================
