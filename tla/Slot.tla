-------------------------------- MODULE Slot --------------------------------
(***************************************************************************)
(* What a caller of the per-sandbox queue is promised: one slot per key,   *)
(* served in the order of arrival.  A task arrives behind everything that  *)
(* is in line under its key, runs only when nothing is ahead of it, and    *)
(* leaves.  A background task that finds the line non-empty turns away.    *)
(*                                                                         *)
(* KeyedQueue.tla is the promise chain that implements this.               *)
(***************************************************************************)
CONSTANTS Keys, Tasks

VARIABLES
  phase,  \* phase[t]: where task t is
  at,     \* at[t]: the key it is in line for (while it is in line)
  ahead   \* ahead[t]: the tasks that must leave before t may run

slotVars == <<phase, at, ahead>>

Phases == {"out", "waiting", "running", "over"}

InLine(k) == {t \in Tasks : phase[t] # "out" /\ at[t] = k}

Init ==
  /\ phase = [t \in Tasks |-> "out"]
  /\ at \in [Tasks -> Keys]
  /\ ahead = [t \in Tasks |-> {}]

(* A task joins the line; one that finds it empty runs at once. *)
Arrive(t, k) ==
  /\ phase[t] = "out"
  /\ at' = [at EXCEPT ![t] = k]
  /\ ahead' = [ahead EXCEPT ![t] = InLine(k)]
  /\ phase' = [phase EXCEPT ![t] = IF InLine(k) = {} THEN "running" ELSE "waiting"]

Serve(t) ==
  /\ phase[t] = "waiting"
  /\ ahead[t] = {}
  /\ phase' = [phase EXCEPT ![t] = "running"]
  /\ UNCHANGED <<at, ahead>>

Finish(t) ==
  /\ phase[t] = "running"
  /\ phase' = [phase EXCEPT ![t] = "over"]
  /\ UNCHANGED <<at, ahead>>

Leave(t) ==
  /\ phase[t] = "over"
  /\ phase' = [phase EXCEPT ![t] = "out"]
  /\ ahead' = [u \in Tasks |-> ahead[u] \ {t}]
  /\ UNCHANGED at

Next ==
  \E t \in Tasks : \/ \E k \in Keys : Arrive(t, k)
                   \/ Serve(t)
                   \/ Finish(t)
                   \/ Leave(t)

Spec == Init /\ [][Next]_slotVars
=============================================================================
