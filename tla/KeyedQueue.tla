----------------------------- MODULE KeyedQueue -----------------------------
(***************************************************************************)
(* The per-sandbox queue of the node daemon (keyed-queue.ts): a map from   *)
(* key to the tail of a promise chain.  run() chains a task behind the     *)
(* tail it finds, or starts it on the spot when it finds none; tryRun()    *)
(* turns away when there is a tail.  A task that settles - resolved or     *)
(* rejected - resolves its tail one microtask later, and that tail's       *)
(* reactions run in the order they were attached: first the clean-up run() *)
(* attached itself, then the task chained behind it.                       *)
(*                                                                         *)
(* A task is an activation of a caller: it may come back for the same or   *)
(* another key once it is out.                                             *)
(***************************************************************************)
CONSTANTS Keys, Tasks, None

ASSUME NoneAssumption == None \notin Tasks

VARIABLES
  tails,  \* tails[k]: the task whose tail is the map entry of k, None if there is no entry
  pc,     \* pc[t]: how far task t has come
  key,    \* key[t]: the key t was last queued under
  prev,   \* prev[t]: the task whose tail t is chained behind, None when nothing is
  ahead   \* ahead[t]: history - the tasks under t's key when t came, less those gone since

vars == <<tails, pc, key, prev, ahead>>

PCs == {"idle",      \* not queued
        "chained",   \* prev.then(task): waiting for prev's tail
        "released",  \* prev's tail resolved: the task is the next microtask
        "running",   \* inside the task
        "resolved",  \* the task's promise settled: its tail is still in the map
        "rejected"}

TypeOK ==
  /\ tails \in [Keys -> Tasks \cup {None}]
  /\ pc \in [Tasks -> PCs]
  /\ key \in [Tasks -> Keys]
  /\ prev \in [Tasks -> Tasks \cup {None}]
  /\ ahead \in [Tasks -> SUBSET Tasks]

Queued(k) == {t \in Tasks : pc[t] # "idle" /\ key[t] = k}

Init ==
  /\ tails = [k \in Keys |-> None]
  /\ pc = [t \in Tasks |-> "idle"]
  /\ key \in [Tasks -> Keys]
  /\ prev = [t \in Tasks |-> None]
  /\ ahead = [t \in Tasks |-> {}]

(* Mutant of run: the tail it found stays in the map. *)
RunKeepsTail(t, k) ==
  /\ pc[t] = "idle"
  /\ key' = [key EXCEPT ![t] = k]
  /\ prev' = [prev EXCEPT ![t] = tails[k]]
  /\ pc' = [pc EXCEPT ![t] = IF tails[k] = None THEN "running" ELSE "chained"]
  /\ tails' = [tails EXCEPT ![k] = IF @ = None THEN t ELSE @]
  /\ ahead' = [ahead EXCEPT ![t] = Queued(k)]

(* run(key, task): chain behind the entry found, replace it. *)
Run(t, k) ==
  /\ pc[t] = "idle"
  /\ key' = [key EXCEPT ![t] = k]
  /\ prev' = [prev EXCEPT ![t] = tails[k]]
  /\ pc' = [pc EXCEPT ![t] = IF tails[k] = None THEN "running" ELSE "chained"]
  /\ tails' = [tails EXCEPT ![k] = t]
  /\ ahead' = [ahead EXCEPT ![t] = Queued(k)]

(* tryRun(key, task): only when the map has no entry; SKIPPED changes nothing. *)
TryRun(t, k) == tails[k] = None /\ Run(t, k)

(* The microtask of a task whose predecessor's tail has resolved. *)
Start(t) ==
  /\ pc[t] = "released"
  /\ pc' = [pc EXCEPT ![t] = "running"]
  /\ UNCHANGED <<tails, key, prev, ahead>>

Settle(t, outcome) ==
  /\ pc[t] = "running"
  /\ pc' = [pc EXCEPT ![t] = outcome]
  /\ UNCHANGED <<tails, key, prev, ahead>>

(* Mutants of the clean-up: one removes the entry whoever's it is, one lets a
   rejected tail release nobody. *)
CleanUpAnyLink(t) ==
  /\ pc[t] \in {"resolved", "rejected"}
  /\ tails' = [tails EXCEPT ![key[t]] = None]
  /\ pc' = [u \in Tasks |-> CASE u = t -> "idle"
                              [] u # t /\ prev[u] = t -> "released"
                              [] OTHER -> pc[u]]
  /\ prev' = [u \in Tasks |-> IF prev[u] = t THEN None ELSE prev[u]]
  /\ ahead' = [u \in Tasks |-> ahead[u] \ {t}]
  /\ UNCHANGED key
CleanUpRejectedBlocks(t) == pc[t] # "rejected" /\ CleanUpAnyLink(t)

(* The tail resolves, whatever the outcome: only the last link removes the
   map entry; the task chained behind, if there is one, is released. *)
CleanUp(t) ==
  /\ pc[t] \in {"resolved", "rejected"}
  /\ tails' = IF tails[key[t]] = t THEN [tails EXCEPT ![key[t]] = None] ELSE tails
  /\ pc' = [u \in Tasks |-> CASE u = t -> "idle"
                              [] u # t /\ prev[u] = t -> "released"
                              [] OTHER -> pc[u]]
  /\ prev' = [u \in Tasks |-> IF prev[u] = t THEN None ELSE prev[u]]
  /\ ahead' = [u \in Tasks |-> ahead[u] \ {t}]
  /\ UNCHANGED key

Next ==
  \E t \in Tasks : \/ \E k \in Keys : Run(t, k) \/ TryRun(t, k)
                   \/ Start(t)
                   \/ \E outcome \in {"resolved", "rejected"} : Settle(t, outcome)
                   \/ CleanUp(t)

Spec == Init /\ [][Next]_vars

(* Microtasks run, and every task settles: all it awaits has a deadline
   (executor/deadline.ts) or belongs to a transfer that ends. *)
Fairness ==
  \A t \in Tasks : WF_vars(Start(t)) /\ WF_vars(CleanUp(t))
                   /\ WF_vars(\E outcome \in {"resolved", "rejected"} : Settle(t, outcome))

FairSpec == Spec /\ Fairness

-----------------------------------------------------------------------------
(* The chain, link by link: what holds in every state and is kept by every
   step.  A chained task is behind a task of its own key and everything that
   one is behind; a task nothing holds back has nothing ahead of it; of two
   tasks under one key one is ahead of the other; the map entry is the last
   link, behind all the rest. *)
Links ==
  /\ \A t \in Tasks : prev[t] # None <=> pc[t] = "chained"
  /\ \A t \in Tasks : pc[t] = "chained" =>
       /\ pc[prev[t]] # "idle"
       /\ key[prev[t]] = key[t]
       /\ ahead[t] = ahead[prev[t]] \cup {prev[t]}
  /\ \A t \in Tasks : pc[t] # "idle" /\ prev[t] = None => ahead[t] = {}

Ordered ==
  \A t, u \in Tasks : pc[t] # "idle" /\ pc[u] # "idle" /\ key[t] = key[u] /\ t # u
                      => t \in ahead[u] \/ u \in ahead[t]

LastLink ==
  /\ \A k \in Keys : tails[k] # None =>
       /\ tails[k] \in Queued(k)
       /\ ahead[tails[k]] = Queued(k) \ {tails[k]}
  /\ \A t \in Tasks : pc[t] # "idle" => tails[key[t]] # None

IInv == TypeOK /\ Links /\ Ordered /\ LastLink

(* One task at a time under one key (keyed-queue.ts, "the single serialization
   point"): the slot every check-then-act of the daemon relies on. *)
MutualExclusion ==
  \A t, u \in Tasks : pc[t] = "running" /\ pc[u] = "running" /\ key[t] = key[u] => t = u

(* tryRun's question and the truth agree: the map has an entry for exactly the
   keys under which something is queued, running or still settling - an entry
   lost early would let a background actor run beside the holder, one kept
   for ever would make the scanner skip the sandbox for ever. *)
EntryWhileBusy == \A k \in Keys : tails[k] = None <=> Queued(k) = {}

(* Nothing blocks the line: a task chained behind another one runs, even when
   its predecessors are rejected. *)
ChainedRuns == \A t \in Tasks : pc[t] = "chained" ~> pc[t] = "running"

(* The chain serves its keys as Slot promises: exclusively, in order of arrival. *)
Stage(t) == CASE pc[t] = "idle" -> "out"
              [] pc[t] \in {"chained", "released"} -> "waiting"
              [] pc[t] = "running" -> "running"
              [] OTHER -> "over"

Promised == INSTANCE Slot WITH phase <- [t \in Tasks |-> Stage(t)], at <- key

ServesInOrder == Promised!Spec
=============================================================================
