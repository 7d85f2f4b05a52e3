-------------------------- MODULE KeyedQueueProofs --------------------------
(***************************************************************************)
(* Proofs about the per-sandbox queue, for every set of keys and every set *)
(* of callers.                                                             *)
(***************************************************************************)
EXTENDS KeyedQueue, TLAPS

(* Nothing is queued at first. *)
LEMMA InitIInv == Init => IInv
  BY DEF Init, IInv, TypeOK, PCs, Links, Ordered, LastLink, Queued

(* run() found no entry and nothing is queued, or the entry is the last link:
   either way the newcomer is behind exactly what is queued. *)
LEMMA RunIInv ==
  ASSUME IInv, NEW t \in Tasks, NEW k \in Keys, Run(t, k)
  PROVE  IInv'
<1> USE NoneAssumption
<1>1. TypeOK'
  BY DEF IInv, TypeOK, PCs, Run, Queued
<1>2. \A x \in Keys : Queued(x)' = IF x = k THEN Queued(k) \cup {t} ELSE Queued(x)
  BY DEF IInv, TypeOK, PCs, Run, Queued
<1>3. t \notin Queued(k)
  BY DEF Run, Queued
<1>4. tails[k] = None => Queued(k) = {}
  BY DEF IInv, TypeOK, LastLink, Queued
<1>5. tails[k] # None => /\ tails[k] \in Queued(k)
                         /\ Queued(k) = ahead[tails[k]] \cup {tails[k]}
  BY DEF IInv, LastLink
<1>6. Links'
  <2>1. \A u \in Tasks : u # t => prev'[u] = prev[u] /\ pc'[u] = pc[u] /\ key'[u] = key[u] /\ ahead'[u] = ahead[u]
    BY DEF IInv, TypeOK, Run
  <2>2. \A u \in Tasks : pc[u] = "chained" => prev[u] \in Tasks /\ prev[u] # t
    BY DEF IInv, TypeOK, Links, Run
  <2>3. prev'[t] = tails[k] /\ key'[t] = k /\ ahead'[t] = Queued(k)
        /\ pc'[t] = IF tails[k] = None THEN "running" ELSE "chained"
    BY DEF IInv, TypeOK, Run
  <2>4. tails[k] # None => /\ tails[k] \in Tasks /\ tails[k] # t
                           /\ pc[tails[k]] # "idle" /\ key[tails[k]] = k
    BY <1>3, <1>5 DEF Queued
  <2>. QED
    BY <1>4, <1>5, <2>1, <2>2, <2>3, <2>4 DEF IInv, Links
<1>7. Ordered'
  BY <1>2, <1>3 DEF IInv, TypeOK, Ordered, Run, Queued
<1>8. LastLink'
  BY <1>2, <1>3 DEF IInv, TypeOK, LastLink, Run, Queued, PCs
<1>. QED
  BY <1>1, <1>6, <1>7, <1>8 DEF IInv

(* Released, a task has nothing ahead of it; running, still nothing. *)
LEMMA StartIInv ==
  ASSUME IInv, NEW t \in Tasks, Start(t)
  PROVE  IInv'
  BY DEF IInv, TypeOK, PCs, Links, Ordered, LastLink, Queued, Start

(* A settled task keeps its place and its entry until its clean-up. *)
LEMMA SettleIInv ==
  ASSUME IInv, NEW t \in Tasks, NEW outcome \in {"resolved", "rejected"}, Settle(t, outcome)
  PROVE  IInv'
  BY DEF IInv, TypeOK, PCs, Links, Ordered, LastLink, Queued, Settle

(* The task leaving has nothing ahead of it, so it is every chain's first
   link; if it is also the last one, the key is free. *)
LEMMA CleanUpIInv ==
  ASSUME IInv, NEW t \in Tasks, CleanUp(t)
  PROVE  IInv'
<1> USE NoneAssumption
<1> DEFINE k == key[t]
<1>1. TypeOK'
  BY DEF IInv, TypeOK, PCs, CleanUp
<1>2. prev[t] = None /\ ahead[t] = {} /\ pc[t] # "idle" /\ pc[t] # "chained"
  BY DEF IInv, TypeOK, Links, CleanUp
<1>3. \A u \in Tasks : /\ pc'[u] = IF u = t THEN "idle" ELSE IF prev[u] = t THEN "released" ELSE pc[u]
                       /\ prev'[u] = IF prev[u] = t THEN None ELSE prev[u]
                       /\ ahead'[u] = ahead[u] \ {t}
                       /\ key'[u] = key[u]
  BY DEF CleanUp
<1>4. \A x \in Keys : Queued(x)' = Queued(x) \ {t}
  <2>1. \A u \in Tasks : pc'[u] # "idle" <=> pc[u] # "idle" /\ u # t
    BY <1>3 DEF IInv, TypeOK, Links
  <2>. QED
    BY <1>3, <2>1 DEF Queued
<1>5. Links'
  <2>1. \A u \in Tasks : pc'[u] = "chained" => pc[u] = "chained" /\ prev[u] # t /\ prev'[u] = prev[u] /\ prev[u] \in Tasks /\ u # t
    BY <1>3 DEF IInv, TypeOK, Links
  <2>2. \A u \in Tasks : prev'[u] # None <=> pc'[u] = "chained"
    BY <1>2, <1>3 DEF IInv, Links
  <2>3. ASSUME NEW u \in Tasks, pc'[u] = "chained"
        PROVE  /\ pc'[prev'[u]] # "idle"
               /\ key'[prev'[u]] = key'[u]
               /\ ahead'[u] = ahead'[prev'[u]] \cup {prev'[u]}
    <3>1. pc[u] = "chained" /\ prev[u] # t /\ prev'[u] = prev[u] /\ prev[u] \in Tasks
      BY <2>1, <2>3
    <3>2. pc[prev[u]] # "idle" /\ key[prev[u]] = key[u] /\ ahead[u] = ahead[prev[u]] \cup {prev[u]}
      BY <3>1 DEF IInv, Links
    <3>. QED
      BY <1>3, <3>1, <3>2
  <2>4. ASSUME NEW u \in Tasks, pc'[u] # "idle", prev'[u] = None
        PROVE  ahead'[u] = {}
    <3>1. CASE prev[u] = t
      BY <1>2, <1>3, <2>4, <3>1 DEF IInv, Links
    <3>2. CASE prev[u] # t
      BY <1>2, <1>3, <2>4, <3>2 DEF IInv, Links
    <3>. QED
      BY <3>1, <3>2
  <2>. QED
    BY <2>2, <2>3, <2>4 DEF Links
<1>6. Ordered'
  BY <1>2, <1>3 DEF IInv, TypeOK, Links, Ordered
<1>7. LastLink'
  <2>1. \A u \in Tasks : pc'[u] # "idle" => pc[u] # "idle" /\ u # t
    BY <1>2, <1>3 DEF IInv, TypeOK, Links
  <2>2. CASE tails[k] = t
    <3>1. Queued(k) = {t}
      BY <1>2, <2>2 DEF IInv, TypeOK, LastLink
    <3>2. tails' = [tails EXCEPT ![k] = None]
      BY <2>2 DEF CleanUp
    <3>3. \A u \in Tasks : pc'[u] # "idle" => key[u] # k
      BY <2>1, <3>1 DEF Queued
    <3>. QED
      BY <1>1, <1>3, <1>4, <2>1, <3>1, <3>2, <3>3 DEF IInv, TypeOK, LastLink, Queued
  <2>3. CASE tails[k] # t
    <3>1. tails' = tails
      BY <2>3 DEF CleanUp
    <3>2. \A x \in Keys : tails[x] # t
      BY <2>3 DEF IInv, LastLink, Queued, TypeOK
    <3>. QED
      BY <1>1, <1>3, <1>4, <2>1, <3>1, <3>2 DEF IInv, TypeOK, LastLink, Queued
  <2>. QED
    BY <2>2, <2>3
<1>. QED
  BY <1>1, <1>5, <1>6, <1>7 DEF IInv

(* Every step keeps the chain well linked. *)
LEMMA NextIInv == IInv /\ [Next]_vars => IInv'
<1> SUFFICES ASSUME IInv, [Next]_vars
             PROVE  IInv'
  OBVIOUS
<1>1. CASE UNCHANGED vars
  BY <1>1 DEF vars, IInv, TypeOK, PCs, Links, Ordered, LastLink, Queued
<1>2. CASE Next
  BY <1>2, RunIInv, StartIInv, SettleIInv, CleanUpIInv DEF Next, TryRun
<1>. QED
  BY <1>1, <1>2

(* The chain is well linked in every reachable state. *)
THEOREM Linked == Spec => []IInv
  BY InitIInv, NextIInv, PTL DEF Spec

(* keyed-queue.ts never runs two tasks of one key at the same time. *)
THEOREM SlotIsExclusive == Spec => []MutualExclusion
<1>1. IInv => MutualExclusion
  BY DEF IInv, Links, Ordered, MutualExclusion
<1>. QED
  BY <1>1, Linked, PTL

(* The map has an entry for a key exactly while something is under it: tryRun
   neither barges in nor turns away for nothing. *)
THEOREM EntryMeansBusy == Spec => []EntryWhileBusy
<1>1. IInv => EntryWhileBusy
  <2>1. ASSUME IInv, NEW k \in Keys, tails[k] = None
        PROVE  Queued(k) = {}
    BY <2>1 DEF IInv, LastLink, Queued
  <2>2. ASSUME IInv, NEW k \in Keys, tails[k] # None
        PROVE  Queued(k) # {}
    BY <2>2 DEF IInv, LastLink
  <2>. QED
    BY <2>1, <2>2 DEF EntryWhileBusy
<1>. QED
  BY <1>1, Linked, PTL

(* The promise chain implements the slot: every run() is an arrival behind
   exactly what is in line, every start a turn that has come. *)
THEOREM ChainImplementsSlot == Spec => ServesInOrder
<1> USE NoneAssumption
<1>1. Init => Promised!Init
  BY DEF Init, Promised!Init, Stage
<1>2. IInv /\ [Next]_vars => [Promised!Next]_(Promised!slotVars)
  <2> SUFFICES ASSUME IInv, [Next]_vars
               PROVE  [Promised!Next]_(Promised!slotVars)
    OBVIOUS
  <2>1. \A k \in Keys : Promised!InLine(k) = Queued(k)
    BY DEF IInv, TypeOK, PCs, Promised!InLine, Queued, Stage
  <2>2. ASSUME NEW t \in Tasks, NEW k \in Keys, Run(t, k)
        PROVE  Promised!Arrive(t, k)
    <3>1. tails[k] = None <=> Queued(k) = {}
      BY DEF IInv, TypeOK, LastLink, Queued
    <3>2. \A u \in Tasks : pc'[u] = IF u = t THEN (IF tails[k] = None THEN "running" ELSE "chained") ELSE pc[u]
      BY <2>2 DEF Run, IInv, TypeOK
    <3>3. Stage(t) = "out" /\ key' = [key EXCEPT ![t] = k] /\ ahead' = [ahead EXCEPT ![t] = Queued(k)]
      BY <2>2 DEF Run, Stage
    <3>4. \A u \in Tasks : Stage(u)' = IF u = t THEN (IF Queued(k) = {} THEN "running" ELSE "waiting") ELSE Stage(u)
      BY <3>1, <3>2 DEF Stage
    <3>. QED
      BY <2>1, <3>3, <3>4 DEF Promised!Arrive
  <2>3. ASSUME NEW t \in Tasks, Start(t)
        PROVE  Promised!Serve(t)
    <3>1. ahead[t] = {}
      BY <2>3 DEF Start, IInv, Links
    <3>2. \A u \in Tasks : pc'[u] = IF u = t THEN "running" ELSE pc[u]
      BY <2>3 DEF Start, IInv, TypeOK
    <3>3. Stage(t) = "waiting" /\ \A u \in Tasks : Stage(u)' = IF u = t THEN "running" ELSE Stage(u)
      BY <2>3, <3>2 DEF Start, Stage
    <3>4. UNCHANGED <<key, ahead>>
      BY <2>3 DEF Start
    <3>. QED
      BY <3>1, <3>3, <3>4 DEF Promised!Serve
  <2>4. ASSUME NEW t \in Tasks, NEW o \in {"resolved", "rejected"}, Settle(t, o)
        PROVE  Promised!Finish(t)
    <3>1. \A u \in Tasks : pc'[u] = IF u = t THEN o ELSE pc[u]
      BY <2>4 DEF Settle, IInv, TypeOK
    <3>2. Stage(t) = "running" /\ \A u \in Tasks : Stage(u)' = IF u = t THEN "over" ELSE Stage(u)
      BY <2>4, <3>1 DEF Settle, Stage
    <3>3. UNCHANGED <<key, ahead>>
      BY <2>4 DEF Settle
    <3>. QED
      BY <3>2, <3>3 DEF Promised!Finish
  <2>5. ASSUME NEW t \in Tasks, CleanUp(t)
        PROVE  Promised!Leave(t)
    <3>1. \A u \in Tasks : pc'[u] = IF u = t THEN "idle" ELSE IF prev[u] = t THEN "released" ELSE pc[u]
      BY <2>5 DEF CleanUp
    <3>2. \A u \in Tasks : prev[u] = t => pc[u] = "chained"
      BY DEF IInv, Links
    <3>3. pc[t] \in {"resolved", "rejected"} /\ key' = key /\ ahead' = [u \in Tasks |-> ahead[u] \ {t}]
      BY <2>5 DEF CleanUp
    <3>4. Stage(t) = "over" /\ \A u \in Tasks : Stage(u)' = IF u = t THEN "out" ELSE Stage(u)
      BY <3>1, <3>2, <3>3 DEF Stage
    <3>. QED
      BY <3>3, <3>4 DEF Promised!Leave
  <2>6. CASE UNCHANGED vars
    BY <2>6 DEF vars, Promised!slotVars, Stage
  <2>. QED
    BY <2>2, <2>3, <2>4, <2>5, <2>6 DEF Next, TryRun, Promised!Next
<1>. QED
  BY <1>1, <1>2, Linked, PTL DEF Spec, ServesInOrder, Promised!Spec
=============================================================================
