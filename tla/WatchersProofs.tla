--------------------------- MODULE WatchersProofs ---------------------------
(***************************************************************************)
(* Proofs about the watchers, for any requests, operations and limits.     *)
(***************************************************************************)
EXTENDS Watchers, FiniteSetTheorems, TLAPS

USE WatchAssumption DEF Watches, Requests, Actors

-----------------------------------------------------------------------------
(* What the parts of the handlers do to the table. *)
LEMMA EndedRecord ==
  ASSUME NEW x \in Records
  PROVE  /\ Ended(x) \in Records /\ Ended(x).state = "ended" /\ (x.state = "ended" \/ ~Ended(x).listed)
         /\ Ended(x).listed => x.listed
         /\ Ended(x).published = x.published /\ Ended(x).told = x.told /\ Ended(x).handle = x.handle
  BY DEF Ended, Records

LEMMA OpsType ==
  ASSUME TypeOK, NEW gone \in SUBSET Watches, NEW keep \in BOOLEAN
  PROVE  OpsWithout(gone, keep) \in [Ops -> Entries]
<1>1. NoEntry \in Entries BY DEF NoEntry, Entries
<1>2. ASSUME NEW o \in Ops PROVE [ops[o] EXCEPT !.kind = "tombstone"] \in Entries
  BY DEF TypeOK, Entries
<1> QED BY <1>1, <1>2 DEF TypeOK, OpsWithout

LEMMA FinalizeFacts ==
  ASSUME TypeOK, NEW w \in Watches, Finalize(w)
  PROVE  /\ rec' \in [Watches -> Records] /\ ops' \in [Ops -> Entries]
         /\ rec'[w] = Ended(rec[w]) /\ \A u \in Watches \ {w} : rec'[u] = rec[u]
<1>1. rec[w] \in Records /\ rec \in [Watches -> Records] BY DEF TypeOK
<1>2. Ended(rec[w]) \in Records BY <1>1, EndedRecord
<1>3. rec' = [rec EXCEPT ![w] = Ended(rec[w])] BY DEF Finalize
<1>4. ops' \in [Ops -> Entries] BY OpsType DEF Finalize
<1> QED BY <1>1, <1>2, <1>3, <1>4

LEMMA ReportFacts ==
  ASSUME TypeOK, NEW w \in Watches, Report(w)
  PROVE  /\ rec' = rec \/ rec' = [rec EXCEPT ![w] = OfItself(w)]
         /\ rec'[w] = rec[w] \/ rec'[w] = OfItself(w)
         /\ \A u \in Watches \ {w} : rec'[u] = rec[u] /\ proc'[u] = proc[u]
         /\ proc[w] = "dead" /\ proc'[w] = "seen" /\ rec[w].handle
         /\ UNCHANGED <<pc, down>>
<1>1. rec \in [Watches -> Records] /\ DOMAIN proc = Watches BY DEF TypeOK
<1>2. rec' = rec \/ rec' = [rec EXCEPT ![w] = OfItself(w)] BY DEF Report
<1>3. /\ proc[w] = "dead" /\ rec[w].handle /\ proc' = [proc EXCEPT ![w] = "seen"]
      /\ UNCHANGED <<pc, down>>
  BY DEF Report
<1> QED BY <1>1, <1>2, <1>3

LEMMA TellRecord ==
  ASSUME NEW x \in Records, NEW b \in BOOLEAN
  PROVE  LET y == [x EXCEPT !.told = b] IN
           y \in Records /\ y.state = x.state /\ y.listed = x.listed /\ y.published = x.published /\ y.told = b
  BY DEF Records

LEMMA DisposeFacts ==
  ASSUME TypeOK, Dispose
  PROVE  /\ rec' \in [Watches -> Records] /\ ops' \in [Ops -> Entries]
         /\ \A w \in Watches : ~rec[w].listed => rec'[w] = rec[w]
         /\ \A w \in Watches : rec[w].listed =>
              /\ rec'[w].state = "ended" /\ rec'[w].published = rec[w].published
              /\ w \in Streams => rec'[w].told
              /\ rec[w].state # "ended" => ~rec'[w].listed
<1>1. ASSUME NEW w \in Watches PROVE [Ended(rec[w]) EXCEPT !.told = w \in Streams] \in Records
  <2>1. Ended(rec[w]) \in Records /\ (w \in Streams) \in BOOLEAN BY EndedRecord DEF TypeOK
  <2> QED BY <2>1, TellRecord
<1>2. ASSUME NEW w \in Watches, rec[w].listed
      PROVE  /\ rec'[w].state = "ended" /\ rec'[w].published = rec[w].published
             /\ w \in Streams => rec'[w].told
             /\ rec[w].state # "ended" => ~rec'[w].listed
  <2>1. rec[w] \in Records /\ Ended(rec[w]) \in Records /\ (w \in Streams) \in BOOLEAN
    BY EndedRecord DEF TypeOK
  <2>2. rec'[w] = [Ended(rec[w]) EXCEPT !.told = w \in Streams] BY <1>2 DEF Dispose, Listed
  <2>3. /\ rec'[w].state = Ended(rec[w]).state /\ rec'[w].listed = Ended(rec[w]).listed
        /\ rec'[w].published = Ended(rec[w]).published /\ rec'[w].told = (w \in Streams)
    BY <2>1, <2>2, TellRecord
  <2> QED BY <2>1, <2>3, EndedRecord
<1>3. Listed \in SUBSET Watches BY DEF Listed
<1> QED BY <1>1, <1>2, <1>3, OpsType DEF Dispose, Listed, TypeOK

LEMMA KilledFacts ==
  ASSUME TypeOK
  PROVE  /\ Killed \in [Watches -> {"none", "alive", "stray", "dead", "seen"}]
         /\ \A w \in Watches : Killed[w] \notin {"alive", "stray"}
  BY DEF TypeOK, Killed

-----------------------------------------------------------------------------
(* Types. *)
LEMMA InitType == Init => TypeOK
<1>1. NoRecord \in Records /\ NoEntry \in Entries BY DEF NoRecord, NoEntry, Records, Entries
<1> QED BY <1>1 DEF Init, TypeOK, Stages

LEMMA NewRecordType ==
  /\ NewRecord \in Records /\ NewRecord.state = "starting" /\ NewRecord.listed /\ ~NewRecord.published
  /\ \A p \in Polls : [kind |-> "live", by |-> p] \in Entries
  BY DEF NewRecord, NoRecord, Records, Entries

LEMMA RequestType == ASSUME TypeOK, NEW r \in Requests, Request(r) PROVE TypeOK'
<1> USE DEF TypeOK
<1>1. CASE Call(r) BY <1>1 DEF Call, Stages
<1>2. CASE Take(r) BY <1>2 DEF Take, Stages
<1>3. CASE Refuse(r)
  <2>1. rec' \in [Watches -> Records] /\ ops' \in [Ops -> Entries] BY <1>3, FinalizeFacts DEF Refuse
  <2> QED BY <1>3, <2>1 DEF Refuse, Over, Stages
<1>4. CASE WakeWarm(r)
  <2>1. Retired \in SUBSET Watches BY DEF Retired, Listed
  <2> QED BY <1>4, <2>1 DEF WakeWarm, Stages
<1>5. CASE WakeAnew(r)
  <2>1. rec' \in [Watches -> Records] /\ ops' \in [Ops -> Entries] BY <1>5, DisposeFacts DEF WakeAnew
  <2> QED BY <1>5, <2>1, KilledFacts DEF WakeAnew, Stages
<1>6. CASE WakeHalf(r)
  <2>1. rec' \in [Watches -> Records] /\ ops' \in [Ops -> Entries] BY <1>6, DisposeFacts DEF WakeHalf
  <2> QED BY <1>6, <2>1, KilledFacts DEF WakeHalf, Over, Stages
<1>7. CASE ReapNext(r)
  <2>1. todo' \in [Requests -> SUBSET Watches] /\ stop' \in [Watches -> SUBSET (Requests \cup {Daemon})]
    BY <1>7 DEF ReapNext, Joined
  <2> QED BY <1>7, <2>1 DEF ReapNext
<1>8. CASE Visited(r) BY <1>8 DEF Visited, Stages
<1> QED BY <1>1, <1>2, <1>3, <1>4, <1>5, <1>6, <1>7, <1>8 DEF Request

LEMMA StreamType == ASSUME TypeOK, NEW s \in Streams, Stream(s) PROVE TypeOK'
<1> USE DEF TypeOK
<1>1. CASE Reserve(s) BY <1>1, NewRecordType DEF Reserve, Stages
<1>2. CASE WokenStream(s) BY <1>2 DEF WokenStream, Stages
<1>3. CASE Open(s) BY <1>3 DEF Open, Stages
<1>4. CASE EndStream(s) BY <1>4 DEF EndStream, Stages
<1>5. CASE RemoveAgain(s) BY <1>5 DEF RemoveAgain, Joined
<1> QED BY <1>1, <1>2, <1>3, <1>4, <1>5 DEF Stream

LEMMA PollType == ASSUME TypeOK, NEW p \in Polls, Poll(p) PROVE TypeOK'
<1> USE DEF TypeOK
<1>1. CASE Replay(p)
  <2>1. Entry(p).by \in Polls \cup {NoOne} BY DEF Entry, NoEntry, Entries
  <2>2. ans' \in [Polls -> Polls \cup {NoOne}] BY <1>1, <2>1 DEF Replay
  <2> QED BY <1>1, <2>2 DEF Replay, Stages
<1>2. CASE Create(p)
  <2>1. rec' \in [Watches -> Records] /\ ops' \in [Ops -> Entries] BY <1>2, NewRecordType DEF Create
  <2> QED BY <1>2, <2>1 DEF Create, Stages
<1>3. CASE Remove(p) BY <1>3 DEF Remove, Stages
<1> QED BY <1>1, <1>2, <1>3 DEF Poll

LEMMA StateRecord ==
  ASSUME NEW x \in Records
  PROVE  /\ [x EXCEPT !.state = "retired"] \in Records
         /\ \A b \in BOOLEAN : [x EXCEPT !.state = "retired", !.told = b] \in Records
         /\ [x EXCEPT !.handle = TRUE, !.state = "retired"] \in Records
         /\ [x EXCEPT !.handle = TRUE, !.state = "active", !.published = TRUE] \in Records
  BY DEF Records

LEMMA WatcherType == ASSUME TypeOK, NEW w \in Watches, Watcher(w) PROVE TypeOK'
<1> USE DEF TypeOK
<1>0. rec[w] \in Records OBVIOUS
<1>1. CASE Spawn(w) BY <1>1 DEF Spawn, Stages
<1>2. CASE StartFails(w)
  <2>1. proc' \in [Watches -> {"none", "alive", "stray", "dead", "seen"}] BY <1>2 DEF StartFails
  <2> QED BY <1>2, <2>1, FinalizeFacts DEF StartFails, Leave, Stages
<1>3. CASE Established(w)
  <2>1. rec' \in [Watches -> Records]
    <3> DEFINE x == [rec[w] EXCEPT !.handle = TRUE, !.state = "active", !.published = TRUE]
               y == [rec[w] EXCEPT !.handle = TRUE, !.state = "retired"]
    <3>1. x \in Records /\ y \in Records BY <1>0, StateRecord
    <3>2. rec' = [rec EXCEPT ![w] = x] \/ rec' = [rec EXCEPT ![w] = y] BY <1>3 DEF Established
    <3> HIDE DEF x, y
    <3> QED BY <3>1, <3>2
  <2>2. ans' \in [Polls -> Polls \cup {NoOne}] BY <1>3 DEF Established
  <2>3. stop' \in [Watches -> SUBSET (Requests \cup {Daemon})] BY <1>3 DEF Established, Joined
  <2>4. slot' \in {slot, Free} /\ DOMAIN pc = DOMAIN pc' /\ \A v \in DOMAIN pc : pc'[v] \in {pc[v], "answered", "open", "undoing"}
    BY <1>3 DEF Established, Leave
  <2> QED BY <1>3, <2>1, <2>2, <2>3, <2>4 DEF Established, Stages
<1>4. CASE Undone(w) BY <1>4, FinalizeFacts DEF Undone, Leave, Stages
<1>5. CASE RemoveGoal(w)
  <2>1. rec' \in [Watches -> Records] BY <1>5, StateRecord DEF RemoveGoal
  <2>2. stop' \in [Watches -> SUBSET (Requests \cup {Daemon})] BY <1>5 DEF RemoveGoal, Joined
  <2> QED BY <1>5, <2>1, <2>2 DEF RemoveGoal, Leave, Stages
<1>6. CASE Removed(w) BY <1>6 DEF Removed, Leave, Stages
<1>7. CASE StopLands(w) BY <1>7, FinalizeFacts DEF StopLands
<1>8. CASE StopMoot(w) BY <1>8, FinalizeFacts DEF StopMoot
<1>9. CASE StopFails(w) BY <1>9 DEF StopFails
<1>10. CASE Ends(w) BY <1>10 DEF Ends
<1>11. CASE Report(w)
  <2>1. rec' \in [Watches -> Records] /\ ops' \in [Ops -> Entries]
    <3>1. Ended(rec[w]) \in Records /\ (rec[w].told \/ w \in Streams) \in BOOLEAN BY <1>0, EndedRecord
    <3>2. OfItself(w) \in Records BY <3>1, TellRecord DEF OfItself
    <3>3. {w} \in SUBSET Watches OBVIOUS
    <3>4. OpsWithout({w}, TRUE) \in [Ops -> Entries] BY <3>3, OpsType
    <3>5. rec' = rec \/ rec' = [rec EXCEPT ![w] = OfItself(w)] BY <1>11 DEF Report
    <3>6. ops' = ops \/ ops' = OpsWithout({w}, TRUE) BY <1>11 DEF Report
    <3>7. rec' \in [Watches -> Records] BY <3>2, <3>5
    <3>8. ops' \in [Ops -> Entries] BY <3>4, <3>6
    <3> QED BY <3>7, <3>8
  <2> QED BY <1>11, <2>1 DEF Report
<1> QED BY <1>1, <1>2, <1>3, <1>4, <1>5, <1>6, <1>7, <1>8, <1>9, <1>10, <1>11 DEF Watcher

LEMMA RestType ==
  ASSUME TypeOK,
         (\E o \in Ops : Expire(o)) \/ (\E what \in {"freeze", "stop", "destroy"} : Keep(what))
           \/ Kept \/ Die \/ Shutdown \/ ShutdownEnds
  PROVE  TypeOK'
<1> USE DEF TypeOK
<1>0. Listed \in SUBSET Watches /\ NoEntry \in Entries BY DEF Listed, NoEntry, Entries
<1>1. ASSUME NEW o \in Ops, Expire(o) PROVE TypeOK' BY <1>0, <1>1 DEF Expire
<1>2. ASSUME NEW what \in {"freeze", "stop", "destroy"}, Keep(what) PROVE TypeOK'
  BY <1>2, KilledFacts DEF Keep
<1>3. CASE Kept BY <1>3, DisposeFacts DEF Kept
<1>4. CASE Die BY <1>4, KilledFacts DEF Die
<1>5. CASE Shutdown
  <2>1. ASSUME NEW w \in Watches PROVE [rec[w] EXCEPT !.state = "retired", !.told = w \in Streams] \in Records
    <3>1. rec[w] \in Records /\ (w \in Streams) \in BOOLEAN OBVIOUS
    <3> QED BY <3>1, StateRecord
  <2> QED BY <1>5, <2>1 DEF Shutdown
<1>6. CASE ShutdownEnds
  <2>1. \A w \in Watches : Ended(rec[w]) \in Records BY EndedRecord
  <2> QED BY <1>0, <1>6, <2>1, OpsType DEF ShutdownEnds
<1> QED BY <1>1, <1>2, <1>3, <1>4, <1>5, <1>6

LEMMA NextType == ASSUME TypeOK, [Next]_vars PROVE TypeOK'
<1>1. CASE UNCHANGED vars BY <1>1 DEF vars, TypeOK
<1> QED BY <1>1, RequestType, StreamType, PollType, WatcherType, RestType DEF Next

(* The state is well-formed. *)
THEOREM AlwaysTypeOK == Spec => []TypeOK
  BY InitType, NextType, PTL DEF Spec

-----------------------------------------------------------------------------
(* The slot, the keeper's job, and what is left in a container that is down. *)
Slotted ==
  /\ \A r \in Requests : InSlot(r) <=> slot = r
  /\ slot = Keeper <=> job # "none"
  /\ \A p \in Polls : pc[p] # "closing"

Still ==
  /\ job \in {"stop", "destroy"} => shell = "down"
  /\ shell = "down" => \A w \in Watches : proc[w] \notin {"alive", "stray"}

(* The slot is taken, handed on to the next stage or given back. *)
LEMMA SlotStep ==
  ASSUME TypeOK, Slotted, NEW r \in Requests, NEW s \in Stages, pc' = [pc EXCEPT ![r] = s], job' = job,
         s = "closing" => r \notin Polls,
         \/ slot = Free /\ slot' = r /\ InSlot(r)'
         \/ slot' = slot /\ (InSlot(r)' <=> InSlot(r))
         \/ slot = r /\ slot' = Free /\ ~InSlot(r)'
  PROVE  Slotted'
<1>1. \A q \in Requests \ {r} : pc'[q] = pc[q] BY DEF TypeOK
<1>2. \A q \in Requests \ {r} : InSlot(q)' <=> InSlot(q) BY <1>1 DEF InSlot
<1>3. Free \notin Requests /\ Keeper # Free /\ Keeper \notin Requests OBVIOUS
<1>4. \A p \in Polls : pc'[p] # "closing" BY <1>1 DEF Slotted, TypeOK
<1> QED BY <1>2, <1>3, <1>4 DEF Slotted

LEMMA RequestSlotted == ASSUME TypeOK, Slotted, NEW r \in Requests, Request(r) PROVE Slotted'
<1> USE DEF Stages
<1>0. pc[r] \in Stages BY DEF TypeOK
<1>1. CASE Call(r) BY <1>1, SlotStep DEF Call, InSlot, TypeOK
<1>2. CASE Take(r) BY <1>2, SlotStep DEF Take, InSlot, TypeOK
<1>3. CASE Refuse(r)
  <2>1. PICK s \in {"idle", "done"} : pc' = [pc EXCEPT ![r] = s] BY <1>3 DEF Refuse, Over
  <2>2. pc'[r] = s /\ job' = job BY <1>3, <2>1 DEF Refuse, TypeOK
  <2>3. ~InSlot(r)' BY <2>2 DEF InSlot
  <2>4. CASE pc[r] = "queued" /\ slot' = slot
    <3>1. ~InSlot(r) BY <2>4 DEF InSlot
    <3> QED BY <2>1, <2>2, <2>3, <2>4, <3>1, SlotStep
  <2>5. CASE pc[r] = "waking" /\ slot' = Free
    <3>1. slot = r BY <2>5 DEF InSlot, Slotted
    <3> QED BY <2>1, <2>2, <2>3, <2>5, <3>1, SlotStep
  <2> QED BY <1>3, <2>4, <2>5 DEF Refuse
<1>4. CASE WakeWarm(r) BY <1>4, SlotStep DEF WakeWarm, InSlot, TypeOK
<1>5. CASE WakeAnew(r) BY <1>5, SlotStep DEF WakeAnew, InSlot, TypeOK
<1>6. CASE WakeHalf(r)
  <2>1. PICK s \in {"idle", "done"} : pc' = [pc EXCEPT ![r] = s] BY <1>6 DEF WakeHalf, Over
  <2>2. pc'[r] = s /\ job' = job /\ slot' = Free /\ pc[r] = "waking" BY <1>6, <2>1 DEF WakeHalf, TypeOK
  <2>3. ~InSlot(r)' /\ slot = r BY <2>2 DEF InSlot, Slotted
  <2> QED BY <2>1, <2>2, <2>3, SlotStep
<1>7. CASE ReapNext(r) BY <1>7 DEF ReapNext, InSlot, Slotted
<1>8. CASE Visited(r)
  <2>1. slot = r BY <1>8 DEF Visited, Woken, InSlot, Slotted
  <2> QED BY <1>8, <2>1, SlotStep DEF Visited, InSlot, TypeOK
<1> QED BY <1>1, <1>2, <1>3, <1>4, <1>5, <1>6, <1>7, <1>8 DEF Request

LEMMA StreamSlotted == ASSUME TypeOK, Slotted, NEW s \in Streams, Stream(s) PROVE Slotted'
<1> USE DEF Stages
<1>1. CASE Reserve(s) BY <1>1, SlotStep DEF Reserve, InSlot, TypeOK
<1>2. CASE WokenStream(s)
  <2>1. slot = s BY <1>2 DEF WokenStream, Woken, InSlot, Slotted
  <2> QED BY <1>2, <2>1, SlotStep DEF WokenStream, InSlot, TypeOK
<1>3. CASE Open(s)
  <2>1. PICK p \in {"starting", "done"} : pc' = [pc EXCEPT ![s] = p] BY <1>3 DEF Open
  <2>2. ~InSlot(s) /\ ~InSlot(s)' BY <1>3, <2>1 DEF Open, InSlot, TypeOK
  <2> QED BY <1>3, <2>1, <2>2, SlotStep DEF Open
<1>4. CASE EndStream(s) BY <1>4, SlotStep DEF EndStream, InSlot, TypeOK
<1>5. CASE RemoveAgain(s) BY <1>5 DEF RemoveAgain, InSlot, Slotted
<1> QED BY <1>1, <1>2, <1>3, <1>4, <1>5 DEF Stream

LEMMA PollSlotted == ASSUME TypeOK, Slotted, NEW p \in Polls, Poll(p) PROVE Slotted'
<1> USE DEF Stages
<1>1. CASE Replay(p)
  <2>1. slot = p BY <1>1 DEF Replay, Woken, InSlot, Slotted
  <2>2. PICK s \in {"answered", "done"} : pc' = [pc EXCEPT ![p] = s] BY <1>1 DEF Replay
  <2>3. ~InSlot(p)' BY <2>2 DEF InSlot, TypeOK
  <2> QED BY <1>1, <2>1, <2>2, <2>3, SlotStep DEF Replay
<1>2. CASE Create(p)
  <2>1. slot = p /\ InSlot(p) BY <1>2 DEF Create, Woken, InSlot, Slotted
  <2>2. CASE pc' = [pc EXCEPT ![p] = "starting"] /\ slot' = slot
    <3>1. InSlot(p)' BY <2>2 DEF InSlot, TypeOK
    <3> QED BY <1>2, <2>1, <2>2, <3>1, SlotStep DEF Create
  <2>3. CASE pc' = [pc EXCEPT ![p] = "done"] /\ slot' = Free
    <3>1. ~InSlot(p)' BY <2>3 DEF InSlot, TypeOK
    <3> QED BY <1>2, <2>1, <2>3, <3>1, SlotStep DEF Create
  <2> QED BY <1>2, <2>2, <2>3 DEF Create
<1>3. CASE Remove(p)
  <2>1. ~InSlot(p) BY <1>3 DEF Remove, InSlot
  <2>2. CASE row = "gone"
    <3>1. pc' = [pc EXCEPT ![p] = "done"] /\ slot' = slot /\ job' = job BY <1>3, <2>2 DEF Remove
    <3>2. ~InSlot(p)' BY <3>1 DEF InSlot, TypeOK
    <3> QED BY <2>1, <3>1, <3>2, SlotStep
  <2>3. CASE row # "gone"
    <3>1. pc' = [pc EXCEPT ![p] = "leaving"] /\ slot' = p /\ slot = Free /\ job' = job BY <1>3, <2>3 DEF Remove
    <3>2. InSlot(p)' BY <3>1 DEF InSlot, TypeOK
    <3> QED BY <2>1, <3>1, <3>2, SlotStep
  <2> QED BY <2>2, <2>3
<1> QED BY <1>1, <1>2, <1>3 DEF Poll

(* A watcher's start and its removal: in the slot for a poll, not for a
   stream. *)
LEMMA LeaveSlot ==
  ASSUME TypeOK, Slotted, NEW w \in Watches, NEW s \in {"done", "answered", "open"},
         pc' = [pc EXCEPT ![w] = s], job' = job, Leave(w), InSlot(w) \/ slot # w
  PROVE  Slotted'
<1>1. ~InSlot(w)' BY DEF InSlot, TypeOK
<1>2. CASE slot = w BY <1>1, <1>2, SlotStep DEF Leave, Stages
<1>3. CASE slot # w
  <2>1. ~InSlot(w) /\ slot' = slot BY <1>3 DEF Slotted, Leave
  <2> QED BY <1>1, <2>1, SlotStep DEF Stages
<1> QED BY <1>2, <1>3

LEMMA WatcherSlotted == ASSUME TypeOK, Slotted, NEW w \in Watches, Watcher(w) PROVE Slotted'
<1> USE DEF Stages
<1>0. InSlot(w) \/ slot # w BY DEF Slotted
<1>1. CASE Spawn(w) BY <1>1, SlotStep DEF Spawn, InSlot, TypeOK
<1>2. CASE StartFails(w) BY <1>0, <1>2, LeaveSlot DEF StartFails
<1>3. CASE Established(w)
  <2>1. CASE rec[w].state = "starting"
    <3>1. PICK s \in {"answered", "open"} : pc' = [pc EXCEPT ![w] = s] BY <1>3, <2>1 DEF Established
    <3> QED BY <1>0, <1>3, <2>1, <3>1, LeaveSlot DEF Established
  <2>2. CASE rec[w].state # "starting"
    <3>1. pc' = [pc EXCEPT ![w] = "undoing"] /\ slot' = slot /\ job' = job /\ pc[w] = "spawned"
      BY <1>3, <2>2 DEF Established
    <3>2. InSlot(w)' <=> InSlot(w) BY <3>1 DEF InSlot, TypeOK
    <3> QED BY <3>1, <3>2, SlotStep
  <2> QED BY <2>1, <2>2
<1>4. CASE Undone(w) BY <1>0, <1>4, LeaveSlot DEF Undone
<1>5. CASE RemoveGoal(w)
  <2>1. CASE pc' = [pc EXCEPT ![w] = "stopping"] /\ slot' = slot
    <3>1. pc[w] \in {"closing", "leaving"} /\ pc'[w] = "stopping" BY <1>5, <2>1 DEF RemoveGoal, TypeOK
    <3>2. w \in Polls => pc[w] = "leaving" BY <3>1 DEF Slotted
    <3>3. InSlot(w)' <=> InSlot(w) BY <3>1, <3>2 DEF InSlot
    <3> QED BY <1>5, <2>1, <3>3, SlotStep DEF RemoveGoal
  <2>2. CASE pc' = [pc EXCEPT ![w] = "done"] /\ Leave(w) BY <1>0, <1>5, <2>2, LeaveSlot DEF RemoveGoal
  <2> QED BY <1>5, <2>1, <2>2 DEF RemoveGoal
<1>6. CASE Removed(w) BY <1>0, <1>6, LeaveSlot DEF Removed
<1>7. CASE UNCHANGED <<pc, slot, job>> BY <1>7 DEF Slotted, InSlot
<1> QED BY <1>1, <1>2, <1>3, <1>4, <1>5, <1>6, <1>7 DEF Watcher, StopLands, StopMoot, StopFails, Ends, Report

LEMMA RestSlotted ==
  ASSUME TypeOK, Slotted,
         (\E o \in Ops : Expire(o)) \/ (\E what \in {"freeze", "stop", "destroy"} : Keep(what))
           \/ Kept \/ Die \/ Shutdown \/ ShutdownEnds
  PROVE  Slotted'
<1>0. Free \notin Requests /\ Keeper # Free /\ Keeper \notin Requests OBVIOUS
<1>1. CASE UNCHANGED <<pc, slot, job>> BY <1>1 DEF Slotted, InSlot
<1>2. ASSUME NEW what \in {"freeze", "stop", "destroy"}, Keep(what) PROVE Slotted'
  BY <1>0, <1>2 DEF Keep, Slotted, InSlot
<1>3. CASE Kept BY <1>0, <1>3 DEF Kept, Slotted, InSlot
<1> QED BY <1>1, <1>2, <1>3 DEF Expire, Die, Shutdown, ShutdownEnds

LEMMA NextSlotted == ASSUME TypeOK, Slotted, [Next]_vars PROVE Slotted'
<1>1. CASE UNCHANGED vars BY <1>1 DEF vars, Slotted, InSlot
<1> QED BY <1>1, RequestSlotted, StreamSlotted, PollSlotted, WatcherSlotted, RestSlotted DEF Next

LEMMA NextStill == ASSUME TypeOK, Slotted, Still, [Next]_vars PROVE Still'
<1> USE DEF Still
<1>0. Free \notin Requests /\ Keeper # Free /\ Keeper \notin Requests OBVIOUS
<1>1. ASSUME NEW r \in Requests, Request(r) PROVE Still'
  <2>1. CASE WakeWarm(r) \/ WakeAnew(r) \/ WakeHalf(r)
    <3>1. slot = r BY <2>1 DEF WakeWarm, WakeAnew, WakeHalf, InSlot, Slotted
    <3>2. job = "none" BY <1>0, <3>1 DEF Slotted, TypeOK
    <3> QED BY <2>1, <3>2, KilledFacts DEF WakeWarm, WakeAnew, WakeHalf
  <2>2. CASE UNCHANGED <<shell, job, proc>> BY <2>2
  <2> QED BY <1>1, <2>1, <2>2 DEF Request, Call, Take, Refuse, ReapNext, Visited
<1>2. ASSUME NEW w \in Watches, Watcher(w) PROVE Still'
  <2>1. UNCHANGED <<shell, job>>
    BY <1>2 DEF Watcher, Spawn, StartFails, Established, Undone, RemoveGoal, Removed, StopLands, StopMoot, StopFails,
                Ends, Report
  <2>2. proc' = proc \/ shell # "down" \/ proc' \in {[proc EXCEPT ![w] = "seen"], [proc EXCEPT ![w] = "dead"]}
    <3>1. CASE StartFails(w) BY <3>1 DEF StartFails, TypeOK
    <3>2. CASE Spawn(w) \/ StopLands(w) \/ Ends(w) \/ Report(w) BY <3>2 DEF Spawn, StopLands, Ends, Report
    <3>3. CASE UNCHANGED proc BY <3>3
    <3> QED BY <1>2, <3>1, <3>2, <3>3
            DEF Watcher, Established, Undone, RemoveGoal, Removed, StopMoot, StopFails
  <2> QED BY <2>1, <2>2 DEF TypeOK
<1>3. ASSUME NEW what \in {"freeze", "stop", "destroy"}, Keep(what) PROVE Still'
  BY <1>3, KilledFacts DEF Keep
<1>4. CASE Kept BY <1>4 DEF Kept
<1>5. CASE Die BY <1>5, KilledFacts DEF Die
<1>6. CASE UNCHANGED <<shell, job, proc>> BY <1>6
<1> QED BY <1>1, <1>2, <1>3, <1>4, <1>5, <1>6
        DEF Next, Stream, Reserve, WokenStream, Open, EndStream, RemoveAgain, Poll, Replay, Create, Remove,
            Expire, Shutdown, ShutdownEnds, vars

-----------------------------------------------------------------------------
(* The life of a record: there is none before its request has come to it, it
   is published at the end of its start, and what is retired or ended stays
   that. *)
Fresh(w) == pc[w] = "idle" \/ (w \in Polls /\ pc[w] \in {"queued", "waking", "reaping"})
Underway(w) == pc[w] \in {"idle", "queued", "waking", "reaping", "opening", "starting", "spawned", "undoing"}
Past(w) == rec[w].state \in {"retired", "ended"}

Shape ==
  /\ \A w \in Watches : rec[w].listed => rec[w].state \in {"starting", "active", "retired"}
  /\ \A w \in Watches : rec[w].state \in {"starting", "active"} => rec[w].listed /\ down = "no"
  /\ \A w \in Watches : Fresh(w) => rec[w] = NoRecord
  /\ \A w \in Watches : Underway(w) => ~rec[w].published
  /\ \A w \in Watches : stop[w] # {} => Past(w)
  /\ \A r \in Requests : \A w \in todo[r] : Past(w)
  /\ \A s \in Streams : pc[s] = "stopping" => Past(s)

(* A step that ends or retires records, or leaves them. *)
Wanes(w) ==
  \/ rec'[w] = rec[w]
  \/ /\ ~Fresh(w)
     /\ rec'[w].state \in {"retired", "ended"} /\ rec'[w].published = rec[w].published
     /\ rec'[w].listed => rec'[w].state = "retired"

(* A step that leaves a request where it is, or takes it further. *)
Passes(w) ==
  /\ Fresh(w)' => Fresh(w)
  /\ Underway(w)' => Underway(w)
  /\ w \in Streams /\ pc'[w] = "stopping" => pc[w] = "stopping" \/ Past(w)'

LEMMA ShapeStep ==
  ASSUME TypeOK, TypeOK', Shape,
         \A w \in Watches :
           /\ Wanes(w)
           /\ Passes(w)
           /\ stop'[w] # {} => stop[w] # {} \/ Past(w)',
         \A r \in Requests : \A w \in todo'[r] : w \in todo[r] \/ Past(w)',
         down' = down \/ \A w \in Watches : rec'[w].state \notin {"starting", "active"}
  PROVE  Shape'
<1>1. ASSUME NEW w \in Watches PROVE Past(w) => Past(w)'
  BY <1>1 DEF Wanes, Past
<1>2. todo \in [Requests -> SUBSET Watches] /\ todo' \in [Requests -> SUBSET Watches] BY DEF TypeOK
<1>3. ASSUME NEW w \in Watches
      PROVE  /\ rec'[w].listed => rec'[w].state \in {"starting", "active", "retired"}
             /\ rec'[w].state \in {"starting", "active"} => rec'[w].listed /\ down' = "no"
             /\ Fresh(w)' => rec'[w] = NoRecord
             /\ Underway(w)' => ~rec'[w].published
             /\ stop'[w] # {} => Past(w)'
  BY <1>1, <1>3 DEF Wanes, Passes, Shape
<1>4. ASSUME NEW r \in Requests, NEW w \in todo'[r] PROVE Past(w)'
  BY <1>1, <1>2, <1>4 DEF Shape
<1>5. ASSUME NEW s \in Streams, pc'[s] = "stopping" PROVE Past(s)'
  BY <1>1, <1>5 DEF Passes, Shape
<1> QED BY <1>3, <1>4, <1>5 DEF Shape

LEMMA FinalizeWanes ==
  ASSUME TypeOK, Shape, NEW w \in Watches, ~Fresh(w), Finalize(w) PROVE \A u \in Watches : Wanes(u)
<1>1. rec[w] \in Records BY DEF TypeOK
<1>2. Wanes(w) BY <1>1, FinalizeFacts, EndedRecord DEF Wanes, Shape
<1> QED BY <1>2, FinalizeFacts DEF Wanes

LEMMA DisposeWanes ==
  ASSUME TypeOK, Shape, Dispose PROVE \A u \in Watches : Wanes(u)
<1>1. ASSUME NEW u \in Watches, rec[u].listed PROVE Wanes(u)
  <2>1. ~Fresh(u) /\ rec[u].state # "ended" BY <1>1 DEF Shape, NoRecord
  <2> QED BY <1>1, <2>1, DisposeFacts DEF Wanes
<1>2. ASSUME NEW u \in Watches, ~rec[u].listed PROVE Wanes(u) BY <1>2, DisposeFacts DEF Wanes
<1> QED BY <1>1, <1>2

(* Where a request goes on to. *)
LEMMA Onward ==
  ASSUME TypeOK, NEW r \in Requests, NEW s \in Stages, pc' = [pc EXCEPT ![r] = s], s # "stopping",
         (Underway(r)' => Underway(r)), (Fresh(r)' => Fresh(r))
  PROVE  \A w \in Watches : Passes(w)
<1>1. pc'[r] = s /\ \A q \in Requests \ {r} : pc'[q] = pc[q] BY DEF TypeOK
<1> QED BY <1>1 DEF Fresh, Underway, Passes

LEMMA RequestShape == ASSUME TypeOK, TypeOK', Shape, NEW r \in Requests, Request(r) PROVE Shape'
<1> USE DEF Stages
<1>0. Visitors \cap Watches = {} /\ \A w \in Watches : w \in Streams \/ w \in Polls OBVIOUS
<1>1. CASE UNCHANGED <<rec, stop, todo, down>> /\ \A w \in Watches : Passes(w)
  BY <1>1, ShapeStep DEF Wanes
<1>2. CASE Call(r)
  <2>1. pc' = [pc EXCEPT ![r] = "queued"] /\ pc[r] = "idle" /\ pc'[r] = "queued" BY <1>2 DEF Call, TypeOK
  <2>2. (Underway(r)' => Underway(r)) /\ (Fresh(r)' => Fresh(r)) BY <2>1 DEF Underway, Fresh
  <2> QED BY <1>1, <1>2, <2>1, <2>2, Onward DEF Call
<1>3. CASE Take(r)
  <2>1. pc' = [pc EXCEPT ![r] = "waking"] /\ pc[r] = "queued" /\ pc'[r] = "waking" BY <1>3 DEF Take, TypeOK
  <2>2. (Underway(r)' => Underway(r)) /\ (Fresh(r)' => Fresh(r)) BY <2>1 DEF Underway, Fresh
  <2> QED BY <1>1, <1>3, <2>1, <2>2, Onward DEF Take
<1>4. ASSUME Over(r), pc[r] \in {"queued", "waking"}
      PROVE  \A w \in Watches : Passes(w)
  <2>1. PICK s \in {"idle", "done"} : pc' = [pc EXCEPT ![r] = s] /\ (r \in Watches => s = "done")
    BY <1>0, <1>4 DEF Over
  <2>2. pc'[r] = s BY <2>1 DEF TypeOK
  <2>3. \A q \in Requests \ {r} : pc'[q] = pc[q] BY <2>1 DEF TypeOK
  <2> QED BY <2>1, <2>2, <2>3 DEF Fresh, Underway, Passes
<1>5. CASE Refuse(r)
  <2>1. \A u \in Watches : Wanes(u)
    <3>1. CASE UNCHANGED rec BY <3>1 DEF Wanes
    <3>2. CASE r \in Streams /\ Finalize(r)
      <4>1. ~Fresh(r) BY <1>5, <3>2 DEF Refuse, Fresh
      <4> QED BY <3>2, <4>1, FinalizeWanes
    <3> QED BY <1>5, <3>1, <3>2 DEF Refuse
  <2>2. Over(r) /\ pc[r] \in {"queued", "waking"} /\ UNCHANGED <<stop, todo, down>> BY <1>5 DEF Refuse
  <2> QED BY <1>4, <2>1, <2>2, ShapeStep
<1>6. CASE WakeWarm(r)
  <2>1. pc' = [pc EXCEPT ![r] = "reaping"] /\ pc[r] = "waking" /\ pc'[r] = "reaping" BY <1>6 DEF WakeWarm, TypeOK
  <2>2. (Underway(r)' => Underway(r)) /\ (Fresh(r)' => Fresh(r)) BY <2>1 DEF Underway, Fresh
  <2>3. \A q \in Requests : \A w \in todo'[q] : w \in todo[q] \/ Past(w)'
    <3>1. \A w \in Retired : Past(w)' BY <1>6 DEF WakeWarm, Retired, Past
    <3> QED BY <1>6, <3>1 DEF WakeWarm, TypeOK
  <2>4. \A w \in Watches : Passes(w) BY <2>1, <2>2, Onward
  <2> QED BY <1>6, <2>3, <2>4, ShapeStep DEF WakeWarm, Wanes
<1>7. CASE WakeAnew(r)
  <2>1. pc' = [pc EXCEPT ![r] = "reaping"] /\ pc[r] = "waking" /\ pc'[r] = "reaping" BY <1>7 DEF WakeAnew, TypeOK
  <2>2. (Underway(r)' => Underway(r)) /\ (Fresh(r)' => Fresh(r)) BY <2>1 DEF Underway, Fresh
  <2>3. \A w \in Watches : Passes(w) BY <2>1, <2>2, Onward
  <2>4. \A u \in Watches : Wanes(u) BY <1>7, DisposeWanes DEF WakeAnew, Wanes
  <2>5. \A q \in Requests : todo'[q] \subseteq todo[q] BY <1>7 DEF WakeAnew, TypeOK
  <2>6. UNCHANGED <<stop, down>> BY <1>7 DEF WakeAnew
  <2> QED BY <2>3, <2>4, <2>5, <2>6, ShapeStep
<1>8. CASE WakeHalf(r)
  <2>1. Over(r) /\ pc[r] \in {"queued", "waking"} /\ UNCHANGED <<stop, todo, down>> BY <1>8 DEF WakeHalf
  <2>2. \A u \in Watches : Wanes(u) BY <1>8, DisposeWanes DEF WakeHalf
  <2> QED BY <1>4, <2>1, <2>2, ShapeStep
<1>9. CASE ReapNext(r)
  <2>1. PICK w \in todo[r] : todo' = [todo EXCEPT ![r] = @ \ {w}] /\ stop' \in {stop, Joined(r, w)}
    BY <1>9 DEF ReapNext
  <2>2. w \in Watches /\ Past(w) BY <2>1 DEF Shape, TypeOK
  <2>3. \A u \in Watches : stop'[u] # {} => stop[u] # {} \/ Past(u)
    BY <2>1, <2>2 DEF Joined, TypeOK
  <2>4. \A q \in Requests : todo'[q] \subseteq todo[q] BY <2>1 DEF TypeOK
  <2>5. UNCHANGED <<rec, pc, down>> BY <1>9 DEF ReapNext
  <2> QED BY <2>3, <2>4, <2>5, ShapeStep DEF Wanes, Fresh, Underway, Past, Passes
<1>10. CASE Visited(r)
  <2>1. r \in Visitors /\ pc' = [pc EXCEPT ![r] = "idle"] BY <1>10 DEF Visited
  <2>2. \A w \in Watches : pc'[w] = pc[w] BY <1>0, <2>1 DEF TypeOK
  <2> QED BY <1>1, <1>10, <2>2 DEF Visited, Fresh, Underway, Passes
<1> QED BY <1>2, <1>3, <1>5, <1>6, <1>7, <1>8, <1>9, <1>10 DEF Request

(* One record changes in a way of its own. *)
LEMMA ShapeBut ==
  ASSUME TypeOK, TypeOK', Shape, NEW z \in Watches, down' = down, UNCHANGED todo,
         \A w \in Watches \ {z} :
           rec'[w] = rec[w] /\ stop'[w] = stop[w] /\ Passes(w),
         Past(z) => Past(z)',
         /\ rec'[z].listed => rec'[z].state \in {"starting", "active", "retired"}
         /\ rec'[z].state \in {"starting", "active"} => rec'[z].listed /\ down' = "no"
         /\ ~Fresh(z)'
         /\ Underway(z)' => ~rec'[z].published
         /\ stop'[z] # {} => Past(z)'
         /\ z \in Streams /\ pc'[z] = "stopping" => Past(z)'
  PROVE  Shape'
<1>1. ASSUME NEW w \in Watches PROVE Past(w) => Past(w)'
  BY <1>1 DEF Past
<1>2. todo \in [Requests -> SUBSET Watches] BY DEF TypeOK
<1>3. ASSUME NEW w \in Watches
      PROVE  /\ rec'[w].listed => rec'[w].state \in {"starting", "active", "retired"}
             /\ rec'[w].state \in {"starting", "active"} => rec'[w].listed /\ down' = "no"
             /\ Fresh(w)' => rec'[w] = NoRecord
             /\ Underway(w)' => ~rec'[w].published
             /\ stop'[w] # {} => Past(w)'
  <2>1. CASE w = z BY <2>1
  <2>2. CASE w # z
    <3>1. rec'[w] = rec[w] /\ stop'[w] = stop[w] /\ Passes(w) BY <2>2
    <3> QED BY <1>1, <3>1 DEF Shape, Passes
  <2> QED BY <2>1, <2>2
<1>4. ASSUME NEW r \in Requests, NEW w \in todo'[r] PROVE Past(w)'
  BY <1>1, <1>2, <1>4 DEF Shape
<1>5. ASSUME NEW s \in Streams, pc'[s] = "stopping" PROVE Past(s)'
  BY <1>1, <1>5 DEF Passes, Shape
<1> QED BY <1>3, <1>4, <1>5 DEF Shape

(* A record that is listed, or retired, is no fresh one. *)
LEMMA NotFresh == ASSUME Shape, NEW w \in Watches, rec[w].listed \/ rec[w].handle \/ Past(w) PROVE ~Fresh(w)
  BY DEF Shape, Past, NoRecord

(* Where the others are, when one request goes on. *)
LEMMA Elsewhere ==
  ASSUME TypeOK, NEW z \in Watches, NEW s \in Stages, pc' = [pc EXCEPT ![z] = s]
  PROVE  /\ pc'[z] = s
         /\ \A w \in Watches \ {z} : Passes(w)
<1>1. pc'[z] = s /\ \A w \in Watches \ {z} : pc'[w] = pc[w] BY DEF TypeOK
<1> QED BY <1>1 DEF Fresh, Underway, Passes

LEMMA StreamShape == ASSUME TypeOK, TypeOK', Shape, NEW s \in Streams, Stream(s) PROVE Shape'
<1> USE DEF Stages
<1>0. s \notin Polls OBVIOUS
<1>1. CASE UNCHANGED <<rec, stop, todo, down>> /\ \A w \in Watches : Passes(w)
  BY <1>1, ShapeStep DEF Wanes
<1>2. CASE Reserve(s)
  <2>1. rec[s].state = "none" BY <1>2 DEF Reserve, Fresh, Shape, NoRecord
  <2>2. ~Past(s) /\ stop[s] = {} BY <2>1 DEF Past, Shape
  <2>3. rec' = [rec EXCEPT ![s] = NewRecord] /\ rec'[s] = NewRecord BY <1>2 DEF Reserve, TypeOK
  <2>4. \A w \in Watches \ {s} : rec'[w] = rec[w] BY <2>3 DEF TypeOK
  <2>5. pc' = [pc EXCEPT ![s] = "queued"] /\ down = "no" /\ UNCHANGED <<todo, stop, down>>
    BY <1>2 DEF Reserve, MayReserve
  <2>6. /\ pc'[s] = "queued"
        /\ \A w \in Watches \ {s} : Passes(w)
    BY <2>5, Elsewhere
  <2>7. ~Fresh(s)' BY <1>0, <2>6 DEF Fresh
  <2>8. rec'[s].listed /\ rec'[s].state = "starting" /\ ~rec'[s].published BY <2>3, NewRecordType
  <2> QED BY <2>2, <2>4, <2>5, <2>6, <2>7, <2>8, ShapeBut
<1>3. CASE WokenStream(s)
  <2>1. pc' = [pc EXCEPT ![s] = "opening"] /\ pc[s] = "reaping" /\ pc'[s] = "opening"
    BY <1>3 DEF WokenStream, Woken, TypeOK
  <2>2. (Underway(s)' => Underway(s)) /\ (Fresh(s)' => Fresh(s)) BY <2>1 DEF Underway, Fresh
  <2> QED BY <1>1, <1>3, <2>1, <2>2, Onward DEF WokenStream
<1>4. CASE Open(s)
  <2>1. PICK p \in {"starting", "done"} : pc' = [pc EXCEPT ![s] = p] BY <1>4 DEF Open
  <2>2. pc[s] = "opening" /\ pc'[s] = p BY <1>4, <2>1 DEF Open, TypeOK
  <2>3. (Underway(s)' => Underway(s)) /\ (Fresh(s)' => Fresh(s)) BY <2>2 DEF Underway, Fresh
  <2> QED BY <1>1, <1>4, <2>1, <2>3, Onward DEF Open
<1>5. CASE EndStream(s)
  <2>1. pc' = [pc EXCEPT ![s] = "closing"] /\ pc'[s] = "closing" BY <1>5 DEF EndStream, TypeOK
  <2>2. (Underway(s)' => Underway(s)) /\ (Fresh(s)' => Fresh(s)) BY <2>1 DEF Underway, Fresh
  <2> QED BY <1>1, <1>5, <2>1, <2>2, Onward DEF EndStream
<1>6. CASE RemoveAgain(s)
  <2>1. UNCHANGED <<rec, pc, todo, down>> /\ stop' = Joined(s, s) /\ pc[s] = "stopping" BY <1>6 DEF RemoveAgain
  <2>2. Past(s) BY <2>1 DEF Shape
  <2>3. \A u \in Watches : stop'[u] # {} => stop[u] # {} \/ Past(u) BY <2>1, <2>2 DEF Joined, TypeOK
  <2> QED BY <2>1, <2>3, ShapeStep DEF Wanes, Fresh, Underway, Past, Passes
<1> QED BY <1>2, <1>3, <1>4, <1>5, <1>6 DEF Stream

LEMMA PollShape == ASSUME TypeOK, TypeOK', Shape, NEW p \in Polls, Poll(p) PROVE Shape'
<1> USE DEF Stages
<1>0. p \notin Streams OBVIOUS
<1>1. CASE UNCHANGED <<rec, stop, todo, down>> /\ \A w \in Watches : Passes(w)
  BY <1>1, ShapeStep DEF Wanes
<1>2. ASSUME NEW s \in {"answered", "done", "leaving"}, pc' = [pc EXCEPT ![p] = s] PROVE \A w \in Watches : Passes(w)
  <2>1. pc'[p] = s BY <1>2 DEF TypeOK
  <2>2. ~Fresh(p)' /\ ~Underway(p)' BY <2>1 DEF Fresh, Underway
  <2> QED BY <1>2, <2>2, Onward
<1>3. CASE Replay(p)
  <2>1. PICK s \in {"answered", "done"} : pc' = [pc EXCEPT ![p] = s] BY <1>3 DEF Replay
  <2> QED BY <1>1, <1>2, <1>3, <2>1 DEF Replay
<1>4. CASE Create(p)
  <2>1. pc[p] = "reaping" BY <1>4 DEF Create, Woken
  <2>2. rec[p].state = "none" BY <2>1 DEF Fresh, Shape, NoRecord
  <2>3. CASE ~OpsFull(p) /\ MayReserve
    <3>1. rec' = [rec EXCEPT ![p] = NewRecord] /\ rec'[p] = NewRecord BY <1>4, <2>3 DEF Create, TypeOK
    <3>2. pc' = [pc EXCEPT ![p] = "starting"] /\ down = "no" /\ UNCHANGED <<todo, stop, down>>
      BY <1>4, <2>3 DEF Create, MayReserve
    <3>3. pc'[p] = "starting" /\ \A w \in Watches \ {p} : Passes(w) BY <3>2, Elsewhere
    <3>4. ~Fresh(p)' BY <3>3 DEF Fresh
    <3>5. \A w \in Watches \ {p} : rec'[w] = rec[w] BY <3>1 DEF TypeOK
    <3>6. ~Past(p) /\ stop[p] = {} BY <2>2 DEF Past, Shape
    <3>7. rec'[p].listed /\ rec'[p].state = "starting" /\ ~rec'[p].published BY <3>1, NewRecordType
    <3> QED BY <1>0, <3>2, <3>3, <3>4, <3>5, <3>6, <3>7, ShapeBut
  <2>4. CASE ~(~OpsFull(p) /\ MayReserve)
    <3>1. pc' = [pc EXCEPT ![p] = "done"] /\ UNCHANGED <<rec, stop, todo, down>> BY <1>4, <2>4 DEF Create
    <3> QED BY <1>1, <1>2, <3>1
  <2> QED BY <2>3, <2>4
<1>5. CASE Remove(p)
  <2>1. PICK s \in {"done", "leaving"} : pc' = [pc EXCEPT ![p] = s] BY <1>5 DEF Remove
  <2> QED BY <1>1, <1>2, <1>5, <2>1 DEF Remove
<1> QED BY <1>3, <1>4, <1>5 DEF Poll

(* A stop that ends finalizes the record, or leaves it. *)
LEMMA StopShape ==
  ASSUME TypeOK, TypeOK', Shape, NEW w \in Watches, StopLands(w) \/ StopMoot(w) \/ StopFails(w)
  PROVE  Shape'
<1>1. UNCHANGED <<pc, todo, down>> /\ stop' = [stop EXCEPT ![w] = {}] /\ Past(w)
  BY DEF StopLands, StopMoot, StopFails, Shape
<1>2. \A u \in Watches : Wanes(u)
  BY <1>1, NotFresh, FinalizeWanes DEF StopLands, StopMoot, StopFails, Wanes
<1>3. \A u \in Watches : Passes(u) BY <1>1 DEF Passes, Fresh, Underway
<1>4. \A u \in Watches : stop'[u] # {} => stop[u] # {} BY <1>1 DEF TypeOK
<1> QED BY <1>1, <1>2, <1>3, <1>4, ShapeStep

LEMMA EstablishedShape == ASSUME TypeOK, TypeOK', Shape, NEW w \in Watches, Established(w) PROVE Shape'
<1>0. rec[w] \in Records /\ pc[w] = "spawned" /\ ~rec[w].published BY DEF Established, TypeOK, Shape, Underway
<1>1. UNCHANGED <<todo, down>> BY DEF Established
<1>2. \A u \in Watches \ {w} : rec'[u] = rec[u] /\ stop'[u] = stop[u] BY DEF Established, Joined, TypeOK
<1>3. CASE rec[w].state = "starting"
  <2>1. PICK s \in {"answered", "open"} : pc' = [pc EXCEPT ![w] = s] BY <1>3 DEF Established
  <2>2. s \in Stages BY DEF Stages
  <2>3. pc'[w] = s /\ \A u \in Watches \ {w} : Passes(u) BY <2>1, <2>2, Elsewhere
  <2>4. ~Fresh(w)' /\ ~Underway(w)' BY <2>3 DEF Fresh, Underway
  <2>5. rec[w].listed /\ down = "no" /\ ~Past(w) /\ stop[w] = {} BY <1>3 DEF Shape, Past
  <2>6. rec'[w] = [rec[w] EXCEPT !.handle = TRUE, !.state = "active", !.published = TRUE] /\ stop' = stop
    BY <1>3 DEF Established, TypeOK
  <2>7. rec'[w].state = "active" /\ rec'[w].listed BY <1>0, <2>5, <2>6 DEF Records
  <2> QED BY <1>1, <1>2, <2>3, <2>4, <2>5, <2>6, <2>7, ShapeBut DEF Passes
<1>4. CASE rec[w].state # "starting"
  <2>1. pc' = [pc EXCEPT ![w] = "undoing"] /\ "undoing" \in Stages BY <1>4 DEF Established, Stages
  <2>2. pc'[w] = "undoing" /\ \A u \in Watches \ {w} : Passes(u) BY <2>1, Elsewhere
  <2>3. ~Fresh(w)' BY <2>2 DEF Fresh
  <2>4. rec'[w] = [rec[w] EXCEPT !.handle = TRUE, !.state = "retired"] BY <1>4 DEF Established, TypeOK
  <2>5. rec'[w].state = "retired" /\ rec'[w].published = rec[w].published BY <1>0, <2>4 DEF Records
  <2>6. Past(w)' BY <2>5 DEF Past
  <2> QED BY <1>0, <1>1, <1>2, <2>2, <2>3, <2>5, <2>6, ShapeBut DEF Passes
<1> QED BY <1>3, <1>4

(* Whoever is asked for, a record that is listed is retired. *)
LEMMA RemoveFacts ==
  ASSUME TypeOK, Shape, NEW r \in Watches, RemoveGoal(r)
  PROVE  \A u \in Watches :
           /\ Wanes(u)
           /\ rec'[u] = rec[u] \/ (u = Target(r) /\ rec[u].listed /\ rec'[u].told = rec[u].told)
           /\ stop'[u] # {} => stop[u] # {} \/ Past(u)'
<1> DEFINE w == Target(r)
<1>0. ASSUME NEW z \in Watches, z = w, rec[z].listed
      PROVE  \A u \in Watches :
               /\ Wanes(u)
               /\ rec'[u] = rec[u] \/ (u = z /\ rec[u].listed /\ rec'[u].told = rec[u].told)
               /\ stop'[u] # {} => stop[u] # {} \/ Past(u)'
  <2>1. rec[z] \in Records BY DEF TypeOK
  <2>2. rec' = [rec EXCEPT ![z].state = "retired"] BY <1>0 DEF RemoveGoal
  <2>3. rec'[z] = [rec[z] EXCEPT !.state = "retired"] BY <2>2 DEF TypeOK
  <2>4. rec'[z].state = "retired" /\ rec'[z].published = rec[z].published /\ rec'[z].told = rec[z].told
    BY <2>1, <2>3 DEF Records
  <2>5. \A u \in Watches \ {z} : rec'[u] = rec[u] BY <2>2 DEF TypeOK
  <2>6. stop' = stop \/ stop' = Joined(r, z) BY <1>0 DEF RemoveGoal
  <2>7. \A u \in Watches \ {z} : stop'[u] = stop[u] BY <2>6 DEF Joined, TypeOK
  <2>8. Wanes(z) BY <1>0, <2>4, NotFresh DEF Wanes
  <2>9. Past(z)' BY <2>4 DEF Past
  <2>10. \A u \in Watches \ {z} : Wanes(u) BY <2>5 DEF Wanes
  <2> QED BY <1>0, <2>4, <2>5, <2>7, <2>8, <2>9, <2>10
<1>2. CASE ~(rec[w].listed /\ w \in Watches)
  <2>1. rec' = rec BY <1>2 DEF RemoveGoal, TypeOK
  <2>2. \A u \in Watches : stop'[u] = stop[u] BY <1>2 DEF RemoveGoal, Joined, TypeOK
  <2> QED BY <2>1, <2>2 DEF Wanes
<1> QED BY <1>0, <1>2

LEMMA WatcherShape == ASSUME TypeOK, TypeOK', Shape, NEW w \in Watches, Watcher(w) PROVE Shape'
<1> USE DEF Stages
<1>0. ASSUME NEW s \in {"done", "spawned"}, pc' = [pc EXCEPT ![w] = s], pc[w] # "spawned" => Underway(w) \/ s = "done"
      PROVE  \A u \in Watches : Passes(u)
  <2>1. pc'[w] = s BY <1>0 DEF TypeOK
  <2>2. ~Fresh(w)' /\ (Underway(w)' => Underway(w)) BY <1>0, <2>1 DEF Fresh, Underway
  <2> QED BY <1>0, <2>2, Onward
<1>1. CASE Spawn(w)
  <2>1. UNCHANGED <<rec, stop, todo, down>> /\ pc' = [pc EXCEPT ![w] = "spawned"] /\ Underway(w)
    BY <1>1 DEF Spawn, Underway
  <2> QED BY <1>0, <2>1, ShapeStep DEF Wanes
<1>2. CASE StartFails(w) \/ Undone(w)
  <2>1. Finalize(w) /\ ~Fresh(w) BY <1>2 DEF StartFails, Undone, Fresh
  <2>2. pc' = [pc EXCEPT ![w] = "done"] /\ UNCHANGED <<stop, todo, down>> BY <1>2 DEF StartFails, Undone
  <2> QED BY <1>0, <2>1, <2>2, FinalizeWanes, ShapeStep
<1>3. CASE Established(w) BY <1>3, EstablishedShape
<1>4. CASE RemoveGoal(w)
  <2>1. PICK s \in {"stopping", "done"} : pc' = [pc EXCEPT ![w] = s] BY <1>4 DEF RemoveGoal
  <2>2. pc'[w] = s /\ \A u \in Watches \ {w} : Passes(u) BY <2>1, Elsewhere
  <2>3. ~Fresh(w)' /\ ~Underway(w)' BY <2>2 DEF Fresh, Underway
  <2>4. w \in Streams /\ s = "stopping" => Past(w)'
    <3>1. SUFFICES ASSUME w \in Streams, s = "stopping" PROVE rec'[w].state = "retired" BY DEF Past
    <3>2. Target(w) = w BY <3>1 DEF Target
    <3>3. pc' # [pc EXCEPT ![w] = "done"] BY <2>2, <3>1 DEF TypeOK
    <3>4. rec[w].listed BY <1>4, <3>2, <3>3 DEF RemoveGoal
    <3> QED BY <1>4, <3>2, <3>4 DEF RemoveGoal, TypeOK
  <2>5. Passes(w) BY <2>2, <2>3, <2>4 DEF Passes
  <2>6. UNCHANGED <<todo, down>> BY <1>4 DEF RemoveGoal
  <2> QED BY <1>4, <2>2, <2>5, <2>6, RemoveFacts, ShapeStep
<1>5. CASE Removed(w)
  <2>1. UNCHANGED <<rec, stop, todo, down>> /\ pc' = [pc EXCEPT ![w] = "done"] BY <1>5 DEF Removed
  <2> QED BY <1>0, <2>1, ShapeStep DEF Wanes
<1>6. CASE StopLands(w) \/ StopMoot(w) \/ StopFails(w) BY <1>6, StopShape
<1>7. CASE Ends(w) BY <1>7, ShapeStep DEF Ends, Wanes, Passes, Fresh, Underway
<1>8. CASE Report(w)
  <2>1. rec[w] \in Records /\ ~Fresh(w) BY <1>8, NotFresh DEF Report, TypeOK
  <2>2. Wanes(w)
    <3>1. CASE rec' = rec BY <3>1 DEF Wanes
    <3>2. CASE rec[w].state # "ended" /\ rec'[w] = OfItself(w)
      <4>1. Ended(rec[w]) \in Records /\ (rec[w].told \/ w \in Streams) \in BOOLEAN BY <2>1, EndedRecord DEF Records
      <4>2. /\ OfItself(w).state = Ended(rec[w]).state /\ OfItself(w).listed = Ended(rec[w]).listed
            /\ OfItself(w).published = Ended(rec[w]).published
        BY <4>1, TellRecord DEF OfItself
      <4> QED BY <2>1, <3>2, <4>2, EndedRecord DEF Wanes
    <3>3. rec' = rec \/ (rec[w].state # "ended" /\ rec' = [rec EXCEPT ![w] = OfItself(w)]) BY <1>8 DEF Report
    <3> QED BY <3>1, <3>2, <3>3 DEF TypeOK
  <2>3. \A u \in Watches \ {w} : Wanes(u)
    <3>1. rec' = rec \/ rec' = [rec EXCEPT ![w] = OfItself(w)] BY <1>8 DEF Report
    <3>2. \A u \in Watches \ {w} : rec'[u] = rec[u] BY <3>1 DEF TypeOK
    <3> QED BY <3>2 DEF Wanes
  <2>4. UNCHANGED <<pc, stop, todo, down>> BY <1>8 DEF Report
  <2> QED BY <2>2, <2>3, <2>4, ShapeStep DEF Passes, Fresh, Underway
<1> QED BY <1>1, <1>2, <1>3, <1>4, <1>5, <1>6, <1>7, <1>8 DEF Watcher

LEMMA RestShape ==
  ASSUME TypeOK, TypeOK', Shape,
         (\E o \in Ops : Expire(o)) \/ (\E what \in {"freeze", "stop", "destroy"} : Keep(what))
           \/ Kept \/ Die \/ Shutdown \/ ShutdownEnds
  PROVE  Shape'
<1>0. UNCHANGED <<pc, todo>> BY DEF Expire, Keep, Kept, Die, Shutdown, ShutdownEnds
<1>1. \A w \in Watches : Passes(w) BY <1>0 DEF Passes, Fresh, Underway
<1>2. CASE UNCHANGED <<rec, stop, down>> BY <1>0, <1>1, <1>2, ShapeStep DEF Wanes
<1>3. CASE Kept
  <2>1. \A w \in Watches : Wanes(w) BY <1>3, DisposeWanes DEF Kept, Wanes
  <2> QED BY <1>0, <1>1, <1>3, <2>1, ShapeStep DEF Kept
<1>4. CASE Shutdown
  <2>1. ASSUME NEW w \in Watches, rec[w].listed
        PROVE  rec'[w].state = "retired" /\ rec'[w].published = rec[w].published
    <3>1. rec[w] \in Records BY DEF TypeOK
    <3>2. rec'[w] = [rec[w] EXCEPT !.state = "retired", !.told = w \in Streams] BY <1>4, <2>1 DEF Shutdown, Listed
    <3> QED BY <3>1, <3>2 DEF Records
  <2>2. \A w \in Watches : ~rec[w].listed => rec'[w] = rec[w] BY <1>4 DEF Shutdown, Listed
  <2>3. \A w \in Watches : Wanes(w) /\ rec'[w].state \notin {"starting", "active"}
    BY <2>1, <2>2, NotFresh DEF Wanes, Shape
  <2>4. \A w \in Watches : stop'[w] # {} => stop[w] # {} \/ Past(w)'
    BY <1>4, <2>1 DEF Shutdown, Past, Listed
  <2> QED BY <1>0, <1>1, <2>3, <2>4, ShapeStep
<1>5. CASE ShutdownEnds
  <2>1. ASSUME NEW w \in Watches, rec[w].listed
        PROVE  /\ rec'[w].state = "ended" /\ rec'[w].published = rec[w].published
               /\ ~rec'[w].listed
    <3>1. rec[w] \in Records /\ rec[w].state # "ended" BY <2>1 DEF TypeOK, Shape
    <3>2. rec'[w] = Ended(rec[w]) BY <1>5, <2>1 DEF ShutdownEnds, Listed
    <3> QED BY <3>1, <3>2, EndedRecord
  <2>2. \A w \in Watches : ~rec[w].listed => rec'[w] = rec[w] BY <1>5 DEF ShutdownEnds, Listed
  <2>3. \A w \in Watches : Wanes(w) BY <2>1, <2>2, NotFresh DEF Wanes
  <2>4. \A w \in Watches : rec'[w].state \notin {"starting", "active"}
    BY <1>5, <2>1, <2>2 DEF Shape, ShutdownEnds
  <2>5. stop' = stop BY <1>5 DEF ShutdownEnds
  <2> QED BY <1>0, <1>1, <2>3, <2>4, <2>5, ShapeStep
<1> QED BY <1>2, <1>3, <1>4, <1>5 DEF Expire, Keep, Die

LEMMA NextShape == ASSUME TypeOK, TypeOK', Shape, [Next]_vars PROVE Shape'
<1>1. CASE UNCHANGED vars BY <1>1 DEF vars, Shape, Fresh, Underway, Past
<1> QED BY <1>1, RequestShape, StreamShape, PollShape, WatcherShape, RestShape DEF Next

LEMMA InitFacts == Init => Slotted /\ Still /\ Shape
<1>1. Free \notin Requests /\ Keeper # Free OBVIOUS
<1> QED BY <1>1 DEF Init, Slotted, Still, Shape, InSlot, NoRecord

(* What the proofs below rest on. *)
Sound == TypeOK /\ Slotted /\ Still /\ Shape

LEMMA AlwaysSound == Spec => []Sound
<1>1. Init => Sound BY InitType, InitFacts DEF Sound
<1>2. Sound /\ [Next]_vars => Sound' BY NextType, NextSlotted, NextStill, NextShape DEF Sound
<1> QED BY <1>1, <1>2, PTL DEF Spec

-----------------------------------------------------------------------------
(* Owned: a record goes with its process, or before there is one to lose. *)
LEMMA OwnedStep ==
  ASSUME Owned, down' = "no" => down = "no",
         \A w \in Watches :
           /\ proc'[w] = "alive" => proc[w] = "alive" \/ ~rec'[w].published
           /\ rec'[w].published => rec[w].published \/ rec'[w].listed
           /\ rec[w].listed => rec'[w].listed \/ proc'[w] # "alive" \/ ~rec'[w].published
  PROVE  Owned'
  BY DEF Owned

(* One record is finalized, and it was not published or has no process. *)
LEMMA FinalizeOwned ==
  ASSUME TypeOK, Owned, down' = down, NEW w \in Watches, Finalize(w), ~rec[w].published \/ proc'[w] # "alive",
         \A u \in Watches : proc'[u] = "alive" => proc[u] = "alive"
  PROVE  Owned'
<1>1. rec[w] \in Records BY DEF TypeOK
<1>2. rec'[w].published = rec[w].published BY <1>1, FinalizeFacts, EndedRecord
<1> QED BY <1>2, FinalizeFacts, OwnedStep

LEMMA DisposeOwned ==
  ASSUME TypeOK, Owned, down' = down, Dispose, \A w \in Watches : proc'[w] # "alive"
  PROVE  Owned'
  BY DEF Owned

LEMMA WatcherOwned == ASSUME Sound, Owned, NEW w \in Watches, Watcher(w) PROVE Owned'
<1> USE DEF Sound
<1>0. rec[w] \in Records BY DEF TypeOK
<1>1. CASE Spawn(w)
  <2>1. ~rec[w].published BY <1>1 DEF Spawn, Shape, Underway
  <2> QED BY <1>1, <2>1, OwnedStep DEF Spawn, TypeOK
<1>2. CASE StartFails(w)
  <2>1. ~rec[w].published BY <1>2 DEF StartFails, Shape, Underway
  <2>2. \A u \in Watches : proc'[u] = "alive" => proc[u] = "alive" BY <1>2 DEF StartFails, TypeOK
  <2> QED BY <1>2, <2>1, <2>2, FinalizeOwned DEF StartFails
<1>3. CASE Established(w)
  <2>1. UNCHANGED <<proc, down>> /\ \A u \in Watches \ {w} : rec'[u] = rec[u] BY <1>3 DEF Established, TypeOK
  <2>2. rec'[w].listed = rec[w].listed /\ (rec'[w].published => rec[w].published \/ rec[w].state = "starting")
    <3> DEFINE x == [rec[w] EXCEPT !.handle = TRUE, !.state = "active", !.published = TRUE]
               y == [rec[w] EXCEPT !.handle = TRUE, !.state = "retired"]
    <3>1. (rec[w].state = "starting" /\ rec'[w] = x) \/ rec'[w] = y BY <1>3 DEF Established, TypeOK
    <3>2. x.listed = rec[w].listed /\ y.listed = rec[w].listed /\ y.published = rec[w].published
      BY <1>0 DEF Records
    <3> HIDE DEF x, y
    <3> QED BY <3>1, <3>2
  <2>3. rec[w].state = "starting" => rec[w].listed BY DEF Shape
  <2> QED BY <2>1, <2>2, <2>3, OwnedStep
<1>4. CASE Undone(w)
  <2>1. ~rec[w].published BY <1>4 DEF Undone, Shape, Underway
  <2> QED BY <1>4, <2>1, FinalizeOwned DEF Undone
<1>5. CASE RemoveGoal(w)
  <2>1. \A u \in Watches : rec'[u].listed = rec[u].listed /\ rec'[u].published = rec[u].published
    BY <1>5 DEF RemoveGoal, TypeOK, Records
  <2> QED BY <1>5, <2>1, OwnedStep DEF RemoveGoal
<1>6. CASE Removed(w) \/ StopFails(w) BY <1>6 DEF Removed, StopFails, Owned
<1>7. CASE StopLands(w) BY <1>7, FinalizeOwned DEF StopLands, TypeOK
<1>8. CASE StopMoot(w) BY <1>8, FinalizeOwned DEF StopMoot, Still
<1>9. CASE Ends(w) BY <1>9, OwnedStep DEF Ends, TypeOK
<1>10. CASE Report(w)
  <2>1. down' = down /\ proc'[w] = "seen" BY <1>10, ReportFacts
  <2>2. \A u \in Watches \ {w} : rec'[u] = rec[u] /\ proc'[u] = proc[u] BY <1>10, ReportFacts
  <2> QED BY <2>1, <2>2 DEF Owned
<1> QED BY <1>1, <1>2, <1>3, <1>4, <1>5, <1>6, <1>7, <1>8, <1>9, <1>10 DEF Watcher

LEMMA NextOwned == ASSUME Sound, Owned, [Next]_vars PROVE Owned'
<1> USE DEF Sound
<1>1. CASE UNCHANGED <<rec, proc, down>> BY <1>1 DEF Owned
<1>2. ASSUME NEW r \in Requests, Request(r) PROVE Owned'
  <2>1. CASE Refuse(r)
    <3>1. CASE r \in Streams /\ Finalize(r)
      <4>1. ~rec[r].published BY <2>1, <3>1 DEF Refuse, Shape, Underway
      <4> QED BY <2>1, <3>1, <4>1, FinalizeOwned DEF Refuse
    <3> QED BY <1>1, <2>1, <3>1 DEF Refuse
  <2>2. CASE WakeAnew(r) \/ WakeHalf(r)
    <3>1. \A w \in Watches : proc'[w] # "alive" BY <2>2, KilledFacts DEF WakeAnew, WakeHalf
    <3> QED BY <3>1 DEF Owned
  <2> QED BY <1>1, <1>2, <2>1, <2>2 DEF Request, Call, Take, WakeWarm, ReapNext, Visited
<1>3. ASSUME NEW z \in Watches, down' = down, UNCHANGED proc, rec' = [rec EXCEPT ![z] = NewRecord] PROVE Owned'
  <2>1. rec'[z].listed /\ \A u \in Watches \ {z} : rec'[u] = rec[u] BY <1>3, NewRecordType DEF TypeOK
  <2> QED BY <1>3, <2>1, OwnedStep
<1>4. ASSUME NEW s \in Streams, Stream(s) PROVE Owned'
  BY <1>1, <1>3, <1>4 DEF Stream, Reserve, WokenStream, Open, EndStream, RemoveAgain
<1>5. ASSUME NEW p \in Polls, Poll(p) PROVE Owned'
  BY <1>1, <1>3, <1>5 DEF Poll, Replay, Create, Remove
<1>6. ASSUME NEW what \in {"freeze", "stop", "destroy"}, Keep(what) PROVE Owned'
  <2>1. proc' = proc \/ proc' = Killed BY <1>6 DEF Keep
  <2>2. \A w \in Watches : proc'[w] = "alive" => proc[w] = "alive" BY <2>1, KilledFacts
  <2> QED BY <1>6, <2>2, OwnedStep DEF Keep
<1>7. CASE Kept
  <2>1. CASE job = "freeze" BY <1>1, <1>7, <2>1 DEF Kept
  <2>2. CASE job # "freeze"
    <3>1. shell = "down" BY <1>7, <2>2 DEF Kept, Slotted, Still, TypeOK
    <3>2. \A w \in Watches : proc'[w] # "alive" BY <1>7, <3>1 DEF Kept, Still
    <3> QED BY <3>2 DEF Owned
  <2> QED BY <2>1, <2>2
<1>8. CASE Die
  <2>1. \A w \in Watches : proc'[w] # "alive" BY <1>8, KilledFacts DEF Die
  <2> QED BY <2>1 DEF Owned
<1>9. CASE Shutdown \/ ShutdownEnds BY <1>9 DEF Shutdown, ShutdownEnds, Owned
<1>10. ASSUME NEW o \in Ops, Expire(o) PROVE Owned' BY <1>1, <1>10 DEF Expire
<1> QED BY <1>1, <1>2, <1>4, <1>5, <1>6, <1>7, <1>8, <1>9, <1>10, WatcherOwned DEF Next, vars

(* No watcher that was published runs on where the table has lost sight of
   it, however its stops fail and whatever becomes of the container. *)
THEOREM AlwaysOwned == Spec => []Owned
<1>1. Init => Owned BY DEF Init, Owned
<1>2. Sound /\ Owned /\ [Next]_vars => Owned' BY NextOwned
<1> QED BY <1>1, <1>2, AlwaysSound, PTL DEF Spec

-----------------------------------------------------------------------------
(* Told: what ends or retires the record of an open stream says so to it. *)
LEMMA ToldStep ==
  ASSUME Told,
         \A s \in Streams : pc'[s] = "open" =>
           \/ rec'[s].state = "active"
           \/ pc[s] = "open" /\ (rec'[s] = rec[s] \/ rec'[s].told \/ (Past(s) /\ rec'[s].told = rec[s].told))
  PROVE  Told'
  BY DEF Told, Past

(* One request goes on, to where no stream is open, and nothing is told. *)
LEMMA AsideTold ==
  ASSUME TypeOK, Told, NEW r \in Requests, NEW s \in Stages \ {"open"}, pc' = [pc EXCEPT ![r] = s],
         \A w \in Watches \ {r} : rec'[w] = rec[w]
  PROVE  Told'
<1>1. pc'[r] = s /\ \A q \in Requests \ {r} : pc'[q] = pc[q] BY DEF TypeOK
<1> QED BY <1>1, ToldStep

LEMMA DisposeTold == ASSUME TypeOK, Told, Dispose, \A s \in Streams : pc'[s] = "open" => pc[s] = "open" PROVE Told'
  BY DisposeFacts, ToldStep

LEMMA WatcherTold == ASSUME Sound, Told, NEW w \in Watches, Watcher(w) PROVE Told'
<1> USE DEF Sound, Stages
<1>0. rec[w] \in Records BY DEF TypeOK
<1>1. CASE Spawn(w) BY <1>1, AsideTold DEF Spawn
<1>2. CASE StartFails(w) \/ Undone(w) BY <1>2, AsideTold, FinalizeFacts DEF StartFails, Undone
<1>3. CASE Established(w)
  <2>1. \A u \in Watches \ {w} : rec'[u] = rec[u] /\ pc'[u] = pc[u] BY <1>3 DEF Established, TypeOK
  <2>2. pc'[w] = "open" => rec'[w].state = "active"
    <3>1. CASE rec[w].state = "starting"
      <4>1. rec'[w] = [rec[w] EXCEPT !.handle = TRUE, !.state = "active", !.published = TRUE]
        BY <1>3, <3>1 DEF Established, TypeOK
      <4> QED BY <1>0, <4>1 DEF Records
    <3>2. CASE rec[w].state # "starting" BY <1>3, <3>2 DEF Established, TypeOK
    <3> QED BY <3>1, <3>2
  <2> QED BY <2>1, <2>2, ToldStep
<1>4. CASE RemoveGoal(w)
  <2>1. PICK s \in {"stopping", "done"} : pc' = [pc EXCEPT ![w] = s] BY <1>4 DEF RemoveGoal
  <2>2. pc'[w] = s /\ \A u \in Watches \ {w} : pc'[u] = pc[u] BY <2>1 DEF TypeOK
  <2>3. \A u \in Streams : Target(w) = u => u = w
    <3>1. w \in Polls => ans[w] \in Polls \cup {NoOne} BY DEF TypeOK
    <3>2. Streams \cap Polls = {} /\ NoOne \notin Streams OBVIOUS
    <3> QED BY <3>1, <3>2 DEF Target
  <2>4. \A u \in Streams \ {w} : rec'[u] = rec[u] BY <1>4, <2>3, RemoveFacts
  <2> QED BY <2>2, <2>4, ToldStep
<1>5. CASE Removed(w) BY <1>5, AsideTold DEF Removed
<1>6. CASE StopLands(w) \/ StopMoot(w) \/ StopFails(w)
  <2>1. Past(w) /\ pc' = pc BY <1>6 DEF StopLands, StopMoot, StopFails, Shape
  <2>2. rec'[w].told = rec[w].told /\ \A u \in Watches \ {w} : rec'[u] = rec[u]
    BY <1>0, <1>6, FinalizeFacts, EndedRecord DEF StopLands, StopMoot, StopFails
  <2> QED BY <2>1, <2>2, ToldStep
<1>7. CASE Ends(w) BY <1>7 DEF Ends, Told
<1>8. CASE Report(w)
  <2>1. Ended(rec[w]) \in Records /\ (rec[w].told \/ w \in Streams) \in BOOLEAN BY <1>0, EndedRecord DEF Records
  <2>2. OfItself(w).told = (rec[w].told \/ w \in Streams) BY <2>1, TellRecord DEF OfItself
  <2>3. w \in Streams => rec'[w] = rec[w] \/ rec'[w].told BY <1>8, <2>2, ReportFacts
  <2>4. pc' = pc /\ \A u \in Watches \ {w} : rec'[u] = rec[u] BY <1>8, ReportFacts
  <2> QED BY <2>3, <2>4, ToldStep
<1> QED BY <1>1, <1>2, <1>3, <1>4, <1>5, <1>6, <1>7, <1>8 DEF Watcher

LEMMA NextTold == ASSUME Sound, Told, [Next]_vars PROVE Told'
<1> USE DEF Sound, Stages
<1>1. CASE UNCHANGED <<rec, pc>> BY <1>1 DEF Told
<1>2. ASSUME NEW r \in Requests, Request(r) PROVE Told'
  <2>1. CASE Refuse(r)
    <3>1. PICK s \in {"idle", "done"} : pc' = [pc EXCEPT ![r] = s] BY <2>1 DEF Refuse, Over
    <3>2. \A w \in Watches \ {r} : rec'[w] = rec[w] BY <2>1, FinalizeFacts DEF Refuse
    <3> QED BY <3>1, <3>2, AsideTold
  <2>2. CASE WakeAnew(r) \/ WakeHalf(r)
    <3>1. PICK s \in {"idle", "done", "reaping"} : pc' = [pc EXCEPT ![r] = s] BY <2>2 DEF WakeAnew, WakeHalf, Over
    <3>2. \A q \in Streams : pc'[q] = "open" => pc[q] = "open" BY <3>1 DEF TypeOK
    <3>3. CASE UNCHANGED rec BY <3>2, <3>3, ToldStep
    <3> QED BY <2>2, <3>2, <3>3, DisposeTold DEF WakeAnew, WakeHalf
  <2>3. CASE Call(r) \/ Take(r) \/ WakeWarm(r) \/ Visited(r)
    BY <2>3, AsideTold DEF Call, Take, WakeWarm, Visited
  <2>4. CASE ReapNext(r) BY <1>1, <2>4 DEF ReapNext
  <2> QED BY <1>2, <2>1, <2>2, <2>3, <2>4 DEF Request
<1>3. ASSUME NEW s \in Streams, Stream(s) PROVE Told'
  <2>1. CASE Reserve(s)
    <3>1. \A w \in Watches \ {s} : rec'[w] = rec[w] BY <2>1 DEF Reserve, TypeOK
    <3> QED BY <2>1, <3>1, AsideTold DEF Reserve
  <2>2. CASE Open(s)
    <3>1. PICK t \in {"starting", "done"} : pc' = [pc EXCEPT ![s] = t] BY <2>2 DEF Open
    <3> QED BY <2>2, <3>1, AsideTold DEF Open
  <2>3. CASE WokenStream(s) \/ EndStream(s) BY <2>3, AsideTold DEF WokenStream, EndStream
  <2>4. CASE RemoveAgain(s) BY <1>1, <2>4 DEF RemoveAgain
  <2> QED BY <1>3, <2>1, <2>2, <2>3, <2>4 DEF Stream
<1>4. ASSUME NEW p \in Polls, Poll(p) PROVE Told'
  <2>1. PICK t \in {"answered", "done", "starting", "leaving"} : pc' = [pc EXCEPT ![p] = t]
    BY <1>4 DEF Poll, Replay, Create, Remove
  <2>2. \A w \in Watches \ {p} : rec'[w] = rec[w] BY <1>4 DEF Poll, Replay, Create, Remove, TypeOK
  <2> QED BY <2>1, <2>2, AsideTold
<1>5. CASE Kept
  <2>1. pc' = pc /\ (rec' = rec \/ Dispose) BY <1>5 DEF Kept
  <2> QED BY <1>1, <2>1, DisposeTold
<1>6. CASE Shutdown
  <2>1. ASSUME NEW s \in Streams, rec[s].listed PROVE rec'[s].told
    <3>1. rec[s] \in Records BY DEF TypeOK
    <3>2. rec'[s] = [rec[s] EXCEPT !.state = "retired", !.told = s \in Streams] BY <1>6, <2>1 DEF Shutdown, Listed
    <3> QED BY <3>1, <3>2 DEF Records
  <2>2. pc' = pc /\ \A s \in Streams : ~rec[s].listed => rec'[s] = rec[s] BY <1>6 DEF Shutdown, Listed
  <2> QED BY <2>1, <2>2, ToldStep
<1>7. CASE ShutdownEnds
  <2>1. ASSUME NEW s \in Streams PROVE rec'[s].told = rec[s].told /\ rec[s].state # "active"
    <3>1. rec[s] \in Records BY DEF TypeOK
    <3>2. rec'[s] = rec[s] \/ rec'[s] = Ended(rec[s]) BY <1>7 DEF ShutdownEnds
    <3>3. rec[s].state # "active" BY <1>7 DEF ShutdownEnds, Shape
    <3> QED BY <3>1, <3>2, <3>3, EndedRecord
  <2>2. pc' = pc BY <1>7 DEF ShutdownEnds
  <2> QED BY <2>1, <2>2 DEF Told
<1> QED BY <1>1, <1>2, <1>3, <1>4, <1>5, <1>6, <1>7, WatcherTold DEF Next, Expire, Keep, Die, vars

(* A stream that is open while its watcher is no more has been told why. *)
THEOREM AlwaysTold == Spec => []Told
<1>1. Init => Told BY DEF Init, Told
<1>2. Sound /\ Told /\ [Next]_vars => Told' BY NextTold
<1> QED BY <1>1, <1>2, AlwaysSound, PTL DEF Spec

-----------------------------------------------------------------------------
(* The table and the operations: a step leaves both as they are, takes records
   and their operations out together, or enters a record. *)
Steady ==
  /\ ops' = ops
  /\ \A w \in Watches : (rec'[w].listed <=> rec[w].listed) /\ (rec[w].handle => rec'[w].handle)

Drops(gone) ==
  /\ \E keep \in BOOLEAN : ops' = OpsWithout(gone, keep)
  /\ \A w \in Watches :
       /\ rec'[w].listed <=> rec[w].listed /\ w \notin gone
       /\ rec[w].handle => rec'[w].handle

Enters(z) ==
  /\ MayReserve /\ ~rec[z].listed /\ rec'[z].listed
  /\ \A w \in Watches \ {z} : rec'[w] = rec[w]

LEMMA FinalizeDrops == ASSUME Sound, NEW w \in Watches, Finalize(w) PROVE Drops({w})
<1> USE DEF Sound
<1>1. rec[w] \in Records /\ (rec[w].listed => rec[w].state # "ended") BY DEF TypeOK, Shape
<1>2. ~rec'[w].listed /\ rec'[w].handle = rec[w].handle
  <2>1. Ended(rec[w]).listed => rec[w].state = "ended" /\ rec[w].listed BY <1>1, EndedRecord
  <2> QED BY <1>1, <2>1, FinalizeFacts, EndedRecord
<1>3. \A u \in Watches \ {w} : rec'[u] = rec[u] BY FinalizeFacts
<1> QED BY <1>2, <1>3 DEF Drops, Finalize

LEMMA DisposeDrops == ASSUME Sound, Dispose PROVE Drops(Listed)
<1> USE DEF Sound
<1>1. ASSUME NEW w \in Watches, rec[w].listed PROVE ~rec'[w].listed /\ rec'[w].handle = rec[w].handle
  <2>1. rec[w] \in Records /\ Ended(rec[w]) \in Records /\ rec[w].state # "ended"
    BY <1>1, EndedRecord DEF TypeOK, Shape
  <2>2. rec'[w] = [Ended(rec[w]) EXCEPT !.told = w \in Streams] BY <1>1 DEF Dispose, Listed
  <2>3. rec'[w].handle = Ended(rec[w]).handle BY <2>1, <2>2 DEF Records
  <2> QED BY <1>1, <2>1, <2>3, DisposeFacts, EndedRecord
<1>2. \A w \in Watches : ~rec[w].listed => rec'[w] = rec[w] BY DisposeFacts
<1>3. \E keep \in BOOLEAN : ops' = OpsWithout(Listed, keep) BY DEF Dispose
<1> QED BY <1>1, <1>2, <1>3 DEF Drops, Listed

LEMMA DropsOne == ASSUME NEW w \in Watches, Drops({w}) PROVE \E gone \in SUBSET Watches : Drops(gone)
<1>1. {w} \in SUBSET Watches OBVIOUS
<1> HIDE DEF Watches
<1> QED BY <1>1

LEMMA SteadyStep == ASSUME UNCHANGED <<rec, ops>> PROVE Steady
  BY DEF Steady

LEMMA WatcherTable ==
  ASSUME Sound, NEW w \in Watches, Watcher(w)
  PROVE  Steady \/ \E gone \in SUBSET Watches : Drops(gone)
<1> USE DEF Sound
<1>0. rec[w] \in Records BY DEF TypeOK
<1>1. CASE Finalize(w)
  <2>1. Drops({w}) BY <1>1, FinalizeDrops
  <2> QED BY <2>1, DropsOne
<1>2. CASE UNCHANGED <<rec, ops>> BY <1>2, SteadyStep
<1>3. CASE Established(w)
  <2>1. \A u \in Watches \ {w} : rec'[u] = rec[u] BY <1>3 DEF Established, TypeOK
  <2>2. rec'[w].listed = rec[w].listed /\ rec'[w].handle
    <3> DEFINE x == [rec[w] EXCEPT !.handle = TRUE, !.state = "active", !.published = TRUE]
               y == [rec[w] EXCEPT !.handle = TRUE, !.state = "retired"]
    <3>1. rec'[w] = x \/ rec'[w] = y BY <1>3 DEF Established, TypeOK
    <3>2. x.listed = rec[w].listed /\ y.listed = rec[w].listed /\ x.handle /\ y.handle
      BY <1>0 DEF Records
    <3> HIDE DEF x, y
    <3> QED BY <3>1, <3>2
  <2> QED BY <1>3, <2>1, <2>2 DEF Steady, Established
<1>4. CASE RemoveGoal(w)
  <2>1. \A u \in Watches : rec'[u].listed = rec[u].listed /\ rec'[u].handle = rec[u].handle
    BY <1>4 DEF RemoveGoal, TypeOK, Records
  <2> QED BY <1>4, <2>1 DEF Steady, RemoveGoal
<1>5. CASE Report(w)
  <2>1. CASE rec' = [rec EXCEPT ![w] = OfItself(w)] /\ ops' = OpsWithout({w}, TRUE) /\ rec[w].state # "ended"
    <3>1. rec'[w] = OfItself(w) /\ \A u \in Watches \ {w} : rec'[u] = rec[u] BY <2>1 DEF TypeOK
    <3>2. Ended(rec[w]) \in Records /\ (rec[w].told \/ w \in Streams) \in BOOLEAN BY <1>0, EndedRecord DEF Records
    <3>3. ~Ended(rec[w]).listed /\ Ended(rec[w]).handle = rec[w].handle BY <1>0, <2>1, EndedRecord
    <3>4. OfItself(w).listed = Ended(rec[w]).listed /\ OfItself(w).handle = Ended(rec[w]).handle
      BY <3>2 DEF OfItself, Records
    <3>5. /\ \A u \in Watches : rec'[u].listed <=> rec[u].listed /\ u \notin {w}
          /\ \A u \in Watches : rec[u].handle => rec'[u].handle
      BY <3>1, <3>3, <3>4
    <3>6. \E keep \in BOOLEAN : ops' = OpsWithout({w}, keep) BY <2>1
    <3> QED BY <3>5, <3>6, DropsOne DEF Drops
  <2> QED BY <1>2, <1>5, <2>1 DEF Report
<1> QED BY <1>1, <1>2, <1>3, <1>4, <1>5
        DEF Watcher, Spawn, StartFails, Undone, Removed, StopLands, StopMoot, StopFails, Ends

LEMMA RestTable ==
  ASSUME Sound, (\E what \in {"freeze", "stop", "destroy"} : Keep(what)) \/ Kept \/ Die \/ Shutdown \/ ShutdownEnds
  PROVE  Steady \/ \E gone \in SUBSET Watches : Drops(gone)
<1> USE DEF Sound
<1>0. Listed \in SUBSET Watches BY DEF Listed
<1>1. CASE UNCHANGED <<rec, ops>> BY <1>1, SteadyStep
<1>2. CASE Dispose BY <1>0, <1>2, DisposeDrops
<1>3. CASE Shutdown
  <2>1. ASSUME NEW w \in Watches PROVE rec'[w].listed = rec[w].listed /\ rec'[w].handle = rec[w].handle
    <3>1. rec[w] \in Records BY DEF TypeOK
    <3>2. rec'[w] = rec[w] \/ rec'[w] = [rec[w] EXCEPT !.state = "retired", !.told = w \in Streams]
      BY <1>3 DEF Shutdown
    <3>3. CASE rec'[w] = rec[w] BY <3>3
    <3>4. CASE rec'[w] = [rec[w] EXCEPT !.state = "retired", !.told = w \in Streams] BY <3>1, <3>4 DEF Records
    <3> QED BY <3>2, <3>3, <3>4
  <2> QED BY <1>3, <2>1 DEF Steady, Shutdown
<1>4. CASE ShutdownEnds
  <2>1. ASSUME NEW w \in Watches PROVE ~rec'[w].listed /\ rec'[w].handle = rec[w].handle
    <3>1. rec[w] \in Records /\ (rec[w].listed => rec[w].state # "ended") BY DEF TypeOK, Shape
    <3>2. rec'[w] = IF rec[w].listed THEN Ended(rec[w]) ELSE rec[w] BY <1>4 DEF ShutdownEnds, Listed
    <3>3. Ended(rec[w]).handle = rec[w].handle /\ (rec[w].state = "ended" \/ ~Ended(rec[w]).listed)
      BY <3>1, EndedRecord
    <3> QED BY <3>1, <3>2, <3>3
  <2>2. \A w \in Watches : rec'[w].listed <=> rec[w].listed /\ w \notin Listed BY <2>1 DEF Listed
  <2>3. ops' = OpsWithout(Listed, TRUE) BY <1>4 DEF ShutdownEnds
  <2> QED BY <1>0, <2>1, <2>2, <2>3 DEF Drops
<1> QED BY <1>1, <1>2, <1>3, <1>4 DEF Keep, Kept, Die

LEMMA TableStep ==
  ASSUME Sound, [Next]_vars
  PROVE  \/ Steady
         \/ \E gone \in SUBSET Watches : Drops(gone)
         \/ \E s \in Streams : Enters(s) /\ Reserve(s)
         \/ \E p \in Polls : Enters(p) /\ Create(p)
         \/ rec' = rec /\ \E o \in Ops : Expire(o)
<1> USE DEF Sound
<1>0. Listed \in SUBSET Watches BY DEF Listed
<1>1. CASE UNCHANGED <<rec, ops>> BY <1>1, SteadyStep
<1>2. ASSUME NEW r \in Requests, Request(r) PROVE Steady \/ \E gone \in SUBSET Watches : Drops(gone)
  <2>0. CASE UNCHANGED <<rec, ops>> BY <2>0, SteadyStep
  <2>1. CASE Refuse(r)
    <3>1. UNCHANGED <<rec, ops>> \/ (r \in Watches /\ Finalize(r)) BY <2>1 DEF Refuse
    <3>2. CASE r \in Watches /\ Finalize(r)
      <4>1. Drops({r}) BY <3>2, FinalizeDrops
      <4> QED BY <3>2, <4>1, DropsOne
    <3> QED BY <2>0, <3>1, <3>2
  <2>2. CASE WakeAnew(r) \/ WakeHalf(r)
    <3>1. UNCHANGED <<rec, ops>> \/ Dispose BY <2>2 DEF WakeAnew, WakeHalf
    <3>2. CASE Dispose
      <4>1. Drops(Listed) BY <3>2, DisposeDrops
      <4> HIDE DEF Watches
      <4> QED BY <1>0, <4>1
    <3> QED BY <2>0, <3>1, <3>2
  <2> QED BY <1>2, <2>0, <2>1, <2>2 DEF Request, Call, Take, WakeWarm, ReapNext, Visited
<1>3. ASSUME NEW z \in Watches, Fresh(z), MayReserve, rec' = [rec EXCEPT ![z] = NewRecord] PROVE Enters(z)
  <2>1. rec'[z].listed /\ \A w \in Watches \ {z} : rec'[w] = rec[w] BY <1>3, NewRecordType DEF TypeOK
  <2>2. ~rec[z].listed BY <1>3 DEF Shape, NoRecord
  <2> QED BY <1>3, <2>1, <2>2 DEF Enters
<1>4. ASSUME NEW s \in Streams, Stream(s) PROVE Steady \/ (Enters(s) /\ Reserve(s))
  BY <1>3, <1>4, SteadyStep DEF Stream, Reserve, WokenStream, Open, EndStream, RemoveAgain, Fresh
<1>5. ASSUME NEW p \in Polls, Poll(p) PROVE Steady \/ (Enters(p) /\ Create(p))
  BY <1>3, <1>5, SteadyStep DEF Poll, Replay, Create, Remove, Fresh, Woken
<1>6. ASSUME NEW o \in Ops, Expire(o) PROVE rec' = rec BY <1>6 DEF Expire
<1> QED BY <1>1, <1>2, <1>4, <1>5, <1>6, WatcherTable, RestTable DEF Next, vars

(* WInv: the ceiling, the operations bound to records, the stops that have a
   handle to stop. *)
Capped == IsFiniteSet(Listed) /\ Cardinality(Listed) <= MaxWatchers
Handled == \A w \in Watches : stop[w] # {} => rec[w].handle

LEMMA NextCapped == ASSUME Sound, Capped, [Next]_vars PROVE Capped'
<1>1. CASE Listed' \in SUBSET Listed
  <2>1. IsFiniteSet(Listed') /\ Cardinality(Listed') <= Cardinality(Listed) BY <1>1, FS_Subset DEF Capped
  <2>2. Cardinality(Listed') \in Nat /\ Cardinality(Listed) \in Nat BY <2>1, FS_CardinalityType DEF Capped
  <2> QED BY <2>1, <2>2 DEF Capped
<1>2. ASSUME NEW z \in Watches, Enters(z) PROVE Capped'
  <2>1. Listed' = Listed \cup {z} /\ z \notin Listed BY <1>2 DEF Enters, Listed
  <2>2. IsFiniteSet(Listed') /\ Cardinality(Listed') = Cardinality(Listed) + 1
    BY <2>1, FS_AddElement DEF Capped
  <2>3. Cardinality(Listed) < MaxWatchers BY <1>2 DEF Enters, MayReserve
  <2>4. Cardinality(Listed) \in Nat BY FS_CardinalityType DEF Capped
  <2> QED BY <2>2, <2>3, <2>4 DEF Capped
<1>3. Steady \/ rec' = rec \/ (\E gone \in SUBSET Watches : Drops(gone)) => Listed' \in SUBSET Listed
  BY DEF Steady, Drops, Listed
<1> QED BY <1>1, <1>2, <1>3, TableStep

(* An operation goes with its record. *)
LEMMA DropsBound ==
  ASSUME Sound, Bound, NEW gone \in SUBSET Watches, Drops(gone)
  PROVE  Bound'
<1> USE DEF Sound
<1>1. SUFFICES ASSUME NEW p \in Polls, OpOf[p] # NoOp
               PROVE  rec'[p].listed <=> ops'[OpOf[p]] = [kind |-> "live", by |-> p]
  BY DEF Bound
<1> DEFINE o == OpOf[p]
           live == [kind |-> "live", by |-> p]
<1>2. PICK keep \in BOOLEAN : ops' = OpsWithout(gone, keep) BY DEF Drops
<1>3. o \in Ops /\ ops[o] \in Entries BY <1>1 DEF TypeOK
<1>4. ops'[o] = IF ops[o].kind # "live" \/ ops[o].by \notin gone \/ rec[ops[o].by].state = "ended" THEN ops[o]
                ELSE IF keep /\ rec[ops[o].by].published THEN [ops[o] EXCEPT !.kind = "tombstone"]
                ELSE NoEntry
  BY <1>2, <1>3 DEF OpsWithout
<1>5. [ops[o] EXCEPT !.kind = "tombstone"] # live /\ NoEntry # live
  <2>1. [ops[o] EXCEPT !.kind = "tombstone"].kind = "tombstone" BY <1>3 DEF Entries
  <2>2. NoEntry.kind = "none" /\ live.kind = "live" BY DEF NoEntry
  <2> QED BY <2>1, <2>2
<1>6. rec[p].listed <=> ops[o] = live BY <1>1 DEF Bound
<1>7. rec[p].listed => rec[p].state # "ended" BY DEF Shape
<1>8. CASE rec[p].listed
  <2>1. ops[o].kind = "live" /\ ops[o].by = p BY <1>6, <1>8
  <2> QED BY <1>4, <1>5, <1>6, <1>7, <1>8, <2>1 DEF Drops
<1>9. CASE ~rec[p].listed
  <2>1. ops'[o] # live BY <1>4, <1>5, <1>6, <1>9
  <2>2. ~rec'[p].listed BY <1>9 DEF Drops
  <2> QED BY <2>1, <2>2
<1> QED BY <1>8, <1>9

LEMMA NextBound == ASSUME Sound, Bound, [Next]_vars PROVE Bound'
<1> USE DEF Sound
<1>1. CASE Steady BY <1>1 DEF Steady, Bound
<1>2. ASSUME NEW s \in Streams, Enters(s), Reserve(s) PROVE Bound'
  <2>1. ops' = ops BY <1>2 DEF Reserve
  <2>2. \A p \in Polls : rec'[p] = rec[p] BY <1>2 DEF Enters
  <2> QED BY <2>1, <2>2 DEF Bound
<1>3. ASSUME NEW p \in Polls, Enters(p), Create(p) PROVE Bound'
  <2>1. SUFFICES ASSUME NEW q \in Polls, OpOf[q] # NoOp
                 PROVE  rec'[q].listed <=> ops'[OpOf[q]] = [kind |-> "live", by |-> q]
    BY DEF Bound
  <2>2. ops' = [o \in Ops |-> IF o = OpOf[p] THEN [kind |-> "live", by |-> p] ELSE ops[o]]
    <3>1. rec' # rec BY <1>3 DEF Enters
    <3> QED BY <1>3, <3>1 DEF Create
  <2>3. OpOf[q] \in Ops /\ (rec[q].listed <=> ops[OpOf[q]] = [kind |-> "live", by |-> q])
    BY <2>1 DEF Bound
  <2>4. Entry(p).kind = "none" BY <1>3 DEF Create
  <2>5. CASE q = p BY <1>3, <2>2, <2>3, <2>5 DEF Enters
  <2>6. CASE q # p /\ OpOf[q] # OpOf[p]
    <3>1. rec'[q] = rec[q] BY <1>3, <2>6 DEF Enters
    <3>2. ops'[OpOf[q]] = ops[OpOf[q]] BY <2>2, <2>3, <2>6
    <3> QED BY <2>3, <3>1, <3>2
  <2>7. CASE q # p /\ OpOf[q] = OpOf[p]
    <3>1. rec'[q] = rec[q] BY <1>3, <2>7 DEF Enters
    <3>2. ~rec[q].listed BY <2>1, <2>3, <2>4, <2>7 DEF Entry
    <3>3. ops'[OpOf[q]] = [kind |-> "live", by |-> p] BY <2>2, <2>3, <2>7
    <3>4. [kind |-> "live", by |-> p].by # [kind |-> "live", by |-> q].by BY <2>7
    <3> QED BY <3>1, <3>2, <3>3, <3>4
  <2> QED BY <2>5, <2>6, <2>7
<1>4. ASSUME NEW o \in Ops, Expire(o), rec' = rec PROVE Bound'
  <2>1. NoEntry.kind = "none" /\ ops[o].kind = "tombstone" BY <1>4 DEF Expire, NoEntry
  <2>2. \A p \in Polls : LET live == [kind |-> "live", by |-> p] IN NoEntry # live /\ ops[o] # live
    <3>1. SUFFICES ASSUME NEW p \in Polls, NEW x, x.kind # "live" PROVE x # [kind |-> "live", by |-> p]
      BY <2>1
    <3> QED BY <3>1
  <2>3. ops'[o] = NoEntry /\ \A u \in Ops \ {o} : ops'[u] = ops[u] BY <1>4 DEF Expire, TypeOK
  <2> QED BY <1>4, <2>2, <2>3 DEF Bound
<1> QED BY <1>1, <1>2, <1>3, <1>4, DropsBound, TableStep

(* Nobody stops what has no handle. *)
LEMMA StopGrows ==
  ASSUME Sound, [Next]_vars, NEW w \in Watches, stop'[w] # {}
  PROVE  stop[w] # {} \/ rec[w].handle \/ rec'[w].handle
<1> USE DEF Sound
<1>1. CASE stop' = stop BY <1>1
<1>2. ASSUME NEW r \in Requests, ReapNext(r) PROVE stop[w] # {} \/ rec[w].handle
  <2>1. PICK u \in todo[r] : stop' = IF Stoppable(u) THEN Joined(r, u) ELSE stop BY <1>2 DEF ReapNext
  <2>2. u \in Watches BY <2>1 DEF TypeOK
  <2> QED BY <2>1, <2>2 DEF Joined, Stoppable, TypeOK
<1>3. ASSUME NEW r \in Watches, RemoveGoal(r) PROVE stop[w] # {} \/ rec[w].handle
  BY <1>3 DEF RemoveGoal, Joined, TypeOK
<1>4. ASSUME NEW s \in Streams, RemoveAgain(s) PROVE stop[w] # {} \/ rec[w].handle
  BY <1>4 DEF RemoveAgain, Stoppable, Joined, TypeOK
<1>5. ASSUME NEW u \in Watches, Established(u) PROVE stop[w] # {} \/ rec'[w].handle
  <2>1. CASE w = u /\ rec[u].state # "starting"
    <3>1. rec[u] \in Records BY DEF TypeOK
    <3>2. rec'[u] = [rec[u] EXCEPT !.handle = TRUE, !.state = "retired"] BY <1>5, <2>1 DEF Established, TypeOK
    <3> QED BY <2>1, <3>1, <3>2 DEF Records
  <2> QED BY <1>5, <2>1 DEF Established, Joined, TypeOK
<1>6. ASSUME NEW u \in Watches, StopLands(u) \/ StopMoot(u) \/ StopFails(u) PROVE stop[w] # {}
  BY <1>6 DEF StopLands, StopMoot, StopFails, TypeOK
<1>7. CASE Shutdown BY <1>7 DEF Shutdown
<1> QED BY <1>1, <1>2, <1>3, <1>4, <1>5, <1>6, <1>7
        DEF Next, Request, Call, Take, Refuse, WakeWarm, WakeAnew, WakeHalf, Visited,
            Stream, Reserve, WokenStream, Open, EndStream, Poll, Replay, Create, Remove,
            Watcher, Spawn, StartFails, Undone, Removed, Ends, Report, Expire, Keep, Kept, Die, ShutdownEnds, vars

LEMMA NextHandled == ASSUME Sound, Handled, [Next]_vars PROVE Handled'
<1> USE DEF Sound
<1>1. SUFFICES ASSUME NEW w \in Watches, stop'[w] # {} PROVE rec'[w].handle BY DEF Handled
<1>2. rec[w].handle \/ rec'[w].handle BY <1>1, StopGrows DEF Handled
<1>3. ASSUME NEW z \in Watches, Fresh(z), Enters(z), UNCHANGED stop PROVE rec'[w].handle
  <2>1. ~rec[z].handle /\ stop[z] = {} BY <1>3 DEF Shape, NoRecord, Handled
  <2>2. z # w BY <1>1, <1>3, <2>1
  <2> QED BY <1>1, <1>3, <2>2 DEF Enters, Handled
<1>4. ASSUME NEW s \in Streams, Enters(s), Reserve(s) PROVE rec'[w].handle
  BY <1>3, <1>4 DEF Reserve, Fresh
<1>5. ASSUME NEW p \in Polls, Enters(p), Create(p) PROVE rec'[w].handle
  BY <1>3, <1>5 DEF Create, Woken, Fresh
<1> QED BY <1>2, <1>4, <1>5, TableStep DEF Steady, Drops

Tabled == Sound /\ Capped /\ Bound /\ Handled

LEMMA AlwaysTabled == Spec => []Tabled
<1>1. ASSUME Init PROVE Tabled
  <2>1. \A w \in Watches : ~rec[w].listed /\ stop[w] = {} BY <1>1 DEF Init, NoRecord
  <2>2. Listed = {} BY <2>1 DEF Listed
  <2>3. Capped BY <2>2, FS_EmptySet DEF Capped
  <2>4. Handled BY <2>1 DEF Handled
  <2>5. Bound
    <3>1. SUFFICES ASSUME NEW p \in Polls, OpOf[p] # NoOp PROVE ops[OpOf[p]] # [kind |-> "live", by |-> p]
      BY <2>1 DEF Bound
    <3>2. ops[OpOf[p]].kind = "none" BY <1>1, <3>1 DEF Init, NoEntry
    <3> QED BY <3>2
  <2> QED BY <1>1, <2>3, <2>4, <2>5, InitType, InitFacts DEF Tabled, Sound
<1>2. ASSUME Tabled, [Next]_vars PROVE Tabled'
  <2>1. Sound' BY <1>2, NextType, NextSlotted, NextStill, NextShape DEF Tabled, Sound
  <2> QED BY <1>2, <2>1, NextCapped, NextBound, NextHandled DEF Tabled
<1> QED BY <1>1, <1>2, PTL DEF Spec

(* The invariant of the watchers: the slot's holder is at work in it, no more
   records than the limit allows, an operation bound to a record exactly as
   long as the record is there. *)
THEOREM AlwaysWInv == Spec => []WInv
<1>1. Tabled => WInv BY DEF Tabled, Sound, Slotted, Capped, Handled, WInv
<1> QED BY <1>1, AlwaysTabled, PTL

-----------------------------------------------------------------------------
(* OncePerOperation: who has a process or is about to, has - until the
   shutdown, which lets nobody begin - a record, and the record its operation. *)
Begun(p) == pc[p] \in {"starting", "spawned"}
Claims(p) == proc[p] = "alive" \/ Begun(p)

Local(p) ==
  /\ Fresh(p) \/ pc[p] = "starting" => proc[p] = "none"
  /\ rec[p].state \in {"none", "starting"} => ~rec[p].handle
  /\ down = "no" =>
       /\ pc[p] # "undoing"
       /\ Claims(p) => rec[p].listed
       /\ Begun(p) => rec[p].state = "starting"

Alone ==
  \A p, q \in Polls : p # q /\ OpOf[p] # NoOp /\ OpOf[p] = OpOf[q] => ~(Claims(p) /\ Claims(q))

Single == (\A p \in Polls : Local(p)) /\ Alone

(* A poll's part of a step: it keeps what Local says and claims nothing new. *)
Calm(p) == Local(p)' /\ (Claims(p)' => Claims(p))

LEMMA SingleStep == ASSUME Single, \A p \in Polls : Calm(p) PROVE Single'
  BY DEF Single, Calm, Alone

(* What is somebody else's step leaves a poll alone, or kills its process. *)
LEMMA CalmElsewhere ==
  ASSUME NEW p \in Polls, Local(p), pc'[p] = pc[p], rec'[p] = rec[p],
         proc'[p] = proc[p] \/ (proc[p] # "none" /\ proc'[p] # "alive"),
         down' = "no" => down = "no"
  PROVE  Calm(p)
  BY DEF Local, Calm, Claims, Begun, Fresh

(* The holder of the slot is the only poll that is starting a watcher. *)
LEMMA NotBegun == ASSUME Sound, NEW p \in Polls, slot # p PROVE pc[p] \notin {"starting", "spawned", "undoing"}
  BY DEF Sound, Slotted, InSlot

LEMMA KilledCalm == ASSUME TypeOK, NEW p \in Polls
  PROVE Killed[p] = proc[p] \/ (proc[p] # "none" /\ Killed[p] # "alive")
  BY DEF TypeOK, Killed

LEMMA RequestCalm == ASSUME Sound, Single, NEW r \in Requests, Request(r), NEW p \in Polls PROVE Calm(p)
<1> USE DEF Sound, Stages
<1>0. Local(p) /\ Streams \cap Polls = {} /\ Visitors \cap Polls = {} BY DEF Single
<1>1. CASE Call(r) \/ Take(r) \/ WakeWarm(r) \/ Visited(r) \/ ReapNext(r)
  <2>1. UNCHANGED <<rec, proc, down>> BY <1>1 DEF Call, Take, WakeWarm, Visited, ReapNext
  <2>2. CASE pc'[p] = pc[p] BY <1>0, <2>1, <2>2, CalmElsewhere
  <2>3. CASE p = r /\ ~Visited(r) /\ ~ReapNext(r)
    <3>1. Fresh(p) /\ Fresh(p)' /\ ~Begun(p)' /\ pc'[p] # "undoing"
      BY <1>1, <2>3 DEF Call, Take, WakeWarm, TypeOK, Fresh, Begun
    <3> QED BY <1>0, <2>1, <3>1 DEF Local, Calm, Claims
  <2> QED BY <1>0, <1>1, <2>2, <2>3 DEF Call, Take, WakeWarm, Visited, ReapNext, TypeOK
<1>2. CASE Refuse(r)
  <2>1. UNCHANGED <<proc, down>> BY <1>2 DEF Refuse
  <2>2. rec'[p] = rec[p] BY <1>0, <1>2, FinalizeFacts DEF Refuse
  <2>3. CASE p # r BY <1>0, <1>2, <2>1, <2>2, <2>3, CalmElsewhere DEF Refuse, Over, TypeOK
  <2>4. CASE p = r
    <3>1. pc'[p] = "done" BY <1>0, <1>2, <2>4 DEF Refuse, Over, TypeOK
    <3> QED BY <1>0, <2>1, <2>2, <3>1 DEF Local, Calm, Claims, Begun, Fresh
  <2> QED BY <2>3, <2>4
<1>3. CASE WakeAnew(r) \/ WakeHalf(r)
  <2>1. proc' = Killed /\ down' = down /\ pc[r] = "waking" /\ slot = r
    BY <1>3 DEF WakeAnew, WakeHalf, Slotted, InSlot
  <2>2. proc'[p] # "alive" /\ (proc[p] = "none" => proc'[p] = "none") BY <2>1, KilledFacts DEF Killed, TypeOK
  <2>3. PICK s \in {"reaping", "idle", "done"} : pc' = [pc EXCEPT ![r] = s] /\ (r \in Polls => s # "idle")
    BY <1>0, <1>3 DEF WakeAnew, WakeHalf, Over
  <2>4. ~Begun(p)' /\ pc'[p] # "undoing" /\ (Fresh(p)' => Fresh(p))
    <3>1. CASE p = r BY <2>1, <2>3, <3>1 DEF Begun, Fresh, TypeOK
    <3>2. CASE p # r
      <4>1. pc'[p] = pc[p] BY <2>3, <3>2 DEF TypeOK
      <4>2. pc[p] \notin {"starting", "spawned", "undoing"} BY <2>1, <3>2, NotBegun
      <4> QED BY <4>1, <4>2 DEF Begun, Fresh
    <3> QED BY <3>1, <3>2
  <2>5. rec'[p].state \in {"none", "starting"} => ~rec'[p].handle
    <3>1. rec'[p] = rec[p] \/ rec'[p].state = "ended" BY <1>3, DisposeFacts DEF WakeAnew, WakeHalf
    <3> QED BY <1>0, <3>1 DEF Local
  <2>6. pc'[p] # "starting" BY <2>4 DEF Begun
  <2> QED BY <1>0, <2>2, <2>4, <2>5, <2>6 DEF Local, Calm, Claims
<1> QED BY <1>1, <1>2, <1>3 DEF Request

LEMMA StreamCalm == ASSUME Sound, Single, NEW s \in Streams, Stream(s), NEW p \in Polls PROVE Calm(p)
<1>0. Local(p) /\ p # s BY DEF Single
<1>1. pc'[p] = pc[p] /\ rec'[p] = rec[p] /\ UNCHANGED <<proc, down>>
  BY <1>0 DEF Stream, Reserve, WokenStream, Open, EndStream, RemoveAgain, Sound, TypeOK
<1> QED BY <1>0, <1>1, CalmElsewhere

LEMMA PollCalm ==
  ASSUME Sound, Single, NEW q \in Polls, Replay(q) \/ Remove(q) \/ (Create(q) /\ rec' = rec), NEW p \in Polls
  PROVE  Calm(p)
<1> USE DEF Sound
<1>0. Local(p) BY DEF Single
<1>1. UNCHANGED <<rec, proc, down>> BY DEF Replay, Remove, Create
<1>2. PICK s \in {"answered", "done", "leaving"} : pc' = [pc EXCEPT ![q] = s]
  <2>1. CASE Create(q) /\ rec' = rec
    <3>1. ~(rec' = [rec EXCEPT ![q] = NewRecord])
      <4>1. rec[q] = NoRecord BY <2>1 DEF Create, Woken, Fresh, Shape
      <4>2. NoRecord # NewRecord BY NewRecordType DEF NoRecord
      <4> QED BY <2>1, <4>1, <4>2 DEF TypeOK
    <3> QED BY <2>1, <3>1 DEF Create
  <2> QED BY <2>1 DEF Replay, Remove
<1>3. CASE p # q BY <1>0, <1>1, <1>2, <1>3, CalmElsewhere DEF TypeOK
<1>4. CASE p = q
  <2>1. pc'[p] = s BY <1>2, <1>4 DEF TypeOK
  <2> QED BY <1>0, <1>1, <2>1 DEF Local, Calm, Claims, Begun, Fresh
<1> QED BY <1>3, <1>4

(* A poll that creates is alone under its operation. *)
LEMMA CreateSingle == ASSUME Tabled, Single, NEW q \in Polls, Enters(q), Create(q) PROVE Single'
<1> USE DEF Tabled, Sound
<1>0. rec' # rec BY DEF Enters
<1>1. /\ pc' = [pc EXCEPT ![q] = "starting"] /\ rec' = [rec EXCEPT ![q] = NewRecord]
      /\ UNCHANGED <<proc, down>> /\ down = "no" /\ Fresh(q) /\ Entry(q).kind = "none"
  BY <1>0 DEF Create, Woken, Fresh, MayReserve
<1>2. \A p \in Polls \ {q} : Calm(p) BY <1>1, CalmElsewhere DEF Single, TypeOK
<1>3. Local(q)'
  <2>1. pc'[q] = "starting" /\ rec'[q] = NewRecord BY <1>1 DEF TypeOK
  <2>2. proc'[q] = "none" BY <1>1 DEF Single, Local
  <2>3. ~NewRecord.handle BY DEF NewRecord, NoRecord
  <2> QED BY <2>1, <2>2, <2>3, NewRecordType DEF Local, Begun
<1>4. ASSUME NEW p \in Polls \ {q}, OpOf[p] = OpOf[q], OpOf[p] # NoOp PROVE ~Claims(p)'
  <2>1. Entry(q) = ops[OpOf[p]] BY <1>4 DEF Entry
  <2>2. ops[OpOf[p]] # [kind |-> "live", by |-> p]
    <3>1. ops[OpOf[p]].kind = "none" BY <1>1, <2>1
    <3> QED BY <3>1
  <2>3. ~rec[p].listed BY <1>4, <2>2 DEF Bound
  <2> QED BY <1>1, <1>2, <1>4, <2>3 DEF Single, Local, Calm
<1>5. ASSUME NEW p \in Polls, NEW u \in Polls, p # u, OpOf[p] # NoOp, OpOf[p] = OpOf[u]
      PROVE  ~(Claims(p)' /\ Claims(u)')
  <2>1. CASE p = q BY <1>4, <1>5, <2>1
  <2>2. CASE u = q BY <1>4, <1>5, <2>2
  <2>3. CASE p # q /\ u # q BY <1>2, <1>5, <2>3 DEF Single, Alone, Calm
  <2> QED BY <2>1, <2>2, <2>3
<1> QED BY <1>2, <1>3, <1>5 DEF Single, Calm, Alone

LEMMA WatcherCalm == ASSUME Tabled, Single, NEW w \in Watches, Watcher(w), NEW p \in Polls PROVE Calm(p)
<1> USE DEF Tabled, Sound, Stages
<1>0. Local(p) /\ rec[p] \in Records /\ Streams \cap Polls = {} BY DEF Single, TypeOK
<1>1. CASE Spawn(w)
  <2>1. CASE p # w BY <1>0, <1>1, <2>1, CalmElsewhere DEF Spawn, TypeOK
  <2>2. CASE p = w
    <3>1. pc[p] = "starting" /\ pc'[p] = "spawned" /\ UNCHANGED <<rec, down>> BY <1>1, <2>2 DEF Spawn, TypeOK
    <3> QED BY <1>0, <3>1 DEF Local, Calm, Claims, Begun, Fresh
  <2> QED BY <2>1, <2>2
<1>2. CASE StartFails(w) \/ Undone(w)
  <2>1. CASE p # w BY <1>0, <1>2, <2>1, CalmElsewhere, FinalizeFacts DEF StartFails, Undone, TypeOK
  <2>2. CASE p = w
    <3>1. pc'[p] = "done" /\ down' = down /\ rec'[p] = Ended(rec[p])
      BY <1>2, <2>2, FinalizeFacts DEF StartFails, Undone, TypeOK
    <3>2. rec'[p].state = "ended" BY <1>0, <3>1, EndedRecord
    <3>3. CASE StartFails(w)
      <4>1. proc'[p] # "alive" BY <1>0, <2>2, <3>3 DEF StartFails, Local, TypeOK
      <4> QED BY <3>1, <3>2, <4>1 DEF Local, Calm, Claims, Begun, Fresh
    <3>4. CASE Undone(w)
      <4>1. down # "no" /\ proc' = proc BY <1>0, <2>2, <3>4 DEF Undone, Local
      <4> QED BY <3>1, <3>2, <4>1 DEF Local, Calm, Claims, Begun, Fresh
    <3> QED BY <1>2, <3>3, <3>4
  <2> QED BY <2>1, <2>2
<1>3. CASE Established(w)
  <2>1. CASE p # w BY <1>0, <1>3, <2>1, CalmElsewhere DEF Established, TypeOK
  <2>2. CASE p = w
    <3>1. UNCHANGED <<proc, down>> /\ pc[p] = "spawned" BY <1>3, <2>2 DEF Established
    <3>2. CASE rec[p].state = "starting"
      <4>1. pc'[p] = "answered" BY <1>3, <2>2, <3>2 DEF Established, TypeOK
      <4>2. rec'[p] = [rec[p] EXCEPT !.handle = TRUE, !.state = "active", !.published = TRUE]
        BY <1>3, <2>2, <3>2 DEF Established, TypeOK
      <4>3. rec'[p].state = "active" /\ rec'[p].listed = rec[p].listed BY <1>0, <4>2 DEF Records
      <4>4. rec[p].listed BY <3>2 DEF Shape
      <4> QED BY <1>0, <3>1, <4>1, <4>3, <4>4 DEF Local, Calm, Claims, Begun, Fresh
    <3>3. CASE rec[p].state # "starting"
      <4>1. pc'[p] = "undoing" /\ down # "no" BY <1>0, <1>3, <2>2, <3>1, <3>3 DEF Established, TypeOK, Local, Begun
      <4>2. rec'[p] = [rec[p] EXCEPT !.handle = TRUE, !.state = "retired"]
        BY <1>3, <2>2, <3>3 DEF Established, TypeOK
      <4>3. rec'[p].state = "retired" BY <1>0, <4>2 DEF Records
      <4> QED BY <1>0, <3>1, <4>1, <4>3 DEF Local, Calm, Claims, Begun, Fresh
    <3> QED BY <3>2, <3>3
  <2> QED BY <2>1, <2>2
<1>4. CASE RemoveGoal(w)
  <2>1. UNCHANGED <<proc, down>> BY <1>4 DEF RemoveGoal
  <2>2. PICK s \in {"stopping", "done"} : pc' = [pc EXCEPT ![w] = s] BY <1>4 DEF RemoveGoal
  <2>3. pc'[p] = pc[p] \/ (p = w /\ pc'[p] = s) BY <2>2 DEF TypeOK
  <2>4. CASE rec'[p] = rec[p]
    BY <1>0, <2>1, <2>3, <2>4 DEF Local, Calm, Claims, Begun, Fresh
  <2>5. CASE rec'[p] # rec[p]
    <3>1. p = Target(w) /\ rec[p].listed BY <1>4, <2>5, RemoveFacts
    <3>2. rec'[p] = [rec[p] EXCEPT !.state = "retired"] BY <1>4, <3>1 DEF RemoveGoal, TypeOK
    <3>3. rec'[p].state = "retired" /\ rec'[p].listed BY <1>0, <3>1, <3>2 DEF Records
    <3>4. w \in Polls BY <1>0, <3>1 DEF Target
    <3>5. slot = w /\ pc[w] = "leaving" BY <1>4, <3>4 DEF RemoveGoal, Slotted, InSlot
    <3>6. pc[p] \notin {"starting", "spawned", "undoing"} BY <3>5, NotBegun
    <3>7. ~Fresh(p) BY <3>1, NotFresh
    <3> QED BY <1>0, <2>1, <2>3, <3>3, <3>6, <3>7 DEF Local, Calm, Claims, Begun, Fresh
  <2> QED BY <2>4, <2>5
<1>5. CASE Removed(w)
  <2>1. UNCHANGED <<rec, proc, down>> /\ (pc'[p] = pc[p] \/ pc'[p] = "done") BY <1>5 DEF Removed, TypeOK
  <2> QED BY <1>0, <2>1 DEF Local, Calm, Claims, Begun, Fresh
<1>6. CASE StopLands(w) \/ StopMoot(w) \/ StopFails(w)
  <2>1. UNCHANGED <<pc, down>> /\ Past(w) BY <1>6 DEF StopLands, StopMoot, StopFails, Shape
  <2>2. CASE p # w BY <1>0, <1>6, <2>1, <2>2, CalmElsewhere, FinalizeFacts
                      DEF StopLands, StopMoot, StopFails, TypeOK
  <2>3. CASE p = w /\ StopFails(w) BY <1>0, <2>1, <2>3, CalmElsewhere DEF StopFails
  <2>4. CASE p = w /\ ~StopFails(w)
    <3>1. rec'[p].state = "ended" BY <1>0, <1>6, <2>4, FinalizeFacts, EndedRecord DEF StopLands, StopMoot
    <3>2. proc'[p] # "alive" /\ proc'[p] \in {proc[p], "dead"} BY <1>6, <2>4 DEF StopLands, StopMoot, Still, TypeOK
    <3>3. ~Fresh(p) BY <2>1, <2>4, NotFresh
    <3>4. ~Begun(p) \/ down # "no" BY <1>0, <2>1, <2>4 DEF Local, Past
    <3>5. pc[p] # "starting" \/ proc'[p] = "none" BY <1>0, <1>6, <2>4, <3>2 DEF Local, StopLands, StopMoot
    <3> QED BY <1>0, <2>1, <3>1, <3>2, <3>3, <3>4, <3>5 DEF Local, Calm, Claims, Begun, Fresh
  <2> QED BY <1>6, <2>2, <2>3, <2>4
<1>7. CASE Ends(w)
  <2>1. UNCHANGED <<pc, rec, down>> /\ (proc'[p] = proc[p] \/ (proc[p] # "none" /\ proc'[p] = "dead"))
    BY <1>7 DEF Ends, TypeOK
  <2> QED BY <1>0, <2>1, CalmElsewhere
<1>8. CASE Report(w)
  <2>1. UNCHANGED <<pc, down>> BY <1>8, ReportFacts
  <2>2. CASE p # w
    <3>1. rec'[p] = rec[p] /\ proc'[p] = proc[p] BY <1>8, <2>2, ReportFacts
    <3> QED BY <1>0, <2>1, <2>2, <3>1, CalmElsewhere
  <2>3. CASE p = w
    <3>1. proc[p] = "dead" /\ proc'[p] = "seen" /\ rec[p].handle BY <1>8, <2>3, ReportFacts
    <3>2. rec'[p] = rec[p] \/ rec'[p] = OfItself(p) BY <1>8, <2>3, ReportFacts
    <3>3. OfItself(p).state = "ended"
      <4>1. Ended(rec[p]) \in Records /\ (rec[p].told \/ p \in Streams) \in BOOLEAN
        BY <1>0, EndedRecord DEF Records
      <4> QED BY <1>0, <4>1, EndedRecord, TellRecord DEF OfItself
    <3>4. down = "no" => ~Begun(p) BY <1>0, <3>1 DEF Local
    <3> QED BY <1>0, <2>1, <3>1, <3>2, <3>3, <3>4 DEF Local, Calm, Claims, Begun, Fresh
  <2> QED BY <2>2, <2>3
<1> QED BY <1>1, <1>2, <1>3, <1>4, <1>5, <1>6, <1>7, <1>8 DEF Watcher

LEMMA RestCalm ==
  ASSUME Sound, Single, NEW p \in Polls,
         (\E o \in Ops : Expire(o)) \/ (\E what \in {"freeze", "stop", "destroy"} : Keep(what))
           \/ Kept \/ Die \/ Shutdown \/ ShutdownEnds
  PROVE  Calm(p)
<1> USE DEF Sound
<1>0. Local(p) /\ rec[p] \in Records BY DEF Single, TypeOK
<1>1. pc' = pc BY DEF Expire, Keep, Kept, Die, Shutdown, ShutdownEnds
<1>2. CASE rec' = rec /\ (proc' = proc \/ proc' = Killed) /\ down' = down
  BY <1>0, <1>1, <1>2, CalmElsewhere, KilledCalm
<1>3. CASE Kept
  <2>1. CASE job = "freeze" BY <1>2, <1>3, <2>1 DEF Kept
  <2>2. CASE job # "freeze"
    <3>1. shell = "down" BY <1>3, <2>2 DEF Kept, Slotted, Still, TypeOK
    <3>2. proc'[p] # "alive" /\ UNCHANGED <<proc, down>> BY <1>3, <3>1 DEF Kept, Still
    <3>3. slot # p BY <1>3 DEF Kept
    <3>4. pc[p] \notin {"starting", "spawned", "undoing"} BY <3>3, NotBegun
    <3>5. rec'[p] = rec[p] \/ rec'[p].state = "ended" BY <1>3, <2>2, DisposeFacts DEF Kept
    <3> QED BY <1>0, <1>1, <3>2, <3>4, <3>5 DEF Local, Calm, Claims, Begun, Fresh
  <2> QED BY <2>1, <2>2
<1>4. CASE Shutdown \/ ShutdownEnds
  <2>1. down' # "no" /\ proc' = proc BY <1>4 DEF Shutdown, ShutdownEnds
  <2>2. rec'[p] = rec[p] \/ rec'[p].state \in {"retired", "ended"}
    <3>1. Ended(rec[p]).state = "ended" BY <1>0, EndedRecord
    <3>2. [rec[p] EXCEPT !.state = "retired", !.told = p \in Streams].state = "retired" BY <1>0 DEF Records
    <3>3. \/ rec'[p] = rec[p] \/ rec'[p] = Ended(rec[p])
          \/ rec'[p] = [rec[p] EXCEPT !.state = "retired", !.told = p \in Streams]
      BY <1>4 DEF Shutdown, ShutdownEnds
    <3> QED BY <3>1, <3>2, <3>3
  <2> QED BY <1>0, <1>1, <2>1, <2>2 DEF Local, Calm, Claims, Begun, Fresh
<1> QED BY <1>2, <1>3, <1>4 DEF Expire, Keep, Die

LEMMA NextSingle == ASSUME Tabled, Single, [Next]_vars PROVE Single'
<1> USE DEF Tabled, Sound
<1>1. CASE UNCHANGED vars
  <2>1. \A p \in Polls : Calm(p) BY <1>1, CalmElsewhere DEF vars, Single
  <2> QED BY <2>1, SingleStep
<1>2. ASSUME NEW q \in Polls, Create(q) PROVE Single'
  <2>1. CASE rec' = rec
    <3>1. \A p \in Polls : Calm(p) BY <1>2, <2>1, PollCalm
    <3> QED BY <3>1, SingleStep
  <2>2. CASE rec' # rec
    <3>1. MayReserve /\ rec' = [rec EXCEPT ![q] = NewRecord] /\ Fresh(q)
      BY <1>2, <2>2 DEF Create, Woken, Fresh
    <3>2. rec'[q].listed /\ \A w \in Watches \ {q} : rec'[w] = rec[w] BY <3>1, NewRecordType DEF TypeOK
    <3>3. ~rec[q].listed BY <3>1 DEF Shape, NoRecord
    <3> QED BY <1>2, <3>1, <3>2, <3>3, CreateSingle DEF Enters
  <2> QED BY <2>1, <2>2
<1>3. ASSUME NEW q \in Polls, Poll(q) PROVE Single'
  <2>1. CASE Replay(q) \/ Remove(q)
    <3>1. \A p \in Polls : Calm(p) BY <2>1, PollCalm
    <3> QED BY <3>1, SingleStep
  <2> QED BY <1>2, <1>3, <2>1 DEF Poll
<1>4. (\A p \in Polls : Calm(p)) => Single' BY SingleStep
<1> QED BY <1>1, <1>3, <1>4, RequestCalm, StreamCalm, WatcherCalm, RestCalm DEF Next

(* A retried CreateWatcher never has a second process beside the first. *)
THEOREM AlwaysOncePerOperation == Spec => []OncePerOperation
<1>1. ASSUME Init PROVE Single
  <2>1. \A p \in Polls : proc[p] = "none" /\ pc[p] \in {"idle", "done"} /\ rec[p] = NoRecord BY <1>1 DEF Init
  <2> QED BY <2>1 DEF Single, Local, Alone, Claims, Begun, NoRecord
<1>2. Tabled /\ Single /\ [Next]_vars => Single' BY NextSingle
<1>3. Single => OncePerOperation BY DEF Single, Alone, Claims, OncePerOperation
<1> QED BY <1>1, <1>2, <1>3, AlwaysTabled, PTL DEF Spec
=============================================================================
