---------------------------- MODULE FleetProofs -----------------------------
(***************************************************************************)
(* Proofs about the check-in and the rolling upgrade, for any nodes, any   *)
(* commits and versions, and any days.                                     *)
(***************************************************************************)
EXTENDS Fleet, TLAPS

USE FleetAssumption DEF Builds, Versions, Targets

-----------------------------------------------------------------------------
(* What each record of the gateway becomes. *)
LEMMA Types ==
  /\ NoRow \in Rows /\ NoAnswer \in Answers /\ NoUnit \in Units
  /\ \A s \in Rows :
       /\ Cleared(s) \in Rows /\ Told(s) \in Rows
       /\ \A d \in BOOLEAN : [s EXCEPT !.down = d] \in Rows
       /\ \A o \in BOOLEAN : [s EXCEPT !.old = o] \in Rows
       /\ \A g \in Targets : [s EXCEPT !.swap = g] \in Rows
       /\ [s EXCEPT !.told = {}, !.old = FALSE] \in Rows
<1>1. NoRow \in Rows /\ NoAnswer \in Answers /\ NoUnit \in Units
  BY DEF NoRow, Rows, NoAnswer, Answers, NoUnit, Units
<1>2. ASSUME NEW s \in Rows PROVE Cleared(s) \in Rows
  BY DEF Rows, Cleared, TellStands, Older
<1>3. ASSUME NEW s \in Rows PROVE Told(s) \in Rows
  BY DEF Rows, Told
<1>4. ASSUME NEW s \in Rows
      PROVE  /\ \A d \in BOOLEAN : [s EXCEPT !.down = d] \in Rows
             /\ \A o \in BOOLEAN : [s EXCEPT !.old = o] \in Rows
             /\ \A g \in Targets : [s EXCEPT !.swap = g] \in Rows
             /\ [s EXCEPT !.told = {}, !.old = FALSE] \in Rows
  BY DEF Rows
<1> QED BY <1>1, <1>2, <1>3, <1>4

LEMMA HeardType == ASSUME TypeOK, NEW n \in Nodes PROVE Heard(n) \in Rows
<1>1. said[n] \in Rows /\ NoRow \in Rows /\ build[n] \in Builds /\ unit[n].on \in BOOLEAN
  BY Types DEF TypeOK, Units
<1>2. ASSUME NEW s \in Rows
      PROVE  [s EXCEPT !.build = build[n], !.running = unit[n].on, !.down = FALSE] \in Rows
  BY <1>1 DEF Rows
<1> QED BY <1>1, <1>2 DEF Heard

(* What a member says changes nothing of its swap target. *)
LEMMA HeardSwap ==
  ASSUME TypeOK, NEW n \in members
  PROVE  Heard(n).swap = said[n].swap /\ Cleared(Heard(n)).swap = said[n].swap
<1>1. said[n] \in Rows /\ Heard(n) \in Rows BY HeardType DEF TypeOK
<1>2. Heard(n).swap = said[n].swap BY <1>1 DEF Heard, Rows
<1> HIDE DEF Heard
<1>3. Cleared(Heard(n)).swap = Heard(n).swap BY <1>1 DEF Cleared, Rows
<1> QED BY <1>2, <1>3

LEMMA AnswerType ==
  ASSUME TypeOK, NEW n \in Nodes, NEW s \in Rows, NEW upgrade \in BOOLEAN
  PROVE  Answer(n, s, upgrade) \in Answers
  BY DEF TypeOK, Answer, Answers, Rows

LEMMA InitFacts == Init => TypeOK /\ Kept
<1> SUFFICES ASSUME Init PROVE TypeOK /\ Kept OBVIOUS
<1>1. day \in Days /\ day.hands \in Nat /\ day.restarts \in Nat BY DEF Init, AllDays
<1>2. copy \in [Nodes -> Copies] BY DEF Init, Copies
<1>4. said \in [Nodes -> Rows] /\ ans \in [Nodes -> Answers] /\ unit \in [Nodes -> Units]
  BY Types DEF Init
<1>5. 0 \in Builds /\ 1 \in 1..LastVersion OBVIOUS
<1>6. able \subseteq Nodes BY DEF Init
<1>7. TypeOK BY <1>1, <1>2, <1>4, <1>5, <1>6 DEF Init, TypeOK
<1>3. Kept BY DEF Init, Kept
<1> QED BY <1>3, <1>7

-----------------------------------------------------------------------------
(* The row's share of a check-in, written alone. *)
LEMMA ShareWritten ==
  ASSUME TypeOK, NEW n \in Nodes, NEW s \in Rows,
         row' = [row EXCEPT ![n].told = s.told, ![n].old = s.old]
  PROVE  /\ row' \in [Nodes -> Rows]
         /\ row'[n].told = s.told /\ row'[n].old = s.old /\ row'[n].swap = row[n].swap
<1> DEFINE g == [row[n] EXCEPT !.told = s.told, !.old = s.old]
<1>1. row[n] \in Rows /\ row \in [Nodes -> Rows] BY DEF TypeOK
<1>2. g \in Rows /\ g.told = s.told /\ g.old = s.old /\ g.swap = row[n].swap BY <1>1 DEF Rows
<1>3. row' = [row EXCEPT ![n] = g] BY <1>1
<1> HIDE DEF g
<1> QED BY <1>1, <1>2, <1>3

(* The check-in. *)
LEMMA TakeFacts ==
  ASSUME TypeOK, Kept, NEW n \in Nodes, Take(n) \/ TakeUnwritten(n)
  PROVE  TypeOK' /\ Kept'
<1> DEFINE c == Cleared(Heard(n))
           turn == Turn(n, c)
           s == IF turn THEN Told(c) ELSE c
<1>1. c \in Rows /\ s \in Rows BY HeardType, Types
<1>2. turn \in BOOLEAN BY DEF Turn, Behind
<1>3. Answer(n, s, turn) \in Answers BY <1>1, <1>2, AnswerType
<1>4. s.build \in Builds BY <1>1 DEF Rows
<1>5. owed'[n] \in SUBSET Builds /\ owed' \in [Nodes -> SUBSET Builds]
  BY <1>4 DEF TypeOK, Take, TakeUnwritten, Forgiven
<1>6. ans' = [ans EXCEPT ![n] = Answer(n, s, turn)] /\ said' = [said EXCEPT ![n] = s]
  BY DEF Take, TakeUnwritten
<1>7. row' \in [Nodes -> Rows]
  <2>1. CASE Take(n)
    <3>1. row' = [row EXCEPT ![n] = s] BY <2>1 DEF Take
    <3> HIDE DEF s
    <3> QED BY <1>1, <3>1 DEF TypeOK
  <2>2. CASE TakeUnwritten(n)
    <3>1. row' = [row EXCEPT ![n].told = s.told, ![n].old = s.old] BY <2>2 DEF TakeUnwritten
    <3> HIDE DEF s
    <3> QED BY <1>1, <3>1, ShareWritten
  <2> QED BY <2>1, <2>2
<1>8. TypeOK'
  BY <1>1, <1>3, <1>5, <1>6, <1>7 DEF TypeOK, Take, TakeUnwritten, node
<1>9. row'[n].told = s.told /\ row'[n].old = s.old /\ row'[n].swap = s.swap
  <2>1. CASE Take(n)
    <3>1. row' = [row EXCEPT ![n] = s] BY <2>1 DEF Take
    <3> HIDE DEF s
    <3> QED BY <3>1 DEF TypeOK
  <2>2. CASE TakeUnwritten(n)
    <3>1. n \in members /\ row' = [row EXCEPT ![n].told = s.told, ![n].old = s.old]
      BY <2>2 DEF TakeUnwritten
    <3>2. s.swap = c.swap BY <1>1 DEF Told, Rows
    <3>3. c.swap = said[n].swap BY <3>1, HeardSwap
    <3>4. row[n].swap = said[n].swap BY DEF Kept
    <3> HIDE DEF s, c
    <3> QED BY <1>1, <3>1, <3>2, <3>3, <3>4, ShareWritten
  <2> QED BY <2>1, <2>2
<1>10. Kept'
  BY <1>6, <1>9 DEF Kept, TypeOK, Take, TakeUnwritten
<1> QED BY <1>8, <1>10

LEMMA TakeFailsFacts ==
  ASSUME TypeOK, Kept, NEW n \in Nodes, TakeFails(n)
  PROVE  TypeOK' /\ Kept'
<1>1. CASE UNCHANGED <<members, said, row>>
  BY <1>1 DEF TakeFails, TypeOK, Kept, node, history
<1>2. CASE ~UNCHANGED <<members, said, row>>
  <2>1. PICK s \in {Heard(n), Cleared(Heard(n))} :
          /\ members' = members \cup {n} /\ said' = [said EXCEPT ![n] = s]
          /\ \/ row' = [row EXCEPT ![n] = s]
             \/ n \in members /\ row' = [row EXCEPT ![n].told = s.told, ![n].old = s.old]
    BY <1>2 DEF TakeFails
  <2>2. s \in Rows BY HeardType, Types
  <2>3. n \in members => s.swap = row[n].swap BY <2>1, HeardSwap DEF Kept
  <2>4. row' \in [Nodes -> Rows] /\ row'[n].told = s.told /\ row'[n].old = s.old /\ row'[n].swap = s.swap
    <3>1. CASE row' = [row EXCEPT ![n] = s] BY <2>2, <3>1 DEF TypeOK
    <3>2. CASE n \in members /\ row' = [row EXCEPT ![n].told = s.told, ![n].old = s.old]
      BY <2>2, <2>3, <3>2, ShareWritten
    <3> QED BY <2>1, <3>1, <3>2
  <2>5. \A m \in Nodes \ {n} : row'[m] = row[m] /\ said'[m] = said[m] BY <2>1 DEF TypeOK
  <2>6. TypeOK' BY <2>1, <2>2, <2>4 DEF TakeFails, TypeOK, node, history
  <2>7. said'[n] = s BY <2>1 DEF TypeOK
  <2>8. Kept' BY <2>1, <2>4, <2>5, <2>7 DEF Kept
  <2> QED BY <2>6, <2>8
<1> QED BY <1>1, <1>2 DEF TakeFails

(* The node. *)
LEMMA ApplyTypes ==
  ASSUME TypeOK, NEW n \in Nodes, Apply(n)
  PROVE  copy' \in [Nodes -> Copies] /\ ans' \in [Nodes -> Answers] /\ adrift' \subseteq Nodes
<1>1. [version |-> ans[n].config, swap |-> ans[n].swap] \in Copies BY DEF TypeOK, Answers, Copies
<1> QED BY <1>1, Types DEF Apply, TypeOK

LEMMA NodeFacts ==
  ASSUME TypeOK, Kept, NEW n \in Nodes, Lose(n) \/ Serve(n) \/ Unit(n)
  PROVE  TypeOK' /\ Kept'
<1>1. Kept'
  BY DEF Kept, Lose, Serve, Hear, HearUnlaunched, HearUnapplied, Apply, Unit, Replace, Boot, UnitEnds,
         HandUpgrade, gateway
<1>2. CASE Lose(n) BY <1>1, <1>2, Types DEF Lose, TypeOK, gateway, node, history
<1>3. CASE Hear(n) \/ HearUnlaunched(n)
  <2>1. Started(n, TRUE) \in Units BY DEF TypeOK, Started, Units
  <2>2. unit' \in [Nodes -> Units] BY <1>3, <2>1 DEF Hear, HearUnlaunched, TypeOK
  <2> QED BY <1>1, <1>3, <2>2, ApplyTypes DEF Hear, HearUnlaunched, Apply, TypeOK, gateway
<1>4. CASE HearUnapplied(n) BY <1>1, <1>4, Types DEF HearUnapplied, TypeOK, gateway, node, history
<1>5. CASE Replace(n)
  <2>1. unit[n].to \in Builds /\ [unit[n] EXCEPT !.built = TRUE] \in Units BY DEF TypeOK, Units
  <2> QED BY <1>1, <1>5, <2>1, Types DEF Replace, TypeOK, gateway, history
<1>6. CASE Boot(n) BY <1>1, <1>6 DEF Boot, TypeOK, gateway, history
<1>7. CASE UnitEnds(n)
  <2>1. [unit[n] EXCEPT !.on = FALSE] \in Units BY DEF TypeOK, Units
  <2> QED BY <1>1, <1>7, <2>1 DEF UnitEnds, TypeOK, gateway, history
<1>8. CASE HandUpgrade(n)
  <2>1. Started(n, FALSE) \in Units BY DEF TypeOK, Started, Units
  <2>2. hands' \in 0..day'.hands BY <1>8 DEF HandUpgrade, TypeOK, AllDays
  <2> QED BY <1>1, <1>8, <2>1, <2>2 DEF HandUpgrade, TypeOK, gateway, history
<1> QED BY <1>1, <1>2, <1>3, <1>4, <1>5, <1>6, <1>7, <1>8 DEF Serve, Unit

(* Time, the operators and the gateway's own restarts. *)
LEMMA RecordFacts ==
  ASSUME TypeOK, Kept, NEW n \in Nodes, NEW f \in Rows, NEW g \in Rows,
         said' = [said EXCEPT ![n] = f], row' = [row EXCEPT ![n] = g],
         f.told = g.told, f.old = g.old, f.swap = g.swap,
         (n \in members /\ members' = members) \/ (f = NoRow /\ g = NoRow /\ members' = members \ {n})
  PROVE  said' \in [Nodes -> Rows] /\ row' \in [Nodes -> Rows] /\ members' \subseteq Nodes /\ Kept'
  BY DEF TypeOK, Kept

LEMMA ChangeFacts ==
  ASSUME TypeOK, Kept, NEW n \in Nodes, Time(n) \/ Operate(n)
  PROVE  TypeOK' /\ Kept'
<1>1. said[n] \in Rows /\ row[n] \in Rows BY DEF TypeOK
<1>2. CASE FallSilent(n)
  <2> DEFINE f == [said[n] EXCEPT !.down = TRUE]
             g == [row[n] EXCEPT !.down = TRUE]
  <2>1. f \in Rows /\ g \in Rows BY <1>1, Types
  <2>2. f.told = g.told /\ f.old = g.old /\ f.swap = g.swap BY <1>1 DEF Kept, Rows
  <2>3. /\ said' = [said EXCEPT ![n] = f] /\ row' = [row EXCEPT ![n] = g]
        /\ n \in members /\ members' = members
    BY <1>2 DEF FallSilent
  <2> HIDE DEF f, g
  <2>4. said' \in [Nodes -> Rows] /\ row' \in [Nodes -> Rows] /\ members' \subseteq Nodes /\ Kept'
    BY <2>1, <2>2, <2>3, RecordFacts
  <2> QED BY <1>2, <2>4 DEF FallSilent, TypeOK, node, history
<1>3. CASE TellAges(n)
  <2> DEFINE f == [said[n] EXCEPT !.old = TRUE]
             g == [row[n] EXCEPT !.old = TRUE]
  <2>1. f \in Rows /\ g \in Rows BY <1>1, Types
  <2>2. f.told = g.told /\ f.old = g.old /\ f.swap = g.swap BY <1>1 DEF Kept, Rows
  <2>3. /\ said' = [said EXCEPT ![n] = f] /\ row' = [row EXCEPT ![n] = g]
        /\ n \in members /\ members' = members
    BY <1>3 DEF TellAges
  <2> HIDE DEF f, g
  <2>4. said' \in [Nodes -> Rows] /\ row' \in [Nodes -> Rows] /\ members' \subseteq Nodes /\ Kept'
    BY <2>1, <2>2, <2>3, RecordFacts
  <2> QED BY <1>3, <2>4 DEF TellAges, TypeOK, node, history
<1>4. ASSUME NEW gb \in Targets, ChangeSwap(n, gb) PROVE TypeOK' /\ Kept'
  <2> DEFINE f == [said[n] EXCEPT !.swap = gb]
             g == [row[n] EXCEPT !.swap = gb]
  <2>1. f \in Rows /\ g \in Rows BY <1>1, Types
  <2>2. f.told = g.told /\ f.old = g.old /\ f.swap = g.swap BY <1>1 DEF Kept, Rows
  <2>3. /\ said' = [said EXCEPT ![n] = f] /\ row' = [row EXCEPT ![n] = g]
        /\ n \in members /\ members' = members
    BY <1>4 DEF ChangeSwap
  <2> HIDE DEF f, g
  <2>4. said' \in [Nodes -> Rows] /\ row' \in [Nodes -> Rows] /\ members' \subseteq Nodes /\ Kept'
    BY <2>1, <2>2, <2>3, RecordFacts
  <2>5. version' \in 1..LastVersion BY <1>4 DEF ChangeSwap, TypeOK, AllDays
  <2> QED BY <1>4, <2>4, <2>5 DEF ChangeSwap, TypeOK, node, history
<1>5. CASE Remove(n)
  <2>1. /\ said' = [said EXCEPT ![n] = NoRow] /\ row' = [row EXCEPT ![n] = NoRow]
        /\ members' = members \ {n}
    BY <1>5 DEF Remove
  <2>2. said' \in [Nodes -> Rows] /\ row' \in [Nodes -> Rows] /\ members' \subseteq Nodes /\ Kept'
    BY <2>1, Types, RecordFacts
  <2>3. hands' \in 0..day'.hands BY <1>5 DEF Remove, TypeOK, AllDays
  <2> QED BY <1>5, <2>2, <2>3 DEF Remove, TypeOK, node
<1>6. CASE Unstick(n)
  <2> DEFINE f == [said[n] EXCEPT !.told = {}, !.old = FALSE]
             g == [row[n] EXCEPT !.told = {}, !.old = FALSE]
  <2>1. f \in Rows /\ g \in Rows BY <1>1, Types
  <2>2. f.told = g.told /\ f.old = g.old /\ f.swap = g.swap BY <1>1 DEF Kept, Rows
  <2>3. /\ said' = [said EXCEPT ![n] = f] /\ row' = [row EXCEPT ![n] = g]
        /\ n \in members /\ members' = members
    BY <1>6 DEF Unstick
  <2> HIDE DEF f, g
  <2>4. said' \in [Nodes -> Rows] /\ row' \in [Nodes -> Rows] /\ members' \subseteq Nodes /\ Kept'
    BY <2>1, <2>2, <2>3, RecordFacts
  <2>5. hands' \in 0..day'.hands BY <1>6 DEF Unstick, TypeOK, AllDays
  <2> QED BY <1>6, <2>4, <2>5 DEF Unstick, TypeOK, node
<1> QED BY <1>2, <1>3, <1>4, <1>5, <1>6 DEF Time, Operate

LEMMA RestFacts ==
  ASSUME TypeOK, Kept, Restart \/ Push \/ ChangeSettings
  PROVE  TypeOK' /\ Kept'
<1>1. CASE Restart
  <2>1. PICK late \in SUBSET members : row' = [n \in Nodes |-> [row[n] EXCEPT !.down = @ \/ n \in late]]
    BY <1>1 DEF Restart
  <2>2. ASSUME NEW n \in Nodes
        PROVE  /\ row'[n] \in Rows
               /\ row'[n].told = row[n].told /\ row'[n].old = row[n].old /\ row'[n].swap = row[n].swap
    <3>1. row[n] \in Rows /\ (row[n].down \/ n \in late) \in BOOLEAN BY DEF TypeOK, Rows
    <3>2. row'[n] = [row[n] EXCEPT !.down = row[n].down \/ n \in late] BY <2>1
    <3> QED BY <3>1, <3>2 DEF Rows
  <2>3. ASSUME NEW n \in Nodes, n \notin members PROVE row'[n] = NoRow
    <3>1. row[n] = NoRow /\ n \notin late BY <2>3 DEF Kept
    <3>2. row'[n] = [NoRow EXCEPT !.down = @ \/ n \in late] BY <2>1, <3>1
    <3> QED BY <3>1, <3>2 DEF NoRow
  <2>4. row' \in [Nodes -> Rows] /\ said' = row' BY <1>1, <2>1, <2>2 DEF Restart
  <2>5. gate' \in Builds /\ restarts' \in 0..day'.restarts BY <1>1 DEF Restart, TypeOK, AllDays
  <2>6. TypeOK' BY <1>1, <2>4, <2>5 DEF Restart, TypeOK, node, history
  <2>7. Kept' BY <1>1, <2>3, <2>4 DEF Restart, Kept
  <2> QED BY <2>6, <2>7
<1>2. CASE Push
  <2>1. head' \in Builds BY <1>2 DEF Push, TypeOK, AllDays
  <2> QED BY <1>2, <2>1 DEF Push, TypeOK, Kept, node, history
<1>3. CASE ChangeSettings
  <2>1. version' \in 1..LastVersion BY <1>3 DEF ChangeSettings, TypeOK, AllDays
  <2> QED BY <1>3, <2>1 DEF ChangeSettings, TypeOK, Kept, node, history
<1> QED BY <1>1, <1>2, <1>3

LEMMA NextFacts == ASSUME TypeOK, Kept, [Next]_vars PROVE TypeOK' /\ Kept'
<1>1. CASE UNCHANGED vars BY <1>1 DEF vars, gateway, node, history, TypeOK, Kept
<1> QED BY <1>1, TakeFacts, TakeFailsFacts, NodeFacts, ChangeFacts, RestFacts DEF Next, CheckIn

(* The state is well-formed, and a gateway that restarts has lost no tell, no
   swap target and no row. *)
THEOREM AlwaysKept == Spec => [](TypeOK /\ Kept)
  BY InitFacts, NextFacts, PTL DEF Spec

-----------------------------------------------------------------------------
(* What a check-in makes of the node's record. *)
LEMMA HeardFields ==
  ASSUME TypeOK, NEW n \in Nodes
  PROVE  /\ Heard(n).build = build[n] /\ Heard(n).running = unit[n].on /\ ~Heard(n).down
         /\ n \in members => Heard(n).told = said[n].told /\ Heard(n).old = said[n].old /\ Heard(n).swap = said[n].swap
<1> DEFINE s == IF n \in members THEN said[n] ELSE NoRow
<1>1. s \in Rows BY Types DEF TypeOK
<1>2. Heard(n) = [s EXCEPT !.build = build[n], !.running = unit[n].on, !.down = FALSE] BY DEF Heard
<1>3. n \in members => s = said[n] OBVIOUS
<1> QED BY <1>1, <1>2, <1>3 DEF Rows

LEMMA ClearedFields ==
  ASSUME NEW h \in Rows
  PROVE  /\ Cleared(h).build = h.build /\ Cleared(h).running = h.running /\ Cleared(h).down = h.down
         /\ Cleared(h).swap = h.swap
         /\ TellStands(h) /\ Older(h) => Cleared(h).told = h.told /\ Cleared(h).old = h.old
         /\ Told(h).build = h.build /\ Told(h).told = {h.build} /\ ~Told(h).old /\ Told(h).swap = h.swap
         /\ Told(h).running = h.running /\ Told(h).down = h.down
  BY DEF Cleared, TellStands, Older, Told, Rows

(* A tell that stands is not said again. *)
LEMMA TurnOnce ==
  ASSUME TypeOK, NEW n \in Nodes, n \in members, said[n].told = {build[n]}
  PROVE  /\ ~Turn(n, Cleared(Heard(n)))
         /\ build[n] < gate => Cleared(Heard(n)).told = {build[n]}
<1>1. Heard(n) \in Rows BY HeardType
<1>2. TellStands(Heard(n)) BY HeardFields DEF TellStands
<1>3. CASE Older(Heard(n))
  <2>1. TellStands(Cleared(Heard(n))) BY <1>1, <1>2, <1>3, ClearedFields DEF TellStands
  <2> QED BY <1>1, <1>2, <1>3, <2>1, HeardFields, ClearedFields DEF Turn, Behind
<1>4. CASE ~Older(Heard(n))
  BY <1>1, <1>4, HeardFields, ClearedFields DEF Turn, Behind, Older
<1> QED BY <1>3, <1>4

(* Commits only go up, and what a node is owed an upgrade from is behind it,
   or a tell that stands. *)
Owing ==
  \A n \in Nodes :
    /\ build[n] <= head
    /\ unit[n].on /\ ~unit[n].built => build[n] <= unit[n].to /\ unit[n].to <= head
    /\ \A b \in owed[n] : n \in members /\ b <= build[n] /\ (b = build[n] => said[n].told = {b})

LEMMA TakeOwing ==
  ASSUME TypeOK, Owing, NEW n \in Nodes, Take(n) \/ TakeUnwritten(n) PROVE Owing'
<1> DEFINE c == Cleared(Heard(n))
           turn == Turn(n, c)
           s == IF turn THEN Told(c) ELSE c
<1>1. Heard(n) \in Rows /\ c \in Rows BY HeardType, Types
<1>2. s.build = build[n] /\ (turn => s.told = {build[n]})
  BY <1>1, HeardFields, ClearedFields
<1>3. said' = [said EXCEPT ![n] = s] /\ UNCHANGED <<build, unit, head>> /\ n \in members' /\ members \subseteq members'
  BY DEF Take, TakeUnwritten, node
<1>4. owed' = [owed EXCEPT ![n] = IF turn THEN @ \cup {s.build} ELSE Forgiven(n, s)]
  BY DEF Take, TakeUnwritten
<1>5. ASSUME NEW b \in owed'[n] PROVE b <= build[n] /\ (b = build[n] => s.told = {b})
  <2>1. CASE turn
    <3>1. b \in owed[n] \cup {build[n]} BY <1>2, <1>4, <1>5, <2>1 DEF TypeOK
    <3>2. build[n] \in Builds BY DEF TypeOK
    <3> QED BY <1>2, <2>1, <3>1, <3>2 DEF Owing
  <2>2. CASE ~turn
    <3>1. b \in owed[n] /\ (b = build[n] => build[n] < gate)
      BY <1>2, <1>4, <1>5, <2>2 DEF Forgiven, TypeOK
    <3>2. b = build[n] => n \in members /\ said[n].told = {build[n]} BY <3>1 DEF Owing
    <3> QED BY <2>2, <3>1, <3>2, TurnOnce DEF Owing
  <2> QED BY <2>1, <2>2
<1> QED BY <1>3, <1>4, <1>5 DEF Owing, TypeOK

LEMMA TakeFailsOwing ==
  ASSUME TypeOK, Owing, NEW n \in Nodes, TakeFails(n) PROVE Owing'
<1>1. UNCHANGED <<build, unit, head, owed>> /\ members \subseteq members' BY DEF TakeFails, node, history
<1>2. ASSUME n \in members, said[n].told = {build[n]}
      PROVE  said'[n].told = {build[n]}
  <2>1. ~Turn(n, Cleared(Heard(n))) BY <1>2, TurnOnce
  <2>2. said' = said \/ said' = [said EXCEPT ![n] = Heard(n)] BY <2>1 DEF TakeFails
  <2> QED BY <1>2, <2>2, HeardFields DEF TypeOK
<1>3. \A m \in Nodes \ {n} : said'[m] = said[m] BY DEF TakeFails, TypeOK
<1> QED BY <1>1, <1>2, <1>3 DEF Owing

LEMMA NodeOwing ==
  ASSUME TypeOK, Owing, NEW n \in Nodes, Lose(n) \/ Serve(n) \/ Unit(n) PROVE Owing'
<1>1. UNCHANGED <<head, members, said, owed>>
  BY DEF Lose, Serve, Hear, HearUnlaunched, HearUnapplied, Apply, Unit, Replace, Boot, UnitEnds, HandUpgrade,
         gateway, history
<1>2. \A m \in Nodes : build[m] \in Nat /\ head \in Nat /\ owed[m] \subseteq Nat /\ unit[m] \in Units BY DEF TypeOK
<1>3. CASE Replace(n)
  <2>1. build' = [build EXCEPT ![n] = unit[n].to] /\ unit' = [unit EXCEPT ![n].built = TRUE]
        /\ build[n] <= unit[n].to /\ unit[n].to <= head
    BY <1>3 DEF Replace, Owing
  <2>2. \A m \in Nodes \ {n} : build'[m] = build[m] /\ unit'[m] = unit[m] BY <2>1 DEF TypeOK
  <2>3. build'[n] = unit[n].to /\ unit'[n].built /\ unit[n].to \in Nat BY <1>2, <2>1 DEF TypeOK, Units
  <2> QED BY <1>1, <1>2, <2>1, <2>2, <2>3 DEF Owing
<1>4. CASE UNCHANGED build /\ UNCHANGED unit BY <1>1, <1>4 DEF Owing
<1>5. CASE UNCHANGED build /\ \E t \in BOOLEAN : unit' = [unit EXCEPT ![n] = Started(n, t)]
  BY <1>1, <1>2, <1>5 DEF Started, Owing, TypeOK
<1>6. CASE UnitEnds(n)
  <2>1. unit' = [unit EXCEPT ![n].on = FALSE] /\ UNCHANGED build BY <1>6 DEF UnitEnds
  <2>2. ~unit'[n].on /\ \A m \in Nodes \ {n} : unit'[m] = unit[m] BY <1>2, <2>1 DEF TypeOK, Units
  <2> QED BY <1>1, <2>1, <2>2 DEF Owing
<1> QED BY <1>3, <1>4, <1>5, <1>6
        DEF Lose, Serve, Hear, HearUnlaunched, HearUnapplied, Apply, Unit, Boot, HandUpgrade, node

LEMMA RestOwing ==
  ASSUME TypeOK, Kept, Owing, (\E n \in Nodes : Time(n) \/ Operate(n)) \/ Restart \/ Push \/ ChangeSettings
  PROVE  Owing'
<1>1. UNCHANGED <<build, unit>> BY DEF Time, FallSilent, TellAges, Operate, ChangeSwap, Remove, Unstick,
                                       Restart, Push, ChangeSettings, node
<1>2. head' >= head /\ head \in Nat /\ (\A n \in Nodes : build[n] \in Nat /\ unit[n].to \in Nat) /\ head' \in Nat
  <2>1. head \in Nat /\ \A n \in Nodes : build[n] \in Nat /\ unit[n].to \in Nat BY DEF TypeOK, Units
  <2>2. head' = head \/ head' = head + 1
    BY DEF Time, FallSilent, TellAges, Operate, ChangeSwap, Remove, Unstick, Restart, Push, ChangeSettings
  <2> QED BY <2>1, <2>2
<1>3. ASSUME NEW n \in Nodes, NEW b \in owed'[n]
      PROVE  b \in owed[n] /\ n \in members' /\ (b = build[n] => said'[n].told = said[n].told)
  <2>1. ASSUME NEW m \in Nodes, Time(m) \/ (\E gb \in Targets : ChangeSwap(m, gb))
        PROVE  said'[n].told = said[n].told /\ owed' = owed /\ members' = members
    <3>1. said[m] \in Rows BY DEF TypeOK
    <3>2. \E f \in Rows : f.told = said[m].told /\ said' = [said EXCEPT ![m] = f]
      <4>1. CASE FallSilent(m)
        <5>1. [said[m] EXCEPT !.down = TRUE].told = said[m].told BY <3>1 DEF Rows
        <5> QED BY <3>1, <4>1, <5>1, Types DEF FallSilent
      <4>2. CASE TellAges(m)
        <5>1. [said[m] EXCEPT !.old = TRUE].told = said[m].told BY <3>1 DEF Rows
        <5> QED BY <3>1, <4>2, <5>1, Types DEF TellAges
      <4>3. ASSUME NEW gb \in Targets, ChangeSwap(m, gb)
            PROVE  \E f \in Rows : f.told = said[m].told /\ said' = [said EXCEPT ![m] = f]
        <5>1. [said[m] EXCEPT !.swap = gb].told = said[m].told BY <3>1 DEF Rows
        <5> QED BY <3>1, <4>3, <5>1, Types DEF ChangeSwap
      <4> QED BY <2>1, <4>1, <4>2, <4>3 DEF Time
    <3>3. said'[n].told = said[n].told BY <3>2 DEF TypeOK
    <3> QED BY <2>1, <3>3 DEF Time, FallSilent, TellAges, ChangeSwap, history
  <2>2. ASSUME NEW m \in Nodes, Remove(m)
        PROVE  n # m /\ said'[n] = said[n] /\ b \in owed[n] /\ (n \in members => n \in members')
    BY <1>3, <2>2 DEF Remove, TypeOK
  <2>3. ASSUME NEW m \in Nodes, Unstick(m)
        PROVE  (b = build[n] => said'[n].told = said[n].told) /\ b \in owed[n] /\ members' = members
    <3>1. CASE n # m BY <1>3, <2>3, <3>1 DEF Unstick, TypeOK
    <3>2. CASE n = m
      <4>1. b \in owed[n] /\ b # said[n].build BY <1>3, <2>3, <3>2 DEF Unstick, TypeOK
      <4>2. said[n].told = {said[n].build} BY <2>3, <3>2 DEF Unstick, Stuck, TellStands
      <4>3. b # build[n] BY <4>1, <4>2 DEF Owing
      <4> QED BY <2>3, <4>1, <4>3 DEF Unstick
    <3> QED BY <3>1, <3>2
  <2>4. ASSUME Restart
        PROVE  said'[n].told = said[n].told /\ owed' = owed /\ members' = members
    <3>1. said'[n].told = row[n].told BY <2>4 DEF Restart, TypeOK, Rows
    <3> QED BY <2>4, <3>1 DEF Restart, Kept, history
  <2>5. ASSUME Push \/ ChangeSettings
        PROVE  said'[n].told = said[n].told /\ owed' = owed /\ members' = members
    BY <2>5 DEF Push, ChangeSettings, history
  <2> QED BY <1>3, <2>1, <2>2, <2>3, <2>4, <2>5 DEF Owing, Operate
<1>4. ASSUME NEW n \in Nodes
      PROVE  build[n] <= head' /\ (unit[n].on /\ ~unit[n].built => build[n] <= unit[n].to /\ unit[n].to <= head')
  BY <1>2 DEF Owing
<1> QED BY <1>1, <1>3, <1>4 DEF Owing

LEMMA NextOwing == ASSUME TypeOK, Kept, Owing, [Next]_vars PROVE Owing'
<1>1. CASE UNCHANGED vars BY <1>1 DEF vars, gateway, node, history, Owing
<1> QED BY <1>1, TakeOwing, TakeFailsOwing, NodeOwing, RestOwing DEF Next, CheckIn

LEMMA OwedOnce ==
  ASSUME TypeOK, Owing, [Next]_vars, NEW n \in Nodes, ~ans[n].upgrade, ans'[n].upgrade
  PROVE  build[n] \notin owed[n]
<1>1. Take(n) \/ TakeUnwritten(n)
  <2>1. ASSUME NEW m \in Nodes, Take(m) \/ TakeUnwritten(m) PROVE m = n
    BY <2>1 DEF Take, TakeUnwritten, TypeOK
  <2>2. ASSUME NEW m \in Nodes, Lose(m) \/ Serve(m) \/ Unit(m) PROVE FALSE
    <3>1. ans' \in {ans, [ans EXCEPT ![m] = NoAnswer]}
      BY <2>2 DEF Lose, Serve, Hear, HearUnlaunched, HearUnapplied, Apply, Unit, Replace, Boot, UnitEnds, HandUpgrade
    <3> QED BY <3>1 DEF TypeOK, NoAnswer
  <2>3. ans' # ans OBVIOUS
  <2> QED BY <2>1, <2>2, <2>3
          DEF Next, CheckIn, TakeFails, Time, FallSilent, TellAges, Operate, ChangeSwap, Remove, Unstick,
              Restart, Push, ChangeSettings, vars
<1>2. Turn(n, Cleared(Heard(n)))
  BY <1>1 DEF Take, TakeUnwritten, Answer, TypeOK
<1>3. SUFFICES ASSUME build[n] \in owed[n] PROVE FALSE OBVIOUS
<1>4. n \in members /\ said[n].told = {build[n]} BY <1>3 DEF Owing
<1> QED BY <1>2, <1>4, TurnOnce

(* On one commit a node is told once, unless an operator asks for it again or
   the gateway has not been ahead of it since. *)
THEOREM AlwaysToldOnce == Spec => ToldOnce
<1>1. Init => Owing
  <2> SUFFICES ASSUME Init, NEW n \in Nodes
               PROVE  build[n] <= head /\ ~unit[n].on /\ owed[n] = {}
    BY DEF Owing
  <2> QED BY DEF Init, NoUnit
<1>2. ASSUME TypeOK, Owing, [Next]_vars
      PROVE [\A n \in Nodes : ~ans[n].upgrade /\ ans'[n].upgrade => build[n] \notin owed[n]]_vars
  BY <1>2, OwedOnce
<1> QED BY <1>1, <1>2, AlwaysKept, NextOwing, PTL DEF Spec, ToldOnce

-----------------------------------------------------------------------------
(* The answers on their way, and the copies, of the current version carry the
   current target. *)
Sent ==
  \A n \in Nodes :
    /\ copy[n].version <= version /\ ans[n].config <= version
    /\ n \notin members \cup adrift => copy[n].version = 0 /\ ~ans[n].on
    /\ n \in members /\ ans[n].on /\ ans[n].config = version => ans[n].swap = said[n].swap
    /\ n \in members \ adrift /\ copy[n].version = version => copy[n].swap = said[n].swap

LEMMA SentTypes ==
  ASSUME TypeOK
  PROVE  /\ version \in Nat \ {0}
         /\ \A n \in Nodes : copy[n].version \in Nat /\ ans[n].config \in Nat /\ said[n] \in Rows
  BY DEF TypeOK, Copies, Answers

LEMMA TakeSent ==
  ASSUME TypeOK, Kept, Sent, NEW n \in Nodes, Take(n) \/ TakeUnwritten(n) PROVE Sent'
<1> DEFINE c == Cleared(Heard(n))
           turn == Turn(n, c)
           s == IF turn THEN Told(c) ELSE c
<1>1. Heard(n) \in Rows /\ c \in Rows BY HeardType, Types
<1>2. n \in members => s.swap = said[n].swap
  BY <1>1, HeardFields, ClearedFields
<1>3. /\ said' = [said EXCEPT ![n] = s] /\ ans' = [ans EXCEPT ![n] = Answer(n, s, turn)]
      /\ UNCHANGED <<copy, version, adrift>> /\ members' = members \cup {n}
  BY DEF Take, TakeUnwritten, node
<1>4. /\ Answer(n, s, turn).config \in {0, version} /\ Answer(n, s, turn).swap = s.swap
  BY DEF Answer
<1>5. n \notin members \cup adrift => copy[n].version = 0 BY DEF Sent
<1>6. \A m \in Nodes \ {n} : said'[m] = said[m] /\ ans'[m] = ans[m] BY <1>3 DEF TypeOK
<1>7. said'[n] = s /\ ans'[n] = Answer(n, s, turn) BY <1>3 DEF TypeOK
<1> QED BY <1>2, <1>3, <1>4, <1>5, <1>6, <1>7, SentTypes DEF Sent

LEMMA TakeFailsSent ==
  ASSUME TypeOK, Kept, Sent, NEW n \in Nodes, TakeFails(n) PROVE Sent'
<1>1. UNCHANGED <<copy, ans, version, adrift>> /\ members' \in {members, members \cup {n}} /\ ~ans[n].on
  BY DEF TakeFails, node, history, Posts
<1>2. \A m \in members : said'[m].swap = said[m].swap
  <2>1. n \in members => /\ Heard(n).swap = said[n].swap /\ Cleared(Heard(n)).swap = said[n].swap
    BY HeardType, HeardFields, ClearedFields
  <2> QED BY <2>1 DEF TakeFails, TypeOK
<1> QED BY <1>1, <1>2, SentTypes DEF Sent

LEMMA NodeSent ==
  ASSUME TypeOK, Sent, NEW n \in Nodes, Lose(n) \/ Serve(n) \/ Unit(n) PROVE Sent'
<1>1. UNCHANGED <<version, members, said>>
  BY DEF Lose, Serve, Hear, HearUnlaunched, HearUnapplied, Apply, Unit, Replace, Boot, UnitEnds, HandUpgrade, gateway
<1>2. ans' \in {ans, [ans EXCEPT ![n] = NoAnswer]}
  BY DEF Lose, Serve, Hear, HearUnlaunched, HearUnapplied, Apply, Unit, Replace, Boot, UnitEnds, HandUpgrade
<1>3. \A m \in Nodes : ans'[m] = ans[m] \/ ans'[m] = NoAnswer BY <1>2 DEF TypeOK
<1>4. ~NoAnswer.on /\ NoAnswer.config = 0 BY DEF NoAnswer
<1>5. CASE UNCHANGED <<copy, adrift>> BY <1>1, <1>3, <1>4, <1>5, SentTypes DEF Sent
<1>6. CASE Apply(n) /\ ans[n].config # 0
  <2>1. /\ copy' = [copy EXCEPT ![n] = [version |-> ans[n].config, swap |-> ans[n].swap]]
        /\ adrift' = adrift \ ({n} \cap members) /\ ans[n].on
    BY <1>6 DEF Apply
  <2>2. copy'[n].version = ans[n].config /\ copy'[n].swap = ans[n].swap
        /\ \A m \in Nodes \ {n} : copy'[m] = copy[m]
    BY <2>1 DEF TypeOK
  <2>3. n \in members \cup adrift BY <2>1 DEF Sent
  <2> QED BY <1>1, <1>3, <1>4, <2>1, <2>2, <2>3, SentTypes DEF Sent
<1> QED BY <1>5, <1>6
        DEF Lose, Serve, Hear, HearUnlaunched, HearUnapplied, Apply, Unit, Replace, Boot, UnitEnds, HandUpgrade,
            node, history

LEMMA RestSent ==
  ASSUME TypeOK, Kept, Sent, (\E n \in Nodes : Time(n) \/ Operate(n)) \/ Restart \/ Push \/ ChangeSettings
  PROVE  Sent'
<1>1. UNCHANGED <<copy, ans>> BY DEF Time, FallSilent, TellAges, Operate, ChangeSwap, Remove, Unstick,
                                     Restart, Push, ChangeSettings, node
<1>2. CASE version' = version + 1 /\ UNCHANGED <<members, adrift>>
  BY <1>1, <1>2, SentTypes DEF Sent
<1>3. CASE UNCHANGED <<version, members, adrift>> /\ \A n \in Nodes : said'[n].swap = said[n].swap
  BY <1>1, <1>3 DEF Sent
<1>4. ASSUME NEW n \in Nodes, Remove(n) PROVE Sent'
  BY <1>1, <1>4, SentTypes DEF Remove, Sent, TypeOK
<1>5. ASSUME NEW n \in Nodes, Time(n) \/ Unstick(n)
      PROVE  UNCHANGED <<version, members, adrift>> /\ \A m \in Nodes : said'[m].swap = said[m].swap
  <2>1. \E f \in {[said[n] EXCEPT !.down = TRUE], [said[n] EXCEPT !.old = TRUE],
                 [said[n] EXCEPT !.told = {}, !.old = FALSE]} : said' = [said EXCEPT ![n] = f]
    BY <1>5 DEF Time, FallSilent, TellAges, Unstick
  <2>2. said[n] \in Rows BY DEF TypeOK
  <2>3. /\ [said[n] EXCEPT !.down = TRUE].swap = said[n].swap
        /\ [said[n] EXCEPT !.old = TRUE].swap = said[n].swap
        /\ [said[n] EXCEPT !.told = {}, !.old = FALSE].swap = said[n].swap
    BY <2>2 DEF Rows
  <2>4. \A m \in Nodes : said'[m].swap = said[m].swap BY <2>1, <2>3 DEF TypeOK
  <2> QED BY <1>5, <2>4 DEF Time, FallSilent, TellAges, Unstick, history
<1>6. ASSUME Restart
      PROVE  UNCHANGED <<version, members, adrift>> /\ \A m \in Nodes : said'[m].swap = said[m].swap
  <2>1. \A m \in Nodes : said'[m].swap = row[m].swap BY <1>6 DEF Restart, TypeOK, Rows
  <2> QED BY <1>6, <2>1 DEF Restart, Kept, history
<1> QED BY <1>2, <1>3, <1>4, <1>5, <1>6 DEF Operate, ChangeSwap, Push, ChangeSettings, history

LEMMA NextSent == ASSUME TypeOK, Kept, Sent, [Next]_vars PROVE Sent'
<1>1. CASE UNCHANGED vars BY <1>1 DEF vars, gateway, node, history, Sent
<1> QED BY <1>1, TakeSent, TakeFailsSent, NodeSent, RestSent DEF Next, CheckIn

(* A node that runs the current version has the target of its row. *)
THEOREM AlwaysTargetHeld == Spec => []TargetHeld
<1>1. Init => Sent
  <2> SUFFICES ASSUME Init PROVE Sent OBVIOUS
  <2>1. \A n \in Nodes : copy[n].version = 0 /\ ans[n].config = 0 /\ ~ans[n].on BY DEF Init, NoAnswer
  <2>2. version = 1 /\ members = {} BY DEF Init
  <2>3. TypeOK BY InitFacts
  <2>4. ASSUME NEW n \in Nodes
        PROVE  /\ copy[n].version <= version /\ ans[n].config <= version /\ ans[n].config # version
               /\ copy[n].version # version /\ copy[n].version = 0 /\ ~ans[n].on
    BY <2>1, <2>2
  <2> QED BY <2>4 DEF Sent
<1>2. TypeOK /\ Sent => TargetHeld BY DEF Sent, TargetHeld, TypeOK
<1> QED BY <1>1, <1>2, AlwaysKept, NextSent, PTL DEF Spec

-----------------------------------------------------------------------------
(* A node at what it was told to do stands, by its record, told on the commit
   it runs; past the twenty minutes it says that its unit is running. *)
AtWork(n) == ans[n].upgrade \/ (unit[n].told /\ unit[n].on /\ ~unit[n].built)
Counted(n) ==
  /\ n \in members /\ Older(said[n]) /\ TellStands(said[n])
  /\ said[n].old => Runs(said[n])

Standing ==
  /\ gate <= head
  /\ \A n \in Nodes : ans[n].upgrade => ans[n].on
  /\ "unwritten" \notin day.may => row = said
  /\ Calm => \A n \in Nodes : (Away(n) => Counted(n)) /\ (AtWork(n) => said[n].build = build[n])
  /\ OneAway

LEMMA CountedUpgrading == ASSUME NEW n \in Nodes, Counted(n) PROVE Upgrading(said[n])
  BY DEF Counted, Upgrading

LEMMA WorkIsAway == ASSUME NEW n \in Nodes, AtWork(n) PROVE Away(n)
  BY DEF AtWork, Away

(* What the other nodes are at does not change by what one does. *)
Others(n) ==
  \A m \in Nodes \ {n} :
    said'[m] = said[m] /\ ans'[m] = ans[m] /\ unit'[m] = unit[m] /\ build'[m] = build[m] /\ (m \in up' <=> m \in up)

LEMMA TakeStanding ==
  ASSUME TypeOK, Kept, Standing, NEW n \in Nodes, Take(n) \/ TakeUnwritten(n) PROVE Standing'
<1> DEFINE c == Cleared(Heard(n))
           turn == Turn(n, c)
           s == IF turn THEN Told(c) ELSE c
<1>1. Heard(n) \in Rows /\ c \in Rows BY HeardType, Types
<1>2. /\ said' = [said EXCEPT ![n] = s] /\ ans' = [ans EXCEPT ![n] = Answer(n, s, turn)]
      /\ members' = members \cup {n} /\ UNCHANGED <<day, gate, head, build, unit, up>>
      /\ n \in up /\ ~ans[n].on
  BY DEF Take, TakeUnwritten, node, Posts
<1>3. said'[n] = s /\ ans'[n].upgrade = turn /\ ans'[n].on /\ Others(n)
  BY <1>2 DEF TypeOK, Answer, Others
<1>4. s.build = build[n] BY <1>1, HeardFields, ClearedFields
<1>5. ~ans[n].upgrade BY <1>2 DEF Standing
<1>6. "unwritten" \notin day.may => row' = said' BY <1>2 DEF Take, TakeUnwritten, Standing
<1>7. ASSUME Calm, NEW m \in Nodes
      PROVE  (Away(m)' => Counted(m)') /\ (AtWork(m)' => said'[m].build = build'[m])
  <2>1. CASE m # n
    BY <1>2, <1>3, <1>7, <2>1 DEF Others, Standing, Away, AtWork, Counted, Older, TellStands, Runs
  <2>2. CASE m = n /\ turn
    <3>1. Older(c) /\ s = Told(c) BY <2>2 DEF Turn, Behind
    <3>2. s.told = {s.build} /\ ~s.old /\ s.build < gate BY <1>1, <3>1, ClearedFields DEF Older
    <3> QED BY <1>2, <1>3, <1>4, <2>2, <3>2 DEF Counted, Older, TellStands
  <2>3. CASE m = n /\ ~turn /\ Away(n)'
    <3>1. unit[n].told /\ unit[n].on /\ ~unit[n].built BY <1>2, <1>3, <2>3 DEF Away
    <3>2. AtWork(n) /\ Away(n) BY <3>1 DEF AtWork, Away
    <3>3. Counted(n) /\ said[n].build = build[n] BY <1>7, <3>2 DEF Standing
    <3>4. /\ Heard(n).build = build[n] /\ Heard(n).running /\ ~Heard(n).down
          /\ Heard(n).told = {build[n]} /\ build[n] < gate
      BY <3>1, <3>3, HeardFields DEF Counted, TellStands, Older
    <3>5. Older(Heard(n)) /\ TellStands(Heard(n)) BY <3>4 DEF Older, TellStands
    <3>6. c.told = {build[n]} /\ c.running /\ ~c.down /\ c.build = build[n]
      BY <1>1, <3>4, <3>5, ClearedFields
    <3> QED BY <1>2, <1>3, <1>4, <2>3, <3>4, <3>6 DEF Counted, Older, TellStands, Runs
  <2>4. CASE m = n /\ ~turn /\ ~Away(n)'
    <3>1. ~AtWork(n)' BY <2>4 DEF Away, AtWork
    <3> QED BY <2>4, <3>1
  <2> QED BY <2>1, <2>2, <2>3, <2>4
<1>8. OneAway'
  <2> SUFFICES ASSUME Calm, NEW m1 \in Nodes, NEW m2 \in Nodes, Away(m1)', Away(m2)', m1 # m2 PROVE FALSE
    BY <1>2 DEF OneAway, Calm
  <2>1. ASSUME NEW m \in Nodes \ {n}, Away(m)' PROVE Away(m) /\ Upgrading(said[m]) /\ m \in members
    <3>1. Away(m) BY <1>3, <2>1 DEF Others, Away
    <3> QED BY <3>1, CountedUpgrading DEF Standing, Counted
  <2>2. CASE m1 # n /\ m2 # n BY <2>1, <2>2 DEF Standing, OneAway
  <2>3. PICK m \in {m1, m2} : m # n /\ Away(m) /\ Upgrading(said[m]) /\ m \in members BY <2>1
  <2>4. CASE turn BY <2>3, <2>4 DEF Turn
  <2>5. CASE ~turn /\ n \in {m1, m2}
    <3>1. Away(n) BY <1>2, <1>3, <2>5 DEF Away
    <3> QED BY <2>3, <3>1 DEF Standing, OneAway
  <2> QED BY <2>2, <2>4, <2>5
<1> QED BY <1>2, <1>3, <1>6, <1>7, <1>8 DEF Standing, Others, Calm

(* What only takes nodes back from work, or leaves them at it. *)
LEMMA StaysStanding ==
  ASSUME TypeOK, Standing, UNCHANGED <<day, gate, members, said, row>>, head' >= head, head' \in Nat,
         \A m \in Nodes : ans'[m].upgrade => ans'[m].on,
         \A m \in Nodes : Away(m)' => Away(m),
         \A m \in Nodes : AtWork(m)' => AtWork(m) /\ build'[m] = build[m]
  PROVE  Standing'
<1>1. gate \in Nat /\ head \in Nat BY DEF TypeOK
<1>2. gate' <= head' BY <1>1 DEF Standing
<1>3. ASSUME Calm, NEW m \in Nodes
      PROVE  (Away(m)' => Counted(m)') /\ (AtWork(m)' => said'[m].build = build'[m])
  BY <1>3 DEF Standing, Counted, Older, TellStands, Runs
<1>4. OneAway' BY DEF Standing, OneAway, Calm
<1> QED BY <1>2, <1>3, <1>4 DEF Standing, Calm

LEMMA NodeStanding ==
  ASSUME TypeOK, Standing, NEW n \in Nodes, Lose(n) \/ Serve(n) \/ Unit(n) PROVE Standing'
<1>0. head \in Nat BY DEF TypeOK
<1>1. UNCHANGED <<day, gate, head, members, said, row>>
  BY DEF Lose, Serve, Hear, HearUnlaunched, HearUnapplied, Apply, Unit, Replace, Boot, UnitEnds, HandUpgrade,
         gateway
<1>2. ans' \in {ans, [ans EXCEPT ![n] = NoAnswer]}
  BY DEF Lose, Serve, Hear, HearUnlaunched, HearUnapplied, Apply, Unit, Replace, Boot, UnitEnds, HandUpgrade
<1>3. \A m \in Nodes : (ans'[m].upgrade => ans'[m].on /\ ans[m].upgrade) /\ (m # n => ans'[m] = ans[m])
  BY <1>2 DEF TypeOK, NoAnswer, Standing
<1>4. unit \in [Nodes -> Units] BY DEF TypeOK
<1>5. CASE UNCHANGED <<build, up, unit>>
  BY <1>0, <1>1, <1>3, <1>5, StaysStanding DEF Away, AtWork
<1>6. CASE Hear(n) /\ ans[n].upgrade /\ ~unit[n].on
  <2>1. unit' = [unit EXCEPT ![n] = Started(n, TRUE)] /\ UNCHANGED <<build, up>> BY <1>6 DEF Hear, Apply
  <2>2. Away(n) /\ AtWork(n) BY <1>6 DEF Away, AtWork
  <2>3. \A m \in Nodes \ {n} : unit'[m] = unit[m] BY <1>4, <2>1
  <2>4. ASSUME NEW m \in Nodes PROVE (Away(m)' => Away(m)) /\ (AtWork(m)' => AtWork(m))
    <3>1. CASE m = n BY <2>2, <3>1
    <3>2. CASE m # n BY <1>3, <2>1, <2>3, <3>2 DEF Away, AtWork
    <3> QED BY <3>1, <3>2
  <2> QED BY <1>0, <1>1, <1>3, <2>1, <2>4, StaysStanding
<1>7. CASE Replace(n)
  <2>1. /\ build' = [build EXCEPT ![n] = unit[n].to] /\ unit' = [unit EXCEPT ![n].built = TRUE]
        /\ up' = up \ {n} /\ ans' = [ans EXCEPT ![n] = NoAnswer] /\ unit[n].on /\ ~unit[n].built
    BY <1>7 DEF Replace
  <2>2. unit'[n].built /\ unit'[n].told = unit[n].told /\ \A m \in Nodes \ {n} : unit'[m] = unit[m] /\ build'[m] = build[m]
    BY <1>4, <2>1 DEF Units, TypeOK
  <2>3. ~ans'[n].upgrade BY <2>1 DEF TypeOK, NoAnswer
  <2>4. ~AtWork(n)' BY <2>2, <2>3 DEF AtWork
  <2>5. Away(n)' => Away(n) BY <2>1, <2>2, <2>3 DEF Away
  <2>6. \A m \in Nodes \ {n} : (Away(m)' => Away(m)) /\ (AtWork(m)' => AtWork(m))
    BY <1>3, <2>1, <2>2 DEF Away, AtWork
  <2> QED BY <1>0, <1>1, <1>3, <2>2, <2>4, <2>5, <2>6, StaysStanding
<1>8. CASE Boot(n)
  BY <1>0, <1>1, <1>3, <1>8, StaysStanding DEF Boot, Away, AtWork
<1>9. CASE UnitEnds(n)
  <2>1. unit' = [unit EXCEPT ![n].on = FALSE] /\ UNCHANGED <<build, up, ans>> BY <1>9 DEF UnitEnds
  <2>2. ~unit'[n].on /\ unit'[n].told = unit[n].told /\ \A m \in Nodes \ {n} : unit'[m] = unit[m]
    BY <1>4, <2>1 DEF Units
  <2> QED BY <1>0, <1>1, <1>3, <2>1, <2>2, StaysStanding DEF Away, AtWork
<1>10. CASE HandUpgrade(n)
  <2>1. unit' = [unit EXCEPT ![n] = Started(n, FALSE)] /\ UNCHANGED <<build, up, ans>> BY <1>10 DEF HandUpgrade
  <2>2. ~unit'[n].told /\ \A m \in Nodes \ {n} : unit'[m] = unit[m] BY <1>4, <2>1 DEF Started
  <2>3. ASSUME NEW m \in Nodes PROVE (Away(m)' => Away(m)) /\ (AtWork(m)' => AtWork(m))
    <3>1. CASE m = n BY <1>3, <2>1, <2>2, <3>1 DEF Away, AtWork
    <3>2. CASE m # n BY <1>3, <2>1, <2>2, <3>2 DEF Away, AtWork
    <3> QED BY <3>1, <3>2
  <2> QED BY <1>0, <1>1, <1>3, <2>1, <2>3, StaysStanding
<1> QED BY <1>5, <1>6, <1>7, <1>8, <1>9, <1>10
        DEF Lose, Serve, Hear, HearUnlaunched, HearUnapplied, Apply, Unit, node

(* Time and operators: the twenty minutes are enough, or the node has said
   that it is at it. *)
LEMMA RecordStanding ==
  ASSUME TypeOK, Standing, NEW n \in Nodes, NEW f \in Rows, UNCHANGED <<day, gate, head, members, ans, build, unit, up>>,
         said' = [said EXCEPT ![n] = f], f.build = said[n].build,
         "unwritten" \notin day.may => row' = said',
         Calm => ~Away(n) \/ (f.told = said[n].told /\ (f.old => Runs(f)))
  PROVE  Standing'
<1>1. \A m \in Nodes : (Away(m)' <=> Away(m)) /\ (AtWork(m)' <=> AtWork(m)) BY DEF Away, AtWork
<1>2. said'[n] = f /\ \A m \in Nodes \ {n} : said'[m] = said[m] BY DEF TypeOK
<1>3. ASSUME Calm, NEW m \in Nodes
      PROVE  (Away(m) => Counted(m)') /\ (AtWork(m) => said'[m].build = build[m])
  <2>1. CASE m # n BY <1>2, <1>3, <2>1 DEF Standing, Counted, Older, TellStands, Runs
  <2>2. CASE m = n
    <3>1. Away(n) => Counted(n)' BY <1>2, <1>3 DEF Standing, Counted, Older, TellStands, Runs
    <3>2. AtWork(n) => said'[n].build = build[n] BY <1>2, <1>3 DEF Standing
    <3> QED BY <2>2, <3>1, <3>2
  <2> QED BY <2>1, <2>2
<1>4. OneAway' BY <1>1 DEF Standing, OneAway, Calm
<1> QED BY <1>1, <1>3, <1>4 DEF Standing, Calm

LEMMA TimeStanding ==
  ASSUME TypeOK, TypeOK', Standing, NEW n \in Nodes, Time(n) \/ Operate(n) PROVE Standing'
<1>0. said[n] \in Rows /\ row[n] \in Rows /\ ("unwritten" \notin day.may => row = said) BY DEF TypeOK, Standing
<1>2. CASE FallSilent(n)
  <2> DEFINE f == [said[n] EXCEPT !.down = TRUE]
  <2>1. f \in Rows /\ f.build = said[n].build /\ f.told = said[n].told /\ f.old = said[n].old
    BY <1>0, Types DEF Rows
  <2>2. /\ said' = [said EXCEPT ![n] = f] /\ row' = [row EXCEPT ![n].down = TRUE]
        /\ UNCHANGED <<day, gate, head, members, ans, build, unit, up>> /\ n \in members
        /\ Calm => InTime'
    BY <1>2 DEF FallSilent, node, Calm
  <2>3. "unwritten" \notin day.may => row' = said' BY <1>0, <2>2
  <2>4. Calm /\ Away(n) => (f.old => Runs(f)) BY <2>2 DEF InTime, Away, TypeOK, Runs
  <2> QED BY <2>1, <2>2, <2>3, <2>4, RecordStanding
<1>3. CASE TellAges(n)
  <2> DEFINE f == [said[n] EXCEPT !.old = TRUE]
  <2>1. f \in Rows /\ f.build = said[n].build /\ f.told = said[n].told
    BY <1>0, Types DEF Rows
  <2>2. /\ said' = [said EXCEPT ![n] = f] /\ row' = [row EXCEPT ![n].old = TRUE]
        /\ UNCHANGED <<day, gate, head, members, ans, build, unit, up>> /\ n \in members
        /\ Calm => InTime'
    BY <1>3 DEF TellAges, node, Calm
  <2>3. "unwritten" \notin day.may => row' = said' BY <1>0, <2>2
  <2>4. Calm /\ Away(n) => (f.old => Runs(f)) BY <2>2 DEF InTime, Away, TypeOK, Runs
  <2> QED BY <2>1, <2>2, <2>3, <2>4, RecordStanding
<1>4. ASSUME NEW gb \in Targets, ChangeSwap(n, gb) PROVE Standing'
  <2> DEFINE f == [said[n] EXCEPT !.swap = gb]
  <2>1. f \in Rows /\ f.build = said[n].build /\ f.told = said[n].told /\ f.old = said[n].old
        /\ f.running = said[n].running /\ f.down = said[n].down
    BY <1>0, Types DEF Rows
  <2>2. /\ said' = [said EXCEPT ![n] = f] /\ row' = [row EXCEPT ![n].swap = gb]
        /\ UNCHANGED <<day, gate, head, members, ans, build, unit, up>>
    BY <1>4 DEF ChangeSwap, node
  <2>3. "unwritten" \notin day.may => row' = said' BY <1>0, <2>2
  <2>4. Calm /\ Away(n) => (f.old => Runs(f)) BY <2>1 DEF Standing, Counted, Runs
  <2> QED BY <2>1, <2>2, <2>3, <2>4, RecordStanding
<1>5. CASE Unstick(n)
  <2> DEFINE f == [said[n] EXCEPT !.told = {}, !.old = FALSE]
  <2>1. f \in Rows /\ f.build = said[n].build
    <3>1. said[n] \in Rows BY <1>0
    <3>2. f \in Rows BY <3>1, Types
    <3> QED BY <3>1, <3>2 DEF Rows
  <2>2. /\ said' = [said EXCEPT ![n] = f] /\ row' = [row EXCEPT ![n].told = {}, ![n].old = FALSE]
        /\ UNCHANGED <<day, gate, head, members, ans, build, unit, up>> /\ Stuck(said[n])
    BY <1>5 DEF Unstick, node
  <2>3. row' = [row EXCEPT ![n] = [row[n] EXCEPT !.told = {}, !.old = FALSE]] BY <1>5 DEF Unstick
  <2>4. "unwritten" \notin day.may => row' = said' BY <1>0, <2>2, <2>3
  <2>5. Calm => ~Away(n) BY <2>2 DEF Standing, Counted, Stuck
  <2> QED BY <2>1, <2>2, <2>4, <2>5, RecordStanding
<1>6. CASE Remove(n)
  <2>1. ~Calm /\ UNCHANGED <<day, gate, head, ans>> BY <1>6 DEF Remove, Calm
  <2>2. "unwritten" \notin day.may => row' = said' BY <1>0, <1>6 DEF Remove
  <2> QED BY <2>1, <2>2 DEF Standing, OneAway, Calm
<1> QED BY <1>2, <1>3, <1>4, <1>5, <1>6 DEF Time, Operate

LEMMA RestStanding ==
  ASSUME TypeOK, TypeOK', Standing, Restart \/ Push \/ ChangeSettings PROVE Standing'
<1>0. gate \in Nat /\ head \in Nat /\ gate' \in Nat BY DEF TypeOK
<1>1. CASE Push
  BY <1>0, <1>1, StaysStanding DEF Push, node, Away, AtWork, Standing
<1>2. CASE ChangeSettings
  BY <1>0, <1>2, StaysStanding DEF ChangeSettings, node, Away, AtWork, Standing
<1>3. CASE Restart
  <2>1. /\ UNCHANGED <<day, head, members, ans, build, unit, up>> /\ row' = said' /\ (Calm => InTime')
        /\ gate' <= head /\ (Calm => gate <= gate')
    BY <1>0, <1>3 DEF Restart, node, Calm, Standing
  <2>2. \A m \in Nodes : (Away(m)' <=> Away(m)) /\ (AtWork(m)' <=> AtWork(m)) BY <2>1 DEF Away, AtWork
  <2>3. \A m \in Nodes : said'[m].build = row[m].build /\ said'[m].told = row[m].told
    BY <1>3 DEF Restart, TypeOK, Rows
  <2>4. Calm => row = said BY DEF Standing, Calm
  <2>5. ASSUME Calm, NEW m \in Nodes
        PROVE  (Away(m) => Counted(m)') /\ (AtWork(m) => said'[m].build = build[m])
    <3>1. said[m].build \in Nat BY DEF TypeOK, Rows
    <3>2. Away(m) => Older(said[m])' /\ TellStands(said[m])' /\ m \in members'
      BY <1>0, <2>1, <2>3, <2>4, <2>5, <3>1 DEF Standing, Counted, Older, TellStands
    <3>3. Away(m) /\ m \in members' => (said'[m].old => Runs(said[m])') BY <2>1, <2>2, <2>5 DEF InTime
    <3>4. AtWork(m) => said'[m].build = build[m] BY <2>3, <2>4, <2>5 DEF Standing
    <3> QED BY <3>2, <3>3, <3>4 DEF Counted
  <2>6. OneAway' BY <2>1, <2>2 DEF Standing, OneAway, Calm
  <2>7. \A m \in Nodes : ans'[m].upgrade => ans'[m].on BY <2>1 DEF Standing
  <2> QED BY <2>1, <2>2, <2>5, <2>6, <2>7 DEF Standing, Calm
<1> QED BY <1>1, <1>2, <1>3

LEMMA TakeFailsStanding ==
  ASSUME Standing, NEW n \in Nodes, TakeFails(n) PROVE Standing'
  BY DEF TakeFails, Standing, OneAway, Calm

LEMMA NextStanding == ASSUME TypeOK, TypeOK', Kept, Standing, [Next]_vars PROVE Standing'
<1>1. CASE UNCHANGED vars
  BY <1>1 DEF vars, gateway, node, Standing, OneAway, Calm, Away, AtWork, Counted, Older, TellStands, Runs
<1> QED BY <1>1, TakeStanding, TakeFailsStanding, NodeStanding, TimeStanding, RestStanding DEF Next, CheckIn

LEMMA InitStanding == Init => Standing
<1> SUFFICES ASSUME Init PROVE Standing OBVIOUS
<1>1. \A n \in Nodes : ~ans[n].upgrade /\ ~unit[n].told BY DEF Init, NoAnswer, NoUnit
<1>2. \A n \in Nodes : ~Away(n) /\ ~AtWork(n) BY <1>1 DEF Away, AtWork
<1>3. gate <= head /\ row = said BY DEF Init
<1> QED BY <1>1, <1>2, <1>3 DEF Standing, OneAway

(* One node is away at a time, and while it is the gateway counts it. *)
THEOREM AlwaysOneAway == Spec => []OneAway
<1>1. Standing => OneAway BY DEF Standing
<1> QED BY <1>1, AlwaysKept, InitStanding, NextStanding, PTL DEF Spec

(* On a calm day a node that is away is one that the gateway counts as
   upgrading, silent or not, restarted or not. *)
THEOREM AlwaysFInv == Spec => []FInv
<1>1. TypeOK /\ Kept /\ Standing => FInv
  BY CountedUpgrading DEF FInv, AwayCounted, Standing, Counted
<1> QED BY <1>1, AlwaysKept, InitStanding, NextStanding, PTL DEF Spec
=============================================================================
