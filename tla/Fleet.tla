------------------------------- MODULE Fleet --------------------------------
(***************************************************************************)
(* The fleet's check-in, and what rides on its answer: the configuration   *)
(* bundle and the tell of the rolling upgrade (gateway/src: fleet.ts,      *)
(* rolling.ts, routes/nodes.ts, routes/upgrade.ts, db/node-config.ts;      *)
(* server/src: check-in.ts, node-config.ts, updater.ts).                   *)
(*                                                                         *)
(* The gateway keeps one row per node and a copy of it in memory; requests *)
(* and answers get lost; rows fail to be written; the gateway restarts; a  *)
(* node's upgrade is a unit that outlives the daemon it replaces.  Time is *)
(* three facts: two intervals of silence, twenty minutes since a tell, and *)
(* the order of the commits, which are numbers.                            *)
(***************************************************************************)
EXTENDS Naturals

CONSTANTS
  Nodes,
  LastBuild,    \* the commits are 0..LastBuild
  LastVersion,  \* the configuration's versions are 1..LastVersion
  Days          \* what may happen, and how often: one of these per behaviour

Events == {"push", "settings", "remove", "hand", "unable", "downgrade", "unwritten", "slow"}

(* A day's bounds: its last commit and version, what operators do by hand to
   nodes and tells, and how often the gateway restarts. *)
AllDays == [may : SUBSET Events, last : 0..LastBuild, versions : 1..LastVersion, hands : Nat, restarts : Nat]

ASSUME FleetAssumption ==
  /\ LastBuild \in Nat /\ LastVersion \in Nat \ {0}
  /\ Days \subseteq AllDays

VARIABLES
  day,      \* what may happen, chosen at the start
  gate,     \* the commit the gateway runs
  head,     \* the commit at the branch's head: what install.sh installs
  version,  \* the configuration version
  members,  \* the nodes that have a row
  said,     \* said[n]: the gateway's memory of n
  row,      \* row[n]: what its database holds of it
  ans,      \* ans[n]: the answer to the check-in of n, on its way
  build,    \* build[n]: the commit the daemon of n runs
  copy,     \* copy[n]: the configuration copy of n, version 0 for none
  unit,     \* unit[n]: its upgrade unit
  up,       \* the nodes whose daemon is not restarting
  able,     \* the nodes that can upgrade themselves
  owed,     \* owed[n]: history - commits n was told on, and not forgiven
  adrift,   \* history - nodes removed and back, without a bundle since
  hands, restarts

gateway == <<gate, head, version, members, said, row>>
node == <<build, copy, unit, up>>
history == <<owed, adrift>>
vars == <<day, gateway, ans, node, able, history, hands, restarts>>

Builds == 0..LastBuild
Versions == 0..LastVersion
Targets == {0, 1}    \* swap targets, in GB

Rows == [build : Builds, running : BOOLEAN, down : BOOLEAN, swap : Targets,
         told : SUBSET Builds, old : BOOLEAN]
Answers == [on : BOOLEAN, upgrade : BOOLEAN, config : Versions, swap : Targets]
Copies == [version : Versions, swap : Targets]
Units == [on : BOOLEAN, to : Builds, built : BOOLEAN, told : BOOLEAN]

NoRow == [build |-> 0, running |-> FALSE, down |-> FALSE, swap |-> 0, told |-> {}, old |-> FALSE]
NoAnswer == [on |-> FALSE, upgrade |-> FALSE, config |-> 0, swap |-> 0]
NoUnit == [on |-> FALSE, to |-> 0, built |-> FALSE, told |-> FALSE]

TypeOK ==
  /\ day \in Days
  /\ gate \in Builds /\ head \in Builds /\ version \in 1..LastVersion
  /\ members \subseteq Nodes
  /\ said \in [Nodes -> Rows] /\ row \in [Nodes -> Rows]
  /\ ans \in [Nodes -> Answers]
  /\ build \in [Nodes -> Builds] /\ copy \in [Nodes -> Copies]
  /\ unit \in [Nodes -> Units] /\ up \subseteq Nodes /\ able \subseteq Nodes
  /\ owed \in [Nodes -> SUBSET Builds] /\ adrift \subseteq Nodes
  /\ hands \in 0..day.hands /\ restarts \in 0..day.restarts

Init ==
  /\ day \in Days
  /\ gate = 0 /\ head = 0 /\ version = 1
  /\ members = {}
  /\ said = [n \in Nodes |-> NoRow] /\ row = said
  /\ ans = [n \in Nodes |-> NoAnswer]
  /\ build = [n \in Nodes |-> 0]
  /\ copy = [n \in Nodes |-> [version |-> 0, swap |-> 0]]
  /\ unit = [n \in Nodes |-> NoUnit]
  /\ up = Nodes
  /\ able \in IF "unable" \in day.may THEN SUBSET Nodes ELSE {Nodes}
  /\ owed = [n \in Nodes |-> {}] /\ adrift = {}
  /\ hands = 0 /\ restarts = 0

-----------------------------------------------------------------------------
(* rolling.ts: what the gateway makes of a node's record.  Older alone is
   behind; a tell stands while the node reports the commit it was told on. *)
Older(s) == s.build < gate
TellStands(s) == s.told = {s.build}
Runs(s) == s.running /\ ~s.down

(* Mutant: only a node that comes back ends its tell. *)
UpgradingUntilBack(s) == Older(s) /\ (TellStands(s) \/ Runs(s))

Upgrading(s) == Older(s) /\ IF TellStands(s) THEN ~s.old \/ Runs(s) ELSE Runs(s)
Stuck(s) == Older(s) /\ TellStands(s) /\ s.old /\ ~Runs(s)
Behind(n, s) == Older(s) /\ ~TellStands(s) /\ ~s.down /\ ~s.running /\ n \in able

(* Mutant: a node that has fallen silent at its upgrade is not waited for. *)
TurnHasty(n, s) == Behind(n, s) /\ \A m \in members \ {n} : ~Upgrading(said[m]) \/ said[m].down

(* One at a time. *)
Turn(n, s) == Behind(n, s) /\ \A m \in members \ {n} : ~Upgrading(said[m])

(* Mutant: a tell ends with the unit it started. *)
ClearedAtEnd(s) == [s EXCEPT !.told = IF TellStands(s) /\ Older(s) /\ (s.running \/ ~s.old) THEN @ ELSE {}, !.old = FALSE]

(* A check-in clears a tell that is fulfilled, or moot. *)
Cleared(s) == [s EXCEPT !.told = IF TellStands(s) /\ Older(s) THEN @ ELSE {},
                        !.old = TellStands(s) /\ Older(s) /\ @]
Told(s) == [s EXCEPT !.told = {s.build}, !.old = FALSE]

-----------------------------------------------------------------------------
(* The check-in, posted once an interval, the answer awaited.  A request that
   is lost is one that was never made. *)
Posts(n) == n \in up /\ ~ans[n].on

(* What the memory of n becomes by what it reports; a new row starts empty. *)
Heard(n) == [(IF n \in members THEN said[n] ELSE NoRow)
               EXCEPT !.build = build[n], !.running = unit[n].on, !.down = FALSE]

(* Mutant: the bundle is for nodes that hold none. *)
AnswerFirst(n, s, upgrade) ==
  [on |-> TRUE, upgrade |-> upgrade, swap |-> s.swap,
   config |-> IF copy[n].version # 0 THEN 0 ELSE version]

(* The answer: the version, the bundle if the node's differs, the tell. *)
Answer(n, s, upgrade) ==
  [on |-> TRUE, upgrade |-> upgrade, swap |-> s.swap,
   config |-> IF copy[n].version = version THEN 0 ELSE version]

(* Mutant: the tell is kept in memory, and goes with it. *)
TakeUnkept(n) ==
  LET c == Cleared(Heard(n))
      turn == Turn(n, c)
      s == IF turn THEN Told(c) ELSE c IN
  /\ Posts(n)
  /\ members' = members \cup {n}
  /\ said' = [said EXCEPT ![n] = s]
  /\ row' = [row EXCEPT ![n] = c]
  /\ ans' = [ans EXCEPT ![n] = Answer(n, s, turn)]
  /\ owed' = [owed EXCEPT ![n] = IF turn THEN @ \cup {s.build} ELSE @]
  /\ UNCHANGED <<day, gate, head, version, node, able, adrift, hands, restarts>>

Forgiven(n, s) == IF s.build >= gate THEN owed[n] \ {s.build} ELSE owed[n]

(* The whole of /checkIn when every write lands: the row, the tell's end, the
   next tell - written before the answer carries it. *)
Take(n) ==
  LET c == Cleared(Heard(n))
      turn == Turn(n, c)
      s == IF turn THEN Told(c) ELSE c IN
  /\ Posts(n)
  /\ members' = members \cup {n}
  /\ said' = [said EXCEPT ![n] = s]
  /\ row' = [row EXCEPT ![n] = s]
  /\ ans' = [ans EXCEPT ![n] = Answer(n, s, turn)]
  /\ owed' = [owed EXCEPT ![n] = IF turn THEN @ \cup {s.build} ELSE Forgiven(n, s)]
  /\ UNCHANGED <<day, gate, head, version, node, able, adrift, hands, restarts>>

(* The row's share is best effort: the check-in is taken in memory. *)
TakeUnwritten(n) ==
  LET c == Cleared(Heard(n))
      turn == Turn(n, c)
      s == IF turn THEN Told(c) ELSE c IN
  /\ "unwritten" \in day.may
  /\ Posts(n) /\ n \in members
  /\ said' = [said EXCEPT ![n] = s]
  /\ row' = [row EXCEPT ![n].told = s.told, ![n].old = s.old]
  /\ ans' = [ans EXCEPT ![n] = Answer(n, s, turn)]
  /\ owed' = [owed EXCEPT ![n] = IF turn THEN @ \cup {s.build} ELSE Forgiven(n, s)]
  /\ UNCHANGED <<day, gate, head, version, members, node, able, adrift, hands, restarts>>

(* The tell's writes are not: one that fails is a 500, and the tell is the
   next check-in's.  By then the row's share may have landed, or the join; a
   join whose insert fails leaves nothing behind. *)
TakeFails(n) ==
  LET h == Heard(n) IN
  /\ "unwritten" \in day.may
  /\ Posts(n)
  /\ \/ n \notin members /\ UNCHANGED <<members, said, row>>
     \/ \E s \in {h, Cleared(h)} :
          /\ s # Cleared(h) \/ Turn(n, s)
          /\ members' = members \cup {n}
          /\ said' = [said EXCEPT ![n] = s]
          /\ \/ row' = [row EXCEPT ![n] = s]
             \/ n \in members /\ row' = [row EXCEPT ![n].told = s.told, ![n].old = s.old]
  /\ UNCHANGED <<day, gate, head, version, ans, node, able, history, hands, restarts>>

(* Ten seconds pass, a connection breaks: the check-in is this tick's failure. *)
Lose(n) ==
  /\ ans[n].on
  /\ ans' = [ans EXCEPT ![n] = NoAnswer]
  /\ UNCHANGED <<day, gateway, node, able, history, hands, restarts>>

-----------------------------------------------------------------------------
(* The node hears: first the bundle, whole, then the tell.  A bundle that
   cannot be applied ends the tick, and takes the tell with it. *)
Apply(n) ==
  /\ ans[n].on
  /\ IF ans[n].config = 0 THEN UNCHANGED <<copy, adrift>>
     ELSE /\ copy' = [copy EXCEPT ![n] = [version |-> ans[n].config, swap |-> ans[n].swap]]
          /\ adrift' = adrift \ ({n} \cap members)
  /\ ans' = [ans EXCEPT ![n] = NoAnswer]
  /\ UNCHANGED <<day, gateway, build, up, able, owed, hands, restarts>>

(* The unit's name is the mutex, and its installer is the head's. *)
Started(n, told) == [on |-> TRUE, to |-> head, built |-> FALSE, told |-> told]

Hear(n) ==
  /\ Apply(n)
  /\ unit' = IF ans[n].upgrade /\ ~unit[n].on THEN [unit EXCEPT ![n] = Started(n, TRUE)] ELSE unit

(* A launch that fails is a warning: the tell is not said again. *)
HearUnlaunched(n) ==
  /\ ans[n].upgrade
  /\ Apply(n)
  /\ UNCHANGED unit

HearUnapplied(n) ==
  /\ ans[n].on /\ ans[n].config # 0
  /\ ans' = [ans EXCEPT ![n] = NoAnswer]
  /\ UNCHANGED <<day, gateway, node, able, history, hands, restarts>>

(* install.sh: builds, and restarts the daemon near its end ... *)
Replace(n) ==
  /\ unit[n].on /\ ~unit[n].built
  /\ build' = [build EXCEPT ![n] = unit[n].to]
  /\ unit' = [unit EXCEPT ![n].built = TRUE]
  /\ up' = up \ {n}
  /\ ans' = [ans EXCEPT ![n] = NoAnswer]
  /\ UNCHANGED <<day, gateway, copy, able, history, hands, restarts>>

Boot(n) ==
  /\ n \notin up
  /\ up' = up \cup {n}
  /\ UNCHANGED <<day, gateway, ans, build, copy, unit, able, history, hands, restarts>>

(* ... and runs on for a while after that; or it fails, and rolls back. *)
UnitEnds(n) ==
  /\ unit[n].on
  /\ unit' = [unit EXCEPT ![n].on = FALSE]
  /\ UNCHANGED <<day, gateway, ans, build, copy, up, able, history, hands, restarts>>

(* An operator runs install.sh on the node. *)
HandUpgrade(n) ==
  /\ "hand" \in day.may /\ hands < day.hands
  /\ ~unit[n].on
  /\ unit' = [unit EXCEPT ![n] = Started(n, FALSE)]
  /\ hands' = hands + 1
  /\ UNCHANGED <<day, gateway, ans, build, copy, up, able, history, restarts>>

-----------------------------------------------------------------------------
(* A node at what it was told to do: the tell on its way to it, the unit it
   started not done, the daemon it restarts not back. *)
Away(n) ==
  \/ ans[n].upgrade
  \/ unit[n].told /\ ((unit[n].on /\ ~unit[n].built) \/ n \notin up)

(* The twenty minutes are enough: past them, a node still away says that its
   unit is running. *)
InTime == \A n \in members : Away(n) /\ said[n].old => Runs(said[n])

(* Two intervals without a check-in, by the gateway's clock. *)
FallSilent(n) ==
  /\ n \in members /\ ~said[n].down
  /\ said' = [said EXCEPT ![n].down = TRUE]
  /\ row' = [row EXCEPT ![n].down = TRUE]
  /\ UNCHANGED <<day, gate, head, version, members, ans, node, able, history, hands, restarts>>
  /\ "slow" \in day.may \/ InTime'

(* Twenty minutes since the tell. *)
TellAges(n) ==
  /\ n \in members /\ said[n].told # {} /\ ~said[n].old
  /\ said' = [said EXCEPT ![n].old = TRUE]
  /\ row' = [row EXCEPT ![n].old = TRUE]
  /\ UNCHANGED <<day, gate, head, version, members, ans, node, able, history, hands, restarts>>
  /\ "slow" \in day.may \/ InTime'

(* The gateway's process ends and begins: what the rows hold is what it
   knows.  Its own upgrade is one such restart. *)
Restart ==
  /\ restarts < day.restarts
  /\ restarts' = restarts + 1
  /\ gate' \in IF "downgrade" \in day.may THEN 0..head ELSE {gate, head}
  /\ \E late \in SUBSET members :
       row' = [n \in Nodes |-> [row[n] EXCEPT !.down = @ \/ n \in late]]
  /\ said' = row'
  /\ UNCHANGED <<day, head, version, members, ans, node, able, history, hands>>
  /\ "slow" \in day.may \/ InTime'

Push ==
  /\ "push" \in day.may /\ head < day.last
  /\ head' = head + 1
  /\ UNCHANGED <<day, gate, version, members, said, row, ans, node, able, history, hands, restarts>>

(* updateSettings, templates: every change counts the version up. *)
ChangeSettings ==
  /\ "settings" \in day.may /\ version < day.versions
  /\ version' = version + 1
  /\ UNCHANGED <<day, gate, head, members, said, row, ans, node, able, history, hands, restarts>>

(* Mutant: the target is stored, the version is not counted up. *)
ChangeSwapQuietly(n, gb) ==
  /\ "settings" \in day.may /\ n \in members
  /\ said' = [said EXCEPT ![n].swap = gb]
  /\ row' = [row EXCEPT ![n].swap = gb]
  /\ UNCHANGED <<day, gate, head, version, members, ans, node, able, history, hands, restarts>>

(* updateNodeSettings: the row and the version in one transaction. *)
ChangeSwap(n, gb) ==
  /\ "settings" \in day.may /\ version < day.versions
  /\ n \in members
  /\ said' = [said EXCEPT ![n].swap = gb]
  /\ row' = [row EXCEPT ![n].swap = gb]
  /\ version' = version + 1
  /\ UNCHANGED <<day, gate, head, members, ans, node, able, history, hands, restarts>>

(* removeNode, of a silent one; it adds itself again if it lives. *)
Remove(n) ==
  /\ "remove" \in day.may /\ hands < day.hands
  /\ n \in members /\ said[n].down
  /\ members' = members \ {n}
  /\ said' = [said EXCEPT ![n] = NoRow]
  /\ row' = [row EXCEPT ![n] = NoRow]
  /\ adrift' = adrift \cup {n}
  /\ owed' = [owed EXCEPT ![n] = {}]
  /\ hands' = hands + 1
  /\ UNCHANGED <<day, gate, head, version, ans, node, able, restarts>>

(* applyUpgrade {nodeId}: a stuck node goes back in line. *)
Unstick(n) ==
  /\ hands < day.hands
  /\ n \in members /\ Stuck(said[n])
  /\ said' = [said EXCEPT ![n].told = {}, ![n].old = FALSE]
  /\ row' = [row EXCEPT ![n].told = {}, ![n].old = FALSE]
  /\ owed' = [owed EXCEPT ![n] = @ \ {said[n].build}]
  /\ hands' = hands + 1
  /\ UNCHANGED <<day, gate, head, version, members, ans, node, able, adrift, restarts>>

-----------------------------------------------------------------------------
CheckIn(n) == Take(n) \/ TakeUnwritten(n) \/ TakeFails(n) \/ Lose(n)
Serve(n) == Hear(n) \/ HearUnlaunched(n) \/ HearUnapplied(n)
Unit(n) == Replace(n) \/ Boot(n) \/ UnitEnds(n) \/ HandUpgrade(n)
Time(n) == FallSilent(n) \/ TellAges(n)
Operate(n) == (\E gb \in Targets : ChangeSwap(n, gb)) \/ Remove(n) \/ Unstick(n)

Next ==
  \/ \E n \in Nodes : CheckIn(n) \/ Serve(n) \/ Unit(n) \/ Time(n) \/ Operate(n)
  \/ Restart \/ Push \/ ChangeSettings

Spec == Init /\ [][Next]_vars

(* A node posts again and again (check-in.ts schedule), units end, time goes
   on; and of the check-ins of a node one in the end gets through, and of its
   answers one is heard and applied. *)
Fairness ==
  \A n \in Nodes :
    /\ SF_vars(Take(n)) /\ SF_vars(Hear(n))
    /\ WF_vars(UnitEnds(n)) /\ WF_vars(Boot(n)) /\ WF_vars(TellAges(n))

FairSpec == Spec /\ Fairness

-----------------------------------------------------------------------------
(* What a restarted gateway must not have lost: tells, targets, rows. *)
Kept ==
  \A n \in Nodes :
    /\ row[n].told = said[n].told /\ row[n].old = said[n].old /\ row[n].swap = said[n].swap
    /\ n \notin members => said[n] = NoRow /\ row[n] = NoRow

(* On such a day a node that is away is one the gateway counts as upgrading,
   silent or not, restarted or not. *)
Calm == day.may \cap {"downgrade", "unwritten", "slow", "remove"} = {}

AwayCounted == Calm => \A n \in Nodes : Away(n) => n \in members /\ Upgrading(said[n])

FInv == TypeOK /\ Kept /\ AwayCounted

(* One node away at a time (rolling.ts 17-20, 33-36), as long as the gateway's
   machine is not put back to an older build, rows are written, nodes are not
   removed at work, and the twenty minutes are enough. *)
OneAway ==
  Calm => \A m, n \in Nodes : Away(m) /\ Away(n) => m = n

(* Told once (rolling.ts 22-27): on one commit a node is told a second time
   only if an operator asked for it, or the gateway had gone back. *)
ToldOnce ==
  [][\A n \in Nodes : ~ans[n].upgrade /\ ans'[n].upgrade => build[n] \notin owed[n]]_vars

(* The version says all: a node that runs the current one has the swap target
   its row has (nodes.ts 41-44) - unless it was removed and came back. *)
TargetHeld ==
  \A n \in members \ adrift : copy[n].version = version => copy[n].swap = said[n].swap

(* Every node comes to run the last configuration. *)
Converges == \A n \in Nodes : <>[](n \in members => copy[n].version = version)

(* The roll comes to an end: no node waits for its turn for ever. *)
RollEnds == \A n \in Nodes : <>[](n \in members => ~Upgrading(said[n]) /\ ~Behind(n, said[n]))
=============================================================================
