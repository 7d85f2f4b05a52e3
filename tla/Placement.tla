----------------------------- MODULE Placement ------------------------------
(***************************************************************************)
(* Where one name lives, as the gateway decides it (gateway/src: find.ts,  *)
(* cache.ts, placement.ts, forward.ts, routes/create.ts, destroy.ts,       *)
(* native.ts, e2b.ts, and the fleet's membership).                         *)
(*                                                                         *)
(* The gateway keeps no record of names but a cache: to create, it asks    *)
(* every node whether it holds the name, and places the name on some node  *)
(* only if all of them said no.  Questions, creates and destroys travel;   *)
(* nodes are silent, crash, expire sandboxes by themselves; callers leave. *)
(* Only creates and destroys take the name's slot, and a slot is given up  *)
(* the moment its caller leaves, whatever became of the call it sent.      *)
(***************************************************************************)
EXTENDS Naturals, FiniteSets

CONSTANTS
  Nodes, Clients,
  Ids,       \* the ids sandboxes may be born under: a bound on births
  Nowhere,   \* where a sandbox lives that does not
  Free,      \* holder of a slot nobody holds
  OpSets,    \* what callers may ask for, of which one run sees one set
  Room,      \* how many sandboxes a reading leaves room for
  MaxRestarts,
  Overtaken, \* may a question overtake a create given up on while on the wire?
  Returns    \* may a node an operator removed come back with its sandboxes?

ASSUME PlacementAssumption ==
  /\ Nowhere \notin Nodes
  /\ Free \notin Clients /\ Clients \cap Ids = {}
  /\ IsFiniteSet(Clients) /\ IsFiniteSet(Ids)
  /\ OpSets \subseteq SUBSET {"acquire", "spawn", "destroy", "kill", "use"}
  /\ Room \in Nat /\ MaxRestarts \in Nat
  /\ Overtaken \in BOOLEAN /\ Returns \in BOOLEAN

VARIABLES
  members,   \* the fleet as the gateway knows it
  shut,      \* members whose last check-in reported no configuration copy
  home,      \* home[i]: the node sandbox i lives on
  named,     \* the ids born under the name
  dead,      \* the ids that lived and do not
  cache,     \* the name's cache entry, if there is one: a set
  slot,      \* who holds the name's slot at the gateway
  pc, op, goal, look, call,  \* of each client's handler
  placed,    \* placed[n]: placedSinceCheckIn
  placedIds, \* placedIds[n]: the placed ones whose create answered with an id
  standing,  \* standing[n]: history - placements n's reading does not show that stand
  slack,     \* slack[n]: history - how many of them, or of answers due, are from before it
  ops,       \* what callers ask for: one of OpSets, from the start
  restarts

view == <<members, shut>>
world == <<home, named, dead, ops>>
counts == <<placed, placedIds, standing, slack>>
handler == <<slot, pc, op, goal, look, call>>
vars == <<view, world, cache, handler, counts, restarts>>

Entries == [id : Ids, node : Nodes]

(* A round of questions: whom it still waits for, who said yes, whether
   somebody stayed silent - and, a history, which of the sandboxes asked for
   were alive on a member when it began and have been ever since. *)
Rounds == [asked : SUBSET Nodes, yes : SUBSET (Ids \X Nodes), mute : BOOLEAN, there : SUBSET Ids]
NoRound == [asked |-> {}, yes |-> {}, mute |-> FALSE, there |-> {}]

(* A create or destroy on its way to a node, at work there, or answered. *)
Stages == {"none", "sent", "landed", "yes", "no"}
Calls == [verb : {"create", "spawn", "destroy", "kill"}, to : Nodes \cup {Nowhere},
          id : SUBSET Ids, placed : BOOLEAN, stage : Stages]
NoCall == [verb |-> "kill", to |-> Nowhere, id |-> {}, placed |-> FALSE, stage |-> "none"]

Bound(n) == {i \in named : home[i] = n}
Alive == {i \in named : home[i] # Nowhere}
Unborn == {i \in Ids : home[i] = Nowhere /\ i \notin dead}

(* Creates of the name that may still build on n. *)
Coming(n) == {c \in Clients : call[c].verb = "create" /\ call[c].to = n
                              /\ call[c].stage \in {"sent", "landed"}}

TypeOK ==
  /\ members \subseteq Nodes /\ shut \subseteq Nodes
  /\ home \in [Ids -> Nodes \cup {Nowhere}]
  /\ named \subseteq Ids /\ dead \subseteq Ids
  /\ cache \subseteq Entries
  /\ slot \in Clients \cup {Free}
  /\ pc \in [Clients -> {"idle", "line", "seek", "confirm", "ask", "await", "verify"}]
  /\ op \in [Clients -> {"acquire", "spawn", "destroy", "kill", "use"}]
  /\ goal \in [Clients -> SUBSET Entries]
  /\ look \in [Clients -> Rounds]
  /\ call \in [Clients -> Calls]
  /\ placed \in [Nodes -> Nat]
  /\ placedIds \in [Nodes -> SUBSET Ids]
  /\ standing \in [Nodes -> SUBSET (Clients \cup Ids)]
  /\ slack \in [Nodes -> Nat]
  /\ ops \in OpSets
  /\ restarts \in 0..MaxRestarts

Init ==
  /\ members \in SUBSET Nodes /\ shut = {}
  /\ home = [i \in Ids |-> Nowhere] /\ named = {} /\ dead = {}
  /\ cache = {} /\ slot = Free
  /\ pc = [c \in Clients |-> "idle"]
  /\ op = [c \in Clients |-> "use"]
  /\ goal = [c \in Clients |-> {}]
  /\ look = [c \in Clients |-> NoRound]
  /\ call = [c \in Clients |-> NoCall]
  /\ placed = [n \in Nodes |-> 0]
  /\ placedIds = [n \in Nodes |-> {}]
  /\ standing = [n \in Nodes |-> {}]
  /\ slack = [n \in Nodes |-> 0]
  /\ ops \in OpSets
  /\ restarts = 0

-----------------------------------------------------------------------------
(* Parts of the handlers. *)

(* The handler ends: its slot, if it holds one, goes to the next in line. *)
Done(c) ==
  /\ pc' = [pc EXCEPT ![c] = "idle"]
  /\ op' = [op EXCEPT ![c] = "use"]
  /\ goal' = [goal EXCEPT ![c] = {}]
  /\ look' = [look EXCEPT ![c] = NoRound]
  /\ slot' = IF slot = c THEN Free ELSE slot

(* It sends its one call and waits for the whole answer, slot in hand.  A node
   removed meanwhile is not there to receive it, or has its port shut. *)
Send(c, o, verb, e) ==
  /\ pc' = [pc EXCEPT ![c] = "await"]
  /\ op' = [op EXCEPT ![c] = o]
  /\ goal' = [goal EXCEPT ![c] = {e}]
  /\ look' = [look EXCEPT ![c] = NoRound]
  /\ call' = [call EXCEPT ![c] = IF Returns \/ e.node \in members \ shut
       THEN [verb |-> verb, to |-> e.node, id |-> {e.id}, placed |-> FALSE, stage |-> "sent"]
       ELSE NoCall]

Go(c, o, where, e) ==
  /\ pc' = [pc EXCEPT ![c] = where]
  /\ op' = [op EXCEPT ![c] = o]
  /\ goal' = [goal EXCEPT ![c] = e]
  /\ look' = [look EXCEPT ![c] = NoRound]

(* Every member is asked at once; one that waits for its first configuration
   has its port shut, and its last reading answers: no, if it holds nothing. *)
AskAll(c, o) ==
  /\ pc' = [pc EXCEPT ![c] = "ask"]
  /\ op' = [op EXCEPT ![c] = o]
  /\ goal' = [goal EXCEPT ![c] = {}]
  /\ look' = [look EXCEPT ![c] =
       [asked |-> members \ shut, yes |-> {},
        mute |-> \E n \in shut : \E i \in Ids : home[i] = n,
        there |-> {i \in named : home[i] \in members}]]

(* The sandbox is found, e says where: what each verb does next. *)
Reach(c, o, e) ==
  \/ o = "acquire" /\ Send(c, o, "create", e) /\ UNCHANGED slot
  \/ o = "destroy" /\ Send(c, o, "destroy", e) /\ UNCHANGED slot
  \/ o = "use" /\ Go(c, o, "verify", {e}) /\ UNCHANGED <<slot, call>>

ReachOrGone(c, o, e) ==
  \/ Reach(c, o, e)
  \/ Done(c) /\ UNCHANGED call

(* The cache is asked first; an entry of a node no longer a member goes. *)
Hits == {x \in cache : x.node \in members}

Find(c, o) ==
  \/ \E x \in Hits :
       /\ \/ o = "acquire" /\ Go(c, o, "confirm", {x}) /\ UNCHANGED call
          \/ o = "destroy" /\ Send(c, o, "destroy", x)
          \/ o = "use" /\ Go(c, o, "verify", {x}) /\ UNCHANGED call
       /\ UNCHANGED cache
  \/ /\ Hits = {}
     /\ cache' = {}
     /\ AskAll(c, o)
     /\ UNCHANGED call

(* placement.ts pick: open for business and with room left.  Which of them is
   up, and the least loaded, the readings say. *)
Fit == {n \in members \ shut : placed[n] < Room}

(* A new sandbox is counted against its node before anything is sent. *)
Place(c, o, verb, n) ==
  /\ n \in Fit
  /\ placed' = [placed EXCEPT ![n] = @ + 1]
  /\ standing' = [standing EXCEPT ![n] = @ \cup {c}]
  /\ pc' = [pc EXCEPT ![c] = "await"]
  /\ op' = [op EXCEPT ![c] = o]
  /\ look' = [look EXCEPT ![c] = NoRound]
  /\ call' = [call EXCEPT ![c] = [verb |-> verb, to |-> n, id |-> {}, placed |-> TRUE, stage |-> "sent"]]
  /\ UNCHANGED <<goal, placedIds, slack>>

-----------------------------------------------------------------------------
(* Callers come. *)

Idle(c) == pc[c] = "idle" /\ call[c] = NoCall

Queue(c, o) ==
  /\ Idle(c) /\ o \in ops
  /\ Go(c, o, "line", {})
  /\ UNCHANGED <<view, world, cache, slot, call, counts, restarts>>

Use(c) ==
  /\ Idle(c) /\ "use" \in ops
  /\ Find(c, "use")
  /\ UNCHANGED <<view, world, slot, counts, restarts>>

(* Where the sandbox with id i is, is known.  The kill of a named one queues
   in the name's slot. *)
Found(c, i, n) ==
  IF i \in named THEN Go(c, "kill", "line", {[id |-> i, node |-> n]}) /\ UNCHANGED call
                 ELSE Send(c, "kill", "kill", [id |-> i, node |-> n])

(* By id the cache is asked, then every node.  One answer matters, that of the
   node the sandbox was born on; when the round ends, it may be of the past. *)
Kill(c, i) ==
  LET hit == {x \in Hits : x.id = i} IN
  /\ Idle(c) /\ "kill" \in ops
  /\ i \notin Unborn
  /\ \/ \E x \in hit : Found(c, i, x.node)
     \/ /\ hit = {}
        /\ home[i] \in members \ shut
        /\ Go(c, "kill", "seek", {[id |-> i, node |-> home[i]]})
        /\ UNCHANGED call
  /\ UNCHANGED <<view, world, cache, slot, counts, restarts>>

JudgeKill(c) ==
  /\ pc[c] = "seek"
  /\ \E e \in goal[c] :
       /\ cache' = IF e.id \in named THEN {e} ELSE cache
       /\ Found(c, e.id, e.node)
  /\ UNCHANGED <<view, world, slot, counts, restarts>>

(* An unnamed E2B create: no name to ask about, no slot. *)
Spawn(c, n) ==
  /\ Idle(c) /\ "spawn" \in ops
  /\ Place(c, "spawn", "spawn", n)
  /\ UNCHANGED <<view, world, cache, slot, restarts>>

(* The slot, in line; a caller gone by then asks and sends nothing. *)
Turn(c) ==
  /\ pc[c] = "line" /\ slot = Free
  /\ slot' = c
  /\ IF op[c] = "kill"
     THEN \E e \in goal[c] : Send(c, "kill", "kill", e) /\ UNCHANGED cache
     ELSE Find(c, op[c])
  /\ UNCHANGED <<view, world, counts, restarts>>

LeaveLine(c) ==
  /\ pc[c] = "line"
  /\ Done(c)
  /\ UNCHANGED <<view, world, cache, call, counts, restarts>>

(* Mutant: a node that looks in its ledger alone. *)
SaysNoAtOnce(n) == Bound(n) = {}

-----------------------------------------------------------------------------
(* Questions.  By name a node looks in the name's slot: it says no only when
   no create that reached it is under way. *)
Building(n) == \E d \in Clients : call[d].verb = "create" /\ call[d].to = n /\ call[d].stage = "landed"

SaysNo(n) == Bound(n) = {} /\ ~Building(n)

(* One member less to wait for: what it said, or that it said nothing. *)
Hear(l, n, yes, mute) == [l EXCEPT !.asked = @ \ {n}, !.yes = @ \cup yes, !.mute = @ \/ mute]

AnswerYes(c, n) ==
  /\ pc[c] = "ask" /\ n \in look[c].asked
  /\ Bound(n) # {}
  /\ look' = [look EXCEPT ![c] = Hear(look[c], n, {<<i, n>> : i \in Bound(n)}, FALSE)]
  /\ UNCHANGED <<view, world, cache, slot, pc, op, goal, call, counts, restarts>>

(* Mutant: silence taken for a no. *)
NoAnswerIsNo(c, n) ==
  /\ pc[c] = "ask" /\ n \in look[c].asked
  /\ look' = [look EXCEPT ![c] = Hear(look[c], n, {}, FALSE)]
  /\ UNCHANGED <<view, world, cache, slot, pc, op, goal, call, counts, restarts>>

AnswerNo(c, n) ==
  /\ pc[c] = "ask" /\ n \in look[c].asked
  /\ SaysNo(n)
  /\ look' = [look EXCEPT ![c] = Hear(look[c], n, {}, FALSE)]
  /\ UNCHANGED <<view, world, cache, slot, pc, op, goal, call, counts, restarts>>

NoAnswer(c, n) ==
  /\ pc[c] = "ask" /\ n \in look[c].asked
  /\ look' = [look EXCEPT ![c] = Hear(look[c], n, {}, TRUE)]
  /\ UNCHANGED <<view, world, cache, slot, pc, op, goal, call, counts, restarts>>

(* The cached node is asked by id before a create trusts the entry. *)
Confirm(c) ==
  /\ pc[c] = "confirm"
  /\ \E e \in goal[c] :
       \/ /\ home[e.id] = e.node /\ e.node \notin shut
          /\ ReachOrGone(c, "acquire", e)
          /\ UNCHANGED cache
       \/ /\ e.node \in shut => \E i \in Ids : home[i] = e.node
          /\ Done(c) /\ UNCHANGED <<cache, call>>
       \/ /\ home[e.id] # e.node
          /\ e.node \in shut => \A i \in Ids : home[i] # e.node
          /\ cache' = {x \in cache : x.id # e.id}
          /\ AskAll(c, "acquire")
          /\ UNCHANGED <<slot, call>>
  /\ UNCHANGED <<view, world, counts, restarts>>

Answered(c) == pc[c] = "ask" /\ look[c].asked = {}

(* Exactly one yes: cached, and gone on with - unless the caller has left. *)
JudgeOne(c) ==
  /\ Answered(c)
  /\ \E i \in Ids, n \in Nodes : LET e == [id |-> i, node |-> n] IN
       /\ look[c].yes = {<<i, n>>}
       /\ cache' = {e}
       /\ ReachOrGone(c, op[c], e)
  /\ UNCHANGED <<view, world, counts, restarts>>

(* Two said yes (409), or none did and somebody said nothing (503). *)
Refuse(c) ==
  /\ Answered(c)
  /\ \/ Cardinality(look[c].yes) > 1
     \/ look[c].yes = {} /\ look[c].mute
  /\ Done(c)
  /\ UNCHANGED <<view, world, cache, call, counts, restarts>>

(* Everybody said no: a create places the name, if some node is fit and the
   caller still there; the others answer that there is no such sandbox. *)
Nobody(c) == Answered(c) /\ look[c].yes = {} /\ ~look[c].mute

JudgeNone(c) ==
  /\ Nobody(c)
  /\ \/ /\ op[c] = "acquire"
        /\ \E n \in Nodes : Place(c, "acquire", "create", n)
        /\ UNCHANGED slot
     \/ Done(c) /\ UNCHANGED <<call, counts>>
  /\ UNCHANGED <<view, world, cache, restarts>>

(* Mutant: the check evicts whatever the name's entry is by then. *)
VerifyAny(c) ==
  /\ pc[c] = "verify"
  /\ \E e \in goal[c] : cache' = IF home[e.id] # e.node THEN {} ELSE cache
  /\ Done(c)
  /\ UNCHANGED <<view, world, call, counts, restarts>>

(* A named verb's 404: the entry it went by is checked and, if stale, goes. *)
Verify(c) ==
  /\ pc[c] = "verify"
  /\ \E e \in goal[c] :
       cache' = IF (home[e.id] # e.node \/ e.node \notin members) THEN {x \in cache : x.id # e.id} ELSE cache
  /\ Done(c)
  /\ UNCHANGED <<view, world, call, counts, restarts>>

Relayed(c) ==
  /\ pc[c] = "verify"
  /\ Done(c)
  /\ UNCHANGED <<view, world, cache, call, counts, restarts>>

-----------------------------------------------------------------------------
(* Calls.  What a node does with one nobody waits for is done all the same. *)

Land(c) ==
  /\ call[c].stage = "sent"
  /\ call' = [call EXCEPT ![c].stage = "landed"]
  /\ UNCHANGED <<view, world, cache, slot, pc, op, goal, look, counts, restarts>>

(* Refused at the socket, or the node dies over it. *)
LoseCall(c) ==
  /\ call[c].stage \in {"sent", "landed"}
  /\ call' = [call EXCEPT ![c] = NoCall]
  /\ standing' = [n \in Nodes |-> standing[n] \ {c}]
  /\ UNCHANGED <<view, world, cache, slot, pc, op, goal, look, placed, placedIds, slack, restarts>>

Finish(c, stage, ids) ==
  call' = [call EXCEPT ![c] = IF pc[c] = "await" THEN [@ EXCEPT !.stage = stage, !.id = ids] ELSE NoCall]

At(c, verbs) == call[c].stage = "landed" /\ call[c].verb \in verbs

(* acquire on the node: what the name already has there is woken. *)
WakeThere(c) ==
  /\ At(c, {"create"})
  /\ Bound(call[c].to) # {}
  /\ Finish(c, "yes", Bound(call[c].to))
  /\ standing' = [n \in Nodes |-> standing[n] \ {c}]
  /\ UNCHANGED <<view, world, cache, slot, pc, op, goal, look, placed, placedIds, slack, restarts>>

(* Anything else is built, asked for by a placement or not. *)
BuildThere(c) ==
  /\ At(c, {"create", "spawn"})
  /\ call[c].verb = "create" => Bound(call[c].to) = {}
  /\ \E i \in Unborn :
       /\ home' = [home EXCEPT ![i] = call[c].to]
       /\ named' = IF call[c].verb = "create" THEN named \cup {i} ELSE named
       /\ standing' = [n \in Nodes |-> IF c \in standing[n] THEN (standing[n] \ {c}) \cup {i} ELSE standing[n]]
       /\ Finish(c, "yes", {i})
  /\ UNCHANGED <<view, dead, ops, cache, slot, pc, op, goal, look, placed, placedIds, slack, restarts>>

(* A 4xx, or a 500 of the node's own: nothing was built, nothing destroyed. *)
FailThere(c) ==
  /\ call[c].stage = "landed"
  /\ Finish(c, "no", call[c].id)
  /\ standing' = [n \in Nodes |-> standing[n] \ {c}]
  /\ UNCHANGED <<view, world, cache, slot, pc, op, goal, look, placed, placedIds, slack, restarts>>

(* The sandboxes of gone are no more, whoever ended them. *)
Bury(gone) ==
  /\ home' = [i \in Ids |-> IF i \in gone THEN Nowhere ELSE home[i]]
  /\ dead' = dead \cup gone
  /\ UNCHANGED <<named, ops>>

Unseen(gone) == [c \in Clients |-> [look[c] EXCEPT !.there = @ \ gone]]

(* A destroy goes by the name, whatever id bears it; a kill by its id. *)
DestroyThere(c) ==
  LET gone == IF call[c].verb = "destroy" THEN Bound(call[c].to)
              ELSE {i \in call[c].id : home[i] = call[c].to} IN
  /\ At(c, {"destroy", "kill"})
  /\ call[c].verb = "kill" => gone # {}
  /\ Bury(gone)
  /\ look' = Unseen(gone)
  /\ standing' = [n \in Nodes |-> standing[n] \ gone]
  /\ Finish(c, "yes", call[c].id)
  /\ UNCHANGED <<view, cache, slot, pc, op, goal, placed, placedIds, slack, restarts>>

(* The node ends a sandbox by itself: an E2B deadline. *)
Expire(i) ==
  /\ home[i] # Nowhere
  /\ Bury({i})
  /\ look' = Unseen({i})
  /\ standing' = [n \in Nodes |-> standing[n] \ {i}]
  /\ UNCHANGED <<view, cache, slot, pc, op, goal, call, placed, placedIds, slack, restarts>>

-----------------------------------------------------------------------------
(* Answers. *)

(* Mutant: a failed wake pays back a placement that never was. *)
LearnCreateAny(c) ==
  /\ pc[c] = "await" /\ call[c].verb \in {"create", "spawn"}
  /\ \/ /\ call[c].stage = "yes"
        /\ cache' = IF call[c].verb = "create" THEN {[id |-> i, node |-> call[c].to] : i \in call[c].id} ELSE cache
        /\ placedIds' = IF call[c].placed THEN [placedIds EXCEPT ![call[c].to] = @ \cup call[c].id] ELSE placedIds
        /\ UNCHANGED placed
     \/ /\ call[c].stage = "no"
        /\ placed' = [placed EXCEPT ![call[c].to] = IF @ = 0 THEN 0 ELSE @ - 1]
        /\ UNCHANGED <<cache, placedIds>>
  /\ Done(c)
  /\ call' = [call EXCEPT ![c] = NoCall]
  /\ UNCHANGED <<view, world, standing, slack, restarts>>

(* A create's yes is cached and, if placed, its id kept for a destroy; a no
   takes the placement off the count. *)
LearnCreate(c) ==
  /\ pc[c] = "await" /\ call[c].verb \in {"create", "spawn"}
  /\ \/ /\ call[c].stage = "yes"
        /\ cache' = IF call[c].verb = "create" THEN {[id |-> i, node |-> call[c].to] : i \in call[c].id} ELSE cache
        /\ placedIds' = IF call[c].placed THEN [placedIds EXCEPT ![call[c].to] = @ \cup call[c].id] ELSE placedIds
        /\ UNCHANGED placed
     \/ /\ call[c].stage = "no"
        /\ placed' = IF call[c].placed THEN [placed EXCEPT ![call[c].to] = IF @ = 0 THEN 0 ELSE @ - 1] ELSE placed
        /\ UNCHANGED <<cache, placedIds>>
  /\ Done(c)
  /\ call' = [call EXCEPT ![c] = NoCall]
  /\ UNCHANGED <<view, world, standing, slack, restarts>>

(* A destroy's yes forgets the entry, and uncounts what was placed since the
   reading; nothing else teaches anything. *)
LearnDestroy(c) ==
  /\ pc[c] = "await" /\ call[c].verb \in {"destroy", "kill"}
  /\ \/ /\ call[c].stage = "yes"
        /\ cache' = {x \in cache : x.id \notin call[c].id}
        /\ IF call[c].id \cap placedIds[call[c].to] = {} THEN UNCHANGED <<placed, placedIds>>
           ELSE /\ placedIds' = [placedIds EXCEPT ![call[c].to] = @ \ call[c].id]
                /\ placed' = [placed EXCEPT ![call[c].to] = IF @ = 0 THEN 0 ELSE @ - 1]
     \/ /\ call[c].stage = "no"
        /\ UNCHANGED <<cache, placed, placedIds>>
  /\ Done(c)
  /\ call' = [call EXCEPT ![c] = NoCall]
  /\ UNCHANGED <<view, world, standing, slack, restarts>>

(* A call nobody waits for: on the wire it reaches the node before any later
   question does, unless questions may overtake it. *)
Abandon(d) ==
  CASE d.stage = "sent" /\ ~Overtaken -> [d EXCEPT !.stage = "landed"]
    [] d.stage \in {"yes", "no"} -> NoCall
    [] OTHER -> d

(* The caller leaves, or the connection breaks: the slot goes, the call not. *)
GiveUp(c) ==
  /\ pc[c] = "await"
  /\ Done(c)
  /\ call' = [call EXCEPT ![c] = Abandon(@)]
  /\ UNCHANGED <<view, world, cache, counts, restarts>>

-----------------------------------------------------------------------------
(* The fleet. *)

Reset(n) ==
  /\ placed' = [placed EXCEPT ![n] = 0]
  /\ placedIds' = [placedIds EXCEPT ![n] = {}]
  /\ standing' = [standing EXCEPT ![n] = {}]
  /\ slack' = [slack EXCEPT ![n] = 0]

(* A check-in brings a new reading, and the counts start over: with creates
   under way that neither shows, and answers due of some it does.  A node that
   waits for its first configuration may have to wait on. *)
Underway(n) == {c \in Clients : call[c].placed /\ call[c].to = n}

Due(n) == {c \in Underway(n) : call[c].stage # "yes"}
          \cup UNION {call[c].id : c \in {d \in Underway(n) : call[d].stage = "yes"}}

CheckIn(n) ==
  /\ n \in members
  /\ shut' \in {shut, shut \ {n}}
  /\ placed' = [placed EXCEPT ![n] = 0]
  /\ placedIds' = [placedIds EXCEPT ![n] = {}]
  /\ standing' = [standing EXCEPT ![n] = {c \in Underway(n) : call[c].stage \in {"sent", "landed"}}]
  /\ slack' = [slack EXCEPT ![n] = Cardinality(Due(n))]
  /\ UNCHANGED <<members, world, cache, handler, restarts>>

(* A node nobody knew, or one that was removed: a new one has yet to hear its
   configuration. *)
Join(n) ==
  /\ n \notin members
  /\ members' = members \cup {n}
  /\ shut' \in {shut, shut \cup {n}}
  /\ Reset(n)
  /\ UNCHANGED <<world, cache, handler, restarts>>

(* Mutant: a removed node's entry stays, and so does what is on its way there. *)
RemoveForgetful(n) ==
  /\ n \in members
  /\ members' = members \ {n} /\ shut' = shut \ {n}
  /\ Bury({i \in Ids : home[i] = n})
  /\ look' = [c \in Clients |-> [look[c] EXCEPT !.there = {i \in @ : home[i] # n}]]
  /\ Reset(n)
  /\ UNCHANGED <<cache, slot, pc, op, goal, call, restarts>>

(* removeNode, of a node silent for two intervals: the operator says that it
   is gone for good. *)
Remove(n) ==
  LET gone == IF Returns THEN {} ELSE {i \in Ids : home[i] = n} IN
  /\ n \in members
  /\ members' = members \ {n} /\ shut' = shut \ {n}
  /\ cache' = {x \in cache : x.node # n}
  /\ Bury(gone)
  /\ look' = [c \in Clients |-> [look[c] EXCEPT !.there = {i \in @ : home[i] # n}]]
  /\ call' = [c \in Clients |-> IF call[c].to # n THEN call[c]
                                ELSE IF Returns THEN [call[c] EXCEPT !.placed = FALSE] ELSE NoCall]
  /\ Reset(n)
  /\ UNCHANGED <<slot, pc, op, goal, restarts>>

(* The cache is full, of other names: this one's entry goes. *)
Evict ==
  /\ cache # {}
  /\ cache' = {}
  /\ UNCHANGED <<view, world, handler, counts, restarts>>

(* The gateway restarts: its rows stay, everything else goes, what was placed
   since the readings too. *)
Restart ==
  /\ restarts < MaxRestarts
  /\ restarts' = restarts + 1
  /\ cache' = {} /\ slot' = Free
  /\ pc' = [c \in Clients |-> "idle"]
  /\ op' = [c \in Clients |-> "use"]
  /\ goal' = [c \in Clients |-> {}]
  /\ look' = [c \in Clients |-> NoRound]
  /\ call' = [c \in Clients |-> Abandon(call[c])]
  /\ placed' = [n \in Nodes |-> 0]
  /\ placedIds' = [n \in Nodes |-> {}]
  /\ slack' = [n \in Nodes |-> Cardinality(standing[n])]
  /\ UNCHANGED <<view, world, standing>>

-----------------------------------------------------------------------------
Callers(c) ==
  \/ \E o \in {"acquire", "destroy"} : Queue(c, o)
  \/ \E i \in Ids : Kill(c, i)
  \/ \E n \in Nodes : Spawn(c, n)
  \/ Use(c)
  \/ LeaveLine(c)

Handling(c) ==
  \/ \E n \in Nodes : AnswerYes(c, n) \/ AnswerNo(c, n) \/ NoAnswer(c, n)
  \/ JudgeKill(c) \/ Confirm(c) \/ JudgeOne(c) \/ Refuse(c) \/ JudgeNone(c)
  \/ Verify(c) \/ Relayed(c)
  \/ LearnCreate(c) \/ LearnDestroy(c) \/ GiveUp(c)

Serving(c) == Land(c) \/ LoseCall(c) \/ WakeThere(c) \/ BuildThere(c) \/ FailThere(c) \/ DestroyThere(c)

Membership == \E n \in Nodes : CheckIn(n) \/ Join(n) \/ Remove(n)

Next ==
  \/ \E c \in Clients : Callers(c) \/ Turn(c) \/ Handling(c) \/ Serving(c)
  \/ \E i \in Ids : Expire(i)
  \/ Membership
  \/ Evict
  \/ Restart

Spec == Init /\ [][Next]_vars

-----------------------------------------------------------------------------
(* The nodes where the name lives or may yet be built. *)
Sites == {n \in Nodes : Bound(n) # {} \/ Coming(n) # {}}

(* A name lives on one node, is built on one node, and these are the same
   (create.ts 42-47): whatever was lost, given up or left half done. *)
OneSite == \A m, n \in Sites : m = n

OneRow == \A i, j \in Alive : i = j

(* Creates of the name are sent by the slot's holder alone. *)
Slotted ==
  \A c \in Clients :
    /\ pc[c] \in {"confirm", "ask", "await"} /\ op[c] = "acquire" => slot = c
    /\ pc[c] = "confirm" => op[c] = "acquire"
    /\ call[c].verb = "create" /\ call[c].stage = "sent" => pc[c] = "await" /\ op[c] = "acquire"

(* They go to open members, and so does the name itself live there. *)
Reachable ==
  /\ \A i \in Ids : home[i] # Nowhere => home[i] \in members /\ i \notin dead
  /\ \A c \in Clients : call[c].stage # "none" => call[c].to \in members
  /\ \A n \in shut : Coming(n) = {} /\ n \in members

(* What the cache and the answers say of ids. *)
Names ==
  /\ \A e \in cache : e.id \in named
  /\ \A c \in Clients : pc[c] = "confirm" => \A e \in goal[c] : e.id \in named
  /\ \A c \in Clients : call[c].verb = "create" /\ call[c].stage = "yes" => call[c].id \subseteq named

(* A creator's round: every site has yet to answer, has said yes, or some
   node kept silent; and a yes means that there is no other site. *)
Sound ==
  \A c \in Clients : pc[c] = "ask" /\ op[c] = "acquire" =>
    /\ \A n \in Sites : n \in look[c].asked \/ look[c].mute \/ \E i \in Ids : <<i, n>> \in look[c].yes
    /\ \A i \in Ids, n \in Nodes : <<i, n>> \in look[c].yes => Sites \subseteq {n}

(* Any round: what has been there from its start is not missed. *)
Noticed ==
  \A c \in Clients : \A i \in look[c].there :
    /\ pc[c] = "ask" /\ i \in named /\ home[i] # Nowhere
    /\ home[i] \in look[c].asked \/ look[c].mute \/ <<i, home[i]>> \in look[c].yes

(* A sandbox lives where it was born, and what is said of where it lives was
   true once: nobody moves it, and no id is born twice. *)
Of(i, n) == i \notin Unborn /\ home[i] \in {n, Nowhere}

Rooted ==
  /\ \A i \in named : i \notin Unborn
  /\ \A e \in cache : Of(e.id, e.node)
  /\ \A c \in Clients :
       /\ \A e \in goal[c] : Of(e.id, e.node)
       /\ \A i \in Ids, n \in Nodes : <<i, n>> \in look[c].yes => i \in named /\ Of(i, n)
       /\ call[c].stage # "none" => \A i \in call[c].id : Of(i, call[c].to)
       /\ call[c].stage = "yes" =>
            IF call[c].verb \in {"destroy", "kill"} THEN \A i \in call[c].id : home[i] = Nowhere
            ELSE call[c].id # {}

PInv == TypeOK /\ OneSite /\ OneRow /\ Slotted /\ Reachable /\ Names /\ Sound /\ Noticed /\ Rooted

(* A name found nowhere is nowhere: "there is no such sandbox" and every
   placement are said of a name that no member held all through the round. *)
NoneMeansGone == \A c \in Clients : Nobody(c) => look[c].there = {}

(* What stands on a node beyond its reading fits into the room the reading
   left - but for one sandbox for each placement under way when it came, or
   standing when the gateway started: the slack of one interval that fleet.ts
   324-329 admits, and no more. *)
GateKept == \A n \in Nodes : Cardinality(standing[n]) <= Room + slack[n]

(* An entry leaves the cache when its sandbox is gone, its node removed, the
   gateway restarted, or another is found in its place, or to make room for
   another name: no late answer about an earlier sandbox takes it along. *)
LiveEntryStays ==
  [][\A e \in cache : home[e.id] = e.node /\ e.node \in members /\ cache' = {}
                      => \/ home'[e.id] # e.node \/ e.node \notin members' \/ restarts' # restarts
                         \/ UNCHANGED handler]_vars

Homes == INSTANCE Directory WITH homes <- {<<i, home[i]>> : i \in Alive}

OneHome == Homes!Spec
=============================================================================
