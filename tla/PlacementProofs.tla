-------------------------- MODULE PlacementProofs ---------------------------
(***************************************************************************)
(* Proofs about one name's place in the fleet, for any nodes, callers and  *)
(* births: with no removed node coming back and no question overtaking a   *)
(* create, the name lives on one node at most.                             *)
(*                                                                         *)
(* PInv is inductive.  The proof goes by LInv, the same facts sorted by    *)
(* what they are about: the world, and each client.                        *)
(*                                                                         *)
(* GateKept is proved last, from an invariant of the gateway's counts.     *)
(***************************************************************************)
EXTENDS Placement, FiniteSetTheorems, TLAPS

USE PlacementAssumption DEF PlacementAssumption

-----------------------------------------------------------------------------
Builds(c) == call[c].verb = "create" /\ call[c].stage \in {"sent", "landed"}

Places == {n \in Nodes : \/ \E i \in named : home[i] = n
                         \/ \E c \in Clients : Builds(c) /\ call[c].to = n}

World ==
  /\ \A i \in Ids : home[i] # Nowhere => home[i] \in members /\ i \notin dead
  /\ \A i \in named : i \notin Unborn
  /\ shut \subseteq members
  /\ \A m, n \in Places : m = n
  /\ \A i, j \in Alive : i = j
  /\ \A e \in cache : e.id \in named /\ Of(e.id, e.node)

Orderly(c) ==
  /\ pc[c] \in {"confirm", "ask", "await"} /\ op[c] = "acquire" => slot = c
  /\ pc[c] = "confirm" => op[c] = "acquire"
  /\ call[c].verb = "create" /\ call[c].stage = "sent" => pc[c] = "await" /\ op[c] = "acquire"
  /\ call[c].stage # "none" => call[c].to \in members
  /\ Builds(c) => call[c].to \notin shut

Said(c) ==
  /\ \A e \in goal[c] : Of(e.id, e.node)
  /\ pc[c] = "confirm" => \A e \in goal[c] : e.id \in named
  /\ \A i \in Ids, n \in Nodes : <<i, n>> \in look[c].yes => i \in named /\ Of(i, n)
  /\ call[c].stage # "none" => \A i \in call[c].id : Of(i, call[c].to)
  /\ call[c].stage = "yes" /\ call[c].verb \in {"destroy", "kill"} => \A i \in call[c].id : home[i] = Nowhere
  /\ call[c].stage = "yes" /\ call[c].verb \notin {"destroy", "kill"} => call[c].id # {}
  /\ call[c].stage = "yes" /\ call[c].verb = "create" => call[c].id \subseteq named
  /\ call[c].stage # "none" /\ call[c].verb = "destroy" => call[c].id \subseteq named

Heard(c) == pc[c] = "ask" /\ op[c] = "acquire" =>
  /\ \A n \in Places : n \in look[c].asked \/ look[c].mute \/ \E i \in Ids : <<i, n>> \in look[c].yes
  /\ \A i \in Ids, n \in Nodes : <<i, n>> \in look[c].yes => Places \subseteq {n}

Seen(c) == \A i \in look[c].there :
  /\ pc[c] = "ask" /\ i \in named /\ home[i] # Nowhere
  /\ home[i] \in look[c].asked \/ look[c].mute \/ <<i, home[i]>> \in look[c].yes

ClientOK(c) == Orderly(c) /\ Said(c) /\ Heard(c) /\ Seen(c)

LInv == TypeOK /\ World /\ \A c \in Clients : ClientOK(c)

Pcs == {"idle", "line", "seek", "confirm", "ask", "await", "verify"}
Verbs == {"acquire", "spawn", "destroy", "kill", "use"}

Counted ==
  /\ placed \in [Nodes -> Nat]
  /\ placedIds \in [Nodes -> SUBSET Ids]
  /\ standing \in [Nodes -> SUBSET (Clients \cup Ids)]
  /\ slack \in [Nodes -> Nat]

LEMMA LInvIsPInv == LInv => PInv
<1> SUFFICES ASSUME LInv PROVE PInv OBVIOUS
<1>0. Sites = Places BY DEF Sites, Places, Bound, Coming, Builds
<1>1. TypeOK BY DEF LInv
<1>2. OneSite /\ OneRow BY <1>0 DEF LInv, World, OneSite, OneRow
<1>3. Slotted BY DEF LInv, ClientOK, Orderly, Slotted
<1>4. Reachable
  <2>1. \A n \in shut : Coming(n) = {} BY DEF LInv, ClientOK, Orderly, Coming, Builds
  <2> QED BY <2>1 DEF LInv, World, ClientOK, Orderly, Reachable
<1>5. Names BY DEF LInv, World, ClientOK, Said, Names
<1>6. Sound BY <1>0 DEF LInv, ClientOK, Heard, Sound
<1>7. Noticed BY DEF LInv, ClientOK, Seen, Noticed
<1>8. Rooted BY DEF LInv, World, ClientOK, Said, Rooted
<1> QED BY <1>1, <1>2, <1>3, <1>4, <1>5, <1>6, <1>7, <1>8 DEF PInv

LEMMA RoundFacts == NoRound \in Rounds /\ NoRound.yes = {} /\ NoRound.there = {}
  BY DEF NoRound, Rounds

LEMMA NoFacts ==
  ASSUME NEW x \in Rounds, NEW n
  PROVE  LET l == Hear(x, n, {}, FALSE) IN
         /\ l \in Rounds /\ l.asked = x.asked \ {n} /\ l.yes = x.yes
         /\ (l.mute <=> x.mute) /\ l.there = x.there
<1>1. x.asked \ {n} \in SUBSET Nodes /\ x.yes \cup {} = x.yes /\ (x.mute \/ FALSE) \in BOOLEAN
  BY DEF Rounds
<1>2. Hear(x, n, {}, FALSE) = [x EXCEPT !.asked = x.asked \ {n}, !.yes = x.yes, !.mute = x.mute \/ FALSE]
  BY <1>1 DEF Hear
<1> QED BY <1>1, <1>2 DEF Rounds

LEMMA MuteFacts ==
  ASSUME NEW x \in Rounds, NEW n
  PROVE  LET l == Hear(x, n, {}, TRUE) IN
         /\ l \in Rounds /\ l.asked = x.asked \ {n} /\ l.yes = x.yes
         /\ l.mute /\ l.there = x.there
<1>1. x.asked \ {n} \in SUBSET Nodes /\ x.yes \cup {} = x.yes /\ (x.mute \/ TRUE) \in BOOLEAN
  BY DEF Rounds
<1>2. Hear(x, n, {}, TRUE) = [x EXCEPT !.asked = x.asked \ {n}, !.yes = x.yes, !.mute = x.mute \/ TRUE]
  BY <1>1 DEF Hear
<1> QED BY <1>1, <1>2 DEF Rounds

LEMMA CallFacts ==
  /\ NoCall \in Calls /\ NoCall.stage = "none"
  /\ \A k \in Calls : \A s \in Stages : [k EXCEPT !.stage = s] \in Calls
  BY DEF NoCall, Calls, Stages

LEMMA InitL == Init => LInv
<1> SUFFICES ASSUME Init PROVE LInv OBVIOUS
<1>1. TypeOK BY RoundFacts, CallFacts DEF Init, TypeOK
<1>2. World BY CallFacts DEF Init, World, Places, Builds, Alive
<1>3. \A c \in Clients : ClientOK(c)
  BY RoundFacts, CallFacts DEF Init, ClientOK, Orderly, Said, Heard, Seen, Builds
<1> QED BY <1>1, <1>2, <1>3 DEF LInv

-----------------------------------------------------------------------------
(* A step of one client, its handler or its call, in a world that stays: it
   may bring a site only with the slot in hand and no other site about. *)
Others(c) == \A d \in Clients \ {c} :
  pc'[d] = pc[d] /\ op'[d] = op[d] /\ goal'[d] = goal[d] /\ look'[d] = look[d] /\ call'[d] = call[d]

Handled ==
  /\ pc \in [Clients -> Pcs] /\ op \in [Clients -> Verbs] /\ goal \in [Clients -> SUBSET Entries]
  /\ look \in [Clients -> Rounds] /\ call \in [Clients -> Calls]

Known == cache \subseteq Entries /\ \A e \in cache : e.id \in named /\ Of(e.id, e.node)

LEMMA ClientStep ==
  ASSUME LInv, NEW c \in Clients, Others(c), Handled', Known', Counted',
         UNCHANGED <<view, world, restarts>>,
         slot' \in Clients \cup {Free}, slot' = slot \/ slot \in {c, Free},
         Builds(c)' => \/ Builds(c) /\ call'[c].to = call[c].to
                       \/ slot = c /\ Places \subseteq {call'[c].to},
         Orderly(c)', Said(c)', Seen(c)',
         pc'[c] = "ask" /\ op'[c] = "acquire" =>
           /\ call'[c] = call[c]
           /\ \A n \in Places : n \in look'[c].asked \/ look'[c].mute \/ \E i \in Ids : <<i, n>> \in look'[c].yes
           /\ \A i \in Ids, n \in Nodes : <<i, n>> \in look'[c].yes => Places \subseteq {n}
  PROVE  LInv'
<1>0. TypeOK /\ World /\ \A d \in Clients : ClientOK(d) BY DEF LInv
<1>1. \A d \in Clients \ {c} : pc'[d] = pc[d] /\ op'[d] = op[d] /\ goal'[d] = goal[d]
                               /\ look'[d] = look[d] /\ call'[d] = call[d]
  BY DEF Others
<1>2. UNCHANGED <<members, shut, home, named, dead, ops, restarts>> BY DEF view, world
<1>3. TypeOK' BY <1>0, <1>2 DEF TypeOK, Counted, Handled, Known, Pcs, Verbs
<1>5. \A d \in Clients \ {c} : Builds(d)' = Builds(d) BY <1>1 DEF Builds
<1>6. Builds(c)' /\ ~(Builds(c) /\ call'[c].to = call[c].to) => Places' \subseteq {call'[c].to}
  BY <1>1, <1>2, <1>5 DEF Places
<1>7. ~(Builds(c)' /\ ~(Builds(c) /\ call'[c].to = call[c].to)) => Places' \subseteq Places
  BY <1>1, <1>2, <1>5 DEF Places
<1>8. World'
  <2>1. \A m, n \in Places' : m = n BY <1>0, <1>6, <1>7 DEF World
  <2>2. \A e \in cache' : e.id \in named' /\ Of(e.id, e.node)' BY DEF Known
  <2> QED BY <1>0, <1>2, <2>1, <2>2 DEF World, Alive, Unborn
<1>9. ASSUME NEW d \in Clients \ {c} PROVE ClientOK(d)'
  <2>1. Orderly(d) /\ Said(d) /\ Heard(d) /\ Seen(d) BY <1>0 DEF ClientOK
  <2>2. Orderly(d)' BY <1>1, <1>2, <1>5, <2>1 DEF Orderly
  <2>3. Said(d)' BY <1>1, <1>2, <2>1 DEF Said, Of, Unborn
  <2>4. Heard(d)'
    <3> SUFFICES ASSUME pc[d] = "ask", op[d] = "acquire" PROVE Heard(d)' BY <1>1 DEF Heard
    <3>1. slot = d /\ d # c BY <2>1 DEF Orderly
    <3>2. Places' \subseteq Places BY <1>7, <3>1
    <3> QED BY <1>1, <2>1, <3>2 DEF Heard
  <2>5. Seen(d)' BY <1>1, <1>2, <2>1 DEF Seen
  <2> QED BY <2>2, <2>3, <2>4, <2>5 DEF ClientOK
<1>10. Heard(c)'
  <2> SUFFICES ASSUME pc'[c] = "ask", op'[c] = "acquire" PROVE Heard(c)' BY DEF Heard
  <2>1. call'[c] = call[c] /\ Builds(c)' = Builds(c) BY DEF Builds
  <2>2. Places' \subseteq Places BY <1>7, <2>1
  <2>3. \A n \in Places' : n \in look'[c].asked \/ look'[c].mute \/ \E i \in Ids : <<i, n>> \in look'[c].yes BY <2>2
  <2>4. \A i \in Ids, n \in Nodes : <<i, n>> \in look'[c].yes => Places' \subseteq {n} BY <2>2
  <2> QED BY <2>3, <2>4 DEF Heard
<1>11. ClientOK(c)' BY <1>10 DEF ClientOK
<1> QED BY <1>3, <1>8, <1>9, <1>11 DEF LInv

LEMMA Stay ==
  ASSUME LInv
  PROVE  /\ Handled /\ slot \in Clients \cup {Free}
         /\ UNCHANGED counts => Counted'
         /\ UNCHANGED <<cache, world>> => Known'
<1>0. TypeOK /\ World BY DEF LInv
<1>1. UNCHANGED counts => Counted' BY <1>0 DEF Counted, counts, TypeOK
<1>2. UNCHANGED <<cache, world>> => Known' BY <1>0 DEF TypeOK, World, Known, Of, Unborn, world
<1> QED BY <1>0, <1>1, <1>2 DEF TypeOK, Handled, Pcs, Verbs

(* The handler ends, its call answered, given up or never made. *)
LEMMA DoneStep ==
  ASSUME LInv, NEW c \in Clients, Done(c), NEW k \in Calls, call' = [call EXCEPT ![c] = k],
         \/ k.stage = "none"
         \/ k = call[c] /\ pc[c] # "await"
         \/ /\ k.verb = call[c].verb /\ k.to = call[c].to /\ k.id = call[c].id
            /\ k.stage = "landed" /\ call[c].stage \in {"sent", "landed"},
         UNCHANGED <<view, world, restarts>>, Counted', Known'
  PROVE  LInv'
<1>0. TypeOK /\ ClientOK(c) BY DEF LInv
<1>1. pc'[c] = "idle" /\ op'[c] = "use" /\ goal'[c] = {} /\ look'[c] = NoRound /\ call'[c] = k
  BY <1>0 DEF Done, TypeOK
<1>2. UNCHANGED <<members, shut, home, named, dead>> BY DEF view, world
<1>3. k.stage # "none" => /\ k.verb = call[c].verb /\ k.to = call[c].to /\ k.id = call[c].id
                          /\ call[c].stage # "none"
                          /\ (k.stage = call[c].stage \/ (k.stage = "landed" /\ call[c].stage = "sent"))
  <2>1. CASE k.stage = "none" BY <2>1
  <2>2. CASE k = call[c] BY <2>2
  <2>3. CASE /\ k.verb = call[c].verb /\ k.to = call[c].to /\ k.id = call[c].id
             /\ k.stage = "landed" /\ call[c].stage \in {"sent", "landed"}
    BY <2>3
  <2> QED BY <2>1, <2>2, <2>3
<1>4. k.stage = "sent" => k.verb # "create" BY <1>0 DEF ClientOK, Orderly
<1>5. Orderly(c)' BY <1>0, <1>1, <1>2, <1>3, <1>4 DEF ClientOK, Orderly, Builds
<1>6. Said(c)' BY <1>0, <1>1, <1>2, <1>3, RoundFacts DEF ClientOK, Said, Of, Unborn
<1>7. Seen(c)' BY <1>1, RoundFacts DEF Seen
<1>8. slot' \in Clients \cup {Free} /\ (slot' = slot \/ slot \in {c, Free}) BY <1>0 DEF Done, TypeOK
<1>9. Builds(c)' => Builds(c) /\ call'[c].to = call[c].to BY <1>1, <1>3 DEF Builds
<1>10. Handled' BY Stay, RoundFacts DEF Done, Handled, Pcs, Verbs
<1>11. Others(c) BY Stay DEF Done, Handled, Others
<1>12. pc'[c] # "ask" BY <1>1
<1> QED BY <1>5, <1>6, <1>7, <1>8, <1>9, <1>10, <1>11, <1>12, ClientStep

(* It sends a call about the sandbox e: a create only where the name is. *)
LEMMA SendStep ==
  ASSUME ~Returns, LInv, NEW c \in Clients, NEW o \in Verbs, NEW verb \in {"create", "destroy", "kill"}, NEW e \in Entries,
         Send(c, o, verb, e), Of(e.id, e.node), verb = "destroy" => e.id \in named,
         verb = "create" => slot = c /\ slot' = c /\ o = "acquire" /\ Places \subseteq {e.node},
         o = "acquire" => verb = "create",
         slot' = slot \/ (slot = Free /\ slot' = c),
         UNCHANGED <<view, world, counts, restarts>>, Known'
  PROVE  LInv'
<1> DEFINE k == IF e.node \in members \ shut
       THEN [verb |-> verb, to |-> e.node, id |-> {e.id}, placed |-> FALSE, stage |-> "sent"] ELSE NoCall
<1>0. TypeOK /\ ClientOK(c) BY DEF LInv
<1>1. call' = [call EXCEPT ![c] = k] BY DEF Send
<1>2. pc'[c] = "await" /\ op'[c] = o /\ goal'[c] = {e} /\ look'[c] = NoRound /\ call'[c] = k
  BY <1>0, <1>1 DEF Send, TypeOK
<1>3. UNCHANGED <<members, shut, home, named, dead>> BY DEF view, world
<1>4. k \in Calls BY CallFacts DEF Calls, Entries, Stages
<1>5. \/ e.node \in members \ shut /\ k.stage = "sent" /\ k.verb = verb /\ k.to = e.node /\ k.id = {e.id}
      \/ k.stage = "none"
  BY CallFacts
<1> HIDE DEF k
<1>6. Orderly(c)' BY <1>2, <1>3, <1>5 DEF Orderly, Builds
<1>7. Said(c)' BY <1>2, <1>3, <1>5, RoundFacts DEF Said, Of, Unborn
<1>8. Seen(c)' BY <1>2, RoundFacts DEF Seen
<1>9. slot' \in Clients \cup {Free} BY Stay
<1>10. Builds(c)' => slot = c /\ Places \subseteq {call'[c].to} BY <1>2, <1>5 DEF Builds
<1>11. Handled'
  <2>1. pc' \in [Clients -> Pcs] /\ op' \in [Clients -> Verbs] /\ goal' \in [Clients -> SUBSET Entries]
    BY Stay DEF Send, Handled, Pcs
  <2>2. look' \in [Clients -> Rounds] BY Stay, RoundFacts DEF Send, Handled
  <2> QED BY <1>1, <1>4, <2>1, <2>2, Stay DEF Handled
<1>12. Others(c) BY Stay, <1>1 DEF Send, Handled, Others
<1>13. Counted' BY Stay
<1> QED BY <1>2, <1>6, <1>7, <1>8, <1>9, <1>10, <1>11, <1>12, <1>13, ClientStep

(* It goes on to ask, having found nothing in the cache. *)
LEMMA AskStep ==
  ASSUME LInv, NEW c \in Clients, NEW o \in Verbs, AskAll(c, o), UNCHANGED call, pc[c] # "await",
         o = "acquire" => slot' = c,
         slot' = slot \/ (slot = Free /\ slot' = c),
         UNCHANGED <<view, world, counts, restarts>>, Known'
  PROVE  LInv'
<1> DEFINE l == [asked |-> members \ shut, yes |-> {},
                 mute |-> \E n \in shut : \E i \in Ids : home[i] = n,
                 there |-> {i \in named : home[i] \in members}]
<1>0. TypeOK /\ World /\ ClientOK(c) BY DEF LInv
<1>1. look' = [look EXCEPT ![c] = l] BY DEF AskAll
<1>2. pc'[c] = "ask" /\ op'[c] = o /\ goal'[c] = {} /\ look'[c] = l /\ call'[c] = call[c]
  BY <1>0, <1>1 DEF AskAll, TypeOK
<1>3. UNCHANGED <<members, shut, home, named, dead>> BY DEF view, world
<1>4. l \in Rounds BY <1>0 DEF Rounds, TypeOK
<1>5. l.asked = members \ shut /\ l.yes = {} /\ l.there = {i \in named : home[i] \in members}
      /\ (\A n \in shut, i \in Ids : home[i] = n => l.mute)
  OBVIOUS
<1> HIDE DEF l
<1>6. Orderly(c)' BY <1>0, <1>2, <1>3 DEF ClientOK, Orderly, Builds
<1>7. Said(c)' BY <1>0, <1>2, <1>3, <1>5 DEF ClientOK, Said, Of, Unborn
<1>8. Seen(c)' BY <1>0, <1>2, <1>3, <1>5 DEF Seen, TypeOK
<1>9. ASSUME NEW n \in Places PROVE n \in l.asked \/ l.mute
  <2>1. CASE \E i \in named : home[i] = n BY <1>0, <1>5, <2>1 DEF World, TypeOK, Places
  <2>2. CASE \E d \in Clients : Builds(d) /\ call[d].to = n
    <3>1. PICK d \in Clients : Builds(d) /\ call[d].to = n BY <2>2
    <3>2. Orderly(d) BY DEF LInv, ClientOK
    <3> QED BY <1>5, <3>1, <3>2 DEF Orderly, Builds
  <2> QED BY <2>1, <2>2 DEF Places
<1>10. Handled'
  <2>1. pc' \in [Clients -> Pcs] /\ op' \in [Clients -> Verbs] /\ goal' \in [Clients -> SUBSET Entries]
    BY Stay DEF AskAll, Handled, Pcs
  <2> QED BY <1>1, <1>4, <2>1, Stay DEF Handled
<1>11. Others(c) BY Stay, <1>1 DEF AskAll, Handled, Others
<1>12. Builds(c)' => Builds(c) /\ call'[c].to = call[c].to BY <1>2 DEF Builds
<1>13. slot' \in Clients \cup {Free} /\ Counted' BY Stay
<1>14. \A i \in Ids, n \in Nodes : <<i, n>> \in look'[c].yes => Places \subseteq {n} BY <1>2, <1>5
<1>15. \A n \in Places : n \in look'[c].asked \/ look'[c].mute BY <1>2, <1>9
<1>16. call'[c] = call[c] BY <1>2
<1> QED BY <1>6, <1>7, <1>8, <1>10, <1>11, <1>12, <1>13, <1>14, <1>15, <1>16, ClientStep

LEMMA GoStep ==
  ASSUME LInv, NEW c \in Clients, NEW o \in Verbs, NEW p \in {"line", "seek", "confirm", "verify"}, NEW g \in SUBSET Entries,
         Go(c, o, p, g), UNCHANGED call, pc[c] # "await",
         \A e \in g : Of(e.id, e.node) /\ (p = "confirm" => e.id \in named),
         p = "confirm" => o = "acquire" /\ slot' = c,
         slot' = slot \/ (slot = Free /\ slot' = c),
         UNCHANGED <<view, world, counts, restarts>>, Known'
  PROVE  LInv'
<1>0. TypeOK /\ ClientOK(c) BY DEF LInv
<1>1. pc'[c] = p /\ op'[c] = o /\ goal'[c] = g /\ look'[c] = NoRound /\ call'[c] = call[c]
  BY <1>0 DEF Go, TypeOK
<1>2. UNCHANGED <<members, shut, home, named, dead>> BY DEF view, world
<1>3. Orderly(c)' BY <1>0, <1>1, <1>2 DEF ClientOK, Orderly, Builds
<1>4. Said(c)' BY <1>0, <1>1, <1>2, RoundFacts DEF ClientOK, Said, Of, Unborn
<1>5. Seen(c)' BY <1>1, RoundFacts DEF Seen
<1>6. Handled' BY Stay, RoundFacts DEF Go, Handled, Pcs
<1>7. Others(c) BY Stay DEF Go, Handled, Others
<1>8. Builds(c)' => Builds(c) /\ call'[c].to = call[c].to BY <1>1 DEF Builds
<1>9. slot' \in Clients \cup {Free} /\ Counted' BY Stay
<1>10. pc'[c] # "ask" BY <1>1
<1> QED BY <1>3, <1>4, <1>5, <1>6, <1>7, <1>8, <1>9, <1>10, ClientStep

(* A sandbox of the name at a node leaves no other site. *)
LEMMA SoleSite ==
  ASSUME LInv, NEW e \in Entries, e.id \in named, home[e.id] = e.node
  PROVE  Places \subseteq {e.node}
<1>1. e.node \in Places BY DEF Places, Entries
<1> QED BY <1>1 DEF LInv, World

LEMMA FindStep ==
  ASSUME ~Returns, LInv, NEW c \in Clients, NEW o \in Verbs, Find(c, o),
         pc[c] # "await", o = "acquire" => slot' = c, slot' = slot \/ (slot = Free /\ slot' = c),
         UNCHANGED <<view, world, counts, restarts>>
  PROVE  LInv'
<1>0. TypeOK /\ World BY DEF LInv
<1>1. ASSUME NEW x \in Hits, UNCHANGED cache,
             \/ o = "acquire" /\ Go(c, o, "confirm", {x}) /\ UNCHANGED call
             \/ o = "destroy" /\ Send(c, o, "destroy", x)
             \/ o = "use" /\ Go(c, o, "verify", {x}) /\ UNCHANGED call
      PROVE  LInv'
  <2>1. x \in Entries /\ {x} \in SUBSET Entries /\ Of(x.id, x.node) /\ x.id \in named
    BY <1>0 DEF Hits, TypeOK, World
  <2>2. Known' BY <1>1, Stay
  <2>3. CASE o = "acquire" /\ Go(c, o, "confirm", {x}) /\ UNCHANGED call BY <1>0, <2>1, <2>2, <2>3, GoStep
  <2>4. CASE o = "destroy" /\ Send(c, o, "destroy", x) BY <1>0, <2>1, <2>2, <2>4, SendStep
  <2>5. CASE o = "use" /\ Go(c, o, "verify", {x}) /\ UNCHANGED call BY <1>0, <2>1, <2>2, <2>5, GoStep
  <2> QED BY <1>1, <2>3, <2>4, <2>5
<1>2. CASE cache' = {} /\ AskAll(c, o) /\ UNCHANGED call
  <2>1. Known' BY <1>2 DEF Known
  <2> QED BY <1>0, <1>2, <2>1, AskStep
<1> QED BY <1>1, <1>2 DEF Find

(* A placement: of the name with its slot in hand and no site about. *)
LEMMA PlaceStep ==
  ASSUME LInv, NEW c \in Clients, NEW o \in {"acquire", "spawn"}, NEW verb \in {"create", "spawn"}, NEW n \in Nodes,
         Place(c, o, verb, n), verb = "create" => slot = c /\ Places = {}, o = "acquire" <=> verb = "create",
         UNCHANGED <<view, world, cache, slot, restarts>>
  PROVE  LInv'
<1> DEFINE k == [verb |-> verb, to |-> n, id |-> {}, placed |-> TRUE, stage |-> "sent"]
<1>0. TypeOK /\ ClientOK(c) BY DEF LInv
<1>1. call' = [call EXCEPT ![c] = k] BY DEF Place
<1>2. pc'[c] = "await" /\ op'[c] = o /\ goal' = goal /\ look'[c] = NoRound /\ call'[c] = k
  BY <1>0, <1>1 DEF Place, TypeOK
<1>3. UNCHANGED <<members, shut, home, named, dead, slot>> BY DEF view, world
<1>4. k \in Calls BY DEF Calls, Stages
<1>5. n \in members \ shut /\ k.stage = "sent" /\ k.verb = verb /\ k.to = n /\ k.id = {} BY DEF Place, Fit
<1> HIDE DEF k
<1>6. Orderly(c)' BY <1>2, <1>3, <1>5 DEF Orderly, Builds
<1>7. Said(c)' BY <1>0, <1>2, <1>3, <1>5, RoundFacts DEF ClientOK, Said, Of, Unborn
<1>8. Seen(c)' BY <1>2, RoundFacts DEF Seen
<1>9. slot' \in Clients \cup {Free} BY <1>3, Stay
<1>10. Builds(c)' => slot = c /\ Places \subseteq {call'[c].to} BY <1>2, <1>5 DEF Builds
<1>11. Handled'
  <2>1. pc' \in [Clients -> Pcs] /\ op' \in [Clients -> Verbs] /\ goal' \in [Clients -> SUBSET Entries]
    BY Stay DEF Place, Handled, Pcs, Verbs
  <2>2. look' \in [Clients -> Rounds] BY Stay, RoundFacts DEF Place, Handled
  <2> QED BY <1>1, <1>4, <2>1, <2>2, Stay DEF Handled
<1>12. Others(c) BY Stay, <1>1 DEF Place, Handled, Others
<1>13. Counted' BY <1>0 DEF Place, Counted, TypeOK
<1>14. Known' /\ pc'[c] # "ask" BY <1>2, Stay
<1> QED BY <1>3, <1>6, <1>7, <1>8, <1>9, <1>10, <1>11, <1>12, <1>13, <1>14, ClientStep

-----------------------------------------------------------------------------
(* Callers, and the turn in line. *)
LEMMA FoundStep ==
  ASSUME ~Returns, LInv, NEW c \in Clients, NEW i \in Ids, NEW n \in Nodes, Found(c, i, n), Of(i, n),
         pc[c] # "await", UNCHANGED <<view, world, slot, counts, restarts>>, Known'
  PROVE  LInv'
<1> DEFINE e == [id |-> i, node |-> n]
<1>1. e \in Entries /\ e.id = i /\ e.node = n /\ {e} \in SUBSET Entries BY DEF Entries
<1>2. IF i \in named THEN Go(c, "kill", "line", {e}) /\ UNCHANGED call ELSE Send(c, "kill", "kill", e)
  BY DEF Found
<1> HIDE DEF e
<1>3. CASE Go(c, "kill", "line", {e}) /\ UNCHANGED call BY <1>1, <1>3, GoStep DEF Verbs
<1>4. CASE Send(c, "kill", "kill", e) BY <1>1, <1>4, SendStep DEF Verbs
<1> QED BY <1>2, <1>3, <1>4

LEMMA SeekStep ==
  ASSUME ~Returns, LInv, NEW c \in Clients, JudgeKill(c)
  PROVE  LInv'
<1>0. TypeOK /\ World /\ ClientOK(c) BY DEF LInv
<1>1. pc[c] # "await" /\ UNCHANGED <<view, world, slot, counts, restarts>> BY DEF JudgeKill
<1>2. PICK e \in goal[c] : cache' = (IF e.id \in named THEN {e} ELSE cache) /\ Found(c, e.id, e.node)
  BY DEF JudgeKill
<1>3. e \in Entries /\ e.id \in Ids /\ e.node \in Nodes /\ Of(e.id, e.node)
  BY <1>0, <1>2 DEF TypeOK, Entries, ClientOK, Said
<1>4. UNCHANGED <<home, named, dead>> BY <1>1 DEF world
<1>5. Known' BY <1>0, <1>2, <1>3, <1>4 DEF TypeOK, World, Known, Of, Unborn
<1> QED BY <1>1, <1>2, <1>3, <1>5, FoundStep

LEMMA CallerSteps ==
  ASSUME ~Returns, LInv, NEW c \in Clients, Callers(c) \/ Turn(c)
  PROVE  LInv'
<1>0. TypeOK /\ World /\ ClientOK(c) BY DEF LInv
<1>1. ASSUME NEW o \in {"acquire", "destroy"}, Queue(c, o) PROVE LInv'
  <2>1. Known' BY <1>1, Stay DEF Queue
  <2>2. o \in Verbs /\ {} \in SUBSET Entries /\ pc[c] # "await" BY <1>1 DEF Verbs, Queue, Idle
  <2>3. Go(c, o, "line", {}) /\ UNCHANGED call /\ UNCHANGED slot /\ UNCHANGED <<view, world, counts, restarts>>
    BY <1>1 DEF Queue
  <2> QED BY <2>1, <2>2, <2>3, GoStep
<1>2. ASSUME NEW i \in Ids, Kill(c, i) PROVE LInv'
  <2>1. i \notin Unborn /\ pc[c] # "await" /\ UNCHANGED <<view, world, cache, slot, counts, restarts>>
    BY <1>2 DEF Kill, Idle
  <2>2. Known' BY <2>1, Stay
  <2>3. CASE \E x \in Hits : x.id = i /\ Found(c, i, x.node)
    <3>1. PICK x \in Hits : x.id = i /\ Found(c, i, x.node) BY <2>3
    <3>2. x.node \in Nodes /\ Of(i, x.node) BY <1>0, <3>1 DEF World, Hits, TypeOK, Entries
    <3> QED BY <2>1, <2>2, <3>1, <3>2, FoundStep
  <2>4. CASE home[i] \in members \ shut /\ Go(c, "kill", "seek", {[id |-> i, node |-> home[i]]}) /\ UNCHANGED call
    <3> DEFINE e == [id |-> i, node |-> home[i]]
    <3>1. e \in Entries /\ e.id = i /\ e.node = home[i] /\ {e} \in SUBSET Entries
      BY <1>0, <2>4 DEF Entries, TypeOK
    <3>2. Go(c, "kill", "seek", {e}) BY <2>4
    <3> HIDE DEF e
    <3>3. \A x \in {e} : Of(x.id, x.node) BY <2>1, <3>1 DEF Of
    <3> QED BY <2>1, <2>2, <2>4, <3>1, <3>2, <3>3, GoStep DEF Verbs
  <2> QED BY <1>2, <2>3, <2>4 DEF Kill
<1>3. ASSUME NEW n \in Nodes, Spawn(c, n) PROVE LInv' BY <1>3, PlaceStep DEF Spawn
<1>4. CASE Use(c)
  <2>1. Find(c, "use") /\ pc[c] # "await" /\ UNCHANGED <<view, world, counts, restarts>> /\ UNCHANGED slot
    BY <1>4 DEF Use, Idle
  <2> QED BY <2>1, FindStep DEF Verbs
<1>5. CASE LeaveLine(c)
  <2>1. call' = [call EXCEPT ![c] = call[c]] /\ call[c] \in Calls BY <1>0, <1>5 DEF LeaveLine, TypeOK
  <2>2. Counted' /\ Known' BY <1>5, Stay DEF LeaveLine
  <2>3. Done(c) /\ pc[c] # "await" /\ UNCHANGED <<view, world, restarts>> BY <1>5 DEF LeaveLine
  <2> QED BY <2>1, <2>2, <2>3, DoneStep
<1>6. CASE Turn(c)
  <2>1. pc[c] # "await" /\ slot = Free /\ slot' = c /\ UNCHANGED <<view, world, counts, restarts>> BY <1>6 DEF Turn
  <2>2. ASSUME op[c] = "kill" PROVE LInv'
    <3>1. PICK e \in goal[c] : Send(c, "kill", "kill", e) /\ UNCHANGED cache BY <1>6, <2>2 DEF Turn
    <3>2. e \in Entries /\ Of(e.id, e.node) BY <1>0, <3>1 DEF TypeOK, ClientOK, Said
    <3>3. Known' BY <2>1, <3>1, Stay
    <3> QED BY <2>1, <3>1, <3>2, <3>3, SendStep DEF Verbs
  <2>3. ASSUME op[c] # "kill" PROVE LInv'
    <3>1. Find(c, op[c]) BY <1>6, <2>3 DEF Turn
    <3>2. op[c] \in Verbs BY Stay DEF Handled
    <3> QED BY <2>1, <3>1, <3>2, FindStep
  <2> QED BY <2>2, <2>3
<1> QED BY <1>1, <1>2, <1>3, <1>4, <1>5, <1>6 DEF Callers

-----------------------------------------------------------------------------
(* Questions and their answers. *)
LEMMA AnswerSteps ==
  ASSUME LInv, NEW c \in Clients, NEW n \in Nodes, AnswerYes(c, n) \/ AnswerNo(c, n) \/ NoAnswer(c, n)
  PROVE  LInv'
<1>0. TypeOK /\ World /\ ClientOK(c) BY DEF LInv
<1>1. pc[c] = "ask" /\ UNCHANGED <<view, world, cache, slot, pc, op, goal, call, counts, restarts>>
  BY DEF AnswerYes, AnswerNo, NoAnswer
<1>2. UNCHANGED <<members, shut, home, named, dead, slot, pc, op, goal, call>> BY <1>1 DEF view, world
<1>3. look[c] \in Rounds /\ \A i \in named : home[i] = n => i \in Ids BY <1>0 DEF TypeOK
<1>4. PICK l \in Rounds :
        /\ look' = [look EXCEPT ![c] = l] /\ l.there = look[c].there
        /\ l.asked = look[c].asked \/ l.asked = look[c].asked \ {n}
        /\ \/ l.yes = look[c].yes /\ l.mute
           \/ l.yes = look[c].yes /\ (l.mute <=> look[c].mute) /\ SaysNo(n)
           \/ l.yes = look[c].yes \cup {<<i, n>> : i \in Bound(n)} /\ (l.mute <=> look[c].mute) /\ Bound(n) # {}
  <2>1. CASE AnswerYes(c, n)
    <3> DEFINE y == {<<i, n>> : i \in Bound(n)}
    <3>1. y \in SUBSET (Ids \X Nodes) BY <1>3 DEF Bound
    <3>2. look' = [look EXCEPT ![c] = Hear(look[c], n, y, FALSE)] /\ Bound(n) # {} BY <2>1 DEF AnswerYes
    <3> HIDE DEF y
    <3> DEFINE l == Hear(look[c], n, y, FALSE)
    <3>3. l \in Rounds /\ l.asked = look[c].asked \ {n} /\ l.yes = look[c].yes \cup y /\ (l.mute <=> look[c].mute)
          /\ l.there = look[c].there
      BY <1>3, <3>1 DEF Hear, Rounds
    <3> HIDE DEF l
    <3> QED BY <3>2, <3>3 DEF l, y
  <2>2. CASE AnswerNo(c, n)
    <3>1. look' = [look EXCEPT ![c] = Hear(look[c], n, {}, FALSE)] /\ SaysNo(n) BY <2>2 DEF AnswerNo
    <3> DEFINE l == Hear(look[c], n, {}, FALSE)
    <3>2. l \in Rounds /\ l.asked = look[c].asked \ {n} /\ l.yes = look[c].yes /\ (l.mute <=> look[c].mute)
          /\ l.there = look[c].there
      BY <1>3, NoFacts
    <3> HIDE DEF l
    <3> QED BY <3>1, <3>2 DEF l
  <2>3. CASE NoAnswer(c, n)
    <3>1. look' = [look EXCEPT ![c] = Hear(look[c], n, {}, TRUE)] BY <2>3 DEF NoAnswer
    <3> DEFINE l == Hear(look[c], n, {}, TRUE)
    <3>2. l \in Rounds /\ l.asked = look[c].asked \ {n} /\ l.yes = look[c].yes /\ l.mute
          /\ l.there = look[c].there
      BY <1>3, MuteFacts
    <3> HIDE DEF l
    <3> QED BY <3>1, <3>2 DEF l
  <2> QED BY <2>1, <2>2, <2>3
<1>5. look'[c] = l /\ \A d \in Clients \ {c} : look'[d] = look[d] BY <1>0, <1>4 DEF TypeOK
<1>6. Handled' BY <1>2, <1>4, Stay DEF Handled
<1>7. Others(c) BY <1>2, <1>5 DEF Others
<1>8. Orderly(c)' BY <1>0, <1>2 DEF ClientOK, Orderly, Builds
<1>9. \A i \in Ids, m \in Nodes : <<i, m>> \in l.yes =>
        <<i, m>> \in look[c].yes \/ (m = n /\ i \in named /\ home[i] = n /\ n \in Places)
  BY <1>4 DEF Bound, Places
<1>10. Said(c)'
  <2>1. \A i \in Ids, m \in Nodes : <<i, m>> \in l.yes => i \in named /\ Of(i, m)
    BY <1>0, <1>9 DEF ClientOK, Said, World, Of
  <2> QED BY <1>0, <1>2, <1>5, <2>1 DEF ClientOK, Said, Of, Unborn
<1>11. Seen(c)'
  <2> SUFFICES ASSUME NEW i \in l.there
               PROVE  home[i] \in l.asked \/ l.mute \/ <<i, home[i]>> \in l.yes
    BY <1>0, <1>1, <1>2, <1>4, <1>5 DEF ClientOK, Seen
  <2>1. i \in named /\ (home[i] \in look[c].asked \/ look[c].mute \/ <<i, home[i]>> \in look[c].yes)
    BY <1>0, <1>4 DEF ClientOK, Seen
  <2> QED BY <1>4, <2>1 DEF SaysNo, Bound
<1>12. op[c] = "acquire" =>
         /\ \A m \in Places : m \in l.asked \/ l.mute \/ \E i \in Ids : <<i, m>> \in l.yes
         /\ \A i \in Ids, m \in Nodes : <<i, m>> \in l.yes => Places \subseteq {m}
  <2> SUFFICES ASSUME op[c] = "acquire"
               PROVE  /\ \A m \in Places : m \in l.asked \/ l.mute \/ \E i \in Ids : <<i, m>> \in l.yes
                      /\ \A i \in Ids, m \in Nodes : <<i, m>> \in l.yes => Places \subseteq {m}
    OBVIOUS
  <2>1. /\ \A m \in Places : m \in look[c].asked \/ look[c].mute \/ \E i \in Ids : <<i, m>> \in look[c].yes
        /\ \A i \in Ids, m \in Nodes : <<i, m>> \in look[c].yes => Places \subseteq {m}
    BY <1>0, <1>1 DEF ClientOK, Heard
  <2>2. SaysNo(n) => n \notin Places
    <3> SUFFICES ASSUME SaysNo(n), n \in Places PROVE FALSE OBVIOUS
    <3>1. PICK d \in Clients : Builds(d) /\ call[d].to = n BY DEF SaysNo, Bound, Places
    <3>2. call[d].stage = "sent" BY <3>1 DEF SaysNo, Building, Builds
    <3>3. Orderly(d) /\ Orderly(c) BY DEF LInv, ClientOK
    <3>4. slot = d /\ slot = c /\ pc[d] = "await" BY <1>1, <3>1, <3>2, <3>3 DEF Orderly, Builds
    <3> QED BY <1>1, <3>4
  <2>3. ASSUME NEW m \in Places PROVE m \in l.asked \/ l.mute \/ \E i \in Ids : <<i, m>> \in l.yes
    <3>1. CASE m # n BY <1>4, <2>1, <3>1
    <3>2. CASE m = n /\ Bound(n) # {} /\ l.yes = look[c].yes \cup {<<i, n>> : i \in Bound(n)}
      BY <1>3, <3>2 DEF Bound
    <3>3. CASE m = n /\ SaysNo(n) BY <2>2, <3>3
    <3> QED BY <1>4, <3>1, <3>2, <3>3
  <2>4. \A i \in Ids, m \in Nodes : <<i, m>> \in l.yes => Places \subseteq {m}
    BY <1>0, <1>9, <2>1 DEF World
  <2> QED BY <2>3, <2>4
<1>13. Known' /\ Counted' BY <1>1, Stay
<1>14. slot' = slot /\ slot' \in Clients \cup {Free} BY <1>2, Stay
<1>15. Builds(c)' => Builds(c) /\ call'[c].to = call[c].to BY <1>2 DEF Builds
<1>16. pc'[c] = "ask" /\ op'[c] = "acquire" =>
         /\ call'[c] = call[c]
         /\ \A m \in Places : m \in look'[c].asked \/ look'[c].mute \/ \E i \in Ids : <<i, m>> \in look'[c].yes
         /\ \A i \in Ids, m \in Nodes : <<i, m>> \in look'[c].yes => Places \subseteq {m}
  BY <1>2, <1>5, <1>12
<1> QED BY <1>1, <1>6, <1>7, <1>8, <1>10, <1>11, <1>13, <1>14, <1>15, <1>16, ClientStep

-----------------------------------------------------------------------------
(* What a handler makes of them. *)
LEMMA KeepsCall ==
  ASSUME LInv, NEW c \in Clients, UNCHANGED call
  PROVE  call[c] \in Calls /\ call' = [call EXCEPT ![c] = call[c]]
  BY Stay DEF Handled

LEMMA JustDone ==
  ASSUME LInv, NEW c \in Clients, Done(c), UNCHANGED call, pc[c] # "await",
         UNCHANGED <<view, world, restarts>>, Counted', Known'
  PROVE  LInv'
  BY KeepsCall, DoneStep

LEMMA ReachStep ==
  ASSUME ~Returns, LInv, NEW c \in Clients, NEW o \in Verbs, NEW e \in Entries, Reach(c, o, e), Of(e.id, e.node),
         e.id \in named,
         pc[c] # "await", o = "acquire" => slot = c /\ Places \subseteq {e.node},
         UNCHANGED <<view, world, counts, restarts>>, Known'
  PROVE  LInv'
<1>1. CASE o = "acquire" /\ Send(c, o, "create", e) /\ UNCHANGED slot BY <1>1, SendStep
<1>2. CASE o = "destroy" /\ Send(c, o, "destroy", e) /\ UNCHANGED slot BY <1>2, SendStep
<1>3. CASE o = "use" /\ Go(c, o, "verify", {e}) /\ UNCHANGED <<slot, call>>
  <2>1. {e} \in SUBSET Entries /\ UNCHANGED slot /\ UNCHANGED call BY <1>3
  <2> QED BY <1>3, <2>1, GoStep
<1> QED BY <1>1, <1>2, <1>3 DEF Reach

LEMMA ConfirmStep ==
  ASSUME ~Returns, LInv, NEW c \in Clients, Confirm(c)
  PROVE  LInv'
<1>0. TypeOK /\ World /\ ClientOK(c) BY DEF LInv
<1>1. pc[c] = "confirm" /\ UNCHANGED <<view, world, counts, restarts>> BY DEF Confirm
<1>2. slot = c BY <1>0, <1>1 DEF ClientOK, Orderly
<1>3. UNCHANGED <<home, named, dead>> BY <1>1 DEF world
<1>4. PICK e \in goal[c] :
       \/ /\ home[e.id] = e.node
          /\ ReachOrGone(c, "acquire", e)
          /\ UNCHANGED cache
       \/ Done(c) /\ UNCHANGED <<cache, call>>
       \/ /\ cache' = {x \in cache : x.id # e.id}
          /\ AskAll(c, "acquire")
          /\ UNCHANGED <<slot, call>>
  BY DEF Confirm
<1>5. e \in Entries /\ e.id \in named /\ Of(e.id, e.node) BY <1>0, <1>1 DEF TypeOK, ClientOK, Said
<1>6. Counted' /\ "acquire" \in Verbs BY <1>1, Stay DEF Verbs
<1>7. CASE home[e.id] = e.node /\ ReachOrGone(c, "acquire", e) /\ UNCHANGED cache
  <2>1. Known' BY <1>1, <1>7, Stay
  <2>2. Places \subseteq {e.node} BY <1>5, <1>7, SoleSite
  <2>3. CASE Reach(c, "acquire", e) BY <1>1, <1>2, <1>5, <1>6, <2>1, <2>2, <2>3, ReachStep
  <2>4. CASE Done(c) /\ UNCHANGED call BY <1>1, <1>6, <2>1, <2>4, JustDone
  <2> QED BY <1>7, <2>3, <2>4 DEF ReachOrGone
<1>8. CASE Done(c) /\ UNCHANGED <<cache, call>>
  <2>1. Known' BY <1>1, <1>8, Stay
  <2> QED BY <1>1, <1>6, <1>8, <2>1, JustDone
<1>9. CASE cache' = {x \in cache : x.id # e.id} /\ AskAll(c, "acquire") /\ UNCHANGED <<slot, call>>
  <2>1. Known' BY <1>0, <1>3, <1>9 DEF TypeOK, World, Known, Of, Unborn
  <2> QED BY <1>1, <1>2, <1>6, <1>9, <2>1, AskStep
<1> QED BY <1>4, <1>7, <1>8, <1>9

LEMMA JudgeSteps ==
  ASSUME ~Returns, LInv, NEW c \in Clients, JudgeOne(c) \/ Refuse(c) \/ JudgeNone(c)
  PROVE  LInv'
<1>0. TypeOK /\ World /\ ClientOK(c) BY DEF LInv
<1>1. Answered(c) /\ pc[c] = "ask" BY DEF JudgeOne, Refuse, JudgeNone, Nobody, Answered
<1>2. op[c] \in Verbs /\ (op[c] = "acquire" => slot = c) BY <1>0, <1>1, Stay DEF ClientOK, Orderly, Handled
<1>3. CASE JudgeOne(c)
  <2>1. PICK i \in Ids, n \in Nodes :
          look[c].yes = {<<i, n>>} /\ cache' = {[id |-> i, node |-> n]} /\ ReachOrGone(c, op[c], [id |-> i, node |-> n])
    BY <1>3 DEF JudgeOne
  <2> DEFINE e == [id |-> i, node |-> n]
  <2>2. e \in Entries /\ e.id = i /\ e.node = n /\ ReachOrGone(c, op[c], e) /\ cache' = {e} BY <2>1 DEF Entries
  <2> HIDE DEF e
  <2>3. i \in named /\ Of(i, n) BY <1>0, <2>1 DEF ClientOK, Said
  <2>4. op[c] = "acquire" => Places \subseteq {n} BY <1>0, <1>1, <2>1 DEF ClientOK, Heard
  <2>5. UNCHANGED <<view, world, counts, restarts>> /\ UNCHANGED <<home, named, dead>> BY <1>3 DEF JudgeOne, world
  <2>6. Known' BY <2>2, <2>3, <2>5 DEF Known, Of, Unborn
  <2>7. CASE Reach(c, op[c], e) BY <1>1, <1>2, <2>2, <2>3, <2>4, <2>5, <2>6, <2>7, ReachStep
  <2>8. CASE Done(c) /\ UNCHANGED call
    <3>1. Counted' BY <2>5, Stay
    <3> QED BY <1>1, <2>5, <2>6, <2>8, <3>1, JustDone
  <2> QED BY <2>2, <2>7, <2>8 DEF ReachOrGone
<1>4. CASE Refuse(c)
  <2>1. Done(c) /\ UNCHANGED call /\ UNCHANGED <<view, world, restarts>> /\ UNCHANGED counts /\ UNCHANGED <<cache, world>>
    BY <1>4 DEF Refuse
  <2>2. Counted' /\ Known' BY <2>1, Stay
  <2> QED BY <1>1, <2>1, <2>2, JustDone
<1>5. CASE JudgeNone(c)
  <2>1. UNCHANGED <<view, world, cache, restarts>> /\ Nobody(c) BY <1>5 DEF JudgeNone
  <2>2. ASSUME op[c] = "acquire", NEW n \in Nodes, Place(c, "acquire", "create", n), UNCHANGED slot PROVE LInv'
    <3>1. Places = {} BY <1>0, <1>1, <2>1, <2>2 DEF ClientOK, Heard, Nobody, Answered
    <3>2. slot = c /\ UNCHANGED <<view, world, cache, slot, restarts>> BY <1>2, <2>1, <2>2
    <3> QED BY <2>2, <3>1, <3>2, PlaceStep
  <2>3. CASE Done(c) /\ UNCHANGED <<call, counts>>
    <3>1. Known' /\ Counted' BY <2>1, <2>3, Stay
    <3> QED BY <1>1, <2>1, <2>3, <3>1, JustDone
  <2> QED BY <1>5, <2>2, <2>3 DEF JudgeNone
<1> QED BY <1>3, <1>4, <1>5

LEMMA VerifySteps ==
  ASSUME LInv, NEW c \in Clients, Verify(c) \/ Relayed(c)
  PROVE  LInv'
<1>0. TypeOK /\ World BY DEF LInv
<1>1. pc[c] # "await" /\ Done(c) /\ UNCHANGED call /\ UNCHANGED <<view, world, restarts>> /\ UNCHANGED counts
  BY DEF Verify, Relayed
<1>2. cache' \subseteq cache BY DEF Verify, Relayed
<1>3. Known' BY <1>0, <1>1, <1>2 DEF TypeOK, World, Known, Of, Unborn, world
<1>4. Counted' BY <1>1, Stay
<1> QED BY <1>1, <1>3, <1>4, JustDone

LEMMA LearnSteps ==
  ASSUME LInv, NEW c \in Clients, LearnCreate(c) \/ LearnDestroy(c)
  PROVE  LInv'
<1>0. TypeOK /\ World /\ ClientOK(c) BY DEF LInv
<1>1. Done(c) /\ call' = [call EXCEPT ![c] = NoCall] /\ UNCHANGED <<view, world, standing, slack, restarts>>
  BY DEF LearnCreate, LearnDestroy
<1>2. UNCHANGED <<home, named, dead>> BY <1>1 DEF world
<1>3. call[c].stage \in {"yes", "no"} /\ call[c].to \in Nodes /\ call[c].id \subseteq Ids
  <2>1. call[c].stage \in {"yes", "no"} BY DEF LearnCreate, LearnDestroy
  <2>2. call[c] \in Calls BY Stay DEF Handled
  <2> QED BY <1>0, <2>1, <2>2 DEF ClientOK, Orderly, TypeOK, Calls
<1>4. cache' = cache \/ cache' = {x \in cache : x.id \notin call[c].id}
      \/ (/\ cache' = {[id |-> i, node |-> call[c].to] : i \in call[c].id}
          /\ call[c].verb = "create" /\ call[c].stage = "yes")
  BY DEF LearnCreate, LearnDestroy
<1>5. Known'
  <2>1. CASE cache' \subseteq cache BY <1>0, <1>2, <2>1 DEF TypeOK, World, Known, Of, Unborn
  <2>2. CASE /\ cache' = {[id |-> i, node |-> call[c].to] : i \in call[c].id}
             /\ call[c].verb = "create" /\ call[c].stage = "yes"
    <3>1. \A i \in call[c].id : i \in named /\ Of(i, call[c].to) BY <1>0, <2>2 DEF ClientOK, Said
    <3>2. cache' \subseteq Entries BY <1>3, <2>2 DEF Entries
    <3>3. \A x \in cache' : x.id \in call[c].id /\ x.node = call[c].to BY <2>2
    <3> QED BY <1>2, <3>1, <3>2, <3>3 DEF Known, Of, Unborn
  <2> QED BY <1>4, <2>1, <2>2
<1>6. Counted'
  <2>1. standing' \in [Nodes -> SUBSET (Clients \cup Ids)] /\ slack' \in [Nodes -> Nat] BY <1>0, <1>1 DEF TypeOK
  <2>2. placed' \in [Nodes -> Nat] BY <1>0, <1>3 DEF LearnCreate, LearnDestroy, TypeOK
  <2>3. placedIds' \in [Nodes -> SUBSET Ids] BY <1>0, <1>3 DEF LearnCreate, LearnDestroy, TypeOK
  <2> QED BY <2>1, <2>2, <2>3 DEF Counted
<1> QED BY <1>1, <1>5, <1>6, CallFacts, DoneStep

(* With nothing overtaking a call, one given up has landed or never will. *)
LEMMA AbandonFacts ==
  ASSUME ~Overtaken, NEW x \in Calls
  PROVE  /\ Abandon(x) \in Calls
         /\ \/ Abandon(x).stage = "none"
            \/ /\ Abandon(x).verb = x.verb /\ Abandon(x).to = x.to /\ Abandon(x).id = x.id
               /\ Abandon(x).stage = "landed" /\ x.stage \in {"sent", "landed"}
<1>1. CASE x.stage = "sent"
  <2>1. Abandon(x) = [x EXCEPT !.stage = "landed"] BY <1>1 DEF Abandon
  <2> QED BY <1>1, <2>1 DEF Calls, Stages
<1>2. CASE x.stage \in {"yes", "no"}
  <2>1. Abandon(x) = NoCall BY <1>2 DEF Abandon
  <2> QED BY <2>1, CallFacts
<1>3. CASE x.stage \in {"none", "landed"}
  <2>1. Abandon(x) = x BY <1>3 DEF Abandon
  <2> QED BY <1>3, <2>1
<1>4. x.stage \in Stages BY DEF Calls
<1> QED BY <1>1, <1>2, <1>3, <1>4 DEF Stages

LEMMA GiveUpStep ==
  ASSUME ~Overtaken, LInv, NEW c \in Clients, GiveUp(c)
  PROVE  LInv'
<1> DEFINE k == Abandon(call[c])
<1>1. Done(c) /\ call' = [call EXCEPT ![c] = k] /\ UNCHANGED <<view, world, restarts>> /\ UNCHANGED counts
      /\ UNCHANGED <<cache, world>>
  BY DEF GiveUp
<1>2. call[c] \in Calls BY Stay DEF Handled
<1>3. k \in Calls /\ (k.stage = "none" \/ (/\ k.verb = call[c].verb /\ k.to = call[c].to /\ k.id = call[c].id
                                          /\ k.stage = "landed" /\ call[c].stage \in {"sent", "landed"}))
  BY <1>2, AbandonFacts
<1> HIDE DEF k
<1>4. Known' /\ Counted' BY <1>1, Stay
<1> QED BY <1>1, <1>3, <1>4, DoneStep

-----------------------------------------------------------------------------
(* A call goes its way while the handlers wait. *)
LEMMA CallStep ==
  ASSUME LInv, NEW c \in Clients, NEW k \in Calls, call' = [call EXCEPT ![c] = k],
         \/ k.stage = "none"
         \/ /\ k.verb = call[c].verb /\ k.to = call[c].to /\ k.id = call[c].id
            /\ k.stage = "landed" /\ call[c].stage = "sent"
         \/ /\ k.verb = call[c].verb /\ k.to = call[c].to /\ call[c].stage # "none" /\ k.stage \in {"yes", "no"}
            /\ \A i \in k.id : Of(i, k.to)
            /\ k.verb = "destroy" => k.id \subseteq named
            /\ k.stage = "yes" => k.verb \notin {"destroy", "kill"} /\ k.id # {} /\ k.id \subseteq named,
         UNCHANGED <<view, world, cache, slot, pc, op, goal, look, restarts>>, Counted'
  PROVE  LInv'
<1>0. TypeOK /\ ClientOK(c) BY DEF LInv
<1>1. UNCHANGED <<members, shut, home, named, dead, slot, pc, op, goal, look>> BY DEF view, world
<1>2. call'[c] = k BY <1>0 DEF TypeOK
<1>3. Orderly(c)' BY <1>0, <1>1, <1>2 DEF ClientOK, Orderly, Builds
<1>4. Said(c)' BY <1>0, <1>1, <1>2 DEF ClientOK, Said, Of, Unborn
<1>5. Seen(c)' BY <1>0, <1>1 DEF ClientOK, Seen
<1>6. Builds(c)' => Builds(c) /\ call'[c].to = call[c].to BY <1>2 DEF Builds
<1>7. Handled' BY <1>1, Stay DEF Handled
<1>8. Others(c) BY <1>0, <1>1 DEF Others, TypeOK
<1>9. Known' /\ slot' = slot /\ slot' \in Clients \cup {Free} BY <1>1, Stay
<1>10. World /\ \A d \in Clients : ClientOK(d) BY DEF LInv
<1>11. UNCHANGED <<ops, cache, restarts>> BY DEF world
<1>12. TypeOK' BY <1>0, <1>1, <1>7, <1>11 DEF TypeOK, Counted, Handled, Pcs, Verbs
<1>13. \A d \in Clients : (Builds(d)' => Builds(d)) /\ (Builds(d)' => call'[d].to = call[d].to)
  BY <1>6, <1>8 DEF Builds, Others
<1>14. Places' \subseteq Places BY <1>1, <1>13 DEF Places
<1>15. World' BY <1>1, <1>10, <1>11, <1>14 DEF World, Alive, Of, Unborn
<1>16. ASSUME NEW d \in Clients PROVE ClientOK(d)'
  <2>1. Heard(d)' BY <1>1, <1>10, <1>14 DEF ClientOK, Heard
  <2>2. CASE d = c BY <1>3, <1>4, <1>5, <2>1, <2>2 DEF ClientOK
  <2>3. CASE d # c
    <3>1. call'[d] = call[d] /\ ClientOK(d) BY <1>8, <1>10, <2>3 DEF Others
    <3>2. Orderly(d)' BY <1>1, <3>1 DEF ClientOK, Orderly, Builds
    <3>3. Said(d)' BY <1>1, <3>1 DEF ClientOK, Said, Of, Unborn
    <3>4. Seen(d)' BY <1>1, <3>1 DEF ClientOK, Seen
    <3> QED BY <2>1, <3>2, <3>3, <3>4 DEF ClientOK
  <2> QED BY <2>2, <2>3
<1> QED BY <1>12, <1>15, <1>16 DEF LInv

LEMMA Finished ==
  ASSUME LInv, NEW c \in Clients, NEW stage \in {"yes", "no"}, NEW ids \in SUBSET Ids, Finish(c, stage, ids)
  PROVE  \E k \in Calls : /\ call' = [call EXCEPT ![c] = k]
                          /\ \/ k.stage = "none"
                             \/ k.stage = stage /\ k.id = ids /\ k.verb = call[c].verb /\ k.to = call[c].to
<1> DEFINE h == [call[c] EXCEPT !.stage = stage, !.id = ids]
<1>1. call[c] \in Calls BY Stay DEF Handled
<1>2. h \in Calls /\ h.stage = stage /\ h.id = ids /\ h.verb = call[c].verb /\ h.to = call[c].to
  BY <1>1 DEF Calls, Stages
<1>3. call' = [call EXCEPT ![c] = IF pc[c] = "await" THEN h ELSE NoCall] BY DEF Finish
<1> HIDE DEF h
<1> QED BY <1>2, <1>3, CallFacts

LEMMA ServeSteps ==
  ASSUME LInv, NEW c \in Clients, Land(c) \/ LoseCall(c) \/ WakeThere(c) \/ FailThere(c)
  PROVE  LInv'
<1>0. TypeOK /\ World /\ ClientOK(c) BY DEF LInv
<1>1. UNCHANGED <<view, world, cache, slot, pc, op, goal, look, restarts>>
  BY DEF Land, LoseCall, WakeThere, FailThere, counts
<1>2. Counted' BY <1>0 DEF Land, LoseCall, WakeThere, FailThere, Counted, TypeOK, counts
<1>3. call[c] \in Calls /\ call[c].id \subseteq Ids /\ call[c].verb \in {"create", "spawn", "destroy", "kill"}
  BY <1>0 DEF TypeOK, Calls
<1>4. CASE Land(c)
  <2> DEFINE k == [call[c] EXCEPT !.stage = "landed"]
  <2>1. call' = [call EXCEPT ![c] = k] /\ call[c].stage = "sent" BY <1>4 DEF Land
  <2>2. k \in Calls /\ k.verb = call[c].verb /\ k.to = call[c].to /\ k.id = call[c].id /\ k.stage = "landed"
    BY <1>3 DEF Calls, Stages
  <2> HIDE DEF k
  <2> QED BY <1>1, <1>2, <2>1, <2>2, CallStep
<1>5. CASE LoseCall(c)
  <2>1. call' = [call EXCEPT ![c] = NoCall] BY <1>5 DEF LoseCall
  <2> QED BY <1>1, <1>2, <2>1, CallFacts, CallStep
<1>6. CASE WakeThere(c)
  <2> DEFINE ids == Bound(call[c].to)
  <2>1. ids \in SUBSET Ids /\ ids # {} /\ ids \subseteq named /\ Finish(c, "yes", ids) BY <1>0, <1>6 DEF WakeThere, Bound, TypeOK
  <2>2. call[c].verb = "create" /\ call[c].stage = "landed" BY <1>6 DEF WakeThere, At
  <2>3. \A i \in ids : Of(i, call[c].to) BY <1>0 DEF World, Bound, Of
  <2> HIDE DEF ids
  <2>4. PICK k \in Calls : call' = [call EXCEPT ![c] = k]
          /\ (k.stage = "none" \/ (k.stage = "yes" /\ k.id = ids /\ k.verb = call[c].verb /\ k.to = call[c].to))
    BY <2>1, Finished
  <2> QED BY <1>1, <1>2, <2>1, <2>2, <2>3, <2>4, CallStep
<1>7. CASE FailThere(c)
  <2>1. Finish(c, "no", call[c].id) /\ call[c].stage = "landed" BY <1>7 DEF FailThere
  <2>2. PICK k \in Calls : call' = [call EXCEPT ![c] = k]
          /\ (k.stage = "none" \/ (k.stage = "no" /\ k.id = call[c].id /\ k.verb = call[c].verb /\ k.to = call[c].to))
    BY <1>3, <2>1, Finished
  <2>3. (\A i \in call[c].id : Of(i, call[c].to)) /\ (call[c].verb = "destroy" => call[c].id \subseteq named)
    BY <1>0, <2>1 DEF ClientOK, Said
  <2> QED BY <1>1, <1>2, <2>1, <2>2, <2>3, CallStep
<1> QED BY <1>4, <1>5, <1>6, <1>7

-----------------------------------------------------------------------------
(* Sandboxes end and members go: nothing is said that stops being true. *)
LEMMA EndStep ==
  ASSUME LInv, TypeOK', UNCHANGED <<pc, op, goal, slot, named, restarts>>,
         \A i \in Ids : home'[i] = home[i] \/ (home'[i] = Nowhere /\ i \in dead'),
         \A i \in Ids : home'[i] # Nowhere => home'[i] \in members' /\ i \notin dead',
         dead \subseteq dead', shut' \subseteq shut, shut' \subseteq members', cache' \subseteq cache,
         \A d \in Clients : /\ look'[d].asked = look[d].asked /\ look'[d].yes = look[d].yes
                            /\ (look'[d].mute <=> look[d].mute)
                            /\ \A i \in look'[d].there : i \in look[d].there /\ home'[i] = home[i],
         \A d \in Clients :
           \/ call'[d].stage = "none"
           \/ call'[d] = call[d] /\ call[d].to \in members'
           \/ /\ call'[d].stage = "yes" /\ call[d].stage # "none" /\ call[d].verb \in {"destroy", "kill"}
              /\ call'[d].verb = call[d].verb /\ call'[d].to = call[d].to /\ call'[d].id = call[d].id
              /\ call[d].to \in members' /\ \A i \in call[d].id : home'[i] = Nowhere
  PROVE  LInv'
<1>0. TypeOK /\ World /\ \A d \in Clients : ClientOK(d) BY DEF LInv
<1>1. \A i \in Ids : home[i] = Nowhere => home'[i] = Nowhere BY <1>0 DEF World
<1>2. \A i \in Ids : \A n : Of(i, n) => Of(i, n)' BY <1>1 DEF Of, Unborn
<1>3. \A i \in Ids : i \notin Unborn => i \notin Unborn' BY DEF Unborn
<1>4. \A d \in Clients : Builds(d)' => Builds(d) /\ call'[d] = call[d] BY DEF Builds
<1>5. named \subseteq Ids /\ named' = named BY <1>0 DEF TypeOK
<1>6. Places' \subseteq Places
  <2> SUFFICES ASSUME NEW n \in Places' PROVE n \in Places OBVIOUS
  <2>1. n \in Nodes BY DEF Places
  <2>2. CASE \E i \in named : home'[i] = n
    <3>1. PICK i \in named : home'[i] = n BY <2>2
    <3>2. home[i] = n BY <1>5, <2>1, <3>1
    <3> QED BY <2>1, <3>1, <3>2 DEF Places
  <2>3. CASE \E d \in Clients : Builds(d)' /\ call'[d].to = n
    <3>1. PICK d \in Clients : Builds(d)' /\ call'[d].to = n BY <2>3
    <3> QED BY <1>4, <2>1, <3>1 DEF Places
  <2> QED BY <1>5, <2>2, <2>3 DEF Places
<1>7. World'
  <2>1. \A i, j \in Alive' : i = j
    <3>1. Alive' \subseteq Alive BY <1>1, <1>5 DEF Alive
    <3> QED BY <1>0, <3>1 DEF World
  <2>2. \A e \in cache' : e.id \in named' /\ Of(e.id, e.node)'
    BY <1>0, <1>2, <1>5 DEF World
  <2>3. \A m, n \in Places' : m = n BY <1>0, <1>6 DEF World
  <2>4. \A i \in named' : i \notin Unborn' BY <1>0, <1>3, <1>5 DEF World
  <2> QED BY <2>1, <2>2, <2>3, <2>4 DEF World
<1>8. ASSUME NEW d \in Clients PROVE ClientOK(d)'
  <2>1. Orderly(d) /\ Said(d) /\ Heard(d) /\ Seen(d) BY <1>0 DEF ClientOK
  <2>2. Orderly(d)' BY <1>4, <2>1 DEF Orderly, Builds
  <2>3. Said(d)'
    <3>1. goal[d] \subseteq Entries /\ call[d].id \subseteq Ids
      <4>1. call[d] \in Calls BY <1>0 DEF TypeOK
      <4> QED BY <1>0, <4>1 DEF TypeOK, Calls
    <3>2. \A e \in goal[d] : e.id \in Ids BY <3>1 DEF Entries
    <3>3. \A e \in goal'[d] : Of(e.id, e.node)' BY <1>2, <2>1, <3>2 DEF Said
    <3>4. \A i \in Ids, n \in Nodes : <<i, n>> \in look'[d].yes => i \in named' /\ Of(i, n)'
      BY <1>2, <1>5, <2>1 DEF Said
    <3>5. (call[d].stage # "none" => \A i \in call[d].id : Of(i, call[d].to))'
      <4> SUFFICES ASSUME call'[d].stage # "none", NEW i \in call'[d].id PROVE Of(i, call[d].to)' OBVIOUS
      <4>1. i \in call[d].id /\ call'[d].to = call[d].to /\ call[d].stage # "none" OBVIOUS
      <4>2. i \in Ids /\ Of(i, call[d].to) BY <2>1, <3>1, <4>1 DEF Said
      <4> QED BY <1>1, <4>1, <4>2 DEF Of, Unborn
    <3>6. call'[d].stage = "yes" /\ call'[d].verb \in {"destroy", "kill"} => \A i \in call'[d].id : home'[i] = Nowhere
      BY <1>1, <2>1, <3>1 DEF Said
    <3>7. /\ call'[d].stage = "yes" /\ call'[d].verb \notin {"destroy", "kill"} => call'[d].id # {}
          /\ call'[d].stage = "yes" /\ call'[d].verb = "create" => call'[d].id \subseteq named'
          /\ call'[d].stage # "none" /\ call'[d].verb = "destroy" => call'[d].id \subseteq named'
      BY <1>5, <2>1 DEF Said
    <3>8. pc'[d] = "confirm" => \A e \in goal'[d] : e.id \in named' BY <1>5, <2>1 DEF Said
    <3> QED BY <3>3, <3>4, <3>5, <3>6, <3>7, <3>8 DEF Said
  <2>4. Heard(d)' BY <1>6, <2>1 DEF Heard
  <2>5. Seen(d)' BY <2>1 DEF Seen
  <2> QED BY <2>2, <2>3, <2>4, <2>5 DEF ClientOK
<1> QED BY <1>7, <1>8 DEF LInv

LEMMA UnseenFacts ==
  ASSUME TypeOK, NEW gone, look' = Unseen(gone)
  PROVE  /\ look' \in [Clients -> Rounds]
         /\ \A d \in Clients : /\ look'[d].asked = look[d].asked /\ look'[d].yes = look[d].yes
                               /\ (look'[d].mute <=> look[d].mute) /\ look'[d].there = look[d].there \ gone
<1>1. look' = [d \in Clients |-> [look[d] EXCEPT !.there = look[d].there \ gone]] BY DEF Unseen
<1>2. ASSUME NEW d \in Clients
      PROVE  /\ look'[d] \in Rounds /\ look'[d].asked = look[d].asked /\ look'[d].yes = look[d].yes
             /\ (look'[d].mute <=> look[d].mute) /\ look'[d].there = look[d].there \ gone
  <2>1. look[d] \in Rounds BY DEF TypeOK
  <2>2. look'[d] = [look[d] EXCEPT !.there = look[d].there \ gone] BY <1>1
  <2> QED BY <2>1, <2>2 DEF Rounds
<1> QED BY <1>1, <1>2

LEMMA BuryFacts ==
  ASSUME TypeOK, World, NEW gone \in SUBSET Ids, Bury(gone)
  PROVE  /\ home' \in [Ids -> Nodes \cup {Nowhere}] /\ dead' \subseteq Ids /\ UNCHANGED <<named, ops>>
         /\ dead \subseteq dead'
         /\ \A i \in Ids : home'[i] = IF i \in gone THEN Nowhere ELSE home[i]
         /\ \A i \in Ids : home'[i] = home[i] \/ (home'[i] = Nowhere /\ i \in dead')
         /\ \A i \in Ids : home'[i] # Nowhere => i \notin dead' /\ home[i] \in members
  BY DEF TypeOK, World, Bury

LEMMA DestroyStep ==
  ASSUME LInv, NEW c \in Clients, DestroyThere(c)
  PROVE  LInv'
<1> DEFINE gone == IF call[c].verb = "destroy" THEN Bound(call[c].to)
                   ELSE {i \in call[c].id : home[i] = call[c].to}
<1>0. TypeOK /\ World /\ \A d \in Clients : ClientOK(d) BY DEF LInv
<1>1. /\ call[c].stage = "landed" /\ call[c].verb \in {"destroy", "kill"} /\ Finish(c, "yes", call[c].id)
      /\ UNCHANGED <<view, cache, slot, pc, op, goal, placed, placedIds, slack, restarts>>
  BY DEF DestroyThere, At
<1>2. Bury(gone) /\ look' = Unseen(gone) /\ standing' = [n \in Nodes |-> standing[n] \ gone] BY DEF DestroyThere
<1>3. call[c] \in Calls /\ call[c].id \in SUBSET Ids
  <2>1. call[c] \in Calls BY <1>0 DEF TypeOK
  <2> QED BY <2>1 DEF Calls
<1>4. gone \in SUBSET Ids BY <1>0, <1>3 DEF Bound, TypeOK
<1>5. \A i \in call[c].id : home[i] # Nowhere => i \in gone
  <2> SUFFICES ASSUME NEW i \in call[c].id, home[i] # Nowhere PROVE i \in gone OBVIOUS
  <2>1. Of(i, call[c].to) /\ (call[c].verb = "destroy" => i \in named) BY <1>0, <1>1 DEF ClientOK, Said
  <2>2. home[i] = call[c].to BY <2>1 DEF Of
  <2> QED BY <1>1, <2>1, <2>2 DEF Bound
<1>6. PICK k \in Calls : call' = [call EXCEPT ![c] = k]
        /\ (k.stage = "none" \/ (k.stage = "yes" /\ k.id = call[c].id /\ k.verb = call[c].verb /\ k.to = call[c].to))
  BY <1>1, <1>3, Finished
<1> HIDE DEF gone
<1>7. call'[c] = k /\ \A d \in Clients \ {c} : call'[d] = call[d] BY <1>0, <1>6 DEF TypeOK
<1>8. UNCHANGED <<members, shut>> BY <1>1 DEF view
<1>9. /\ home' \in [Ids -> Nodes \cup {Nowhere}] /\ dead' \subseteq Ids /\ UNCHANGED <<named, ops>>
      /\ dead \subseteq dead'
      /\ \A i \in Ids : home'[i] = IF i \in gone THEN Nowhere ELSE home[i]
      /\ \A i \in Ids : home'[i] = home[i] \/ (home'[i] = Nowhere /\ i \in dead')
      /\ \A i \in Ids : home'[i] # Nowhere => i \notin dead' /\ home[i] \in members
  BY <1>0, <1>2, <1>4, BuryFacts
<1>10. /\ look' \in [Clients -> Rounds]
       /\ \A d \in Clients : /\ look'[d].asked = look[d].asked /\ look'[d].yes = look[d].yes
                             /\ (look'[d].mute <=> look[d].mute) /\ look'[d].there = look[d].there \ gone
  BY <1>0, <1>2, UnseenFacts
<1>11. TypeOK'
  <2>1. standing' \in [Nodes -> SUBSET (Clients \cup Ids)] BY <1>0, <1>2 DEF TypeOK
  <2>2. call' \in [Clients -> Calls] BY <1>0, <1>6 DEF TypeOK
  <2> QED BY <1>0, <1>1, <1>8, <1>9, <1>10, <2>1, <2>2 DEF TypeOK
<1>12. \A d \in Clients : \A i \in look'[d].there : i \in look[d].there /\ home'[i] = home[i]
  <2> SUFFICES ASSUME NEW d \in Clients, NEW i \in look'[d].there PROVE i \in look[d].there /\ home'[i] = home[i]
    OBVIOUS
  <2>1. i \in look[d].there /\ i \notin gone BY <1>10
  <2>2. i \in Ids BY <1>0, <2>1 DEF ClientOK, Seen, TypeOK
  <2> QED BY <1>9, <2>1, <2>2
<1>13. \A d \in Clients :
         \/ call'[d].stage = "none"
         \/ call'[d] = call[d] /\ call[d].to \in members'
         \/ /\ call'[d].stage = "yes" /\ call[d].stage # "none" /\ call[d].verb \in {"destroy", "kill"}
            /\ call'[d].verb = call[d].verb /\ call'[d].to = call[d].to /\ call'[d].id = call[d].id
            /\ call[d].to \in members' /\ \A i \in call[d].id : home'[i] = Nowhere
  <2>1. \A d \in Clients : call[d].stage # "none" => call[d].to \in members' BY <1>0, <1>8 DEF ClientOK, Orderly
  <2>2. \A i \in call[c].id : home'[i] = Nowhere
    <3> SUFFICES ASSUME NEW i \in call[c].id PROVE home'[i] = Nowhere OBVIOUS
    <3>1. i \in Ids BY <1>3
    <3> QED BY <1>5, <1>9, <3>1
  <2>3. ASSUME NEW d \in Clients \ {c}
        PROVE  call'[d].stage = "none" \/ (call'[d] = call[d] /\ call[d].to \in members')
    BY <1>7, <2>1
  <2> QED BY <1>1, <1>6, <1>7, <2>1, <2>2, <2>3
<1>14. World BY <1>0
<1>15. UNCHANGED <<pc, op, goal, slot, named, restarts>> BY <1>1, <1>9
<1>16. \A i \in Ids : home'[i] # Nowhere => home'[i] \in members' /\ i \notin dead' BY <1>8, <1>9
<1>17. shut' \subseteq shut /\ shut' \subseteq members' /\ cache' \subseteq cache BY <1>1, <1>8, <1>14 DEF World
<1> QED BY <1>9, <1>10, <1>11, <1>12, <1>13, <1>15, <1>16, <1>17, EndStep

LEMMA ExpireStep ==
  ASSUME LInv, NEW i \in Ids, Expire(i)
  PROVE  LInv'
<1>0. TypeOK /\ World /\ \A d \in Clients : ClientOK(d) BY DEF LInv
<1>1. Bury({i}) /\ look' = Unseen({i}) /\ standing' = [n \in Nodes |-> standing[n] \ {i}]
      /\ UNCHANGED <<view, cache, slot, pc, op, goal, call, placed, placedIds, slack, restarts>>
  BY DEF Expire
<1>2. UNCHANGED <<members, shut>> BY <1>1 DEF view
<1>3. /\ home' \in [Ids -> Nodes \cup {Nowhere}] /\ dead' \subseteq Ids /\ UNCHANGED <<named, ops>>
      /\ dead \subseteq dead'
      /\ \A j \in Ids : home'[j] = IF j \in {i} THEN Nowhere ELSE home[j]
      /\ \A j \in Ids : home'[j] = home[j] \/ (home'[j] = Nowhere /\ j \in dead')
      /\ \A j \in Ids : home'[j] # Nowhere => j \notin dead' /\ home[j] \in members
  BY <1>0, <1>1, BuryFacts
<1>4. /\ look' \in [Clients -> Rounds]
      /\ \A d \in Clients : /\ look'[d].asked = look[d].asked /\ look'[d].yes = look[d].yes
                            /\ (look'[d].mute <=> look[d].mute) /\ look'[d].there = look[d].there \ {i}
  BY <1>0, <1>1, UnseenFacts
<1>5. TypeOK'
  <2>1. standing' \in [Nodes -> SUBSET (Clients \cup Ids)] BY <1>0, <1>1 DEF TypeOK
  <2> QED BY <1>0, <1>1, <1>2, <1>3, <1>4, <2>1 DEF TypeOK
<1>6. \A d \in Clients : \A j \in look'[d].there : j \in look[d].there /\ home'[j] = home[j]
  <2> SUFFICES ASSUME NEW d \in Clients, NEW j \in look'[d].there PROVE j \in look[d].there /\ home'[j] = home[j]
    OBVIOUS
  <2>1. j \in look[d].there /\ j \notin {i} BY <1>4
  <2>2. j \in Ids BY <1>0, <2>1 DEF ClientOK, Seen, TypeOK
  <2> QED BY <1>3, <2>1, <2>2
<1>7. \A d \in Clients : call'[d].stage = "none" \/ (call'[d] = call[d] /\ call[d].to \in members')
  BY <1>0, <1>1, <1>2 DEF ClientOK, Orderly
<1>8. UNCHANGED <<pc, op, goal, slot, named, restarts>> BY <1>1, <1>3
<1>9. \A j \in Ids : home'[j] # Nowhere => home'[j] \in members' /\ j \notin dead' BY <1>2, <1>3
<1>10. shut' \subseteq shut /\ shut' \subseteq members' /\ cache' \subseteq cache BY <1>0, <1>1, <1>2 DEF World
<1> QED BY <1>3, <1>4, <1>5, <1>6, <1>7, <1>8, <1>9, <1>10, EndStep

LEMMA RemoveStep ==
  ASSUME ~Returns, LInv, NEW n \in Nodes, Remove(n)
  PROVE  LInv'
<1> DEFINE gone == {i \in Ids : home[i] = n}
<1>0. TypeOK /\ World /\ \A d \in Clients : ClientOK(d) BY DEF LInv
<1>1. /\ n \in members /\ members' = members \ {n} /\ shut' = shut \ {n} /\ cache' = {x \in cache : x.node # n}
      /\ Bury(gone) /\ Reset(n) /\ UNCHANGED <<slot, pc, op, goal, restarts>>
      /\ call' = [c \in Clients |-> IF call[c].to # n THEN call[c] ELSE NoCall]
  BY DEF Remove
<1>2. gone \in SUBSET Ids OBVIOUS
<1>3. /\ home' \in [Ids -> Nodes \cup {Nowhere}] /\ dead' \subseteq Ids /\ UNCHANGED <<named, ops>>
      /\ dead \subseteq dead'
      /\ \A i \in Ids : home'[i] = IF i \in gone THEN Nowhere ELSE home[i]
      /\ \A i \in Ids : home'[i] = home[i] \/ (home'[i] = Nowhere /\ i \in dead')
      /\ \A i \in Ids : home'[i] # Nowhere => i \notin dead' /\ home[i] \in members
  BY <1>0, <1>1, <1>2, BuryFacts
<1>4. ASSUME NEW d \in Clients
      PROVE  /\ look'[d] \in Rounds /\ look'[d].asked = look[d].asked /\ look'[d].yes = look[d].yes
             /\ (look'[d].mute <=> look[d].mute) /\ look'[d].there = {i \in look[d].there : home[i] # n}
  <2>1. look[d] \in Rounds BY <1>0 DEF TypeOK
  <2>2. look'[d] = [look[d] EXCEPT !.there = {i \in look[d].there : home[i] # n}] BY DEF Remove
  <2> QED BY <2>1, <2>2 DEF Rounds
<1>5. look' \in [Clients -> Rounds]
  <2>1. look' = [d \in Clients |-> look'[d]] BY DEF Remove
  <2> QED BY <1>4, <2>1
<1>6. TypeOK'
  <2>1. call' \in [Clients -> Calls] BY <1>0, <1>1, CallFacts DEF TypeOK
  <2>2. placed' \in [Nodes -> Nat] /\ placedIds' \in [Nodes -> SUBSET Ids]
        /\ standing' \in [Nodes -> SUBSET (Clients \cup Ids)] /\ slack' \in [Nodes -> Nat]
    BY <1>0, <1>1 DEF TypeOK, Reset
  <2> HIDE DEF gone
  <2> QED BY <1>0, <1>1, <1>3, <1>5, <2>1, <2>2 DEF TypeOK
<1>7. \A d \in Clients : \A i \in look'[d].there : i \in look[d].there /\ home'[i] = home[i]
  <2> SUFFICES ASSUME NEW d \in Clients, NEW i \in look'[d].there PROVE i \in look[d].there /\ home'[i] = home[i]
    OBVIOUS
  <2>1. i \in look[d].there /\ home[i] # n BY <1>4
  <2>2. i \in Ids BY <1>0, <2>1 DEF ClientOK, Seen, TypeOK
  <2> QED BY <1>3, <2>1, <2>2
<1>8. \A d \in Clients : call'[d].stage = "none" \/ (call'[d] = call[d] /\ call[d].to \in members')
  BY <1>0, <1>1, CallFacts DEF ClientOK, Orderly
<1>9. UNCHANGED <<pc, op, goal, slot, named, restarts>> BY <1>1, <1>3
<1>10. \A i \in Ids : home'[i] # Nowhere => home'[i] \in members' /\ i \notin dead' BY <1>1, <1>3
<1>11. shut' \subseteq shut /\ shut' \subseteq members' /\ cache' \subseteq cache BY <1>0, <1>1 DEF World
<1> HIDE DEF gone
<1> QED BY <1>3, <1>4, <1>6, <1>7, <1>8, <1>9, <1>10, <1>11, EndStep

-----------------------------------------------------------------------------
(* A birth: of the name only at its one site, and nowhere else. *)
LEMMA BuildStep ==
  ASSUME LInv, NEW c \in Clients, BuildThere(c)
  PROVE  LInv'
<1>0. TypeOK /\ World /\ \A d \in Clients : ClientOK(d) BY DEF LInv
<1>1. /\ call[c].stage = "landed" /\ call[c].verb \in {"create", "spawn"}
      /\ call[c].verb = "create" => Bound(call[c].to) = {}
      /\ UNCHANGED <<view, dead, ops, cache, slot, pc, op, goal, look, placed, placedIds, slack, restarts>>
  BY DEF BuildThere, At
<1>2. PICK i \in Unborn :
       /\ home' = [home EXCEPT ![i] = call[c].to]
       /\ named' = IF call[c].verb = "create" THEN named \cup {i} ELSE named
       /\ standing' = [n \in Nodes |-> IF c \in standing[n] THEN (standing[n] \ {c}) \cup {i} ELSE standing[n]]
       /\ Finish(c, "yes", {i})
  BY DEF BuildThere
<1>3. call[c].to \in members /\ call[c].to \in Nodes BY <1>0, <1>1 DEF ClientOK, Orderly, TypeOK
<1>4. PICK at \in Nodes : at = call[c].to BY <1>3
<1>5. UNCHANGED <<members, shut>> BY <1>1 DEF view
<1>6. i \in Ids /\ home[i] = Nowhere /\ i \notin dead /\ i \notin named BY <1>0 DEF Unborn, World
<1>7. PICK k \in Calls : call' = [call EXCEPT ![c] = k]
        /\ (k.stage = "none" \/ (k.stage = "yes" /\ k.id = {i} /\ k.verb = call[c].verb /\ k.to = at))
  BY <1>2, <1>6, <1>4, Finished
<1>8. call'[c] = k /\ \A d \in Clients \ {c} : call'[d] = call[d] BY <1>0, <1>7 DEF TypeOK
<1>9. at \in members /\ at \in Nodes /\ at # Nowhere BY <1>3, <1>4
<1>10. home'[i] = at /\ \A j \in Ids \ {i} : home'[j] = home[j] BY <1>0, <1>2, <1>6, <1>4 DEF TypeOK
<1>11. named \subseteq named' /\ named' \subseteq named \cup {i} /\ named \subseteq Ids
      /\ (call[c].verb = "create" => named' = named \cup {i}) /\ (call[c].verb # "create" => named' = named)
  BY <1>0, <1>2 DEF TypeOK
<1>12. TypeOK'
  <2>1. home' \in [Ids -> Nodes \cup {Nowhere}] BY <1>0, <1>2, <1>3 DEF TypeOK
  <2>2. standing' \in [Nodes -> SUBSET (Clients \cup Ids)] BY <1>0, <1>2, <1>6 DEF TypeOK
  <2>3. call' \in [Clients -> Calls] BY <1>0, <1>7 DEF TypeOK
  <2>4. named' \subseteq Ids BY <1>6, <1>11
  <2> QED BY <1>0, <1>1, <1>5, <2>1, <2>2, <2>3, <2>4 DEF TypeOK
<1>13. \A j \in Ids : \A n : Of(j, n) => Of(j, n)' BY <1>1, <1>6, <1>10 DEF Of, Unborn
<1>14. Of(i, at)' BY <1>6, <1>9, <1>10 DEF Of, Unborn
<1>15. \A j \in Ids : j \notin Unborn => j \notin Unborn' /\ home'[j] = home[j]
  BY <1>1, <1>6, <1>10 DEF Unborn
<1>16. \A d \in Clients : Builds(d)' => Builds(d) /\ call'[d] = call[d] BY <1>7, <1>8 DEF Builds
<1>17. call[c].verb = "create" => at \in Places BY <1>1, <1>9, <1>4 DEF Places, Builds
<1>18. Places' \subseteq Places
  <2> SUFFICES ASSUME NEW n \in Places' PROVE n \in Places OBVIOUS
  <2>1. n \in Nodes BY DEF Places
  <2>2. ASSUME NEW j \in named', home'[j] = n PROVE n \in Places
    <3>1. CASE j = i BY <1>6, <1>10, <1>11, <1>17, <2>2, <3>1
    <3>2. CASE j # i
      <4>1. j \in named /\ home[j] = n BY <1>10, <1>11, <2>2, <3>2
      <4> QED BY <2>1, <4>1 DEF Places
    <3> QED BY <3>1, <3>2
  <2>3. ASSUME NEW d \in Clients, Builds(d)', call'[d].to = n PROVE n \in Places
    BY <1>16, <2>1, <2>3 DEF Places
  <2> QED BY <2>2, <2>3 DEF Places
<1>19. World'
  <2>1. \A j, l \in Alive' : j = l
    <3>1. CASE call[c].verb # "create"
      <4>1. Alive' = Alive BY <1>6, <1>10, <1>11, <3>1 DEF Alive
      <4> QED BY <1>0, <4>1 DEF World
    <3>2. CASE call[c].verb = "create"
      <4>1. ASSUME NEW j \in Alive PROVE FALSE
        <5>1. j \in named /\ home[j] \in Nodes BY <1>0, <4>1 DEF Alive, TypeOK
        <5>2. home[j] \in Places BY <5>1 DEF Places
        <5>3. home[j] = at BY <1>0, <1>17, <3>2, <5>2 DEF World
        <5> QED BY <1>1, <1>4, <3>2, <5>1, <5>3 DEF Bound
      <4>2. Alive' \subseteq {i}
        <5> SUFFICES ASSUME NEW j \in Alive' PROVE j = i OBVIOUS
        <5>1. j \in named' /\ home'[j] # Nowhere BY DEF Alive
        <5>2. j # i => j \in Alive BY <1>10, <1>11, <5>1 DEF Alive
        <5> QED BY <4>1, <5>2
      <4> QED BY <4>2
    <3> QED BY <3>1, <3>2
  <2>2. \A e \in cache' : e.id \in named' /\ Of(e.id, e.node)' BY <1>0, <1>1, <1>11, <1>13 DEF World
  <2>3. \A j \in named' : j \notin Unborn' BY <1>0, <1>11, <1>14, <1>15 DEF World, Of
  <2>4. \A j \in Ids : home'[j] # Nowhere => home'[j] \in members' /\ j \notin dead'
    BY <1>0, <1>1, <1>5, <1>6, <1>9, <1>10 DEF World
  <2>5. \A m, n \in Places' : m = n BY <1>0, <1>18 DEF World
  <2>6. shut' \subseteq members' BY <1>0, <1>5 DEF World
  <2> QED BY <2>1, <2>2, <2>3, <2>4, <2>5, <2>6 DEF World
<1>20. ASSUME NEW d \in Clients PROVE ClientOK(d)'
  <2>1. Orderly(d) /\ Said(d) /\ Heard(d) /\ Seen(d) BY <1>0 DEF ClientOK
  <2>2. Orderly(d)'
    <3>1. call'[d].stage # "none" => call'[d].to \in members' BY <1>5, <1>7, <1>8, <1>9, <2>1 DEF Orderly
    <3>2. call'[d].verb = "create" /\ call'[d].stage = "sent" => pc[d] = "await" /\ op[d] = "acquire"
      BY <1>7, <1>8, <2>1 DEF Orderly
    <3>3. Builds(d)' => call'[d].to \notin shut' BY <1>5, <1>16, <2>1 DEF Orderly
    <3> QED BY <1>1, <2>1, <3>1, <3>2, <3>3 DEF Orderly
  <2>3. Said(d)'
    <3>1. goal[d] \subseteq Entries /\ call[d].id \subseteq Ids
      <4>1. call[d] \in Calls BY <1>0 DEF TypeOK
      <4> QED BY <1>0, <4>1 DEF TypeOK, Calls
    <3>2. \A e \in goal[d] : e.id \in Ids BY <3>1 DEF Entries
    <3>3. \A e \in goal'[d] : Of(e.id, e.node)' BY <1>1, <1>13, <2>1, <3>2 DEF Said
    <3>4. \A j \in Ids, n \in Nodes : <<j, n>> \in look'[d].yes => j \in named' /\ Of(j, n)'
      BY <1>1, <1>11, <1>13, <2>1 DEF Said
    <3>5. pc'[d] = "confirm" => \A e \in goal'[d] : e.id \in named' BY <1>1, <1>11, <2>1 DEF Said
    <3>6. CASE call'[d] = call[d]
      <4>1. (call[d].stage # "none" => \A j \in call[d].id : Of(j, call[d].to))'
        <5> SUFFICES ASSUME call[d].stage # "none", NEW j \in call[d].id PROVE Of(j, call[d].to)' BY <3>6
        <5>1. j \in Ids /\ Of(j, call[d].to) BY <2>1, <3>1 DEF Said
        <5> QED BY <1>15, <3>6, <5>1 DEF Of
      <4>2. call'[d].stage = "yes" /\ call'[d].verb \in {"destroy", "kill"} => \A j \in call'[d].id : home'[j] = Nowhere
        <5> SUFFICES ASSUME call[d].stage = "yes", call[d].verb \in {"destroy", "kill"}, NEW j \in call[d].id
                     PROVE  home'[j] = Nowhere
          BY <3>6
        <5>1. j \in Ids /\ Of(j, call[d].to) /\ home[j] = Nowhere BY <2>1, <3>1 DEF Said
        <5> QED BY <1>15, <5>1 DEF Of
      <4> QED BY <1>11, <2>1, <3>3, <3>4, <3>5, <3>6, <4>1, <4>2 DEF Said
    <3>7. CASE d = c /\ k.stage = "none" BY <1>8, <3>3, <3>4, <3>5, <3>7 DEF Said
    <3>8. CASE d = c /\ k.stage = "yes" /\ k.id = {i} /\ k.verb = call[c].verb /\ k.to = at
      <4>1. call'[d].stage = "yes" /\ call'[d].id = {i} /\ call'[d].verb = call[c].verb /\ call'[d].to = at
        BY <1>8, <3>8
      <4>2. (\A j \in call[d].id : Of(j, call[d].to))' BY <1>14, <4>1 DEF Of
      <4> QED BY <1>1, <1>11, <3>3, <3>4, <3>5, <4>1, <4>2 DEF Said
    <3> QED BY <1>7, <1>8, <3>6, <3>7, <3>8
  <2>4. Heard(d)' BY <1>1, <1>18, <2>1 DEF Heard
  <2>5. Seen(d)'
    <3> SUFFICES ASSUME NEW j \in look[d].there
                 PROVE  /\ pc[d] = "ask" /\ j \in named' /\ home'[j] # Nowhere
                        /\ home'[j] \in look[d].asked \/ look[d].mute \/ <<j, home'[j]>> \in look[d].yes
      BY <1>1 DEF Seen
    <3>1. j \in named /\ j \in Ids /\ j # i BY <1>6, <1>11, <2>1 DEF Seen
    <3> QED BY <1>10, <1>11, <2>1, <3>1 DEF Seen
  <2> QED BY <2>2, <2>3, <2>4, <2>5 DEF ClientOK
<1> QED BY <1>12, <1>19, <1>20 DEF LInv

-----------------------------------------------------------------------------
(* The fleet's rows and counts, and the gateway's restart. *)
LEMMA CountFacts == \A S \in SUBSET (Clients \cup Ids) : IsFiniteSet(S) /\ Cardinality(S) \in Nat
<1>1. IsFiniteSet(Clients \cup Ids) BY FS_Union
<1> QED BY <1>1, FS_Subset, FS_CardinalityType

LEMMA DueFacts ==
  ASSUME TypeOK, NEW n \in Nodes
  PROVE  Due(n) \in SUBSET (Clients \cup Ids) /\ Underway(n) \in SUBSET Clients
  BY DEF TypeOK, Due, Underway, Calls

LEMMA CheckInCounts ==
  ASSUME TypeOK, NEW n \in Nodes, CheckIn(n)
  PROVE  Counted'
<1>1. placed' \in [Nodes -> Nat] /\ placedIds' \in [Nodes -> SUBSET Ids] BY DEF TypeOK, CheckIn
<1>2. standing' \in [Nodes -> SUBSET (Clients \cup Ids)] BY DueFacts DEF TypeOK, CheckIn
<1>3. Cardinality(Due(n)) \in Nat BY DueFacts, CountFacts
<1>4. slack' \in [Nodes -> Nat] BY <1>3 DEF TypeOK, CheckIn
<1> QED BY <1>1, <1>2, <1>4 DEF Counted

LEMMA FleetSteps ==
  ASSUME LInv, NEW n \in Nodes, CheckIn(n) \/ Join(n)
  PROVE  LInv'
<1>0. TypeOK /\ World /\ \A d \in Clients : ClientOK(d) BY DEF LInv
<1>1. UNCHANGED <<world, cache, handler, restarts>> BY DEF CheckIn, Join
<1>2. UNCHANGED <<home, named, dead, ops, cache, slot, pc, op, goal, look, call, restarts>>
  BY <1>1 DEF world, handler
<1>3. members \subseteq members' /\ members' \subseteq Nodes /\ shut' \subseteq members'
      /\ \A m \in shut' : m \in shut \/ m \notin members
  BY <1>0 DEF CheckIn, Join, World, TypeOK
<1>4. TypeOK'
  <2>1. ASSUME CheckIn(n) PROVE Counted' BY <1>0, <2>1, CheckInCounts
  <2>2. ASSUME Join(n) PROVE Counted' BY <1>0, <2>2 DEF TypeOK, Counted, Join, Reset
  <2>3. Counted' BY <2>1, <2>2
  <2> QED BY <1>0, <1>2, <1>3, <2>3 DEF TypeOK, Counted
<1>5. Places' = Places BY <1>2 DEF Places, Builds
<1>6. World' BY <1>0, <1>2, <1>3, <1>5 DEF World, Alive, Of, Unborn, TypeOK
<1>7. ASSUME NEW d \in Clients PROVE ClientOK(d)'
  <2>1. Orderly(d) /\ Said(d) /\ Heard(d) /\ Seen(d) BY <1>0 DEF ClientOK
  <2>2. Orderly(d)' BY <1>2, <1>3, <2>1 DEF Orderly, Builds
  <2>3. Said(d)' BY <1>2, <2>1 DEF Said, Of, Unborn
  <2>4. Heard(d)' BY <1>2, <1>5, <2>1 DEF Heard
  <2>5. Seen(d)' BY <1>2, <2>1 DEF Seen
  <2> QED BY <2>2, <2>3, <2>4, <2>5 DEF ClientOK
<1> QED BY <1>4, <1>6, <1>7 DEF LInv

LEMMA RestartStep ==
  ASSUME ~Overtaken, LInv, Restart
  PROVE  LInv'
<1>0. TypeOK /\ World /\ \A d \in Clients : ClientOK(d) BY DEF LInv
<1>1. /\ restarts' = restarts + 1 /\ restarts < MaxRestarts /\ cache' = {} /\ slot' = Free
      /\ pc' = [c \in Clients |-> "idle"] /\ op' = [c \in Clients |-> "use"]
      /\ goal' = [c \in Clients |-> {}] /\ look' = [c \in Clients |-> NoRound]
      /\ call' = [c \in Clients |-> Abandon(call[c])]
      /\ placed' = [n \in Nodes |-> 0] /\ placedIds' = [n \in Nodes |-> {}] /\ standing' = standing
      /\ slack' = [n \in Nodes |-> Cardinality(standing[n])]
      /\ UNCHANGED <<members, shut, home, named, dead, ops>>
  BY DEF Restart, view, world
<1>2. ASSUME NEW d \in Clients
      PROVE  /\ call'[d] \in Calls
             /\ \/ call'[d].stage = "none"
                \/ /\ call'[d].verb = call[d].verb /\ call'[d].to = call[d].to /\ call'[d].id = call[d].id
                   /\ call'[d].stage = "landed" /\ call[d].stage \in {"sent", "landed"}
  BY <1>0, <1>1, AbandonFacts DEF TypeOK
<1>3. TypeOK'
  <2>1. call' \in [Clients -> Calls] BY <1>1, <1>2
  <2>2. restarts' \in 0..MaxRestarts BY <1>0, <1>1 DEF TypeOK
  <2>3. slack' \in [Nodes -> Nat] BY <1>0, <1>1, CountFacts DEF TypeOK
  <2> QED BY <1>0, <1>1, <2>1, <2>2, <2>3, RoundFacts DEF TypeOK
<1>4. \A d \in Clients : Builds(d)' => Builds(d) /\ call'[d].to = call[d].to BY <1>2 DEF Builds
<1>5. Places' \subseteq Places BY <1>1, <1>4 DEF Places
<1>6. World' BY <1>0, <1>1, <1>5 DEF World, Alive, Of, Unborn
<1>7. ASSUME NEW d \in Clients PROVE ClientOK(d)'
  <2>1. Orderly(d) /\ Said(d) BY <1>0 DEF ClientOK
  <2>2. Orderly(d)' BY <1>1, <1>2, <1>4, <2>1 DEF Orderly
  <2>3. Said(d)' BY <1>1, <1>2, <2>1, RoundFacts DEF Said, Of, Unborn
  <2>4. Heard(d)' BY <1>1 DEF Heard
  <2>5. Seen(d)' BY <1>1, RoundFacts DEF Seen
  <2> QED BY <2>2, <2>3, <2>4, <2>5 DEF ClientOK
<1> QED BY <1>3, <1>6, <1>7 DEF LInv

LEMMA EvictStep == ASSUME LInv, Evict PROVE LInv'
<1>1. UNCHANGED <<members, shut, home, named, dead, ops, slot, pc, op, goal, look, call, placed, placedIds, standing, slack, restarts>>
      /\ cache' = {}
  BY DEF Evict, view, world, handler, counts
<1>2. TypeOK' BY <1>1 DEF LInv, TypeOK
<1>3. World' BY <1>1 DEF LInv, World, Places, Builds, Alive, Of, Unborn
<1>4. ASSUME NEW d \in Clients PROVE ClientOK(d)'
  <2>1. ClientOK(d) BY DEF LInv
  <2> QED BY <1>1, <2>1 DEF ClientOK, Orderly, Said, Heard, Seen, Places, Builds, Of, Unborn
<1> QED BY <1>2, <1>3, <1>4 DEF LInv

LEMMA StutterStep == ASSUME LInv, UNCHANGED vars PROVE LInv'
<1>1. UNCHANGED <<members, shut, home, named, dead, ops, cache, slot, pc, op, goal, look, call, placed, placedIds, standing, slack, restarts>>
  BY DEF vars, view, world, handler, counts
<1>2. TypeOK' BY <1>1 DEF LInv, TypeOK
<1>3. Places' = Places BY <1>1 DEF Places, Builds
<1>4. World' BY <1>1, <1>3 DEF LInv, World, Alive, Of, Unborn
<1>5. \A d \in Clients : ClientOK(d)' BY <1>1, <1>3 DEF LInv, ClientOK, Orderly, Builds, Said, Of, Unborn, Heard, Seen
<1> QED BY <1>2, <1>4, <1>5 DEF LInv

LEMMA NextL == ASSUME ~Overtaken, ~Returns, LInv, [Next]_vars PROVE LInv'
<1>1. ASSUME NEW c \in Clients, Callers(c) \/ Turn(c) PROVE LInv' BY <1>1, CallerSteps
<1>2. ASSUME NEW c \in Clients, Handling(c) PROVE LInv'
  BY <1>2, AnswerSteps, SeekStep, ConfirmStep, JudgeSteps, VerifySteps, LearnSteps, GiveUpStep DEF Handling
<1>3. ASSUME NEW c \in Clients, Serving(c) PROVE LInv' BY <1>3, ServeSteps, BuildStep, DestroyStep DEF Serving
<1>4. ASSUME NEW i \in Ids, Expire(i) PROVE LInv' BY <1>4, ExpireStep
<1>5. CASE Membership BY <1>5, FleetSteps, RemoveStep DEF Membership
<1>6. CASE Restart BY <1>6, RestartStep
<1>7. CASE Evict BY <1>7, EvictStep
<1>8. CASE UNCHANGED vars BY <1>8, StutterStep
<1> QED BY <1>1, <1>2, <1>3, <1>4, <1>5, <1>6, <1>7, <1>8 DEF Next

LEMMA AlwaysLInv == ASSUME ~Overtaken, ~Returns PROVE Spec => []LInv
<1>1. Init => LInv BY InitL
<1>2. LInv /\ [Next]_vars => LInv' BY NextL
<1> QED BY <1>1, <1>2, PTL DEF Spec

(* One site, one row, and all that keeps it so (create.ts 42-47, find.ts
   98-137): whatever was lost, given up, restarted or left half done, for any
   number of nodes, callers and births. *)
THEOREM AlwaysPInv == ASSUME ~Overtaken, ~Returns PROVE Spec => []PInv
<1>1. LInv => PInv BY LInvIsPInv
<1> QED BY <1>1, AlwaysLInv, PTL

(* "There is no such sandbox", and every placement, are said of a name that no
   member held all through the round of questions (find.ts 127-137). *)
THEOREM AlwaysNoneMeansGone == ASSUME ~Overtaken, ~Returns PROVE Spec => []NoneMeansGone
<1>1. LInv => NoneMeansGone
  <2> SUFFICES ASSUME LInv, NEW c \in Clients, Nobody(c) PROVE look[c].there = {} BY DEF NoneMeansGone
  <2>1. Seen(c) BY DEF LInv, ClientOK
  <2> QED BY <2>1 DEF Seen, Nobody, Answered
<1> QED BY <1>1, AlwaysLInv, PTL

-----------------------------------------------------------------------------
(* What the abstract directory sees of a step: nothing, an end, or a birth. *)
LEMMA WorldMoves ==
  ASSUME ~Returns, [Next]_vars, LInv
  PROVE  \/ named' = named /\ \A i \in Ids : home'[i] \in {home[i], Nowhere}
         \/ \E c \in Clients : BuildThere(c)
<1> DEFINE Quiet == named' = named /\ \A i \in Ids : home'[i] \in {home[i], Nowhere}
<1>0. TypeOK BY DEF LInv
<1>1. UNCHANGED world => Quiet BY DEF world
<1>2. ASSUME NEW gone, Bury(gone) PROVE Quiet BY <1>0, <1>2 DEF Bury, TypeOK
<1> HIDE DEF Quiet
<1>3. ASSUME NEW c \in Clients, Callers(c) \/ Turn(c) PROVE Quiet
  BY <1>1, <1>3 DEF Callers, Queue, Kill, Spawn, Use, LeaveLine, Turn
<1>4. ASSUME NEW c \in Clients, Handling(c) PROVE Quiet
  BY <1>1, <1>4 DEF Handling, AnswerYes, AnswerNo, NoAnswer, JudgeKill, Confirm, JudgeOne, Refuse, JudgeNone, Verify, Relayed,
                    LearnCreate, LearnDestroy, GiveUp
<1>5. ASSUME NEW c \in Clients, Serving(c) PROVE Quiet \/ BuildThere(c)
  <2>1. CASE Land(c) \/ LoseCall(c) \/ WakeThere(c) \/ FailThere(c)
    BY <1>1, <2>1 DEF Land, LoseCall, WakeThere, FailThere
  <2>2. CASE DestroyThere(c) BY <1>2, <2>2 DEF DestroyThere
  <2> QED BY <1>5, <2>1, <2>2 DEF Serving
<1>6. ASSUME NEW i \in Ids, Expire(i) PROVE Quiet BY <1>2, <1>6 DEF Expire
<1>7. ASSUME Membership PROVE Quiet
  <2>1. ASSUME NEW n \in Nodes, CheckIn(n) \/ Join(n) PROVE Quiet BY <1>1, <2>1 DEF CheckIn, Join
  <2>2. ASSUME NEW n \in Nodes, Remove(n) PROVE Quiet BY <1>2, <2>2 DEF Remove
  <2> QED BY <1>7, <2>1, <2>2 DEF Membership
<1>8. ASSUME Restart \/ Evict PROVE Quiet BY <1>1, <1>8 DEF Restart, Evict
<1>9. ASSUME UNCHANGED vars PROVE Quiet BY <1>1, <1>9 DEF vars
<1>10. Quiet \/ \E c \in Clients : BuildThere(c)
  BY <1>3, <1>4, <1>5, <1>6, <1>7, <1>8, <1>9 DEF Next
<1> QED BY <1>10 DEF Quiet

Lives == {<<i, home[i]>> : i \in Alive}

LEMMA HomesStep ==
  ASSUME ~Returns, [Next]_vars, LInv, LInv'
  PROVE  [Homes!Next]_Lives
<1>0. TypeOK /\ World /\ World' BY DEF LInv
<1>1. named \subseteq Ids BY <1>0 DEF TypeOK
<1>2. ASSUME named' = named, \A i \in Ids : home'[i] \in {home[i], Nowhere} PROVE [Homes!Next]_Lives
  <2>1. Alive' \subseteq Alive /\ \A i \in Alive' : home'[i] = home[i] BY <1>1, <1>2 DEF Alive
  <2>2. CASE Alive \subseteq Alive'
    <3>1. Alive' = Alive BY <2>1, <2>2
    <3>2. Lives' = Lives BY <2>1, <3>1 DEF Lives
    <3> QED BY <3>2
  <2>3. CASE ~(Alive \subseteq Alive')
    <3>1. PICK i \in Alive : i \notin Alive' BY <2>3
    <3>2. Alive' = {} BY <1>0, <2>1, <3>1 DEF World
    <3>3. Lives # {} /\ Lives' = {} BY <3>1, <3>2 DEF Lives
    <3> QED BY <3>3 DEF Homes!Next, Homes!End, Lives
  <2> QED BY <2>2, <2>3
<1>3. ASSUME NEW c \in Clients, BuildThere(c) PROVE [Homes!Next]_Lives
  <2>1. PICK i \in Unborn :
       /\ home' = [home EXCEPT ![i] = call[c].to]
       /\ named' = IF call[c].verb = "create" THEN named \cup {i} ELSE named
    BY <1>3 DEF BuildThere
  <2>2. i \in Ids /\ i \notin named /\ home[i] = Nowhere BY <1>0, <2>1 DEF Unborn, World
  <2>3. call[c].to \in Nodes
    <3>1. call[c].stage = "landed" /\ Orderly(c) BY <1>3 DEF BuildThere, At, LInv, ClientOK
    <3> QED BY <1>0, <3>1 DEF Orderly, TypeOK
  <2>4. home'[i] = call[c].to /\ \A j \in Ids \ {i} : home'[j] = home[j] BY <1>0, <2>1, <2>2 DEF TypeOK
  <2>5. CASE call[c].verb # "create"
    <3>1. named' = named BY <2>1, <2>5
    <3>2. Alive' = Alive /\ \A j \in Alive : home'[j] = home[j] BY <1>1, <2>2, <2>4, <3>1 DEF Alive
    <3>3. Lives' = Lives BY <3>2 DEF Lives
    <3> QED BY <3>3
  <2>6. CASE call[c].verb = "create"
    <3>1. named' = named \cup {i} BY <2>1, <2>6
    <3>2. i \in Alive' BY <2>2, <2>3, <2>4, <3>1 DEF Alive
    <3>3. Alive \subseteq Alive' /\ i \notin Alive BY <1>1, <2>2, <2>4, <3>1 DEF Alive
    <3>4. \A j, l \in Alive' : j = l BY <1>0 DEF World
    <3>5. Alive = {} /\ Alive' = {i} BY <3>2, <3>3, <3>4
    <3>6. Lives = {} /\ Lives' = {<<i, call[c].to>>} BY <2>4, <3>5 DEF Lives
    <3>7. Homes!Next BY <2>2, <2>3, <3>6 DEF Homes!Next, Homes!Build, Lives
    <3> QED BY <3>7
  <2> QED BY <2>5, <2>6
<1> QED BY <1>2, <1>3, WorldMoves

(* The gateway keeps the directory's promise: a name lives on one node at most
   and is built only where and when it lives nowhere (Directory). *)
THEOREM KeepsOneHome == ASSUME ~Overtaken, ~Returns PROVE Spec => OneHome
<1>1. Init => Homes!Init BY DEF Init, Homes!Init, Alive
<1>2. LInv /\ LInv' /\ [Next]_vars => [Homes!Next]_Lives BY HomesStep
<1> QED BY <1>1, <1>2, AlwaysLInv, PTL DEF Spec, OneHome, Homes!Spec, Lives

-----------------------------------------------------------------------------
LEMMA EntryStep ==
  ASSUME ~Returns, [Next]_vars, LInv, NEW e \in cache, home[e.id] = e.node, e.node \in members, cache' = {}
  PROVE  home'[e.id] # e.node \/ e.node \notin members' \/ restarts' # restarts \/ UNCHANGED handler
<1>0. TypeOK /\ World /\ \A c \in Clients : ClientOK(c) BY DEF LInv
<1>1. e \in Hits /\ cache' # cache /\ e.id \in Ids /\ e.node # Nowhere BY <1>0 DEF Hits, TypeOK, Entries
<1>2. ASSUME NEW c \in Clients, Callers(c) \/ Turn(c) PROVE FALSE
  BY <1>1, <1>2 DEF Callers, Queue, Kill, Spawn, Use, LeaveLine, Turn, Find
<1>3. ASSUME NEW c \in Clients, Handling(c) PROVE FALSE
  <2>1. CASE Confirm(c)
    <3>1. PICK x \in goal[c] : home[x.id] # x.node /\ cache' = {y \in cache : y.id # x.id}
      BY <1>1, <2>1 DEF Confirm
    <3>2. Of(x.id, x.node) /\ x.id = e.id BY <1>0, <1>1, <3>1 DEF ClientOK, Said
    <3> QED BY <1>1, <3>1, <3>2 DEF Of
  <2>2. CASE Verify(c)
    <3>1. PICK x \in goal[c] : (home[x.id] # x.node \/ x.node \notin members) /\ cache' = {y \in cache : y.id # x.id}
      BY <1>1, <2>2 DEF Verify
    <3>2. Of(x.id, x.node) /\ x.id = e.id BY <1>0, <1>1, <3>1 DEF ClientOK, Said
    <3> QED BY <1>1, <3>1, <3>2 DEF Of
  <2>3. CASE LearnCreate(c)
    <3>1. call[c].stage = "yes" /\ call[c].verb = "create" /\ cache' = {[id |-> i, node |-> call[c].to] : i \in call[c].id}
      BY <1>1, <2>3 DEF LearnCreate
    <3>2. call[c].id # {} BY <1>0, <3>1 DEF ClientOK, Said
    <3>3. PICK i \in call[c].id : TRUE BY <3>2
    <3>4. [id |-> i, node |-> call[c].to] \in {[id |-> j, node |-> call[c].to] : j \in call[c].id} BY <3>3
    <3> QED BY <3>1, <3>4
  <2>4. CASE LearnDestroy(c)
    <3>1. call[c].stage = "yes" /\ call[c].verb \in {"destroy", "kill"} /\ cache' = {x \in cache : x.id \notin call[c].id}
      BY <1>1, <2>4 DEF LearnDestroy
    <3>2. \A i \in call[c].id : home[i] = Nowhere BY <1>0, <3>1 DEF ClientOK, Said
    <3> QED BY <1>1, <3>1, <3>2
  <2> QED BY <1>1, <1>3, <2>1, <2>2, <2>3, <2>4
    DEF Handling, AnswerYes, AnswerNo, NoAnswer, JudgeKill, JudgeOne, Refuse, JudgeNone, Relayed, GiveUp
<1>4. ASSUME NEW c \in Clients, Serving(c) PROVE FALSE
  BY <1>1, <1>4 DEF Serving, Land, LoseCall, WakeThere, BuildThere, FailThere, DestroyThere
<1>5. ASSUME NEW i \in Ids, Expire(i) PROVE FALSE BY <1>1, <1>5 DEF Expire
<1>6. ASSUME NEW n \in Nodes, CheckIn(n) \/ Join(n) PROVE FALSE BY <1>1, <1>6 DEF CheckIn, Join
<1>7. ASSUME NEW n \in Nodes, Remove(n) PROVE e.node \notin members' BY <1>7 DEF Remove
<1>8. CASE Restart BY <1>0, <1>8 DEF Restart, TypeOK
<1>9. CASE UNCHANGED vars \/ Evict BY <1>9 DEF vars, Evict
<1> QED BY <1>2, <1>3, <1>4, <1>5, <1>6, <1>7, <1>8, <1>9 DEF Next, Membership

(* An entry leaves the cache only when its sandbox is gone, its node removed,
   the gateway restarted or the cache full: no late answer about an earlier sandbox takes it
   along (cache.ts forget, forward.ts 205-232). *)
THEOREM KeepsLiveEntry == ASSUME ~Overtaken, ~Returns PROVE Spec => LiveEntryStays
<1>1. LInv /\ [Next]_vars =>
        [\A e \in cache : home[e.id] = e.node /\ e.node \in members /\ cache' = {}
           => \/ home'[e.id] # e.node \/ e.node \notin members' \/ restarts' # restarts
              \/ UNCHANGED handler]_vars
  BY EntryStep
<1> QED BY <1>1, AlwaysLInv, PTL DEF Spec, LiveEntryStays

-----------------------------------------------------------------------------
(* GateKept.  What may still be taken off a node's count, or stands of it, is
   charged to it once: a placement that stands, one that failed and is not yet
   paid back, a sandbox whose destroy will be. *)
Placing(c) == call[c].placed /\ call[c].stage \in {"sent", "landed"}
Built(c, i) == call[c].placed /\ call[c].stage = "yes" /\ i \in call[c].id

(* A placed create builds the name where it was nowhere, alone on its way. *)
First(c) == Builds(c) /\ call[c].placed =>
  /\ \A i \in named : home[i] # call[c].to
  /\ \A d \in Clients \ {c} : ~Builds(d) /\ (pc[d] = "ask" /\ op[d] = "acquire" => look[d].yes = {})

Owes(c) ==
  /\ call[c].placed => call[c].verb \in {"create", "spawn"} /\ call[c].stage # "none"
  /\ pc[c] \notin {"idle", "await"} => call[c].stage = "none"
  /\ pc[c] = "await" /\ Placing(c) => c \in standing[call[c].to]
  /\ \A i \in Ids : Built(c, i) =>
       /\ \A n \in Nodes : i \notin placedIds[n]
       /\ \A d \in Clients \ {c} : ~Built(d, i)

Stands(n) ==
  /\ \A c \in Clients : c \in standing[n] => Placing(c) /\ call[c].to = n
  /\ \A i \in Ids : i \in standing[n] => home[i] = n
  /\ \A i \in placedIds[n] : Of(i, n)

Charged(n) ==
  standing[n] \cup placedIds[n]
    \cup {c \in Clients : call[c].placed /\ call[c].to = n /\ call[c].stage = "no"}
    \cup {i \in Ids : \E c \in Clients : Built(c, i) /\ call[c].to = n}

(* The count, and what the count may lack by creates under way at the reading. *)
Credit(n) == placed[n] + slack[n]

Affords(n) == IsFiniteSet(Charged(n)) /\ Cardinality(Charged(n)) <= Credit(n) /\ placed[n] <= Room

Firsts == \A c \in Clients : First(c)
Books == (\A c \in Clients : Owes(c)) /\ \A n \in Nodes : Stands(n) /\ Affords(n)
Gate == LInv /\ Firsts /\ Books

(* Counting. *)
LEMMA FewerCharged ==
  ASSUME NEW S, NEW T \in SUBSET S, NEW p \in Nat, IsFiniteSet(S), Cardinality(S) <= p
  PROVE  IsFiniteSet(T) /\ Cardinality(T) <= p
<1>1. IsFiniteSet(T) /\ Cardinality(T) <= Cardinality(S) BY FS_Subset
<1>2. Cardinality(T) \in Nat /\ Cardinality(S) \in Nat BY <1>1, FS_CardinalityType
<1> QED BY <1>1, <1>2

LEMMA OneMoreCharged ==
  ASSUME NEW S, NEW x, NEW T \in SUBSET (S \cup {x}), NEW p \in Nat, IsFiniteSet(S), Cardinality(S) <= p
  PROVE  IsFiniteSet(T) /\ Cardinality(T) <= p + 1
<1>1. IsFiniteSet(S \cup {x}) /\ Cardinality(S) \in Nat
      /\ Cardinality(S \cup {x}) = IF x \in S THEN Cardinality(S) ELSE Cardinality(S) + 1
  BY FS_AddElement, FS_CardinalityType
<1>2. Cardinality(S \cup {x}) <= p + 1 BY <1>1
<1> QED BY <1>1, <1>2, FewerCharged

LEMMA OneLessCharged ==
  ASSUME NEW S, NEW x \in S, NEW T \in SUBSET (S \ {x}), NEW p \in Nat, IsFiniteSet(S), Cardinality(S) <= p
  PROVE  p > 0 /\ IsFiniteSet(T) /\ Cardinality(T) <= p - 1
<1>1. IsFiniteSet(S \ {x}) /\ Cardinality(S) \in Nat /\ Cardinality(S \ {x}) \in Nat
      /\ Cardinality(S \ {x}) = Cardinality(S) - 1
  BY FS_RemoveElement, FS_CardinalityType
<1>2. p > 0 /\ p - 1 \in Nat /\ Cardinality(S \ {x}) <= p - 1 BY <1>1
<1> QED BY <1>1, <1>2, FewerCharged

LEMMA SwappedCharged ==
  ASSUME NEW S, NEW x \in S, NEW y, NEW T \in SUBSET ((S \ {x}) \cup {y}), NEW p \in Nat,
         IsFiniteSet(S), Cardinality(S) <= p
  PROVE  IsFiniteSet(T) /\ Cardinality(T) <= p
<1> DEFINE R == S \ {x}
           q == p - 1
<1>1. p > 0 /\ IsFiniteSet(R) /\ Cardinality(R) <= q BY OneLessCharged
<1>2. T \in SUBSET (R \cup {y}) /\ q \in Nat /\ q + 1 = p BY <1>1
<1> HIDE DEF R, q
<1>3. IsFiniteSet(T) /\ Cardinality(T) <= q + 1 BY <1>1, <1>2, OneMoreCharged
<1> QED BY <1>2, <1>3

LEMMA Credits == ASSUME LInv, NEW n \in Nodes PROVE placed[n] \in Nat /\ slack[n] \in Nat /\ Credit(n) \in Nat
  BY DEF LInv, TypeOK, Credit

(* A step that claims nothing: calls keep what they stand for or lose it, and
   each node's books stay, shrink, or start over. *)
Tame(d) ==
  /\ call'[d].placed =>
       /\ call[d].placed /\ call'[d].verb = call[d].verb /\ call'[d].to = call[d].to /\ call'[d].id = call[d].id
       /\ \/ call'[d].stage = call[d].stage
          \/ call'[d].stage = "landed" /\ call[d].stage = "sent"
          \/ call'[d].stage = "no" /\ call[d].stage = "landed" /\ pc[d] = "await"
  /\ pc'[d] = "await" /\ Placing(d)' => pc[d] = "await"
  /\ pc'[d] \notin {"idle", "await"} => call'[d].stage = "none"

Keeps(n) ==
  /\ placed'[n] = placed[n] /\ placedIds'[n] = placedIds[n] /\ slack'[n] = slack[n]
  /\ standing'[n] \subseteq standing[n]
  /\ \A d \in Clients : d \in standing[n] => (d \in standing'[n] <=> Placing(d)')
  /\ \A i \in Ids : i \in standing'[n] => home'[i] = home[i]

Anew(n) ==
  /\ placed'[n] = 0 /\ placedIds'[n] = {} /\ slack'[n] \in Nat
  /\ IsFiniteSet(Charged(n)') /\ Cardinality(Charged(n)') <= slack'[n]
  /\ \A d \in Clients : d \in standing'[n] => Placing(d)' /\ call'[d].to = n
  /\ \A i \in Ids : i \in standing'[n] => home'[i] = n
  /\ \A d \in Clients : pc'[d] = "await" /\ Placing(d)' /\ call'[d].to = n => d \in standing'[n]

LEMMA WipedAnew ==
  ASSUME NEW n \in Nodes, placed'[n] = 0, placedIds'[n] = {}, standing'[n] = {}, slack'[n] = 0,
         \A d \in Clients : ~(call'[d].placed /\ call'[d].to = n)
  PROVE  Anew(n)
<1>1. Charged(n)' = {} BY DEF Charged, Built
<1> QED BY <1>1, FS_EmptySet DEF Anew, Placing

LEMMA BooksStep ==
  ASSUME LInv, Books, \A d \in Clients : Tame(d), \A n \in Nodes : Keeps(n) \/ Anew(n),
         \A i \in Ids, n \in Nodes : Of(i, n) => Of(i, n)'
  PROVE  Books'
<1>0. TypeOK BY DEF LInv
<1>1. ASSUME NEW d \in Clients, NEW i \in Ids, Built(d, i)' PROVE Built(d, i) /\ call'[d].to = call[d].to
  BY <1>1 DEF Tame, Built
<1>2. ASSUME NEW d \in Clients PROVE Owes(d)'
  <2>1. Owes(d) /\ Orderly(d) BY DEF Books, LInv, ClientOK
  <2>2. pc'[d] = "await" /\ Placing(d)' => d \in standing'[call'[d].to]
    <3> SUFFICES ASSUME pc'[d] = "await", Placing(d)' PROVE d \in standing'[call[d].to] BY DEF Tame, Placing
    <3>1. Placing(d) /\ pc[d] = "await" /\ call'[d].to = call[d].to BY DEF Tame, Placing
    <3>2. call[d].to \in Nodes /\ d \in standing[call[d].to] BY <1>0, <2>1, <3>1 DEF Orderly, Owes, Placing, TypeOK
    <3>3. CASE Anew(call[d].to) BY <3>1, <3>2, <3>3 DEF Anew
    <3>4. CASE Keeps(call[d].to) BY <3>2, <3>4 DEF Keeps
    <3> QED BY <3>2, <3>3, <3>4
  <2>3. \A i \in Ids : Built(d, i)' =>
          (\A n \in Nodes : i \notin placedIds'[n]) /\ \A e \in Clients \ {d} : ~Built(e, i)'
    BY <1>1, <2>1 DEF Owes, Keeps, Anew
  <2> QED BY <2>1, <2>2, <2>3 DEF Owes, Tame
<1>3. ASSUME NEW n \in Nodes PROVE Stands(n)'
  <2>1. CASE Anew(n) BY <2>1 DEF Anew, Stands
  <2>2. CASE Keeps(n)
    <3>1. placedIds[n] \subseteq Ids /\ Stands(n) BY <1>0 DEF TypeOK, Books
    <3>2. \A c \in Clients : c \in standing'[n] => Placing(c)' /\ call'[c].to = n
      BY <2>2, <3>1 DEF Keeps, Stands, Tame, Placing
    <3>3. \A i \in Ids : i \in standing'[n] => home'[i] = n BY <2>2, <3>1 DEF Keeps, Stands
    <3> QED BY <2>2, <3>1, <3>2, <3>3 DEF Keeps, Stands
  <2> QED BY <2>1, <2>2
<1>4. ASSUME NEW n \in Nodes PROVE Affords(n)'
  <2>0. Affords(n) /\ Credit(n) \in Nat BY Credits DEF Books
  <2>1. CASE Anew(n)
    <3>1. placed'[n] <= Room /\ Credit(n)' = slack'[n] BY <2>1 DEF Anew, Credit
    <3> QED BY <2>1, <3>1 DEF Anew, Affords
  <2>2. CASE Keeps(n)
    <3>1. ASSUME NEW c \in Clients, call'[c].placed, call'[c].to = n, call'[c].stage = "no" PROVE c \in Charged(n)
      <4>1. call[c].placed /\ call[c].to = n BY <3>1 DEF Tame
      <4>2. call[c].stage = "no" \/ (pc[c] = "await" /\ Placing(c)) BY <3>1, <4>1 DEF Tame, Placing
      <4>3. pc[c] = "await" /\ Placing(c) => c \in standing[n] BY <4>1 DEF Books, Owes
      <4> QED BY <4>1, <4>2, <4>3 DEF Charged
    <3>2. Charged(n)' \in SUBSET Charged(n) BY <1>1, <2>2, <3>1 DEF Keeps, Charged
    <3>3. IsFiniteSet(Charged(n)') /\ Cardinality(Charged(n)') <= Credit(n) BY <2>0, <3>2, FewerCharged DEF Affords
    <3>4. Credit(n)' = Credit(n) BY <2>2 DEF Keeps, Credit
    <3> QED BY <2>0, <2>2, <3>3, <3>4 DEF Keeps, Affords
  <2> QED BY <2>1, <2>2
<1> QED BY <1>2, <1>3, <1>4 DEF Books

(* A step that brings no create, no sandbox and no yes. *)
LEMMA FirstsStep ==
  ASSUME LInv, Firsts,
         \A d \in Clients : Builds(d)' => Builds(d) /\ call'[d].to = call[d].to /\ (call'[d].placed => call[d].placed),
         \A i \in named' : i \in named /\ home'[i] \in {home[i], Nowhere},
         \A d \in Clients : pc'[d] = "ask" /\ op'[d] = "acquire" =>
           pc[d] = "ask" /\ op[d] = "acquire" /\ look'[d].yes = look[d].yes
  PROVE  Firsts'
<1> SUFFICES ASSUME NEW c \in Clients, Builds(c)', call'[c].placed PROVE First(c)' BY DEF Firsts, First
<1>1. Builds(c) /\ call[c].placed /\ First(c) /\ call'[c].to = call[c].to BY DEF Firsts
<1>2. call[c].to # Nowhere
  <2>1. Orderly(c) /\ TypeOK BY DEF LInv, ClientOK
  <2> QED BY <1>1, <2>1 DEF Orderly, Builds, TypeOK
<1>3. \A i \in named' : home'[i] # call'[c].to BY <1>1, <1>2 DEF First
<1>4. ASSUME NEW d \in Clients \ {c}
      PROVE  ~Builds(d)' /\ (pc'[d] = "ask" /\ op'[d] = "acquire" => look'[d].yes = {})
  BY <1>1 DEF First
<1> QED BY <1>3, <1>4 DEF First

(* A placed create is on its way: then no other create may start, and no
   creator hears a yes. *)
Placer == \E d \in Clients : Builds(d) /\ call[d].placed

LEMMA NoPlacer ==
  ASSUME LInv, Firsts, NEW i \in named, NEW n \in Nodes, home[i] = n
  PROVE  ~Placer
<1> SUFFICES ASSUME NEW d \in Clients, Builds(d), call[d].placed PROVE FALSE BY DEF Placer
<1>1. TypeOK /\ Orderly(d) BY DEF LInv, ClientOK
<1>2. call[d].to \in Places /\ n \in Places BY <1>1 DEF Places, Orderly, Builds, TypeOK
<1>3. call[d].to = n BY <1>2 DEF LInv, World
<1> QED BY <1>3 DEF Firsts, First

(* A handler with no call under way moves on, or sends one it placed nothing for. *)
Moves(c) ==
  /\ Others(c)
  /\ call'[c] = call[c] \/ (~call'[c].placed /\ pc'[c] \in {"idle", "await"})
  /\ Placer => /\ ~Builds(c)'
               /\ pc'[c] = "ask" /\ op'[c] = "acquire" =>
                    look'[c].yes = {} \/ (pc[c] = "ask" /\ op[c] = "acquire" /\ look'[c].yes = look[c].yes)

LEMMA MoveStep ==
  ASSUME Gate, NEW c \in Clients, call[c].stage = "none", Moves(c), UNCHANGED <<view, world, counts>>
  PROVE  Firsts' /\ Books'
<1>0. LInv /\ TypeOK BY DEF Gate, LInv
<1>1. \A d \in Clients \ {c} : pc'[d] = pc[d] /\ op'[d] = op[d] /\ look'[d] = look[d] /\ call'[d] = call[d]
  BY DEF Moves, Others
<1>2. UNCHANGED <<members, shut, home, named, dead, placed, placedIds, standing, slack>> BY DEF view, world, counts
<1>3. \A d \in Clients \ {c} : Builds(d)' = Builds(d) /\ Placing(d)' = Placing(d) BY <1>1 DEF Builds, Placing
<1>5. Books'
  <2>1. ASSUME NEW d \in Clients PROVE Tame(d)
    <3>1. CASE d = c
      <4>1. call'[c].placed => call'[c] = call[c] BY DEF Moves
      <4>2. ~(call'[c].placed /\ call'[c].stage \in {"sent", "landed"}) BY <4>1
      <4> QED BY <3>1, <4>1, <4>2 DEF Moves, Tame, Placing
    <3>2. CASE d # c
      <4>1. pc[d] \notin {"idle", "await"} => call[d].stage = "none" BY DEF Gate, Books, Owes
      <4> QED BY <1>1, <3>2, <4>1 DEF Tame
    <3> QED BY <3>1, <3>2
  <2>2. ASSUME NEW n \in Nodes PROVE Keeps(n)
    <3>1. \A d \in Clients : d \in standing[n] => Placing(d) BY DEF Gate, Books, Stands
    <3>2. c \notin standing[n] BY <3>1 DEF Placing
    <3> QED BY <1>2, <1>3, <3>1, <3>2 DEF Keeps
  <2>3. \A i \in Ids, n \in Nodes : Of(i, n) => Of(i, n)' BY <1>2 DEF Of, Unborn
  <2> QED BY <1>0, <2>1, <2>2, <2>3, BooksStep DEF Gate
<1>6. Firsts'
  <2> SUFFICES ASSUME NEW d \in Clients, Builds(d)', call'[d].placed PROVE First(d)' BY DEF Firsts, First
  <2>1. d # c BY DEF Moves, Builds
  <2>2. Builds(d) /\ call[d].placed /\ First(d) /\ Placer /\ call'[d] = call[d]
    BY <1>1, <1>3, <2>1 DEF Gate, Firsts, Placer
  <2>3. ASSUME NEW e \in Clients \ {d}
        PROVE  ~Builds(e)' /\ (pc'[e] = "ask" /\ op'[e] = "acquire" => look'[e].yes = {})
    BY <1>1, <1>3, <2>2 DEF First, Moves
  <2> QED BY <1>2, <2>2, <2>3 DEF First
<1> QED BY <1>5, <1>6

LEMMA Movings ==
  ASSUME ~Returns, LInv, NEW c \in Clients, call[c].stage = "none"
  PROVE  /\ Done(c) /\ UNCHANGED call => Moves(c)
         /\ \A o \in Verbs, p \in {"line", "seek", "confirm", "verify"}, g \in SUBSET Entries :
              Go(c, o, p, g) /\ UNCHANGED call => Moves(c)
         /\ \A o \in Verbs : AskAll(c, o) /\ UNCHANGED call => Moves(c)
         /\ \A o \in Verbs, v \in {"create", "destroy", "kill"}, e \in Entries :
              Send(c, o, v, e) /\ (v = "create" => ~Placer) => Moves(c)
<1>0. TypeOK BY DEF LInv
<1>1. ~Builds(c) BY DEF Builds
<1>2. ASSUME Done(c), UNCHANGED call PROVE Moves(c)
  <2>1. pc'[c] = "idle" /\ Others(c) BY <1>0, <1>2 DEF Done, TypeOK, Others
  <2> QED BY <1>1, <1>2, <2>1 DEF Moves, Builds
<1>3. ASSUME NEW o \in Verbs, NEW p \in {"line", "seek", "confirm", "verify"}, NEW g \in SUBSET Entries,
             Go(c, o, p, g), UNCHANGED call
      PROVE  Moves(c)
  <2>1. pc'[c] = p /\ Others(c) BY <1>0, <1>3 DEF Go, TypeOK, Others
  <2> QED BY <1>1, <1>3, <2>1 DEF Moves, Builds
<1>4. ASSUME NEW o \in Verbs, AskAll(c, o), UNCHANGED call PROVE Moves(c)
  <2>1. look'[c].yes = {} /\ Others(c) BY <1>0, <1>4 DEF AskAll, TypeOK, Others
  <2> QED BY <1>1, <1>4, <2>1 DEF Moves, Builds
<1>5. ASSUME NEW o \in Verbs, NEW v \in {"create", "destroy", "kill"}, NEW e \in Entries,
             Send(c, o, v, e), v = "create" => ~Placer
      PROVE  Moves(c)
  <2>1. pc'[c] = "await" /\ Others(c) BY <1>0, <1>5 DEF Send, TypeOK, Others
  <2>2. /\ ~call'[c].placed
        /\ call'[c].verb = v \/ call'[c].stage = "none"
    BY <1>0, <1>5, CallFacts DEF Send, TypeOK, NoCall
  <2>3. Placer => ~Builds(c)' BY <1>5, <2>2 DEF Builds
  <2> QED BY <2>1, <2>2, <2>3 DEF Moves
<1> QED BY <1>2, <1>3, <1>4, <1>5

LEMMA FindMoves ==
  ASSUME ~Returns, LInv, NEW c \in Clients, NEW o \in Verbs, call[c].stage = "none", Find(c, o)
  PROVE  Moves(c)
<1>1. ASSUME NEW x \in Hits,
             \/ o = "acquire" /\ Go(c, o, "confirm", {x}) /\ UNCHANGED call
             \/ o = "destroy" /\ Send(c, o, "destroy", x)
             \/ o = "use" /\ Go(c, o, "verify", {x}) /\ UNCHANGED call
      PROVE  Moves(c)
  <2>1. x \in Entries /\ {x} \in SUBSET Entries BY DEF Hits, LInv, TypeOK
  <2>2. CASE Send(c, o, "destroy", x) BY <2>1, <2>2, Movings
  <2>3. CASE Go(c, o, "confirm", {x}) /\ UNCHANGED call BY <2>1, <2>3, Movings
  <2>4. CASE Go(c, o, "verify", {x}) /\ UNCHANGED call BY <2>1, <2>4, Movings
  <2> QED BY <1>1, <2>2, <2>3, <2>4
<1>2. CASE AskAll(c, o) /\ UNCHANGED call BY <1>2, Movings
<1> QED BY <1>1, <1>2 DEF Find

LEMMA FoundMoves ==
  ASSUME ~Returns, LInv, NEW c \in Clients, NEW i \in Ids, NEW n \in Nodes, call[c].stage = "none", Found(c, i, n)
  PROVE  Moves(c)
<1> DEFINE e == [id |-> i, node |-> n]
<1>1. e \in Entries /\ {e} \in SUBSET Entries /\ "kill" \in Verbs BY DEF Entries, Verbs
<1>2. (Go(c, "kill", "line", {e}) /\ UNCHANGED call) \/ Send(c, "kill", "kill", e) BY DEF Found
<1> HIDE DEF e
<1>3. CASE Go(c, "kill", "line", {e}) /\ UNCHANGED call BY <1>1, <1>3, Movings
<1>4. CASE Send(c, "kill", "kill", e) BY <1>1, <1>4, Movings
<1> QED BY <1>2, <1>3, <1>4

LEMMA ReachMoves ==
  ASSUME ~Returns, LInv, NEW c \in Clients, NEW o \in Verbs, NEW e \in Entries, call[c].stage = "none",
         ReachOrGone(c, o, e), o = "acquire" => ~Placer
  PROVE  Moves(c)
<1>1. CASE o = "acquire" /\ Send(c, o, "create", e) BY <1>1, Movings
<1>2. CASE Send(c, o, "destroy", e) BY <1>2, Movings
<1>3. CASE Go(c, o, "verify", {e}) /\ UNCHANGED call
  <2>1. {e} \in SUBSET Entries OBVIOUS
  <2> QED BY <1>3, <2>1, Movings
<1>4. CASE Done(c) /\ UNCHANGED call BY <1>4, Movings
<1> QED BY <1>1, <1>2, <1>3, <1>4 DEF ReachOrGone, Reach

(* A placement is charged to a node that has room for it. *)
LEMMA PlaceGate ==
  ASSUME Gate, NEW c \in Clients, NEW o \in {"acquire", "spawn"}, NEW verb \in {"create", "spawn"}, NEW n \in Nodes,
         Place(c, o, verb, n), call[c].stage = "none", verb = "create" => slot = c /\ Places = {},
         UNCHANGED <<view, world>>
  PROVE  Firsts' /\ Books'
<1> DEFINE k == [verb |-> verb, to |-> n, id |-> {}, placed |-> TRUE, stage |-> "sent"]
<1>0. LInv /\ TypeOK BY DEF Gate, LInv
<1>1. /\ pc'[c] = "await" /\ call'[c] = k
      /\ \A d \in Clients \ {c} : pc'[d] = pc[d] /\ op'[d] = op[d] /\ look'[d] = look[d] /\ call'[d] = call[d]
  BY <1>0 DEF Place, TypeOK
<1>2. k.verb = verb /\ k.to = n /\ k.placed /\ k.stage = "sent" OBVIOUS
<1> HIDE DEF k
<1>3. /\ placed'[n] = placed[n] + 1 /\ placed[n] < Room /\ placedIds' = placedIds
      /\ standing'[n] = standing[n] \cup {c} /\ slack' = slack
      /\ \A m \in Nodes \ {n} : placed'[m] = placed[m] /\ standing'[m] = standing[m]
  BY <1>0 DEF Place, Fit, TypeOK
<1>4. UNCHANGED <<home, named, dead>> BY DEF world
<1>5. \A d \in Clients \ {c} : Builds(d)' = Builds(d) /\ Placing(d)' = Placing(d)
  BY <1>1 DEF Builds, Placing
<1>6. \A i \in Ids : ~Built(c, i) /\ ~Built(c, i)' /\ \A d \in Clients \ {c} : Built(d, i)' = Built(d, i)
  BY <1>1, <1>2 DEF Built
<1>7. Placing(c)' /\ ~Placing(c) BY <1>1, <1>2 DEF Placing
<1>8. Firsts'
  <2> SUFFICES ASSUME NEW d \in Clients, Builds(d)', call'[d].placed PROVE First(d)' BY DEF Firsts, First
  <2>1. CASE verb = "create"
    <3>1. ASSUME NEW e \in Clients \ {c} PROVE ~Builds(e) /\ ~(pc[e] = "ask" /\ op[e] = "acquire")
      <4>1. Orderly(e) BY <1>0 DEF LInv, ClientOK
      <4>2. Builds(e) => call[e].to \in Places BY <1>0, <4>1 DEF Builds, Orderly, Places, TypeOK
      <4> QED BY <2>1, <4>1, <4>2 DEF Orderly
    <3>2. d = c BY <1>5, <3>1
    <3>3. \A i \in named' : home'[i] # call'[c].to BY <1>1, <1>2, <1>4, <2>1 DEF Places
    <3> QED BY <1>1, <1>5, <3>1, <3>2, <3>3 DEF First
  <2>2. CASE verb = "spawn"
    <3>1. ~Builds(c)' BY <1>1, <1>2, <2>2 DEF Builds
    <3>2. d # c /\ First(d) BY <3>1 DEF Gate, Firsts
    <3>3. Builds(d) /\ call[d].placed BY <1>1, <1>5, <3>2
    <3>4. ASSUME NEW e \in Clients \ {d}
          PROVE  ~Builds(e)' /\ (pc'[e] = "ask" /\ op'[e] = "acquire" => look'[e].yes = {})
      BY <1>1, <1>5, <3>1, <3>2, <3>3 DEF First
    <3> QED BY <1>1, <1>4, <3>2, <3>3, <3>4 DEF First
  <2> QED BY <2>1, <2>2
<1>9. ASSUME NEW d \in Clients PROVE Owes(d)'
  <2>1. CASE d = c BY <1>1, <1>2, <1>3, <1>6, <2>1 DEF Owes
  <2>2. CASE d # c
    <3>1. Owes(d) /\ Orderly(d) BY <1>0 DEF Gate, Books, LInv, ClientOK
    <3>2. pc[d] = "await" /\ Placing(d) => d \in standing'[call[d].to]
      <4> SUFFICES ASSUME pc[d] = "await", Placing(d) PROVE d \in standing'[call[d].to] OBVIOUS
      <4>1. call[d].to \in Nodes /\ d \in standing[call[d].to] BY <1>0, <3>1 DEF Owes, Orderly, Placing, TypeOK
      <4> QED BY <1>3, <4>1
    <3> QED BY <1>1, <1>3, <1>5, <1>6, <2>2, <3>1, <3>2 DEF Owes
  <2> QED BY <2>1, <2>2
<1>10. ASSUME NEW m \in Nodes PROVE Stands(m)' /\ Affords(m)'
  <2>0. /\ Stands(m) /\ Affords(m) /\ placedIds[m] \subseteq Ids
        /\ placed[m] \in Nat /\ slack[m] \in Nat /\ Credit(m) \in Nat
    BY <1>0, Credits DEF Gate, Books, TypeOK
  <2>1. \A d \in Clients : d \in standing'[m] => Placing(d)' /\ call'[d].to = m
    BY <1>1, <1>2, <1>3, <1>5, <1>7, <2>0 DEF Stands
  <2>2. \A i \in Ids : i \in standing'[m] => home'[i] = m BY <1>3, <1>4, <2>0 DEF Stands
  <2>3. Stands(m)' BY <1>3, <1>4, <2>0, <2>1, <2>2 DEF Stands, Of, Unborn
  <2>4. /\ m = n => Charged(m)' \in SUBSET (Charged(m) \cup {c})
        /\ m # n => Charged(m)' \in SUBSET Charged(m)
    BY <1>1, <1>2, <1>3, <1>6 DEF Charged
  <2>5. CASE m = n
    <3>1. IsFiniteSet(Charged(m)') /\ Cardinality(Charged(m)') <= Credit(m) + 1
      BY <2>0, <2>4, <2>5, OneMoreCharged DEF Affords
    <3>2. Credit(m)' = Credit(m) + 1 BY <1>3, <2>0, <2>5 DEF Credit
    <3> QED BY <1>3, <2>0, <2>3, <2>5, <3>1, <3>2 DEF Affords
  <2>6. CASE m # n
    <3>1. IsFiniteSet(Charged(m)') /\ Cardinality(Charged(m)') <= Credit(m)
      BY <2>0, <2>4, <2>6, FewerCharged DEF Affords
    <3>2. Credit(m)' = Credit(m) BY <1>3, <2>6 DEF Credit
    <3> QED BY <1>3, <2>0, <2>3, <2>6, <3>1, <3>2 DEF Affords
  <2> QED BY <2>5, <2>6
<1> QED BY <1>8, <1>9, <1>10 DEF Books

LEMMA CallerGate ==
  ASSUME ~Returns, Gate, NEW c \in Clients, Callers(c) \/ Turn(c)
  PROVE  Firsts' /\ Books'
<1>0. LInv /\ TypeOK /\ World /\ ClientOK(c) /\ Owes(c) BY DEF Gate, LInv, Books
<1>1. call[c].stage = "none"
  <2>1. CASE Idle(c) BY <2>1, CallFacts DEF Idle
  <2>2. CASE pc[c] = "line" BY <1>0, <2>2 DEF Owes
  <2> QED BY <2>1, <2>2 DEF Callers, Queue, Kill, Spawn, Use, LeaveLine, Turn
<1>2. ASSUME NEW n \in Nodes, Spawn(c, n) PROVE Firsts' /\ Books' BY <1>1, <1>2, PlaceGate DEF Spawn
<1>3. ASSUME ~\E n \in Nodes : Spawn(c, n) PROVE Moves(c) /\ UNCHANGED <<view, world, counts>>
  <2>1. ASSUME NEW o \in {"acquire", "destroy"}, Queue(c, o) PROVE Moves(c) /\ UNCHANGED <<view, world, counts>>
    <3>1. o \in Verbs /\ {} \in SUBSET Entries BY DEF Verbs
    <3>2. Go(c, o, "line", {}) /\ UNCHANGED call /\ UNCHANGED <<view, world, counts>> BY <2>1 DEF Queue
    <3> QED BY <1>0, <1>1, <3>1, <3>2, Movings
  <2>2. ASSUME NEW i \in Ids, Kill(c, i) PROVE Moves(c) /\ UNCHANGED <<view, world, counts>>
    <3>1. UNCHANGED <<view, world, counts>> BY <2>2 DEF Kill
    <3>2. CASE \E x \in Hits : Found(c, i, x.node)
      <4>1. PICK x \in Hits : Found(c, i, x.node) BY <3>2
      <4>2. x.node \in Nodes BY <1>0, <4>1 DEF Hits, TypeOK, Entries
      <4> QED BY <1>0, <1>1, <3>1, <4>1, <4>2, FoundMoves
    <3>3. CASE home[i] \in members /\ Go(c, "kill", "seek", {[id |-> i, node |-> home[i]]}) /\ UNCHANGED call
      <4>1. {[id |-> i, node |-> home[i]]} \in SUBSET Entries /\ "kill" \in Verbs
        BY <1>0, <3>3 DEF Entries, TypeOK, Verbs
      <4> QED BY <1>0, <1>1, <3>1, <3>3, <4>1, Movings
    <3> QED BY <2>2, <3>2, <3>3 DEF Kill
  <2>3. CASE Use(c)
    <3>1. Find(c, "use") /\ UNCHANGED <<view, world, counts>> BY <2>3 DEF Use
    <3> QED BY <1>0, <1>1, <3>1, FindMoves DEF Verbs
  <2>4. CASE LeaveLine(c)
    <3>1. Done(c) /\ UNCHANGED call /\ UNCHANGED <<view, world, counts>> BY <2>4 DEF LeaveLine
    <3> QED BY <1>0, <1>1, <3>1, Movings
  <2>5. CASE Turn(c)
    <3>0. UNCHANGED <<view, world, counts>> BY <2>5 DEF Turn
    <3>1. ASSUME op[c] = "kill" PROVE Moves(c)
      <4>1. PICK e \in goal[c] : Send(c, "kill", "kill", e) BY <2>5, <3>1 DEF Turn
      <4>2. e \in Entries /\ "kill" \in Verbs BY <1>0 DEF TypeOK, Verbs
      <4> QED BY <1>0, <1>1, <4>1, <4>2, Movings
    <3>2. ASSUME op[c] # "kill" PROVE Moves(c)
      <4>1. Find(c, op[c]) /\ op[c] \in Verbs BY <1>0, <2>5, <3>2, Stay DEF Turn, Handled
      <4> QED BY <1>0, <1>1, <4>1, FindMoves
    <3> QED BY <3>0, <3>1, <3>2
  <2> QED BY <1>3, <2>1, <2>2, <2>3, <2>4, <2>5 DEF Callers
<1> QED BY <1>1, <1>2, <1>3, MoveStep

LEMMA AnswerGate ==
  ASSUME Gate, NEW c \in Clients, NEW n \in Nodes, AnswerYes(c, n) \/ AnswerNo(c, n) \/ NoAnswer(c, n)
  PROVE  Firsts' /\ Books'
<1>0. LInv /\ TypeOK /\ Owes(c) BY DEF Gate, LInv, Books
<1>1. pc[c] = "ask" /\ UNCHANGED <<view, world, counts>> /\ UNCHANGED <<pc, op, goal, call>>
  BY DEF AnswerYes, AnswerNo, NoAnswer
<1>2. call[c].stage = "none" BY <1>0, <1>1 DEF Owes
<1>3. Others(c)
  <2>1. \A d \in Clients \ {c} : look'[d] = look[d]
    BY <1>0 DEF AnswerYes, AnswerNo, NoAnswer, TypeOK
  <2> QED BY <1>1, <2>1 DEF Others
<1>4. ASSUME Placer PROVE look'[c].yes = look[c].yes
  <2>1. ~AnswerYes(c, n)
    <3> SUFFICES ASSUME Bound(n) # {} PROVE FALSE BY DEF AnswerYes
    <3>1. PICK i \in named : home[i] = n BY DEF Bound
    <3> QED BY <1>0, <1>4, <3>1, NoPlacer DEF Gate
  <2>2. look[c] \in Rounds BY <1>0 DEF TypeOK
  <2>3. \/ look' = [look EXCEPT ![c] = Hear(look[c], n, {}, FALSE)]
        \/ look' = [look EXCEPT ![c] = Hear(look[c], n, {}, TRUE)]
    BY <2>1 DEF AnswerNo, NoAnswer
  <2>4. look'[c] = Hear(look[c], n, {}, FALSE) \/ look'[c] = Hear(look[c], n, {}, TRUE) BY <1>0, <2>3 DEF TypeOK
  <2>5. Hear(look[c], n, {}, FALSE).yes = look[c].yes /\ Hear(look[c], n, {}, TRUE).yes = look[c].yes
    BY <2>2, NoFacts, MuteFacts
  <2> QED BY <2>4, <2>5
<1>5. Moves(c) BY <1>1, <1>2, <1>3, <1>4 DEF Moves, Builds
<1> QED BY <1>1, <1>2, <1>5, MoveStep

LEMMA JudgeGate ==
  ASSUME ~Returns, Gate, NEW c \in Clients,
         JudgeKill(c) \/ Confirm(c) \/ JudgeOne(c) \/ Refuse(c) \/ JudgeNone(c) \/ Verify(c) \/ Relayed(c)
  PROVE  Firsts' /\ Books'
<1>0. LInv /\ TypeOK /\ World /\ ClientOK(c) /\ Owes(c) BY DEF Gate, LInv, Books
<1>1. pc[c] \in {"seek", "confirm", "ask", "verify"} /\ call[c].stage = "none"
  BY <1>0 DEF JudgeKill, Confirm, JudgeOne, Refuse, JudgeNone, Nobody, Answered, Verify, Relayed, Owes
<1>2. op[c] \in Verbs /\ "acquire" \in Verbs BY <1>0, Stay DEF Handled, Verbs
<1>3. CASE Confirm(c)
  <2>0. pc[c] = "confirm" /\ UNCHANGED <<view, world, counts>> BY <1>3 DEF Confirm
  <2>1. PICK e \in goal[c] :
          \/ home[e.id] = e.node /\ ReachOrGone(c, "acquire", e)
          \/ Done(c) /\ UNCHANGED call
          \/ AskAll(c, "acquire") /\ UNCHANGED call
    BY <1>3 DEF Confirm
  <2>2. e \in Entries /\ e.id \in named /\ e.node \in Nodes BY <1>0, <2>0 DEF TypeOK, ClientOK, Said, Entries
  <2>3. home[e.id] = e.node => ~Placer BY <1>0, <2>2, NoPlacer DEF Gate
  <2>4. Moves(c)
    <3>1. CASE home[e.id] = e.node /\ ReachOrGone(c, "acquire", e)
      BY <1>0, <1>1, <1>2, <2>2, <2>3, <3>1, ReachMoves
    <3>2. CASE Done(c) /\ UNCHANGED call BY <1>0, <1>1, <3>2, Movings
    <3>3. CASE AskAll(c, "acquire") /\ UNCHANGED call BY <1>0, <1>1, <1>2, <3>3, Movings
    <3> QED BY <2>1, <3>1, <3>2, <3>3
  <2> QED BY <1>1, <2>0, <2>4, MoveStep
<1>4. CASE JudgeOne(c)
  <2>0. pc[c] = "ask" /\ UNCHANGED <<view, world, counts>> BY <1>4 DEF JudgeOne, Answered
  <2>1. PICK i \in Ids, n \in Nodes : look[c].yes = {<<i, n>>} /\ ReachOrGone(c, op[c], [id |-> i, node |-> n])
    BY <1>4 DEF JudgeOne
  <2> DEFINE e == [id |-> i, node |-> n]
  <2>2. e \in Entries /\ ReachOrGone(c, op[c], e) BY <2>1 DEF Entries
  <2> HIDE DEF e
  <2>3. ASSUME op[c] = "acquire", Placer PROVE FALSE
    <3>1. PICK d \in Clients : Builds(d) /\ call[d].placed BY <2>3 DEF Placer
    <3>2. d # c /\ First(d) BY <1>1, <3>1 DEF Builds, Gate, Firsts
    <3>3. look[c].yes = {} BY <2>0, <2>3, <3>1, <3>2 DEF First
    <3> QED BY <2>1, <3>3
  <2>4. Moves(c) BY <1>0, <1>1, <1>2, <2>2, <2>3, ReachMoves
  <2> QED BY <1>1, <2>0, <2>4, MoveStep
<1>5. CASE JudgeNone(c)
  <2>0. Nobody(c) /\ UNCHANGED <<view, world>> BY <1>5 DEF JudgeNone
  <2>1. ASSUME op[c] = "acquire", NEW n \in Nodes, Place(c, "acquire", "create", n) PROVE Firsts' /\ Books'
    <3>1. Places = {} /\ slot = c BY <1>0, <2>0, <2>1 DEF ClientOK, Heard, Orderly, Nobody, Answered
    <3> QED BY <1>1, <2>0, <2>1, <3>1, PlaceGate
  <2>2. ASSUME Done(c), UNCHANGED <<call, counts>> PROVE Firsts' /\ Books'
    <3>1. Moves(c) BY <1>0, <1>1, <2>2, Movings
    <3> QED BY <1>1, <2>0, <2>2, <3>1, MoveStep
  <2> QED BY <1>5, <2>1, <2>2 DEF JudgeNone
<1>6. CASE Refuse(c) \/ Verify(c) \/ Relayed(c)
  <2>1. Done(c) /\ UNCHANGED call /\ UNCHANGED <<view, world, counts>> BY <1>6 DEF Refuse, Verify, Relayed
  <2>2. Moves(c) BY <1>0, <1>1, <2>1, Movings
  <2> QED BY <1>1, <2>1, <2>2, MoveStep
<1>7. CASE JudgeKill(c)
  <2>1. PICK e \in goal[c] : Found(c, e.id, e.node) BY <1>7 DEF JudgeKill
  <2>2. e.id \in Ids /\ e.node \in Nodes BY <1>0 DEF TypeOK, Entries
  <2>3. Moves(c) /\ UNCHANGED <<view, world, counts>> BY <1>0, <1>1, <1>7, <2>1, <2>2, FoundMoves DEF JudgeKill
  <2> QED BY <1>1, <2>3, MoveStep
<1> QED BY <1>3, <1>4, <1>5, <1>6, <1>7

(* A call goes its way, and what it stood for with it. *)
Follows(c, k) ==
  /\ k.placed => /\ call[c].placed /\ k.verb = call[c].verb /\ k.to = call[c].to /\ k.id = call[c].id
                 /\ \/ k.stage = call[c].stage
                    \/ k.stage = "landed" /\ call[c].stage = "sent"
                    \/ k.stage = "no" /\ call[c].stage = "landed" /\ pc[c] = "await"
  /\ k.stage \in {"sent", "landed"} =>
       /\ call[c].stage \in {"sent", "landed"} /\ k.verb = call[c].verb /\ k.to = call[c].to

LEMMA CallGateStep ==
  ASSUME Gate, NEW c \in Clients, NEW k \in Calls, call' = [call EXCEPT ![c] = k], Follows(c, k),
         pc' = pc \/ pc' = [pc EXCEPT ![c] = "idle"], pc'[c] \notin {"idle", "await"} => k.stage = "none",
         \A d \in Clients \ {c} : op'[d] = op[d] /\ look'[d] = look[d],
         pc'[c] = "ask" => op'[c] = op[c] /\ look'[c] = look[c],
         UNCHANGED <<world, placed, placedIds, slack>>,
         \A n \in Nodes : \/ standing'[n] = standing[n] /\ (Placing(c) => Placing(c)')
                          \/ standing'[n] = standing[n] \ {c} /\ ~Placing(c)'
  PROVE  Firsts' /\ Books'
<1>0. LInv /\ TypeOK BY DEF Gate, LInv
<1>1. call'[c] = k /\ \A d \in Clients \ {c} : call'[d] = call[d] /\ pc'[d] = pc[d] BY <1>0 DEF TypeOK
<1>2. pc'[c] = pc[c] \/ pc'[c] = "idle" BY <1>0 DEF TypeOK
<1>3. UNCHANGED <<home, named, dead>> BY DEF world
<1>4. \A d \in Clients \ {c} : Builds(d)' = Builds(d) /\ Placing(d)' = Placing(d) BY <1>1 DEF Builds, Placing
<1>5. Books'
  <2>1. ASSUME NEW d \in Clients PROVE Tame(d)
    <3>1. CASE d = c BY <1>1, <1>2, <3>1 DEF Tame, Follows, Placing
    <3>2. CASE d # c
      <4>1. pc[d] \notin {"idle", "await"} => call[d].stage = "none" BY DEF Gate, Books, Owes
      <4> QED BY <1>1, <3>2, <4>1 DEF Tame
    <3> QED BY <3>1, <3>2
  <2>2. ASSUME NEW n \in Nodes PROVE Keeps(n)
    <3>1. \A d \in Clients : d \in standing[n] => Placing(d) BY DEF Gate, Books, Stands
    <3>2. \A d \in Clients : d \in standing[n] => (d \in standing'[n] <=> Placing(d)') BY <1>4, <3>1
    <3> QED BY <1>3, <3>2 DEF Keeps
  <2>3. \A i \in Ids, n \in Nodes : Of(i, n) => Of(i, n)' BY <1>3 DEF Of, Unborn
  <2> QED BY <1>0, <2>1, <2>2, <2>3, BooksStep DEF Gate
<1>6. Firsts'
  <2>1. ASSUME NEW d \in Clients, Builds(d)'
        PROVE  Builds(d) /\ call'[d].to = call[d].to /\ (call'[d].placed => call[d].placed)
    <3>1. CASE d = c BY <1>1, <2>1, <3>1 DEF Builds, Follows
    <3>2. CASE d # c BY <1>1, <1>4, <2>1, <3>2
    <3> QED BY <3>1, <3>2
  <2>2. \A d \in Clients : pc'[d] = "ask" /\ op'[d] = "acquire" =>
          pc[d] = "ask" /\ op[d] = "acquire" /\ look'[d].yes = look[d].yes
    BY <1>1, <1>2
  <2> QED BY <1>0, <1>3, <2>1, <2>2, FirstsStep DEF Gate
<1> QED BY <1>5, <1>6

LEMMA FinishFacts ==
  ASSUME LInv, NEW c \in Clients, NEW stage \in {"yes", "no"}, NEW ids \in SUBSET Ids, Finish(c, stage, ids)
  PROVE  \E k \in Calls :
           /\ call' = [call EXCEPT ![c] = k]
           /\ \/ k.stage = "none" /\ ~k.placed
              \/ /\ pc[c] = "await" /\ k.stage = stage /\ k.id = ids /\ (k.placed <=> call[c].placed)
                 /\ k.verb = call[c].verb /\ k.to = call[c].to
<1> DEFINE h == [call[c] EXCEPT !.stage = stage, !.id = ids]
<1>1. call[c] \in Calls BY Stay DEF Handled
<1>2. h \in Calls /\ h.stage = stage /\ h.id = ids /\ (h.placed <=> call[c].placed) /\ h.verb = call[c].verb /\ h.to = call[c].to
  BY <1>1 DEF Calls, Stages
<1>3. call' = [call EXCEPT ![c] = IF pc[c] = "await" THEN h ELSE NoCall] BY DEF Finish
<1>4. NoCall \in Calls /\ NoCall.stage = "none" /\ ~NoCall.placed BY CallFacts DEF NoCall
<1> HIDE DEF h
<1>5. CASE pc[c] = "await" BY <1>2, <1>3, <1>5
<1>6. CASE pc[c] # "await" BY <1>3, <1>4, <1>6
<1> QED BY <1>5, <1>6

LEMMA ServeGate ==
  ASSUME Gate, NEW c \in Clients, Land(c) \/ LoseCall(c) \/ WakeThere(c) \/ FailThere(c)
  PROVE  Firsts' /\ Books'
<1>0. LInv /\ TypeOK /\ ClientOK(c) /\ Owes(c) /\ First(c) BY DEF Gate, LInv, Books, Firsts
<1>1. UNCHANGED <<world, placed, placedIds, slack>> /\ UNCHANGED <<pc, op, look>>
  BY DEF Land, LoseCall, WakeThere, FailThere, counts
<1>2. call[c].stage \in {"sent", "landed"} BY DEF Land, LoseCall, WakeThere, FailThere, At
<1>3. pc[c] \in {"idle", "await"} BY <1>0, <1>2 DEF Owes
<1>4. call[c] \in Calls /\ call[c].id \in SUBSET Ids BY <1>0 DEF TypeOK, Calls
<1>5. CASE Land(c)
  <2> DEFINE k == [call[c] EXCEPT !.stage = "landed"]
  <2>1. call' = [call EXCEPT ![c] = k] /\ call[c].stage = "sent" /\ standing' = standing BY <1>5 DEF Land, counts
  <2>2. k \in Calls /\ k.verb = call[c].verb /\ k.to = call[c].to /\ k.id = call[c].id /\ k.stage = "landed"
        /\ (k.placed <=> call[c].placed)
    BY <1>4 DEF Calls, Stages
  <2> HIDE DEF k
  <2>3. Follows(c, k) BY <2>1, <2>2 DEF Follows
  <2>4. call'[c] = k BY <1>0, <2>1 DEF TypeOK
  <2>5. Placing(c) => Placing(c)' BY <2>2, <2>4 DEF Placing
  <2> QED BY <1>1, <1>3, <2>1, <2>2, <2>3, <2>5, CallGateStep
<1>6. ASSUME NEW k \in Calls, call' = [call EXCEPT ![c] = k], Follows(c, k), k.stage \notin {"sent", "landed"},
             standing' = [n \in Nodes |-> standing[n] \ {c}]
      PROVE  Firsts' /\ Books'
  <2>1. call'[c] = k BY <1>0, <1>6 DEF TypeOK
  <2>2. ~Placing(c)' BY <1>6, <2>1 DEF Placing
  <2> QED BY <1>1, <1>3, <1>6, <2>2, CallGateStep
<1>7. CASE LoseCall(c)
  <2>1. NoCall \in Calls /\ NoCall.stage = "none" /\ ~NoCall.placed BY CallFacts DEF NoCall
  <2>2. Follows(c, NoCall) BY <2>1 DEF Follows
  <2> QED BY <1>6, <1>7, <2>1, <2>2 DEF LoseCall
<1>8. CASE WakeThere(c)
  <2> DEFINE ids == Bound(call[c].to)
  <2>1. ids \in SUBSET Ids /\ ids # {} /\ Finish(c, "yes", ids) BY <1>0, <1>8 DEF WakeThere, Bound, TypeOK
  <2>2. ~call[c].placed
    <3>1. Builds(c) BY <1>8 DEF WakeThere, At, Builds
    <3> QED BY <1>0, <2>1, <3>1 DEF First, Bound
  <2> HIDE DEF ids
  <2>3. PICK k \in Calls : /\ call' = [call EXCEPT ![c] = k] /\ k.stage \in {"none", "yes"}
                           /\ (k.placed => call[c].placed)
    BY <1>0, <2>1, FinishFacts
  <2>4. Follows(c, k) BY <2>2, <2>3 DEF Follows
  <2> QED BY <1>6, <1>8, <2>3, <2>4 DEF WakeThere
<1>9. CASE FailThere(c)
  <2>1. Finish(c, "no", call[c].id) /\ call[c].stage = "landed" BY <1>9 DEF FailThere
  <2>2. PICK k \in Calls :
          /\ call' = [call EXCEPT ![c] = k]
          /\ \/ k.stage = "none" /\ ~k.placed
             \/ /\ pc[c] = "await" /\ k.stage = "no" /\ k.id = call[c].id /\ (k.placed <=> call[c].placed)
                /\ k.verb = call[c].verb /\ k.to = call[c].to
    BY <1>0, <1>4, <2>1, FinishFacts
  <2>3. Follows(c, k) BY <2>1, <2>2 DEF Follows
  <2> QED BY <1>6, <1>9, <2>2, <2>3 DEF FailThere
<1> QED BY <1>5, <1>7, <1>8, <1>9

LEMMA GiveUpGate ==
  ASSUME ~Overtaken, Gate, NEW c \in Clients, GiveUp(c)
  PROVE  Firsts' /\ Books'
<1> DEFINE k == Abandon(call[c])
<1>0. LInv /\ TypeOK BY DEF Gate, LInv
<1>1. call[c] \in Calls BY Stay, <1>0 DEF Handled
<1>2. /\ call' = [call EXCEPT ![c] = k] /\ pc' = [pc EXCEPT ![c] = "idle"] /\ UNCHANGED counts
      /\ UNCHANGED <<world, placed, placedIds, slack>> /\ UNCHANGED standing
      /\ \A d \in Clients \ {c} : op'[d] = op[d] /\ look'[d] = look[d]
  BY <1>0 DEF GiveUp, Done, counts, TypeOK
<1>3. /\ k \in Calls
      /\ \/ k.stage = "none" /\ ~k.placed
         \/ k = call[c]
         \/ /\ k.verb = call[c].verb /\ k.to = call[c].to /\ k.id = call[c].id /\ (k.placed <=> call[c].placed)
            /\ k.stage = "landed" /\ call[c].stage = "sent"
      /\ call[c].stage \in {"sent", "landed"} => k.stage = "landed" /\ (k.placed <=> call[c].placed)
  <2>1. k \in Calls BY <1>1, AbandonFacts
  <2>2. CASE call[c].stage = "sent"
    <3>1. k = [call[c] EXCEPT !.stage = "landed"] BY <2>2 DEF Abandon
    <3>2. k.verb = call[c].verb /\ k.to = call[c].to /\ k.id = call[c].id /\ k.placed = call[c].placed /\ k.stage = "landed"
      BY <1>1, <3>1 DEF Calls
    <3> QED BY <2>1, <2>2, <3>2
  <2>3. CASE call[c].stage \in {"yes", "no"}
    <3>1. k = NoCall BY <2>3 DEF Abandon
    <3>2. k.stage = "none" /\ ~k.placed BY <3>1, CallFacts DEF NoCall
    <3> QED BY <2>1, <2>3, <3>2
  <2>4. CASE call[c].stage \in {"none", "landed"}
    <3>1. k = call[c] BY <2>4 DEF Abandon
    <3> QED BY <2>1, <2>4, <3>1
  <2>5. call[c].stage \in Stages BY <1>1 DEF Calls
  <2> QED BY <2>2, <2>3, <2>4, <2>5 DEF Stages
<1> HIDE DEF k
<1>4. call'[c] = k /\ pc'[c] = "idle" BY <1>0, <1>2 DEF TypeOK
<1>5. Placing(c) => Placing(c)' BY <1>3, <1>4 DEF Placing
<1>6. Follows(c, k) BY <1>3 DEF Follows
<1> QED BY <1>2, <1>3, <1>4, <1>5, <1>6, CallGateStep

(* Sandboxes end: none of them stands any longer, no placement is touched. *)
LEMMA EndGate ==
  ASSUME Gate, NEW gone \in SUBSET Ids, Bury(gone), look' = Unseen(gone),
         UNCHANGED <<pc, op, placed, placedIds, slack>>, standing' = [n \in Nodes |-> standing[n] \ gone],
         \A d \in Clients : \/ call'[d] = call[d]
                            \/ ~call'[d].placed /\ ~Placing(d) /\ ~Builds(d)' /\ pc[d] \in {"idle", "await"}
  PROVE  Firsts' /\ Books'
<1>0. LInv /\ TypeOK /\ World BY DEF Gate, LInv
<1>1. /\ UNCHANGED named /\ dead \subseteq dead'
      /\ \A i \in Ids : home'[i] = IF i \in gone THEN Nowhere ELSE home[i]
      /\ \A i \in Ids : home'[i] = home[i] \/ (home'[i] = Nowhere /\ i \in dead')
  BY <1>0, BuryFacts
<1>2. \A d \in Clients : look'[d].yes = look[d].yes BY <1>0, UnseenFacts
<1>3. \A i \in Ids, n \in Nodes : Of(i, n) => Of(i, n)' BY <1>0, <1>1 DEF Of, Unborn, World
<1>4. ASSUME NEW d \in Clients PROVE Tame(d)
  <2>1. Owes(d) BY DEF Gate, Books
  <2>2. CASE call'[d] = call[d] BY <2>1, <2>2 DEF Tame, Owes
  <2>3. CASE ~call'[d].placed /\ pc[d] \in {"idle", "await"} BY <2>3 DEF Tame, Placing
  <2> QED BY <2>2, <2>3
<1>5. ASSUME NEW n \in Nodes PROVE Keeps(n)
  <2>1. \A d \in Clients : d \in standing[n] => Placing(d) /\ d \notin gone BY DEF Gate, Books, Stands
  <2>2. \A d \in Clients : d \in standing[n] => d \in standing'[n] /\ call'[d] = call[d] BY <2>1
  <2>3. \A d \in Clients : d \in standing[n] => (d \in standing'[n] <=> Placing(d)') BY <2>1, <2>2 DEF Placing
  <2>4. \A i \in Ids : i \in standing'[n] => home'[i] = home[i] BY <1>1
  <2> QED BY <2>3, <2>4 DEF Keeps
<1>6. Books' BY <1>0, <1>3, <1>4, <1>5, BooksStep DEF Gate
<1>7. \A d \in Clients : Builds(d)' => Builds(d) /\ call'[d].to = call[d].to /\ (call'[d].placed => call[d].placed)
  BY DEF Builds
<1>8. \A i \in named' : i \in named /\ home'[i] \in {home[i], Nowhere} BY <1>0, <1>1 DEF TypeOK
<1>9. Firsts' BY <1>0, <1>2, <1>7, <1>8, FirstsStep DEF Gate
<1> QED BY <1>6, <1>9

LEMMA DestroyGate ==
  ASSUME Gate, NEW c \in Clients, DestroyThere(c)
  PROVE  Firsts' /\ Books'
<1> DEFINE gone == IF call[c].verb = "destroy" THEN Bound(call[c].to)
                   ELSE {i \in call[c].id : home[i] = call[c].to}
<1>0. LInv /\ TypeOK /\ Owes(c) BY DEF Gate, LInv, Books
<1>1. /\ Bury(gone) /\ look' = Unseen(gone) /\ standing' = [n \in Nodes |-> standing[n] \ gone]
      /\ UNCHANGED <<pc, op, placed, placedIds, slack>>
  BY DEF DestroyThere
<1>2. call[c].stage = "landed" /\ call[c].verb \in {"destroy", "kill"} /\ Finish(c, "yes", call[c].id)
  BY DEF DestroyThere, At
<1>3. call[c] \in Calls /\ call[c].id \in SUBSET Ids BY <1>0 DEF TypeOK, Calls
<1>4. gone \in SUBSET Ids BY <1>0, <1>3 DEF Bound, TypeOK
<1> HIDE DEF gone
<1>5. ~call[c].placed /\ pc[c] \in {"idle", "await"} BY <1>0, <1>2 DEF Owes, TypeOK
<1>6. PICK k \in Calls : call' = [call EXCEPT ![c] = k] /\ ~k.placed /\ k.stage \in {"none", "yes"}
  BY <1>0, <1>2, <1>3, <1>5, FinishFacts
<1>7. call'[c] = k /\ \A d \in Clients \ {c} : call'[d] = call[d] BY <1>0, <1>6 DEF TypeOK
<1>8. ~Builds(c)' /\ ~Placing(c) BY <1>5, <1>6, <1>7 DEF Builds, Placing
<1>9. \A d \in Clients : \/ call'[d] = call[d]
                         \/ ~call'[d].placed /\ ~Placing(d) /\ ~Builds(d)' /\ pc[d] \in {"idle", "await"}
  BY <1>5, <1>6, <1>7, <1>8
<1> QED BY <1>1, <1>4, <1>9, EndGate

LEMMA ExpireGate ==
  ASSUME Gate, NEW i \in Ids, Expire(i)
  PROVE  Firsts' /\ Books'
<1>1. Bury({i}) /\ look' = Unseen({i}) /\ standing' = [n \in Nodes |-> standing[n] \ {i}]
      /\ UNCHANGED <<pc, op, placed, placedIds, slack>> /\ UNCHANGED call
  BY DEF Expire
<1>2. {i} \in SUBSET Ids OBVIOUS
<1> QED BY <1>1, <1>2, EndGate

(* A reading starts a node's books over, with what is due as the new slack. *)
LEMMA FleetGate ==
  ASSUME Gate, NEW n \in Nodes, CheckIn(n) \/ Join(n)
  PROVE  Firsts' /\ Books'
<1>0. LInv /\ TypeOK BY DEF Gate, LInv
<1>1. UNCHANGED <<home, named, dead, slot, pc, op, goal, look, call>> BY DEF CheckIn, Join, world, handler
<1>2. ASSUME NEW d \in Clients PROVE Tame(d)
  <2>1. Owes(d) BY DEF Gate, Books
  <2> QED BY <1>1, <2>1 DEF Owes, Tame, Placing
<1>3. ASSUME NEW m \in Nodes \ {n} PROVE Keeps(m)
  <2>1. placed'[m] = placed[m] /\ placedIds'[m] = placedIds[m] /\ standing'[m] = standing[m] /\ slack'[m] = slack[m]
    BY <1>0 DEF CheckIn, Join, Reset, TypeOK
  <2>2. \A d \in Clients : d \in standing[m] => Placing(d) BY DEF Gate, Books, Stands
  <2> QED BY <1>1, <2>1, <2>2 DEF Keeps, Placing
<1>4. ASSUME Join(n) PROVE Anew(n)
  <2>1. placed'[n] = 0 /\ placedIds'[n] = {} /\ standing'[n] = {} /\ slack'[n] = 0 BY <1>0, <1>4 DEF Join, Reset, TypeOK
  <2>2. ASSUME NEW d \in Clients PROVE ~(call[d].placed /\ call[d].to = n)
    <3>1. Owes(d) /\ Orderly(d) BY <1>0 DEF Gate, Books, LInv, ClientOK
    <3> QED BY <1>4, <3>1 DEF Join, Owes, Orderly
  <2> QED BY <1>1, <2>1, <2>2, WipedAnew DEF Anew
<1>5. ASSUME CheckIn(n) PROVE Anew(n)
  <2>1. /\ placed'[n] = 0 /\ placedIds'[n] = {} /\ slack'[n] = Cardinality(Due(n))
        /\ standing'[n] = {c \in Underway(n) : call[c].stage \in {"sent", "landed"}}
    BY <1>0, <1>5 DEF CheckIn, TypeOK
  <2>2. \A d \in Clients : d \in standing'[n] <=> Placing(d)' /\ call'[d].to = n
    BY <1>1, <2>1 DEF Underway, Placing
  <2>3. standing'[n] \cap Ids = {} BY <2>1 DEF Underway
  <2>4. Charged(n)' \in SUBSET Due(n)
    <3> SUFFICES ASSUME NEW x \in Charged(n)' PROVE x \in Due(n) OBVIOUS
    <3>1. CASE x \in standing'[n] BY <2>1, <3>1 DEF Due
    <3>2. CASE x \in Clients /\ call'[x].placed /\ call'[x].to = n /\ call'[x].stage = "no"
      BY <1>1, <3>2 DEF Due, Underway
    <3>3. CASE x \in Ids /\ \E d \in Clients : Built(d, x)' /\ call'[d].to = n
      BY <1>1, <3>3 DEF Due, Underway, Built
    <3> QED BY <2>1, <3>1, <3>2, <3>3 DEF Charged
  <2>5. IsFiniteSet(Due(n)) /\ Cardinality(Due(n)) \in Nat BY <1>0, DueFacts, CountFacts
  <2>6. IsFiniteSet(Charged(n)') /\ Cardinality(Charged(n)') <= Cardinality(Due(n)) BY <2>4, <2>5, FS_Subset
  <2> QED BY <2>1, <2>2, <2>3, <2>5, <2>6 DEF Anew
<1>6. Anew(n) BY <1>4, <1>5
<1>7. \A m \in Nodes : Keeps(m) \/ Anew(m) BY <1>3, <1>6
<1>8. \A i \in Ids, m \in Nodes : Of(i, m) => Of(i, m)' BY <1>1 DEF Of, Unborn
<1>9. Books' BY <1>0, <1>2, <1>7, <1>8, BooksStep DEF Gate
<1>10. \A d \in Clients : Builds(d)' => Builds(d) BY <1>1 DEF Builds
<1>11. Firsts' BY <1>0, <1>1, <1>10, FirstsStep DEF Gate
<1> QED BY <1>9, <1>11

LEMMA RemoveGate ==
  ASSUME ~Returns, Gate, NEW n \in Nodes, Remove(n)
  PROVE  Firsts' /\ Books'
<1> DEFINE gone == {i \in Ids : home[i] = n}
<1>0. LInv /\ TypeOK /\ World BY DEF Gate, LInv
<1>1. /\ Bury(gone) /\ Reset(n) /\ UNCHANGED <<pc, op>>
      /\ call' = [c \in Clients |-> IF call[c].to # n THEN call[c] ELSE NoCall]
  BY DEF Remove
<1>2. /\ UNCHANGED named /\ dead \subseteq dead'
      /\ \A i \in Ids : home'[i] = IF i \in gone THEN Nowhere ELSE home[i]
      /\ \A i \in Ids : home'[i] = home[i] \/ (home'[i] = Nowhere /\ i \in dead')
  BY <1>0, <1>1, BuryFacts
<1>3. \A d \in Clients : look'[d].yes = look[d].yes
  <2> SUFFICES ASSUME NEW d \in Clients PROVE look'[d].yes = look[d].yes OBVIOUS
  <2>1. look[d] \in Rounds BY <1>0 DEF TypeOK
  <2>2. look'[d] = [look[d] EXCEPT !.there = {i \in look[d].there : home[i] # n}] BY DEF Remove
  <2> QED BY <2>1, <2>2 DEF Rounds
<1>4. NoCall.stage = "none" /\ ~NoCall.placed BY CallFacts DEF NoCall
<1>5. ASSUME NEW d \in Clients
      PROVE  Tame(d) /\ (call'[d] = call[d] \/ call'[d] = NoCall) /\ (call[d].to # n => call'[d] = call[d])
             /\ ~(call'[d].placed /\ call'[d].to = n)
  <2>1. Owes(d) BY DEF Gate, Books
  <2>2. CASE call[d].to # n
    <3>1. call'[d] = call[d] BY <1>1, <2>2
    <3> QED BY <1>1, <2>1, <2>2, <3>1 DEF Owes, Tame
  <2>3. CASE call[d].to = n
    <3>1. call'[d] = NoCall BY <1>1, <2>3
    <3> QED BY <1>4, <2>3, <3>1 DEF Tame, Placing
  <2> QED BY <2>2, <2>3
<1>6. ASSUME NEW m \in Nodes PROVE Keeps(m) \/ Anew(m)
  <2>1. CASE m = n
    <3>1. placed'[n] = 0 /\ placedIds'[n] = {} /\ standing'[n] = {} /\ slack'[n] = 0 BY <1>0, <1>1 DEF Reset, TypeOK
    <3> QED BY <1>5, <2>1, <3>1, WipedAnew
  <2>2. CASE m # n
    <3>1. placed'[m] = placed[m] /\ placedIds'[m] = placedIds[m] /\ standing'[m] = standing[m] /\ slack'[m] = slack[m]
      BY <1>0, <1>1, <2>2 DEF Reset, TypeOK
    <3>2. Stands(m) BY DEF Gate, Books
    <3>3. \A d \in Clients : d \in standing[m] => (d \in standing'[m] <=> Placing(d)')
      BY <1>5, <2>2, <3>1, <3>2 DEF Stands, Placing
    <3>4. \A i \in Ids : i \in standing'[m] => home'[i] = home[i] BY <1>2, <2>2, <3>1, <3>2 DEF Stands
    <3> QED BY <3>1, <3>3, <3>4 DEF Keeps
  <2> QED BY <2>1, <2>2
<1>7. \A i \in Ids, m \in Nodes : Of(i, m) => Of(i, m)' BY <1>0, <1>2 DEF Of, Unborn, World
<1>8. Books' BY <1>0, <1>5, <1>6, <1>7, BooksStep DEF Gate
<1>9. \A d \in Clients : Builds(d)' => Builds(d) /\ call'[d].to = call[d].to /\ (call'[d].placed => call[d].placed)
  BY <1>4, <1>5 DEF Builds
<1>10. \A i \in named' : i \in named /\ home'[i] \in {home[i], Nowhere} BY <1>0, <1>2 DEF TypeOK
<1>11. Firsts' BY <1>0, <1>1, <1>3, <1>9, <1>10, FirstsStep DEF Gate
<1> QED BY <1>8, <1>11

LEMMA RestartGate ==
  ASSUME ~Overtaken, Gate, Restart
  PROVE  Firsts' /\ Books'
<1>0. LInv /\ TypeOK BY DEF Gate, LInv
<1>1. /\ pc' = [c \in Clients |-> "idle"]
      /\ call' = [c \in Clients |-> Abandon(call[c])]
      /\ placed' = [n \in Nodes |-> 0] /\ placedIds' = [n \in Nodes |-> {}] /\ standing' = standing
      /\ slack' = [n \in Nodes |-> Cardinality(standing[n])]
      /\ UNCHANGED <<home, named, dead>>
  BY DEF Restart, world
<1>2. ASSUME NEW d \in Clients
      PROVE  /\ call'[d].placed => /\ call[d].placed /\ call'[d].verb = call[d].verb /\ call'[d].to = call[d].to
                                   /\ call'[d].id = call[d].id /\ call'[d].stage = "landed"
                                   /\ call[d].stage \in {"sent", "landed"}
             /\ call'[d].stage # "none" => call'[d].stage = "landed" /\ call[d].stage \in {"sent", "landed"}
                                           /\ call'[d].verb = call[d].verb /\ call'[d].to = call[d].to
             /\ call'[d].placed => call[d].placed
             /\ Placing(d) => Placing(d)' /\ call'[d].to = call[d].to
  <2>1. call'[d] = Abandon(call[d]) /\ call[d] \in Calls /\ Owes(d) BY <1>0, <1>1 DEF Gate, Books, TypeOK
  <2>2. CASE call[d].stage = "sent"
    <3>1. call'[d] = [call[d] EXCEPT !.stage = "landed"] BY <2>1, <2>2 DEF Abandon
    <3> QED BY <2>1, <2>2, <3>1 DEF Calls, Placing
  <2>3. CASE call[d].stage \in {"yes", "no"}
    <3>1. call'[d] = NoCall BY <2>1, <2>3 DEF Abandon
    <3> QED BY <2>3, <3>1, CallFacts DEF NoCall, Placing
  <2>4. CASE call[d].stage \in {"none", "landed"}
    <3>1. call'[d] = call[d] BY <2>1, <2>4 DEF Abandon
    <3> QED BY <2>1, <2>4, <3>1 DEF Owes, Placing
  <2>5. call[d].stage \in Stages BY <2>1 DEF Calls
  <2> QED BY <2>2, <2>3, <2>4, <2>5 DEF Stages
<1>3. \A d \in Clients : Tame(d) BY <1>1, <1>2 DEF Tame
<1>4. ASSUME NEW n \in Nodes PROVE Anew(n)
  <2>1. Stands(n) /\ standing[n] \in SUBSET (Clients \cup Ids) BY <1>0 DEF Gate, Books, TypeOK
  <2>2. \A d \in Clients : call'[d].placed => call'[d].stage = "landed" BY <1>2
  <2>3. Charged(n)' = standing[n] BY <1>1, <2>2 DEF Charged, Built
  <2>4. IsFiniteSet(standing[n]) /\ Cardinality(standing[n]) \in Nat BY <2>1, CountFacts
  <2>5. placed'[n] = 0 /\ placedIds'[n] = {} /\ standing'[n] = standing[n] /\ slack'[n] = Cardinality(standing[n]) BY <1>1
  <2>6. \A d \in Clients : d \in standing[n] => Placing(d)' /\ call'[d].to = n BY <1>2, <2>1 DEF Stands
  <2>7. \A i \in Ids : i \in standing[n] => home'[i] = n BY <1>1, <2>1 DEF Stands
  <2>8. \A d \in Clients : pc'[d] # "await" BY <1>1
  <2>9. Cardinality(standing[n]) <= Cardinality(standing[n]) BY <2>4
  <2> QED BY <2>3, <2>4, <2>5, <2>6, <2>7, <2>8, <2>9 DEF Anew
<1>5. \A i \in Ids, m \in Nodes : Of(i, m) => Of(i, m)' BY <1>1 DEF Of, Unborn
<1>6. Books' BY <1>0, <1>3, <1>4, <1>5, BooksStep DEF Gate
<1>7. \A d \in Clients : Builds(d)' => Builds(d) /\ call'[d].to = call[d].to BY <1>2 DEF Builds
<1>8. Firsts' BY <1>0, <1>1, <1>2, <1>7, FirstsStep DEF Gate
<1> QED BY <1>6, <1>8

(* A birth: the sandbox stands where its placement stood. *)
LEMMA BuildGate ==
  ASSUME Gate, NEW c \in Clients, BuildThere(c)
  PROVE  Firsts' /\ Books'
<1>0. LInv /\ TypeOK /\ World /\ ClientOK(c) /\ Owes(c) BY DEF Gate, LInv, Books
<1>1. /\ call[c].stage = "landed" /\ call[c].verb \in {"create", "spawn"}
      /\ UNCHANGED <<dead, pc, op, look, placed, placedIds, slack>>
  BY DEF BuildThere, At
<1>2. PICK i \in Unborn :
       /\ home' = [home EXCEPT ![i] = call[c].to]
       /\ named' = IF call[c].verb = "create" THEN named \cup {i} ELSE named
       /\ standing' = [n \in Nodes |-> IF c \in standing[n] THEN (standing[n] \ {c}) \cup {i} ELSE standing[n]]
       /\ Finish(c, "yes", {i})
  BY DEF BuildThere
<1>3. i \in Ids /\ home[i] = Nowhere /\ i \notin named /\ i \notin Clients BY <1>0 DEF Unborn, World
<1>4. PICK k \in Calls :
        /\ call' = [call EXCEPT ![c] = k]
        /\ \/ k.stage = "none" /\ ~k.placed
           \/ /\ pc[c] = "await" /\ k.stage = "yes" /\ k.id = {i} /\ (k.placed <=> call[c].placed)
              /\ k.verb = call[c].verb /\ k.to = call[c].to
  BY <1>0, <1>2, <1>3, FinishFacts
<1>5. call'[c] = k /\ \A d \in Clients \ {c} : call'[d] = call[d] BY <1>0, <1>4 DEF TypeOK
<1>6. home'[i] = call[c].to /\ \A j \in Ids \ {i} : home'[j] = home[j] BY <1>0, <1>2, <1>3 DEF TypeOK
<1>7. \A d \in Clients \ {c} : Builds(d)' = Builds(d) /\ Placing(d)' = Placing(d)
  BY <1>5 DEF Builds, Placing
<1>8. ~Builds(c)' /\ ~Placing(c)' BY <1>4, <1>5 DEF Builds, Placing
<1>9. \A j \in Ids : /\ Built(c, j)' => j = i /\ call[c].placed /\ pc[c] = "await" /\ call'[c].to = call[c].to
                     /\ \A d \in Clients \ {c} : Built(d, j)' = Built(d, j)
  BY <1>4, <1>5 DEF Built
<1>10. \A d \in Clients : ~Built(d, i)
  <2> SUFFICES ASSUME NEW d \in Clients, Built(d, i) PROVE FALSE OBVIOUS
  <2>1. Said(d) BY <1>0 DEF LInv, ClientOK
  <2>2. Of(i, call[d].to) BY <2>1 DEF Said, Built
  <2> QED BY <2>2 DEF Of
<1>11. ASSUME NEW n \in Nodes
       PROVE  /\ Stands(n) /\ Affords(n) /\ placedIds[n] \subseteq Ids
              /\ placed[n] \in Nat /\ Credit(n) \in Nat /\ Credit(n)' = Credit(n)
              /\ i \notin placedIds[n] /\ i \notin standing[n]
              /\ standing'[n] = IF c \in standing[n] THEN (standing[n] \ {c}) \cup {i} ELSE standing[n]
  <2>1. Stands(n) /\ Affords(n) BY DEF Gate, Books
  <2>2. i \notin placedIds[n] /\ i \notin standing[n] BY <1>3, <2>1 DEF Stands, Of
  <2>3. placed[n] \in Nat /\ Credit(n) \in Nat /\ Credit(n)' = Credit(n) BY <1>0, <1>1, Credits DEF Credit
  <2> QED BY <1>0, <1>2, <2>1, <2>2, <2>3 DEF TypeOK
<1>12. Firsts'
  <2> SUFFICES ASSUME NEW d \in Clients, Builds(d)', call'[d].placed PROVE First(d)' BY DEF Firsts, First
  <2>1. d # c /\ Builds(d) /\ call[d].placed /\ call'[d] = call[d] BY <1>5, <1>7, <1>8
  <2>2. First(d) /\ ~Builds(c) BY <2>1 DEF Gate, Firsts, First
  <2>3. named' = named BY <1>1, <1>2, <2>2 DEF Builds
  <2>4. \A j \in named' : home'[j] # call'[d].to
    BY <1>0, <1>3, <1>6, <2>1, <2>2, <2>3 DEF First, TypeOK
  <2>5. ASSUME NEW e \in Clients \ {d}
        PROVE  ~Builds(e)' /\ (pc'[e] = "ask" /\ op'[e] = "acquire" => look'[e].yes = {})
    BY <1>1, <1>7, <1>8, <2>1, <2>2 DEF First
  <2> QED BY <2>4, <2>5 DEF First
<1>13. ASSUME NEW d \in Clients PROVE Owes(d)'
  <2>1. CASE d = c
    <3>1. ASSUME NEW j \in Ids, Built(c, j)'
          PROVE  (\A n \in Nodes : j \notin placedIds'[n]) /\ \A e \in Clients \ {c} : ~Built(e, j)'
      <4>1. j = i BY <1>9, <3>1
      <4>2. \A n \in Nodes : i \notin placedIds'[n] BY <1>1, <1>11
      <4>3. \A e \in Clients \ {c} : ~Built(e, i)' BY <1>3, <1>9, <1>10
      <4> QED BY <4>1, <4>2, <4>3
    <3>2. call'[c].placed => call'[c].verb \in {"create", "spawn"} /\ call'[c].stage # "none" BY <1>1, <1>4, <1>5
    <3>3. pc'[c] \in {"idle", "await"} BY <1>0, <1>1 DEF Owes
    <3> QED BY <1>8, <2>1, <3>1, <3>2, <3>3 DEF Owes
  <2>2. CASE d # c
    <3>1. Owes(d) /\ Orderly(d) BY <1>0 DEF Gate, Books, LInv, ClientOK
    <3>2. ASSUME pc[d] = "await", Placing(d) PROVE d \in standing'[call[d].to]
      <4>1. call[d].to \in Nodes /\ d \in standing[call[d].to] BY <1>0, <3>1, <3>2 DEF Owes, Orderly, Placing, TypeOK
      <4> QED BY <1>11, <2>2, <4>1
    <3>3. \A j \in Ids : Built(d, j)' => (\A n \in Nodes : j \notin placedIds'[n]) /\ \A e \in Clients \ {d} : ~Built(e, j)'
      BY <1>1, <1>9, <1>10, <2>2, <3>1 DEF Owes
    <3>4. /\ call'[d].placed => call'[d].verb \in {"create", "spawn"} /\ call'[d].stage # "none"
          /\ pc'[d] \notin {"idle", "await"} => call'[d].stage = "none"
      BY <1>1, <1>5, <2>2, <3>1 DEF Owes
    <3>5. pc'[d] = "await" /\ Placing(d)' => d \in standing'[call'[d].to] BY <1>1, <1>5, <1>7, <2>2, <3>2
    <3> QED BY <3>3, <3>4, <3>5 DEF Owes
  <2> QED BY <2>1, <2>2
<1>14. ASSUME NEW n \in Nodes PROVE Stands(n)'
  <2>1. \A d \in Clients : d \in standing'[n] => d # c /\ d \in standing[n] BY <1>3, <1>11
  <2>2. ASSUME NEW d \in Clients, d \in standing'[n] PROVE Placing(d)' /\ call'[d].to = n
    <3>1. d # c /\ Placing(d) /\ call[d].to = n BY <1>11, <2>1, <2>2 DEF Stands
    <3> QED BY <1>5, <1>7, <3>1
  <2>3. ASSUME NEW j \in Ids, j \in standing'[n] PROVE home'[j] = n
    <3>1. CASE j = i BY <1>6, <1>11, <2>3, <3>1 DEF Stands
    <3>2. CASE j # i
      <4>1. j \in standing[n] BY <1>11, <2>3, <3>2
      <4> QED BY <1>6, <1>11, <3>2, <4>1 DEF Stands
    <3> QED BY <3>1, <3>2
  <2>4. ASSUME NEW j \in placedIds'[n] PROVE Of(j, n)'
    <3>0. placedIds' = placedIds /\ placedIds[n] \subseteq Ids /\ i \notin placedIds[n] BY <1>1, <1>11
    <3>1. j \in placedIds[n] /\ j \in Ids /\ j # i BY <2>4, <3>0
    <3>2. Of(j, n) BY <1>11, <3>1 DEF Stands
    <3> QED BY <1>1, <1>6, <3>1, <3>2 DEF Of, Unborn
  <2> QED BY <2>2, <2>3, <2>4 DEF Stands
<1>15. ASSUME NEW n \in Nodes PROVE Affords(n)'
  <2>1. ASSUME NEW d \in Clients, call'[d].placed, call'[d].to = n, call'[d].stage = "no"
        PROVE  d # c /\ d \in Charged(n)
    BY <1>4, <1>5, <2>1 DEF Charged
  <2>2. ASSUME NEW j \in Ids, NEW d \in Clients, Built(d, j)', call'[d].to = n
        PROVE  j \in Charged(n) \/ (j = i /\ c \in standing[n])
    <3>1. CASE d = c
      <4>1. j = i /\ Placing(c) /\ pc[c] = "await" /\ call[c].to = n BY <1>1, <1>9, <2>2, <3>1 DEF Placing
      <4> QED BY <1>0, <4>1 DEF Owes
    <3>2. CASE d # c BY <1>5, <1>9, <2>2, <3>2 DEF Charged
    <3> QED BY <3>1, <3>2
  <2>3. CASE c \in standing[n]
    <3>1. c \in Charged(n) BY <2>3 DEF Charged
    <3>2. c \notin Ids OBVIOUS
    <3>3. Charged(n)' \in SUBSET ((Charged(n) \ {c}) \cup {i})
      <4> SUFFICES ASSUME NEW x \in Charged(n)' PROVE x = i \/ (x \in Charged(n) /\ x # c) OBVIOUS
      <4>1. CASE x \in standing'[n]
        <5>1. x = i \/ (x \in standing[n] /\ x # c) BY <1>11, <2>3, <4>1
        <5> QED BY <5>1 DEF Charged
      <4>2. CASE x \in placedIds'[n] BY <1>1, <1>11, <3>2, <4>2 DEF Charged
      <4>3. CASE x \in Clients /\ call'[x].placed /\ call'[x].to = n /\ call'[x].stage = "no" BY <2>1, <4>3
      <4>4. CASE x \in Ids /\ \E d \in Clients : Built(d, x)' /\ call'[d].to = n BY <2>2, <3>2, <4>4
      <4> QED BY <4>1, <4>2, <4>3, <4>4 DEF Charged
    <3>4. IsFiniteSet(Charged(n)') /\ Cardinality(Charged(n)') <= Credit(n)
      BY <1>11, <3>1, <3>3, SwappedCharged DEF Affords
    <3> QED BY <1>1, <1>11, <3>4 DEF Affords
  <2>4. CASE c \notin standing[n]
    <3>1. Charged(n)' \in SUBSET Charged(n)
      <4> SUFFICES ASSUME NEW x \in Charged(n)' PROVE x \in Charged(n) OBVIOUS
      <4>1. CASE x \in standing'[n] BY <1>11, <2>4, <4>1 DEF Charged
      <4>2. CASE x \in placedIds'[n] BY <1>1, <4>2 DEF Charged
      <4>3. CASE x \in Clients /\ call'[x].placed /\ call'[x].to = n /\ call'[x].stage = "no" BY <2>1, <4>3
      <4>4. CASE x \in Ids /\ \E d \in Clients : Built(d, x)' /\ call'[d].to = n BY <2>2, <2>4, <4>4
      <4> QED BY <4>1, <4>2, <4>3, <4>4 DEF Charged
    <3>2. IsFiniteSet(Charged(n)') /\ Cardinality(Charged(n)') <= Credit(n)
      BY <1>11, <3>1, FewerCharged DEF Affords
    <3> QED BY <1>1, <1>11, <3>2 DEF Affords
  <2> QED BY <2>3, <2>4
<1> QED BY <1>12, <1>13, <1>14, <1>15 DEF Books

(* An answer learnt: what it built is kept by its id, and what comes off the
   count comes off the charges. *)
LEMMA LearnGateStep ==
  ASSUME Gate, NEW c \in Clients, NEW at \in Nodes, call[c].to = at, call[c].stage \in {"yes", "no"},
         Done(c), call' = [call EXCEPT ![c] = NoCall], UNCHANGED <<world, standing, slack>>,
         \A n \in Nodes \ {at} : placed'[n] = placed[n] /\ placedIds'[n] = placedIds[n],
         \A i \in placedIds'[at] : i \in placedIds[at] \/ (i \in Ids /\ Built(c, i)),
         \/ placed'[at] = placed[at]
         \/ /\ placed'[at] = IF placed[at] = 0 THEN 0 ELSE placed[at] - 1
            /\ \E x \in Charged(at) : x \notin Charged(at)'
  PROVE  Firsts' /\ Books'
<1>0. LInv /\ TypeOK /\ Said(c) /\ Owes(c) BY DEF Gate, LInv, ClientOK, Books
<1>1. /\ call'[c] = NoCall /\ pc'[c] = "idle" /\ op'[c] = "use"
      /\ \A d \in Clients \ {c} : pc'[d] = pc[d] /\ op'[d] = op[d] /\ look'[d] = look[d] /\ call'[d] = call[d]
  BY <1>0 DEF Done, TypeOK
<1>2. NoCall.stage = "none" /\ ~NoCall.placed BY CallFacts DEF NoCall
<1>3. UNCHANGED <<home, named, dead, standing, slack>> BY DEF world
<1>4. \A d \in Clients \ {c} : Builds(d)' = Builds(d) /\ Placing(d)' = Placing(d)
  BY <1>1 DEF Builds, Placing
<1>5. ~Builds(c)' /\ ~Placing(c) /\ ~Placing(c)' BY <1>1, <1>2 DEF Builds, Placing
<1>6. \A i \in Ids : ~Built(c, i)' /\ \A d \in Clients \ {c} : Built(d, i)' = Built(d, i)
  BY <1>1, <1>2 DEF Built
<1>7. ASSUME NEW n \in Nodes, NEW i \in placedIds'[n] PROVE i \in placedIds[n] \/ (n = at /\ i \in Ids /\ Built(c, i))
  BY <1>7
<1>8. Firsts'
  <2>1. \A d \in Clients : Builds(d)' => d # c /\ Builds(d) BY <1>4, <1>5
  <2>2. \A i \in named' : i \in named /\ home'[i] = home[i] BY <1>3
  <2> QED BY <1>0, <1>1, <2>1, <2>2, FirstsStep DEF Gate
<1>9. ASSUME NEW d \in Clients PROVE Owes(d)'
  <2>1. CASE d = c BY <1>1, <1>2, <1>5, <1>6, <2>1 DEF Owes
  <2>2. CASE d # c
    <3>1. Owes(d) BY DEF Gate, Books
    <3>2. ASSUME NEW i \in Ids, Built(d, i)'
          PROVE  (\A n \in Nodes : i \notin placedIds'[n]) /\ \A e \in Clients \ {d} : ~Built(e, i)'
      <4>1. Built(d, i) /\ ~Built(c, i) BY <1>6, <2>2, <3>1, <3>2 DEF Owes
      <4>2. \A n \in Nodes : i \notin placedIds[n] BY <3>1, <4>1 DEF Owes
      <4>3. \A n \in Nodes : i \notin placedIds'[n] BY <1>7, <4>1, <4>2
      <4>4. \A e \in Clients \ {d} : ~Built(e, i)' BY <1>6, <3>1, <4>1 DEF Owes
      <4> QED BY <4>3, <4>4
    <3> QED BY <1>1, <1>3, <1>4, <2>2, <3>1, <3>2 DEF Owes
  <2> QED BY <2>1, <2>2
<1>10. ASSUME NEW n \in Nodes PROVE Stands(n)'
  <2>1. Stands(n) /\ placedIds[n] \subseteq Ids BY <1>0 DEF Gate, Books, TypeOK
  <2>2. ASSUME NEW d \in Clients, d \in standing'[n] PROVE Placing(d)' /\ call'[d].to = n
    <3>1. d # c /\ Placing(d) /\ call[d].to = n BY <1>3, <1>5, <2>1, <2>2 DEF Stands
    <3> QED BY <1>1, <1>4, <3>1
  <2>3. \A i \in Ids : i \in standing'[n] => home'[i] = n BY <1>3, <2>1 DEF Stands
  <2>4. ASSUME NEW i \in placedIds'[n] PROVE Of(i, n)'
    <3>1. CASE i \in placedIds[n] BY <1>3, <2>1, <3>1 DEF Stands, Of, Unborn
    <3>2. CASE n = at /\ i \in Ids /\ Built(c, i)
      <4>1. Of(i, n) BY <1>0, <3>2 DEF Said, Built
      <4> QED BY <1>3, <4>1 DEF Of, Unborn
    <3> QED BY <1>7, <3>1, <3>2
  <2> QED BY <2>2, <2>3, <2>4 DEF Stands
<1>11. ASSUME NEW n \in Nodes PROVE Affords(n)'
  <2>1. Affords(n) /\ placed[n] \in Nat /\ slack[n] \in Nat /\ Credit(n) \in Nat BY <1>0, Credits DEF Gate, Books
  <2>2. Charged(n)' \in SUBSET Charged(n)
    <3> SUFFICES ASSUME NEW x \in Charged(n)' PROVE x \in Charged(n) OBVIOUS
    <3>1. CASE x \in standing'[n] BY <1>3, <3>1 DEF Charged
    <3>2. CASE x \in placedIds'[n]
      <4>1. x \in placedIds[n] \/ (n = at /\ x \in Ids /\ Built(c, x)) BY <1>7, <3>2
      <4> QED BY <4>1 DEF Charged
    <3>3. CASE x \in Clients /\ call'[x].placed /\ call'[x].to = n /\ call'[x].stage = "no"
      BY <1>1, <1>2, <3>3 DEF Charged
    <3>4. CASE x \in Ids /\ \E d \in Clients : Built(d, x)' /\ call'[d].to = n
      BY <1>1, <1>6, <3>4 DEF Charged
    <3> QED BY <3>1, <3>2, <3>3, <3>4 DEF Charged
  <2>3. CASE placed'[n] = placed[n]
    <3>1. IsFiniteSet(Charged(n)') /\ Cardinality(Charged(n)') <= Credit(n)
      BY <2>1, <2>2, FewerCharged DEF Affords
    <3>2. Credit(n)' = Credit(n) BY <1>3, <2>3 DEF Credit
    <3> QED BY <2>1, <2>3, <3>1, <3>2 DEF Affords
  <2>4. ASSUME placed'[n] = (IF placed[n] = 0 THEN 0 ELSE placed[n] - 1), NEW x \in Charged(n), x \notin Charged(n)'
        PROVE  Affords(n)'
    <3>1. Charged(n)' \in SUBSET (Charged(n) \ {x}) BY <2>2, <2>4
    <3>2. IsFiniteSet(Charged(n)') /\ Cardinality(Charged(n)') <= Credit(n) - 1
      BY <2>1, <3>1, OneLessCharged DEF Affords
    <3>3. Cardinality(Charged(n)') \in Nat BY <3>2, FS_CardinalityType
    <3>4. placed'[n] <= Room /\ Credit(n) - 1 <= Credit(n)' /\ Credit(n)' \in Nat
      BY <1>3, <2>1, <2>4 DEF Affords, Credit
    <3>5. Cardinality(Charged(n)') <= Credit(n)' BY <2>1, <3>2, <3>3, <3>4
    <3> QED BY <3>2, <3>4, <3>5 DEF Affords
  <2> QED BY <2>3, <2>4
<1> QED BY <1>8, <1>9, <1>10, <1>11 DEF Books

LEMMA LearnGate ==
  ASSUME Gate, NEW c \in Clients, LearnCreate(c) \/ LearnDestroy(c)
  PROVE  Firsts' /\ Books'
<1>0. LInv /\ TypeOK /\ ClientOK(c) /\ Owes(c) BY DEF Gate, LInv, Books
<1>1. /\ call[c].stage \in {"yes", "no"} /\ Done(c) /\ call' = [call EXCEPT ![c] = NoCall]
      /\ UNCHANGED <<world, standing, slack>>
  BY DEF LearnCreate, LearnDestroy
<1>2. PICK at \in Nodes : call[c].to = at BY <1>0, <1>1 DEF ClientOK, Orderly, TypeOK
<1>3. Stands(at) BY DEF Gate, Books
<1>4. call[c] \in Calls /\ call[c].id \subseteq Ids /\ placedIds[at] \subseteq Ids BY <1>0 DEF TypeOK, Calls
<1>5. ASSUME UNCHANGED <<placed, placedIds>> PROVE Firsts' /\ Books' BY <1>1, <1>2, <1>5, LearnGateStep
<1>6. call'[c] = NoCall /\ ~NoCall.placed /\ NoCall.stage = "none" /\ \A d \in Clients \ {c} : call'[d] = call[d]
  BY <1>0, <1>1, CallFacts DEF TypeOK, NoCall
<1>7. CASE LearnCreate(c)
  <2>1. ASSUME call[c].stage = "yes", call[c].placed, UNCHANGED placed,
               placedIds' = [placedIds EXCEPT ![call[c].to] = @ \cup call[c].id]
        PROVE  Firsts' /\ Books'
    <3>1. \A n \in Nodes \ {at} : placed'[n] = placed[n] /\ placedIds'[n] = placedIds[n]
      BY <1>0, <1>2, <2>1 DEF TypeOK
    <3>2. placedIds'[at] = placedIds[at] \cup call[c].id BY <1>0, <1>2, <2>1 DEF TypeOK
    <3>3. \A i \in placedIds'[at] : i \in placedIds[at] \/ (i \in Ids /\ Built(c, i))
      BY <1>4, <2>1, <3>2 DEF Built
    <3>4. placed'[at] = placed[at] BY <2>1
    <3> QED BY <1>1, <1>2, <3>1, <3>3, <3>4, LearnGateStep
  <2>2. ASSUME call[c].stage = "no", call[c].placed, UNCHANGED placedIds,
               placed' = [placed EXCEPT ![call[c].to] = IF @ = 0 THEN 0 ELSE @ - 1]
        PROVE  Firsts' /\ Books'
    <3>1. \A n \in Nodes \ {at} : placed'[n] = placed[n] /\ placedIds'[n] = placedIds[n]
      BY <1>0, <1>2, <2>2 DEF TypeOK
    <3>2. placed'[at] = IF placed[at] = 0 THEN 0 ELSE placed[at] - 1 BY <1>0, <1>2, <2>2 DEF TypeOK
    <3>3. c \in Charged(at) BY <1>2, <2>2 DEF Charged
    <3>4. c \notin Charged(at)'
      <4>1. c \notin standing'[at] BY <1>1, <1>3, <2>2 DEF Stands, Placing
      <4>2. c \notin Ids /\ c \notin placedIds'[at] BY <1>4, <2>2
      <4> QED BY <1>6, <4>1, <4>2 DEF Charged
    <3>5. \A i \in placedIds'[at] : i \in placedIds[at] \/ (i \in Ids /\ Built(c, i)) BY <2>2
    <3> QED BY <1>1, <1>2, <3>1, <3>2, <3>3, <3>4, <3>5, LearnGateStep
  <2> QED BY <1>5, <1>7, <2>1, <2>2 DEF LearnCreate
<1>8. CASE LearnDestroy(c)
  <2>1. ASSUME call[c].stage = "yes", call[c].verb \in {"destroy", "kill"}, NEW i \in call[c].id \cap placedIds[call[c].to],
               placedIds' = [placedIds EXCEPT ![call[c].to] = @ \ call[c].id],
               placed' = [placed EXCEPT ![call[c].to] = IF @ = 0 THEN 0 ELSE @ - 1]
        PROVE  Firsts' /\ Books'
    <3>1. \A n \in Nodes \ {at} : placed'[n] = placed[n] /\ placedIds'[n] = placedIds[n]
      BY <1>0, <1>2, <2>1 DEF TypeOK
    <3>2. placed'[at] = (IF placed[at] = 0 THEN 0 ELSE placed[at] - 1) /\ placedIds'[at] = placedIds[at] \ call[c].id
      BY <1>0, <1>2, <2>1 DEF TypeOK
    <3>3. i \in Ids /\ i \in placedIds[at] /\ i \in Charged(at) /\ home[i] = Nowhere
      BY <1>0, <1>2, <1>4, <2>1 DEF Charged, ClientOK, Said
    <3>4. i \notin Charged(at)'
      <4>1. i \notin standing'[at] BY <1>1, <1>3, <3>3 DEF Stands
      <4>2. i \notin placedIds'[at] /\ i \notin Clients BY <2>1, <3>2, <3>3
      <4>3. \A d \in Clients : ~Built(d, i) BY <3>3 DEF Gate, Books, Owes
      <4>4. \A d \in Clients : ~Built(d, i)' BY <1>6, <4>3 DEF Built
      <4> QED BY <4>1, <4>2, <4>4 DEF Charged
    <3>5. \A j \in placedIds'[at] : j \in placedIds[at] \/ (j \in Ids /\ Built(c, j)) BY <3>2
    <3> QED BY <1>1, <1>2, <3>1, <3>2, <3>3, <3>4, <3>5, LearnGateStep
  <2> QED BY <1>5, <1>8, <2>1 DEF LearnDestroy
<1> QED BY <1>7, <1>8

LEMMA GateIsKept ==
  ASSUME Gate PROVE GateKept
<1> SUFFICES ASSUME NEW n \in Nodes PROVE Cardinality(standing[n]) <= Room + slack[n] BY DEF GateKept
<1>1. /\ IsFiniteSet(Charged(n)) /\ Cardinality(Charged(n)) <= Credit(n) /\ placed[n] <= Room
      /\ placed[n] \in Nat /\ slack[n] \in Nat /\ Credit(n) \in Nat
  BY Credits DEF Gate, Books, Affords
<1>2. standing[n] \in SUBSET Charged(n) BY DEF Charged
<1>3. IsFiniteSet(standing[n]) /\ Cardinality(standing[n]) <= Credit(n) BY <1>1, <1>2, FewerCharged
<1>4. Cardinality(standing[n]) \in Nat BY <1>3, FS_CardinalityType
<1>5. Credit(n) <= Room + slack[n] BY <1>1 DEF Credit
<1> QED BY <1>1, <1>3, <1>4, <1>5

LEMMA InitGate == Init => Gate
<1> SUFFICES ASSUME Init PROVE Gate OBVIOUS
<1>1. LInv BY InitL
<1>2. \A c \in Clients : call[c] = NoCall /\ pc[c] = "idle" BY DEF Init
<1>3. ~NoCall.placed /\ NoCall.stage = "none" BY CallFacts DEF NoCall
<1>4. Firsts BY <1>2, <1>3 DEF Firsts, First, Builds
<1>5. \A c \in Clients : Owes(c) BY <1>2, <1>3 DEF Owes, Built, Placing
<1>6. ASSUME NEW n \in Nodes PROVE Stands(n) /\ Affords(n)
  <2>1. placed[n] = 0 /\ placedIds[n] = {} /\ standing[n] = {} /\ slack[n] = 0 BY DEF Init
  <2>2. Charged(n) = {} BY <1>2, <1>3, <2>1 DEF Charged, Built
  <2> QED BY <2>1, <2>2, FS_EmptySet DEF Stands, Affords, Credit
<1> QED BY <1>1, <1>4, <1>5, <1>6 DEF Gate, Books

LEMMA NextGate == ASSUME ~Overtaken, ~Returns, Gate, [Next]_vars PROVE Gate'
<1>0. LInv' BY NextL DEF Gate
<1>1. ASSUME NEW c \in Clients, Callers(c) \/ Turn(c) PROVE Firsts' /\ Books' BY <1>1, CallerGate
<1>2. ASSUME NEW c \in Clients, Handling(c) PROVE Firsts' /\ Books'
  BY <1>2, AnswerGate, JudgeGate, LearnGate, GiveUpGate DEF Handling
<1>3. ASSUME NEW c \in Clients, Serving(c) PROVE Firsts' /\ Books' BY <1>3, ServeGate, BuildGate, DestroyGate DEF Serving
<1>4. ASSUME NEW i \in Ids, Expire(i) PROVE Firsts' /\ Books' BY <1>4, ExpireGate
<1>5. ASSUME Membership PROVE Firsts' /\ Books' BY <1>5, FleetGate, RemoveGate DEF Membership
<1>6. ASSUME Restart PROVE Firsts' /\ Books' BY <1>6, RestartGate
<1>7. ASSUME Evict \/ UNCHANGED vars PROVE Firsts' /\ Books'
  <2>1. UNCHANGED <<home, named, dead, pc, op, look, call, placed, placedIds, standing, slack>>
    BY <1>7 DEF Evict, vars, world, handler, counts
  <2>2. Firsts' BY <2>1 DEF Gate, Firsts, First, Builds
  <2>3. \A d \in Clients : Owes(d)' BY <2>1 DEF Gate, Books, Owes, Built, Placing
  <2>4. ASSUME NEW n \in Nodes PROVE Stands(n)' /\ Affords(n)'
    <3>1. Stands(n) /\ Affords(n) BY DEF Gate, Books
    <3>2. Charged(n)' = Charged(n) BY <2>1 DEF Charged, Built
    <3>3. Stands(n)' BY <2>1, <3>1 DEF Stands, Placing, Of, Unborn
    <3>4. Affords(n)' BY <2>1, <3>1, <3>2 DEF Affords, Credit
    <3> QED BY <3>3, <3>4
  <2> QED BY <2>2, <2>3, <2>4 DEF Books
<1>8. Firsts' /\ Books' BY <1>1, <1>2, <1>3, <1>4, <1>5, <1>6, <1>7 DEF Next
<1> QED BY <1>0, <1>8 DEF Gate

(* What stands on a node beyond its reading fits in the room the reading left,
   but for as many as were under way when it came or the gateway started
   (placement.ts pick, create.ts 95-104, fleet.ts 324-329): whatever became of
   their calls and whoever gave up on them, for any fleet, room and callers. *)
THEOREM AlwaysGateKept == ASSUME ~Overtaken, ~Returns PROVE Spec => []GateKept
<1>1. Init => Gate BY InitGate
<1>2. Gate /\ [Next]_vars => Gate' BY NextGate
<1>3. Gate => GateKept BY GateIsKept
<1> QED BY <1>1, <1>2, <1>3, PTL DEF Spec
=============================================================================
