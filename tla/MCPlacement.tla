---------------------------- MODULE MCPlacement -----------------------------
(***************************************************************************)
(* Placement for TLC: nodes, callers and ids are interchangeable.  To keep *)
(* the graph small, readings that come in the middle of creates do so on   *)
(* one node at a time.                                                     *)
(***************************************************************************)
EXTENDS Placement, TLC

Symmetry == Permutations(Nodes) \cup Permutations(Clients) \cup Permutations(Ids)

OneLate == \A m, n \in Nodes : m # n => slack[m] = 0 \/ slack[n] = 0

OneLateSpec == Init /\ [][Next /\ OneLate']_vars
=============================================================================
