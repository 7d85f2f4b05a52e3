----------------------------- MODULE Directory ------------------------------
(***************************************************************************)
(* What the fleet promises a caller about one name: it lives on one node   *)
(* at most, and is built only where and when it lives nowhere.             *)
(*                                                                         *)
(* Placement.tla is the gateway that keeps this promise.                   *)
(***************************************************************************)
CONSTANTS Nodes, Ids

VARIABLE homes  \* the pairs <<id, node>> alive under the name

Init == homes = {}

Build(i, n) == homes = {} /\ homes' = {<<i, n>>}

(* A destroy, a deadline, or the node itself gone for good. *)
End == homes # {} /\ homes' = {}

Next == End \/ \E i \in Ids, n \in Nodes : Build(i, n)

Spec == Init /\ [][Next]_homes
=============================================================================
