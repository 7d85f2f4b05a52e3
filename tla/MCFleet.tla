------------------------------ MODULE MCFleet -------------------------------
(***************************************************************************)
(* Fleet for TLC: the days its runs look at.                               *)
(***************************************************************************)
EXTENDS Fleet

Day(may, last, versions, byHand, starts) ==
  [may |-> may, last |-> last, versions |-> versions, hands |-> byHand, restarts |-> starts]

(* A second push on the heels of the first, and a gateway that follows; an
   operator's hand on nodes and tells; a node that cannot upgrade itself; a
   gateway put back, units that take too long; writes that fail; settings
   changed while nodes come and go. *)
MCDays ==
  { Day({"push"}, 2, 1, 0, 2),
    Day({"push", "hand"}, 1, 1, 1, 1),
    Day({"push", "unable", "slow"}, 1, 1, 0, 1),
    Day({"push", "downgrade"}, 1, 1, 0, 2),
    Day({"push", "unwritten"}, 1, 1, 0, 1),
    Day({"settings", "remove"}, 0, 3, 1, 0) }
=============================================================================
