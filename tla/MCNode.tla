------------------------------- MODULE MCNode -------------------------------
(***************************************************************************)
(* Node for TLC.  Convergence is a property of passes over a node at rest: *)
(* its run lets requests and passes alternate, a pass beginning only when  *)
(* nothing else is under way, which keeps the graph small.  What a pass    *)
(* may do to a sandbox in motion is checked by the runs of NodeSpec.  One  *)
(* thing goes wrong from outside: a move of the environment or a crash.    *)
(***************************************************************************)
EXTENDS NodeInv

PassAtRest == (phase = "rest" => AtRest) /\ PassStep

AlternateNext ==
  \/ PassAtRest
  \/ phase = "rest" /\ Serve
  \/ crashes = 0 /\ Drift
  \/ drift = 0 /\ Restart

AlternateSpec == NodeInit /\ [][AlternateNext]_nodeVars /\ WF_nodeVars(PassAtRest) /\ Succeeds
=============================================================================
