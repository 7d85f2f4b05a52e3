---------------------------- MODULE MCIdleClock -----------------------------
(***************************************************************************)
(* IdleClock for TLC: a unit is half the least freeze threshold.           *)
(***************************************************************************)
EXTENDS IdleClock

Policy(f, s, a) == [freeze |-> f, stop |-> s, archive |-> a]

MCPolicies == { Policy(2, 3, 4), Policy(4, Never, Never) }
=============================================================================
