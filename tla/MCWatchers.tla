----------------------------- MODULE MCWatchers -----------------------------
(***************************************************************************)
(* Watchers for TLC: a poll, and either its retry or a stream.             *)
(***************************************************************************)
EXTENDS Watchers

CONSTANTS s1, p1, p2, o1

MCOpOf == [p \in Polls |-> o1]
MCAbsences == {{s1}, {p2}}
=============================================================================
