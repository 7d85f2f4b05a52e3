-------------------------- MODULE MCProcessStreams --------------------------
(***************************************************************************)
(* ProcessStreams for TLC: who starts what.                                *)
(***************************************************************************)
EXTENDS ProcessStreams, TLC

CONSTANTS p1, p2, s1, s2

MCChunksBoth == (p1 :> 2) @@ (p2 :> 1)
MCChunksLong == (p1 :> 3) @@ (p2 :> 0)
MCChunks == (p1 :> 2) @@ (p2 :> 0)
MCStarter == (p1 :> s1) @@ (p2 :> s2)
=============================================================================
