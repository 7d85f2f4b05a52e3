----------------------------- MODULE MCLifecycle -----------------------------
(***************************************************************************)
(* Lifecycle for TLC: the request handlers are interchangeable, and so are *)
(* the ids.  Only the runs that check safety use the symmetry.             *)
(***************************************************************************)
EXTENDS LifecycleInv, TLC

Symmetric == Permutations(Clients) \cup Permutations(Ids)
=============================================================================
