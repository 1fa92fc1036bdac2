---------------------------- MODULE MCJobService ----------------------------
(* JobLifecycleRefinement with one slot per server, for TLC.                *)
EXTENDS JobLifecycleRefinement, TLC

MCCapacity == [s \in Server |-> 1]
=============================================================================
