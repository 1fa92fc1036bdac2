--------------------------- MODULE MCJobLifecycle ---------------------------
(* JobLifecycle with one slot per server, or two, for TLC.                  *)
EXTENDS JobLifecycle, TLC

CONSTANTS s1, s2

MCCapacity == [s \in Server |-> 1]
MCTwoSlots == [s \in Server |-> 2]
ServerSymmetry == Permutations(Server)
=============================================================================
