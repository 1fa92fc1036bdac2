---------------------------- MODULE MCServerPool ----------------------------
(* ServerPool on three servers, for TLC.                                    *)
EXTENDS ServerPool, TLC

Symmetry == Permutations(Server) \cup Permutations(Job)
=============================================================================
