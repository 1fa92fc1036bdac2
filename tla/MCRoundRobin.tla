---------------------------- MODULE MCRoundRobin ----------------------------
(* RoundRobin on a few servers, for TLC.                                    *)
EXTENDS RoundRobin
=============================================================================
