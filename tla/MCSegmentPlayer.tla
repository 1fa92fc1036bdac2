--------------------------- MODULE MCSegmentPlayer ---------------------------
(***************************************************************************)
(* Two rows that share the label 1.  The label 2 is in the first only, 3   *)
(* and 4 in the second only.  Sorting the second takes three passes, the   *)
(* last of which changes nothing, and two of its segments have one label   *)
(* with another segment between them.  The recording goes on after the     *)
(* last segment.                                                           *)
(***************************************************************************)
EXTENDS SegmentPlayer

Seg(o, f, l) == [o |-> o, f |-> f, l |-> l]

MCRow == 1..2
MCData ==
  <<<<Seg(0, 2, 1), Seg(2, 4, 2)>>,
    <<Seg(0, 2, 3), Seg(2, 4, 4), Seg(4, 6, 3), Seg(6, 8, 1)>>>>

=============================================================================
