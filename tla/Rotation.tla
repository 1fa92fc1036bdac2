------------------------------ MODULE Rotation ------------------------------
(***************************************************************************)
(* Dealing out servers in turns, without pointers: a sequence of the       *)
(* servers, the one whose turn is next first and the one that was offered  *)
(* last at the end.                                                        *)
(***************************************************************************)
EXTENDS Integers, SequencesExt

CONSTANTS Server

VARIABLES
  order,      \* the servers in the order of their turns
  available,  \* the servers that accept jobs and are not busy
  passed      \* servers passed over in a search, -1 outside of one

vars == <<order, available, passed>>

Members == {order[i] : i \in 1..Len(order)}
rotate(seq, n) == SubSeq(seq, n + 1, Len(seq)) \o SubSeq(seq, 1, n)

Init == order = <<>> /\ available \in SUBSET Server /\ passed = -1

(* A server that joins has the next turn.                                   *)
Join(s) ==
  /\ passed = -1 /\ s \notin Members
  /\ order' = <<s>> \o order
  /\ UNCHANGED <<available, passed>>

(* The others keep the order of their turns; when the server that leaves    *)
(* was the last to be offered, the next one loses its turn.                 *)
Leave(s) ==
  /\ passed = -1
  /\ \E i \in 1..Len(order) :
       /\ order[i] = s
       /\ order' = IF i = Len(order) /\ i > 1
                   THEN rotate(RemoveAt(order, i), 1) ELSE RemoveAt(order, i)
  /\ UNCHANGED <<available, passed>>

Search ==
  /\ passed = -1 /\ order # <<>>
  /\ passed' = 0
  /\ UNCHANGED <<order, available>>

PassOver ==
  /\ passed >= 0 /\ order[passed + 1] \notin available
  /\ passed' = IF passed + 1 = Len(order) THEN -1 ELSE passed + 1
  /\ UNCHANGED <<order, available>>

Offer ==
  /\ passed >= 0 /\ order[passed + 1] \in available
  /\ order'  = rotate(order, passed + 1)
  /\ passed' = -1
  /\ UNCHANGED available

Change(s) ==
  /\ available' = IF s \in available THEN available \ {s} ELSE available \cup {s}
  /\ UNCHANGED <<order, passed>>

Next == \/ Search \/ PassOver \/ Offer
        \/ \E s \in Server : Join(s) \/ Leave(s) \/ Change(s)

Spec == Init /\ [][Next]_vars
=============================================================================
