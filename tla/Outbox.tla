------------------------------- MODULE Outbox -------------------------------
(***************************************************************************)
(* What the flow service does with the notifications it stores: a delivery *)
(* of each is attempted, and no notification overtakes an older one.  How  *)
(* they are loaded, queued, sent and recorded, and how often, is the       *)
(* business of Notifications.                                              *)
(***************************************************************************)
EXTENDS Naturals

VARIABLES
  posted,   \* the notifications are 1..posted
  tried     \* those a delivery was attempted of

vars == <<posted, tried>>

Init == posted = 0 /\ tried = {}

Post ==
  /\ posted' = posted + 1
  /\ UNCHANGED tried

Try(n) ==
  /\ n \in 1..posted
  /\ n \notin tried
  /\ 1..(n - 1) \subseteq tried
  /\ tried' = tried \cup {n}
  /\ UNCHANGED posted

Next == Post \/ \E n \in 1..posted : Try(n)

Spec == Init /\ [][Next]_vars
=============================================================================
