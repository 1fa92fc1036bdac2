----------------------------- MODULE JobService -----------------------------
(***************************************************************************)
(* What the flow service promises its users about a job, as long as the    *)
(* answer of a server is neither lost nor left unrecorded: the job is      *)
(* executed at most once, and the status column never claims what has not  *)
(* happened.  How jobs are queued, tried, monitored and aborted is the     *)
(* business of JobLifecycle.                                               *)
(***************************************************************************)
CONSTANTS Job

VARIABLES
  stage,   \* what happened to the job
  told     \* what its row says, ABSENT without a row

vars == <<stage, told>>

(* What a row may say of a job at each stage, by FlowService's use of the   *)
(* status: the final statuses name an end, and STARTED an execution.        *)
Truthful(status, at) ==
  /\ status = "STARTED" => at \in {"executing", "ended"}
  /\ status \in {"FINISHED", "ABORTED"} => at = "ended"
  /\ status = "FAILED" => at = "givenUp"

Init ==
  /\ stage = [j \in Job |-> "requested"]
  /\ told  = [j \in Job |-> "ABSENT"]

(* A step takes one job one stage further ...                               *)
Proceeds(j) ==
  \/ stage[j] = "requested" /\ stage' = [stage EXCEPT ![j] = "queued"]
  \/ stage[j] = "queued"    /\ stage' = [stage EXCEPT ![j] = "executing"]
  \/ stage[j] = "queued"    /\ stage' = [stage EXCEPT ![j] = "givenUp"]
  \/ stage[j] = "executing" /\ stage' = [stage EXCEPT ![j] = "ended"]

(* ... or writes its row, or deletes the row of a job that is done.         *)
Tells(j) ==
  \E status \in {"ABSENT", "UNKNOWN", "SCHEDULED", "SUBMITTED", "STARTED",
                 "FINISHED", "FAILED", "ABORTED"} :
    /\ Truthful(status, stage'[j])
    /\ status = "ABSENT" => told[j] \in {"FINISHED", "FAILED", "ABORTED"}
    /\ told' = [told EXCEPT ![j] = status]

Next ==
  \E j \in Job :
    /\ Proceeds(j) \/ UNCHANGED stage
    /\ Tells(j) \/ UNCHANGED told

Spec == Init /\ [][Next]_vars
=============================================================================
