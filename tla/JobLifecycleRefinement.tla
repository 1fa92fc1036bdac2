----------------------- MODULE JobLifecycleRefinement -----------------------
(* JobLifecycle implements JobService.                                      *)
EXTENDS JobLifecycle

(* The stage of a job: before and while it waits in the queue, while its    *)
(* flow is on a server, and after it left the queue without a flow.         *)
stageOf(j) ==
  IF flows[j] # <<>>
  THEN IF flows[j][Len(flows[j])].phase = "ended" THEN "ended" ELSE "executing"
  ELSE IF request[j] = "new" THEN "requested"
       ELSE IF j \in Queued THEN "queued" ELSE "givenUp"

Service == INSTANCE JobService WITH
  stage <- [j \in Job |-> stageOf(j)],
  told  <- [j \in Job |-> db[j].status]

(* Every behaviour in which no answer of a server is lost, the commit that  *)
(* records the answer succeeds and the process goes on, is one the users    *)
(* were promised: at most one execution, and a row that never says started, *)
(* ended or failed of a job that is not.                                    *)
PromiseIsKept == Service!Spec
=============================================================================
