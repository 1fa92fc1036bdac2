---------------------------- MODULE JobLifecycle ----------------------------
(***************************************************************************)
(* The life of a job in the NEMA flow service, from the request that       *)
(* creates it to the status that ends it.  The actors are the request      *)
(* threads (NemaFlowService), the scheduler thread (MeandreJobScheduler),  *)
(* the monitor thread (PollingJobStatusMonitor), the flows on the Meandre  *)
(* servers with the NEMA probe that writes their status straight to the    *)
(* database, and a process that may stop and start again.  They share the  *)
(* job table, the queue, the Job object the queue holds, and the two job   *)
(* sets of each server proxy (RemoteMeandreServerProxy).                   *)
(*                                                                         *)
(* Locks are modelled by what they exclude: sched.pc # "idle" is the       *)
(* queueLock (runJobs keeps it for a whole pass), polling is the jobsLock, *)
(* and ContactingServer is the runningLock of the server being contacted.  *)
(***************************************************************************)
EXTENDS Integers, Sequences, FiniteSets

CONSTANTS
  Job,            \* job ids, in the order the database returns them
  Server,         \* the worker servers
  Capacity,       \* getMaxConcurrentJobs() of each server
  MaxTries,       \* MAX_EXECUTION_TRIES, 5 in the code
  TriesBound,     \* model bound: executions attempted for one job
  FaultKinds,     \* the kinds of failure that may happen
  MaxFaults,      \* model bound: failures in one behaviour
  NoServer,       \* a null host column
  Abortable,      \* model bound: the jobs whose user may ask for an abort
  Notifier        \* the JobStatusNotificationCreator, a status listener

ASSUME JobsAssumption == Job \subseteq Nat /\ IsFiniteSet(Job)
ASSUME ServersAssumption ==
  /\ NoServer \notin Server
  /\ Notifier \notin Server
  /\ IsFiniteSet(Server)
ASSUME CapacityAssumption == Capacity \in [Server -> Nat \ {0}]
ASSUME BoundsAssumption ==
  /\ MaxTries \in Nat \ {0}
  /\ TriesBound \in Nat
  /\ MaxFaults \in Nat
  /\ Abortable \subseteq Job
  /\ FaultKinds \subseteq {"requestTx", "submitTx", "refused", "lostReply", "unchecked",
                           "responseTx", "retryTx", "restart"}

VARIABLES
  db,        \* the job table: the committed row of each job
  mem,       \* the Job object shared by its request thread and the queue
  request,   \* where each request thread stands in executeJob / deleteJob
  queue,     \* jobQueue
  sched,     \* where the scheduler thread stands in runJobs
  running,   \* runningJobs of each proxy
  aborting,  \* abortPending of each proxy
  watch,     \* jobs of the monitor: the listeners of each monitored job
  cached,    \* the status in the monitor's own copy of a monitored job
  polling,   \* the monitor is in a pass and holds the jobsLock
  toPoll,    \* the monitored jobs this pass has not reached yet
  abortReq,  \* the job copy an abort request loaded, while it waits
  flows,     \* the executions of each job that a server accepted
  faults     \* failures so far

serviceVars == <<mem, request, queue>>
proxyVars   == <<running, aborting>>
monitorVars == <<watch, cached, polling, toPoll>>
vars == <<db, mem, request, queue, sched, running, aborting, watch, cached,
          polling, toPoll, abortReq, flows, faults>>

-----------------------------------------------------------------------------
(* Job.JobStatus, and the columns of a row that the properties depend on.   *)
Status == {"UNKNOWN", "SCHEDULED", "SUBMITTED", "STARTED", "FINISHED",
           "FAILED", "ABORTED"}
isDone(status)    == status \in {"FINISHED", "FAILED", "ABORTED"}
isRunning(status) == status = "STARTED"

(* exec is the executionInstanceId and port the execPort, both as the       *)
(* number of the execution they refer to, 0 for null.                       *)
JobObject == [status: Status, tries: 0..TriesBound, host: Server \cup {NoServer},
              port: Nat, exec: Nat]
NewJob == [status |-> "UNKNOWN", tries |-> 0, host |-> NoServer, port |-> 0, exec |-> 0]
NoRow  == [NewJob EXCEPT !.status = "ABSENT"]
present(j) == db[j].status # "ABSENT"

Listener == Server \cup {Notifier}
Flow == [at: Server, phase: {"launched", "started", "aborting", "ended"}]
SchedIdle == [pc |-> "idle", job |-> 0, server |-> NoServer]
Working == [pc : {"submit", "launch", "respond", "retry", "refresh", "response", "loop"},
            job : Job, server : Server]

AbortRequest == [pending : BOOLEAN, host : Server \cup {NoServer}, port : Nat]
NoAbort == [pending |-> FALSE, host |-> NoServer, port |-> 0]

Queued == {queue[i] : i \in 1..Len(queue)}

(* Proxy: isBusy counts a job that is being aborted once in each set.       *)
load(s)   == Cardinality(running[s]) + Cardinality(aborting[s])
isBusy(s) == Capacity[s] <= load(s)

(* LeastUsedLoadBalancer: a smallest load ratio among the servers that are  *)
(* not busy; which of several is the HashSet's choice.                      *)
LeastUsed ==
  {s \in Server : ~isBusy(s) /\
     \A t \in Server : isBusy(t) \/ load(s) * Capacity[t] <= load(t) * Capacity[s]}

(* The scheduler is inside executeJob of the proxy and holds its            *)
(* runningLock, which it takes right before the flow goes to the server.    *)
ContactingServer(s) == sched.pc = "respond" /\ sched.server = s

Fault(kind) == kind \in FaultKinds /\ faults < MaxFaults /\ faults' = faults + 1
NoFault     == UNCHANGED faults

Init ==
  /\ db       = [j \in Job |-> NoRow]
  /\ mem      = [j \in Job |-> NewJob]
  /\ request  = [j \in Job |-> "new"]
  /\ queue    = <<>>
  /\ sched    = SchedIdle
  /\ running  = [s \in Server |-> {}]
  /\ aborting = [s \in Server |-> {}]
  /\ watch    = [j \in Job |-> {}]
  /\ cached   = [j \in Job |-> "UNKNOWN"]
  /\ polling  = FALSE
  /\ toPoll   = {}
  /\ abortReq = [j \in Job |-> NoAbort]
  /\ flows    = [j \in Job |-> <<>>]
  /\ faults   = 0

-----------------------------------------------------------------------------
(* NemaFlowService.executeJob: one request thread per job.  The service     *)
(* method is one database transaction, so the row that the first            *)
(* makePersistent inserts is seen by nobody before CommitRequest; the new   *)
(* Job object is seen by others from the moment it is queued.               *)
ScheduleJob(j) ==
  /\ request[j] = "new"
  /\ sched.pc = "idle"
  /\ mem'     = [mem EXCEPT ![j] = NewJob]
  /\ queue'   = Append(queue, j)
  /\ request' = [request EXCEPT ![j] = "queued"]
  /\ UNCHANGED <<db, sched, proxyVars, monitorVars, abortReq, flows>>
  /\ NoFault

(* The scheduler may already have taken the job: the two threads write the  *)
(* same Job object.                                                         *)
MarkScheduled(j) ==
  /\ request[j] = "queued"
  /\ mem'     = [mem EXCEPT ![j].status = "SCHEDULED"]
  /\ request' = [request EXCEPT ![j] = "marked"]
  /\ UNCHANGED <<db, queue, sched, proxyVars, monitorVars, abortReq, flows>>
  /\ NoFault

(* Mutant: a second listener replaces the first.                            *)
startMonitorReplaces(j, listener) ==
  /\ ~polling
  /\ watch'  = [watch EXCEPT ![j] = {listener}]
  /\ cached' = [cached EXCEPT ![j] = mem[j].status]
  /\ UNCHANGED <<polling, toPoll>>

(* JobStatusMonitor.start: a clone of the job as it is now, unless the job  *)
(* is monitored already.                                                    *)
startMonitor(j, listener) ==
  /\ ~polling
  /\ watch'  = [watch EXCEPT ![j] = @ \cup {listener}]
  /\ cached' = IF watch[j] = {} THEN [cached EXCEPT ![j] = mem[j].status]
                                ELSE cached
  /\ UNCHANGED <<polling, toPoll>>

MonitorRequest(j) ==
  /\ request[j] = "marked"
  /\ startMonitor(j, Notifier)
  /\ request' = [request EXCEPT ![j] = "monitored"]
  /\ UNCHANGED <<db, mem, queue, sched, proxyVars, abortReq, flows>>
  /\ NoFault

(* The transaction of executeJob ends after the method: it writes the Job   *)
(* object as it is then, or rolls the insert back.                          *)
CommitRequest(j) ==
  /\ request[j] = "monitored"
  /\ \/ /\ db' = [db EXCEPT ![j] = mem[j]]
        /\ request' = [request EXCEPT ![j] = "committed"]
        /\ NoFault
     \/ /\ Fault("requestTx")
        /\ request' = [request EXCEPT ![j] = "rolledBack"]
        /\ UNCHANGED db
  /\ UNCHANGED <<mem, queue, sched, proxyVars, monitorVars, abortReq, flows>>

(* NemaFlowService.deleteJob, one transaction.                              *)
DeleteJob(j) ==
  /\ isDone(db[j].status)
  /\ db' = [db EXCEPT ![j] = NoRow]
  /\ UNCHANGED <<serviceVars, sched, proxyVars, monitorVars, abortReq, flows>>
  /\ NoFault

-----------------------------------------------------------------------------
(* MeandreJobScheduler.runJobs.  A pass begins at "idle" and goes round     *)
(* "loop" until the queue is empty or every server is busy.                 *)
CanPick == queue # <<>> /\ LeastUsed # {} /\ mem[Head(queue)].tries < TriesBound

(* Mutant: one job is taken for an empty queue.                             *)
PickJobOffByOne ==
  /\ sched.pc \in {"idle", "loop"}
  /\ CanPick /\ Len(queue) > 1
  /\ LET j == Head(queue) IN
       /\ \E s \in LeastUsed :
            sched' = [pc |-> "submit", job |-> j, server |-> s]
       /\ mem' = [mem EXCEPT ![j].tries = @ + 1, ![j].status = "SUBMITTED"]
  /\ UNCHANGED <<db, request, queue, proxyVars, monitorVars, abortReq, flows>>
  /\ NoFault

PickJob ==
  /\ sched.pc \in {"idle", "loop"}
  /\ CanPick
  /\ LET j == Head(queue) IN
       /\ \E s \in LeastUsed :
            sched' = [pc |-> "submit", job |-> j, server |-> s]
       /\ mem' = [mem EXCEPT ![j].tries = @ + 1, ![j].status = "SUBMITTED"]
  /\ UNCHANGED <<db, request, queue, proxyVars, monitorVars, abortReq, flows>>
  /\ NoFault

EndPass ==
  /\ sched.pc = "loop"
  /\ ~CanPick
  /\ sched' = SchedIdle
  /\ UNCHANGED <<db, serviceVars, proxyVars, monitorVars, abortReq, flows>>
  /\ NoFault

(* The first commit.  It waits for the request's transaction, whose insert  *)
(* holds the row; the values it writes may be from before that wait.  It    *)
(* fails when there is no row to update.                                    *)
CommitSubmitted ==
  /\ sched.pc = "submit"
  /\ request[sched.job] \in {"committed", "rolledBack"}
  /\ LET j == sched.job IN
       \/ /\ present(j)
          /\ \E st \in {"SUBMITTED", mem[j].status} :
               db' = [db EXCEPT ![j] = [mem[j] EXCEPT !.status = st]]
          /\ sched' = [sched EXCEPT !.pc = "launch"]
          /\ NoFault
       \/ /\ \/ ~present(j) /\ NoFault
             \/ present(j) /\ Fault("submitTx")
          /\ sched' = SchedIdle
          /\ UNCHANGED db
  /\ UNCHANGED <<serviceVars, proxyVars, monitorVars, abortReq, flows>>

(* RemoteMeandreServerProxy.executeJob up to runAsyncModelBytes: the server *)
(* accepts the flow, and may run it at once.                                *)
LaunchFlow ==
  /\ sched.pc = "launch"
  /\ flows' = [flows EXCEPT ![sched.job] =
                 Append(@, [at |-> sched.server, phase |-> "launched"])]
  /\ sched' = [sched EXCEPT !.pc = "respond"]
  /\ UNCHANGED <<db, serviceVars, proxyVars, monitorVars, abortReq>>
  /\ NoFault

(* The rest of executeJob: the server names the execution, the proxy counts *)
(* the job and asks the monitor to watch it.                                *)
RecordExecution ==
  /\ sched.pc = "respond"
  /\ running' = [running EXCEPT ![sched.server] = @ \cup {sched.job}]
  /\ startMonitor(sched.job, sched.server)
  /\ sched' = [sched EXCEPT !.pc = "refresh"]
  /\ UNCHANGED <<db, serviceVars, aborting, abortReq, flows>>
  /\ NoFault

(* Mutant: a refused job leaves the queue.                                  *)
ExecutionFailsDequeues ==
  /\ sched.pc = "launch" /\ Fault("refused")
  /\ mem'   = [mem EXCEPT ![sched.job].status = "SCHEDULED"]
  /\ queue' = Tail(queue)
  /\ sched' = [sched EXCEPT !.pc = "retry"]
  /\ UNCHANGED <<db, request, proxyVars, monitorVars, abortReq, flows>>

(* A MeandreServerException: the server refused the flow, or accepted it    *)
(* and the answer was lost.  The job goes back to SCHEDULED, or leaves the  *)
(* queue as FAILED on the last try.                                         *)
ExecutionFails ==
  /\ \/ sched.pc = "launch" /\ Fault("refused")
     \/ sched.pc = "respond" /\ Fault("lostReply")
  /\ LET j == sched.job
         last == mem[j].tries = MaxTries
     IN /\ mem' = [mem EXCEPT ![j].status = IF last THEN "FAILED" ELSE "SCHEDULED"]
        /\ queue' = IF last THEN Tail(queue) ELSE queue
  /\ sched' = [sched EXCEPT !.pc = "retry"]
  /\ UNCHANGED <<db, request, proxyVars, monitorVars, abortReq, flows>>

(* Any other exception of executeJob, or one of session.refresh: the pass   *)
(* ends, with the job at the head of the queue and its row as it was.       *)
ExecutionThrows ==
  /\ sched.pc \in {"launch", "respond", "refresh"} /\ Fault("unchecked")
  /\ sched' = SchedIdle
  /\ UNCHANGED <<db, serviceVars, proxyVars, monitorVars, abortReq, flows>>

CommitRetry ==
  /\ sched.pc = "retry"
  /\ LET j == sched.job IN
       \/ /\ present(j)
          /\ db' = [db EXCEPT ![j] = mem[j]]
          /\ sched' = [sched EXCEPT !.pc = "loop"]
          /\ NoFault
       \/ /\ \/ ~present(j) /\ NoFault
             \/ present(j) /\ Fault("retryTx")
          /\ sched' = SchedIdle
          /\ UNCHANGED db
  /\ UNCHANGED <<serviceVars, proxyVars, monitorVars, abortReq, flows>>

(* Mutant: the execution id is left to the probe.                           *)
RefreshJobNoId ==
  /\ sched.pc = "refresh" /\ present(sched.job)
  /\ LET j == sched.job IN
       mem' = [mem EXCEPT ![j] = [db[j] EXCEPT !.host = sched.server, !.port = Len(flows[j])]]
  /\ sched' = [sched EXCEPT !.pc = "response"]
  /\ UNCHANGED <<db, request, queue, proxyVars, monitorVars, abortReq, flows>>
  /\ NoFault

(* session.refresh reads the row again, and the response's columns are set  *)
(* on top of it.  A row deleted in the meantime ends the pass with the job  *)
(* still queued; any other failure of the refresh is ExecutionThrows.       *)
RefreshJob ==
  /\ sched.pc = "refresh"
  /\ LET j == sched.job IN
       \/ /\ present(j)
          /\ mem' = [mem EXCEPT ![j] = [db[j] EXCEPT !.host = sched.server,
                                                     !.port = Len(flows[j]),
                                                     !.exec = Len(flows[j])]]
          /\ sched' = [sched EXCEPT !.pc = "response"]
       \/ /\ ~present(j)
          /\ sched' = SchedIdle
          /\ UNCHANGED mem
  /\ UNCHANGED <<db, request, queue, proxyVars, monitorVars, abortReq, flows>>
  /\ NoFault

(* Mutant: the job stays at the head of the queue.                          *)
CommitResponseKeeps ==
  /\ sched.pc = "response" /\ present(sched.job)
  /\ db' = [db EXCEPT ![sched.job] = mem[sched.job]]
  /\ sched' = [sched EXCEPT !.pc = "loop"]
  /\ UNCHANGED <<serviceVars, proxyVars, monitorVars, abortReq, flows>>
  /\ NoFault

(* Mutant: nothing catches the exception, and the executor drops the task.  *)
CommitResponseUncaught ==
  /\ sched.pc = "response"
  /\ LET j == sched.job IN
       \/ /\ present(j)
          /\ db' = [db EXCEPT ![j] = mem[j]]
          /\ queue' = Tail(queue)
          /\ sched' = [sched EXCEPT !.pc = "loop"]
          /\ NoFault
       \/ /\ present(j) /\ Fault("responseTx")
          /\ sched' = [sched EXCEPT !.pc = "cancelled"]
          /\ UNCHANGED <<db, queue>>
  /\ UNCHANGED <<mem, request, proxyVars, monitorVars, abortReq, flows>>

(* The second commit writes every column of the row, the status it read     *)
(* included; the job leaves the queue only if it succeeds.                  *)
CommitResponse ==
  /\ sched.pc = "response"
  /\ LET j == sched.job IN
       \/ /\ present(j)
          /\ db' = [db EXCEPT ![j] = mem[j]]
          /\ queue' = Tail(queue)
          /\ sched' = [sched EXCEPT !.pc = "loop"]
          /\ NoFault
       \/ /\ \/ ~present(j) /\ NoFault
             \/ present(j) /\ Fault("responseTx")
          /\ sched' = SchedIdle
          /\ UNCHANGED <<db, queue>>
  /\ UNCHANGED <<mem, request, proxyVars, monitorVars, abortReq, flows>>

-----------------------------------------------------------------------------
(* PollingJobStatusMonitor.StatusUpdateDetector.run: a pass over the        *)
(* monitored jobs under the jobsLock.                                       *)
BeginPoll ==
  /\ ~polling
  /\ \E j \in Job : watch[j] # {}
  /\ polling' = TRUE
  /\ toPoll'  = {j \in Job : watch[j] # {}}
  /\ UNCHANGED <<db, serviceVars, sched, proxyVars, watch, cached, abortReq, flows>>
  /\ NoFault

(* Mutant: only an abort frees the slot.                                    *)
jobStatusUpdateAborted(j, status) ==
  /\ aborting' = [s \in Server |-> IF status = "ABORTED" THEN aborting[s] \ {j}
                                   ELSE aborting[s]]
  /\ UNCHANGED running

(* RemoteMeandreServerProxy.jobStatusUpdate of every proxy that listens.    *)
jobStatusUpdate(j, status) ==
  LET drop(jobs) == [s \in Server |-> IF s \in watch[j] THEN jobs[s] \ {j} ELSE jobs[s]]
  IN IF isRunning(status)
     THEN UNCHANGED proxyVars
     ELSE /\ \A s \in watch[j] \cap Server : ~ContactingServer(s)
          /\ running'  = drop(running)
          /\ aborting' = drop(aborting)

(* Mutant: a job without a row is not told from the others.                 *)
PollJobUnchecked(j) ==
  /\ polling /\ j \in toPoll
  /\ toPoll' = toPoll \ {j}
  /\ cached' = [cached EXCEPT ![j] = db[j].status]
  /\ UNCHANGED <<db, serviceVars, sched, proxyVars, watch, polling, abortReq, flows>>
  /\ NoFault

(* One job of the pass.  A change of status goes to every listener, and a   *)
(* job that is done is monitored no longer.                                 *)
PollJob(j) ==
  /\ polling /\ j \in toPoll
  /\ present(j)
  /\ toPoll' = toPoll \ {j}
  /\ LET status == db[j].status IN
       \/ /\ status = cached[j]
          /\ UNCHANGED <<cached, watch, proxyVars>>
       \/ /\ status # cached[j]
          /\ jobStatusUpdate(j, status)
          /\ IF isDone(status)
             THEN /\ watch'  = [watch EXCEPT ![j] = {}]
                  /\ cached' = [cached EXCEPT ![j] = "UNKNOWN"]
             ELSE /\ cached' = [cached EXCEPT ![j] = status]
                  /\ UNCHANGED watch
  /\ UNCHANGED <<db, serviceVars, sched, polling, abortReq, flows>>
  /\ NoFault

(* The pass ends after its last job, or at the first job without a row.     *)
EndPoll ==
  /\ polling
  /\ toPoll = {} \/ \E j \in toPoll : ~present(j)
  /\ polling' = FALSE
  /\ toPoll'  = {}
  /\ UNCHANGED <<db, serviceVars, sched, proxyVars, watch, cached, abortReq, flows>>
  /\ NoFault

-----------------------------------------------------------------------------
(* NemaFlowService.abortJob loads the job and checks it, then waits for the *)
(* queueLock in MeandreJobScheduler.abortJob.                               *)
RequestAbort(j) ==
  /\ j \in Abortable
  /\ ~abortReq[j].pending
  /\ isRunning(db[j].status)
  /\ abortReq' = [abortReq EXCEPT ![j] =
                    [pending |-> TRUE, host |-> db[j].host, port |-> db[j].port]]
  /\ UNCHANGED <<db, serviceVars, sched, proxyVars, monitorVars, flows>>
  /\ NoFault

(* LinkedList.remove(Object): the first element that equals the job.        *)
removeFirst(q, j) ==
  LET i == CHOOSE k \in 1..Len(q) : q[k] = j /\ \A h \in 1..(k - 1) : q[h] # j
  IN [k \in 1..(Len(q) - 1) |-> IF k < i THEN q[k] ELSE q[k + 1]]

(* Mutant: abortJob does not take the queueLock.                            *)
AbortQueuedJobUnlocked(j) ==
  /\ abortReq[j].pending
  /\ j \in Queued
  /\ queue' = removeFirst(queue, j)
  /\ abortReq' = [abortReq EXCEPT ![j] = NoAbort]
  /\ UNCHANGED <<db, mem, request, sched, proxyVars, monitorVars, flows>>
  /\ NoFault

(* The ABORTED status is set on the copy the service loaded in a read-only  *)
(* transaction, which Spring never flushes: the row stays as it is.         *)
AbortQueuedJob(j) ==
  /\ abortReq[j].pending
  /\ sched.pc = "idle"
  /\ j \in Queued
  /\ queue' = removeFirst(queue, j)
  /\ abortReq' = [abortReq EXCEPT ![j] = NoAbort]
  /\ UNCHANGED <<db, mem, request, sched, proxyVars, monitorVars, flows>>
  /\ NoFault

(* Mutant: abortJob does not take the queueLock.                            *)
AbortExecutingJobUnlocked(j) ==
  /\ abortReq[j].pending /\ abortReq[j].host # NoServer
  /\ abortReq' = [abortReq EXCEPT ![j] = NoAbort]
  /\ aborting' = [aborting EXCEPT ![abortReq[j].host] = @ \cup {j}]
  /\ UNCHANGED <<db, serviceVars, sched, running, monitorVars, flows>>
  /\ NoFault

(* RemoteMeandreServerProxy.abortJob.  The request is refused when the host *)
(* is unknown or an abort is pending already.  The flow's own port answers  *)
(* while the flow runs, and may or may not answer once the probe has        *)
(* written the last status.                                                 *)
AbortExecutingJob(j) ==
  /\ abortReq[j].pending
  /\ sched.pc = "idle"
  /\ j \notin Queued
  /\ abortReq' = [abortReq EXCEPT ![j] = NoAbort]
  /\ LET s == abortReq[j].host
         n == abortReq[j].port
     IN \/ /\ s = NoServer \/ (s # NoServer /\ j \in aborting[s])
           /\ UNCHANGED <<aborting, flows>>
        \/ /\ s # NoServer /\ j \notin aborting[s]
           /\ aborting' = [aborting EXCEPT ![s] = @ \cup {j}]
           /\ flows' = IF flows[j][n].phase = "ended" THEN flows
                       ELSE [flows EXCEPT ![j][n].phase = "aborting"]
        \/ /\ s # NoServer /\ j \notin aborting[s]
           /\ flows[j][n].phase = "ended"
           /\ UNCHANGED <<aborting, flows>>
  /\ UNCHANGED <<db, serviceVars, sched, running, monitorVars>>
  /\ NoFault

-----------------------------------------------------------------------------

(* Mutant: a start that arrives after the end.                              *)
ProbeFlowStartLate(j, n) ==
  /\ flows[j][n].phase \in {"launched", "ended"}
  /\ flows' = [flows EXCEPT ![j][n].phase = "started"]
  /\ db' = IF present(j) THEN [db EXCEPT ![j].status = "STARTED"] ELSE db
  /\ UNCHANGED <<serviceVars, sched, proxyVars, monitorVars, abortReq>>
  /\ NoFault

(* The NEMA probe on the Meandre server.  The start is matched by the job's *)
(* token, the end by the execution id that the start wrote.                 *)
ProbeFlowStart(j, n) ==
  /\ flows[j][n].phase = "launched"
  /\ flows' = [flows EXCEPT ![j][n].phase = "started"]
  /\ db' = IF present(j)
           THEN [db EXCEPT ![j].status = "STARTED", ![j].exec = n]
           ELSE db
  /\ UNCHANGED <<serviceVars, sched, proxyVars, monitorVars, abortReq>>
  /\ NoFault

endFlow(j, n, status) ==
  /\ flows' = [flows EXCEPT ![j][n].phase = "ended"]
  /\ db' = IF present(j) /\ db[j].exec = n
           THEN [db EXCEPT ![j].status = status]
           ELSE db
  /\ UNCHANGED <<serviceVars, sched, proxyVars, monitorVars, abortReq>>
  /\ NoFault

ProbeFlowFinish(j, n) ==
  /\ flows[j][n].phase \in {"started", "aborting"}
  /\ endFlow(j, n, "FINISHED")

ProbeFlowAbort(j, n) ==
  /\ flows[j][n].phase = "aborting"
  /\ endFlow(j, n, "ABORTED")

-----------------------------------------------------------------------------
(* The process stops and starts again.  Everything but the table and the    *)
(* flows is lost; open transactions roll back; init queues and monitors     *)
(* the rows that say SCHEDULED, in the order of their ids.                  *)
Restart ==
  /\ Fault("restart")
  /\ LET reload == {j \in Job : db[j].status = "SCHEDULED"} IN
       /\ \E q \in [1..Cardinality(reload) -> reload] :
            /\ \A i, k \in DOMAIN q : i < k => q[i] < q[k]
            /\ queue' = q
       /\ mem'    = [j \in Job |-> IF j \in reload THEN db[j] ELSE mem[j]]
       /\ watch'  = [j \in Job |-> IF j \in reload THEN {Notifier} ELSE {}]
       /\ cached' = [j \in Job |-> IF j \in reload THEN "SCHEDULED" ELSE "UNKNOWN"]
  /\ request' = [j \in Job |-> IF request[j] \in {"new", "committed"}
                               THEN request[j] ELSE "rolledBack"]
  /\ sched'    = SchedIdle
  /\ running'  = [s \in Server |-> {}]
  /\ aborting' = [s \in Server |-> {}]
  /\ polling'  = FALSE
  /\ toPoll'   = {}
  /\ abortReq' = [j \in Job |-> NoAbort]
  /\ UNCHANGED <<db, flows>>

-----------------------------------------------------------------------------
Request(j) == ScheduleJob(j) \/ MarkScheduled(j)
              \/ MonitorRequest(j) \/ CommitRequest(j)

Scheduler == PickJob \/ EndPass \/ CommitSubmitted \/ LaunchFlow
             \/ RecordExecution \/ ExecutionFails \/ ExecutionThrows \/ CommitRetry
             \/ RefreshJob \/ CommitResponse

Monitor == BeginPoll \/ EndPoll \/ \E j \in Job : PollJob(j)

Abort(j) == RequestAbort(j) \/ AbortQueuedJob(j) \/ AbortExecutingJob(j)

Probe(j, n) == ProbeFlowStart(j, n) \/ ProbeFlowFinish(j, n) \/ ProbeFlowAbort(j, n)

Next ==
  \/ \E j \in Job : Request(j) \/ DeleteJob(j) \/ Abort(j)
  \/ Scheduler
  \/ Monitor
  \/ \E j \in Job : \E n \in 1..Len(flows[j]) : Probe(j, n)
  \/ Restart

Spec == Init /\ [][Next]_vars

(* The executors run the scheduler and the monitor for ever at a fixed      *)
(* delay, and both catch every exception of a pass.  A request that has     *)
(* queued its job runs to the end of its transaction.  The monitor lets go  *)
(* of the jobsLock for the delay between two passes, long enough for a      *)
(* thread that waits for it.  Nothing is assumed of users, of probes or of  *)
(* failures.                                                                *)
FairSpec ==
  /\ Spec
  /\ WF_vars(Scheduler) /\ SF_vars(RecordExecution)
  /\ WF_vars(Monitor)
  /\ \A j \in Job : /\ WF_vars(MarkScheduled(j) \/ CommitRequest(j))
                    /\ SF_vars(MonitorRequest(j))
-----------------------------------------------------------------------------
TypeOK ==
  /\ db       \in [Job -> JobObject \cup {NoRow}]
  /\ mem      \in [Job -> JobObject]
  /\ request  \in [Job -> {"new", "queued", "marked", "monitored",
                           "committed", "rolledBack"}]
  /\ queue    \in Seq(Job)
  /\ sched    \in Working \cup {SchedIdle}
  /\ running  \in [Server -> SUBSET Job]
  /\ aborting \in [Server -> SUBSET Job]
  /\ watch    \in [Job -> SUBSET Listener]
  /\ cached   \in [Job -> Status]
  /\ polling  \in BOOLEAN
  /\ toPoll   \subseteq Job
  /\ abortReq \in [Job -> AbortRequest]
  /\ flows    \in [Job -> Seq(Flow)]
  /\ faults   \in 0..MaxFaults

(* Every job that occupies a slot of a proxy is monitored on behalf of that *)
(* proxy: the slot can only be freed by jobStatusUpdate, so a slot nobody   *)
(* watches would be lost for good.                                          *)
SlotIsWatched ==
  \A s \in Server : \A j \in running[s] : s \in watch[j]

(* From the load balancer's choice to the proxy's own check nobody fills    *)
(* the server, so the IllegalStateException of executeJob is never thrown:  *)
(* the choice and the execution are one critical section of the queueLock,  *)
(* which abortJob takes too.                                                *)
ChosenServerHasRoom ==
  sched.pc \in {"submit", "launch", "respond"} => ~isBusy(sched.server)

(* The job a pass works on stays at the head of the queue until its last    *)
(* commit, so that jobQueue.remove(), which names no job, removes that one. *)
HeadIsCurrent ==
  sched.pc \in {"submit", "launch", "respond", "refresh", "response"} =>
    queue # <<>> /\ Head(queue) = sched.job

(* A proxy counts a job as running only if its server accepted a flow for   *)
(* it, whatever fails and whenever the process restarts.                    *)
SlotHasFlow ==
  \A s \in Server : \A j \in running[s] :
    \E n \in 1..Len(flows[j]) : flows[j][n].at = s

(* Every repetition is due to a failure: a job is given to servers at most  *)
(* once, and once more for each failure, also when the failures leave it at *)
(* the head of the queue with its row SUBMITTED, or let a restart find it   *)
(* SCHEDULED while it runs; and as long as it has a row, the count of its   *)
(* tries grows in this way only.  Neither the request thread, an abort, nor *)
(* the end of a pass makes the scheduler take a job up again.               *)
RepeatsAreFailures ==
  \A j \in Job :
    /\ Len(flows[j]) <= 1 + faults
    /\ present(j) => mem[j].tries <= 1 + faults

(* A row that says SCHEDULED is in the queue, or was given to a server:     *)
(* init finds every job that waits.                                         *)
ScheduledIsKept ==
  \A j \in Job : db[j].status = "SCHEDULED" => j \in Queued \/ flows[j] # <<>>

(* No job is executed twice, as long as replies and the second commit do    *)
(* not fail and the process does not restart: refusals, retries and the     *)
(* races with the request thread never launch a second flow.                *)
ExecutedOnce == \A j \in Job : Len(flows[j]) <= 1

(* While a flow runs, the row names its execution, so that the end of the   *)
(* flow finds the row; and the host and the port of the row are those of    *)
(* the execution it names, so that an abort goes to the right flow.         *)
RowNamesItsExecution ==
  \A j \in Job :
    /\ \A n \in 1..Len(flows[j]) :
         flows[j][n].phase \in {"started", "aborting"} /\ present(j) => db[j].exec = n
    /\ db[j].port # 0 =>
         db[j].exec = db[j].port /\ flows[j][db[j].port].at = db[j].host

(* A proxy that counts a job as aborting has delivered the abort to a flow  *)
(* of that job on its own server.                                           *)
AbortReachesItsFlow ==
  \A s \in Server : \A j \in aborting[s] :
    \E n \in 1..Len(flows[j]) :
      flows[j][n].at = s /\ flows[j][n].phase \in {"aborting", "ended"}

(* A committed job that has not ended waits in the queue or reached a       *)
(* server; the exception is the moment between the last failure and the     *)
(* commit that records it.                                                  *)
NoJobForgotten ==
  \A j \in Job : present(j) /\ ~isDone(db[j].status) =>
    j \in Queued \/ flows[j] # <<>> \/ (sched.pc = "retry" /\ sched.job = j)

(* Only the second commit of runJobs can take back a final status, and only *)
(* that of the job the pass is about: no other step of anybody, also while  *)
(* a pass is about to make that commit, changes the status of a job that    *)
(* ended.                                                                   *)
keepsStatusOf(j) ==
  isDone(db[j].status) => db'[j].status \in {db[j].status, "ABSENT"}
OnlyResponseCommitRevives ==
  [][\A j \in Job : keepsStatusOf(j) \/ (CommitResponse /\ sched.job = j)]_vars

(* The monitor waits for the runningLock that executeJob holds, and         *)
(* executeJob for the jobsLock that the monitor holds.                      *)
LockCycle ==
  /\ polling /\ sched.pc = "respond"
  /\ \E j \in toPoll : /\ present(j) /\ db[j].status # cached[j]
                       /\ ~isRunning(db[j].status) /\ sched.server \in watch[j]

(* A monitored job without a row ends every pass that meets it.             *)
MonitorPoisoned == \E j \in Job : watch[j] # {} /\ ~present(j)

(* A job that ended gives its slot back, whatever fails, unless its final   *)
(* status is taken back or deleted before the monitor sees it, the monitor  *)
(* is poisoned, or the lock cycle closes.                                   *)
SlotIsFreed ==
  \A s \in Server : \A j \in Job :
    (isDone(db[j].status) /\ j \in running[s])
      ~> (j \notin running[s] \/ ~isDone(db[j].status)
          \/ MonitorPoisoned \/ LockCycle)

(* A queued job is given to a server, unless every server is busy, the      *)
(* lock cycle closes, or a job of the queue was tried as often as the code  *)
(* means to try it: a queued job without a row is tried by every pass.      *)
QueuedJobIsServed ==
  \A j \in Job :
    j \in Queued ~> (j \notin Queued \/ LeastUsed = {} \/ LockCycle
                    \/ \E k \in Queued : mem[k].tries >= MaxTries)

-----------------------------------------------------------------------------
(* What the code's documentation says, and the code does not keep.          *)

(* SimpleMeandreServerProxyConfig: the number of concurrently executing     *)
(* jobs that should be allowed on this server.                              *)
executingAt(s) ==
  {e \in Job \X (1..TriesBound) :
     /\ e[2] <= Len(flows[e[1]])
     /\ flows[e[1]][e[2]].at = s /\ flows[e[1]][e[2]].phase # "ended"}
ServerWithinCapacity ==
  \A s \in Server : Cardinality(executingAt(s)) <= Capacity[s]

(* The comment on session.refresh: the refresh picks up the status that the *)
(* probe wrote, which would otherwise be lost.  So no write takes STARTED   *)
(* or a final status back.                                                  *)
keepsProbeStatus ==
  \A j \in Job :
    /\ keepsStatusOf(j)
    /\ isRunning(db[j].status) => db'[j].status \notin {"UNKNOWN", "SCHEDULED", "SUBMITTED"}
ProbeStatusIsKept == [][keepsProbeStatus]_vars

(* RemoteMeandreServerProxy and PollingJobStatusMonitor are declared        *)
(* thread safe: their threads do not wait for each other for ever.          *)
NoLockCycle == ~LockCycle
=============================================================================
