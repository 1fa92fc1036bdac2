------------------------ MODULE JobLifecycle_proofs ------------------------
(***************************************************************************)
(* What holds of JobLifecycle for every set of jobs and servers, every     *)
(* capacity and every kind of failure.  The inductive invariant is TypeOK, *)
(* four of the properties of JobLifecycle, and ReplyHasFlow.               *)
(***************************************************************************)
EXTENDS JobLifecycle, FiniteSetTheorems, SequenceTheorems, TLAPS

(* Before the proxy counts a job, its server has accepted a flow.           *)
ReplyHasFlow ==
  sched.pc = "respond" =>
    \E n \in 1..Len(flows[sched.job]) : flows[sched.job][n].at = sched.server

-----------------------------------------------------------------------------
(* What is left of the queue after LinkedList.remove is a queue.            *)
LEMMA RemoveFirstType ==
  ASSUME NEW q \in Seq(Job), NEW j
  PROVE  q # <<>> => removeFirst(q, j) \in Seq(Job)
<1> SUFFICES ASSUME q # <<>> PROVE removeFirst(q, j) \in Seq(Job)
  OBVIOUS
<1> DEFINE i == CHOOSE k \in 1..Len(q) : q[k] = j /\ \A h \in 1..(k - 1) : q[h] # j
<1>1. Len(q) \in Nat /\ Len(q) >= 1 /\ \A k \in 1..Len(q) : q[k] \in Job
  BY EmptySeq
<1>2. \A k \in 1..(Len(q) - 1) : (IF k < i THEN q[k] ELSE q[k + 1]) \in Job
  <2> HIDE DEF i
  <2> QED BY <1>1
<1>3. removeFirst(q, j) \in [1..(Len(q) - 1) -> Job]
  BY <1>2 DEF removeFirst
<1>4. Len(q) - 1 \in Nat
  BY <1>1
<1> QED BY <1>3, <1>4, SeqDef

(* The rows that init reads are finitely many, and so is the queue it makes. *)
LEMMA ReloadedQueue ==
  ASSUME NEW S, S \subseteq Job, NEW q \in [1..Cardinality(S) -> S]
  PROVE  q \in Seq(Job)
<1>1. IsFiniteSet(S)
  BY FS_Subset, JobsAssumption
<1>2. Cardinality(S) \in Nat
  BY <1>1, FS_CardinalityType
<1>3. q \in [1..Cardinality(S) -> Job]
  OBVIOUS
<1> QED BY <1>2, <1>3, SeqDef
(* A job stays a job when a column of it is written.                        *)
LEMMA NewJobType == NewJob \in JobObject
BY BoundsAssumption DEF NewJob, JobObject, Status

LEMMA StatusUpdate ==
  ASSUME NEW r \in JobObject, NEW st \in Status
  PROVE  [r EXCEPT !.status = st] \in JobObject
BY DEF JobObject

LEMMA StartUpdate ==
  ASSUME NEW r \in JobObject, NEW n \in Nat
  PROVE  [r EXCEPT !.status = "STARTED", !.exec = n] \in JobObject
BY DEF JobObject, Status

LEMMA ResponseUpdate ==
  ASSUME NEW r \in JobObject, NEW s \in Server, NEW n \in Nat
  PROVE  [r EXCEPT !.host = s, !.port = n, !.exec = n] \in JobObject
BY DEF JobObject

LEMMA SubmitUpdate ==
  ASSUME NEW r \in JobObject, r.tries < TriesBound
  PROVE  [r EXCEPT !.tries = @ + 1, !.status = "SUBMITTED"] \in JobObject
<1>1. r.tries + 1 \in 0..TriesBound
  BY BoundsAssumption DEF JobObject
<1> QED BY <1>1 DEF JobObject, Status

LEMMA JobColumns ==
  ASSUME NEW r \in JobObject
  PROVE  /\ r.status \in Status /\ r.status # "ABSENT"
         /\ r.host \in Server \cup {NoServer} /\ r.port \in Nat
BY DEF JobObject, Status

LEMMA NoRowColumns == NoRow.status = "ABSENT" /\ NoRow.host = NoServer /\ NoRow.port = 0
BY DEF NoRow, NewJob

(* The status of an execution is written into its place in the sequence.    *)
LEMMA PhaseUpdate ==
  ASSUME NEW fs \in Seq(Flow), NEW n \in Nat, NEW ph \in {"started", "aborting", "ended"}
  PROVE  /\ [fs EXCEPT ![n].phase = ph] \in Seq(Flow)
         /\ Len([fs EXCEPT ![n].phase = ph]) = Len(fs)
         /\ \A k \in 1..Len(fs) : [fs EXCEPT ![n].phase = ph][k].at = fs[k].at
<1>1. fs \in [1..Len(fs) -> Flow] /\ Len(fs) \in Nat
  BY LenProperties
<1>2. CASE n \in 1..Len(fs)
  <2> DEFINE e == [fs[n] EXCEPT !.phase = ph]
  <2>1. fs[n] \in Flow
    BY <1>2, ElementOfSeq
  <2>2. e \in Flow /\ e.at = fs[n].at
    BY <2>1 DEF Flow
  <2>3. [fs EXCEPT ![n].phase = ph] = [fs EXCEPT ![n] = e]
    OBVIOUS
  <2>4. \A k \in 1..Len(fs) : [fs EXCEPT ![n] = e][k] = IF k = n THEN e ELSE fs[k]
    BY <1>1
  <2> HIDE DEF e
  <2>5. [fs EXCEPT ![n] = e] \in Seq(Flow) /\ Len([fs EXCEPT ![n] = e]) = Len(fs)
    BY <1>2, <2>2, ExceptSeq
  <2> QED BY <2>2, <2>3, <2>4, <2>5
<1>3. CASE n \notin 1..Len(fs)
  <2>1. [fs EXCEPT ![n].phase = ph] = fs
    BY <1>1, <1>3
  <2> QED BY <2>1
<1> QED BY <1>2, <1>3

(* A pass that moves on keeps its job and its server.                       *)
LEMMA WorkingFields ==
  /\ SchedIdle.pc = "idle"
  /\ \A w \in Working : w.job \in Job /\ w.server \in Server
BY DEF Working, SchedIdle

LEMMA WorkingMoves ==
  ASSUME NEW w \in Working,
         NEW pc \in {"launch", "respond", "retry", "refresh", "response", "loop"}
  PROVE  [w EXCEPT !.pc = pc] \in Working
BY DEF Working

-----------------------------------------------------------------------------
(* The types, by the group of variables that change together.               *)
RowsType    == db \in [Job -> JobObject \cup {NoRow}] /\ mem \in [Job -> JobObject]
QueueType   == queue \in Seq(Job) /\ sched \in Working \cup {SchedIdle}
ProxyType   == running \in [Server -> SUBSET Job] /\ aborting \in [Server -> SUBSET Job]
MonitorType == /\ watch \in [Job -> SUBSET Listener] /\ cached \in [Job -> Status]
               /\ polling \in BOOLEAN /\ toPoll \subseteq Job
FlowType    == abortReq \in [Job -> AbortRequest] /\ flows \in [Job -> Seq(Flow)]
RequestType == /\ request \in [Job -> {"new", "queued", "marked", "monitored",
                                       "committed", "rolledBack"}]
               /\ faults \in 0..MaxFaults

LEMMA TypeParts ==
  TypeOK <=> RowsType /\ QueueType /\ ProxyType /\ MonitorType /\ FlowType /\ RequestType
BY DEF TypeOK, RowsType, QueueType, ProxyType, MonitorType, FlowType, RequestType

LEMMA TypeInit == Init => TypeOK
<1> SUFFICES ASSUME Init PROVE TypeOK
  OBVIOUS
<1>1. RowsType
  BY NewJobType DEF Init, RowsType
<1>2. QueueType
  BY EmptySeq DEF Init, QueueType
<1>3. ProxyType
  BY DEF Init, ProxyType
<1>4. MonitorType
  BY DEF Init, MonitorType, Status
<1>5. FlowType
  BY EmptySeq DEF Init, FlowType, NoAbort, AbortRequest
<1>6. RequestType
  BY BoundsAssumption DEF Init, RequestType
<1> QED BY <1>1, <1>2, <1>3, <1>4, <1>5, <1>6, TypeParts

-----------------------------------------------------------------------------
(* A row is written with the columns of a job, or deleted.                  *)
LEMMA RowsNext ==  /\TypeOK /\ [Next]_vars => RowsType'
<1> SUFFICES ASSUME TypeOK, [Next]_vars PROVE RowsType'
  OBVIOUS
<1> USE TypeParts DEF RowsType, serviceVars, proxyVars, monitorVars
<1>1. ASSUME NEW j \in Job, ScheduleJob(j) PROVE RowsType'
  BY <1>1, NewJobType DEF ScheduleJob
<1>2. ASSUME NEW j \in Job, MarkScheduled(j) PROVE RowsType'
  BY <1>2, StatusUpdate DEF MarkScheduled, Status
<1>3. ASSUME NEW j \in Job, CommitRequest(j) PROVE RowsType'
  BY <1>3 DEF CommitRequest
<1>4. ASSUME NEW j \in Job, DeleteJob(j) PROVE RowsType'
  BY <1>4 DEF DeleteJob
<1>5. ASSUME PickJob PROVE RowsType'
  BY <1>5, SubmitUpdate, HeadTailProperties DEF PickJob, CanPick, QueueType
<1>6. ASSUME CommitSubmitted PROVE RowsType'
<2>1. sched.job \in Job
  BY <1>6, WorkingFields DEF CommitSubmitted, QueueType
<2>2. \A st \in {"SUBMITTED", mem[sched.job].status} :
        [mem[sched.job] EXCEPT !.status = st] \in JobObject
  BY <2>1, JobColumns, StatusUpdate DEF Status
<2> QED BY <1>6, <2>1, <2>2 DEF CommitSubmitted
<1>7. ASSUME ExecutionFails PROVE RowsType'
  BY <1>7, StatusUpdate, WorkingFields DEF ExecutionFails, QueueType, Status
<1>8. ASSUME CommitRetry PROVE RowsType'
  BY <1>8, WorkingFields DEF CommitRetry, QueueType
<1>9. ASSUME RefreshJob PROVE RowsType'
<2>1. sched.job \in Job /\ sched.server \in Server
  BY <1>9, WorkingFields DEF RefreshJob, QueueType
<2>2. Len(flows[sched.job]) \in Nat
  BY <2>1, LenProperties DEF FlowType
<2>3. present(sched.job) =>
        [db[sched.job] EXCEPT !.host = sched.server, !.port = Len(flows[sched.job]),
                              !.exec = Len(flows[sched.job])]
          \in JobObject
  BY <2>1, <2>2, ResponseUpdate, NoRowColumns DEF present
<2> QED BY <1>9, <2>1, <2>3 DEF RefreshJob
<1>10. ASSUME CommitResponse PROVE RowsType'
  BY <1>10, WorkingFields DEF CommitResponse, QueueType
<1>11. ASSUME NEW j \in Job, NEW n \in 1..Len(flows[j]), ProbeFlowStart(j, n)
      PROVE  RowsType'
<2>1. n \in Nat
  BY LenProperties DEF FlowType
<2>2. present(j) => [db[j] EXCEPT !.status = "STARTED", !.exec = n] \in JobObject
  BY <2>1, StartUpdate, NoRowColumns DEF present
<2> QED BY <1>11, <2>2 DEF ProbeFlowStart
<1>12. ASSUME NEW j \in Job, NEW n \in 1..Len(flows[j]), ProbeFlowFinish(j, n)
      PROVE  RowsType'
  BY <1>12, StatusUpdate, NoRowColumns DEF ProbeFlowFinish, endFlow, present,
      Status
<1>13. ASSUME NEW j \in Job, NEW n \in 1..Len(flows[j]), ProbeFlowAbort(j, n)
      PROVE  RowsType'
  BY <1>13, StatusUpdate, NoRowColumns DEF ProbeFlowAbort, endFlow, present,
      Status
<1>14. ASSUME Restart PROVE RowsType'
  BY <1>14, NoRowColumns, JobColumns DEF Restart
<1>15. CASE UNCHANGED <<db, mem>>
  BY <1>15
<1> QED
  BY <1>1, <1>2, <1>3, <1>4, <1>5, <1>6, <1>7, <1>8, <1>9, <1>10, <1>11,
      <1>12, <1>13, <1>14, <1>15
  DEF Next, Request, Abort, Scheduler, Monitor, Probe, vars, MonitorRequest,
      RequestAbort, AbortQueuedJob, AbortExecutingJob, EndPass, LaunchFlow,
      RecordExecution, ExecutionThrows, BeginPoll, PollJob, EndPoll

(* A pass removes the head of a queue that is not empty.                    *)
LEMMA QueueNext ==  /\TypeOK /\ HeadIsCurrent /\ [Next]_vars => QueueType'
<1> SUFFICES ASSUME TypeOK, HeadIsCurrent, [Next]_vars PROVE QueueType'
  OBVIOUS
<1> USE TypeParts DEF QueueType, serviceVars, proxyVars, monitorVars
<1>1. ASSUME NEW j \in Job, ScheduleJob(j) PROVE QueueType'
  BY <1>1, AppendProperties DEF ScheduleJob
<1>2. ASSUME PickJob PROVE QueueType'
  BY <1>2, HeadTailProperties DEF PickJob, CanPick, LeastUsed, Working
<1>3. ASSUME EndPass PROVE QueueType'
  BY <1>3 DEF EndPass
<1>4. ASSUME CommitSubmitted PROVE QueueType'
  BY <1>4, WorkingFields, WorkingMoves DEF CommitSubmitted
<1>5. ASSUME LaunchFlow PROVE QueueType'
  BY <1>5, WorkingFields, WorkingMoves DEF LaunchFlow
<1>6. ASSUME RecordExecution PROVE QueueType'
  BY <1>6, WorkingFields, WorkingMoves DEF RecordExecution
<1>7. ASSUME ExecutionFails PROVE QueueType'
  BY <1>7, WorkingFields, WorkingMoves, HeadTailProperties DEF
      ExecutionFails, HeadIsCurrent
<1>8. ASSUME ExecutionThrows PROVE QueueType'
  BY <1>8 DEF ExecutionThrows
<1>9. ASSUME CommitRetry PROVE QueueType'
  BY <1>9, WorkingFields, WorkingMoves DEF CommitRetry
<1>10. ASSUME RefreshJob PROVE QueueType'
  BY <1>10, WorkingFields, WorkingMoves DEF RefreshJob
<1>11. ASSUME CommitResponse PROVE QueueType'
<2>1. sched \in Working
  BY <1>11, WorkingFields DEF CommitResponse
<2>2. Tail(queue) \in Seq(Job)
  BY <1>11, HeadTailProperties DEF CommitResponse, HeadIsCurrent
<2> QED BY <1>11, <2>1, <2>2, WorkingMoves DEF CommitResponse
<1>12. ASSUME NEW j \in Job, AbortQueuedJob(j) PROVE QueueType'
  BY <1>12, RemoveFirstType, EmptySeq DEF AbortQueuedJob, Queued
<1>13. ASSUME Restart PROVE QueueType'
<2>1. {j \in Job : db[j].status = "SCHEDULED"} \subseteq Job
  OBVIOUS
<2> QED BY <1>13, <2>1, ReloadedQueue DEF Restart
<1>14. CASE UNCHANGED <<queue, sched>>
  BY <1>14
<1> QED
  BY <1>1, <1>2, <1>3, <1>4, <1>5, <1>6, <1>7, <1>8, <1>9, <1>10, <1>11,
      <1>12, <1>13, <1>14
  DEF Next, Request, Abort, Scheduler, Monitor, Probe, vars, MarkScheduled,
      MonitorRequest, CommitRequest, DeleteJob, RequestAbort,
      AbortExecutingJob, BeginPoll, PollJob, EndPoll, ProbeFlowStart,
      ProbeFlowFinish, ProbeFlowAbort, endFlow

(* The job sets of a proxy hold jobs.                                       *)
LEMMA ProxyNext ==  /\TypeOK /\ [Next]_vars => ProxyType'
<1> SUFFICES ASSUME TypeOK, [Next]_vars PROVE ProxyType'
  OBVIOUS
<1> USE TypeParts DEF ProxyType, serviceVars, proxyVars, monitorVars
<1>1. ASSUME RecordExecution PROVE ProxyType'
  BY <1>1, WorkingFields DEF RecordExecution, QueueType
<1>2. ASSUME NEW j \in Job, PollJob(j) PROVE ProxyType'
  BY <1>2 DEF PollJob, jobStatusUpdate
<1>3. ASSUME NEW j \in Job, AbortExecutingJob(j) PROVE ProxyType'
<2>1. UNCHANGED running
  BY <1>3 DEF AbortExecutingJob
<2>2. aborting' = aborting \/
      aborting' = [aborting EXCEPT ![abortReq[j].host] = @ \cup {j}]
  BY <1>3 DEF AbortExecutingJob
<2> QED BY <2>1, <2>2
<1>4. ASSUME Restart PROVE ProxyType'
  BY <1>4 DEF Restart
<1>5. CASE UNCHANGED <<running, aborting>>
  BY <1>5
<1> QED
  BY <1>1, <1>2, <1>3, <1>4, <1>5
  DEF Next, Request, Abort, Scheduler, Monitor, Probe, vars, ScheduleJob,
      MarkScheduled, MonitorRequest, CommitRequest, DeleteJob, RequestAbort,
      AbortQueuedJob, PickJob, EndPass, CommitSubmitted, LaunchFlow,
      ExecutionFails, ExecutionThrows, CommitRetry, RefreshJob,
      CommitResponse, BeginPoll, EndPoll, ProbeFlowStart, ProbeFlowFinish,
      ProbeFlowAbort, endFlow

(* The monitor keeps its copies of jobs and their listeners.                *)
LEMMA MonitorNext ==  /\TypeOK /\ [Next]_vars => MonitorType'
<1> SUFFICES ASSUME TypeOK, [Next]_vars PROVE MonitorType'
  OBVIOUS
<1> USE TypeParts DEF MonitorType, Listener, serviceVars, proxyVars, monitorVars
<1>1. ASSUME NEW j \in Job, MonitorRequest(j) PROVE MonitorType'
  BY <1>1, JobColumns DEF MonitorRequest, startMonitor, RowsType
<1>2. ASSUME RecordExecution PROVE MonitorType'
  BY <1>2, JobColumns, WorkingFields DEF RecordExecution, startMonitor,
      RowsType, QueueType
<1>3. ASSUME BeginPoll PROVE MonitorType'
  BY <1>3 DEF BeginPoll
<1>4. ASSUME NEW j \in Job, PollJob(j) PROVE MonitorType'
  BY <1>4, JobColumns, NoRowColumns DEF PollJob, present, RowsType, Status
<1>5. ASSUME EndPoll PROVE MonitorType'
  BY <1>5 DEF EndPoll
<1>6. ASSUME Restart PROVE MonitorType'
  BY <1>6 DEF Restart, Status
<1>7. CASE UNCHANGED <<watch, cached, polling, toPoll>>
  BY <1>7
<1> QED
  BY <1>1, <1>2, <1>3, <1>4, <1>5, <1>6, <1>7
  DEF Next, Request, Abort, Scheduler, Monitor, Probe, vars, ScheduleJob,
      MarkScheduled, CommitRequest, DeleteJob, RequestAbort, AbortQueuedJob,
      AbortExecutingJob, PickJob, EndPass, CommitSubmitted, LaunchFlow,
      ExecutionFails, ExecutionThrows, CommitRetry, RefreshJob,
      CommitResponse, ProbeFlowStart, ProbeFlowFinish, ProbeFlowAbort,
      endFlow

(* Abort requests hold columns of rows; executions are appended and change  *)
(* phase.                                                                   *)
LEMMA FlowNext ==  /\TypeOK /\ [Next]_vars => FlowType'
<1> SUFFICES ASSUME TypeOK, [Next]_vars PROVE FlowType'
  OBVIOUS
<1> USE TypeParts DEF FlowType, serviceVars, proxyVars, monitorVars
<1>1. ASSUME NEW j \in Job, RequestAbort(j) PROVE FlowType'
  BY <1>1, JobColumns, NoRowColumns DEF RequestAbort, RowsType, AbortRequest
<1>2. ASSUME NEW j \in Job, AbortQueuedJob(j) PROVE FlowType'
  BY <1>2 DEF AbortQueuedJob, NoAbort, AbortRequest
<1>3. ASSUME NEW j \in Job, AbortExecutingJob(j) PROVE FlowType'
<2>1. abortReq[j].port \in Nat
  BY DEF AbortRequest
<2>2. [flows[j] EXCEPT ![abortReq[j].port].phase = "aborting"] \in Seq(Flow)
  BY <2>1, PhaseUpdate
<2>3. abortReq' \in [Job -> AbortRequest]
  BY <1>3 DEF AbortExecutingJob, NoAbort, AbortRequest
<2>4. flows' \in [Job -> Seq(Flow)]
  BY <1>3, <2>2 DEF AbortExecutingJob
<2> QED BY <2>3, <2>4
<1>4. ASSUME LaunchFlow PROVE FlowType'
<2>1. sched.job \in Job /\ sched.server \in Server
  BY <1>4, WorkingFields DEF LaunchFlow, QueueType
<2>2. [at |-> sched.server, phase |-> "launched"] \in Flow
  BY <2>1 DEF Flow
<2> QED BY <1>4, <2>1, <2>2, AppendProperties DEF LaunchFlow
<1>5. ASSUME NEW j \in Job, NEW n \in 1..Len(flows[j]), ProbeFlowStart(j, n)
      PROVE  FlowType'
<2>1. n \in Nat
  BY LenProperties
<2> QED BY <1>5, <2>1, PhaseUpdate DEF ProbeFlowStart
<1>6. ASSUME NEW j \in Job, NEW n \in 1..Len(flows[j]), ProbeFlowFinish(j, n)
      PROVE  FlowType'
<2>1. n \in Nat
  BY LenProperties
<2> QED BY <1>6, <2>1, PhaseUpdate DEF ProbeFlowFinish, endFlow
<1>7. ASSUME NEW j \in Job, NEW n \in 1..Len(flows[j]), ProbeFlowAbort(j, n)
      PROVE  FlowType'
<2>1. n \in Nat
  BY LenProperties
<2> QED BY <1>7, <2>1, PhaseUpdate DEF ProbeFlowAbort, endFlow
<1>8. ASSUME Restart PROVE FlowType'
  BY <1>8 DEF Restart, NoAbort, AbortRequest
<1>9. CASE UNCHANGED <<abortReq, flows>>
  BY <1>9
<1> QED
  BY <1>1, <1>2, <1>3, <1>4, <1>5, <1>6, <1>7, <1>8, <1>9
  DEF Next, Request, Abort, Scheduler, Monitor, Probe, vars, ScheduleJob,
      MarkScheduled, MonitorRequest, CommitRequest, DeleteJob, PickJob,
      EndPass, CommitSubmitted, RecordExecution, ExecutionFails,
      ExecutionThrows, CommitRetry, RefreshJob, CommitResponse, BeginPoll,
      PollJob, EndPoll

(* Requests move through their steps, and failures are counted up to        *)
(* MaxFaults.                                                               *)
LEMMA RequestNext ==  /\TypeOK /\ [Next]_vars => RequestType'
<1> SUFFICES ASSUME TypeOK, [Next]_vars PROVE RequestType'
  OBVIOUS
<1> USE TypeParts DEF RequestType, Fault, NoFault, serviceVars, proxyVars, monitorVars
<1>1. ASSUME NEW j \in Job, ScheduleJob(j) PROVE RequestType'
  BY <1>1 DEF ScheduleJob
<1>2. ASSUME NEW j \in Job, MarkScheduled(j) PROVE RequestType'
  BY <1>2 DEF MarkScheduled
<1>3. ASSUME NEW j \in Job, MonitorRequest(j) PROVE RequestType'
  BY <1>3 DEF MonitorRequest
<1>4. ASSUME NEW j \in Job, CommitRequest(j) PROVE RequestType'
  BY <1>4, BoundsAssumption DEF CommitRequest
<1>5. ASSUME CommitSubmitted PROVE RequestType'
  BY <1>5, BoundsAssumption DEF CommitSubmitted
<1>6. ASSUME ExecutionFails PROVE RequestType'
  BY <1>6, BoundsAssumption DEF ExecutionFails
<1>7. ASSUME ExecutionThrows PROVE RequestType'
  BY <1>7, BoundsAssumption DEF ExecutionThrows
<1>8. ASSUME CommitRetry PROVE RequestType'
  BY <1>8, BoundsAssumption DEF CommitRetry
<1>9. ASSUME CommitResponse PROVE RequestType'
  BY <1>9, BoundsAssumption DEF CommitResponse
<1>10. ASSUME Restart PROVE RequestType'
  BY <1>10, BoundsAssumption DEF Restart
<1>11. CASE UNCHANGED <<request, faults>>
  BY <1>11
<1> QED
  BY <1>1, <1>2, <1>3, <1>4, <1>5, <1>6, <1>7, <1>8, <1>9, <1>10, <1>11
  DEF Next, Request, Abort, Scheduler, Monitor, Probe, vars, DeleteJob,
      RequestAbort, AbortQueuedJob, AbortExecutingJob, PickJob, EndPass,
      LaunchFlow, RecordExecution, RefreshJob, BeginPoll, PollJob, EndPoll,
      ProbeFlowStart, ProbeFlowFinish, ProbeFlowAbort, endFlow

LEMMA TypeNext == TypeOK /\ HeadIsCurrent /\ [Next]_vars => TypeOK'
BY RowsNext, QueueNext, ProxyNext, MonitorNext, FlowNext, RequestNext
   DEF TypeOK, RowsType, QueueType, ProxyType, MonitorType, FlowType, RequestType

-----------------------------------------------------------------------------
(* Only a pass in progress takes a job from the queue: the queueLock keeps  *)
(* abortJob out, and scheduleJob.                                           *)
LEMMA HeadNext ==  /\TypeOK /\ HeadIsCurrent /\ [Next]_vars => HeadIsCurrent'
<1> SUFFICES ASSUME TypeOK, HeadIsCurrent, [Next]_vars PROVE HeadIsCurrent'
  OBVIOUS
<1> USE TypeParts DEF QueueType, HeadIsCurrent, serviceVars, proxyVars, monitorVars
<1>1. ASSUME NEW j \in Job, ScheduleJob(j) PROVE HeadIsCurrent'
  BY <1>1, AppendProperties DEF ScheduleJob
<1>2. ASSUME PickJob PROVE HeadIsCurrent'
  BY <1>2 DEF PickJob, CanPick
<1>3. ASSUME EndPass PROVE HeadIsCurrent'
  BY <1>3, WorkingFields DEF EndPass
<1>4. ASSUME CommitSubmitted PROVE HeadIsCurrent'
  BY <1>4, WorkingFields DEF CommitSubmitted, Working
<1>5. ASSUME LaunchFlow PROVE HeadIsCurrent'
  BY <1>5, WorkingFields DEF LaunchFlow, Working
<1>6. ASSUME RecordExecution PROVE HeadIsCurrent'
  BY <1>6, WorkingFields DEF RecordExecution, Working
<1>7. ASSUME ExecutionFails PROVE HeadIsCurrent'
  BY <1>7, WorkingFields DEF ExecutionFails, Working
<1>8. ASSUME ExecutionThrows PROVE HeadIsCurrent'
  BY <1>8, WorkingFields DEF ExecutionThrows
<1>9. ASSUME CommitRetry PROVE HeadIsCurrent'
  BY <1>9, WorkingFields DEF CommitRetry, Working
<1>10. ASSUME RefreshJob PROVE HeadIsCurrent'
  BY <1>10, WorkingFields DEF RefreshJob, Working
<1>11. ASSUME CommitResponse PROVE HeadIsCurrent'
  BY <1>11, WorkingFields DEF CommitResponse, Working
<1>12. ASSUME NEW j \in Job, AbortQueuedJob(j) PROVE HeadIsCurrent'
  BY <1>12 DEF AbortQueuedJob
<1>13. ASSUME Restart PROVE HeadIsCurrent'
  BY <1>13, WorkingFields DEF Restart
<1>14. CASE UNCHANGED <<queue, sched>>
  BY <1>14
<1> QED
  BY <1>1, <1>2, <1>3, <1>4, <1>5, <1>6, <1>7, <1>8, <1>9, <1>10, <1>11,
      <1>12, <1>13, <1>14
  DEF Next, Request, Abort, Scheduler, Monitor, Probe, vars, MarkScheduled,
      MonitorRequest, CommitRequest, DeleteJob, RequestAbort,
      AbortExecutingJob, BeginPoll, PollJob, EndPoll, ProbeFlowStart,
      ProbeFlowFinish, ProbeFlowAbort, endFlow

(* A slot is taken in the step that registers its listener, and the monitor *)
(* forgets the listeners of a job only after it has told them of the end.   *)
LEMMA WatchedNext ==  /\TypeOK /\ SlotIsWatched /\ [Next]_vars => SlotIsWatched'
<1> SUFFICES ASSUME TypeOK, SlotIsWatched, [Next]_vars PROVE SlotIsWatched'
  OBVIOUS
<1> USE TypeParts DEF ProxyType, SlotIsWatched, serviceVars, proxyVars, monitorVars
<1>1. ASSUME NEW j \in Job, MonitorRequest(j) PROVE SlotIsWatched'
  BY <1>1 DEF MonitorRequest, startMonitor, MonitorType
<1>2. ASSUME RecordExecution PROVE SlotIsWatched'
  BY <1>2, WorkingFields DEF RecordExecution, startMonitor, QueueType,
      MonitorType
<1>3. ASSUME NEW j \in Job, PollJob(j) PROVE SlotIsWatched'
  BY <1>3 DEF PollJob, jobStatusUpdate, MonitorType, isRunning, isDone
<1>4. ASSUME Restart PROVE SlotIsWatched'
  BY <1>4 DEF Restart
<1>5. CASE UNCHANGED <<running, watch>>
  BY <1>5
<1> QED
  BY <1>1, <1>2, <1>3, <1>4, <1>5
  DEF Next, Request, Abort, Scheduler, Monitor, Probe, vars, ScheduleJob,
      MarkScheduled, CommitRequest, DeleteJob, RequestAbort, AbortQueuedJob,
      AbortExecutingJob, PickJob, EndPass, CommitSubmitted, LaunchFlow,
      ExecutionFails, ExecutionThrows, CommitRetry, RefreshJob,
      CommitResponse, BeginPoll, EndPoll, ProbeFlowStart, ProbeFlowFinish,
      ProbeFlowAbort, endFlow

(* A step appends executions and changes phases: an execution keeps its      *)
(* place and its server.                                                    *)
FlowsKept == \A j \in Job :
  \A n \in 1..Len(flows[j]) :
    n \in 1..Len(flows'[j]) /\ flows'[j][n].at = flows[j][n].at

LEMMA FlowsKeptNext ==  /\TypeOK /\ [Next]_vars => FlowsKept
<1> SUFFICES ASSUME TypeOK, [Next]_vars PROVE FlowsKept
  OBVIOUS
<1> USE TypeParts DEF FlowType, serviceVars, proxyVars, monitorVars
<1>1. ASSUME NEW j \in Job, AbortExecutingJob(j) PROVE FlowsKept
<2>1. abortReq[j].port \in Nat
  BY DEF AbortRequest
<2>2. \A n \in 1..Len(flows[j]) :
        LET fs == [flows[j] EXCEPT ![abortReq[j].port].phase = "aborting"]
        IN  n \in 1..Len(fs) /\ fs[n].at = flows[j][n].at
  BY <2>1, PhaseUpdate
<2>3. flows' = flows \/
      flows' = [flows EXCEPT ![j] = [flows[j] EXCEPT ![abortReq[j].port].phase = "aborting"]]
  BY <1>1 DEF AbortExecutingJob
<2> QED BY <2>2, <2>3, LenProperties DEF FlowsKept
<1>2. ASSUME LaunchFlow PROVE FlowsKept
<2>1. sched.job \in Job
  BY <1>2, WorkingFields DEF LaunchFlow, QueueType
<2> QED BY <1>2, <2>1, AppendProperties, LenProperties DEF LaunchFlow, FlowsKept
<1>3. ASSUME NEW j \in Job, NEW n \in 1..Len(flows[j]), ProbeFlowStart(j, n)
      PROVE  FlowsKept
<2>1. n \in Nat
  BY LenProperties
<2> QED BY <1>3, <2>1, PhaseUpdate, LenProperties DEF ProbeFlowStart, FlowsKept
<1>4. ASSUME NEW j \in Job, NEW n \in 1..Len(flows[j]), ProbeFlowFinish(j, n)
      PROVE  FlowsKept
<2>1. n \in Nat
  BY LenProperties
<2> QED BY <1>4, <2>1, PhaseUpdate, LenProperties DEF ProbeFlowFinish, endFlow, FlowsKept
<1>5. ASSUME NEW j \in Job, NEW n \in 1..Len(flows[j]), ProbeFlowAbort(j, n)
      PROVE  FlowsKept
<2>1. n \in Nat
  BY LenProperties
<2> QED BY <1>5, <2>1, PhaseUpdate, LenProperties DEF ProbeFlowAbort, endFlow, FlowsKept
<1>6. CASE UNCHANGED <<flows>>
  BY <1>6, LenProperties DEF FlowsKept
<1> QED
  BY <1>1, <1>2, <1>3, <1>4, <1>5, <1>6
  DEF Next, Request, Abort, Scheduler, Monitor, Probe, vars, ScheduleJob,
      MarkScheduled, MonitorRequest, CommitRequest, DeleteJob, RequestAbort,
      AbortQueuedJob, PickJob, EndPass, CommitSubmitted, RecordExecution,
      ExecutionFails, ExecutionThrows, CommitRetry, RefreshJob,
      CommitResponse, BeginPoll, PollJob, EndPoll, Restart

(* The reply is awaited from the server that was sent the flow.             *)
LEMMA ReplyNext ==  /\TypeOK /\ ReplyHasFlow /\ [Next]_vars => ReplyHasFlow'
<1> SUFFICES ASSUME TypeOK, ReplyHasFlow, [Next]_vars PROVE ReplyHasFlow'
  OBVIOUS
<1> USE TypeParts, FlowsKeptNext DEF QueueType, FlowType, serviceVars, proxyVars, monitorVars
<1>1. ASSUME LaunchFlow PROVE ReplyHasFlow'
<2>1. sched \in Working
  BY <1>1, WorkingFields DEF LaunchFlow
<2>2. sched.job \in Job /\ sched.server \in Server
  BY <2>1, WorkingFields
<2>3. sched'.job = sched.job /\ sched'.server = sched.server
  BY <1>1, <2>1 DEF LaunchFlow, Working
<2> DEFINE n == Len(flows[sched.job]) + 1
           e == [at |-> sched.server, phase |-> "launched"]
<2>4. e \in Flow
  BY <2>2 DEF Flow
<2>5. n \in 1..Len(Append(flows[sched.job], e)) /\ Append(flows[sched.job], e)[n].at = sched.server
  BY <2>2, <2>4, AppendProperties, LenProperties
<2>6. flows'[sched.job] = Append(flows[sched.job], e)
  BY <1>1, <2>2 DEF LaunchFlow
<2> HIDE DEF n, e
<2> QED BY <2>3, <2>5, <2>6 DEF ReplyHasFlow
<1>2. CASE sched' = sched
  <2>1. sched.pc = "respond" => sched.job \in Job
    BY WorkingFields
  <2> QED BY <1>2, <2>1, LenProperties DEF ReplyHasFlow, FlowsKept
<1>3. CASE sched'.pc # "respond"
  BY <1>3 DEF ReplyHasFlow
<1>4. ASSUME Scheduler, ~LaunchFlow PROVE sched'.pc # "respond"
  <2>1. sched.pc # "idle" => sched \in Working
    BY WorkingFields
  <2>2. CASE PickJob \/ EndPass \/ ExecutionThrows
    BY <2>2, WorkingFields DEF PickJob, EndPass, ExecutionThrows
  <2>3. CASE CommitSubmitted \/ RecordExecution \/ ExecutionFails
    BY <2>1, <2>3, WorkingFields
    DEF CommitSubmitted, RecordExecution, ExecutionFails, Working
  <2>4. CASE CommitRetry \/ RefreshJob \/ CommitResponse
    BY <2>1, <2>4, WorkingFields DEF CommitRetry, RefreshJob, CommitResponse, Working
  <2> QED BY <1>4, <2>2, <2>3, <2>4 DEF Scheduler
<1> QED
  BY <1>1, <1>2, <1>3, <1>4, WorkingFields
  DEF Next, Request, Abort, Monitor, Probe, vars, ScheduleJob, MarkScheduled,
      MonitorRequest, CommitRequest, DeleteJob, RequestAbort, AbortQueuedJob,
      AbortExecutingJob, BeginPoll, PollJob, EndPoll, ProbeFlowStart, ProbeFlowFinish,
      ProbeFlowAbort, endFlow, Restart

(* Slots are taken for the flow whose reply arrived.                        *)
LEMMA SlotHasFlowNext ==  /\TypeOK /\ ReplyHasFlow /\ SlotHasFlow /\ [Next]_vars => SlotHasFlow'
<1> SUFFICES ASSUME TypeOK, ReplyHasFlow, SlotHasFlow, [Next]_vars PROVE SlotHasFlow'
  OBVIOUS
<1> USE TypeParts, FlowsKeptNext DEF ProxyType, FlowType, serviceVars, proxyVars, monitorVars
<1>1. ASSUME RecordExecution PROVE SlotHasFlow'
<2>1. sched.job \in Job /\ sched.server \in Server
  BY <1>1, WorkingFields DEF RecordExecution, QueueType
<2>2. flows' = flows
  BY <1>1 DEF RecordExecution
<2>3. \A s \in Server : \A j \in running'[s] :
        j \in running[s] \/ (s = sched.server /\ j = sched.job)
  BY <1>1, <2>1 DEF RecordExecution
<2> QED BY <1>1, <2>2, <2>3 DEF RecordExecution, ReplyHasFlow, SlotHasFlow
<1>2. CASE \A s \in Server : running'[s] \subseteq running[s]
  <2>1. \A s \in Server : \A j \in running'[s] : j \in Job /\ j \in running[s]
    BY <1>2
  <2> QED BY <2>1 DEF SlotHasFlow, FlowsKept
<1>3. ASSUME NEW j \in Job, PollJob(j) PROVE \A s \in Server : running'[s] \subseteq running[s]
  BY <1>3 DEF PollJob, jobStatusUpdate
<1>4. ASSUME Restart PROVE \A s \in Server : running'[s] \subseteq running[s]
  BY <1>4 DEF Restart
<1>5. CASE UNCHANGED running
  BY <1>2, <1>5
<1> QED
  BY <1>1, <1>2, <1>3, <1>4, <1>5
  DEF Next, Request, Abort, Scheduler, Monitor, Probe, vars, ScheduleJob, MarkScheduled,
      MonitorRequest, CommitRequest, DeleteJob, RequestAbort, AbortQueuedJob,
      AbortExecutingJob, PickJob, EndPass, CommitSubmitted, LaunchFlow,
      ExecutionFails, ExecutionThrows, CommitRetry, RefreshJob, CommitResponse, BeginPoll,
      EndPoll, ProbeFlowStart, ProbeFlowFinish, ProbeFlowAbort, endFlow

(* Jobs that leave the sets of a proxy make room.                            *)
LEMMA SmallerLoad ==
  ASSUME NEW A, NEW B, A \subseteq Job, B \subseteq Job,
         NEW C, NEW D, C \subseteq A, D \subseteq B
  PROVE  /\ Cardinality(A) + Cardinality(B) \in Nat
         /\ Cardinality(C) + Cardinality(D) \in Nat
         /\ Cardinality(C) + Cardinality(D) <= Cardinality(A) + Cardinality(B)
<1>1. IsFiniteSet(A) /\ IsFiniteSet(B)
  BY JobsAssumption, FS_Subset
<1>2. Cardinality(C) <= Cardinality(A) /\ Cardinality(D) <= Cardinality(B)
  BY <1>1, FS_Subset
<1>3. IsFiniteSet(C) /\ IsFiniteSet(D)
  BY <1>1, FS_Subset
<1>4. /\ Cardinality(A) \in Nat /\ Cardinality(B) \in Nat
      /\ Cardinality(C) \in Nat /\ Cardinality(D) \in Nat
  BY <1>1, <1>3, FS_CardinalityType
<1> QED BY <1>2, <1>4

(* Between the choice of a server and its reply only the monitor touches    *)
(* the job sets of a proxy, and it only removes jobs.                       *)
LEMMA RoomNext == TypeOK /\ ChosenServerHasRoom /\ [Next]_vars => ChosenServerHasRoom'
<1> SUFFICES ASSUME TypeOK, ChosenServerHasRoom, [Next]_vars
             PROVE  ChosenServerHasRoom'
  OBVIOUS
<1> USE TypeParts
<1> DEFINE chosen == sched.pc \in {"submit", "launch", "respond"}
<1>1. ASSUME PickJob PROVE ChosenServerHasRoom'
  BY <1>1 DEF PickJob, LeastUsed, ChosenServerHasRoom, isBusy, load, proxyVars
<1>2. CASE chosen' => /\ chosen /\ sched'.server = sched.server
                      /\ \A s \in Server : /\ running'[s] \subseteq running[s]
                                           /\ aborting'[s] \subseteq aborting[s]
  <2>1. SUFFICES ASSUME chosen' PROVE ~isBusy(sched.server)'
    BY DEF ChosenServerHasRoom
  <2> DEFINE s == sched.server
  <2>2. chosen /\ s \in Server /\ sched'.server = s
    BY <1>2, <2>1, WorkingFields DEF QueueType
  <2>3. ~(Capacity[s] <= load(s)) /\ Capacity[s] \in Nat
    BY <2>2, CapacityAssumption DEF ChosenServerHasRoom, isBusy
  <2>4. running[s] \subseteq Job /\ aborting[s] \subseteq Job
    BY <2>2 DEF ProxyType
  <2>5. running'[s] \subseteq running[s] /\ aborting'[s] \subseteq aborting[s]
    BY <1>2, <2>1, <2>2
  <2> HIDE DEF s
  <2>6. /\ load(s) \in Nat
        /\ Cardinality(running'[s]) + Cardinality(aborting'[s]) \in Nat
        /\ Cardinality(running'[s]) + Cardinality(aborting'[s]) <= load(s)
    BY <2>4, <2>5, SmallerLoad DEF load
  <2>7. ~(Capacity[s] <= Cardinality(running'[s]) + Cardinality(aborting'[s]))
    BY <2>3, <2>6
  <2> QED BY <2>2, <2>7 DEF isBusy, load, s
<1>3. ASSUME CommitSubmitted \/ LaunchFlow PROVE ChosenServerHasRoom'
  <2>1. sched \in Working
    BY <1>3, WorkingFields DEF CommitSubmitted, LaunchFlow, QueueType
  <2>2. chosen /\ UNCHANGED <<running, aborting>>
    BY <1>3 DEF CommitSubmitted, LaunchFlow, proxyVars
  <2>3. chosen' => sched'.server = sched.server
    BY <1>3, <2>1, WorkingFields DEF CommitSubmitted, LaunchFlow, Working
  <2> QED BY <1>2, <2>2, <2>3
<1>4. ASSUME Scheduler, ~PickJob, ~CommitSubmitted, ~LaunchFlow PROVE ~chosen'
  <2>1. sched.pc # "idle" => sched \in Working
    BY WorkingFields DEF QueueType
  <2>2. CASE EndPass \/ RecordExecution \/ ExecutionFails \/ ExecutionThrows
    BY <2>1, <2>2, WorkingFields
    DEF EndPass, RecordExecution, ExecutionFails, ExecutionThrows, Working
  <2>3. CASE CommitRetry \/ RefreshJob \/ CommitResponse
    BY <2>1, <2>3, WorkingFields DEF CommitRetry, RefreshJob, CommitResponse, Working
  <2> QED BY <1>4, <2>2, <2>3 DEF Scheduler
<1>5. ASSUME NEW j \in Job, PollJob(j) PROVE ChosenServerHasRoom'
  BY <1>2, <1>5 DEF PollJob, jobStatusUpdate, proxyVars, ProxyType
<1>6. ASSUME NEW j \in Job, AbortExecutingJob(j) PROVE ~chosen'
  BY <1>6 DEF AbortExecutingJob
<1>7. ASSUME Restart PROVE ~chosen'
  BY <1>7, WorkingFields DEF Restart
<1>8. CASE UNCHANGED <<sched, running, aborting>>
  BY <1>2, <1>8
<1> HIDE DEF chosen
<1> QED
  BY <1>1, <1>2, <1>3, <1>4, <1>5, <1>6, <1>7, <1>8
  DEF Next, Request, Abort, Monitor, Probe, vars, proxyVars, ScheduleJob, MarkScheduled,
      MonitorRequest, CommitRequest, DeleteJob, RequestAbort, AbortQueuedJob, BeginPoll,
      EndPoll, ProbeFlowStart, ProbeFlowFinish, ProbeFlowAbort, endFlow

-----------------------------------------------------------------------------
(* The inductive invariant.                                                 *)
IInv == /\ TypeOK /\ HeadIsCurrent /\ SlotIsWatched /\ ChosenServerHasRoom
        /\ ReplyHasFlow /\ SlotHasFlow

LEMMA IInvInit == Init => IInv
<1> SUFFICES ASSUME Init PROVE IInv
  OBVIOUS
<1>1. HeadIsCurrent /\ ChosenServerHasRoom /\ ReplyHasFlow
  BY WorkingFields DEF Init, HeadIsCurrent, ChosenServerHasRoom, ReplyHasFlow
<1>2. SlotIsWatched /\ SlotHasFlow
  BY DEF Init, SlotIsWatched, SlotHasFlow
<1> QED BY <1>1, <1>2, TypeInit DEF IInv

LEMMA IInvNext == IInv /\ [Next]_vars => IInv'
BY TypeNext, HeadNext, WatchedNext, RoomNext, ReplyNext, SlotHasFlowNext DEF IInv

THEOREM IInvHolds == Spec => []IInv
BY IInvInit, IInvNext, PTL DEF Spec

(* Every value the program stores has its type: a status, a try, a server,  *)
(* an execution of the job it is about.                                     *)
THEOREM TypeCorrect == Spec => []TypeOK
BY IInvHolds, PTL DEF IInv

(* The job a pass works on stays at the head of the queue, so that the      *)
(* unnamed jobQueue.remove() of runJobs takes the right job.                *)
THEOREM PassKeepsItsJob == Spec => []HeadIsCurrent
BY IInvHolds, PTL DEF IInv

(* Each job that occupies a slot of a proxy is monitored for that proxy,    *)
(* whatever fails and whenever the process restarts: no slot is lost.       *)
THEOREM SlotsAreWatched == Spec => []SlotIsWatched
BY IInvHolds, PTL DEF IInv

(* executeJob of a proxy is never called on a busy server, for any          *)
(* capacities: its IllegalStateException is dead code.                      *)
THEOREM ChoiceStaysGood == Spec => []ChosenServerHasRoom
BY IInvHolds, PTL DEF IInv

(* A slot is only ever taken for a flow that the server has accepted.       *)
THEOREM SlotsHaveFlows == Spec => []SlotHasFlow
BY IInvHolds, PTL DEF IInv
=============================================================================
