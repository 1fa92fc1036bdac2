------------------------- MODULE WaitingJobs_proofs -------------------------
(***************************************************************************)
(* What holds of the jobs of JobLifecycle that wait for a server, for any  *)
(* jobs and servers: a row that says SCHEDULED is in the queue or was      *)
(* given to a server, and no job that was committed is forgotten.          *)
(*                                                                         *)
(* A job leaves the queue in three places.  CommitResponse and abortJob    *)
(* remove one that has reached a server.  ExecutionFails removes one that  *)
(* has not, on its last try: the argument is about what its row says then, *)
(* which depends on the race of the first pass with the request thread.    *)
(***************************************************************************)
EXTENDS JobLifecycle_proofs, WellFoundedInduction

Waiting(j) == request[j] \in {"queued", "marked", "monitored"}

Contacting == {"launch", "respond", "retry", "refresh", "response"}
Accepted   == {"respond", "refresh", "response"}

(* Before its request is committed a job has no execution, and is queued.   *)
NeverStarted == \A j \in Job : request[j] = "new" \/ Waiting(j) => flows[j] = <<>>
WaitsInQueue == \A j \in Job : Waiting(j) => j \in Queued

(* Nothing says that a job runs before a server has accepted it.            *)
StartedHasFlow ==
  \A j \in Job :
    abortReq[j].pending \/ isRunning(db[j].status) \/ isRunning(mem[j].status)
      => flows[j] # <<>>

(* What a pass may rely on about its job once it has committed SUBMITTED.   *)
PassIsSound ==
  /\ sched.pc \in Contacting => request[sched.job] \in {"committed", "rolledBack"}
  /\ sched.pc \in Accepted => flows[sched.job] # <<>>
  /\ sched.pc = "retry" => \/ mem[sched.job].status = "FAILED"
                           \/ mem[sched.job].status = "SCHEDULED" /\ sched.job \in Queued

(* The request thread and the scheduler only write the same Job object in   *)
(* the first try, so that only then a pass may commit SCHEDULED.            *)
FirstTry ==
  /\ \A j \in Job : Waiting(j) =>
       mem[j].tries = IF sched.pc = "submit" /\ sched.job = j THEN 1 ELSE 0
  /\ sched.pc = "submit" /\ mem[sched.job].status # "SUBMITTED"
       => mem[sched.job].tries = 1
  /\ sched.pc = "launch" /\ db[sched.job].status = "SCHEDULED"
       => mem[sched.job].tries = 1

WInv == /\ IInv /\ NeverStarted /\ WaitsInQueue /\ StartedHasFlow /\ PassIsSound

-----------------------------------------------------------------------------
(* A set of numbers has a least one.                                        *)
LEMMA LeastNumber ==
  ASSUME NEW T, T \subseteq Nat, T # {}
  PROVE  \E i \in T : \A k \in T : i <= k
<1> DEFINE R == OpToRel(<, Nat)
<1>1. IsWellFoundedOn(R, Nat)
  BY NatLessThanWellFounded, Zenon
<1>2. ASSUME NEW i \in T, NEW k \in T, <<k, i>> \notin R PROVE i <= k
  <2>1. i \in Nat /\ k \in Nat
    OBVIOUS
  <2>2. ~(k < i)
    BY <1>2, <2>1 DEF OpToRel
  <2> QED BY <2>1, <2>2
<1> HIDE DEF R
<1>3. \E i \in T : \A k \in T : <<k, i>> \notin R
  BY <1>1, WFMin
<1> QED BY <1>2, <1>3

-----------------------------------------------------------------------------
(* Who is in a queue after a change of it.                                  *)
Members(q) == {q[i] : i \in 1..Len(q)}

LEMMA QueuedAreMembers == Queued = Members(queue) /\ Queued' = Members(queue')
BY DEF Queued, Members

LEMMA AppendMembers ==
  ASSUME NEW q \in Seq(Job), NEW j \in Job
  PROVE  Members(q) \subseteq Members(Append(q, j)) /\ j \in Members(Append(q, j))
<1>1. Len(q) \in Nat /\ Len(Append(q, j)) = Len(q) + 1
  BY AppendProperties, LenProperties
<1>2. \A i \in 1..Len(q) : i \in 1..Len(Append(q, j)) /\ Append(q, j)[i] = q[i]
  BY <1>1, AppendProperties
<1>3. Len(q) + 1 \in 1..Len(Append(q, j)) /\ Append(q, j)[Len(q) + 1] = j
  BY <1>1, AppendProperties
<1> QED BY <1>2, <1>3 DEF Members

LEMMA TailMembers ==
  ASSUME NEW q \in Seq(Job), q # <<>>, NEW k \in Members(q), k # Head(q)
  PROVE  k \in Members(Tail(q))
<1>1. PICK i \in 1..Len(q) : q[i] = k
  BY DEF Members
<1>2. Len(q) \in Nat /\ Len(Tail(q)) = Len(q) - 1 /\ i # 1
  BY <1>1, HeadTailProperties, LenProperties
<1>3. i - 1 \in 1..Len(Tail(q))
  BY <1>1, <1>2
<1>4. Tail(q)[i - 1] = q[(i - 1) + 1]
  BY <1>3, HeadTailProperties
<1>5. Tail(q)[i - 1] = k
  BY <1>1, <1>2, <1>4
<1> QED BY <1>3, <1>5 DEF Members

LEMMA FirstIndex ==
  ASSUME NEW q \in Seq(Job), NEW j \in Members(q)
  PROVE  \E i \in 1..Len(q) :
           /\ q[i] = j
           /\ removeFirst(q, j) = [h \in 1..(Len(q) - 1) |-> IF h < i THEN q[h] ELSE q[h + 1]]
<1> DEFINE i == CHOOSE h \in 1..Len(q) : q[h] = j /\ \A m \in 1..(h - 1) : q[m] # j
           T == {h \in 1..Len(q) : q[h] = j}
<1>1. Len(q) \in Nat /\ T # {} /\ T \subseteq Nat
  BY LenProperties DEF Members
<1>2. PICK h \in T : \A m \in T : h <= m
  BY <1>1, LeastNumber
<1>3. \A m \in 1..(h - 1) : q[m] # j
  BY <1>1, <1>2
<1>4. i \in 1..Len(q) /\ q[i] = j
  BY <1>2, <1>3
<1> QED BY <1>4 DEF removeFirst

LEMMA RemoveFirstMembers ==
  ASSUME NEW q \in Seq(Job), NEW j \in Members(q), NEW k \in Members(q), k # j
  PROVE  k \in Members(removeFirst(q, j))
<1> DEFINE r == removeFirst(q, j)
<1>1. Len(q) \in Nat
  BY LenProperties
<1>2. PICK i \in 1..Len(q) :
        q[i] = j /\ r = [h \in 1..(Len(q) - 1) |-> IF h < i THEN q[h] ELSE q[h + 1]]
  BY FirstIndex
<1>3. PICK h \in 1..Len(q) : q[h] = k
  BY DEF Members
<1> HIDE DEF r
<1>4. Len(r) = Len(q) - 1
  BY <1>1, <1>2
<1>5. CASE h < i
  <2>1. h \in 1..Len(r) /\ r[h] = k
    BY <1>1, <1>2, <1>3, <1>4, <1>5
  <2> QED BY <2>1 DEF Members, r
<1>6. CASE h > i
  <2>1. h - 1 \in 1..Len(r) /\ r[h - 1] = k
    BY <1>1, <1>2, <1>3, <1>4, <1>6
  <2> QED BY <2>1 DEF Members, r
<1> QED BY <1>1, <1>2, <1>3, <1>5, <1>6

(* The queue that init makes has every row it found.                        *)
LEMMA ReloadedMembers ==
  ASSUME NEW S, S \subseteq Job, NEW q \in [1..Cardinality(S) -> S],
         \A i, k \in DOMAIN q : i < k => q[i] < q[k]
  PROVE  Members(q) = S
<1> DEFINE n == Cardinality(S)
<1>1. IsFiniteSet(S) /\ n \in Nat
  BY FS_Subset, FS_CardinalityType, JobsAssumption
<1>2. \A i \in 1..n : q[i] \in Nat
  BY JobsAssumption
<1> HIDE DEF n
<1>3. q \in [1..n -> S] /\ DOMAIN q = 1..n
  BY DEF n
<1>4. ASSUME NEW i \in 1..n, NEW k \in 1..n, q[i] = q[k] PROVE i = k
  BY <1>1, <1>2, <1>3, <1>4
<1>5. q \in Injection(1..n, S)
  BY <1>3, <1>4 DEF Injection, IsInjective
<1>6. Cardinality(1..n) = n
  BY <1>1, FS_Interval
<1>7. q \in Surjection(1..n, S)
  BY <1>1, <1>5, <1>6, FS_Injection DEF n
<1>8. Len(q) = n
  BY <1>1, <1>3
<1> QED BY <1>3, <1>7, <1>8 DEF Members, Surjection
-----------------------------------------------------------------------------
(* Who writes what.                                                         *)
LEMMA QueueWriters ==
  [Next]_vars => \/ queue' = queue
                 \/ \E j \in Job : ScheduleJob(j) \/ AbortQueuedJob(j)
                 \/ ExecutionFails \/ CommitResponse \/ Restart
BY DEF Next, Request, Abort, Scheduler, Monitor, Probe, vars, serviceVars, MarkScheduled,
       MonitorRequest, CommitRequest, DeleteJob, RequestAbort, AbortExecutingJob,
       PickJob, EndPass, CommitSubmitted, LaunchFlow, RecordExecution, ExecutionThrows,
       CommitRetry, RefreshJob, BeginPoll, PollJob, EndPoll, ProbeFlowStart,
       ProbeFlowFinish, ProbeFlowAbort, endFlow

LEMMA SchedWriters ==
  [Next]_vars => sched' = sched \/ Scheduler \/ Restart
BY DEF Next, Request, Abort, Monitor, Probe, vars, ScheduleJob, MarkScheduled,
       MonitorRequest, CommitRequest, DeleteJob, RequestAbort, AbortQueuedJob,
       AbortExecutingJob, BeginPoll, PollJob, EndPoll, ProbeFlowStart,
       ProbeFlowFinish, ProbeFlowAbort, endFlow

LEMMA MemWriters ==
  [Next]_vars => \/ mem' = mem
                 \/ \E j \in Job : ScheduleJob(j) \/ MarkScheduled(j)
                 \/ PickJob \/ ExecutionFails \/ RefreshJob \/ Restart
BY DEF Next, Request, Abort, Scheduler, Monitor, Probe, vars, serviceVars,
       MonitorRequest, CommitRequest, DeleteJob, RequestAbort, AbortQueuedJob,
       AbortExecutingJob, EndPass, CommitSubmitted, LaunchFlow, RecordExecution,
       ExecutionThrows, CommitRetry, CommitResponse, BeginPoll, PollJob, EndPoll,
       ProbeFlowStart, ProbeFlowFinish, ProbeFlowAbort, endFlow

LEMMA RequestWriters ==
  [Next]_vars => \/ request' = request
                 \/ \E j \in Job : Request(j)
                 \/ Restart
BY DEF Next, Request, Abort, Scheduler, Monitor, Probe, vars, serviceVars, DeleteJob,
       RequestAbort, AbortQueuedJob, AbortExecutingJob, PickJob, EndPass,
       CommitSubmitted, LaunchFlow, RecordExecution, ExecutionFails, ExecutionThrows,
       CommitRetry, RefreshJob, CommitResponse, BeginPoll, PollJob, EndPoll,
       ProbeFlowStart, ProbeFlowFinish, ProbeFlowAbort, endFlow

LEMMA AbortWriters ==
  [Next]_vars => \/ abortReq' = abortReq
                 \/ \E j \in Job : Abort(j)
                 \/ Restart
BY DEF Next, Request, Scheduler, Monitor, Probe, vars, ScheduleJob, MarkScheduled,
       MonitorRequest, CommitRequest, DeleteJob, PickJob, EndPass, CommitSubmitted,
       LaunchFlow, RecordExecution, ExecutionFails, ExecutionThrows, CommitRetry,
       RefreshJob, CommitResponse, BeginPoll, PollJob, EndPoll, ProbeFlowStart,
       ProbeFlowFinish, ProbeFlowAbort, endFlow

(* A row is deleted, written by a probe, or gets the columns of the object. *)
ProbeWrites(j) ==
  \E n \in 1..Len(flows[j]) :
    \/ ProbeFlowStart(j, n) /\ db'[j] = [db[j] EXCEPT !.status = "STARTED", !.exec = n]
    \/ ProbeFlowFinish(j, n) /\ db'[j] = [db[j] EXCEPT !.status = "FINISHED"]
    \/ ProbeFlowAbort(j, n) /\ db'[j] = [db[j] EXCEPT !.status = "ABORTED"]

ProgramWrites(j) ==
  \/ CommitRequest(j) /\ db'[j] = mem[j]
  \/ /\ sched.job = j /\ present(j)
     /\ \/ CommitSubmitted /\ \E st \in {"SUBMITTED", mem[j].status} :
                                 db'[j] = [mem[j] EXCEPT !.status = st]
        \/ (CommitRetry \/ CommitResponse) /\ db'[j] = mem[j]

LEMMA RowWriters ==
  ASSUME TypeOK, [Next]_vars, NEW j \in Job
  PROVE  \/ db'[j] = db[j]
         \/ DeleteJob(j) /\ db'[j] = NoRow
         \/ present(j) /\ ProbeWrites(j)
         \/ ProgramWrites(j)
<1> USE TypeParts DEF RowsType
<1>1. ASSUME NEW k \in Job, DeleteJob(k)
      PROVE  db'[j] = db[j] \/ (DeleteJob(j) /\ db'[j] = NoRow)
  BY <1>1 DEF DeleteJob
<1>2. ASSUME NEW k \in Job, CommitRequest(k) PROVE db'[j] = db[j] \/ ProgramWrites(j)
  BY <1>2 DEF CommitRequest, ProgramWrites
<1>3. CASE CommitSubmitted
  BY <1>3 DEF CommitSubmitted, ProgramWrites
<1>4. CASE CommitRetry
  BY <1>4 DEF CommitRetry, ProgramWrites
<1>5. CASE CommitResponse
  BY <1>5 DEF CommitResponse, ProgramWrites
<1>6. ASSUME NEW k \in Job, NEW n \in 1..Len(flows[k]), Probe(k, n)
      PROVE  db'[j] = db[j] \/ (present(j) /\ ProbeWrites(j))
  <2> DEFINE r1 == [db[k] EXCEPT !.status = "STARTED", !.exec = n]
             r2 == [db[k] EXCEPT !.status = "FINISHED"]
             r3 == [db[k] EXCEPT !.status = "ABORTED"]
             Starts == ProbeFlowStart(k, n) /\ db' = [db EXCEPT ![k] = r1]
             Finishes == ProbeFlowFinish(k, n) /\ db' = [db EXCEPT ![k] = r2]
             Aborts == ProbeFlowAbort(k, n) /\ db' = [db EXCEPT ![k] = r3]
  <2>1. db' = db \/ (present(k) /\ (Starts \/ Finishes \/ Aborts))
    <3>1. CASE ProbeFlowStart(k, n)
      BY <3>1 DEF ProbeFlowStart
    <3>2. CASE ProbeFlowFinish(k, n)
      BY <3>2 DEF ProbeFlowFinish, endFlow
    <3>3. CASE ProbeFlowAbort(k, n)
      BY <3>3 DEF ProbeFlowAbort, endFlow
    <3> QED BY <1>6, <3>1, <3>2, <3>3 DEF Probe
  <2>2. ASSUME NEW r, db' = [db EXCEPT ![k] = r]
        PROVE  db'[j] = IF j = k THEN r ELSE db[j]
    BY <2>2
  <2>3. CASE db' = db
    BY <2>3
  <2>4. CASE present(k) /\ Starts
    <3>1. db'[j] = IF j = k THEN r1 ELSE db[j]
      BY <2>2, <2>4, Zenon
    <3> QED BY <2>4, <3>1, Zenon DEF ProbeWrites
  <2>5. CASE present(k) /\ Finishes
    <3>1. db'[j] = IF j = k THEN r2 ELSE db[j]
      BY <2>2, <2>5, Zenon
    <3> QED BY <2>5, <3>1, Zenon DEF ProbeWrites
  <2>6. CASE present(k) /\ Aborts
    <3>1. db'[j] = IF j = k THEN r3 ELSE db[j]
      BY <2>2, <2>6, Zenon
    <3> QED BY <2>6, <3>1, Zenon DEF ProbeWrites
  <2> QED BY <2>1, <2>3, <2>4, <2>5, <2>6, Zenon
<1>7. CASE db' = db
  BY <1>7
<1> QED BY <1>1, <1>2, <1>3, <1>4, <1>5, <1>6, <1>7
        DEF Next, Request, Abort, Scheduler, Monitor, vars, ScheduleJob, MarkScheduled,
            MonitorRequest, RequestAbort, AbortQueuedJob, AbortExecutingJob, PickJob,
            EndPass, LaunchFlow, RecordExecution, ExecutionFails, ExecutionThrows,
            RefreshJob, BeginPoll, PollJob, EndPoll, Restart

-----------------------------------------------------------------------------
(* A job that has an execution keeps it, and gets the first one from        *)
(* LaunchFlow.                                                              *)
LEMMA KeepsFlow ==
  ASSUME TypeOK, [Next]_vars, NEW j \in Job, flows[j] # <<>>
  PROVE  flows'[j] # <<>>
<1>1. flows[j] \in Seq(Flow)
  BY TypeParts DEF FlowType
<1>2. 1 \in 1..Len(flows[j])
  BY <1>1, EmptySeq
<1>3. 1 \in 1..Len(flows'[j])
  BY <1>2, FlowsKeptNext DEF FlowsKept
<1>4. Len(<<>>) = 0
  BY EmptySeq
<1> QED BY <1>3, <1>4

LEMMA FirstFlow ==
  ASSUME TypeOK, StartedHasFlow, [Next]_vars, NEW j \in Job, flows[j] = <<>>
  PROVE  flows'[j] = <<>> \/ (LaunchFlow /\ sched.job = j)
<1> USE TypeParts DEF FlowType
<1>1. ASSUME NEW k \in Job, AbortExecutingJob(k) PROVE flows'[j] = flows[j]
  <2>1. j # k
    BY <1>1 DEF AbortExecutingJob, StartedHasFlow
  <2> QED BY <1>1, <2>1 DEF AbortExecutingJob
<1>2. CASE LaunchFlow
  BY <1>2 DEF LaunchFlow
<1>3. ASSUME NEW k \in Job, NEW n \in 1..Len(flows[k]), Probe(k, n)
      PROVE  flows'[j] = flows[j]
  <2>1. Len(<<>>) = 0
    BY EmptySeq
  <2>2. j # k
    BY <2>1
  <2> QED BY <1>3, <2>2
          DEF Probe, ProbeFlowStart, ProbeFlowFinish, ProbeFlowAbort, endFlow
<1>4. CASE flows' = flows
  BY <1>4
<1> QED BY <1>1, <1>2, <1>3, <1>4
        DEF Next, Request, Abort, Scheduler, Monitor, vars, ScheduleJob, MarkScheduled,
            MonitorRequest, CommitRequest, DeleteJob, RequestAbort, AbortQueuedJob,
            PickJob, EndPass, CommitSubmitted, RecordExecution, ExecutionFails,
            ExecutionThrows, CommitRetry, RefreshJob, CommitResponse, BeginPoll, PollJob,
            EndPoll, Restart

(* A job without an execution stays queued, except on its last try.         *)
LastTryFails(j) == sched.pc = "launch" /\ sched.job = j /\ mem[j].tries = MaxTries
                   /\ ExecutionFails

LEMMA StaysQueued ==
  ASSUME WInv, [Next]_vars, NEW j \in Job, j \in Queued, flows[j] = <<>>
  PROVE  j \in Queued' \/ LastTryFails(j) \/ Restart
<1>1. queue \in Seq(Job) /\ HeadIsCurrent /\ TypeOK
  BY TypeParts DEF WInv, IInv, QueueType
<1>2. j \in Members(queue)
  BY QueuedAreMembers
<1>3. ASSUME NEW k \in Job, ScheduleJob(k) PROVE j \in Members(queue')
  BY <1>1, <1>2, <1>3, AppendMembers DEF ScheduleJob
<1>4. ASSUME NEW k \in Job, AbortQueuedJob(k) PROVE j \in Members(queue')
  <2>1. k # j
    BY <1>4 DEF AbortQueuedJob, WInv, StartedHasFlow
  <2>2. k \in Members(queue) /\ queue' = removeFirst(queue, k)
    BY <1>4, QueuedAreMembers DEF AbortQueuedJob
  <2> QED BY <1>1, <1>2, <2>1, <2>2, RemoveFirstMembers
<1>5. CASE ExecutionFails
  <2>1. sched.pc \in {"launch", "respond"} /\ sched.job \in Job
    BY <1>1, <1>5, TypeParts, WorkingFields DEF ExecutionFails, QueueType
  <2>2. queue # <<>> /\ Head(queue) = sched.job
    BY <1>1, <2>1 DEF HeadIsCurrent
  <2>3. queue' = IF mem[sched.job].tries = MaxTries THEN Tail(queue) ELSE queue
    BY <1>5 DEF ExecutionFails
  <2>4. CASE mem[sched.job].tries # MaxTries
    BY <1>2, <2>3, <2>4, QueuedAreMembers
  <2>5. CASE j # sched.job
    <3>1. j \in Members(Tail(queue))
      BY <1>1, <1>2, <2>2, <2>5, TailMembers
    <3> QED BY <1>2, <2>3, <3>1, QueuedAreMembers
  <2>6. CASE mem[sched.job].tries = MaxTries /\ j = sched.job
    BY <1>5, <2>1, <2>6 DEF LastTryFails, WInv, PassIsSound, Accepted
  <2> QED BY <2>4, <2>5, <2>6
<1>6. CASE CommitResponse
  <2>1. sched.pc = "response"
    BY <1>6 DEF CommitResponse
  <2>2. queue # <<>> /\ Head(queue) = sched.job /\ flows[sched.job] # <<>>
    BY <1>1, <2>1 DEF HeadIsCurrent, WInv, PassIsSound, Accepted
  <2>3. queue' = Tail(queue) \/ queue' = queue
    BY <1>6 DEF CommitResponse
  <2> QED BY <1>1, <1>2, <2>2, <2>3, TailMembers, QueuedAreMembers
<1> QED BY <1>2, <1>3, <1>4, <1>5, <1>6, QueueWriters, QueuedAreMembers
-----------------------------------------------------------------------------
(* A request goes forward, and waits only after ScheduleJob.                *)
LEMMA RequestMoves ==
  ASSUME TypeOK, [Next]_vars, NEW j \in Job
  PROVE  /\ request'[j] = "new" => request[j] = "new"
         /\ Waiting(j)' => Waiting(j) \/ ScheduleJob(j)
         /\ Restart => ~Waiting(j)'
         /\ request[j] \in {"committed", "rolledBack"}
              => request'[j] \in {"committed", "rolledBack"}
<1> USE TypeParts DEF RequestType, Waiting
<1>1. Restart => ~Waiting(j)'
  BY DEF Restart
<1>2. CASE request' = request
  BY <1>1, <1>2
<1>3. ASSUME NEW k \in Job, Request(k)
      PROVE  \/ request'[j] = request[j]
             \/ /\ k = j /\ request[j] \in {"new", "queued", "marked", "monitored"}
                /\ request[j] = "new" => ScheduleJob(j)
                /\ request'[j] # "new"
  <2>1. request[k] \in {"new", "queued", "marked", "monitored"}
    BY <1>3 DEF Request, ScheduleJob, MarkScheduled, MonitorRequest, CommitRequest
  <2>2. \E v \in {"queued", "marked", "monitored", "committed", "rolledBack"} :
          request' = [request EXCEPT ![k] = v]
    BY <1>3 DEF Request, ScheduleJob, MarkScheduled, MonitorRequest, CommitRequest
  <2>3. request[k] = "new" => ScheduleJob(k)
    BY <1>3 DEF Request, MarkScheduled, MonitorRequest, CommitRequest
  <2> QED BY <2>1, <2>2, <2>3
<1>4. CASE Restart
  BY <1>4 DEF Restart
<1> QED BY <1>1, <1>2, <1>3, <1>4, RequestWriters

(* A pass is about one job: it contacts a server after CommitSubmitted, and *)
(* has an execution after LaunchFlow.                                       *)
LEMMA PassMoves ==
  ASSUME TypeOK, [Next]_vars, sched'.pc \in Contacting
  PROVE  /\ sched'.job = sched.job /\ sched.job \in Job
         /\ sched.pc \in Contacting \/ CommitSubmitted
         /\ sched'.pc \in Accepted => sched.pc \in Accepted \/ LaunchFlow
         /\ sched'.pc = "retry" => ExecutionFails \/ sched' = sched
<1> USE TypeParts DEF QueueType, Contacting, Accepted
<1>1. CASE sched' = sched
  BY <1>1, WorkingFields
<1>2. CASE Restart
  BY <1>2, WorkingFields DEF Restart
<1>3. CASE PickJob \/ EndPass \/ ExecutionThrows
  BY <1>3, WorkingFields DEF PickJob, EndPass, ExecutionThrows
<1>4. sched.pc # "idle" => sched \in Working
  BY WorkingFields
<1>5. CASE CommitSubmitted \/ LaunchFlow \/ RecordExecution
  BY <1>4, <1>5, WorkingFields DEF CommitSubmitted, LaunchFlow, RecordExecution, Working
<1>6. CASE ExecutionFails
  BY <1>4, <1>6, WorkingFields DEF ExecutionFails, Working
<1>7. CASE CommitRetry \/ RefreshJob \/ CommitResponse
  BY <1>4, <1>7, WorkingFields DEF CommitRetry, RefreshJob, CommitResponse, Working
<1> QED BY <1>1, <1>2, <1>3, <1>5, <1>6, <1>7, SchedWriters DEF Scheduler

-----------------------------------------------------------------------------
LEMMA NeverStartedNext == ASSUME WInv, [Next]_vars PROVE NeverStarted'
<1> SUFFICES ASSUME NEW j \in Job, request'[j] = "new" \/ Waiting(j)' PROVE flows'[j] = <<>>
  BY DEF NeverStarted
<1>1. TypeOK
  BY DEF WInv, IInv
<1>2. request[j] = "new" \/ Waiting(j)
  BY <1>1, RequestMoves DEF ScheduleJob
<1>3. flows[j] = <<>>
  BY <1>2 DEF WInv, NeverStarted
<1>4. ~(LaunchFlow /\ sched.job = j)
  BY <1>2 DEF LaunchFlow, WInv, PassIsSound, Contacting, Waiting
<1> QED BY <1>1, <1>3, <1>4, FirstFlow DEF WInv

LEMMA WaitsInQueueNext == ASSUME WInv, [Next]_vars PROVE WaitsInQueue'
<1> SUFFICES ASSUME NEW j \in Job, Waiting(j)' PROVE j \in Queued'
  BY DEF WaitsInQueue
<1>1. TypeOK /\ queue \in Seq(Job)
  BY TypeParts DEF WInv, IInv, QueueType
<1>2. CASE ScheduleJob(j)
  BY <1>1, <1>2, AppendMembers, QueuedAreMembers DEF ScheduleJob
<1>3. CASE Waiting(j)
  <2>1. j \in Queued /\ flows[j] = <<>>
    BY <1>3 DEF WInv, WaitsInQueue, NeverStarted
  <2>2. ~LastTryFails(j)
    BY <1>3 DEF LastTryFails, WInv, PassIsSound, Contacting, Waiting
  <2> QED BY <1>1, <2>1, <2>2, StaysQueued, RequestMoves
<1> QED BY <1>1, <1>2, <1>3, RequestMoves

LEMMA StartedHasFlowNext == ASSUME WInv, [Next]_vars PROVE StartedHasFlow'
<1> SUFFICES ASSUME NEW j \in Job PROVE
      \/ flows'[j] # <<>>
      \/ ~(abortReq'[j].pending \/ isRunning(db'[j].status) \/ isRunning(mem'[j].status))
  BY DEF StartedHasFlow
<1>1. TypeOK /\ RowsType /\ FlowType
  BY TypeParts DEF WInv, IInv
<1>2. SUFFICES ASSUME flows[j] = <<>>
      PROVE ~(abortReq'[j].pending \/ isRunning(db'[j].status) \/ isRunning(mem'[j].status))
  BY <1>1, KeepsFlow
<1>3. ~abortReq[j].pending /\ ~isRunning(db[j].status) /\ ~isRunning(mem[j].status)
  BY <1>2 DEF WInv, StartedHasFlow
<1>4. ~abortReq'[j].pending
  <2>1. CASE abortReq' = abortReq
    BY <1>3, <2>1
  <2>2. ASSUME NEW k \in Job, Abort(k) PROVE ~abortReq'[j].pending
    <3>1. k = j => ~RequestAbort(k)
      BY <1>3 DEF RequestAbort
    <3>2. CASE RequestAbort(k)
      BY <1>3, <3>1, <3>2 DEF RequestAbort
    <3>3. CASE AbortQueuedJob(k) \/ AbortExecutingJob(k)
      BY <1>1, <1>3, <3>3 DEF AbortQueuedJob, AbortExecutingJob, NoAbort, FlowType
    <3> QED BY <2>2, <3>2, <3>3 DEF Abort
  <2>3. CASE Restart
    BY <2>3 DEF Restart, NoAbort
  <2> QED BY <2>1, <2>2, <2>3, AbortWriters
<1>5. ~isRunning(db'[j].status)
  <2>1. CASE db'[j] = db[j]
    BY <1>3, <2>1
  <2>2. CASE db'[j] = NoRow
    BY <2>2, NoRowColumns DEF isRunning
  <2>3. ~ProbeWrites(j)
    <3>1. Len(<<>>) = 0
      BY EmptySeq
    <3> QED BY <1>2, <3>1 DEF ProbeWrites
  <2>4. CASE ProgramWrites(j)
    <3>1. CASE db'[j] = mem[j]
      BY <1>3, <3>1
    <3>2. ASSUME NEW st \in {"SUBMITTED", mem[j].status},
                 db'[j] = [mem[j] EXCEPT !.status = st]
          PROVE  ~isRunning(db'[j].status)
      <4>1. mem[j] \in JobObject
        BY <1>1 DEF RowsType
      <4>2. db'[j].status = st
        BY <3>2, <4>1 DEF JobObject
      <4> QED BY <1>3, <4>2 DEF isRunning
    <3> QED BY <2>4, <3>1, <3>2 DEF ProgramWrites
  <2> QED BY <1>1, <2>1, <2>2, <2>3, <2>4, RowWriters
<1>6. ~isRunning(mem'[j].status)
  <2> USE <1>1, <1>3 DEF RowsType, isRunning
  <2>1. CASE mem' = mem
    BY <2>1
  <2>2. ASSUME NEW k \in Job, ScheduleJob(k) \/ MarkScheduled(k) PROVE ~isRunning(mem'[j].status)
    <3>1. mem' = [mem EXCEPT ![k] = NewJob] \/ mem' = [mem EXCEPT ![k].status = "SCHEDULED"]
      BY <2>2, Zenon DEF ScheduleJob, MarkScheduled
    <3>2. mem[k] \in JobObject
      OBVIOUS
    <3> QED BY <3>1, <3>2 DEF NewJob, JobObject
  <2>3. CASE PickJob
    BY <2>3 DEF PickJob, JobObject
  <2>4. CASE ExecutionFails
    BY <2>4 DEF ExecutionFails, JobObject
  <2>5. CASE RefreshJob
    <3>1. j # sched.job
      BY <1>2, <2>5 DEF RefreshJob, WInv, PassIsSound, Accepted
    <3> QED BY <2>5, <3>1 DEF RefreshJob
  <2>6. CASE Restart
    BY <2>6 DEF Restart
  <2> QED BY <2>1, <2>2, <2>3, <2>4, <2>5, <2>6, MemWriters
<1> QED BY <1>4, <1>5, <1>6

LEMMA PassIsSoundNext == ASSUME WInv, [Next]_vars PROVE PassIsSound'
<1>1. TypeOK /\ RowsType /\ QueueType /\ HeadIsCurrent
  BY TypeParts DEF WInv, IInv
<1>2. sched'.pc \in Contacting => request'[sched'.job] \in {"committed", "rolledBack"}
  <2> SUFFICES ASSUME sched'.pc \in Contacting
               PROVE  request'[sched'.job] \in {"committed", "rolledBack"}
    OBVIOUS
  <2>1. /\ sched'.job = sched.job /\ sched.job \in Job
        /\ sched.pc \in Contacting \/ CommitSubmitted
    BY <1>1, PassMoves
  <2>2. request[sched.job] \in {"committed", "rolledBack"}
    BY <2>1 DEF WInv, PassIsSound, CommitSubmitted
  <2> QED BY <1>1, <2>1, <2>2, RequestMoves
<1>3. sched'.pc \in Accepted => flows'[sched'.job] # <<>>
  <2> SUFFICES ASSUME sched'.pc \in Accepted PROVE flows'[sched'.job] # <<>>
    OBVIOUS
  <2>1. /\ sched'.job = sched.job /\ sched.job \in Job
        /\ sched.pc \in Accepted \/ LaunchFlow
    BY <1>1, PassMoves DEF Accepted, Contacting
  <2>2. CASE sched.pc \in Accepted
    BY <1>1, <2>1, <2>2, KeepsFlow DEF WInv, PassIsSound
  <2>3. CASE LaunchFlow
    <3>1. flows[sched.job] \in Seq(Flow)
      BY <1>1, <2>1, TypeParts DEF FlowType
    <3>2. [at |-> sched.server, phase |-> "launched"] \in Flow
      BY <1>1, <2>3, WorkingFields DEF Flow, QueueType, LaunchFlow
    <3>3. flows'[sched.job] = Append(flows[sched.job], [at |-> sched.server, phase |-> "launched"])
      BY <1>1, <2>1, <2>3, TypeParts DEF LaunchFlow, FlowType
    <3> QED BY <2>1, <3>1, <3>2, <3>3, AppendProperties
  <2> QED BY <2>1, <2>2, <2>3
<1>4. ASSUME sched'.pc = "retry"
      PROVE  \/ mem'[sched'.job].status = "FAILED"
             \/ mem'[sched'.job].status = "SCHEDULED" /\ sched'.job \in Queued'
  <2>1. sched'.job = sched.job /\ sched.job \in Job /\ (ExecutionFails \/ sched' = sched)
    BY <1>1, <1>4, PassMoves DEF Contacting
  <2>2. CASE ExecutionFails
    <3> DEFINE last == mem[sched.job].tries = MaxTries
    <3>1. queue # <<>> /\ Head(queue) = sched.job
      BY <1>1, <2>2 DEF ExecutionFails, HeadIsCurrent
    <3>2. sched.job \in Queued
      BY <1>1, <3>1, EmptySeq DEF Queued, QueueType
    <3>3. mem'[sched.job].status = (IF last THEN "FAILED" ELSE "SCHEDULED")
      BY <1>1, <2>1, <2>2 DEF ExecutionFails, RowsType, JobObject
    <3>4. ~last => queue' = queue
      BY <2>2 DEF ExecutionFails
    <3> QED BY <2>1, <3>2, <3>3, <3>4 DEF Queued
  <2>3. CASE sched' = sched
    <3>1. sched.pc = "retry"
      BY <1>4, <2>3
    <3>2. queue' = queue
      BY <3>1, <2>3, QueueWriters, WorkingFields
      DEF ScheduleJob, AbortQueuedJob, ExecutionFails, CommitResponse, Restart
    <3>3. mem'[sched.job] = mem[sched.job]
      <4>1. ASSUME NEW k \in Job, MarkScheduled(k) PROVE k # sched.job
        BY <3>1, <4>1 DEF MarkScheduled, WInv, PassIsSound, Contacting
      <4>2. ~PickJob /\ ~ExecutionFails /\ ~RefreshJob /\ ~Restart
        BY <3>1, <2>3, WorkingFields DEF PickJob, ExecutionFails, RefreshJob, Restart
      <4>3. \A k \in Job : ~ScheduleJob(k)
        BY <3>1 DEF ScheduleJob
      <4>4. mem' = mem \/ \E k \in Job : MarkScheduled(k)
        BY <4>2, <4>3, MemWriters
      <4> QED BY <1>1, <2>1, <4>1, <4>4 DEF MarkScheduled, RowsType
    <3> QED BY <2>1, <3>1, <3>2, <3>3 DEF WInv, PassIsSound, Queued
  <2> QED BY <2>1, <2>2, <2>3
<1> QED BY <1>2, <1>3, <1>4 DEF PassIsSound

LEMMA WInvInit == Init => WInv
<1> SUFFICES ASSUME Init PROVE WInv
  OBVIOUS
<1>1. NeverStarted /\ WaitsInQueue
  BY DEF Init, NeverStarted, WaitsInQueue, Waiting
<1>2. StartedHasFlow
  BY NoRowColumns DEF Init, StartedHasFlow, NoAbort, isRunning, NewJob
<1>3. PassIsSound
  BY WorkingFields DEF Init, PassIsSound, Contacting, Accepted
<1> QED BY <1>1, <1>2, <1>3, IInvInit DEF WInv

LEMMA WInvNext == WInv /\ [Next]_vars => WInv'
<1> SUFFICES ASSUME WInv, [Next]_vars PROVE WInv'
  OBVIOUS
<1>1. IInv'
  BY IInvNext DEF WInv
<1> QED BY <1>1, NeverStartedNext, WaitsInQueueNext, StartedHasFlowNext, PassIsSoundNext
        DEF WInv

-----------------------------------------------------------------------------
(* The tries of a job whose request is not committed yet.                   *)
LEMMA FirstTryNext == ASSUME WInv, FirstTry, [Next]_vars PROVE FirstTry'
<1>1. TypeOK /\ RowsType /\ QueueType /\ PassIsSound
  BY TypeParts DEF WInv, IInv
<1>2. sched.pc # "idle" => sched \in Working
  BY <1>1, WorkingFields DEF QueueType
<1>3. sched'.pc = "submit" => PickJob \/ (sched' = sched /\ ~PickJob)
  <2>1. CASE sched' = sched
    BY <2>1
  <2>2. CASE Restart
    BY <2>2, WorkingFields DEF Restart
  <2>3. CASE Scheduler
    BY <1>2, <2>3, WorkingFields
    DEF Scheduler, EndPass, CommitSubmitted, LaunchFlow, RecordExecution, ExecutionFails,
        ExecutionThrows, CommitRetry, RefreshJob, CommitResponse, Working
  <2> QED BY <2>1, <2>2, <2>3, SchedWriters
<1>4. ASSUME PickJob PROVE /\ Head(queue) \in Job
                           /\ sched'.pc = "submit" /\ sched'.job = Head(queue)
                           /\ sched.pc \in {"idle", "loop"}
                           /\ \A j \in Job : j # Head(queue) => mem'[j] = mem[j]
                           /\ mem'[Head(queue)].status = "SUBMITTED"
                           /\ mem'[Head(queue)].tries = mem[Head(queue)].tries + 1
  <2>1. Head(queue) \in Job
    BY <1>1, <1>4, HeadTailProperties DEF PickJob, CanPick, QueueType
  <2>2. mem[Head(queue)] \in JobObject
    BY <1>1, <2>1 DEF RowsType
  <2>3. mem' = [mem EXCEPT ![Head(queue)].tries = @ + 1, ![Head(queue)].status = "SUBMITTED"]
    BY <1>4 DEF PickJob
  <2>4. mem'[Head(queue)] = [mem[Head(queue)] EXCEPT !.tries = @ + 1, !.status = "SUBMITTED"]
    BY <1>1, <2>1, <2>3 DEF RowsType
  <2>5. sched'.pc = "submit" /\ sched'.job = Head(queue) /\ sched.pc \in {"idle", "loop"}
    BY <1>4 DEF PickJob
  <2>6. \A j \in Job : j # Head(queue) => mem'[j] = mem[j]
    BY <1>1, <2>3 DEF RowsType
  <2> QED BY <2>1, <2>2, <2>4, <2>5, <2>6 DEF JobObject
<1>5. ASSUME NEW k \in Job, MarkScheduled(k), NEW j \in Job
      PROVE  mem'[j].tries = mem[j].tries /\ (j # k => mem'[j] = mem[j]) /\ Waiting(k)
             /\ sched' = sched
  <2>1. mem' = [mem EXCEPT ![k].status = "SCHEDULED"] /\ Waiting(k) /\ sched' = sched
    BY <1>5 DEF MarkScheduled, Waiting
  <2> QED BY <1>1, <2>1 DEF RowsType, JobObject
<1>6. ASSUME NEW j \in Job, Waiting(j)'
      PROVE  mem'[j].tries = IF sched'.pc = "submit" /\ sched'.job = j THEN 1 ELSE 0
  <2>1. CASE ScheduleJob(j)
    <3>1. mem'[j] = NewJob /\ sched' = sched /\ sched.pc = "idle"
      BY <1>1, <2>1 DEF ScheduleJob, RowsType
    <3> QED BY <3>1 DEF NewJob
  <2>2. CASE Waiting(j) /\ ~ScheduleJob(j)
    <3>1. mem[j].tries = IF sched.pc = "submit" /\ sched.job = j THEN 1 ELSE 0
      BY <2>2 DEF FirstTry
    <3>2. sched.pc \in Contacting => sched.job # j
      BY <2>2 DEF WInv, PassIsSound, Waiting
    <3>3. ~(sched.pc = "submit" /\ sched.job = j /\ CommitSubmitted)
      BY <2>2 DEF CommitSubmitted, Waiting
    <3>4. CASE PickJob
      BY <1>4, <3>1, <3>4
    <3>5. CASE ~PickJob
      <4>1. sched'.pc = "submit" /\ sched'.job = j => sched.pc = "submit" /\ sched.job = j
        BY <1>3, <3>5
      <4>2. sched.pc = "submit" /\ sched.job = j => sched' = sched
        <5>1. ASSUME sched.pc = "submit", sched.job = j, Scheduler PROVE FALSE
          BY <3>3, <3>5, <5>1
          DEF Scheduler, EndPass, LaunchFlow, RecordExecution, ExecutionFails,
              ExecutionThrows, CommitRetry, RefreshJob, CommitResponse
        <5> QED BY <1>1, <1>6, <5>1, SchedWriters, RequestMoves
      <4>3. mem'[j].tries = mem[j].tries
        <5>1. ASSUME NEW k \in Job, ScheduleJob(k) PROVE mem'[j] = mem[j]
          BY <1>1, <2>2, <5>1 DEF ScheduleJob, RowsType
        <5>2. CASE ExecutionFails \/ RefreshJob
          <6>1. sched.job # j
            BY <3>2, <5>2 DEF ExecutionFails, RefreshJob, Contacting
          <6> QED BY <1>1, <5>2, <6>1 DEF ExecutionFails, RefreshJob, RowsType
        <5> QED BY <1>1, <1>5, <1>6, <3>5, <5>1, <5>2, MemWriters, RequestMoves
      <4> QED BY <3>1, <4>1, <4>2, <4>3
    <3> QED BY <3>4, <3>5
  <2> QED BY <1>1, <1>6, <2>1, <2>2, RequestMoves
<1>7. ASSUME sched'.pc = "submit", mem'[sched'.job].status # "SUBMITTED"
      PROVE  mem'[sched'.job].tries = 1
  <2>1. sched' = sched /\ ~PickJob /\ sched.pc = "submit" /\ sched.job \in Job
    BY <1>2, <1>3, <1>4, <1>7, WorkingFields
  <2>2. CASE mem'[sched.job] = mem[sched.job]
    BY <1>7, <2>1, <2>2 DEF FirstTry
  <2>3. ASSUME NEW k \in Job, MarkScheduled(k) PROVE mem'[sched.job].tries = 1
    <3>1. CASE k = sched.job
      BY <1>5, <2>1, <2>3, <3>1 DEF FirstTry
    <3>2. CASE k # sched.job
      BY <1>5, <2>1, <2>2, <2>3, <3>2
    <3> QED BY <3>1, <3>2
  <2>4. ~ExecutionFails /\ ~RefreshJob /\ ~Restart /\ \A k \in Job : ~ScheduleJob(k)
    BY <2>1, WorkingFields DEF ExecutionFails, RefreshJob, Restart, ScheduleJob
  <2> QED BY <2>1, <2>2, <2>3, <2>4, MemWriters
<1>8. ASSUME sched'.pc = "launch", db'[sched'.job].status = "SCHEDULED"
      PROVE  mem'[sched'.job].tries = 1
  <2>1. /\ sched'.job = sched.job /\ sched.job \in Job
        /\ sched.pc \in Contacting \/ CommitSubmitted
    BY <1>1, <1>8, PassMoves DEF Contacting
  <2>2. CASE CommitSubmitted
    <3>1. mem' = mem /\ sched.pc = "submit"
      BY <2>2 DEF CommitSubmitted, serviceVars
    <3>2. \/ db' = db /\ sched' = SchedIdle
          \/ \E st \in {"SUBMITTED", mem[sched.job].status} :
               db' = [db EXCEPT ![sched.job] = [mem[sched.job] EXCEPT !.status = st]]
      BY <2>2 DEF CommitSubmitted
    <3>3. mem[sched.job].status # "SUBMITTED"
      BY <1>1, <1>8, <2>1, <3>2, WorkingFields DEF RowsType, JobObject
    <3> QED BY <2>1, <3>1, <3>3 DEF FirstTry
  <2>3. CASE sched.pc \in Contacting
    <3>1. request[sched.job] \in {"committed", "rolledBack"}
      BY <2>3 DEF WInv, PassIsSound
    <3>2. sched' = sched /\ sched.pc = "launch"
      <4>1. CASE Scheduler
        BY <1>2, <1>8, <2>3, <4>1, WorkingFields
        DEF Scheduler, PickJob, EndPass, CommitSubmitted, LaunchFlow, RecordExecution,
            ExecutionFails, ExecutionThrows, CommitRetry, RefreshJob, CommitResponse,
            Working, Contacting
      <4>2. CASE Restart
        BY <1>8, <4>2, WorkingFields DEF Restart
      <4> QED BY <1>8, <4>1, <4>2, SchedWriters
    <3>3. db[sched.job].status = "SCHEDULED"
      <4>1. ~ProgramWrites(sched.job)
        BY <3>1, <3>2 DEF ProgramWrites, CommitRequest, CommitSubmitted, CommitRetry,
                          CommitResponse
      <4>2. ~(present(sched.job) /\ ProbeWrites(sched.job))
        <5>1. present(sched.job) => db[sched.job] \in JobObject
          BY <1>1, <2>1, NoRowColumns DEF present, RowsType
        <5> QED BY <1>8, <2>1, <5>1 DEF ProbeWrites, JobObject
      <4> QED BY <1>1, <1>8, <2>1, <4>1, <4>2, RowWriters, NoRowColumns
    <3>4. mem'[sched.job] = mem[sched.job]
      <4>1. ~PickJob /\ ~ExecutionFails /\ ~RefreshJob /\ ~Restart
        <5>1. Restart => sched'.pc = "idle"
          BY WorkingFields DEF Restart
        <5>2. ~PickJob /\ ~RefreshJob
          BY <3>2 DEF PickJob, RefreshJob
        <5>3. ExecutionFails => sched' # sched
          BY <1>2, <3>2, WorkingFields DEF ExecutionFails, Working
        <5> QED BY <1>8, <3>2, <5>1, <5>2, <5>3
      <4>2. ASSUME NEW k \in Job, MarkScheduled(k) PROVE k # sched.job
        BY <3>1, <4>2 DEF MarkScheduled
      <4>3. \A k \in Job : ~ScheduleJob(k)
        BY <3>2 DEF ScheduleJob
      <4> QED BY <1>5, <2>1, <4>1, <4>2, <4>3, MemWriters
    <3> QED BY <2>1, <3>2, <3>3, <3>4 DEF FirstTry
  <2> QED BY <2>1, <2>2, <2>3
<1> QED BY <1>6, <1>7, <1>8 DEF FirstTry

-----------------------------------------------------------------------------
(* What the program writes to the row of a job without an execution.        *)
LEMMA WrittenIsQueued ==
  ASSUME WInv, [Next]_vars, NEW j \in Job, flows[j] = <<>>, ProgramWrites(j),
         ~isDone(db'[j].status), ~Restart
  PROVE  j \in Queued'
<1>1. TypeOK /\ queue \in Seq(Job) /\ HeadIsCurrent
  BY TypeParts DEF WInv, IInv, QueueType
<1>2. CASE CommitRequest(j)
  BY <1>2 DEF CommitRequest, serviceVars, Queued, WInv, WaitsInQueue, Waiting
<1>3. CASE CommitSubmitted /\ sched.job = j
  <2>1. queue' = queue /\ queue # <<>> /\ Head(queue) = j
    BY <1>1, <1>3 DEF CommitSubmitted, serviceVars, HeadIsCurrent
  <2> QED BY <1>1, <2>1, EmptySeq DEF Queued
<1>4. CASE CommitRetry /\ sched.job = j /\ db'[j] = mem[j]
  <2>1. queue' = queue /\ sched.pc = "retry"
    BY <1>4 DEF CommitRetry, serviceVars
  <2>2. mem[j].status # "FAILED"
    BY <1>4 DEF isDone
  <2> QED BY <1>4, <2>1, <2>2 DEF Queued, WInv, PassIsSound
<1>5. CASE CommitResponse /\ sched.job = j
  BY <1>5 DEF CommitResponse, WInv, PassIsSound, Accepted
<1> QED BY <1>2, <1>3, <1>4, <1>5 DEF ProgramWrites

LEMMA NoProbeWithoutFlow ==
  ASSUME NEW j \in Job, flows[j] = <<>>
  PROVE  ~ProbeWrites(j)
<1>1. Len(<<>>) = 0
  BY EmptySeq
<1> QED BY <1>1 DEF ProbeWrites

LEMMA ScheduledNext ==
  ASSUME WInv, FirstTry, ScheduledIsKept, [Next]_vars, MaxTries > 1
  PROVE  ScheduledIsKept'
<1> SUFFICES ASSUME NEW j \in Job, db'[j].status = "SCHEDULED", flows'[j] = <<>>
             PROVE  j \in Queued'
  BY DEF ScheduledIsKept
<1>1. TypeOK
  BY DEF WInv, IInv
<1>2. flows[j] = <<>>
  BY <1>1, KeepsFlow
<1>3. CASE Restart
  <2> DEFINE reload == {k \in Job : db[k].status = "SCHEDULED"}
  <2>1. db' = db /\ \E q \in [1..Cardinality(reload) -> reload] :
          (\A i, k \in DOMAIN q : i < k => q[i] < q[k]) /\ queue' = q
    BY <1>3 DEF Restart
  <2>2. PICK q \in [1..Cardinality(reload) -> reload] :
          (\A i, k \in DOMAIN q : i < k => q[i] < q[k]) /\ queue' = q
    BY <2>1
  <2>3. j \in reload /\ reload \subseteq Job
    BY <2>1
  <2> HIDE DEF reload
  <2>4. j \in Members(queue')
    BY <2>2, <2>3, ReloadedMembers
  <2> QED BY <2>4, QueuedAreMembers
<1>4. CASE ~Restart /\ db'[j] = db[j]
  <2>1. j \in Queued
    BY <1>2, <1>4 DEF ScheduledIsKept
  <2>2. ~LastTryFails(j)
    BY <1>4 DEF LastTryFails, FirstTry
  <2> QED BY <1>2, <1>4, <2>1, <2>2, StaysQueued
<1>5. CASE ~Restart /\ ProgramWrites(j)
  BY <1>2, <1>5, WrittenIsQueued DEF isDone
<1> QED BY <1>1, <1>2, <1>3, <1>4, <1>5, RowWriters, NoRowColumns, NoProbeWithoutFlow

LEMMA ForgottenNext ==
  ASSUME WInv, NoJobForgotten, [Next]_vars, "restart" \notin FaultKinds,
         "retryTx" \notin FaultKinds
  PROVE  NoJobForgotten'
<1> SUFFICES ASSUME NEW j \in Job, db'[j].status # "ABSENT", ~isDone(db'[j].status),
                    flows'[j] = <<>>
             PROVE  j \in Queued' \/ (sched'.pc = "retry" /\ sched'.job = j)
  BY DEF NoJobForgotten, present
<1>1. TypeOK
  BY DEF WInv, IInv
<1>2. flows[j] = <<>>
  BY <1>1, KeepsFlow
<1>3. ~Restart
  BY DEF Restart, Fault
<1>4. CASE db'[j] = db[j] /\ ~ProgramWrites(j)
  <2>1. j \in Queued \/ (sched.pc = "retry" /\ sched.job = j)
    BY <1>2, <1>4 DEF NoJobForgotten, present
  <2>2. CASE j \in Queued
    <3>1. CASE LastTryFails(j)
      <4>1. sched \in Working
        BY <1>1, <3>1, TypeParts, WorkingFields DEF LastTryFails, QueueType
      <4> QED BY <3>1, <4>1 DEF LastTryFails, ExecutionFails, Working
    <3> QED BY <1>2, <1>3, <2>2, <3>1, StaysQueued
  <2>3. CASE sched.pc = "retry" /\ sched.job = j
    <3>1. ~CommitRetry
      <4>1. present(j)
        BY <1>4 DEF present
      <4>2. ASSUME CommitRetry PROVE db' = [db EXCEPT ![j] = mem[j]]
        BY <2>3, <4>1, <4>2 DEF CommitRetry, Fault
      <4>3. ASSUME CommitRetry PROVE db'[j] = mem[j]
        BY <1>1, <4>2, <4>3, TypeParts DEF RowsType
      <4> QED BY <1>4, <2>3, <4>1, <4>3 DEF ProgramWrites
    <3>2. ~Scheduler
      BY <2>3, <3>1
      DEF Scheduler, PickJob, EndPass, CommitSubmitted, LaunchFlow, RecordExecution,
          ExecutionFails, ExecutionThrows, RefreshJob, CommitResponse
    <3> QED BY <1>3, <2>3, <3>2, SchedWriters
  <2> QED BY <2>1, <2>2, <2>3
<1>5. CASE ProgramWrites(j)
  BY <1>2, <1>3, <1>5, WrittenIsQueued
<1> QED BY <1>1, <1>2, <1>4, <1>5, RowWriters, NoRowColumns, NoProbeWithoutFlow

-----------------------------------------------------------------------------
(* A row that says SCHEDULED is in the queue or was given to a server,      *)
(* whatever fails and whenever the process restarts, if a job is tried more *)
(* than once: with a single try, the race of the first pass with the        *)
(* request thread leaves a job that failed with a row that says SCHEDULED.  *)
THEOREM WaitingJobsAreKept ==
  ASSUME MaxTries > 1
  PROVE  Spec => []ScheduledIsKept
<1>1. Init => WInv /\ FirstTry /\ ScheduledIsKept
  <2> SUFFICES ASSUME Init PROVE FirstTry /\ ScheduledIsKept
    BY WInvInit
  <2>1. FirstTry
    BY WorkingFields DEF Init, FirstTry, Waiting
  <2>2. ScheduledIsKept
    BY NoRowColumns DEF Init, ScheduledIsKept
  <2> QED BY <2>1, <2>2
<1>2. WInv /\ FirstTry /\ ScheduledIsKept /\ [Next]_vars
        => (WInv /\ FirstTry /\ ScheduledIsKept)'
  BY WInvNext, FirstTryNext, ScheduledNext
<1> QED BY <1>1, <1>2, PTL DEF Spec

(* A committed job that has not ended waits in the queue, or reached a      *)
(* server, or is about to be recorded as FAILED, as long as that record is  *)
(* written and the process does not restart, whatever else fails.           *)
THEOREM NoJobIsForgotten ==
  ASSUME "restart" \notin FaultKinds, "retryTx" \notin FaultKinds
  PROVE  Spec => []NoJobForgotten
<1>1. Init => WInv /\ NoJobForgotten
  <2> SUFFICES ASSUME Init PROVE NoJobForgotten
    BY WInvInit
  <2> QED BY NoRowColumns DEF Init, NoJobForgotten, present
<1>2. WInv /\ NoJobForgotten /\ [Next]_vars => (WInv /\ NoJobForgotten)'
  BY WInvNext, ForgottenNext
<1> QED BY <1>1, <1>2, PTL DEF Spec
=============================================================================
