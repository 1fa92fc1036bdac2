------------------------- MODULE Executions_proofs --------------------------
(***************************************************************************)
(* What holds of the executions that the servers accepted for the jobs of  *)
(* JobLifecycle, and what it makes of the jobs, for any jobs and servers.  *)
(*                                                                         *)
(* Whatever fails, an abort reaches an execution of its job on the server  *)
(* that counts it.  Where the program learns of every execution, a job has *)
(* one at most and its row names it; only the second commit of a pass      *)
(* takes back a final status; and JobLifecycle implements JobService.      *)
(***************************************************************************)
EXTENDS WaitingJobs_proofs, JobLifecycleRefinement

(* A host and a port in a row, a Job object or an abort request are those   *)
(* of one execution.                                                        *)
NamesFlow(j, host, port) ==
  /\ host = NoServer => port = 0
  /\ host # NoServer => port \in 1..Len(flows[j]) /\ flows[j][port].at = host

RowsName   == \A j \in Job : NamesFlow(j, db[j].host, db[j].port)
ObjectsName == \A j \in Job : NamesFlow(j, mem[j].host, mem[j].port)
AbortsName == \A j \in Job : NamesFlow(j, abortReq[j].host, abortReq[j].port)

(* Until its columns are set on the object, the execution of the pass is    *)
(* the last of its job.                                                     *)
LastIsMine ==
  sched.pc \in {"respond", "refresh"} =>
    LET fs == flows[sched.job] IN Len(fs) # 0 /\ fs[Len(fs)].at = sched.server

EInv == TypeOK /\ RowsName /\ ObjectsName /\ AbortsName /\ LastIsMine

-----------------------------------------------------------------------------
(* What happens to an execution: its status is written.                     *)
Written(j, n, ph) == flows'[j] = [flows[j] EXCEPT ![n].phase = ph]

LEMMA PhaseWritten ==
  ASSUME NEW fs \in Seq(Flow), NEW n \in 1..Len(fs),
         NEW ph \in {"started", "aborting", "ended"}
  PROVE  /\ [fs EXCEPT ![n].phase = ph][n].phase = ph
         /\ \A k \in 1..Len(fs) : k # n => [fs EXCEPT ![n].phase = ph][k] = fs[k]
<1>1. fs \in [1..Len(fs) -> Flow] /\ Len(fs) \in Nat
  BY LenProperties
<1>2. fs[n] \in Flow
  BY <1>1
<1>3. [fs EXCEPT ![n].phase = ph][n] = [fs[n] EXCEPT !.phase = ph]
  BY <1>1
<1>4. [fs[n] EXCEPT !.phase = ph].phase = ph
  BY <1>2 DEF Flow
<1> QED BY <1>1, <1>3, <1>4

LEMMA FlowWriters ==
  ASSUME TypeOK, AbortsName, [Next]_vars, NEW j \in Job
  PROVE  \/ flows'[j] = flows[j]
         \/ /\ LaunchFlow /\ sched.job = j
            /\ flows'[j] = Append(flows[j], [at |-> sched.server, phase |-> "launched"])
         \/ \E n \in 1..Len(flows[j]) :
              \/ ProbeFlowStart(j, n) /\ Written(j, n, "started")
              \/ Written(j, n, "ended") /\ flows[j][n].phase \in {"started", "aborting"}
              \/ /\ Written(j, n, "aborting") /\ flows[j][n].phase # "ended"
                 /\ AbortExecutingJob(j) /\ n = abortReq[j].port
<1> USE TypeParts DEF FlowType
<1>1. ASSUME NEW k \in Job, AbortExecutingJob(k)
      PROVE  \/ flows'[j] = flows[j]
             \/ /\ abortReq[j].port \in 1..Len(flows[j])
                /\ flows[j][abortReq[j].port].phase # "ended"
                /\ Written(j, abortReq[j].port, "aborting") /\ j = k
  <2> DEFINE n == abortReq[k].port
  <2>1. \/ flows' = flows
        \/ /\ abortReq[k].host # NoServer /\ flows[k][n].phase # "ended"
           /\ flows' = [flows EXCEPT ![k][n].phase = "aborting"]
    BY <1>1 DEF AbortExecutingJob
  <2>2. abortReq[k].host # NoServer => n \in 1..Len(flows[k])
    BY DEF AbortsName, NamesFlow
  <2> HIDE DEF n
  <2>3. CASE flows' = flows
    BY <2>3
  <2>4. CASE /\ abortReq[k].host # NoServer /\ flows[k][n].phase # "ended"
             /\ flows' = [flows EXCEPT ![k][n].phase = "aborting"]
    <3>1. CASE j = k
      BY <2>2, <2>4, <3>1 DEF Written, n
    <3>2. CASE j # k
      BY <2>4, <3>2
    <3> QED BY <3>1, <3>2
  <2> QED BY <2>1, <2>3, <2>4
<1>2. CASE LaunchFlow
  BY <1>2 DEF LaunchFlow
<1>3. ASSUME NEW k \in Job, NEW n \in 1..Len(flows[k]), Probe(k, n)
      PROVE  \/ flows'[j] = flows[j]
             \/ /\ j = k
                /\ \/ ProbeFlowStart(j, n) /\ Written(j, n, "started")
                   \/ Written(j, n, "ended") /\ flows[j][n].phase \in {"started", "aborting"}
  <2>1. CASE ProbeFlowStart(k, n)
    BY <2>1 DEF ProbeFlowStart, Written
  <2>2. CASE ProbeFlowFinish(k, n) \/ ProbeFlowAbort(k, n)
    BY <2>2 DEF ProbeFlowFinish, ProbeFlowAbort, endFlow, Written
  <2> QED BY <1>3, <2>1, <2>2 DEF Probe
<1>4. CASE flows' = flows
  BY <1>4
<1> QED BY <1>1, <1>2, <1>3, <1>4
        DEF Next, Request, Abort, Scheduler, Monitor, vars, ScheduleJob, MarkScheduled,
            MonitorRequest, CommitRequest, DeleteJob, RequestAbort, AbortQueuedJob,
            PickJob, EndPass, CommitSubmitted, RecordExecution, ExecutionFails,
            ExecutionThrows, CommitRetry, RefreshJob, CommitResponse, BeginPoll, PollJob,
            EndPoll, Restart

(* Only LaunchFlow adds an execution.                                       *)
LEMMA LenKept ==
  ASSUME TypeOK, AbortsName, [Next]_vars, NEW j \in Job, ~(LaunchFlow /\ sched.job = j)
  PROVE  Len(flows'[j]) = Len(flows[j])
<1>1. flows[j] \in Seq(Flow)
  BY TypeParts DEF FlowType
<1>2. ASSUME NEW n \in 1..Len(flows[j]), NEW ph \in {"started", "aborting", "ended"},
             Written(j, n, ph)
      PROVE  Len(flows'[j]) = Len(flows[j])
  BY <1>1, <1>2, PhaseUpdate DEF Written
<1> QED BY <1>2, FlowWriters

(* An execution stays where it is, never becomes new again, and an abort    *)
(* that reached it did.                                                     *)
LEMMA PhaseMoves ==
  ASSUME TypeOK, AbortsName, [Next]_vars, NEW j \in Job, NEW n \in 1..Len(flows[j])
  PROVE  /\ n \in 1..Len(flows'[j]) /\ flows'[j][n].at = flows[j][n].at
         /\ flows[j][n].phase # "launched" => flows'[j][n].phase # "launched"
         /\ flows[j][n].phase \in {"aborting", "ended"}
              => flows'[j][n].phase \in {"aborting", "ended"}
<1>1. flows[j] \in Seq(Flow)
  BY TypeParts DEF FlowType
<1>2. n \in 1..Len(flows'[j]) /\ flows'[j][n].at = flows[j][n].at
  BY FlowsKeptNext DEF FlowsKept
<1>3. CASE flows'[j] = flows[j]
  BY <1>2, <1>3
<1>4. CASE LaunchFlow /\ flows'[j] = Append(flows[j], [at |-> sched.server, phase |-> "launched"])
  <2>1. flows'[j][n] = flows[j][n]
    BY <1>1, <1>4, AppendProperties
  <2> QED BY <1>2, <2>1
<1>5. ASSUME NEW k \in 1..Len(flows[j]), NEW ph \in {"started", "aborting", "ended"},
             Written(j, k, ph), ph = "started" => flows[j][k].phase = "launched"
      PROVE  /\ flows'[j][n].phase = flows[j][n].phase
                \/ (flows'[j][n].phase = ph /\ n = k)
  BY <1>1, <1>5, PhaseWritten DEF Written
<1>6. ASSUME NEW k \in 1..Len(flows[j]), ProbeFlowStart(j, k) PROVE flows[j][k].phase = "launched"
  BY <1>6 DEF ProbeFlowStart
<1>7. ASSUME NEW k \in 1..Len(flows[j]),
             \/ ProbeFlowStart(j, k) /\ Written(j, k, "started")
             \/ Written(j, k, "ended")
             \/ Written(j, k, "aborting")
      PROVE  /\ flows[j][n].phase # "launched" => flows'[j][n].phase # "launched"
             /\ flows[j][n].phase \in {"aborting", "ended"}
                  => flows'[j][n].phase \in {"aborting", "ended"}
  BY <1>5, <1>6, <1>7
<1> QED BY <1>2, <1>3, <1>4, <1>7, FlowWriters

(* The same of the executions after a step.                                 *)
NamesNext(j, host, port) ==
  /\ host = NoServer => port = 0
  /\ host # NoServer => port \in 1..Len(flows'[j]) /\ flows'[j][port].at = host

LEMMA NamesKept ==
  ASSUME TypeOK, AbortsName, [Next]_vars, NEW j \in Job, NEW host, NEW port,
         NamesFlow(j, host, port)
  PROVE  NamesNext(j, host, port)
BY PhaseMoves DEF NamesFlow, NamesNext

-----------------------------------------------------------------------------
LEMMA ObjectsNameNext == ASSUME EInv, [Next]_vars PROVE ObjectsName'
<1> SUFFICES ASSUME NEW j \in Job PROVE NamesNext(j, mem'[j].host, mem'[j].port)
  BY DEF ObjectsName, NamesFlow, NamesNext
<1>1. TypeOK /\ AbortsName /\ RowsType /\ FlowType /\ mem[j] \in JobObject
  BY TypeParts DEF EInv, RowsType
<1>2. NamesNext(j, mem[j].host, mem[j].port) /\ NamesNext(j, db[j].host, db[j].port)
  BY <1>1, NamesKept DEF EInv, ObjectsName, RowsName
<1>3. CASE mem'[j].host = mem[j].host /\ mem'[j].port = mem[j].port
  BY <1>2, <1>3
<1>4. CASE mem'[j] = NewJob
  BY <1>4 DEF NamesNext, NewJob
<1>5. ASSUME NEW k \in Job, MarkScheduled(k)
      PROVE  mem'[j].host = mem[j].host /\ mem'[j].port = mem[j].port
  BY <1>1, <1>5 DEF MarkScheduled, RowsType, JobObject
<1>6. ASSUME NEW k \in Job, ScheduleJob(k) PROVE mem'[j] = NewJob \/ mem'[j] = mem[j]
  BY <1>1, <1>6 DEF ScheduleJob, RowsType
<1>7. ASSUME PickJob \/ ExecutionFails
      PROVE  mem'[j].host = mem[j].host /\ mem'[j].port = mem[j].port
  <2>1. CASE ExecutionFails
    BY <1>1, <2>1 DEF ExecutionFails, RowsType, JobObject
  <2>2. CASE PickJob
    <3>1. mem' = [mem EXCEPT ![Head(queue)].tries = @ + 1, ![Head(queue)].status = "SUBMITTED"]
      BY <2>2 DEF PickJob
    <3>2. mem'[j] = mem[j]
          \/ mem'[j] = [mem[j] EXCEPT !.tries = @ + 1, !.status = "SUBMITTED"]
      BY <1>1, <3>1 DEF RowsType
    <3> QED BY <1>1, <3>2 DEF JobObject
  <2> QED BY <1>7, <2>1, <2>2
<1>8. CASE RefreshJob
  <2>1. sched \in Working /\ sched.pc = "refresh"
    BY <1>1, <1>8, TypeParts, WorkingFields DEF RefreshJob, QueueType
  <2>2. sched.server \in Server /\ sched.job \in Job /\ flows' = flows
    BY <1>8, <2>1, WorkingFields DEF RefreshJob
  <2>3. CASE mem' = mem
    BY <1>3, <2>3
  <2>4. CASE /\ present(sched.job)
             /\ mem' = [mem EXCEPT ![sched.job] =
                          [db[sched.job] EXCEPT !.host = sched.server,
                                                !.port = Len(flows[sched.job]),
                                                !.exec = Len(flows[sched.job])]]
    <3>1. CASE j # sched.job
      BY <1>1, <1>3, <2>4, <3>1 DEF RowsType
    <3>2. CASE j = sched.job
      <4>1. db[j] \in JobObject
        BY <1>1, <2>4, <3>2, NoRowColumns DEF present, RowsType
      <4>2. mem'[j] = [db[j] EXCEPT !.host = sched.server, !.port = Len(flows[j]),
                                    !.exec = Len(flows[j])]
        BY <1>1, <2>4, <3>2 DEF RowsType
      <4>3. mem'[j].host = sched.server /\ mem'[j].port = Len(flows[j])
        BY <4>1, <4>2 DEF JobObject
      <4>4. Len(flows[j]) # 0 /\ flows[j][Len(flows[j])].at = sched.server
        BY <2>1, <3>2 DEF EInv, LastIsMine
      <4>5. Len(flows[j]) \in 1..Len(flows[j]) /\ NoServer # sched.server
        BY <1>1, <2>2, <4>4, LenProperties, ServersAssumption DEF FlowType
      <4> QED BY <2>2, <4>3, <4>4, <4>5 DEF NamesNext
    <3> QED BY <3>1, <3>2
  <2> QED BY <1>8, <2>3, <2>4 DEF RefreshJob
<1>9. ASSUME Restart PROVE mem'[j] = db[j] \/ mem'[j] = mem[j]
  BY <1>9 DEF Restart
<1> QED BY <1>2, <1>3, <1>4, <1>5, <1>6, <1>7, <1>8, <1>9, MemWriters

LEMMA RowsNameNext == ASSUME EInv, [Next]_vars PROVE RowsName'
<1> SUFFICES ASSUME NEW j \in Job PROVE NamesNext(j, db'[j].host, db'[j].port)
  BY DEF RowsName, NamesFlow, NamesNext
<1>1. TypeOK /\ AbortsName /\ RowsType /\ mem[j] \in JobObject
  BY TypeParts DEF EInv, RowsType
<1>2. NamesNext(j, mem[j].host, mem[j].port) /\ NamesNext(j, db[j].host, db[j].port)
  BY <1>1, NamesKept DEF EInv, ObjectsName, RowsName
<1>3. CASE db'[j] = db[j]
  BY <1>2, <1>3
<1>4. CASE db'[j] = NoRow
  BY <1>4, NoRowColumns DEF NamesNext
<1>5. CASE present(j) /\ ProbeWrites(j)
  <2>1. db[j] \in JobObject
    BY <1>1, <1>5, NoRowColumns DEF present, RowsType
  <2>2. db'[j].host = db[j].host /\ db'[j].port = db[j].port
    BY <1>5, <2>1 DEF ProbeWrites, JobObject
  <2> QED BY <1>2, <2>2
<1>6. CASE ProgramWrites(j)
  <2>1. db'[j].host = mem[j].host /\ db'[j].port = mem[j].port
    BY <1>1, <1>6 DEF ProgramWrites, JobObject
  <2> QED BY <1>2, <2>1
<1> QED BY <1>1, <1>3, <1>4, <1>5, <1>6, RowWriters

LEMMA AbortsNameNext == ASSUME EInv, [Next]_vars PROVE AbortsName'
<1> SUFFICES ASSUME NEW j \in Job PROVE NamesNext(j, abortReq'[j].host, abortReq'[j].port)
  BY DEF AbortsName, NamesFlow, NamesNext
<1>1. TypeOK /\ AbortsName /\ FlowType
  BY TypeParts DEF EInv
<1>2. NamesNext(j, abortReq[j].host, abortReq[j].port)
      /\ NamesNext(j, db[j].host, db[j].port)
  BY <1>1, NamesKept DEF EInv, AbortsName, RowsName
<1>3. CASE abortReq'[j] = abortReq[j]
  BY <1>2, <1>3
<1>4. CASE abortReq'[j] = NoAbort
  BY <1>4 DEF NamesNext, NoAbort
<1>5. ASSUME NEW k \in Job, Abort(k)
      PROVE  \/ abortReq'[j] = abortReq[j] \/ abortReq'[j] = NoAbort
             \/ abortReq'[j] = [pending |-> TRUE, host |-> db[j].host, port |-> db[j].port]
  BY <1>1, <1>5 DEF Abort, RequestAbort, AbortQueuedJob, AbortExecutingJob, FlowType
<1>6. Restart => abortReq'[j] = NoAbort
  BY DEF Restart
<1> QED BY <1>2, <1>3, <1>4, <1>5, <1>6, AbortWriters

LEMMA LastIsMineNext == ASSUME EInv, [Next]_vars PROVE LastIsMine'
<1> SUFFICES ASSUME sched'.pc \in {"respond", "refresh"}
    PROVE  /\ Len(flows'[sched'.job]) # 0
           /\ flows'[sched'.job][Len(flows'[sched'.job])].at = sched'.server
  BY DEF LastIsMine
<1>1. TypeOK /\ AbortsName /\ QueueType /\ FlowType
  BY TypeParts DEF EInv
<1>2. sched'.job = sched.job /\ sched.job \in Job
  BY <1>1, PassMoves DEF Contacting
<1>3. flows[sched.job] \in Seq(Flow) /\ Len(flows[sched.job]) \in Nat
  BY <1>1, <1>2, LenProperties DEF FlowType
<1>4. CASE LaunchFlow
  <2>1. sched \in Working
    BY <1>1, <1>4, WorkingFields DEF LaunchFlow, QueueType
  <2>2. sched'.server = sched.server /\ sched.server \in Server
    BY <1>4, <2>1, WorkingFields DEF LaunchFlow, Working
  <2> DEFINE f == [at |-> sched.server, phase |-> "launched"]
  <2>3. flows'[sched.job] = Append(flows[sched.job], f)
    BY <1>1, <1>2, <1>4 DEF LaunchFlow, FlowType
  <2>4. f \in Flow /\ f.at = sched.server
    BY <2>2 DEF Flow
  <2> HIDE DEF f
  <2>5. Len(flows'[sched.job]) = Len(flows[sched.job]) + 1
        /\ flows'[sched.job][Len(flows[sched.job]) + 1] = f
    BY <1>3, <2>3, <2>4, AppendProperties
  <2> QED BY <1>2, <1>3, <2>2, <2>4, <2>5
<1>5. CASE ~LaunchFlow
  <2>1. sched.pc \in {"respond", "refresh"} /\ sched'.server = sched.server
    <3>1. CASE sched' = sched
      BY <3>1
    <3>2. CASE Restart
      BY <3>2, WorkingFields DEF Restart
    <3>3. CASE Scheduler
      <4>1. sched.pc # "idle" => sched \in Working
        BY <1>1, WorkingFields DEF QueueType
      <4> QED BY <1>5, <3>3, <4>1, WorkingFields
          DEF Scheduler, PickJob, EndPass, CommitSubmitted, RecordExecution,
              ExecutionFails, ExecutionThrows, CommitRetry, RefreshJob, CommitResponse,
              Working
    <3> QED BY <3>1, <3>2, <3>3, SchedWriters
  <2>2. Len(flows[sched.job]) # 0
        /\ flows[sched.job][Len(flows[sched.job])].at = sched.server
    BY <2>1 DEF EInv, LastIsMine
  <2>3. Len(flows'[sched.job]) = Len(flows[sched.job])
    BY <1>1, <1>2, <1>5, LenKept
  <2>4. Len(flows[sched.job]) \in 1..Len(flows[sched.job])
    BY <1>3, <2>2
  <2>5. flows'[sched.job][Len(flows[sched.job])].at = flows[sched.job][Len(flows[sched.job])].at
    BY <1>1, <1>2, <2>4, PhaseMoves
  <2> QED BY <1>2, <2>1, <2>2, <2>3, <2>5
<1> QED BY <1>4, <1>5

(* A job is put into aborting by an abort that reached its execution.       *)
LEMMA AbortReachesNext ==
  ASSUME EInv, AbortReachesItsFlow, [Next]_vars PROVE AbortReachesItsFlow'
<1>1. TypeOK /\ AbortsName /\ ProxyType /\ ProxyType' /\ FlowType
  BY TypeParts, ProxyNext DEF EInv
<1> SUFFICES ASSUME NEW s \in Server, NEW j \in Job, j \in aborting'[s]
             PROVE  \E n \in 1..Len(flows'[j]) :
                      flows'[j][n].at = s /\ flows'[j][n].phase \in {"aborting", "ended"}
  BY <1>1 DEF AbortReachesItsFlow, ProxyType
<1>2. CASE j \in aborting[s]
  <2>1. PICK n \in 1..Len(flows[j]) :
          flows[j][n].at = s /\ flows[j][n].phase \in {"aborting", "ended"}
    BY <1>2 DEF AbortReachesItsFlow
  <2> QED BY <1>1, <2>1, PhaseMoves
<1>3. CASE AbortExecutingJob(j) /\ abortReq[j].host = s
  <2> DEFINE n == abortReq[j].port
  <2>1. n \in 1..Len(flows[j]) /\ flows[j][n].at = s
    BY <1>3, ServersAssumption DEF EInv, AbortsName, NamesFlow
  <2>2. n \in 1..Len(flows'[j]) /\ flows'[j][n].at = s
    BY <1>1, <2>1, PhaseMoves
  <2>3. flows[j] \in Seq(Flow)
    BY <1>1 DEF FlowType
  <2>4. CASE flows[j][n].phase = "ended"
    BY <1>1, <2>1, <2>2, <2>4, PhaseMoves
  <2>5. CASE flows[j][n].phase # "ended" /\ j \notin aborting[s]
    <3>1. flows' = [flows EXCEPT ![j][n].phase = "aborting"]
      BY <1>3, <2>5, ServersAssumption DEF AbortExecutingJob
    <3>2. flows'[j] = [flows[j] EXCEPT ![n].phase = "aborting"]
      BY <1>1, <3>1 DEF FlowType
    <3> HIDE DEF n
    <3>3. flows'[j][n].phase = "aborting"
      BY <2>1, <2>3, <3>2, PhaseWritten
    <3> QED BY <2>2, <3>3
  <2> QED BY <1>2, <2>4, <2>5
<1>4. CASE j \notin aborting[s] /\ ~(AbortExecutingJob(j) /\ abortReq[j].host = s)
  <2>1. ASSUME NEW k \in Job, AbortExecutingJob(k) PROVE FALSE
    <3>1. aborting' = aborting \/ aborting' = [aborting EXCEPT ![abortReq[k].host] = @ \cup {k}]
      BY <2>1 DEF AbortExecutingJob
    <3>2. aborting'[s] = aborting[s] \/ (abortReq[k].host = s /\ aborting'[s] = aborting[s] \cup {k})
      BY <1>1, <3>1 DEF ProxyType
    <3> QED BY <1>4, <2>1, <3>2
  <2>2. ASSUME NEW k \in Job, PollJob(k) PROVE FALSE
    BY <1>1, <1>4, <2>2 DEF PollJob, jobStatusUpdate, ProxyType, proxyVars
  <2>3. ~Restart
    BY DEF Restart
  <2>4. aborting' # aborting
    BY <1>4
  <2> QED BY <2>1, <2>2, <2>3, <2>4
          DEF Next, Request, Abort, Scheduler, Monitor, Probe, vars, proxyVars,
              ScheduleJob, MarkScheduled, MonitorRequest, CommitRequest, DeleteJob,
              RequestAbort, AbortQueuedJob, PickJob, EndPass, CommitSubmitted, LaunchFlow,
              RecordExecution, ExecutionFails, ExecutionThrows, CommitRetry, RefreshJob,
              CommitResponse, BeginPoll, EndPoll, ProbeFlowStart, ProbeFlowFinish,
              ProbeFlowAbort, endFlow
<1> QED BY <1>2, <1>3, <1>4

LEMMA EInvInit == Init => EInv
<1> SUFFICES ASSUME Init PROVE EInv
  OBVIOUS
<1>1. RowsName /\ ObjectsName /\ AbortsName
  BY NoRowColumns DEF Init, RowsName, ObjectsName, AbortsName, NamesFlow, NoAbort, NewJob
<1>2. LastIsMine
  BY WorkingFields DEF Init, LastIsMine
<1> QED BY <1>1, <1>2, TypeInit DEF EInv

LEMMA EInvNext == HeadIsCurrent /\ EInv /\ [Next]_vars => EInv'
BY TypeNext, RowsNameNext, ObjectsNameNext, AbortsNameNext, LastIsMineNext DEF EInv

(* A proxy that counts a job as aborting has delivered the abort to an      *)
(* execution of that job on its own server, whatever fails and whenever the *)
(* process restarts: the host and the port an abort is sent to never mix    *)
(* two executions.                                                          *)
THEOREM AbortsReachTheirFlow == Spec => []AbortReachesItsFlow
<1>1. Init => WInv /\ EInv /\ AbortReachesItsFlow
  BY WInvInit, EInvInit DEF Init, AbortReachesItsFlow
<1>2. WInv /\ EInv /\ AbortReachesItsFlow /\ [Next]_vars
        => (WInv /\ EInv /\ AbortReachesItsFlow)'
  BY WInvNext, EInvNext, AbortReachesNext DEF WInv, IInv
<1> QED BY <1>1, <1>2, PTL DEF Spec

-----------------------------------------------------------------------------
(* When no reply is lost, nothing unforeseen is thrown between the launch   *)
(* and the reply, the second commit does not fail and the process does not  *)
(* restart, the program knows of every execution.                           *)
KnowsExecutions ==
  FaultKinds \cap {"lostReply", "unchecked", "responseTx", "restart"} = {}

NoDuplicates ==
  \A i, k \in 1..Len(queue) : i # k => queue[i] # queue[k]
NewIsNotQueued == \A j \in Job : request[j] = "new" => j \notin Queued

(* A job that has its execution leaves the queue at the end of the pass,    *)
(* unless its row is gone: then no pass executes it again.                  *)
Over(j) == ~present(j) /\ request[j] \in {"committed", "rolledBack"}
GivenOnce ==
  /\ \A j \in Queued : flows[j] = <<>> \/ Over(j) \/ (sched.job = j /\ sched.pc \in Accepted)
  /\ sched.pc \in {"launch", "retry"} => flows[sched.job] = <<>>

OInv == NoDuplicates /\ NewIsNotQueued /\ GivenOnce /\ ExecutedOnce

LEMMA OverStays ==
  ASSUME TypeOK, [Next]_vars, NEW j \in Job, Over(j)
  PROVE  Over(j)'
<1>1. db'[j] = db[j] \/ db'[j] = NoRow
  <2>1. ~ProgramWrites(j)
    BY DEF Over, ProgramWrites, CommitRequest
  <2> QED BY <2>1, RowWriters DEF Over
<1> QED BY <1>1, RequestMoves, NoRowColumns DEF Over, present

(* Who may have joined the queue.                                           *)
LEMMA JoinsQueue ==
  ASSUME TypeOK, HeadIsCurrent, [Next]_vars, NEW j \in Job, j \in Queued'
  PROVE  j \in Queued \/ ScheduleJob(j) \/ Restart
<1>1. queue \in Seq(Job) /\ Len(queue) \in Nat
  BY TypeParts, LenProperties DEF QueueType
<1>2. PICK i \in 1..Len(queue') : queue'[i] = j
  BY DEF Queued
<1>3. CASE queue' = queue
  BY <1>3 DEF Queued
<1>4. ASSUME NEW k \in Job, ScheduleJob(k) PROVE j \in Queued \/ k = j
  <2>1. queue' = Append(queue, k)
    BY <1>4 DEF ScheduleJob
  <2>2. Len(queue') = Len(queue) + 1 /\ queue'[Len(queue) + 1] = k
        /\ \A h \in 1..Len(queue) : queue'[h] = queue[h]
    BY <1>1, <2>1, AppendProperties
  <2> QED BY <1>1, <1>2, <2>2 DEF Queued
<1>5. ASSUME NEW k \in Job, AbortQueuedJob(k) PROVE j \in Queued
  <2>1. k \in Members(queue) /\ queue' = removeFirst(queue, k)
    BY <1>5, QueuedAreMembers DEF AbortQueuedJob
  <2>2. PICK h \in 1..Len(queue) :
          queue' = [m \in 1..(Len(queue) - 1) |-> IF m < h THEN queue[m] ELSE queue[m + 1]]
    BY <1>1, <2>1, FirstIndex
  <2>3. Len(queue') = Len(queue) - 1
    BY <1>1, <2>2
  <2>4. j = queue[i] \/ j = queue[i + 1]
    BY <1>1, <1>2, <2>2, <2>3
  <2> QED BY <1>1, <1>2, <2>3, <2>4 DEF Queued
<1>6. CASE ExecutionFails \/ CommitResponse
  <2>1. queue' = queue \/ queue' = Tail(queue)
    BY <1>6 DEF ExecutionFails, CommitResponse
  <2>2. queue # <<>>
    <3>1. CASE CommitResponse
      BY <3>1 DEF CommitResponse, HeadIsCurrent
    <3>2. CASE ExecutionFails
      BY <3>2 DEF ExecutionFails, HeadIsCurrent
    <3> QED BY <1>6, <3>1, <3>2
  <2>3. CASE queue' = Tail(queue)
    <3>1. Len(queue') = Len(queue) - 1
          /\ \A h \in 1..(Len(queue) - 1) : queue'[h] = queue[h + 1]
      BY <1>1, <2>2, <2>3, HeadTailProperties
    <3>2. j = queue[i + 1] /\ i + 1 \in 1..Len(queue)
      BY <1>1, <1>2, <3>1
    <3> QED BY <3>2 DEF Queued
  <2> QED BY <1>3, <2>1, <2>3
<1> QED BY <1>3, <1>4, <1>5, <1>6, QueueWriters

LEMMA NoDuplicatesNext ==
  ASSUME TypeOK, HeadIsCurrent, NoDuplicates, NewIsNotQueued, [Next]_vars, ~Restart
  PROVE  NoDuplicates'
<1>1. queue \in Seq(Job) /\ Len(queue) \in Nat
  BY TypeParts, LenProperties DEF QueueType
<1>2. CASE queue' = queue
  BY <1>2 DEF NoDuplicates
<1>3. ASSUME NEW k \in Job, ScheduleJob(k) PROVE NoDuplicates'
  <2>1. queue' = Append(queue, k) /\ k \notin Queued
    BY <1>3 DEF ScheduleJob, NewIsNotQueued
  <2>2. Len(queue') = Len(queue) + 1 /\ queue'[Len(queue) + 1] = k
        /\ \A h \in 1..Len(queue) : queue'[h] = queue[h]
    BY <1>1, <2>1, AppendProperties
  <2>3. \A h \in 1..Len(queue) : queue[h] # k
    BY <2>1 DEF Queued
  <2> QED BY <1>1, <2>2, <2>3 DEF NoDuplicates
<1>4. ASSUME NEW k \in Job, AbortQueuedJob(k) PROVE NoDuplicates'
  <2>1. k \in Members(queue) /\ queue' = removeFirst(queue, k)
    BY <1>4, QueuedAreMembers DEF AbortQueuedJob
  <2>2. PICK h \in 1..Len(queue) :
          queue' = [m \in 1..(Len(queue) - 1) |-> IF m < h THEN queue[m] ELSE queue[m + 1]]
    BY <1>1, <2>1, FirstIndex
  <2>3. Len(queue') = Len(queue) - 1
    BY <1>1, <2>2
  <2>4. \A m \in 1..Len(queue') : queue'[m] = queue[IF m < h THEN m ELSE m + 1]
    BY <1>1, <2>2, <2>3
  <2> QED BY <1>1, <2>3, <2>4 DEF NoDuplicates
<1>5. CASE ExecutionFails \/ CommitResponse
  <2>1. queue' = queue \/ queue' = Tail(queue)
    BY <1>5 DEF ExecutionFails, CommitResponse
  <2>2. queue # <<>>
    <3>1. CASE CommitResponse
      BY <3>1 DEF CommitResponse, HeadIsCurrent
    <3>2. CASE ExecutionFails
      BY <3>2 DEF ExecutionFails, HeadIsCurrent
    <3> QED BY <1>5, <3>1, <3>2
  <2>3. CASE queue' = Tail(queue)
    <3>1. Len(queue') = Len(queue) - 1
          /\ \A h \in 1..(Len(queue) - 1) : queue'[h] = queue[h + 1]
      BY <1>1, <2>2, <2>3, HeadTailProperties
    <3> QED BY <1>1, <3>1 DEF NoDuplicates
  <2> QED BY <1>2, <2>1, <2>3
<1> QED BY <1>2, <1>3, <1>4, <1>5, QueueWriters

(* A pass that is not over yet works on a queued job.                       *)
LEMMA PassIsQueued ==
  ASSUME TypeOK, HeadIsCurrent,
         sched.pc \in {"submit", "launch", "respond", "refresh", "response"}
  PROVE  sched.job \in Job /\ sched.job \in Queued
<1>1. queue \in Seq(Job) /\ Len(queue) \in Nat
  BY TypeParts, LenProperties DEF QueueType
<1>2. queue # <<>> /\ queue[1] = sched.job
  BY <1>1, HeadTailProperties DEF HeadIsCurrent
<1>3. 1 \in 1..Len(queue)
  BY <1>1, <1>2, EmptySeq
<1>4. sched.job \in Job
  BY TypeParts, WorkingFields DEF QueueType
<1> QED BY <1>2, <1>3, <1>4 DEF Queued

(* A pass begins to contact a server for a job without an execution only.   *)
LEMMA SubmittedHasNoFlow ==
  ASSUME TypeOK, HeadIsCurrent, GivenOnce, sched.pc = "submit", present(sched.job)
  PROVE  sched.job \in Job /\ flows[sched.job] = <<>>
BY PassIsQueued DEF GivenOnce, Over, Accepted

LEMMA NewIsNotQueuedNext ==
  ASSUME TypeOK, HeadIsCurrent, NewIsNotQueued, [Next]_vars, ~Restart
  PROVE  NewIsNotQueued'
<1> SUFFICES ASSUME NEW j \in Job, request'[j] = "new" PROVE j \notin Queued'
  BY DEF NewIsNotQueued
<1>1. request[j] = "new"
  BY RequestMoves
<1>2. ~ScheduleJob(j)
  BY TypeParts DEF ScheduleJob, RequestType
<1> QED BY <1>1, <1>2, JoinsQueue DEF NewIsNotQueued

LEMMA GivenOnceNext ==
  ASSUME WInv, NoDuplicates, GivenOnce, [Next]_vars, KnowsExecutions
  PROVE  GivenOnce'
<1>1. TypeOK /\ HeadIsCurrent /\ QueueType /\ FlowType
  BY TypeParts DEF WInv, IInv
<1>2. /\ ~Restart /\ ~ExecutionThrows
      /\ ExecutionFails => sched.pc = "launch"
      /\ CommitResponse /\ present(sched.job) => queue' = Tail(queue)
  BY DEF KnowsExecutions, Restart, ExecutionThrows, ExecutionFails, CommitResponse, Fault
<1>3. sched.pc # "idle" => sched \in Working
  BY <1>1, WorkingFields DEF QueueType
<1>4. ASSUME NEW j \in Job, j \in Queued'
      PROVE  flows'[j] = <<>> \/ Over(j)' \/ (sched'.job = j /\ sched'.pc \in Accepted)
  <2>1. CASE flows[j] = <<>>
    <3>1. CASE LaunchFlow /\ sched.job = j
      <4>1. sched \in Working
        BY <1>3, <3>1 DEF LaunchFlow
      <4> QED BY <3>1, <4>1 DEF LaunchFlow, Working, Accepted
    <3> QED BY <1>1, <2>1, <3>1, FirstFlow DEF WInv
  <2>2. CASE flows[j] # <<>>
    <3>1. j \in Queued
      <4>1. ~ScheduleJob(j)
        BY <2>2 DEF ScheduleJob, WInv, NeverStarted
      <4> QED BY <1>1, <1>2, <1>4, <4>1, JoinsQueue
    <3>2. CASE Over(j)
      BY <1>1, <3>2, OverStays
    <3>3. CASE sched.job = j /\ sched.pc \in Accepted /\ ~Over(j)
      <4>1. present(j) /\ request[j] \in {"committed", "rolledBack"}
        BY <3>3 DEF Over, WInv, PassIsSound, Accepted, Contacting
      <4>2. CASE sched' = sched
        BY <3>3, <4>2
      <4>3. CASE RecordExecution \/ RefreshJob
        <5>1. sched'.job = j /\ sched'.pc \in Accepted
          BY <1>3, <3>3, <4>1, <4>3 DEF RecordExecution, RefreshJob, Working, Accepted
        <5> QED BY <5>1
      <4>4. ~CommitResponse
        <5>1. ASSUME CommitResponse PROVE FALSE
          <6>1. queue \in Seq(Job) /\ Len(queue) \in Nat /\ queue # <<>> /\ queue[1] = j
            BY <1>1, <3>3, <5>1, LenProperties, HeadTailProperties
            DEF QueueType, HeadIsCurrent, CommitResponse
          <6>2. queue' = Tail(queue)
            BY <1>2, <3>3, <4>1, <5>1
          <6>3. Len(queue') = Len(queue) - 1
                /\ \A h \in 1..(Len(queue) - 1) : queue'[h] = queue[h + 1]
            BY <6>1, <6>2, HeadTailProperties
          <6>4. PICK h \in 1..Len(queue') : queue'[h] = j
            BY <1>4 DEF Queued
          <6>5. queue[h + 1] = queue[1] /\ h + 1 \in 1..Len(queue) /\ 1 \in 1..Len(queue)
            BY <6>1, <6>3, <6>4
          <6> QED BY <6>5 DEF NoDuplicates
        <5> QED BY <5>1
      <4>5. CASE Scheduler /\ ~RecordExecution /\ ~RefreshJob
        BY <1>2, <3>3, <4>4, <4>5
        DEF Scheduler, PickJob, EndPass, CommitSubmitted, LaunchFlow, ExecutionFails,
            CommitRetry, Accepted
      <4> QED BY <1>2, <4>2, <4>3, <4>5, SchedWriters
    <3> QED BY <2>2, <3>1, <3>2, <3>3 DEF GivenOnce
  <2> QED BY <2>1, <2>2
<1>5. ASSUME sched'.pc \in {"launch", "retry"} PROVE flows'[sched'.job] = <<>>
  <2>1. sched'.job = sched.job /\ sched.job \in Job
    BY <1>1, <1>5, PassMoves DEF Contacting
  <2>2. flows[sched.job] = <<>>
    <3>1. CASE sched' = sched
      BY <1>5, <3>1 DEF GivenOnce
    <3>2. CASE CommitSubmitted
      <4>1. present(sched.job) /\ sched.pc = "submit"
        BY <1>5, <3>2, WorkingFields DEF CommitSubmitted
      <4> QED BY <1>1, <4>1, SubmittedHasNoFlow
    <3>3. CASE ExecutionFails
      BY <1>2, <3>3 DEF GivenOnce
    <3>4. CASE Scheduler /\ ~CommitSubmitted /\ ~ExecutionFails
      BY <1>2, <1>3, <1>5, <3>4, WorkingFields
      DEF Scheduler, PickJob, EndPass, LaunchFlow, RecordExecution, CommitRetry,
          RefreshJob, CommitResponse, Working
    <3> QED BY <1>2, <3>1, <3>2, <3>3, <3>4, SchedWriters
  <2>3. ~LaunchFlow
    <3>1. LaunchFlow => sched'.pc = "respond"
      BY <1>3 DEF LaunchFlow, Working
    <3> QED BY <1>5, <3>1
  <2> QED BY <1>1, <2>1, <2>2, <2>3, FirstFlow DEF WInv
<1>6. \A j \in Queued' : j \in Job
  <2>1. QueueType'
    BY <1>1, QueueNext
  <2> QED BY <2>1, ElementOfSeq DEF Queued, QueueType
<1> QED BY <1>4, <1>5, <1>6 DEF GivenOnce

LEMMA ExecutedOnceNext ==
  ASSUME TypeOK, AbortsName, GivenOnce, ExecutedOnce, [Next]_vars
  PROVE  ExecutedOnce'
<1> SUFFICES ASSUME NEW j \in Job PROVE Len(flows'[j]) <= 1
  BY DEF ExecutedOnce
<1>1. Len(<<>>) = 0 /\ <<>> \in Seq(Flow)
  BY EmptySeq
<1>2. CASE LaunchFlow /\ sched.job = j
  <2> DEFINE f == [at |-> sched.server, phase |-> "launched"]
  <2>1. flows[j] = <<>>
    BY <1>2 DEF GivenOnce, LaunchFlow
  <2>2. f \in Flow
    BY <1>2, TypeParts, WorkingFields DEF LaunchFlow, QueueType, Flow
  <2>3. flows'[j] = Append(<<>>, f)
    BY <1>2, <2>1, TypeParts DEF LaunchFlow, FlowType
  <2> HIDE DEF f
  <2>4. Len(flows'[j]) = Len(<<>>) + 1
    BY <1>1, <2>2, <2>3, AppendProperties
  <2> QED BY <1>1, <2>4
<1>3. CASE ~(LaunchFlow /\ sched.job = j)
  BY <1>3, LenKept DEF ExecutedOnce
<1> QED BY <1>2, <1>3

LEMMA OInvInit == Init => OInv
<1> SUFFICES ASSUME Init PROVE OInv
  OBVIOUS
<1>1. Len(<<>>) = 0
  BY EmptySeq
<1> QED BY <1>1, WorkingFields
        DEF Init, OInv, NoDuplicates, NewIsNotQueued, GivenOnce, ExecutedOnce, Queued

LEMMA OInvNext ==
  ASSUME KnowsExecutions, WInv, EInv, OInv, [Next]_vars
  PROVE  OInv'
<1>1. TypeOK /\ HeadIsCurrent /\ ~Restart
  BY DEF WInv, IInv, KnowsExecutions, Restart, Fault
<1> QED BY <1>1, NoDuplicatesNext, NewIsNotQueuedNext, GivenOnceNext, ExecutedOnceNext
        DEF OInv, EInv

(* No job is executed twice, where the program knows of every execution:    *)
(* neither refusals and retries nor the races with the request thread and   *)
(* with aborts ever launch a second flow.                                   *)
THEOREM JobsAreExecutedOnce ==
  ASSUME KnowsExecutions
  PROVE  Spec => []ExecutedOnce
<1>1. Init => WInv /\ EInv /\ OInv
  BY WInvInit, EInvInit, OInvInit
<1>2. WInv /\ EInv /\ OInv /\ [Next]_vars => (WInv /\ EInv /\ OInv)'
  BY WInvNext, EInvNext, OInvNext DEF WInv, IInv
<1>3. OInv => ExecutedOnce
  BY DEF OInv
<1> QED BY <1>1, <1>2, <1>3, PTL DEF Spec

-----------------------------------------------------------------------------
(* What the rows and the objects know of the one execution of a job.        *)
Began(j) == flows[j] # <<>> /\ flows[j][1].phase # "launched"

RowKnows    == \A j \in Job : present(j) /\ Began(j) => db[j].exec = 1
RowAnswered == \A j \in Job : db[j].port # 0 => db[j].exec = 1
ObjectAnswered ==
  /\ \A j \in Job : mem[j].port # 0 => mem[j].exec = 1
  /\ sched.pc = "response" => mem[sched.job].port # 0

(* Nothing says that a job runs before its execution has told so.           *)
RunningBegan ==
  \A j \in Job :
    abortReq[j].pending \/ isRunning(db[j].status) \/ isRunning(mem[j].status) => Began(j)

DInv == RowKnows /\ RowAnswered /\ ObjectAnswered /\ RunningBegan

LEMMA OnlyFirst ==
  ASSUME TypeOK, ExecutedOnce, NEW j \in Job, NEW n \in 1..Len(flows[j])
  PROVE  n = 1 /\ Len(flows[j]) = 1 /\ flows[j] # <<>>
<1>1. flows[j] \in Seq(Flow) /\ Len(flows[j]) \in Nat /\ Len(<<>>) = 0
  BY TypeParts, LenProperties, EmptySeq DEF FlowType
<1>2. Len(flows[j]) <= 1
  BY DEF ExecutedOnce
<1>3. n \in Nat /\ 1 <= n /\ n <= Len(flows[j])
  BY <1>1
<1>4. \A a, b \in Nat : 1 <= a /\ a <= b /\ b <= 1 => a = 1 /\ b = 1
  OBVIOUS
<1>5. n = 1 /\ Len(flows[j]) = 1
  BY <1>1, <1>2, <1>3, <1>4
<1> QED BY <1>1, <1>5

(* An execution that began, began before or does so in this step.           *)
LEMMA BeganNext ==
  ASSUME WInv, EInv, ExecutedOnce, GivenOnce, RunningBegan, [Next]_vars, NEW j \in Job
  PROVE  /\ Began(j) => Began(j)'
         /\ ProbeFlowStart(j, 1) /\ flows[j] # <<>> => Began(j)'
         /\ Began(j)' => Began(j) \/ (flows[j] # <<>> /\ ProbeFlowStart(j, 1))
<1>1. TypeOK /\ AbortsName /\ flows[j] \in Seq(Flow) /\ Len(<<>>) = 0
  BY TypeParts, EmptySeq DEF EInv, FlowType
<1>2. flows[j] # <<>> => 1 \in 1..Len(flows[j])
  BY <1>1, EmptySeq
<1>3. Began(j) => Began(j)'
  BY <1>1, <1>2, PhaseMoves, KeepsFlow DEF Began
<1>4. ASSUME ProbeFlowStart(j, 1), flows[j] # <<>> PROVE Began(j)'
  <2>1. flows'[j] = [flows[j] EXCEPT ![1].phase = "started"]
    BY <1>4, TypeParts, <1>1 DEF ProbeFlowStart, FlowType
  <2>2. flows'[j][1].phase = "started"
    BY <1>1, <1>2, <1>4, <2>1, PhaseWritten
  <2> QED BY <1>1, <1>4, <2>2, KeepsFlow DEF Began
<1>5. ASSUME Began(j)', ~Began(j) PROVE flows[j] # <<>> /\ ProbeFlowStart(j, 1)
  <2>1. CASE flows'[j] = flows[j]
    BY <1>5, <2>1 DEF Began
  <2>2. CASE LaunchFlow /\ sched.job = j
             /\ flows'[j] = Append(flows[j], [at |-> sched.server, phase |-> "launched"])
    <3> DEFINE f == [at |-> sched.server, phase |-> "launched"]
    <3>1. flows[j] = <<>>
      BY <2>2 DEF GivenOnce, LaunchFlow
    <3>2. f \in Flow /\ f.phase = "launched"
      BY <1>1, <2>2, TypeParts, WorkingFields DEF LaunchFlow, QueueType, Flow
    <3>3. flows'[j] = Append(flows[j], f)
      BY <2>2
    <3> HIDE DEF f
    <3>4. flows'[j][Len(flows[j]) + 1] = f
      BY <1>1, <3>2, <3>3, AppendProperties
    <3>5. flows'[j][1] = f
      BY <1>1, <3>1, <3>4
    <3> QED BY <1>5, <3>2, <3>5 DEF Began
  <2>3. ASSUME NEW n \in 1..Len(flows[j]),
               \/ ProbeFlowStart(j, n) /\ Written(j, n, "started")
               \/ Written(j, n, "ended") /\ flows[j][n].phase \in {"started", "aborting"}
               \/ /\ Written(j, n, "aborting") /\ flows[j][n].phase # "ended"
                  /\ AbortExecutingJob(j) /\ n = abortReq[j].port
        PROVE  flows[j] # <<>> /\ ProbeFlowStart(j, 1)
    <3>1. n = 1 /\ flows[j] # <<>>
      BY <1>1, OnlyFirst
    <3>2. flows[j][1].phase = "launched"
      BY <1>5, <3>1 DEF Began
    <3>3. ~AbortExecutingJob(j)
      BY <1>5 DEF AbortExecutingJob, RunningBegan
    <3> QED BY <2>3, <3>1, <3>2, <3>3
  <2> QED BY <1>1, <2>1, <2>2, <2>3, FlowWriters
<1> QED BY <1>3, <1>4, <1>5

(* A row that a probe starts to run belongs to an execution that begins.    *)
LEMMA RowStarts ==
  ASSUME TypeOK, ExecutedOnce, [Next]_vars, NEW j \in Job, isRunning(db'[j].status)
  PROVE  \/ isRunning(db[j].status) \/ isRunning(mem[j].status)
         \/ flows[j] # <<>> /\ ProbeFlowStart(j, 1)
<1>1. RowsType /\ mem[j] \in JobObject
  BY TypeParts DEF RowsType
<1>2. CASE db'[j] = db[j]
  BY <1>2
<1>3. CASE db'[j] = NoRow
  BY <1>3, NoRowColumns DEF isRunning
<1>4. CASE ProgramWrites(j)
  <2>1. db'[j].status = mem[j].status \/ db'[j].status = "SUBMITTED"
    BY <1>1, <1>4 DEF ProgramWrites, JobObject
  <2> QED BY <2>1 DEF isRunning
<1>5. CASE present(j) /\ ProbeWrites(j)
  <2>1. db[j] \in JobObject
    BY <1>1, <1>5, NoRowColumns DEF present, RowsType
  <2>2. PICK n \in 1..Len(flows[j]) :
          \/ ProbeFlowStart(j, n)
          \/ db'[j] = [db[j] EXCEPT !.status = "FINISHED"]
          \/ db'[j] = [db[j] EXCEPT !.status = "ABORTED"]
    BY <1>5 DEF ProbeWrites
  <2>3. n = 1 /\ flows[j] # <<>>
    BY OnlyFirst
  <2>4. ProbeFlowStart(j, n)
    BY <2>1, <2>2 DEF JobObject, isRunning
  <2> QED BY <2>3, <2>4
<1> QED BY <1>2, <1>3, <1>4, <1>5, RowWriters

LEMMA RunningBeganNext ==
  ASSUME WInv, EInv, ExecutedOnce, GivenOnce, RunningBegan, [Next]_vars
  PROVE  RunningBegan'
<1> SUFFICES ASSUME NEW j \in Job,
                    \/ abortReq'[j].pending
                    \/ isRunning(db'[j].status)
                    \/ isRunning(mem'[j].status)
             PROVE  Began(j)'
  BY DEF RunningBegan
<1>1. TypeOK /\ RowsType /\ FlowType /\ mem[j] \in JobObject
  BY TypeParts DEF EInv, RowsType
<1>2. SUFFICES ASSUME ~Began(j) PROVE flows[j] # <<>> /\ ProbeFlowStart(j, 1)
  BY BeganNext
<1>3. ~abortReq[j].pending /\ ~isRunning(db[j].status) /\ ~isRunning(mem[j].status)
  BY <1>2 DEF RunningBegan
<1>4. ~abortReq'[j].pending
  <2>1. ASSUME NEW k \in Job, Abort(k) PROVE ~abortReq'[j].pending
    BY <1>1, <1>3, <2>1
    DEF Abort, RequestAbort, AbortQueuedJob, AbortExecutingJob, NoAbort, FlowType
  <2>2. Restart => ~abortReq'[j].pending
    BY DEF Restart, NoAbort
  <2> QED BY <1>3, <2>1, <2>2, AbortWriters
<1>5. ~isRunning(mem'[j].status)
  <2> USE <1>1, <1>3 DEF RowsType, isRunning
  <2>1. CASE mem' = mem
    BY <2>1
  <2>2. ASSUME NEW k \in Job, ScheduleJob(k) \/ MarkScheduled(k)
        PROVE  ~isRunning(mem'[j].status)
    <3>1. mem' = [mem EXCEPT ![k] = NewJob] \/ mem' = [mem EXCEPT ![k].status = "SCHEDULED"]
      BY <2>2, Zenon DEF ScheduleJob, MarkScheduled
    <3> QED BY <3>1 DEF NewJob, JobObject
  <2>3. CASE PickJob
    BY <2>3 DEF PickJob, JobObject
  <2>4. CASE ExecutionFails
    BY <2>4 DEF ExecutionFails, JobObject
  <2>5. CASE RefreshJob
    <3>1. mem' = mem \/ \E k \in Job : /\ present(k)
                                      /\ mem' = [mem EXCEPT ![k] =
                                           [db[k] EXCEPT !.host = sched.server,
                                                         !.port = Len(flows[k]),
                                                         !.exec = Len(flows[k])]]
      BY <2>5, TypeParts, WorkingFields DEF RefreshJob, QueueType
    <3>2. ASSUME NEW k \in Job, present(k),
                 mem' = [mem EXCEPT ![k] = [db[k] EXCEPT !.host = sched.server,
                                                         !.port = Len(flows[k]),
                                                         !.exec = Len(flows[k])]]
          PROVE  mem'[j].status = mem[j].status \/ mem'[j].status = db[j].status
      <4>1. db[k] \in JobObject
        BY <3>2, NoRowColumns DEF present
      <4> QED BY <3>2, <4>1 DEF JobObject
    <3> QED BY <2>1, <3>1, <3>2
  <2>6. CASE Restart
    BY <2>6 DEF Restart
  <2> QED BY <2>1, <2>2, <2>3, <2>4, <2>5, <2>6, MemWriters
<1> QED BY <1>1, <1>3, <1>4, <1>5, RowStarts

LEMMA ObjectAnsweredNext ==
  ASSUME WInv, EInv, OInv, OInv', ObjectAnswered, [Next]_vars, ~Restart
  PROVE  ObjectAnswered'
<1>1. TypeOK /\ RowsType /\ QueueType /\ FlowType
  BY TypeParts DEF EInv
<1>2. CASE RefreshJob /\ present(sched.job)
  <2> DEFINE k == sched.job
             m == [db[k] EXCEPT !.host = sched.server, !.port = Len(flows[k]),
                                !.exec = Len(flows[k])]
  <2>1. sched.pc = "refresh" /\ k \in Job /\ mem' = [mem EXCEPT ![k] = m]
    BY <1>1, <1>2, WorkingFields DEF RefreshJob, QueueType
  <2>2. Len(flows[k]) \in Nat /\ Len(flows[k]) # 0 /\ Len(flows[k]) <= 1
    BY <1>1, <2>1, LenProperties DEF EInv, LastIsMine, OInv, ExecutedOnce, FlowType
  <2>3. db[k] \in JobObject
    BY <1>1, <1>2, <2>1, NoRowColumns DEF present, RowsType
  <2>4. m.port = 1 /\ m.exec = 1
    <3>1. m.port = Len(flows[k]) /\ m.exec = Len(flows[k])
      BY <2>3 DEF JobObject
    <3>2. \A a \in Nat : a # 0 /\ a <= 1 => a = 1
      OBVIOUS
    <3> QED BY <2>2, <3>1, <3>2
  <2>5. sched'.job = k
    BY <1>1, <1>2, WorkingFields DEF RefreshJob, QueueType, Working
  <2> HIDE DEF m
  <2>6. \A j \in Job : mem'[j] = IF j = k THEN m ELSE mem[j]
    BY <1>1, <2>1 DEF RowsType
  <2> QED BY <2>1, <2>4, <2>5, <2>6 DEF ObjectAnswered
<1>3. CASE ~(RefreshJob /\ present(sched.job))
  <2>1. ASSUME NEW j \in Job
        PROVE  \/ mem'[j] = NewJob /\ ScheduleJob(j)
               \/ mem'[j].port = mem[j].port /\ mem'[j].exec = mem[j].exec
    <3> mem[j] \in JobObject
      BY <1>1 DEF RowsType
    <3>1. ASSUME NEW k \in Job, MarkScheduled(k)
          PROVE  mem'[j].port = mem[j].port /\ mem'[j].exec = mem[j].exec
      BY <1>1, <3>1 DEF MarkScheduled, RowsType, JobObject
    <3>2. ASSUME NEW k \in Job, ScheduleJob(k)
          PROVE  (mem'[j] = NewJob /\ j = k) \/ mem'[j] = mem[j]
      BY <1>1, <3>2 DEF ScheduleJob, RowsType
    <3>3. CASE ExecutionFails
      BY <1>1, <3>3 DEF ExecutionFails, RowsType, JobObject
    <3>4. CASE PickJob
      <4>1. mem' = [mem EXCEPT ![Head(queue)].tries = @ + 1,
                               ![Head(queue)].status = "SUBMITTED"]
        BY <3>4 DEF PickJob
      <4>2. mem'[j] = mem[j]
            \/ mem'[j] = [mem[j] EXCEPT !.tries = @ + 1, !.status = "SUBMITTED"]
        BY <1>1, <4>1 DEF RowsType
      <4> QED BY <4>2 DEF JobObject
    <3>5. RefreshJob => mem' = mem
      BY <1>3 DEF RefreshJob
    <3> QED BY <3>1, <3>2, <3>3, <3>4, <3>5, MemWriters
  <2>2. \A j \in Job : mem'[j].port # 0 => mem'[j].exec = 1
    BY <2>1 DEF ObjectAnswered, NewJob
  <2>3. ASSUME sched'.pc = "response" PROVE mem'[sched'.job].port # 0
    <3>1. sched'.job = sched.job /\ sched.job \in Job
      BY <1>1, <2>3, PassMoves DEF Contacting
    <3>2. sched.pc = "response"
      <4>1. sched.pc # "idle" => sched \in Working
        BY <1>1, WorkingFields DEF QueueType
      <4>2. CASE Scheduler
        BY <1>3, <2>3, <4>1, <4>2, WorkingFields
        DEF Scheduler, PickJob, EndPass, CommitSubmitted, LaunchFlow, RecordExecution,
            ExecutionFails, ExecutionThrows, CommitRetry, RefreshJob, CommitResponse,
            Working
      <4> QED BY <2>3, <4>2, SchedWriters
    <3>3. ~ScheduleJob(sched.job)
      BY <3>2 DEF ScheduleJob
    <3> QED BY <2>1, <3>1, <3>2, <3>3 DEF ObjectAnswered
  <2> QED BY <2>2, <2>3 DEF ObjectAnswered
<1> QED BY <1>2, <1>3

(* What the program writes to a row that names an execution.                *)
LEMMA ProgramAnswers ==
  ASSUME WInv, GivenOnce, ObjectAnswered, NEW j \in Job, ProgramWrites(j)
  PROVE  /\ db'[j].port # 0 => db'[j].exec = 1
         /\ flows[j] # <<>> => db'[j].exec = 1
<1>1. TypeOK /\ HeadIsCurrent /\ mem[j] \in JobObject
  BY TypeParts DEF WInv, IInv, RowsType
<1>2. db'[j].port = mem[j].port /\ db'[j].exec = mem[j].exec
  BY <1>1 DEF ProgramWrites, JobObject
<1>3. ASSUME flows[j] # <<>> PROVE mem[j].port # 0
  <2>1. ~CommitRequest(j)
    BY <1>3 DEF CommitRequest, WInv, NeverStarted, Waiting
  <2>2. ~(CommitSubmitted /\ sched.job = j /\ present(j))
    BY <1>1, <1>3, SubmittedHasNoFlow DEF CommitSubmitted
  <2>3. ~(CommitRetry /\ sched.job = j)
    BY <1>3 DEF CommitRetry, GivenOnce
  <2>4. CommitResponse /\ sched.job = j
    BY <2>1, <2>2, <2>3 DEF ProgramWrites
  <2> QED BY <2>4 DEF CommitResponse, ObjectAnswered
<1> QED BY <1>2, <1>3 DEF ObjectAnswered

LEMMA RowKnowsNext ==
  ASSUME WInv, EInv, OInv, DInv, [Next]_vars
  PROVE  RowKnows' /\ RowAnswered'
<1>1. TypeOK /\ RowsType /\ ExecutedOnce /\ GivenOnce /\ ObjectAnswered /\ RunningBegan
  BY TypeParts DEF EInv, OInv, DInv
<1> SUFFICES ASSUME NEW j \in Job
    PROVE  /\ db'[j].status # "ABSENT" /\ Began(j)' => db'[j].exec = 1
           /\ db'[j].port # 0 => db'[j].exec = 1
  BY DEF RowKnows, RowAnswered, present
<1>2. ASSUME db'[j] = db[j], ~ProbeFlowStart(j, 1) \/ flows[j] = <<>>
      PROVE  /\ db'[j].status # "ABSENT" /\ Began(j)' => db'[j].exec = 1
             /\ db'[j].port # 0 => db'[j].exec = 1
  <2>1. Began(j)' => Began(j)
    BY <1>1, <1>2, BeganNext
  <2> QED BY <1>2, <2>1 DEF DInv, RowKnows, RowAnswered, present
<1>3. CASE db'[j] = NoRow
  BY <1>3, NoRowColumns
<1>4. CASE ProgramWrites(j)
  <2>1. Began(j)' => flows[j] # <<>>
    BY <1>1, BeganNext DEF Began
  <2> QED BY <1>1, <1>4, <2>1, ProgramAnswers
<1>5. CASE ProbeFlowStart(j, 1) /\ flows[j] # <<>>
  <2>1. /\ ~present(j) => db' = db
        /\ present(j) => db' = [db EXCEPT ![j].status = "STARTED", ![j].exec = 1]
    BY <1>5 DEF ProbeFlowStart
  <2>2. CASE present(j)
    <3>1. db[j] \in JobObject
      BY <1>1, <2>2, NoRowColumns DEF present, RowsType
    <3>2. db'[j] = [db[j] EXCEPT !.status = "STARTED", !.exec = 1]
      BY <1>1, <2>1, <2>2 DEF RowsType
    <3>3. db'[j].exec = 1
      BY <3>1, <3>2 DEF JobObject
    <3> QED BY <3>3
  <2>3. CASE ~present(j)
    BY <1>1, <2>1, <2>3, NoRowColumns DEF present, DInv, RowAnswered
  <2> QED BY <2>2, <2>3
<1>6. CASE present(j) /\ ProbeWrites(j) /\ ~(ProbeFlowStart(j, 1) /\ flows[j] # <<>>)
  <2>1. db[j] \in JobObject
    BY <1>1, <1>6, NoRowColumns DEF present, RowsType
  <2>2. PICK n \in 1..Len(flows[j]) :
          \/ ProbeFlowStart(j, n)
          \/ db'[j] = [db[j] EXCEPT !.status = "FINISHED"]
          \/ db'[j] = [db[j] EXCEPT !.status = "ABORTED"]
    BY <1>6 DEF ProbeWrites
  <2>3. n = 1 /\ flows[j] # <<>>
    BY <1>1, OnlyFirst
  <2>4. db'[j].port = db[j].port /\ db'[j].exec = db[j].exec
    BY <1>6, <2>1, <2>2, <2>3 DEF JobObject
  <2>5. Began(j)' => Began(j)
    BY <1>1, <1>6, BeganNext
  <2> QED BY <1>6, <2>4, <2>5 DEF DInv, RowKnows, RowAnswered
<1> QED BY <1>1, <1>2, <1>3, <1>4, <1>5, <1>6, RowWriters

LEMMA DInvInit == Init => DInv
<1> SUFFICES ASSUME Init PROVE DInv
  OBVIOUS
<1>1. RowKnows /\ RowAnswered
  BY NoRowColumns DEF Init, RowKnows, RowAnswered, present
<1>2. ObjectAnswered
  BY WorkingFields DEF Init, ObjectAnswered, NewJob
<1>3. RunningBegan
  BY NoRowColumns DEF Init, RunningBegan, NoAbort, isRunning, NewJob
<1> QED BY <1>1, <1>2, <1>3 DEF DInv

LEMMA DInvNext ==
  ASSUME KnowsExecutions, WInv, EInv, OInv, DInv, [Next]_vars
  PROVE  DInv'
<1>1. ~Restart
  BY DEF KnowsExecutions, Restart, Fault
<1>2. OInv'
  BY OInvNext
<1>3. RunningBegan'
  BY RunningBeganNext DEF OInv, DInv
<1>4. ObjectAnswered'
  BY <1>1, <1>2, ObjectAnsweredNext DEF DInv
<1> QED BY <1>3, <1>4, RowKnowsNext DEF DInv

LEMMA NamesItsExecution == EInv /\ OInv /\ DInv => RowNamesItsExecution
<1> SUFFICES ASSUME EInv, OInv, DInv, NEW j \in Job
    PROVE  /\ \A n \in 1..Len(flows[j]) :
                flows[j][n].phase \in {"started", "aborting"} /\ present(j) => db[j].exec = n
           /\ db[j].port # 0 =>
                db[j].exec = db[j].port /\ flows[j][db[j].port].at = db[j].host
  BY DEF RowNamesItsExecution
<1>1. TypeOK /\ ExecutedOnce
  BY DEF EInv, OInv
<1>2. ASSUME NEW n \in 1..Len(flows[j]), flows[j][n].phase \in {"started", "aborting"},
             present(j)
      PROVE  db[j].exec = n
  <2>1. n = 1 /\ flows[j] # <<>>
    BY <1>1, OnlyFirst
  <2> QED BY <1>2, <2>1 DEF DInv, RowKnows, Began
<1>3. ASSUME db[j].port # 0
      PROVE  db[j].exec = db[j].port /\ flows[j][db[j].port].at = db[j].host
  <2>1. db[j].port \in 1..Len(flows[j]) /\ flows[j][db[j].port].at = db[j].host
    BY <1>3 DEF EInv, RowsName, NamesFlow
  <2>2. db[j].port = 1
    BY <1>1, <2>1, OnlyFirst
  <2> QED BY <1>3, <2>1, <2>2 DEF DInv, RowAnswered
<1> QED BY <1>2, <1>3

(* Where the program knows of every execution, the row names the one that   *)
(* runs, and its host and its port are those of the execution it names.     *)
THEOREM RowsNameTheirExecution ==
  ASSUME KnowsExecutions
  PROVE  Spec => []RowNamesItsExecution
<1>1. Init => WInv /\ EInv /\ OInv /\ DInv
  BY WInvInit, EInvInit, OInvInit, DInvInit
<1>2. WInv /\ EInv /\ OInv /\ DInv /\ [Next]_vars => (WInv /\ EInv /\ OInv /\ DInv)'
  BY WInvNext, EInvNext, OInvNext, DInvNext DEF WInv, IInv
<1> QED BY <1>1, <1>2, NamesItsExecution, PTL DEF Spec

-----------------------------------------------------------------------------
(***************************************************************************)
(* Who may take back the final status of a job: only the second commit of  *)
(* a pass, which writes the status that it read before the probe wrote the *)
(* last one.  Every other write finds that the job has ended, or cannot    *)
(* meet it: a row says FINISHED or ABORTED when the one execution has      *)
(* ended, and FAILED when the job left the queue without an execution.     *)
(***************************************************************************)
HasEnded(j) == flows[j] # <<>> /\ flows[j][1].phase = "ended"
GaveUp(j)   == flows[j] = <<>> /\ j \notin Queued
               /\ request[j] \in {"committed", "rolledBack"}

RowsEnd ==
  \A j \in Job : /\ db[j].status \in {"FINISHED", "ABORTED"} => HasEnded(j)
                 /\ db[j].status = "FAILED" => GaveUp(j)
ObjectsEnd ==
  \A j \in Job : /\ mem[j].status \in {"FINISHED", "ABORTED"} => HasEnded(j)
                 /\ mem[j].status = "FAILED" => GaveUp(j)

(* The insert of a request is seen by nobody before its commit.             *)
NoRowBeforeCommit == \A j \in Job : request[j] = "new" \/ Waiting(j) => ~present(j)

NInv == RowsEnd /\ ObjectsEnd /\ NoRowBeforeCommit

-----------------------------------------------------------------------------
(* A job that has ended, or was given up, stays so.                         *)
LEMMA EndedStays ==
  ASSUME WInv, EInv, OInv, [Next]_vars, NEW j \in Job, HasEnded(j)
  PROVE  HasEnded(j)'
<1>1. TypeOK /\ AbortsName /\ ExecutedOnce /\ GivenOnce
  BY DEF EInv, OInv
<1>2. flows'[j] = flows[j]
  <2>1. ~(LaunchFlow /\ sched.job = j)
    BY <1>1 DEF LaunchFlow, GivenOnce, HasEnded
  <2>2. ASSUME NEW n \in 1..Len(flows[j]),
               \/ ProbeFlowStart(j, n)
               \/ flows[j][n].phase \in {"started", "aborting"}
               \/ flows[j][n].phase # "ended"
        PROVE  FALSE
    <3>1. n = 1
      BY <1>1, OnlyFirst
    <3> QED BY <2>2, <3>1 DEF ProbeFlowStart, HasEnded
  <2> QED BY <1>1, <2>1, <2>2, FlowWriters
<1> QED BY <1>2 DEF HasEnded

LEMMA GaveUpStays ==
  ASSUME WInv, [Next]_vars, ~Restart, NEW j \in Job, GaveUp(j)
  PROVE  GaveUp(j)'
<1>1. TypeOK /\ HeadIsCurrent
  BY DEF WInv, IInv
<1>2. ~ScheduleJob(j)
  BY DEF ScheduleJob, GaveUp
<1>3. ~(LaunchFlow /\ sched.job = j)
  BY <1>1, PassIsQueued DEF LaunchFlow, GaveUp
<1>4. flows'[j] = <<>> /\ j \notin Queued'
  BY <1>1, <1>2, <1>3, FirstFlow, JoinsQueue DEF GaveUp, WInv
<1> QED BY <1>1, <1>4, RequestMoves DEF GaveUp

(* The end that a probe writes is the end of the one execution.             *)
LEMMA ProbeEnds ==
  ASSUME TypeOK, ExecutedOnce, [Next]_vars, NEW j \in Job, NEW n \in 1..Len(flows[j]),
         ProbeFlowFinish(j, n) \/ ProbeFlowAbort(j, n)
  PROVE  HasEnded(j)'
<1>1. n = 1 /\ flows[j] # <<>> /\ flows[j] \in Seq(Flow)
  BY TypeParts, OnlyFirst DEF FlowType
<1>2. flows'[j] = [flows[j] EXCEPT ![n].phase = "ended"]
  BY TypeParts DEF ProbeFlowFinish, ProbeFlowAbort, endFlow, FlowType
<1>3. flows'[j][n].phase = "ended"
  BY <1>1, <1>2, PhaseWritten
<1> QED BY <1>1, <1>3, KeepsFlow DEF HasEnded

(* A pass does not commit a final status with its first commit, and the     *)
(* request never does.                                                      *)
LEMMA GaveUpIsOver ==
  ASSUME WInv, NEW j \in Job, GaveUp(j)
  PROVE  /\ sched.job = j => sched.pc \notin {"submit", "launch", "respond", "refresh", "response"}
         /\ ~CommitRequest(j)
<1>1. TypeOK /\ HeadIsCurrent
  BY DEF WInv, IInv
<1> QED BY <1>1, PassIsQueued DEF GaveUp, CommitRequest

LEMMA RowsEndNext ==
  ASSUME WInv, EInv, OInv, NInv, [Next]_vars, ~Restart
  PROVE  RowsEnd'
<1> SUFFICES ASSUME NEW j \in Job
    PROVE  /\ db'[j].status \in {"FINISHED", "ABORTED"} => HasEnded(j)'
           /\ db'[j].status = "FAILED" => GaveUp(j)'
  BY DEF RowsEnd
<1>1. TypeOK /\ RowsType /\ ExecutedOnce /\ mem[j] \in JobObject
  BY TypeParts DEF EInv, OInv, RowsType
<1>2. CASE db'[j].status = db[j].status
  BY <1>2, EndedStays, GaveUpStays DEF NInv, RowsEnd
<1>3. CASE db'[j] = NoRow
  BY <1>3, NoRowColumns
<1>4. CASE ProgramWrites(j)
  <2>1. db'[j].status = mem[j].status \/ db'[j].status = "SUBMITTED"
    BY <1>1, <1>4 DEF ProgramWrites, JobObject
  <2> QED BY <2>1, EndedStays, GaveUpStays DEF NInv, ObjectsEnd
<1>5. CASE present(j) /\ ProbeWrites(j)
  <2>1. db[j] \in JobObject
    BY <1>1, <1>5, NoRowColumns DEF present, RowsType
  <2>2. PICK n \in 1..Len(flows[j]) :
          \/ db'[j] = [db[j] EXCEPT !.status = "STARTED", !.exec = n]
          \/ /\ ProbeFlowFinish(j, n) \/ ProbeFlowAbort(j, n)
             /\ \E st \in {"FINISHED", "ABORTED"} : db'[j] = [db[j] EXCEPT !.status = st]
    BY <1>5 DEF ProbeWrites
  <2>3. CASE db'[j] = [db[j] EXCEPT !.status = "STARTED", !.exec = n]
    BY <2>1, <2>3 DEF JobObject
  <2>4. CASE /\ ProbeFlowFinish(j, n) \/ ProbeFlowAbort(j, n)
             /\ \E st \in {"FINISHED", "ABORTED"} : db'[j] = [db[j] EXCEPT !.status = st]
    <3>1. HasEnded(j)'
      BY <1>1, <2>4, ProbeEnds
    <3>2. db'[j].status # "FAILED"
      BY <2>1, <2>4 DEF JobObject
    <3> QED BY <3>1, <3>2
  <2> QED BY <2>2, <2>3, <2>4
<1> QED BY <1>1, <1>2, <1>3, <1>4, <1>5, RowWriters

(* A job that fails for the last time leaves the queue, where it was once.  *)
LEMMA LastFailureGivesUp ==
  ASSUME WInv, OInv, ExecutionFails, sched.pc = "launch", [Next]_vars,
         NEW j \in Job, j = sched.job, mem[j].tries = MaxTries
  PROVE  GaveUp(j)'
<1>1. TypeOK /\ HeadIsCurrent /\ queue \in Seq(Job) /\ Len(queue) \in Nat
  BY TypeParts, LenProperties DEF WInv, IInv, QueueType
<1>2. queue # <<>> /\ queue[1] = j /\ queue' = Tail(queue)
  BY <1>1, PassIsQueued, HeadTailProperties DEF HeadIsCurrent, ExecutionFails
<1>3. flows'[j] = <<>>
  BY DEF OInv, GivenOnce, ExecutionFails
<1>4. request'[j] \in {"committed", "rolledBack"}
  BY DEF WInv, PassIsSound, Contacting, ExecutionFails
<1>5. j \notin Queued'
  <2> SUFFICES ASSUME j \in Queued' PROVE FALSE
    OBVIOUS
  <2>1. PICK i \in 1..Len(queue') : queue'[i] = j
    BY DEF Queued
  <2>2. Len(queue') = Len(queue) - 1
        /\ \A h \in 1..(Len(queue) - 1) : queue'[h] = queue[h + 1]
    BY <1>1, <1>2, HeadTailProperties
  <2>3. queue[i + 1] = queue[1] /\ i + 1 \in 1..Len(queue) /\ 1 \in 1..Len(queue) /\ i + 1 # 1
    BY <1>1, <1>2, <2>1, <2>2
  <2> QED BY <2>3 DEF OInv, NoDuplicates
<1> QED BY <1>3, <1>4, <1>5 DEF GaveUp

LEMMA ObjectsEndNext ==
  ASSUME KnowsExecutions, WInv, EInv, OInv, NInv, [Next]_vars, ~Restart
  PROVE  ObjectsEnd'
<1> SUFFICES ASSUME NEW j \in Job
    PROVE  /\ mem'[j].status \in {"FINISHED", "ABORTED"} => HasEnded(j)'
           /\ mem'[j].status = "FAILED" => GaveUp(j)'
  BY DEF ObjectsEnd
<1>1. TypeOK /\ RowsType /\ QueueType /\ mem[j] \in JobObject
  BY TypeParts DEF EInv, RowsType
<1>2. CASE mem'[j].status = mem[j].status
  BY <1>2, EndedStays, GaveUpStays DEF NInv, ObjectsEnd
<1>3. CASE mem'[j].status \in {"UNKNOWN", "SCHEDULED", "SUBMITTED"}
  BY <1>3
<1>4. ASSUME NEW k \in Job, ScheduleJob(k) \/ MarkScheduled(k)
      PROVE  mem'[j].status \in {mem[j].status, "UNKNOWN", "SCHEDULED"}
  <2>1. mem' = [mem EXCEPT ![k] = NewJob] \/ mem' = [mem EXCEPT ![k].status = "SCHEDULED"]
    BY <1>4, Zenon DEF ScheduleJob, MarkScheduled
  <2> QED BY <1>1, <2>1 DEF NewJob, JobObject, RowsType
<1>5. CASE PickJob
  <2>1. mem'[j].status \in {mem[j].status, "SUBMITTED"}
    BY <1>1, <1>5 DEF PickJob, JobObject, RowsType
  <2> QED BY <1>2, <1>3, <2>1
<1>6. CASE ExecutionFails
  <2>1. sched.pc = "launch"
    BY <1>6 DEF ExecutionFails, KnowsExecutions, Fault
  <2>2. CASE j = sched.job /\ mem[j].tries = MaxTries
    <3>1. GaveUp(j)'
      BY <1>6, <2>1, <2>2, LastFailureGivesUp
    <3>2. mem'[j].status = "FAILED"
      BY <1>1, <1>6, <2>2 DEF ExecutionFails, RowsType, JobObject
    <3> QED BY <3>1, <3>2
  <2>3. CASE ~(j = sched.job /\ mem[j].tries = MaxTries)
    <3>1. CASE j # sched.job
      <4>1. \E st \in {"FAILED", "SCHEDULED"} : mem' = [mem EXCEPT ![sched.job].status = st]
        BY <1>6 DEF ExecutionFails
      <4>2. mem'[j] = mem[j]
        BY <1>1, <3>1, <4>1 DEF RowsType
      <4> QED BY <1>2, <4>2
    <3>2. CASE j = sched.job
      <4>1. mem' = [mem EXCEPT ![j].status = "SCHEDULED"]
        BY <1>6, <2>3, <3>2 DEF ExecutionFails
      <4>2. mem'[j].status = "SCHEDULED"
        BY <1>1, <4>1 DEF RowsType, JobObject
      <4> QED BY <1>3, <4>2
    <3> QED BY <3>1, <3>2
  <2> QED BY <2>2, <2>3
<1>7. CASE RefreshJob
  <2>1. sched.job \in Job
    BY <1>1, <1>7, WorkingFields DEF RefreshJob, QueueType
  <2>2. \/ mem' = mem
        \/ /\ present(sched.job)
           /\ mem' = [mem EXCEPT ![sched.job] =
                        [db[sched.job] EXCEPT !.host = sched.server,
                                              !.port = Len(flows[sched.job]),
                                              !.exec = Len(flows[sched.job])]]
    BY <1>7 DEF RefreshJob
  <2>3. present(sched.job) => db[sched.job] \in JobObject
    BY <1>1, <2>1, NoRowColumns DEF present, RowsType
  <2>4. mem'[j].status = mem[j].status \/ mem'[j].status = db[j].status
    <3>1. CASE mem'[j] = mem[j]
      BY <3>1
    <3>2. CASE /\ j = sched.job /\ present(j)
               /\ mem'[j] = [db[j] EXCEPT !.host = sched.server, !.port = Len(flows[j]),
                                          !.exec = Len(flows[j])]
      BY <2>3, <3>2 DEF JobObject
    <3> QED BY <1>1, <2>1, <2>2, <3>1, <3>2 DEF RowsType
  <2>5. CASE mem'[j].status = db[j].status
    BY <2>5, EndedStays, GaveUpStays DEF NInv, RowsEnd
  <2> QED BY <1>2, <2>4, <2>5
<1>8. CASE mem' = mem
  BY <1>2, <1>8
<1> QED BY <1>2, <1>3, <1>4, <1>5, <1>6, <1>7, <1>8, MemWriters

LEMMA NoRowNext ==
  ASSUME WInv, NoRowBeforeCommit, [Next]_vars
  PROVE  NoRowBeforeCommit'
<1> SUFFICES ASSUME NEW j \in Job, request'[j] = "new" \/ Waiting(j)'
             PROVE  db'[j].status = "ABSENT"
  BY DEF NoRowBeforeCommit, present
<1>1. TypeOK /\ RequestType
  BY TypeParts DEF WInv, IInv
<1>2. request[j] = "new" \/ Waiting(j)
  BY <1>1, RequestMoves DEF ScheduleJob
<1>3. ~present(j)
  BY <1>2 DEF NoRowBeforeCommit
<1>4. ~ProgramWrites(j)
  <2>1. ASSUME CommitRequest(j), db'[j] = mem[j] PROVE FALSE
    <3>1. request'[j] = "committed" \/ request'[j] = "rolledBack"
      BY <1>1, <2>1 DEF CommitRequest, RequestType
    <3> QED BY <1>2, <3>1 DEF Waiting
  <2> QED BY <1>3, <2>1 DEF ProgramWrites
<1> QED BY <1>1, <1>3, <1>4, RowWriters, NoRowColumns DEF present

LEMMA NInvInit == Init => NInv
BY NoRowColumns
   DEF Init, NInv, RowsEnd, ObjectsEnd, NoRowBeforeCommit, NewJob, present

LEMMA NInvNext ==
  ASSUME KnowsExecutions, WInv, EInv, OInv, NInv, [Next]_vars
  PROVE  NInv'
<1>1. ~Restart
  BY DEF KnowsExecutions, Restart, Fault
<1> QED BY <1>1, RowsEndNext, ObjectsEndNext, NoRowNext DEF NInv

-----------------------------------------------------------------------------
(* What a step may write to the row of a job that has ended.                *)
LEMMA KeepsFinal ==
  ASSUME KnowsExecutions, WInv, EInv, OInv, NInv, [Next]_vars, NEW j \in Job,
         ~(CommitResponse /\ sched.job = j)
  PROVE  keepsStatusOf(j)
<1> SUFFICES ASSUME isDone(db[j].status)
             PROVE  db'[j].status \in {db[j].status, "ABSENT"}
  BY DEF keepsStatusOf
<1>1. TypeOK /\ HeadIsCurrent /\ ExecutedOnce /\ GivenOnce
  BY DEF EInv, OInv, WInv, IInv
<1>2. HasEnded(j) \/ (db[j].status = "FAILED" /\ GaveUp(j))
  BY DEF NInv, RowsEnd, isDone
<1>3. ~ProbeWrites(j)
  <2> SUFFICES ASSUME NEW n \in 1..Len(flows[j]), Probe(j, n) PROVE FALSE
    BY DEF ProbeWrites, Probe
  <2>1. n = 1 /\ flows[j] # <<>>
    BY <1>1, OnlyFirst
  <2>2. flows[j][1].phase # "ended"
    BY <2>1 DEF Probe, ProbeFlowStart, ProbeFlowFinish, ProbeFlowAbort
  <2> QED BY <1>2, <2>1, <2>2 DEF HasEnded, GaveUp
<1>4. present(j)
  BY DEF isDone, present
<1>5. ASSUME ProgramWrites(j) PROVE db'[j].status = db[j].status
  <2>1. ~CommitRequest(j)
    BY <1>4 DEF CommitRequest, NInv, NoRowBeforeCommit, Waiting
  <2>2. ~(CommitSubmitted /\ sched.job = j)
    <3>1. ASSUME CommitSubmitted, sched.job = j PROVE FALSE
      <4>1. flows[j] = <<>> /\ sched.pc = "submit"
        BY <1>1, <1>4, <3>1, SubmittedHasNoFlow DEF CommitSubmitted
      <4> QED BY <1>2, <3>1, <4>1, GaveUpIsOver DEF HasEnded
    <3> QED BY <3>1
  <2>3. CommitRetry /\ sched.job = j /\ db'[j] = mem[j]
    BY <1>5, <2>1, <2>2 DEF ProgramWrites
  <2>4. flows[j] = <<>> /\ sched.pc = "retry"
    BY <2>3 DEF CommitRetry, OInv, GivenOnce
  <2>5. db[j].status = "FAILED" /\ j \notin Queued
    BY <1>2, <2>4 DEF HasEnded, GaveUp
  <2>6. mem[j].status = "FAILED"
    BY <2>3, <2>4, <2>5 DEF WInv, PassIsSound
  <2> QED BY <2>3, <2>5, <2>6
<1> QED BY <1>1, <1>3, <1>5, RowWriters, NoRowColumns

(* Only the second commit of runJobs can take back a final status, and only *)
(* that of the job the pass is about, where the program knows of every      *)
(* execution.                                                               *)
THEOREM FinalStatusIsKept ==
  ASSUME KnowsExecutions
  PROVE  Spec => OnlyResponseCommitRevives
<1> DEFINE I == WInv /\ EInv /\ OInv /\ NInv
<1>1. Init => I
  BY WInvInit, EInvInit, OInvInit, NInvInit
<1>2. I /\ [Next]_vars => I'
  BY WInvNext, EInvNext, OInvNext, NInvNext DEF WInv, IInv
<1>3. I /\ [Next]_vars
        => [\A j \in Job : keepsStatusOf(j) \/ (CommitResponse /\ sched.job = j)]_vars
  BY KeepsFinal
<1> HIDE DEF I
<1> QED BY <1>1, <1>2, <1>3, PTL DEF Spec, OnlyResponseCommitRevives

-----------------------------------------------------------------------------
(***************************************************************************)
(* Repetitions, whatever fails.  A job that waits for a pass has paid for  *)
(* each of its executions and each of its tries with a failure; a pass     *)
(* gives it one more, and ends with the job out of the queue, with its row *)
(* gone, or with a failure.                                                *)
(***************************************************************************)
InPass(j) == /\ sched.job = j
             /\ sched.pc \in {"submit", "launch", "respond", "refresh", "response"}

FlowsPaid(j) ==
  /\ Len(flows[j]) <= 1 + faults
  /\ sched.job = j /\ sched.pc = "launch" => Len(flows[j]) <= faults
TriesPaid(j) == ~Over(j) => mem[j].tries <= 1 + faults /\ db[j].tries <= 1 + faults
WaitPaid(j) ==
  ~Over(j) => /\ j \in Queued /\ ~InPass(j) => Len(flows[j]) <= faults /\ mem[j].tries <= faults
              /\ sched.job = j /\ sched.pc = "submit" => Len(flows[j]) <= faults

Paid == \A j \in Job : FlowsPaid(j) /\ TriesPaid(j) /\ WaitPaid(j)
FInv == NoDuplicates /\ NewIsNotQueued /\ NoRowBeforeCommit /\ Paid

(* A restart queues each row that waits once, and no new job.               *)
LEMMA ReloadIsSound ==
  ASSUME TypeOK, NoRowBeforeCommit, Restart
  PROVE  NoDuplicates' /\ NewIsNotQueued'
<1>1. PICK S, q : /\ S = {j \in Job : db[j].status = "SCHEDULED"}
                  /\ q \in [1..Cardinality(S) -> S]
                  /\ \A i, k \in DOMAIN q : i < k => q[i] < q[k]
                  /\ queue' = q
  BY DEF Restart
<1>2. Cardinality(S) \in Nat /\ \A i \in 1..Cardinality(S) : q[i] \in Nat
  BY <1>1, FS_Subset, FS_CardinalityType, JobsAssumption
<1>3. DOMAIN q = 1..Cardinality(S) /\ Len(q) = Cardinality(S)
  BY <1>1, <1>2
<1>4. ASSUME NEW i \in 1..Len(q), NEW k \in 1..Len(q), i # k PROVE q[i] # q[k]
  BY <1>1, <1>2, <1>3, <1>4
<1>5. NoDuplicates'
  BY <1>1, <1>4 DEF NoDuplicates
<1>6. ASSUME NEW j \in Job, request'[j] = "new" PROVE j \notin Queued'
  <2>1. Queued' = S
    <3>1. S \subseteq Job
      BY <1>1
    <3>2. Members(q) = S
      BY <1>1, <3>1, ReloadedMembers
    <3> QED BY <1>1, <3>2, QueuedAreMembers
  <2>2. request[j] = "new"
    BY <1>6 DEF Restart
  <2>3. db[j].status # "SCHEDULED"
    BY <2>2 DEF NoRowBeforeCommit, present
  <2> QED BY <1>1, <2>1, <2>3
<1> QED BY <1>5, <1>6 DEF NewIsNotQueued

LEMMA FaultsGrow ==
  ASSUME TypeOK, [Next]_vars
  PROVE  /\ faults \in Nat /\ faults' \in Nat
         /\ faults' = faults \/ faults' = faults + 1
         /\ Restart \/ ExecutionFails \/ ExecutionThrows => faults' = faults + 1
         /\ LaunchFlow \/ RefreshJob => faults' = faults
<1>1. faults \in Nat
  BY TypeParts, BoundsAssumption DEF RequestType
<1>2. faults' = faults \/ faults' = faults + 1
  BY DEF Next, Request, Abort, Scheduler, Monitor, Probe, vars, NoFault, Fault, ScheduleJob,
         MarkScheduled, MonitorRequest, CommitRequest, DeleteJob, RequestAbort,
         AbortQueuedJob, AbortExecutingJob, PickJob, EndPass, CommitSubmitted, LaunchFlow,
         RecordExecution, ExecutionFails, ExecutionThrows, CommitRetry, RefreshJob,
         CommitResponse, BeginPoll, PollJob, EndPoll, ProbeFlowStart, ProbeFlowFinish,
         ProbeFlowAbort, endFlow, Restart
<1>3. Restart \/ ExecutionFails \/ ExecutionThrows => faults' = faults + 1
  BY DEF Restart, ExecutionFails, ExecutionThrows, Fault
<1>4. LaunchFlow \/ RefreshJob => faults' = faults
  BY DEF LaunchFlow, RefreshJob, NoFault
<1> QED BY <1>1, <1>2, <1>3, <1>4

(* What becomes of the tries on the object and in the row.                  *)
LEMMA TriesWritten ==
  ASSUME TypeOK, [Next]_vars, NEW j \in Job
  PROVE  \/ mem'[j].tries = mem[j].tries
         \/ mem'[j].tries = 0
         \/ mem'[j].tries = db[j].tries /\ (Restart \/ (RefreshJob /\ sched.job = j))
         \/ /\ PickJob /\ queue # <<>> /\ Head(queue) = j
            /\ mem'[j].tries = mem[j].tries + 1
<1>1. mem \in [Job -> JobObject]
  BY TypeParts DEF RowsType
<1>2. ASSUME NEW k \in Job, ScheduleJob(k) \/ MarkScheduled(k)
      PROVE  mem'[j].tries = mem[j].tries \/ mem'[j].tries = 0
  <2>1. CASE ScheduleJob(k)
    <3>1. mem' = [mem EXCEPT ![k] = NewJob] /\ NewJob.tries = 0
      BY <2>1 DEF ScheduleJob, NewJob
    <3> QED BY <1>1, <3>1
  <2>2. CASE MarkScheduled(k)
    <3>1. mem' = [mem EXCEPT ![k].status = "SCHEDULED"]
      BY <2>2 DEF MarkScheduled
    <3> QED BY <1>1, <3>1 DEF JobObject
  <2> QED BY <1>2, <2>1, <2>2
<1>3. CASE PickJob
  <2>1. mem' = [mem EXCEPT ![Head(queue)].tries = @ + 1, ![Head(queue)].status = "SUBMITTED"]
        /\ queue # <<>>
    BY <1>3 DEF PickJob, CanPick
  <2>2. Head(queue) # j => mem'[j] = mem[j]
    BY <1>1, <2>1
  <2>3. Head(queue) = j => mem'[j].tries = mem[j].tries + 1
    BY <1>1, <2>1 DEF JobObject
  <2> QED BY <1>3, <2>1, <2>2, <2>3
<1>4. CASE ExecutionFails
  BY <1>1, <1>4 DEF ExecutionFails, JobObject
<1>5. CASE RefreshJob
  <2>1. CASE sched.job = j /\ mem' # mem
    <3>1. mem'[j] = [db[j] EXCEPT !.host = sched.server, !.port = Len(flows[j]),
                                  !.exec = Len(flows[j])]
      BY <1>1, <1>5, <2>1 DEF RefreshJob
    <3>2. db[j] \in JobObject \cup {NoRow}
      BY TypeParts DEF RowsType
    <3>3. mem'[j].tries = db[j].tries
      BY <3>1, <3>2 DEF JobObject, NoRow, NewJob
    <3> QED BY <1>5, <2>1, <3>3
  <2>2. CASE ~(sched.job = j /\ mem' # mem)
    BY <1>1, <1>5, <2>2 DEF RefreshJob
  <2> QED BY <2>1, <2>2
<1>6. CASE Restart
  BY <1>6 DEF Restart
<1> QED BY <1>2, <1>3, <1>4, <1>5, <1>6, MemWriters

LEMMA RowTries ==
  ASSUME TypeOK, [Next]_vars, NEW j \in Job
  PROVE  db'[j].tries \in {db[j].tries, mem[j].tries, 0}
<1>1. mem[j] \in JobObject /\ db[j] \in JobObject \cup {NoRow}
  BY TypeParts DEF RowsType
<1>2. NoRow.tries = 0
  BY DEF NoRow, NewJob
<1>3. ASSUME ProbeWrites(j) PROVE db'[j].tries = db[j].tries
  BY <1>1, <1>3 DEF ProbeWrites, JobObject, NoRow, NewJob
<1>4. ASSUME ProgramWrites(j) PROVE db'[j].tries = mem[j].tries
  BY <1>1, <1>4 DEF ProgramWrites, JobObject
<1> QED BY <1>2, <1>3, <1>4, RowWriters

(* A pass that leaves its job in the queue has failed, or the row is gone.  *)
LEMMA PassIsPaid ==
  ASSUME WInv, NoDuplicates, [Next]_vars, NEW j \in Job, ~Over(j),
         InPass(j), ~InPass(j)', j \in Queued'
  PROVE  faults' = faults + 1
<1>1. TypeOK /\ HeadIsCurrent /\ QueueType /\ sched \in Working
  BY TypeParts, WorkingFields DEF WInv, IInv, QueueType, InPass
<1>2. sched' # sched
  BY DEF InPass
<1>3. CASE Restart \/ ExecutionFails \/ ExecutionThrows
  BY <1>1, <1>3, FaultsGrow
<1>4. CASE PickJob \/ EndPass \/ CommitRetry
  BY <1>4 DEF PickJob, EndPass, CommitRetry, InPass
<1>5. CASE LaunchFlow \/ RecordExecution
  BY <1>1, <1>5 DEF LaunchFlow, RecordExecution, InPass, Working
<1>6. CASE CommitSubmitted
  <2>1. request[j] \in {"committed", "rolledBack"}
    BY <1>6 DEF CommitSubmitted, InPass
  <2>2. present(j)
    BY <2>1 DEF Over
  <2>3. sched' # [sched EXCEPT !.pc = "launch"]
    BY <1>1 DEF InPass, Working
  <2> QED BY <1>6, <2>2, <2>3 DEF CommitSubmitted, Fault, InPass
<1>7. ASSUME sched.pc \in {"refresh", "response"} PROVE present(j)
  BY <1>7 DEF WInv, PassIsSound, Contacting, Over, InPass
<1>8. CASE RefreshJob
  BY <1>1, <1>7, <1>8 DEF RefreshJob, InPass, Working
<1>9. CASE CommitResponse
  <2>1. CASE queue' = Tail(queue)
    <3>1. queue \in Seq(Job) /\ Len(queue) \in Nat /\ queue # <<>> /\ queue[1] = j
      BY <1>1, <1>9, LenProperties, HeadTailProperties
      DEF QueueType, HeadIsCurrent, CommitResponse, InPass
    <3>2. Len(queue') = Len(queue) - 1
          /\ \A h \in 1..(Len(queue) - 1) : queue'[h] = queue[h + 1]
      BY <2>1, <3>1, HeadTailProperties
    <3>3. PICK h \in 1..Len(queue') : queue'[h] = j
      BY DEF Queued
    <3>4. queue[h + 1] = queue[1] /\ h + 1 \in 1..Len(queue) /\ 1 \in 1..Len(queue)
      BY <3>1, <3>2, <3>3
    <3> QED BY <3>4 DEF NoDuplicates
  <2>2. CASE queue' # Tail(queue)
    BY <1>7, <1>9, <2>2 DEF CommitResponse, Fault, InPass
  <2> QED BY <2>1, <2>2
<1> QED BY <1>2, <1>3, <1>4, <1>5, <1>6, <1>8, <1>9, SchedWriters DEF Scheduler

(* Only a job that waits at the head of the queue is picked.                *)
LEMMA PickedWaits ==
  ASSUME TypeOK, NEW j \in Job, ~Over(j), WaitPaid(j),
         PickJob, queue # <<>>, Head(queue) = j
  PROVE  Len(flows[j]) <= faults /\ mem[j].tries <= faults
<1>1. queue \in Seq(Job) /\ Len(queue) \in Nat
  BY TypeParts, LenProperties DEF QueueType
<1>2. queue[1] = j /\ 1 \in 1..Len(queue)
  BY <1>1, EmptySeq, HeadTailProperties
<1>3. j \in Queued
  BY <1>2 DEF Queued
<1>4. ~InPass(j)
  BY DEF PickJob, InPass
<1> QED BY <1>3, <1>4 DEF WaitPaid

LEMMA PaidTypes ==
  ASSUME TypeOK, NEW j \in Job
  PROVE  Len(flows[j]) \in Nat /\ mem[j].tries \in Nat /\ db[j].tries \in Nat
<1>1. mem[j] \in JobObject /\ db[j] \in JobObject \cup {NoRow}
  BY TypeParts DEF RowsType
<1>2. flows[j] \in Seq(Flow)
  BY TypeParts DEF FlowType
<1> QED BY <1>1, <1>2, LenProperties DEF JobObject, NoRow, NewJob

LEMMA FlowsPaidNext ==
  ASSUME WInv, EInv, [Next]_vars, NEW j \in Job, FlowsPaid(j), WaitPaid(j)
  PROVE  FlowsPaid(j)'
<1>1. TypeOK /\ AbortsName /\ QueueType /\ flows \in [Job -> Seq(Flow)]
  BY TypeParts DEF EInv, FlowType
<1>2. /\ faults \in Nat /\ faults' \in Nat /\ Len(flows[j]) \in Nat
      /\ faults' = faults \/ faults' = faults + 1
  BY <1>1, FaultsGrow, PaidTypes
<1>3. sched.pc # "idle" => sched \in Working
  BY <1>1, WorkingFields DEF QueueType
<1>4. CASE LaunchFlow /\ sched.job = j
  <2>1. PICK f \in Flow : flows'[j] = Append(flows[j], f)
    <3>1. [at |-> sched.server, phase |-> "launched"] \in Flow
      BY <1>3, <1>4, WorkingFields DEF LaunchFlow, Flow
    <3> QED BY <1>1, <1>4, <3>1 DEF LaunchFlow
  <2>2. Len(flows'[j]) = Len(flows[j]) + 1
    BY <1>1, <2>1, AppendProperties
  <2>3. sched'.pc = "respond" /\ Len(flows[j]) <= faults
    BY <1>3, <1>4 DEF LaunchFlow, Working, FlowsPaid
  <2> QED BY <1>2, <2>2, <2>3 DEF FlowsPaid
<1>5. CASE ~(LaunchFlow /\ sched.job = j)
  <2>1. Len(flows'[j]) = Len(flows[j])
    BY <1>1, <1>5, LenKept
  <2>2. ASSUME sched'.job = j, sched'.pc = "launch" PROVE Len(flows[j]) <= faults
    <3>1. CASE sched' = sched
      BY <2>2, <3>1 DEF FlowsPaid
    <3>2. CASE CommitSubmitted
      <4>1. sched.job = j /\ present(j) /\ sched.pc = "submit"
        BY <1>3, <2>2, <3>2, WorkingFields DEF CommitSubmitted, Working
      <4> QED BY <4>1 DEF WaitPaid, Over
    <3>3. CASE Restart \/ (Scheduler /\ ~CommitSubmitted)
      BY <1>3, <2>2, <3>3, WorkingFields
      DEF Restart, Scheduler, PickJob, EndPass, LaunchFlow, RecordExecution,
          ExecutionFails, ExecutionThrows, CommitRetry, RefreshJob, CommitResponse, Working
    <3> QED BY <3>1, <3>2, <3>3, SchedWriters
  <2>3. Len(flows[j]) <= 1 + faults
    BY DEF FlowsPaid
  <2> QED BY <1>2, <2>1, <2>2, <2>3 DEF FlowsPaid
<1> QED BY <1>4, <1>5

LEMMA TriesPaidNext ==
  ASSUME WInv, [Next]_vars, NEW j \in Job, TriesPaid(j), WaitPaid(j)
  PROVE  TriesPaid(j)'
<1> SUFFICES ASSUME ~Over(j)'
             PROVE  mem'[j].tries <= 1 + faults' /\ db'[j].tries <= 1 + faults'
  BY DEF TriesPaid
<1>1. TypeOK
  BY DEF WInv, IInv
<1>2. ~Over(j)
  BY <1>1, OverStays
<1>3. /\ faults \in Nat /\ faults' \in Nat
      /\ faults' = faults \/ faults' = faults + 1
  BY <1>1, FaultsGrow
<1>4. /\ mem[j].tries \in Nat /\ db[j].tries \in Nat
      /\ mem[j].tries <= 1 + faults /\ db[j].tries <= 1 + faults
  BY <1>1, <1>2, PaidTypes DEF TriesPaid
<1>5. \/ mem'[j].tries \in {mem[j].tries, db[j].tries, 0}
      \/ mem'[j].tries = mem[j].tries + 1 /\ mem[j].tries <= faults
  BY <1>1, <1>2, TriesWritten, PickedWaits
<1>6. db'[j].tries \in {db[j].tries, mem[j].tries, 0}
  BY <1>1, RowTries
<1> QED BY <1>3, <1>4, <1>5, <1>6

LEMMA WaitPaidNext ==
  ASSUME WInv, EInv, NoDuplicates, [Next]_vars, NEW j \in Job,
         FlowsPaid(j), TriesPaid(j), WaitPaid(j)
  PROVE  WaitPaid(j)'
<1>1. TypeOK /\ HeadIsCurrent /\ AbortsName /\ QueueType
  BY TypeParts DEF EInv, WInv, IInv
<1>2. /\ faults \in Nat /\ faults' \in Nat
      /\ faults' = faults \/ faults' = faults + 1
      /\ Restart \/ ExecutionFails \/ ExecutionThrows => faults' = faults + 1
      /\ RefreshJob => faults' = faults
  BY <1>1, FaultsGrow
<1>3. Len(flows[j]) \in Nat /\ mem[j].tries \in Nat /\ db[j].tries \in Nat
  BY <1>1, PaidTypes
<1>4. sched.pc # "idle" => sched \in Working
  BY <1>1, WorkingFields DEF QueueType
<1>5. SUFFICES ASSUME ~Over(j)'
               PROVE  /\ j \in Queued' /\ ~InPass(j)'
                           => Len(flows'[j]) <= faults' /\ mem'[j].tries <= faults'
                      /\ sched'.job = j /\ sched'.pc = "submit" => Len(flows'[j]) <= faults'
  BY DEF WaitPaid
<1>6. ~Over(j)
  BY <1>1, <1>5, OverStays
<1>7. /\ Len(flows[j]) <= 1 + faults
      /\ mem[j].tries <= 1 + faults /\ db[j].tries <= 1 + faults
  BY <1>6 DEF FlowsPaid, TriesPaid
<1>8. LaunchFlow /\ sched.job = j => sched'.pc = "respond" /\ sched'.job = j
  BY <1>4 DEF LaunchFlow, Working
<1>9. ASSUME j \in Queued', ~InPass(j)'
      PROVE  Len(flows'[j]) <= faults' /\ mem'[j].tries <= faults'
  <2>1. Len(flows'[j]) = Len(flows[j])
    BY <1>1, <1>8, <1>9, LenKept DEF InPass
  <2>2. CASE ScheduleJob(j)
    <3>1. flows[j] = <<>> /\ mem'[j].tries = 0
      BY <1>1, <2>2, TypeParts DEF ScheduleJob, WInv, NeverStarted, NewJob, RowsType
    <3>2. Len(<<>>) = 0
      BY EmptySeq
    <3> QED BY <1>2, <2>1, <3>1, <3>2
  <2>3. CASE Restart
    <3>1. faults' = faults + 1 /\ mem'[j].tries \in {mem[j].tries, db[j].tries}
      BY <1>2, <2>3 DEF Restart
    <3> QED BY <1>2, <1>3, <1>7, <2>1, <3>1
  <2>4. CASE ~ScheduleJob(j) /\ ~Restart
    <3>1. j \in Queued
      BY <1>1, <1>9, <2>4, JoinsQueue
    <3>2. CASE InPass(j)
      <4>1. faults' = faults + 1
        BY <1>6, <1>9, <3>2, PassIsPaid
      <4>2. ~RefreshJob
        BY <1>2, <4>1
      <4>3. ~PickJob
        BY <3>2 DEF PickJob, InPass
      <4>4. mem'[j].tries \in {mem[j].tries, 0}
        BY <1>1, <2>4, <4>2, <4>3, TriesWritten
      <4> QED BY <1>2, <1>3, <1>7, <2>1, <4>1, <4>4
    <3>3. CASE ~InPass(j)
      <4>1. Len(flows[j]) <= faults /\ mem[j].tries <= faults
        BY <1>6, <3>1, <3>3 DEF WaitPaid
      <4>2. ~(RefreshJob /\ sched.job = j)
        BY <3>3 DEF RefreshJob, InPass
      <4>3. ~(PickJob /\ Head(queue) = j)
        BY <1>9 DEF PickJob, InPass
      <4>4. mem'[j].tries \in {mem[j].tries, 0}
        BY <1>1, <2>4, <4>2, <4>3, TriesWritten
      <4> QED BY <1>2, <1>3, <2>1, <4>1, <4>4
    <3> QED BY <3>2, <3>3
  <2> QED BY <2>2, <2>3, <2>4
<1>10. ASSUME sched'.job = j, sched'.pc = "submit" PROVE Len(flows'[j]) <= faults'
  <2>1. Len(flows'[j]) = Len(flows[j])
    BY <1>1, <1>8, <1>10, LenKept
  <2>2. Len(flows[j]) <= faults
    <3>1. CASE sched' = sched
      BY <1>6, <1>10, <3>1 DEF WaitPaid
    <3>2. CASE PickJob
      <4>1. queue # <<>> /\ Head(queue) = j
        BY <1>10, <3>2 DEF PickJob, CanPick
      <4> QED BY <1>1, <1>6, <3>2, <4>1, PickedWaits
    <3>3. CASE Restart \/ (Scheduler /\ ~PickJob)
      BY <1>4, <1>10, <3>3, WorkingFields
      DEF Restart, Scheduler, CommitSubmitted, EndPass, LaunchFlow, RecordExecution,
          ExecutionFails, ExecutionThrows, CommitRetry, RefreshJob, CommitResponse, Working
    <3> QED BY <3>1, <3>2, <3>3, SchedWriters
  <2> QED BY <1>2, <1>3, <2>1, <2>2
<1> QED BY <1>9, <1>10

LEMMA FInvInit == Init => FInv
<1> SUFFICES ASSUME Init PROVE FInv
  OBVIOUS
<1>1. NoDuplicates /\ NewIsNotQueued /\ NoRowBeforeCommit
  BY OInvInit, NInvInit DEF OInv, NInv
<1>2. ASSUME NEW j \in Job PROVE FlowsPaid(j) /\ TriesPaid(j) /\ WaitPaid(j)
  <2>1. Len(flows[j]) = 0 /\ faults = 0 /\ mem[j].tries = 0 /\ db[j].tries = 0
    BY EmptySeq DEF Init, NewJob, NoRow
  <2> QED BY <2>1 DEF FlowsPaid, TriesPaid, WaitPaid
<1> QED BY <1>1, <1>2 DEF FInv, Paid

LEMMA FInvNext ==
  ASSUME WInv, EInv, FInv, [Next]_vars
  PROVE  FInv'
<1>1. TypeOK /\ HeadIsCurrent /\ NoDuplicates /\ NewIsNotQueued /\ NoRowBeforeCommit
  BY DEF WInv, IInv, FInv
<1>2. NoDuplicates' /\ NewIsNotQueued'
  BY <1>1, ReloadIsSound, NoDuplicatesNext, NewIsNotQueuedNext
<1>3. NoRowBeforeCommit'
  BY <1>1, NoRowNext
<1>4. ASSUME NEW j \in Job PROVE (FlowsPaid(j) /\ TriesPaid(j) /\ WaitPaid(j))'
  BY <1>1, FlowsPaidNext, TriesPaidNext, WaitPaidNext DEF FInv, Paid
<1> QED BY <1>2, <1>3, <1>4 DEF FInv, Paid

(* A job is given to servers at most once and once more for each failure,   *)
(* and as long as it has a row it is tried no more often, whatever fails    *)
(* and however often.                                                       *)
THEOREM RepeatsAreOfFailures == Spec => []RepeatsAreFailures
<1>1. Init => WInv /\ EInv /\ FInv
  BY WInvInit, EInvInit, FInvInit
<1>2. WInv /\ EInv /\ FInv /\ [Next]_vars => (WInv /\ EInv /\ FInv)'
  BY WInvNext, EInvNext, FInvNext DEF WInv, IInv
<1>3. FInv => RepeatsAreFailures
  BY DEF FInv, Paid, FlowsPaid, TriesPaid, Over, RepeatsAreFailures
<1> QED BY <1>1, <1>2, <1>3, PTL DEF Spec

-----------------------------------------------------------------------------
(***************************************************************************)
(* JobLifecycle implements JobService: every step takes at most one job    *)
(* one stage further, and writes at most the row of that job, and never    *)
(* writes what is not true of its stage.                                   *)
(***************************************************************************)
SInv == WInv /\ EInv /\ OInv /\ DInv /\ NInv

(* A step is about at most one job.                                         *)
Acts(j) == \/ Request(j) \/ DeleteJob(j) \/ Abort(j)
           \/ Scheduler /\ sched.job = j
           \/ \E n \in 1..Len(flows[j]) : Probe(j, n)

LEMMA SomebodyActs ==
  ASSUME TypeOK, [Next]_vars, ~Restart
  PROVE  \/ \E j \in Job : Acts(j)
         \/ db' = db /\ flows' = flows /\ request' = request /\ queue' = queue
<1>1. CASE Scheduler /\ sched.pc \notin {"idle", "loop"}
  BY <1>1, TypeParts, WorkingFields DEF Acts, QueueType
<1>2. CASE Scheduler /\ sched.pc \in {"idle", "loop"}
  BY <1>2 DEF Scheduler, PickJob, EndPass, CommitSubmitted, LaunchFlow, RecordExecution,
              ExecutionFails, ExecutionThrows, CommitRetry, RefreshJob, CommitResponse,
              serviceVars
<1>3. CASE Monitor
  BY <1>3 DEF Monitor, BeginPoll, PollJob, EndPoll, serviceVars
<1>4. CASE UNCHANGED vars
  BY <1>4 DEF vars
<1> QED BY <1>1, <1>2, <1>3, <1>4 DEF Next, Acts

(* It leaves the rows and the executions of the others alone, and where     *)
(* those that have no execution wait.                                       *)
LEMMA OthersStay ==
  ASSUME SInv, [Next]_vars, ~Restart, NEW k \in Job, Acts(k), NEW j \in Job, j # k
  PROVE  /\ db'[j] = db[j] /\ flows'[j] = flows[j] /\ request'[j] = request[j]
         /\ flows[j] = <<>> => (j \in Queued' <=> j \in Queued)
<1>1. /\ TypeOK /\ RowsType /\ FlowType /\ RequestType /\ QueueType /\ AbortsName
      /\ HeadIsCurrent
  BY TypeParts DEF SInv, WInv, IInv, EInv
<1>2. db'[j] = db[j] /\ flows'[j] = flows[j] /\ request'[j] = request[j]
  <2> USE <1>1 DEF RowsType, FlowType, RequestType
  <2>1. CASE Request(k)
    BY <2>1 DEF Request, ScheduleJob, MarkScheduled, MonitorRequest, CommitRequest
  <2>2. CASE DeleteJob(k)
    BY <2>2 DEF DeleteJob, serviceVars
  <2>3. CASE Abort(k)
    BY <2>3 DEF Abort, RequestAbort, AbortQueuedJob, AbortExecutingJob, serviceVars
  <2>4. CASE Scheduler /\ sched.job = k
    BY <2>4 DEF Scheduler, PickJob, EndPass, CommitSubmitted, LaunchFlow, RecordExecution,
                ExecutionFails, ExecutionThrows, CommitRetry, RefreshJob, CommitResponse,
                serviceVars
  <2>5. ASSUME NEW n \in 1..Len(flows[k]), Probe(k, n)
        PROVE  db'[j] = db[j] /\ flows'[j] = flows[j] /\ request'[j] = request[j]
    BY <2>5 DEF Probe, ProbeFlowStart, ProbeFlowFinish, ProbeFlowAbort, endFlow, serviceVars
  <2> QED BY <2>1, <2>2, <2>3, <2>4, <2>5 DEF Acts
<1>3. ASSUME flows[j] = <<>>, j \in Queued' PROVE j \in Queued
  <2>1. ~ScheduleJob(j)
    BY <1>1, <1>2 DEF ScheduleJob, RequestType
  <2> QED BY <1>1, <1>3, <2>1, JoinsQueue
<1>4. ASSUME flows[j] = <<>>, j \in Queued PROVE j \in Queued'
  <2>1. ASSUME ExecutionFails, sched.job = j PROVE FALSE
    <3>1. sched' # sched
      BY <1>1, <2>1, WorkingFields DEF ExecutionFails, QueueType, Working
    <3>2. ~(Scheduler /\ sched.job = k)
      BY <2>1
    <3>3. ~Request(k) /\ ~DeleteJob(k) /\ ~Abort(k)
      BY <3>1 DEF Request, ScheduleJob, MarkScheduled, MonitorRequest, CommitRequest,
                  DeleteJob, Abort, RequestAbort, AbortQueuedJob, AbortExecutingJob
    <3>4. ASSUME NEW n \in 1..Len(flows[k]), Probe(k, n) PROVE FALSE
      BY <3>1, <3>4 DEF Probe, ProbeFlowStart, ProbeFlowFinish, ProbeFlowAbort, endFlow
    <3> QED BY <3>2, <3>3, <3>4 DEF Acts
  <2> QED BY <1>4, <2>1, StaysQueued DEF LastTryFails, SInv
<1> QED BY <1>2, <1>3, <1>4

-----------------------------------------------------------------------------
(* The one execution of a job tells its stage.                              *)
LEMMA StageWithFlow ==
  ASSUME TypeOK, ExecutedOnce, NEW j \in Job, flows[j] # <<>>
  PROVE  /\ stageOf(j) = IF flows[j][1].phase = "ended" THEN "ended" ELSE "executing"
         /\ 1 \in 1..Len(flows[j])
<1>1. flows[j] \in Seq(Flow) /\ Len(flows[j]) \in Nat
  BY TypeParts, LenProperties DEF FlowType
<1>2. 1 \in 1..Len(flows[j])
  BY <1>1, EmptySeq
<1>3. Len(flows[j]) = 1
  BY <1>2, OnlyFirst
<1> QED BY <1>2, <1>3 DEF stageOf

LEMMA StageWithFlowNext ==
  ASSUME TypeOK', ExecutedOnce', NEW j \in Job, flows'[j] # <<>>
  PROVE  stageOf(j)' = IF flows'[j][1].phase = "ended" THEN "ended" ELSE "executing"
<1>1. flows'[j] \in Seq(Flow)
  BY DEF TypeOK
<1>2. Len(flows'[j]) \in Nat /\ Len(flows'[j]) # 0
  BY <1>1, LenProperties, EmptySeq
<1>3. Len(flows'[j]) <= 1
  BY DEF ExecutedOnce
<1>4. \A a \in Nat : a # 0 /\ a <= 1 => a = 1
  OBVIOUS
<1>5. Len(flows'[j]) = 1
  BY <1>2, <1>3, <1>4
<1> QED BY <1>5 DEF stageOf

StageMove(old, new) ==
  \/ new = old
  \/ old = "requested" /\ new = "queued"
  \/ old = "queued" /\ new \in {"executing", "givenUp"}
  \/ old = "executing" /\ new = "ended"

LEMMA StageMoves ==
  ASSUME SInv, SInv', [Next]_vars, ~Restart, NEW j \in Job
  PROVE  StageMove(stageOf(j), stageOf(j)')
<1>1. /\ TypeOK /\ HeadIsCurrent /\ ExecutedOnce /\ TypeOK' /\ ExecutedOnce' /\ RequestType
      /\ WInv
  BY TypeParts DEF SInv, OInv, EInv, WInv, IInv
<1>2. CASE flows[j] # <<>>
  <2>1. flows'[j] # <<>>
    BY <1>1, <1>2, KeepsFlow
  <2>2. flows[j][1].phase = "ended" => flows'[j][1].phase = "ended"
    BY <1>2, EndedStays DEF HasEnded, SInv
  <2> QED BY <1>1, <1>2, <2>1, <2>2, StageWithFlow, StageWithFlowNext DEF StageMove
<1>3. CASE flows[j] = <<>> /\ flows'[j] # <<>>
  <2>1. LaunchFlow /\ sched.job = j
    BY <1>1, <1>3, FirstFlow DEF WInv
  <2>2. request[j] # "new" /\ j \in Queued
    BY <1>1, <2>1, PassIsQueued DEF LaunchFlow, WInv, PassIsSound, Contacting
  <2>3. flows'[j][1].phase # "ended"
    <3> DEFINE f == [at |-> sched.server, phase |-> "launched"]
    <3>1. f \in Flow /\ f.phase = "launched" /\ <<>> \in Seq(Flow) /\ Len(<<>>) = 0
      BY <1>1, <2>1, TypeParts, WorkingFields, EmptySeq DEF LaunchFlow, QueueType, Flow
    <3>2. flows'[j] = Append(<<>>, f)
      BY <1>1, <1>3, <2>1, TypeParts DEF LaunchFlow, FlowType
    <3> HIDE DEF f
    <3>3. flows'[j][0 + 1] = f
      BY <3>1, <3>2, AppendProperties
    <3> QED BY <3>1, <3>3
  <2>4. stageOf(j) = "queued" /\ stageOf(j)' = "executing"
    BY <1>1, <1>3, <2>2, <2>3, StageWithFlowNext DEF stageOf
  <2> QED BY <2>4 DEF StageMove
<1>4. CASE flows[j] = <<>> /\ flows'[j] = <<>>
  <2>1. request'[j] = "new" => request[j] = "new"
    BY <1>1, RequestMoves
  <2>2. CASE request[j] = "new"
    <3>1. request'[j] # "new" => j \in Queued'
      <4>1. ASSUME request'[j] # "new" PROVE Waiting(j)'
        <5>1. ScheduleJob(j)
          <6>1. ASSUME NEW k \in Job, Request(k) PROVE k = j /\ ScheduleJob(j)
            BY <1>1, <2>2, <4>1, <6>1
            DEF Request, ScheduleJob, MarkScheduled, MonitorRequest, CommitRequest, RequestType
          <6> QED BY <2>2, <4>1, <6>1, RequestWriters
        <5> QED BY <1>1, <5>1 DEF ScheduleJob, Waiting, RequestType
      <4> QED BY <4>1 DEF SInv, WInv, WaitsInQueue
    <3> QED BY <1>4, <2>2, <3>1 DEF stageOf, StageMove
  <2>3. CASE request[j] # "new"
    <3>1. j \in Queued' => j \in Queued
      BY <1>1, <2>3, JoinsQueue DEF ScheduleJob
    <3> QED BY <1>4, <2>1, <2>3, <3>1 DEF stageOf, StageMove
  <2> QED BY <2>2, <2>3
<1> QED BY <1>2, <1>3, <1>4

-----------------------------------------------------------------------------
(* What a row says is true of the stage of its job.                         *)
LEMMA RowIsTruthful ==
  ASSUME SInv', NEW j \in Job
  PROVE  Service!Truthful(db'[j].status, stageOf(j)')
<1>1. TypeOK' /\ ExecutedOnce'
  BY DEF SInv, EInv, OInv
<1>2. db'[j].status = "STARTED" => flows'[j] # <<>>
  BY DEF SInv, WInv, StartedHasFlow, isRunning
<1>3. db'[j].status \in {"FINISHED", "ABORTED"}
        => flows'[j] # <<>> /\ flows'[j][1].phase = "ended"
  BY DEF SInv, NInv, RowsEnd, HasEnded
<1>4. db'[j].status = "FAILED" => stageOf(j)' = "givenUp"
  BY DEF SInv, NInv, RowsEnd, GaveUp, stageOf
<1> QED BY <1>1, <1>2, <1>3, <1>4, StageWithFlowNext DEF Service!Truthful

(* A row disappears only when its job is done.                              *)
LEMMA DoneIsDeleted ==
  ASSUME SInv, [Next]_vars, NEW j \in Job, db'[j].status = "ABSENT"
  PROVE  db[j].status \in {"ABSENT", "FINISHED", "FAILED", "ABORTED"}
<1>1. TypeOK /\ RowsType /\ mem[j] \in JobObject
  BY TypeParts DEF SInv, EInv, RowsType
<1>2. CASE db'[j] = db[j]
  BY <1>2
<1>3. CASE DeleteJob(j)
  BY <1>3 DEF DeleteJob, isDone
<1>4. CASE present(j) /\ ProbeWrites(j)
  <2>1. db[j] \in JobObject
    BY <1>1, <1>4, NoRowColumns DEF present, RowsType
  <2>2. \E st \in {"STARTED", "FINISHED", "ABORTED"} : db'[j].status = st
    BY <1>4, <2>1 DEF ProbeWrites, JobObject
  <2> QED BY <2>2
<1>5. CASE ProgramWrites(j)
  <2>1. db'[j].status = mem[j].status \/ db'[j].status = "SUBMITTED"
    BY <1>1, <1>5 DEF ProgramWrites, JobObject
  <2> QED BY <1>1, <2>1, JobColumns
<1> QED BY <1>1, <1>2, <1>3, <1>4, <1>5, RowWriters

-----------------------------------------------------------------------------
LEMMA SInvNext ==
  ASSUME KnowsExecutions, SInv, [Next]_vars
  PROVE  SInv'
BY WInvNext, EInvNext, OInvNext, DInvNext, NInvNext DEF SInv, WInv, IInv

LEMMA ServiceStep ==
  ASSUME KnowsExecutions, SInv, [Next]_vars
  PROVE  [Service!Next]_Service!vars
<1> DEFINE st == [j \in Job |-> stageOf(j)]
           td == [j \in Job |-> db[j].status]
           stNext == [j \in Job |-> stageOf(j)']
           tdNext == [j \in Job |-> db'[j].status]
<1>1. TypeOK /\ TypeOK' /\ SInv' /\ ~Restart
  BY SInvNext DEF SInv, EInv, KnowsExecutions, Restart, Fault
<1>2. CASE db' = db /\ flows' = flows /\ request' = request /\ queue' = queue
  <2>1. \A j \in Job : stageOf(j)' = stageOf(j)
    BY <1>2 DEF stageOf, Queued
  <2>2. UNCHANGED Service!vars
    BY <1>2, <2>1 DEF Service!vars
  <2> QED BY <2>2
<1>3. ASSUME NEW k \in Job, Acts(k) PROVE [Service!Next]_Service!vars
  <2>1. \A j \in Job \ {k} : stageOf(j)' = stageOf(j) /\ db'[j].status = db[j].status
    BY <1>1, <1>3, OthersStay DEF stageOf
  <2>2. StageMove(stageOf(k), stageOf(k)')
    BY <1>1, StageMoves
  <2>3. Service!Proceeds(k) \/ stNext = st
    <3>1. stNext = [st EXCEPT ![k] = stageOf(k)']
      BY <2>1
    <3>2. st[k] = stageOf(k)
      OBVIOUS
    <3>3. CASE stageOf(k)' = stageOf(k)
      BY <2>1, <3>3
    <3>4. CASE stageOf(k)' # stageOf(k)
      BY <2>2, <3>1, <3>2, <3>4 DEF StageMove, Service!Proceeds
    <3> QED BY <3>3, <3>4
  <2>4. Service!Tells(k) \/ tdNext = td
    <3>1. tdNext = [td EXCEPT ![k] = db'[k].status]
      BY <2>1
    <3>2. CASE db'[k].status = db[k].status
      BY <2>1, <3>2
    <3>3. CASE db'[k].status # db[k].status
      <4>1. db'[k].status \in {"ABSENT", "UNKNOWN", "SCHEDULED", "SUBMITTED", "STARTED",
                               "FINISHED", "FAILED", "ABORTED"}
        <5>1. db'[k] \in JobObject \cup {NoRow}
          BY <1>1 DEF TypeOK
        <5> QED BY <5>1, NoRowColumns, JobColumns DEF Status
      <4>2. Service!Truthful(db'[k].status, stNext[k])
        BY <1>1, RowIsTruthful
      <4>3. db'[k].status = "ABSENT" => td[k] \in {"FINISHED", "FAILED", "ABORTED"}
        BY <1>1, <3>3, DoneIsDeleted
      <4> QED BY <3>1, <4>1, <4>2, <4>3 DEF Service!Tells
    <3> QED BY <3>2, <3>3
  <2> QED BY <2>3, <2>4 DEF Service!Next, Service!vars
<1> QED BY <1>1, <1>2, <1>3, SomebodyActs

(* Where the program knows of every execution, the flow service keeps its   *)
(* promise: a job is executed at most once, goes from request to its end by *)
(* way of the queue, and its row never says what has not happened.          *)
THEOREM ImplementsService ==
  ASSUME KnowsExecutions
  PROVE  Spec => PromiseIsKept
<1>1. Init => SInv
  BY WInvInit, EInvInit, OInvInit, DInvInit, NInvInit DEF SInv
<1>2. Init => Service!Init
  <2> SUFFICES ASSUME Init PROVE Service!Init
    OBVIOUS
  <2>1. \A j \in Job : stageOf(j) = "requested" /\ db[j].status = "ABSENT"
    BY NoRowColumns DEF Init, stageOf
  <2> QED BY <2>1 DEF Service!Init
<1>3. SInv /\ [Next]_vars => SInv' /\ [Service!Next]_Service!vars
  BY SInvNext, ServiceStep
<1> QED BY <1>1, <1>2, <1>3, PTL DEF Spec, PromiseIsKept, Service!Spec
=============================================================================
