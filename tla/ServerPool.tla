----------------------------- MODULE ServerPool -----------------------------
(***************************************************************************)
(* The proxies of the Meandre servers while the configuration changes: the *)
(* thread that reloads the properties file (FileMonitor, the configuration *)
(* object, NemaFlowService.configChanged), the worker set, the balancer    *)
(* and the removed workers of MeandreJobScheduler, its decommissioning     *)
(* task, the cache of MeandreServerProxyFactory, and the jobs that start   *)
(* and end on the servers meanwhile.                                       *)
(*                                                                         *)
(* Proxies and configurations are equal when host and port are, so every   *)
(* set of proxies holds at most one of each server.  A proxy is named by   *)
(* its server and its number among the proxies the factory made for that   *)
(* server, and a set of proxies is the function that gives this number, 0  *)
(* where there is none.  setWorkerConfigs, runJobs and the decommissioning *)
(* task exclude each other by the workersLock.                             *)
(***************************************************************************)
EXTENDS Integers, Sequences, FiniteSets

CONSTANTS
  Server,       \* host and port
  Job,          \* jobs, each executed once
  Settings,     \* maxConcurrentJobs, which stands for what a change concerns
  NoServer,     \* a job that was not executed yet
  FaultKinds,   \* the kinds of failure that may happen
  MaxUpdates    \* model bound: changes of the file

ASSUME ServersAssumption == NoServer \notin Server /\ IsFiniteSet(Server)
ASSUME JobsAssumption == IsFiniteSet(Job)
ASSUME SettingsAssumption == Settings \subseteq Nat \ {0}
ASSUME FaultsAssumption == FaultKinds \subseteq {"head", "sync"}
ASSUME UpdatesAssumption == MaxUpdates \in Nat

VARIABLES
  config,         \* head and workers as PropertiesBasedFlowServiceConfig has them
  workerConfigs,  \* the settings of each server the scheduler works with
  proxies,        \* all the proxies ever made for each server
  factory,        \* proxyInstances
  workers,        \* workers of the scheduler and of its balancer
  removed,        \* removedWorkers
  headServer,     \* headServer of NemaFlowService
  update,         \* where the thread that reloads the file stands
  decommissioner, \* the decommissioning task is still scheduled
  threw,          \* history: a synchronization of a worker has thrown
  flow,           \* the flow of each job
  updates         \* changes of the file so far

poolVars == <<workerConfigs, factory, workers, removed, headServer>>
vars == <<config, workerConfigs, proxies, factory, workers, removed, headServer,
          update, decommissioner, threw, flow, updates>>

-----------------------------------------------------------------------------
Configured == Settings \cup {0}
Flow == [at: {NoServer}, phase: {"waiting"}]
        \cup [at: Server, phase: {"submitted", "started", "ended"}]
Proxy == [settings: Settings, head: BOOLEAN, accepting: BOOLEAN,
          running: SUBSET Job, aborting: SUBSET Job, watching: SUBSET Job]

NewProxy(settings, head) ==
  [settings |-> settings, head |-> head, accepting |-> TRUE,
   running |-> {}, aborting |-> {}, watching |-> {}]

(* A head executes no jobs: its maxConcurrentJobs is never read.            *)
HeadSettings == CHOOSE n \in Settings : TRUE

load(p)   == Cardinality(p.running) + Cardinality(p.aborting)
isBusy(p) == p.settings <= load(p)
isIdle(p) == load(p) = 0

(* The flows that Meandre reports as running on server s.                   *)
Live(s) == {j \in Job : flow[j].at = s /\ flow[j].phase \in {"submitted", "started"}}

(* PropertiesBasedFlowServiceConfig.init loads head and workers, and the    *)
(* scheduler makes the workers before the service makes the head.  Start    *)
(* files that name the head as a worker, which only a reload refuses, are   *)
(* left out.                                                                *)
Init ==
  /\ config \in [head: Server, workers: [Server -> Configured]]
  /\ config.workers[config.head] = 0
  /\ \E s \in Server : config.workers[s] # 0
  /\ workerConfigs = config.workers
  /\ proxies = [s \in Server |->
       IF s = config.head THEN <<NewProxy(HeadSettings, TRUE)>>
       ELSE IF config.workers[s] # 0 THEN <<NewProxy(config.workers[s], FALSE)>>
       ELSE <<>>]
  /\ factory = [s \in Server |-> Len(proxies[s])]
  /\ workers = [s \in Server |-> IF config.workers[s] # 0 THEN 1 ELSE 0]
  /\ removed = [s \in Server |-> 0]
  /\ headServer = [server |-> config.head, number |-> 1]
  /\ update = "idle"
  /\ decommissioner = TRUE
  /\ threw = FALSE
  /\ flow = [j \in Job |-> [at |-> NoServer, phase |-> "waiting"]]
  /\ updates = 0

-----------------------------------------------------------------------------
(* Mutant: the head of a file may be one of its workers.                    *)
ReloadUnchecked ==
  /\ update = "idle"
  /\ updates < MaxUpdates
  /\ \E head \in Server, new \in [Server -> Configured] :
       /\ \E s \in Server : new[s] # 0
       /\ config.workers[head] = 0
       /\ new[config.head] = 0
       /\ config' = [head |-> head, workers |-> new]
  /\ update'  = "head"
  /\ updates' = updates + 1
  /\ UNCHANGED <<poolVars, proxies, decommissioner, threw, flow>>

(* The file changed: PropertiesBasedFlowServiceConfig.reload.  A refused    *)
(* file leaves the configuration as it was.                                 *)
Reload ==
  /\ update = "idle"
  /\ updates < MaxUpdates
  /\ \E head \in Server, new \in [Server -> Configured] :
       /\ \E s \in Server : new[s] # 0
       /\ new[head] = 0
       /\ config.workers[head] = 0
       /\ new[config.head] = 0
       /\ config' = [head |-> head, workers |-> new]
  /\ update'  = "head"
  /\ updates' = updates + 1
  /\ UNCHANGED <<poolVars, proxies, decommissioner, threw, flow>>

(* Mutant: the exception of the factory is only logged.                     *)
ChangeHeadLogged ==
  /\ update = "head"
  /\ headServer' = [server |-> config.head, number |-> factory[config.head]]
  /\ factory' = IF headServer.server = config.head THEN factory
                ELSE [factory EXCEPT ![headServer.server] = 0]
  /\ update' = "workers"
  /\ UNCHANGED <<config, workerConfigs, proxies, workers, removed, decommissioner,
                 threw, flow, updates>>

(* NemaFlowService.configChanged.  A head that cannot be instantiated ends  *)
(* the notification with an exception, before the workers are looked at.    *)
(* The factory hands out the proxy it has for the server, if any.           *)
ChangeHead ==
  /\ update = "head"
  /\ LET h == config.head IN
       \/ /\ h = headServer.server
          /\ update' = "workers"
          /\ UNCHANGED <<proxies, factory, headServer>>
       \/ /\ h # headServer.server
          /\ factory[h] = 0 /\ "head" \in FaultKinds
          /\ update' = "idle"
          /\ UNCHANGED <<proxies, factory, headServer>>
       \/ /\ h # headServer.server
          /\ proxies' = IF factory[h] # 0 THEN proxies
                        ELSE [proxies EXCEPT ![h] =
                                Append(@, NewProxy(HeadSettings, TRUE))]
          /\ headServer' = [server |-> h, number |-> IF factory[h] # 0 THEN factory[h]
                                                     ELSE Len(proxies'[h])]
          /\ factory' = [factory EXCEPT ![h] = headServer'.number, ![headServer.server] = 0]
          /\ update' = "workers"
  /\ UNCHANGED <<config, workerConfigs, workers, removed, decommissioner, threw, flow, updates>>

-----------------------------------------------------------------------------
(* MeandreJobScheduler.setWorkerConfigs, for the configuration as it is.    *)
Gone    == {s \in Server : workerConfigs[s] # 0 /\ config.workers[s] = 0}
Added   == {s \in Server : workerConfigs[s] = 0 /\ config.workers[s] # 0}
Changed == {s \in Server : /\ workerConfigs[s] # 0 /\ config.workers[s] # 0
                           /\ workerConfigs[s] # config.workers[s]}

(* The proxies that stop: remembered while they have jobs, else released.   *)
StillProcessing == {s \in Gone : factory[s] # 0 /\ ~isIdle(proxies[s][factory[s]])}

(* RemoteMeandreServerProxy.syncJobsWithServer.  Jobs that do not run on    *)
(* the server leave runningJobs, and so do all that are being aborted,      *)
(* which stay in abortPending; the monitor forgets the jobs of both kinds.  *)
synced(s, p) ==
  [p EXCEPT !.running  = (@ \cap Live(s)) \ p.aborting,
            !.watching = @ \ ((p.running \ Live(s)) \cup p.aborting)]

(* It removes from the list it iterates over when a job runs on the server, *)
(* which goes unnoticed for the last but one element only: it throws for    *)
(* some orders of the list unless no job runs, and for all orders if all do.*)
SyncThrows(s, p)    == p.running \cap Live(s) # {}
SyncSucceeds(s, p)  == p.running \cap Live(s) = {} \/ ~(p.running \subseteq Live(s))

(* Mutant: a proxy that comes back is not started again.                    *)
addedStopped(s, synchronize) ==
  IF factory[s] = 0 THEN NewProxy(config.workers[s], FALSE) ELSE proxies[s][factory[s]]

(* The proxy of an added server: the cached one, with its settings as they  *)
(* are, or a new one.                                                       *)
added(s, synchronize) ==
  IF factory[s] = 0 THEN NewProxy(config.workers[s], FALSE)
  ELSE [(IF synchronize /\ removed[s] # 0 THEN synced(s, proxies[s][factory[s]])
         ELSE proxies[s][factory[s]]) EXCEPT !.accepting = TRUE]

(* Mutant: a server that comes back stays among the removed ones.           *)
ReconfigureKeepsRemoved(A, T, C) ==
  /\ factory' = [s \in Server |-> IF s \in Gone \ StillProcessing THEN 0
                                 ELSE IF s \in A /\ factory[s] = 0 THEN Len(proxies[s]) + 1
                                 ELSE factory[s]]
  /\ workers' = [s \in Server |-> IF s \in Gone THEN 0
                                 ELSE IF s \in A /\ workers[s] = 0 THEN factory'[s]
                                 ELSE workers[s]]
  /\ removed' = [s \in Server |-> IF s \in StillProcessing /\ removed[s] = 0 THEN factory[s]
                                 ELSE removed[s]]
  /\ proxies' = [s \in Server |->
       CASE s \in Gone /\ factory[s] # 0 -> [proxies[s] EXCEPT ![factory[s]].accepting = FALSE]
         [] s \in A /\ factory[s] = 0 -> Append(proxies[s], added(s, FALSE))
         [] s \in A /\ factory[s] # 0 -> [proxies[s] EXCEPT ![factory[s]] = added(s, s \in T)]
         [] OTHER -> proxies[s]]

(* The whole of setWorkerConfigs for the removed servers, the servers A of  *)
(* the added ones, of which those in T are synchronized, and the servers C  *)
(* of the changed ones.                                                     *)
Reconfigure(A, T, C) ==
  /\ factory' = [s \in Server |-> IF s \in Gone \ StillProcessing THEN 0
                                 ELSE IF s \in A /\ factory[s] = 0 THEN Len(proxies[s]) + 1
                                 ELSE factory[s]]
  /\ workers' = [s \in Server |-> IF s \in Gone THEN 0
                                 ELSE IF s \in A /\ workers[s] = 0 THEN factory'[s]
                                 ELSE workers[s]]
  /\ removed' = [s \in Server |-> IF s \in StillProcessing /\ removed[s] = 0 THEN factory[s]
                                 ELSE IF s \in A THEN 0
                                 ELSE removed[s]]
  /\ proxies' = [s \in Server |->
       CASE s \in Gone /\ factory[s] # 0 -> [proxies[s] EXCEPT ![factory[s]].accepting = FALSE]
         [] s \in A /\ factory[s] = 0 -> Append(proxies[s], added(s, FALSE))
         [] s \in A /\ factory[s] # 0 -> [proxies[s] EXCEPT ![factory[s]] = added(s, s \in T)]
         [] s \in C /\ workers[s] # 0 ->
              [proxies[s] EXCEPT ![workers[s]].settings = config.workers[s]]
         [] OTHER -> proxies[s]]

(* The added servers that come back before they were decommissioned.  The   *)
(* server may not answer, and is then not synchronized.                     *)
ComesBack(s) == removed[s] # 0 /\ factory[s] # 0

SetWorkerConfigs ==
  /\ update = "workers"
  /\ \E T \in SUBSET {s \in Added : ComesBack(s)} :
       /\ \A s \in T : SyncSucceeds(s, proxies[s][factory[s]])
       /\ Reconfigure(Added, T, Changed)
  /\ workerConfigs' = config.workers
  /\ update' = "idle"
  /\ UNCHANGED <<config, headServer, decommissioner, threw, flow, updates>>

(* The exception of a synchronization leaves with the removed servers gone, *)
(* the servers before it added, and workerConfigs as it was.                *)
SetWorkerConfigsThrows ==
  /\ "sync" \in FaultKinds
  /\ update = "workers"
  /\ \E bad \in {s \in Added : ComesBack(s)} :
       /\ SyncThrows(bad, proxies[bad][factory[bad]])
       /\ \E A \in SUBSET (Added \ {bad}) :
            \E T \in SUBSET {s \in A : ComesBack(s)} :
              /\ \A s \in T : SyncSucceeds(s, proxies[s][factory[s]])
              /\ Reconfigure(A, T, {})
  /\ update' = "idle"
  /\ threw' = TRUE
  /\ UNCHANGED <<config, workerConfigs, headServer, decommissioner, flow, updates>>

(* Mutant: the task does not ask whether the proxy is idle.                 *)
DecommissionServersBusy ==
  /\ decommissioner
  /\ \E s \in Server :
       /\ removed[s] # 0
       /\ removed' = [removed EXCEPT ![s] = 0]
       /\ factory' = [factory EXCEPT ![s] = 0]
  /\ UNCHANGED <<config, workerConfigs, proxies, workers, headServer, update,
                 decommissioner, threw, flow, updates>>

(* DecommissionServers.run: the loop removes from the set it iterates over, *)
(* which goes unnoticed for the last element only; otherwise the exception  *)
(* ends the periodic task for good.                                         *)
DecommissionServers ==
  /\ decommissioner
  /\ \E s \in Server :
       /\ removed[s] # 0 /\ isIdle(proxies[s][removed[s]])
       /\ LET others == {t \in Server \ {s} : removed[t] # 0} IN
            \/ /\ \A t \in others : ~isIdle(proxies[t][removed[t]])
               /\ UNCHANGED decommissioner
            \/ /\ others # {}
               /\ decommissioner' = FALSE
       /\ removed' = [removed EXCEPT ![s] = 0]
       /\ factory' = [factory EXCEPT ![s] = 0]
  /\ UNCHANGED <<config, workerConfigs, proxies, workers, headServer, update, threw, flow, updates>>

-----------------------------------------------------------------------------
(* The scheduler gives a job to a server of the balancer that accepts jobs  *)
(* and is not busy; which one is the balancer's choice.                     *)
ExecuteJob(j) ==
  /\ flow[j].phase = "waiting"
  /\ \E s \in Server :
       LET n == workers[s] IN
       /\ n # 0
       /\ proxies[s][n].accepting
       /\ ~isBusy(proxies[s][n])
       /\ flow' = [flow EXCEPT ![j] = [at |-> s, phase |-> "submitted"]]
       /\ proxies' = [proxies EXCEPT ![s][n].running = @ \cup {j},
                                     ![s][n].watching = @ \cup {j}]
  /\ UNCHANGED <<config, poolVars, update, decommissioner, threw, updates>>

(* The flow on the Meandre server.                                          *)
FlowGoesOn(j) ==
  /\ \/ /\ flow[j].phase = "submitted"
        /\ flow' = [flow EXCEPT ![j].phase = "started"]
     \/ /\ flow[j].phase = "started"
        /\ flow' = [flow EXCEPT ![j].phase = "ended"]
  /\ UNCHANGED <<config, poolVars, proxies, update, decommissioner, threw, updates>>

(* MeandreJobScheduler.abortJob for a running job: only the workers are     *)
(* searched for the server.                                                 *)
AbortJob(j) ==
  /\ flow[j].phase = "started"
  /\ LET s == flow[j].at
         n == workers[s]
     IN /\ n # 0
        /\ j \notin proxies[s][n].aborting
        /\ proxies' = [proxies EXCEPT ![s][n].aborting = @ \cup {j}]
  /\ UNCHANGED <<config, poolVars, update, decommissioner, threw, flow, updates>>

(* The monitor reports a status other than STARTED to the proxies that      *)
(* listen, for the last time when the job ended.                            *)
JobStatusUpdate(j) ==
  LET drop(p) == IF j \notin p.watching THEN p
                 ELSE [p EXCEPT !.running = @ \ {j}, !.aborting = @ \ {j},
                                !.watching = IF flow[j].phase = "ended" THEN @ \ {j} ELSE @]
  IN /\ flow[j].phase \in {"submitted", "ended"}
     /\ \E s \in Server : \E n \in 1..Len(proxies[s]) : j \in proxies[s][n].watching
     /\ proxies' = [s \in Server |-> [n \in 1..Len(proxies[s]) |-> drop(proxies[s][n])]]
     /\ UNCHANGED <<config, poolVars, update, decommissioner, threw, flow, updates>>

-----------------------------------------------------------------------------
ConfigChanged == ChangeHead \/ SetWorkerConfigs \/ SetWorkerConfigsThrows

Next ==
  \/ Reload
  \/ ConfigChanged
  \/ DecommissionServers
  \/ \E j \in Job : ExecuteJob(j) \/ FlowGoesOn(j) \/ AbortJob(j) \/ JobStatusUpdate(j)

Spec == Init /\ [][Next]_vars

-----------------------------------------------------------------------------
TypeOK ==
  /\ config \in [head: Server, workers: [Server -> Configured]]
  /\ workerConfigs \in [Server -> Configured]
  /\ proxies \in [Server -> Seq(Proxy)]
  /\ factory \in [Server -> Nat] /\ workers \in [Server -> Nat] /\ removed \in [Server -> Nat]
  /\ \A s \in Server : /\ factory[s] <= Len(proxies[s])
                        /\ workers[s] <= Len(proxies[s])
                        /\ removed[s] <= Len(proxies[s])
  /\ headServer \in [server: Server, number: Nat \ {0}]
  /\ headServer.number <= Len(proxies[headServer.server])
  /\ update \in {"idle", "head", "workers"}
  /\ decommissioner \in BOOLEAN
  /\ threw \in BOOLEAN
  /\ flow \in [Job -> Flow]
  /\ updates \in 0..MaxUpdates

(* Every worker accepts jobs, so the balancer never skips it for good.      *)
WorkerAccepts == \A s \in Server : workers[s] # 0 => proxies[s][workers[s]].accepting

(* While the proxy of a server waits to be decommissioned, the server has no *)
(* worker, and the proxy accepts no job.                                    *)
RemovedAcceptsNone ==
  \A s \in Server : removed[s] # 0 =>
    workers[s] = 0 /\ ~proxies[s][removed[s]].accepting

(* A proxy that has jobs is forgotten by the removed workers only to be a   *)
(* worker again, as long as the factory remembers it.                       *)
BusyComesBack == [][
  \A s \in Server : removed[s] # 0 /\ removed[s] = factory[s]
                     /\ removed'[s] # removed[s] /\ ~isIdle(proxies[s][removed[s]])
    => workers'[s] = removed[s]]_vars

(* The head is no worker, as long as no synchronization has thrown: the     *)
(* three checks of PropertiesBasedFlowServiceConfig.reload compare a file   *)
(* with the one before it only, and heads that could not be reached leave   *)
(* the service with an older head than the file names.  Were head and       *)
(* worker one proxy, a change of the workers would stop the head.  (While   *)
(* an update is under way they may be, when an earlier one could not reach  *)
(* the head.)                                                               *)
HeadIsApart == update # "workers" => workers[headServer.server] = 0
HeadIsNoWorker == ~threw => HeadIsApart

(* As long as no synchronization has thrown, the factory remembers the      *)
(* proxy of every worker: it is the one a later change of the file stops.   *)
WorkerIsRemembered == \A s \in Server : workers[s] # 0 => factory[s] = workers[s]
WorkerIsCached == ~threw => WorkerIsRemembered

=============================================================================
