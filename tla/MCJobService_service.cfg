\* One job, refusals and failing commits up to the last try and past it.
CONSTANTS
  NoServer = NoServer
  Notifier = Notifier
  Job = {1}
  Server = {s1, s2}
  Capacity <- MCCapacity
  MaxTries = 2
  TriesBound = 4
  FaultKinds = {"requestTx", "submitTx", "refused", "retryTx"}
  MaxFaults = 3
  Abortable = {1}
SPECIFICATION Spec
\* The job may be done and deleted: the system may stop.
CHECK_DEADLOCK FALSE
INVARIANTS
  RepeatsAreFailures
PROPERTIES
  PromiseIsKept
