\* Every kind of failure, a restart included, twice.
CONSTANTS
  s1 = s1
  s2 = s2
  NoServer = NoServer
  Notifier = Notifier
  Job = {1}
  Server = {s1, s2}
  Capacity <- MCCapacity
  MaxTries = 2
  TriesBound = 2
  FaultKinds = {"requestTx", "submitTx", "refused", "lostReply", "unchecked", "responseTx", "retryTx", "restart"}
  MaxFaults = 2
  Abortable = {1}
SPECIFICATION FairSpec
\* All jobs may be done and deleted: the system may stop.
CHECK_DEADLOCK FALSE
INVARIANTS
  TypeOK
  SlotIsWatched
  RepeatsAreFailures
  ScheduledIsKept
PROPERTIES
  SlotIsFreed
  QueuedJobIsServed
