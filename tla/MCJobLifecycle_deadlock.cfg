\* The scheduler and the monitor wait for each other.
CONSTANTS
  s1 = s1
  s2 = s2
  NoServer = NoServer
  Notifier = Notifier
  Job = {1, 2}
  Server = {s1}
  Capacity <- MCCapacity
  MaxTries = 2
  TriesBound = 1
  FaultKinds = {}
  MaxFaults = 0
  Abortable = {1, 2}
SPECIFICATION Spec
\* All jobs may be done and deleted: the system may stop.
CHECK_DEADLOCK FALSE
INVARIANTS
  NoLockCycle
