\* Two jobs under the fairness of the two executors.
CONSTANTS
  s1 = s1
  s2 = s2
  NoServer = NoServer
  Notifier = Notifier
  Job = {1, 2}
  Server = {s1}
  Capacity <- MCTwoSlots
  MaxTries = 2
  TriesBound = 2
  FaultKinds = {}
  MaxFaults = 0
  Abortable = {}
SPECIFICATION FairSpec
\* All jobs may be done and deleted: the system may stop.
CHECK_DEADLOCK FALSE
PROPERTIES
  SlotIsFreed
  QueuedJobIsServed
