\* The failures a retry can repair, on two servers.
CONSTANTS
  s1 = s1
  s2 = s2
  NoServer = NoServer
  Notifier = Notifier
  Job = {1, 2}
  Server = {s1, s2}
  Capacity <- MCCapacity
  MaxTries = 2
  TriesBound = 2
  FaultKinds = {"submitTx", "refused"}
  MaxFaults = 1
  Abortable = {1, 2}
SPECIFICATION Spec
\* All jobs may be done and deleted: the system may stop.
CHECK_DEADLOCK FALSE
SYMMETRY ServerSymmetry
INVARIANTS
  ChosenServerHasRoom
  HeadIsCurrent
  ExecutedOnce
  RowNamesItsExecution
  AbortReachesItsFlow
  NoJobForgotten
PROPERTIES
  OnlyResponseCommitRevives
