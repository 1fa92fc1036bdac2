\* Two jobs and three changes of a file with three servers.
CONSTANTS
  NoServer = NoServer
  Server = {s1, s2, s3}
  Job = {j1, j2}
  Settings = {1, 2}
  MaxUpdates = 3
  FaultKinds = {"head", "sync"}
SPECIFICATION Spec
\* All jobs may be done and the file may change no more.
CHECK_DEADLOCK FALSE
SYMMETRY Symmetry
INVARIANTS
  TypeOK
  WorkerAccepts
  RemovedAcceptsNone
  HeadIsNoWorker
PROPERTIES
  BusyComesBack
