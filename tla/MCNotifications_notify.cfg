\* One job that is refused once at most, one failure and one restart.
CONSTANTS
  Job = {1}
  MaxTries = 2
  MaxNotes = 6
  FaultKinds = {"creator", "load", "reply", "record", "rollback", "slowStart"}
  MaxFaults = 1
  MaxRestarts = 1
SPECIFICATION Spec
\* The job may have ended with all its mails sent: the system may stop.
CHECK_DEADLOCK FALSE
INVARIANTS
  TypeOK
  VerdictIsHonest
  MailsAccounted
PROPERTIES
  NobodyIsOvertaken
  EveryRowIsSettled
  EndIsAnnounced
