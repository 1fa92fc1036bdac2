---------------------------- MODULE Notifications ----------------------------
(***************************************************************************)
(* The e-mails that tell the owner of a job about its progress: the poll   *)
(* of the monitor (PollingJobStatusMonitor), which posts a row for each    *)
(* change it sees (JobStatusNotificationCreator), and the mail delivery    *)
(* task (EmailNotificationSender), which loads the unsent rows, sends them *)
(* and records the outcome, with the failures of each step and restarts of *)
(* the service.                                                            *)
(*                                                                         *)
(* Rows are numbered as the database numbers them.  The status of a job is *)
(* changed by the scheduler and the Meandre servers, see JobLifecycle.     *)
(***************************************************************************)
EXTENDS Naturals, FiniteSets

CONSTANTS
  Job,
  MaxTries,     \* MAX_EXECUTION_TRIES of the scheduler
  MaxNotes,     \* model bound: rows, more than the changes of all jobs
  FaultKinds,   \* the kinds of failure that may happen
  MaxFaults,    \* model bound: failures
  MaxRestarts   \* model bound: restarts of the service

ASSUME JobsAssumption == IsFiniteSet(Job)
ASSUME BoundsAssumption ==
  /\ MaxTries \in Nat /\ MaxNotes \in Nat
  /\ MaxFaults \in Nat /\ MaxRestarts \in Nat
ASSUME FaultsAssumption ==
  FaultKinds \subseteq {"creator", "load", "reply", "record", "rollback", "slowStart"}

VARIABLES
  status,      \* the status of each job in the database
  numTries,    \* its executions tried
  watched,     \* the jobs of the monitor
  cached,      \* the status in the monitor's copy of each
  told,        \* history: the statuses a row was posted about
  missed,      \* history: the statuses the creator failed on
  posted,      \* the number of rows
  delivery,    \* the delivery status of each row
  copies,      \* mailQueue: how often each row is in it
  mailer,      \* where the mail delivery task is
  letter,      \* the row taken from the queue whose outcome is to be recorded
  outcome,     \* and that outcome
  attempts,    \* history: how often each row was handed to the mail server
  mailed,      \* history: the rows the mail server took
  unrecorded,  \* history: the outcomes of each row that were not recorded
  fresh,       \* whether init has loaded rows the task has not loaded yet
  faults, restarts

jobVars == <<status, numTries>>
monitorVars == <<watched, cached, told, missed>>
rowVars == <<posted, delivery>>
mailVars == <<letter, outcome, attempts, mailed, unrecorded>>
vars == <<jobVars, monitorVars, rowVars, copies, mailer, mailVars, fresh,
          faults, restarts>>

Id == 1..MaxNotes

(* ENDED stands for FINISHED, FAILED and ABORTED.                          *)
Status == {"SCHEDULED", "SUBMITTED", "STARTED", "ENDED"}

Fails(kind) ==
  /\ kind \in FaultKinds
  /\ faults < MaxFaults
  /\ faults' = faults + 1

Init ==
  /\ status = [j \in Job |-> "SCHEDULED"]
  /\ numTries = [j \in Job |-> 0]
  /\ watched = Job
  /\ cached = [j \in Job |-> "SCHEDULED"]
  /\ told = [j \in Job |-> {}]
  /\ missed = [j \in Job |-> {}]
  /\ posted = 0
  /\ delivery = [n \in Id |-> "NONE"]
  /\ copies = [n \in Id |-> 0]
  /\ mailer = "starting"
  /\ letter = 0
  /\ outcome = "NONE"
  /\ attempts = [n \in Id |-> 0]
  /\ mailed = {}
  /\ unrecorded = [n \in Id |-> 0]
  /\ fresh = FALSE
  /\ faults = 0
  /\ restarts = 0

-----------------------------------------------------------------------------
(* The life of a job, as far as its row tells it.                          *)

BecomesSubmitted(j) ==
  /\ status[j] = "SCHEDULED"
  /\ numTries[j] < MaxTries
  /\ status' = [status EXCEPT ![j] = "SUBMITTED"]
  /\ numTries' = [numTries EXCEPT ![j] = @ + 1]

(* The server refused: the job waits for another try, or has failed.       *)
IsRefused(j) ==
  /\ status[j] = "SUBMITTED"
  /\ status' = [status EXCEPT ![j] =
                  IF numTries[j] = MaxTries THEN "ENDED" ELSE "SCHEDULED"]
  /\ UNCHANGED numTries

BecomesStarted(j) ==
  /\ status[j] = "SUBMITTED"
  /\ status' = [status EXCEPT ![j] = "STARTED"]
  /\ UNCHANGED numTries

BecomesEnded(j) ==
  /\ status[j] = "STARTED"
  /\ status' = [status EXCEPT ![j] = "ENDED"]
  /\ UNCHANGED numTries

JobChanges(j) ==
  /\ BecomesSubmitted(j) \/ IsRefused(j) \/ BecomesStarted(j) \/ BecomesEnded(j)
  /\ UNCHANGED <<monitorVars, rowVars, copies, mailer, mailVars, fresh,
                 faults, restarts>>

-----------------------------------------------------------------------------
(* The part of a poll that is about one job.  The monitor's copy has the   *)
(* new status before the creator is called, and keeps it when the creator  *)
(* fails; a job that has ended is not watched any more, either way.  The   *)
(* monitor gets its jobs when the mail sender has been wired.              *)

(* Mutant: a job that is done is dropped before its listeners are called.  *)
NoticesUnlessDone(j) ==
  /\ mailer # "starting"
  /\ j \in watched
  /\ status[j] # cached[j]
  /\ status[j] # "ENDED"
  /\ cached' = [cached EXCEPT ![j] = status[j]]
  /\ UNCHANGED watched

Notices(j) ==
  /\ mailer # "starting"
  /\ j \in watched
  /\ status[j] # cached[j]
  /\ cached' = [cached EXCEPT ![j] = status[j]]
  /\ watched' = IF status[j] = "ENDED" THEN watched \ {j} ELSE watched

(* JobStatusNotificationCreator.jobStatusUpdate.                           *)
PollPosts(j) ==
  /\ Notices(j)
  /\ posted < MaxNotes
  /\ posted' = posted + 1
  /\ delivery' = [delivery EXCEPT ![posted'] = "UNSENT"]
  /\ told' = [told EXCEPT ![j] = @ \cup {status[j]}]
  /\ UNCHANGED <<jobVars, missed, copies, mailer, mailVars, fresh, faults, restarts>>

PollFails(j) ==
  /\ Notices(j)
  /\ Fails("creator")
  /\ missed' = [missed EXCEPT ![j] = @ \cup {status[j]}]
  /\ UNCHANGED <<jobVars, told, rowVars, copies, mailer, mailVars, fresh, restarts>>

Poll(j) == PollPosts(j) \/ PollFails(j)

-----------------------------------------------------------------------------
(* loadUnsentNotifications: a copy of each unsent row joins the queue,     *)
(* whether one is in it already or not.                                    *)

Unsent(n) == delivery[n] = "UNSENT"

Loaded == [n \in Id |-> IF Unsent(n) THEN copies[n] + 1 ELSE copies[n]]

IsEmpty(queue) == \A n \in Id : queue[n] = 0

(* init, after the properties are set.  A failure to load is logged.       *)
InitLoads ==
  \/ /\ copies' = Loaded
     /\ fresh' = TRUE
     /\ UNCHANGED faults
  \/ /\ Fails("load")
     /\ UNCHANGED <<copies, fresh>>

Wire ==
  /\ mailer = "starting"
  /\ mailer' = "idle"
  /\ InitLoads
  /\ UNCHANGED <<jobVars, monitorVars, rowVars, mailVars, restarts>>

(* The first run comes 30 seconds after the object was made: before its    *)
(* properties are set there is no daoFactory, and an exception ends the    *)
(* runs of the task for good.  What init loads then, nobody reads.         *)
RunTooEarly ==
  /\ mailer = "starting"
  /\ Fails("slowStart")
  /\ mailer' = "dead"
  /\ UNCHANGED <<jobVars, monitorVars, rowVars, copies, mailVars, fresh, restarts>>

(* Mutant: the task only works off the queue.                              *)
TaskLoadsNothing ==
  /\ mailer = "idle"
  /\ fresh' = FALSE
  /\ mailer' = IF IsEmpty(copies) THEN "idle" ELSE "deliver"
  /\ UNCHANGED <<jobVars, monitorVars, rowVars, copies, mailVars, faults, restarts>>

(* MailDeliveryTask.run up to its loop.                                    *)
TaskLoads ==
  /\ mailer = "idle"
  /\ \/ copies' = Loaded /\ UNCHANGED faults
     \/ Fails("load") /\ UNCHANGED copies
  /\ fresh' = FALSE
  /\ mailer' = IF IsEmpty(copies') THEN "idle" ELSE "deliver"
  /\ UNCHANGED <<jobVars, monitorVars, rowVars, mailVars, restarts>>

-----------------------------------------------------------------------------
(* The loop of MailDeliveryTask.run: the oldest row in the queue is sent   *)
(* and leaves the queue, whatever became of it ...                         *)

(* Mutant: the queue is in no order.                                       *)
IsAny(n) == copies[n] > 0

IsPeek(n) == copies[n] > 0 /\ \A m \in Id : m < n => copies[m] = 0

(* Mutant: the status is set before the mail is sent and stays.            *)
SendUnchecked(n) ==
  /\ outcome' = "SUCCESS"
  /\ mailed' = mailed \cup {n} \/ UNCHANGED mailed
  /\ UNCHANGED faults

(* The mail server takes the mail, or refuses it, or takes it and the      *)
(* sender gets a MailException all the same.                               *)
Send(n) ==
  \/ outcome' = "SUCCESS" /\ mailed' = mailed \cup {n} /\ UNCHANGED faults
  \/ outcome' = "FAILURE" /\ UNCHANGED <<mailed, faults>>
  \/ outcome' = "FAILURE" /\ mailed' = mailed \cup {n} /\ Fails("reply")

(* Mutant: the row stays in the queue.                                     *)
RemovedNot(n) == copies

Removed(n) == [copies EXCEPT ![n] = @ - 1]

TakeLetter(n) ==
  /\ mailer = "deliver"
  /\ IsPeek(n)
  /\ Send(n)
  /\ attempts' = [attempts EXCEPT ![n] = @ + 1]
  /\ copies' = Removed(n)
  /\ letter' = n
  /\ mailer' = "record"
  /\ UNCHANGED <<jobVars, monitorVars, rowVars, unrecorded, fresh, restarts>>

(* Mutant: the loop tests the queue before it removes the last row.        *)
ContinuesAlways == "deliver"

(* ... and its outcome is written to its row.                              *)
Continues == IF IsEmpty(copies) THEN "idle" ELSE "deliver"

RecordCommits ==
  /\ mailer = "record"
  /\ delivery' = [delivery EXCEPT ![letter] = outcome]
  /\ letter' = 0
  /\ mailer' = Continues
  /\ UNCHANGED <<jobVars, monitorVars, posted, copies, outcome, attempts, mailed,
                 unrecorded, fresh, faults, restarts>>

(* A commit that fails is rolled back, and an exception of the rollback    *)
(* ends the runs of the task for good.                                     *)
RecordFails ==
  /\ mailer = "record"
  /\ \/ Fails("record") /\ mailer' = Continues
     \/ Fails("rollback") /\ mailer' = "dead"
  /\ unrecorded' = [unrecorded EXCEPT ![letter] = @ + 1]
  /\ letter' = 0
  /\ UNCHANGED <<jobVars, monitorVars, rowVars, copies, outcome, attempts, mailed,
                 fresh, restarts>>

-----------------------------------------------------------------------------
(* NemaFlowService.init monitors the scheduled jobs again, and no others.  *)
Restart ==
  /\ restarts < MaxRestarts
  /\ restarts' = restarts + 1
  /\ watched' = {j \in Job : status[j] = "SCHEDULED"}
  /\ cached' = [j \in Job |-> "SCHEDULED"]
  /\ copies' = [n \in Id |-> 0]
  /\ mailer' = "starting"
  /\ letter' = 0
  /\ fresh' = FALSE
  /\ UNCHANGED <<jobVars, told, missed, rowVars, outcome, attempts, mailed,
                 unrecorded, faults>>

-----------------------------------------------------------------------------
Task == TaskLoads \/ (\E n \in Id : TakeLetter(n)) \/ RecordCommits \/ RecordFails

Next ==
  \/ \E j \in Job : JobChanges(j) \/ Poll(j)
  \/ Wire
  \/ RunTooEarly
  \/ Task
  \/ Restart

(* Spring wires the object; the executors of the sender and of the monitor *)
(* run their tasks again and again.                                        *)
Spec ==
  /\ Init /\ [][Next]_vars
  /\ WF_vars(Wire)
  /\ WF_vars(Task)
  /\ \A j \in Job : WF_vars(Poll(j))

-----------------------------------------------------------------------------
(* The state is well formed.  The loop peeks only when there is a row, and *)
(* an outcome is recorded for a row that was posted.                       *)
TypeOK ==
  /\ status \in [Job -> Status] /\ cached \in [Job -> Status]
  /\ numTries \in [Job -> 0..MaxTries]
  /\ watched \subseteq Job
  /\ told \in [Job -> SUBSET Status] /\ missed \in [Job -> SUBSET Status]
  /\ posted \in 0..MaxNotes
  /\ delivery \in [Id -> {"NONE", "UNSENT", "SUCCESS", "FAILURE"}]
  /\ copies \in [Id -> Nat] /\ attempts \in [Id -> Nat] /\ unrecorded \in [Id -> Nat]
  /\ mailer \in {"starting", "idle", "deliver", "record", "dead"}
  /\ letter \in 0..posted /\ mailed \subseteq Id
  /\ outcome \in {"NONE", "SUCCESS", "FAILURE"}
  /\ fresh \in BOOLEAN
  /\ faults \in 0..MaxFaults /\ restarts \in 0..MaxRestarts
  /\ mailer = "record" <=> letter # 0
  /\ mailer = "deliver" => ~IsEmpty(copies)

(* A row that says the mail was delivered was taken by the mail server, on *)
(* this or an earlier attempt, and a row with any verdict was sent.        *)
VerdictIsHonest ==
  \A n \in Id :
    /\ delivery[n] = "SUCCESS" => n \in mailed
    /\ delivery[n] = "FAILURE" => attempts[n] > 0

(* The mails about one row: one, one more for each outcome that was not    *)
(* recorded, and two more for each restart, after which init and the task  *)
(* both load what is unsent.                                               *)
MailsAccounted ==
  \A n \in Id : attempts[n] <= 1 + unrecorded[n] + 2 * restarts

(* The rows are first sent in the order in which they were posted,         *)
(* whatever loads or recordings fail and however often the service         *)
(* restarts: the queue implements an outbox in which nobody is overtaken.  *)
Out == INSTANCE Outbox WITH tried <- {n \in Id : attempts[n] > 0}
NobodyIsOvertaken == Out!Spec

(* Every row is settled, unless the task died.  A mail that failed is      *)
(* settled too: it is never tried again.                                   *)
EveryRowIsSettled ==
  \A n \in Id : (delivery[n] = "UNSENT") ~> (delivery[n] # "UNSENT" \/ mailer = "dead")

(* The end of a job the monitor watches is posted, unless the creator      *)
(* failed on it or the service restarts: then it is not watched any more.  *)
EndIsAnnounced ==
  \A j \in Job : \A r \in 0..MaxRestarts :
    (j \in watched /\ status[j] = "ENDED" /\ restarts = r)
      ~> ("ENDED" \in told[j] \cup missed[j] \/ restarts > r)

=============================================================================
