------------------------ MODULE Notifications_proofs ------------------------
(***************************************************************************)
(* What holds of Notifications for any jobs, any number of rows, failures  *)
(* and restarts: the verdicts are honest, the mails about a row are        *)
(* accounted for, and the queue implements Outbox.                         *)
(*                                                                         *)
(* The number of mails about a row is bounded by counting, with those sent *)
(* and those queued, the loads that are still to come and may queue the    *)
(* row again.                                                              *)
(***************************************************************************)
EXTENDS Notifications, TLAPS

(* How often the row will still be loaded, unless something fails: twice   *)
(* after a start, once when it is not in the queue, and once more when     *)
(* init loaded it and the task has not loaded yet.                         *)
Owed(n) ==
  IF ~Unsent(n) THEN 0
  ELSE IF mailer = "starting" THEN 2
  ELSE IF (copies[n] = 0 /\ letter # n) \/ (fresh /\ copies[n] > 0) THEN 1
  ELSE 0

Accounted(n) ==
  attempts[n] + copies[n] + Owed(n) <= 1 + unrecorded[n] + 2 * restarts

(* A row that was not posted was not touched, and one with a verdict was   *)
(* sent.                                                                   *)
RowIsSound(n) ==
  /\ n > posted => delivery[n] = "NONE" /\ copies[n] = 0 /\ attempts[n] = 0
  /\ n <= posted => delivery[n] # "NONE"
  /\ delivery[n] \in {"SUCCESS", "FAILURE"} => attempts[n] > 0
  /\ delivery[n] = "SUCCESS" => n \in mailed

(* The queue has every row that was never sent and is older than a row it  *)
(* has.                                                                    *)
QueueIsGapless ==
  \A m, n \in Id : m < n /\ copies[n] > 0 /\ attempts[m] = 0 => copies[m] > 0

(* Between two runs the queue is empty, except for what init loaded.       *)
TaskIsSound ==
  /\ mailer = "starting" => IsEmpty(copies)
  /\ fresh => mailer = "idle"
  /\ mailer = "idle" /\ ~fresh => IsEmpty(copies)
  /\ letter # 0 => /\ attempts[letter] > 0
                   /\ outcome # "NONE"
                   /\ outcome = "SUCCESS" => letter \in mailed

IInv ==
  /\ TypeOK
  /\ \A n \in Id : RowIsSound(n) /\ Accounted(n)
  /\ QueueIsGapless
  /\ TaskIsSound

-----------------------------------------------------------------------------
(* TypeOK, in two parts: the jobs and the monitor, and the rows and the    *)
(* mail delivery.                                                          *)
JobType ==
  /\ status \in [Job -> Status] /\ cached \in [Job -> Status]
  /\ numTries \in [Job -> 0..MaxTries]
  /\ watched \subseteq Job
  /\ told \in [Job -> SUBSET Status] /\ missed \in [Job -> SUBSET Status]

RowType ==
  /\ posted \in 0..MaxNotes
  /\ delivery \in [Id -> {"NONE", "UNSENT", "SUCCESS", "FAILURE"}]
  /\ copies \in [Id -> Nat] /\ attempts \in [Id -> Nat] /\ unrecorded \in [Id -> Nat]
  /\ letter \in 0..posted
  /\ restarts \in 0..MaxRestarts

MailerType ==
  /\ mailer \in {"starting", "idle", "deliver", "record", "dead"}
  /\ mailed \subseteq Id
  /\ outcome \in {"NONE", "SUCCESS", "FAILURE"}
  /\ faults \in 0..MaxFaults
  /\ mailer = "record" <=> letter # 0
  /\ mailer = "deliver" => ~IsEmpty(copies)

FreshType == fresh \in BOOLEAN

LEMMA TypeParts == TypeOK <=> JobType /\ RowType /\ MailerType /\ FreshType
BY DEF TypeOK, JobType, RowType, MailerType, FreshType

LEMMA TypePartsNext == JobType' /\ RowType' /\ MailerType' /\ FreshType' => TypeOK'
BY DEF TypeOK, JobType, RowType, MailerType, FreshType

LEMMA FaultType == ASSUME MailerType, NEW kind, Fails(kind) PROVE faults' \in 0..MaxFaults
BY BoundsAssumption DEF MailerType, Fails

LEMMA IInvInit == Init => IInv
<1> SUFFICES ASSUME Init PROVE IInv
  OBVIOUS
<1>1. JobType
  BY BoundsAssumption DEF Init, JobType, Status
<1>2. RowType
  BY BoundsAssumption DEF Init, RowType
<1>3. MailerType
  BY BoundsAssumption DEF Init, MailerType
<1>9. FreshType
  BY Zenon DEF Init, FreshType
<1>4. IsEmpty(copies)
  BY DEF Init, IsEmpty
<1>5. ASSUME NEW n \in Id PROVE RowIsSound(n) /\ Accounted(n)
  <2>1. /\ delivery[n] = "NONE" /\ copies[n] = 0 /\ attempts[n] = 0
        /\ unrecorded[n] = 0 /\ restarts = 0 /\ posted = 0
    BY DEF Init
  <2>2. n > posted /\ ~(n <= posted)
    BY <2>1 DEF Id
  <2>3. Owed(n) = 0
    BY <2>1 DEF Owed, Unsent
  <2> QED BY <2>1, <2>2, <2>3 DEF RowIsSound, Accounted
<1>6. QueueIsGapless
  BY DEF Init, QueueIsGapless
<1>7. TaskIsSound
  BY <1>4 DEF Init, TaskIsSound
<1> QED BY <1>1, <1>2, <1>3, <1>5, <1>6, <1>7, <1>9, TypeParts DEF IInv

-----------------------------------------------------------------------------
(* The jobs and the monitor keep their types in every step.                *)
LEMMA JobTypeNext == ASSUME TypeOK, [Next]_vars PROVE JobType'
<1> USE TypeParts
<1>1. ASSUME NEW j \in Job, JobChanges(j) PROVE JobType'
  <2>1. UNCHANGED <<watched, cached, told, missed>>
    BY <1>1 DEF JobChanges, monitorVars
  <2>2. status' \in [Job -> Status]
    BY <1>1 DEF JobChanges, BecomesSubmitted, IsRefused, BecomesStarted, BecomesEnded,
                JobType, Status
  <2>3. numTries' \in [Job -> 0..MaxTries]
    <3>1. CASE BecomesSubmitted(j)
      <4>1. numTries[j] + 1 \in 0..MaxTries
        BY <3>1, BoundsAssumption DEF BecomesSubmitted, JobType
      <4> QED BY <3>1, <4>1 DEF BecomesSubmitted, JobType
    <3>2. CASE IsRefused(j) \/ BecomesStarted(j) \/ BecomesEnded(j)
      BY <3>2 DEF IsRefused, BecomesStarted, BecomesEnded, JobType
    <3> QED BY <1>1, <3>1, <3>2 DEF JobChanges
  <2> QED BY <2>1, <2>2, <2>3 DEF JobType
<1>2. ASSUME NEW j \in Job, Poll(j) PROVE JobType'
  <2>1. Notices(j) /\ UNCHANGED <<status, numTries>>
    BY <1>2 DEF Poll, PollPosts, PollFails, jobVars
  <2>2. status[j] \in Status
    BY DEF JobType
  <2>3. watched' \subseteq Job /\ cached' \in [Job -> Status]
    BY <2>1, <2>2 DEF Notices, JobType
  <2>4. told' \in [Job -> SUBSET Status] /\ missed' \in [Job -> SUBSET Status]
    BY <1>2, <2>2 DEF Poll, PollPosts, PollFails, JobType
  <2> QED BY <2>1, <2>3, <2>4 DEF JobType
<1>3. CASE Restart
  BY <1>3 DEF Restart, jobVars, JobType, Status
<1>4. CASE Wire \/ RunTooEarly \/ Task \/ UNCHANGED vars
  <2>1. UNCHANGED <<jobVars, monitorVars>>
    BY <1>4 DEF Wire, RunTooEarly, Task, TaskLoads, TakeLetter, RecordCommits,
                RecordFails, vars
  <2> QED BY <2>1 DEF JobType, jobVars, monitorVars
<1> QED BY <1>1, <1>2, <1>3, <1>4 DEF Next

-----------------------------------------------------------------------------
(* Nothing changes for the rows, or a failure is counted.                  *)
LEMMA RowsStay ==
  ASSUME IInv, JobType', faults' \in 0..MaxFaults,
         UNCHANGED <<posted, delivery, copies, mailer, mailVars, fresh, restarts>>
  PROVE  IInv'
<1>1. UNCHANGED <<posted, delivery, copies, mailer, letter, outcome, attempts, mailed,
                  unrecorded, fresh, restarts>>
  BY DEF mailVars
<1>2. RowType' /\ MailerType' /\ FreshType'
  BY <1>1, TypeParts DEF IInv, RowType, MailerType, FreshType, IsEmpty
<1>3. \A n \in Id : RowIsSound(n)' /\ Accounted(n)'
  BY <1>1 DEF IInv, RowIsSound, Accounted, Owed, Unsent
<1>4. QueueIsGapless' /\ TaskIsSound'
  BY <1>1 DEF IInv, QueueIsGapless, TaskIsSound, IsEmpty
<1> QED BY <1>2, <1>3, <1>4, TypePartsNext DEF IInv

LEMMA PostIInv == ASSUME IInv, JobType', NEW j \in Job, PollPosts(j) PROVE IInv'
<1>1. /\ mailer # "starting" /\ posted < MaxNotes /\ posted' = posted + 1
      /\ delivery' = [delivery EXCEPT ![posted'] = "UNSENT"]
      /\ UNCHANGED <<copies, mailer, letter, outcome, attempts, mailed, unrecorded,
                     fresh, faults, restarts>>
  BY DEF PollPosts, Notices, mailVars
<1>2. JobType /\ RowType /\ MailerType /\ FreshType
  BY TypeParts DEF IInv
<1>3. posted' \in Id /\ posted' \in 0..MaxNotes
  BY <1>1, <1>2, BoundsAssumption DEF RowType, Id
<1>4. \A n \in Id : delivery'[n] = IF n = posted' THEN "UNSENT" ELSE delivery[n]
  BY <1>1, <1>2 DEF RowType
<1>5. RowType'
  BY <1>1, <1>2, <1>3 DEF RowType
<1>6. MailerType'
  BY <1>1, <1>2 DEF MailerType, IsEmpty
<1>7. ASSUME NEW n \in Id PROVE RowIsSound(n)' /\ Accounted(n)'
  <2>1. RowIsSound(n) /\ Accounted(n)
    BY DEF IInv
  <2>2. CASE n = posted'
    <3>1. delivery'[n] = "UNSENT" /\ delivery[n] = "NONE" /\ copies[n] = 0 /\ attempts[n] = 0
      BY <1>1, <1>2, <1>4, <2>1, <2>2 DEF RowIsSound, RowType, Id
    <3>2. letter' # n
      BY <1>1, <1>2, <2>2 DEF RowType
    <3>3. Owed(n)' = 1
      BY <1>1, <3>1, <3>2 DEF Owed, Unsent
    <3>4. Accounted(n)'
      BY <1>1, <1>2, <3>1, <3>3, BoundsAssumption DEF Accounted, RowType
    <3> QED BY <1>1, <1>2, <2>2, <3>1, <3>4 DEF RowIsSound, RowType, Id
  <2>3. CASE n # posted'
    <3>1. delivery'[n] = delivery[n]
      BY <1>4, <2>3
    <3>2. Accounted(n)'
      BY <1>1, <2>1, <3>1 DEF Accounted, Owed, Unsent
    <3> QED BY <1>1, <1>2, <2>1, <2>3, <3>1, <3>2 DEF RowIsSound, RowType, Id
  <2> QED BY <2>2, <2>3
<1>8. QueueIsGapless' /\ TaskIsSound'
  BY <1>1 DEF IInv, QueueIsGapless, TaskIsSound, IsEmpty
<1>9. FreshType'
  BY <1>1, <1>2 DEF FreshType
<1> QED BY <1>5, <1>6, <1>7, <1>8, <1>9, TypePartsNext DEF IInv

-----------------------------------------------------------------------------
(* What a load does to a row, and that it leaves no gap.                   *)
LEMMA LoadedRow ==
  ASSUME RowType, NEW n \in Id
  PROVE  Loaded[n] \in Nat /\ Loaded[n] = IF Unsent(n) THEN copies[n] + 1 ELSE copies[n]
BY DEF Loaded, RowType

LEMMA LoadedIsGapless ==
  ASSUME IInv, RowType, copies' = Loaded, attempts' = attempts
  PROVE  QueueIsGapless'
<1> SUFFICES ASSUME NEW m \in Id, NEW n \in Id, m < n, Loaded[n] > 0, attempts[m] = 0
             PROVE  Loaded[m] > 0
  BY DEF QueueIsGapless
<1>1. RowIsSound(m) /\ RowIsSound(n)
  BY DEF IInv
<1>2. n <= posted
  <2>1. CASE n > posted
    <3>1. ~Unsent(n) /\ copies[n] = 0
      BY <1>1, <2>1 DEF RowIsSound, Unsent
    <3> QED BY <3>1, LoadedRow
  <2> QED BY <2>1 DEF RowType, Id
<1>3. m <= posted
  BY <1>2 DEF RowType, Id
<1>4. delivery[m] \in {"NONE", "UNSENT", "SUCCESS", "FAILURE"}
  BY DEF RowType
<1>5. Unsent(m)
  BY <1>1, <1>3, <1>4 DEF RowIsSound, Unsent, RowType
<1>6. copies[m] \in Nat
  BY DEF RowType
<1> QED BY <1>5, <1>6, LoadedRow

-----------------------------------------------------------------------------
(* A load counts against what was owed; QueueIsGapless is LoadedIsGapless. *)
LEMMA WireIInv == ASSUME IInv, JobType', Wire PROVE IInv'
<1>1. /\ mailer = "starting" /\ mailer' = "idle"
      /\ UNCHANGED <<posted, delivery, letter, outcome, attempts, mailed, unrecorded,
                     restarts>>
  BY DEF Wire, rowVars, mailVars
<1>2. JobType /\ RowType /\ MailerType /\ FreshType
  BY TypeParts DEF IInv
<1>3. fresh = FALSE /\ letter = 0 /\ IsEmpty(copies)
  BY <1>1, <1>2 DEF IInv, TaskIsSound, MailerType, FreshType
<1>4. CASE copies' = Loaded /\ fresh' = TRUE /\ faults' = faults
  <2>1. RowType'
    BY <1>1, <1>2, <1>4, LoadedRow DEF RowType, Loaded
  <2>2. MailerType' /\ FreshType'
    BY <1>1, <1>2, <1>3, <1>4 DEF MailerType, FreshType
  <2>3. ASSUME NEW n \in Id PROVE RowIsSound(n)' /\ Accounted(n)'
    <3>1. RowIsSound(n) /\ Accounted(n) /\ copies[n] = 0
      BY <1>3 DEF IInv, IsEmpty
    <3>2. copies'[n] = IF Unsent(n) THEN 1 ELSE 0
      BY <1>2, <1>4, <3>1, LoadedRow
    <3>3. Owed(n) = IF Unsent(n) THEN 2 ELSE 0
      BY <1>1 DEF Owed
    <3>4. Owed(n)' = IF Unsent(n) THEN 1 ELSE 0
      BY <1>1, <1>4, <3>2 DEF Owed, Unsent
    <3>5. Accounted(n)'
      BY <1>1, <1>2, <3>1, <3>2, <3>3, <3>4 DEF Accounted, RowType
    <3> QED BY <1>1, <3>1, <3>2, <3>5 DEF RowIsSound, Unsent
  <2>4. QueueIsGapless'
    BY <1>1, <1>2, <1>4, LoadedIsGapless
  <2>5. TaskIsSound'
    BY <1>1, <1>3, <1>4 DEF TaskIsSound
  <2> QED BY <2>1, <2>2, <2>3, <2>4, <2>5, TypePartsNext DEF IInv
<1>5. CASE Fails("load") /\ copies' = copies /\ fresh' = fresh
  <2>1. RowType' /\ FreshType'
    BY <1>1, <1>2, <1>5 DEF RowType, FreshType
  <2>2. MailerType'
    BY <1>1, <1>2, <1>3, <1>5, FaultType DEF MailerType
  <2>3. ASSUME NEW n \in Id PROVE RowIsSound(n)' /\ Accounted(n)'
    <3>1. RowIsSound(n) /\ Accounted(n) /\ copies[n] = 0
      BY <1>3 DEF IInv, IsEmpty
    <3>2. Owed(n) = IF Unsent(n) THEN 2 ELSE 0
      BY <1>1 DEF Owed
    <3>3. Owed(n)' = IF Unsent(n) THEN 1 ELSE 0
      BY <1>1, <1>3, <1>5, <3>1 DEF Owed, Unsent, Id
    <3>4. Accounted(n)'
      BY <1>1, <1>2, <1>5, <3>1, <3>2, <3>3 DEF Accounted, RowType
    <3> QED BY <1>1, <1>5, <3>1, <3>4 DEF RowIsSound
  <2>4. QueueIsGapless' /\ TaskIsSound'
    BY <1>1, <1>3, <1>5 DEF IInv, QueueIsGapless, TaskIsSound, IsEmpty
  <2> QED BY <2>1, <2>2, <2>3, <2>4, TypePartsNext DEF IInv
<1> QED BY <1>4, <1>5 DEF Wire, InitLoads

LEMMA TaskLoadsIInv == ASSUME IInv, JobType', TaskLoads PROVE IInv'
<1>1. /\ mailer = "idle" /\ fresh' = FALSE
      /\ mailer' = IF IsEmpty(copies') THEN "idle" ELSE "deliver"
      /\ UNCHANGED <<posted, delivery, letter, outcome, attempts, mailed, unrecorded,
                     restarts>>
  BY DEF TaskLoads, rowVars, mailVars
<1>2. JobType /\ RowType /\ MailerType /\ FreshType
  BY TypeParts DEF IInv
<1>3. letter = 0
  BY <1>1, <1>2 DEF MailerType
<1>4. copies' = Loaded \/ copies' = copies
  BY DEF TaskLoads
<1>5. faults' \in 0..MaxFaults
  BY <1>2, FaultType DEF TaskLoads, MailerType
<1>6. RowType'
  BY <1>1, <1>2, <1>4, LoadedRow DEF RowType, Loaded
<1>7. MailerType' /\ FreshType'
  BY <1>1, <1>2, <1>3, <1>5 DEF MailerType, FreshType, IsEmpty
<1>8. ASSUME NEW n \in Id PROVE RowIsSound(n)' /\ Accounted(n)'
  <2>1. RowIsSound(n) /\ Accounted(n) /\ copies[n] \in Nat
    BY <1>2 DEF IInv, RowType
  <2>2. copies[n] > 0 => fresh
    BY <1>1, <2>1 DEF IInv, TaskIsSound, IsEmpty
  <2>3. Owed(n) = IF Unsent(n) THEN 1 ELSE 0
    BY <1>1, <1>3, <2>1, <2>2 DEF Owed, Id
  <2>4. CASE copies'[n] = IF Unsent(n) THEN copies[n] + 1 ELSE copies[n]
    <3>1. Owed(n)' = 0
      BY <1>1, <2>1, <2>4 DEF Owed, Unsent
    <3> QED BY <1>1, <1>2, <2>1, <2>3, <2>4, <3>1 DEF RowIsSound, Accounted, RowType, Unsent
  <2>5. CASE copies'[n] = copies[n]
    <3>1. Owed(n)' = IF Unsent(n) /\ copies[n] = 0 THEN 1 ELSE 0
      BY <1>1, <1>3, <2>1, <2>5 DEF Owed, Unsent, Id
    <3> QED BY <1>1, <1>2, <2>1, <2>3, <2>5, <3>1 DEF RowIsSound, Accounted, RowType
  <2> QED BY <1>2, <1>4, <2>4, <2>5, LoadedRow
<1>9. QueueIsGapless'
  <2>1. CASE copies' = copies
    BY <1>1, <2>1 DEF IInv, QueueIsGapless
  <2> QED BY <1>1, <1>2, <1>4, <2>1, LoadedIsGapless
<1>10. TaskIsSound'
  BY <1>1, <1>3 DEF TaskIsSound
<1> QED BY <1>6, <1>7, <1>8, <1>9, <1>10, TypePartsNext DEF IInv

LEMMA RunTooEarlyIInv == ASSUME IInv, JobType', RunTooEarly PROVE IInv'
<1>1. /\ mailer = "starting" /\ mailer' = "dead"
      /\ UNCHANGED <<posted, delivery, copies, letter, outcome, attempts, mailed,
                     unrecorded, fresh, restarts>>
  BY DEF RunTooEarly, rowVars, mailVars
<1>2. JobType /\ RowType /\ MailerType /\ FreshType
  BY TypeParts DEF IInv
<1>3. letter = 0 /\ ~fresh
  BY <1>1, <1>2 DEF IInv, TaskIsSound, MailerType
<1>4. RowType' /\ FreshType'
  BY <1>1, <1>2 DEF RowType, FreshType
<1>5. MailerType'
  BY <1>1, <1>2, <1>3, FaultType DEF RunTooEarly, MailerType
<1>6. ASSUME NEW n \in Id PROVE RowIsSound(n)' /\ Accounted(n)'
  <2>1. RowIsSound(n) /\ Accounted(n)
    BY DEF IInv
  <2>2. Owed(n) = IF Unsent(n) THEN 2 ELSE 0
    BY <1>1 DEF Owed
  <2>3. Owed(n)' \in {0, 1} /\ (~Unsent(n) => Owed(n)' = 0)
    BY <1>1 DEF Owed, Unsent
  <2> QED BY <1>1, <1>2, <2>1, <2>2, <2>3 DEF RowIsSound, Accounted, RowType
<1>7. QueueIsGapless' /\ TaskIsSound'
  BY <1>1, <1>3 DEF IInv, QueueIsGapless, TaskIsSound
<1> QED BY <1>4, <1>5, <1>6, <1>7, TypePartsNext DEF IInv

(* A row moves from the queue to those sent, and is not owed a load.       *)
LEMMA TakeLetterIInv == ASSUME IInv, JobType', NEW n \in Id, TakeLetter(n) PROVE IInv'
<1>1. /\ mailer = "deliver" /\ mailer' = "record" /\ letter' = n /\ copies[n] > 0
      /\ attempts' = [attempts EXCEPT ![n] = @ + 1]
      /\ copies' = [copies EXCEPT ![n] = @ - 1]
      /\ UNCHANGED <<posted, delivery, unrecorded, fresh, restarts>>
  BY DEF TakeLetter, IsPeek, Removed, rowVars
<1>2. JobType /\ RowType /\ MailerType /\ FreshType
  BY TypeParts DEF IInv
<1>3. /\ mailed' = mailed \/ mailed' = mailed \cup {n}
      /\ outcome' \in {"SUCCESS", "FAILURE"}
      /\ outcome' = "SUCCESS" => n \in mailed'
  BY DEF TakeLetter, Send
<1>4. faults' \in 0..MaxFaults
  BY <1>2, FaultType DEF TakeLetter, Send, MailerType
<1>5. letter = 0 /\ ~fresh
  BY <1>1, <1>2 DEF IInv, TaskIsSound, MailerType
<1>6. \A m \in Id : /\ copies[m] \in Nat /\ attempts[m] \in Nat
                    /\ attempts'[m] = IF m = n THEN attempts[m] + 1 ELSE attempts[m]
                    /\ copies'[m] = IF m = n THEN copies[m] - 1 ELSE copies[m]
  BY <1>1, <1>2 DEF RowType
<1>7. n <= posted /\ n # 0
  BY <1>1, <1>2 DEF IInv, RowIsSound, RowType, Id
<1>8. RowType'
  <2>1. copies[n] - 1 \in Nat /\ attempts[n] + 1 \in Nat
    BY <1>1, <1>2 DEF RowType
  <2>2. copies' \in [Id -> Nat] /\ attempts' \in [Id -> Nat]
    BY <1>1, <1>2, <2>1 DEF RowType
  <2>3. letter' \in 0..posted'
    BY <1>1, <1>2, <1>7 DEF RowType, Id
  <2> QED BY <1>1, <1>2, <2>2, <2>3 DEF RowType
<1>9. MailerType' /\ FreshType'
  BY <1>1, <1>2, <1>3, <1>4, <1>7 DEF MailerType, FreshType
<1>10. ASSUME NEW m \in Id PROVE RowIsSound(m)' /\ Accounted(m)'
  <2>1. RowIsSound(m) /\ Accounted(m)
    BY DEF IInv
  <2>2. RowIsSound(m)'
    <3>1. m > posted => m # n
      BY <1>2, <1>7 DEF RowType, Id
    <3>2. attempts[m] > 0 => attempts'[m] > 0
      BY <1>6
    <3>3. m \in mailed => m \in mailed'
      BY <1>3
    <3> QED BY <1>1, <1>6, <2>1, <3>1, <3>2, <3>3 DEF RowIsSound
  <2>3. CASE m = n
    <3>1. Owed(m)' = 0
      BY <1>1, <1>5, <2>3 DEF Owed
    <3>2. Owed(m) = 0
      BY <1>1, <1>5, <2>3 DEF Owed
    <3> QED BY <1>1, <1>2, <1>6, <2>1, <2>2, <2>3, <3>1, <3>2 DEF Accounted, RowType
  <2>4. CASE m # n
    <3>1. Owed(m)' = Owed(m)
      BY <1>1, <1>5, <1>6, <2>4 DEF Owed, Unsent, Id
    <3> QED BY <1>1, <1>6, <2>1, <2>2, <2>4, <3>1 DEF Accounted
  <2> QED BY <2>3, <2>4
<1>11. QueueIsGapless'
  <2> SUFFICES ASSUME NEW k \in Id, NEW m \in Id, k < m, copies'[m] > 0, attempts'[k] = 0
               PROVE  copies'[k] > 0
    BY DEF QueueIsGapless
  <2>1. k # n /\ attempts[k] = 0 /\ copies'[k] = copies[k]
    BY <1>6
  <2>2. copies[m] > 0
    BY <1>6
  <2> QED BY <2>1, <2>2 DEF IInv, QueueIsGapless
<1>12. TaskIsSound'
  BY <1>1, <1>3, <1>5, <1>6 DEF TaskIsSound
<1> QED BY <1>8, <1>9, <1>10, <1>11, <1>12, TypePartsNext DEF IInv

(* The row has its verdict, or is counted as unrecorded and owed a load.   *)
LEMMA RecordIInv == ASSUME IInv, JobType', RecordCommits \/ RecordFails PROVE IInv'
<1>1. /\ mailer = "record" /\ letter' = 0
      /\ UNCHANGED <<posted, copies, outcome, attempts, mailed, fresh, restarts>>
  BY DEF RecordCommits, RecordFails, rowVars
<1>2. JobType /\ RowType /\ MailerType /\ FreshType
  BY TypeParts DEF IInv
<1>3. letter \in Id /\ ~fresh
  BY <1>1, <1>2, BoundsAssumption DEF IInv, TaskIsSound, MailerType, RowType, Id
<1>4. mailer' = Continues \/ mailer' = "dead"
  BY DEF RecordCommits, RecordFails
<1>5. /\ outcome \in {"SUCCESS", "FAILURE"} /\ attempts[letter] > 0
      /\ outcome = "SUCCESS" => letter \in mailed
  BY <1>1, <1>2, <1>3 DEF IInv, TaskIsSound, MailerType, Id
<1>6. faults' \in 0..MaxFaults
  BY <1>2, FaultType DEF RecordCommits, RecordFails, MailerType
<1>7. MailerType' /\ FreshType'
  BY <1>1, <1>2, <1>4, <1>6 DEF MailerType, FreshType, Continues, IsEmpty
<1>8. QueueIsGapless'
  BY <1>1 DEF IInv, QueueIsGapless
<1>9. TaskIsSound'
  BY <1>1, <1>3, <1>4 DEF TaskIsSound, Continues, IsEmpty
<1>10. /\ mailer' # "starting"
       /\ \A n \in Id : n # letter => Owed(n) = IF Unsent(n) /\ copies[n] = 0 THEN 1 ELSE 0
  BY <1>1, <1>3, <1>4 DEF Owed, Continues, IsEmpty
<1>11. CASE RecordCommits
  <2>1. delivery' = [delivery EXCEPT ![letter] = outcome] /\ unrecorded' = unrecorded
    BY <1>11 DEF RecordCommits
  <2>2. \A n \in Id : delivery'[n] = IF n = letter THEN outcome ELSE delivery[n]
    BY <1>2, <2>1 DEF RowType
  <2>3. RowType'
    <3>1. outcome \in {"NONE", "UNSENT", "SUCCESS", "FAILURE"}
      BY <1>5
    <3>2. delivery' \in [Id -> {"NONE", "UNSENT", "SUCCESS", "FAILURE"}]
      BY <1>2, <2>1, <3>1 DEF RowType
    <3>3. letter' \in 0..posted'
      BY <1>1, <1>2 DEF RowType
    <3> QED BY <1>1, <1>2, <2>1, <3>2, <3>3 DEF RowType
  <2>4. ASSUME NEW n \in Id PROVE RowIsSound(n)' /\ Accounted(n)'
    <3>1. RowIsSound(n) /\ Accounted(n)
      BY DEF IInv
    <3>2. CASE n = letter
      <4>1. delivery'[n] = outcome
        BY <2>2, <3>2
      <4>2. Owed(n)' = 0
        BY <1>5, <4>1 DEF Owed, Unsent
      <4>3. Owed(n) \in Nat
        BY DEF Owed
      <4>4. Accounted(n)'
        BY <1>1, <1>2, <2>1, <3>1, <4>2, <4>3 DEF Accounted, RowType
      <4> QED BY <1>1, <1>2, <1>5, <3>1, <3>2, <4>1, <4>4 DEF RowIsSound, RowType, Id
    <3>3. CASE n # letter
      <4>1. delivery'[n] = delivery[n]
        BY <2>2, <3>3
      <4>2. Owed(n)' = IF Unsent(n) /\ copies[n] = 0 THEN 1 ELSE 0
        BY <1>1, <1>3, <1>10, <4>1 DEF Owed, Unsent, Id
      <4>3. Accounted(n)'
        BY <1>1, <1>10, <2>1, <3>1, <3>3, <4>2 DEF Accounted
      <4> QED BY <1>1, <3>1, <4>1, <4>3 DEF RowIsSound
    <3> QED BY <3>2, <3>3
  <2> QED BY <1>7, <1>8, <1>9, <2>3, <2>4, TypePartsNext DEF IInv
<1>12. CASE RecordFails
  <2>1. delivery' = delivery /\ unrecorded' = [unrecorded EXCEPT ![letter] = @ + 1]
    BY <1>12 DEF RecordFails, rowVars
  <2>2. \A n \in Id : /\ unrecorded[n] \in Nat
                      /\ unrecorded'[n] = IF n = letter THEN unrecorded[n] + 1
                                          ELSE unrecorded[n]
    BY <1>2, <2>1 DEF RowType
  <2>3. RowType'
    <3>1. unrecorded' \in [Id -> Nat]
      BY <1>2, <1>3, <2>1, <2>2 DEF RowType
    <3>2. letter' \in 0..posted'
      BY <1>1, <1>2 DEF RowType
    <3> QED BY <1>1, <1>2, <2>1, <3>1, <3>2 DEF RowType
  <2>4. ASSUME NEW n \in Id PROVE RowIsSound(n)' /\ Accounted(n)'
    <3>1. RowIsSound(n) /\ Accounted(n)
      BY DEF IInv
    <3>2. Owed(n)' = IF Unsent(n) /\ copies[n] = 0 THEN 1 ELSE 0
      BY <1>1, <1>3, <1>10, <2>1 DEF Owed, Unsent, Id
    <3>3. CASE n = letter
      <4>1. Owed(n) \in Nat /\ Owed(n)' \in {0, 1}
        BY <3>2 DEF Owed
      <4>2. Accounted(n)'
        BY <1>1, <1>2, <2>2, <3>1, <3>3, <4>1 DEF Accounted, RowType
      <4> QED BY <1>1, <2>1, <3>1, <4>2 DEF RowIsSound
    <3>4. CASE n # letter
      <4>1. Accounted(n)'
        BY <1>1, <1>10, <2>2, <3>1, <3>2, <3>4 DEF Accounted
      <4> QED BY <1>1, <2>1, <3>1, <4>1 DEF RowIsSound
    <3> QED BY <3>3, <3>4
  <2> QED BY <1>7, <1>8, <1>9, <2>3, <2>4, TypePartsNext DEF IInv
<1> QED BY <1>11, <1>12

(* A restart empties the queue, and two more loads are allowed for.        *)
LEMMA RestartIInv == ASSUME IInv, JobType', Restart PROVE IInv'
<1>1. /\ mailer' = "starting" /\ letter' = 0 /\ fresh' = FALSE
      /\ copies' = [n \in Id |-> 0] /\ restarts < MaxRestarts /\ restarts' = restarts + 1
      /\ UNCHANGED <<posted, delivery, outcome, attempts, mailed, unrecorded, faults>>
  BY DEF Restart, rowVars
<1>2. JobType /\ RowType /\ MailerType /\ FreshType
  BY TypeParts DEF IInv
<1>3. RowType'
  BY <1>1, <1>2, BoundsAssumption DEF RowType
<1>4. MailerType' /\ FreshType'
  BY <1>1, <1>2 DEF MailerType, FreshType
<1>5. \A n \in Id : copies'[n] = 0
  BY <1>1
<1>6. ASSUME NEW n \in Id PROVE RowIsSound(n)' /\ Accounted(n)'
  <2>1. RowIsSound(n) /\ Accounted(n)
    BY DEF IInv
  <2>2. Owed(n)' = IF Unsent(n) THEN 2 ELSE 0
    BY <1>1 DEF Owed, Unsent
  <2>3. Owed(n) \in Nat /\ copies[n] \in Nat
    BY <1>2 DEF Owed, RowType
  <2> QED BY <1>1, <1>2, <1>5, <2>1, <2>2, <2>3 DEF RowIsSound, Accounted, RowType
<1>7. QueueIsGapless' /\ TaskIsSound'
  BY <1>1, <1>5 DEF QueueIsGapless, TaskIsSound, IsEmpty
<1> QED BY <1>3, <1>4, <1>6, <1>7, TypePartsNext DEF IInv

LEMMA IInvNext == IInv /\ [Next]_vars => IInv'
<1> SUFFICES ASSUME IInv, [Next]_vars PROVE IInv'
  OBVIOUS
<1>1. JobType'
  BY JobTypeNext DEF IInv
<1>2. MailerType
  BY TypeParts DEF IInv
<1>3. ASSUME NEW j \in Job, JobChanges(j) PROVE IInv'
  <2>1. /\ UNCHANGED <<posted, delivery, copies, mailer, mailVars, fresh, restarts>>
        /\ faults' \in 0..MaxFaults
    BY <1>2, <1>3 DEF JobChanges, rowVars, MailerType
  <2> QED BY <1>1, <2>1, RowsStay
<1>4. ASSUME NEW j \in Job, PollFails(j) PROVE IInv'
  <2>1. /\ UNCHANGED <<posted, delivery, copies, mailer, mailVars, fresh, restarts>>
        /\ faults' \in 0..MaxFaults
    BY <1>2, <1>4, FaultType DEF PollFails, rowVars
  <2> QED BY <1>1, <2>1, RowsStay
<1>5. ASSUME NEW j \in Job, PollPosts(j) PROVE IInv'
  BY <1>1, <1>5, PostIInv
<1>6. CASE Wire
  BY <1>1, <1>6, WireIInv
<1>7. CASE RunTooEarly
  BY <1>1, <1>7, RunTooEarlyIInv
<1>8. CASE TaskLoads
  BY <1>1, <1>8, TaskLoadsIInv
<1>9. ASSUME NEW n \in Id, TakeLetter(n) PROVE IInv'
  BY <1>1, <1>9, TakeLetterIInv
<1>10. CASE RecordCommits \/ RecordFails
  BY <1>1, <1>10, RecordIInv
<1>11. CASE Restart
  BY <1>1, <1>11, RestartIInv
<1>12. CASE UNCHANGED vars
  <2>1. /\ UNCHANGED <<posted, delivery, copies, mailer, mailVars, fresh, restarts>>
        /\ faults' \in 0..MaxFaults
    BY <1>2, <1>12 DEF vars, rowVars, MailerType
  <2> QED BY <1>1, <2>1, RowsStay
<1> QED BY <1>3, <1>4, <1>5, <1>6, <1>7, <1>8, <1>9, <1>10, <1>11, <1>12
        DEF Next, Poll, Task

-----------------------------------------------------------------------------
(* The invariant holds in every reachable state.                           *)
THEOREM IInvHolds == Spec => []IInv
<1>1. Init => IInv
  BY IInvInit
<1>2. IInv /\ [Next]_vars => IInv'
  BY IInvNext
<1> QED BY <1>1, <1>2, PTL DEF Spec

(* The state is well formed: an outcome is recorded for a posted row, and  *)
(* the loop of MailDeliveryTask.run never peeks into an empty queue.       *)
THEOREM TypeCorrect == Spec => []TypeOK
<1>1. IInv => TypeOK
  BY DEF IInv
<1> QED BY <1>1, IInvHolds, PTL

(* A row says SUCCESS only when the mail server took its mail, and no      *)
(* verdict is given on a mail that was not sent, for any sequence of       *)
(* failures and restarts.                                                  *)
THEOREM VerdictsAreHonest == Spec => []VerdictIsHonest
<1>1. IInv => VerdictIsHonest
  BY DEF IInv, RowIsSound, VerdictIsHonest
<1> QED BY <1>1, IInvHolds, PTL

(* How often the mail about a row can be sent: once, once more for each    *)
(* outcome that was not recorded, and twice more for each restart.         *)
THEOREM MailsAreAccounted == Spec => []MailsAccounted
<1>1. IInv => MailsAccounted
  <2> SUFFICES ASSUME IInv, NEW n \in Id
               PROVE  attempts[n] <= 1 + unrecorded[n] + 2 * restarts
    BY DEF MailsAccounted
  <2>1. RowType /\ Accounted(n)
    BY TypeParts DEF IInv
  <2>2. /\ attempts[n] \in Nat /\ copies[n] \in Nat /\ unrecorded[n] \in Nat
        /\ restarts \in Nat /\ Owed(n) \in Nat
    BY <2>1 DEF RowType, Owed
  <2> QED BY <2>1, <2>2 DEF Accounted
<1> QED BY <1>1, IInvHolds, PTL

-----------------------------------------------------------------------------
(* Only a post and the first attempt of a row are seen in Outbox.          *)
Tried == {n \in Id : attempts[n] > 0}

LEMMA OutboxStutters ==
  ASSUME posted' = posted, attempts' = attempts
  PROVE  UNCHANGED Out!vars
BY DEF Out!vars

LEMMA TryRefines ==
  ASSUME IInv, NEW n \in Id, TakeLetter(n)
  PROVE  [Out!Next]_Out!vars
<1>1. RowType
  BY TypeParts DEF IInv
<1>2. /\ attempts' = [attempts EXCEPT ![n] = @ + 1] /\ posted' = posted
      /\ copies[n] > 0 /\ \A m \in Id : m < n => copies[m] = 0
  BY DEF TakeLetter, IsPeek, rowVars
<1>3. \A m \in Id : /\ attempts[m] \in Nat
                    /\ attempts'[m] = IF m = n THEN attempts[m] + 1 ELSE attempts[m]
  BY <1>1, <1>2 DEF RowType
<1>4. Tried' = Tried \cup {n}
  BY <1>3 DEF Tried
<1>5. CASE n \in Tried
  <2>1. Tried' = Tried
    BY <1>4, <1>5
  <2> QED BY <1>2, <2>1 DEF Out!vars, Tried
<1>6. CASE n \notin Tried
  <2>1. n \in 1..posted
    BY <1>1, <1>2 DEF IInv, RowIsSound, RowType, Id
  <2>2. ASSUME NEW m \in 1..(n - 1) PROVE m \in Tried
    <3>1. m \in Id /\ m < n
      BY BoundsAssumption DEF Id
    <3>2. copies[m] = 0
      BY <1>2, <3>1
    <3>3. attempts[m] # 0
      BY <1>2, <3>1, <3>2 DEF IInv, QueueIsGapless
    <3> QED BY <1>3, <3>1, <3>3 DEF Tried
  <2>3. Out!Try(n)
    BY <1>2, <1>4, <1>6, <2>1, <2>2 DEF Out!Try, Tried
  <2> QED BY <2>1, <2>3 DEF Out!Next
<1> QED BY <1>5, <1>6

LEMMA OutboxStep == IInv /\ [Next]_vars => [Out!Next]_Out!vars
<1> SUFFICES ASSUME IInv, [Next]_vars PROVE [Out!Next]_Out!vars
  OBVIOUS
<1>1. ASSUME NEW j \in Job, PollPosts(j) PROVE [Out!Next]_Out!vars
  <2>1. posted' = posted + 1 /\ attempts' = attempts
    BY <1>1 DEF PollPosts, mailVars
  <2> QED BY <2>1 DEF Out!Next, Out!Post
<1>2. ASSUME NEW n \in Id, TakeLetter(n) PROVE [Out!Next]_Out!vars
  BY <1>2, TryRefines
<1>3. ASSUME NEW j \in Job, JobChanges(j) \/ PollFails(j) PROVE UNCHANGED Out!vars
  BY <1>3, OutboxStutters DEF JobChanges, PollFails, rowVars, mailVars
<1>4. CASE Wire \/ RunTooEarly \/ TaskLoads \/ RecordCommits \/ RecordFails \/ Restart
  BY <1>4, OutboxStutters DEF Wire, RunTooEarly, TaskLoads, RecordCommits, RecordFails,
                              Restart, rowVars, mailVars
<1>5. CASE UNCHANGED vars
  BY <1>5, OutboxStutters DEF vars, rowVars, mailVars
<1> QED BY <1>1, <1>2, <1>3, <1>4, <1>5 DEF Next, Poll, Task

(* The rows are first sent in the order in which they were posted: the     *)
(* poll, the loads and the mail delivery task implement an outbox in which *)
(* no notification overtakes an older one.                                 *)
THEOREM ImplementsOutbox == Spec => NobodyIsOvertaken
<1>1. Init => Out!Init
  BY DEF Init, Out!Init
<1>2. IInv /\ [Next]_vars => [Out!Next]_Out!vars
  BY OutboxStep
<1> QED BY <1>1, <1>2, IInvHolds, PTL DEF Spec, NobodyIsOvertaken, Out!Spec

=============================================================================
