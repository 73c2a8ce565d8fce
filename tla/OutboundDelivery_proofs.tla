------------------------ MODULE OutboundDelivery_proofs ------------------------
(***************************************************************************)
(* Proofs about OutboundDelivery, for any number of recipients, resend     *)
(* requests, attempts, stalls and faults.                                  *)
(***************************************************************************)
EXTENDS OutboundDelivery, FiniteSetTheorems, TLAPS

(***************************************************************************)
(* Type correctness. TypeOK is not inductive by itself: that a job added to*)
(* the queue has no run yet (ActiveRun) rests on a handler adding its job  *)
(* once.                                                                   *)
(***************************************************************************)
NotAdded ==
    /\ api # "replied" => jobState[Orig] = "absent"
    /\ \A q \in Resend : resend[q] # "done" => jobState[q] = "absent"

TypeInv == TypeOK /\ NotAdded

\* The initial state has the type.
LEMMA TypeInit == Init => TypeInv
<1> SUFFICES ASSUME Init PROVE TypeInv
  OBVIOUS
<1> USE DEF Init
<1>1. MessageType
  BY DEF MessageType
<1>2. QueueType
  BY QueueAssumption DEF QueueType, JobStates
<1>3. RunType
  BY DEF RunType, Points, Errors
<1>4. AccountType /\ HandlerType
  BY DEF AccountType, HandlerType
<1>5. HistoryType
  BY FaultAssumption DEF HistoryType
<1>6. ActiveRun
  BY QueueAssumption DEF ActiveRun
<1>7. NotAdded
  BY DEF NotAdded, Job
<1> QED
  BY <1>1, <1>2, <1>3, <1>4, <1>5, <1>6, <1>7 DEF TypeInv, TypeOK

\* What the steps of this section expand everywhere: the tuples of variables
\* and the parts of the invariant.
USE DEF rowVars, queueVars, readVars, countVars, runVars, envVars, apiVars,
        TypeInv, NotAdded, TypeOK, MessageType, QueueType, RunType, AccountType,
        HandlerType, HistoryType, ActiveRun, Points, Errors, JobStates, Statuses,
        LogStatuses, Job

\* The steps of the queue keep the type.
LEMMA QueueTypeStep ==
    ASSUME TypeInv, NEW j \in Job,
           Pick(j) \/ CompleteJob(j) \/ FailAttempt(j) \/ Crash(j)
    PROVE  TypeInv'
<1> USE QueueAssumption, FaultAssumption, JobAssumption
<1>1. CASE Pick(j)
  BY <1>1 DEF Pick
<1>2. CASE CompleteJob(j)
  BY <1>2 DEF CompleteJob, EndRun
<1>3. CASE FailAttempt(j)
  BY <1>3 DEF FailAttempt, Retry, EndRun
<1>4. CASE Crash(j)
  BY <1>4 DEF Crash, EndRun, Fault
<1> QED
  BY <1>1, <1>2, <1>3, <1>4

\* So do the steps a run takes outside its recipient loop.
LEMMA RunTypeStep ==
    ASSUME TypeInv, NEW j \in Job,
           \/ FetchRaw(j) \/ ReadDkim(j) \/ ReadSuppressions(j)
           \/ ReadDelivered(j) \/ Finish(j) \/ Notify(j)
           \/ Throw(j) \/ ThrowInTry(j)
    PROVE  TypeInv'
<1> USE FaultAssumption DEF NoEffect, WorkerUnchanged, Goto
<1>1. CASE FetchRaw(j)
  BY <1>1 DEF FetchRaw
<1>2. CASE ReadDkim(j)
  BY <1>2 DEF ReadDkim
<1>3. CASE ReadSuppressions(j)
  BY <1>3 DEF ReadSuppressions, LoadSuppressions
<1>4. CASE ReadDelivered(j)
  BY <1>4 DEF ReadDelivered, LoggedDelivered, Logged
<1>5. CASE Finish(j)
  BY <1>5 DEF Finish, UpdateStatus, Verdict
<1>6. CASE Notify(j)
  BY <1>6 DEF Notify
<1>7. CASE Throw(j)
  BY <1>7 DEF Throw, CallsAt, Fault
<1>8. CASE ThrowInTry(j)
  BY <1>8 DEF ThrowInTry, Catch, Fault
<1> QED
  BY <1>1, <1>2, <1>3, <1>4, <1>5, <1>6, <1>7, <1>8

\* WriteLog keeps the type of the delivery logs.
LEMMA WriteLogType ==
    ASSUME log \in [RowIds -> LogStatuses \cup {"none"}],
           NEW j, NEW r, NEW s \in LogStatuses, WriteLog(j, r, s)
    PROVE  log' \in [RowIds -> LogStatuses \cup {"none"}]
BY DEF WriteLog

\* The steps of the recipient loop keep the type.
LEMMA RecipientTypeStep ==
    ASSUME TypeInv, NEW j \in Job, NEW r \in Rcpt, ForRecipient(j, r)
    PROVE  TypeInv'
<1> USE FaultAssumption
    DEF NoEffect, WorkerUnchanged, Goto, NextRecipient, Catch
<1>1. CASE SkipSuppressed(j, r)
  BY <1>1, WriteLogType DEF SkipSuppressed
<1>2. CASE SkipDelivered(j, r)
  BY <1>2 DEF SkipDelivered, CountServed
<1>3. CASE OpenLog(j, r)
  BY <1>3, WriteLogType DEF OpenLog
<1>4. CASE Simulate(j, r)
  BY <1>4 DEF Simulate
<1>5. CASE RefuseSender(j, r)
  BY <1>5 DEF RefuseSender
<1>6. CASE Accept(j, r)
  BY <1>6 DEF Accept, Fault
<1>7. CASE Reject(j, r)
  BY <1>7 DEF Reject
<1>8. CASE LogDelivered(j, r)
  BY <1>8, WriteLogType DEF LogDelivered, RecordDelivery, CountDelivered
<1>9. CASE PublishDelivered(j, r)
  BY <1>9 DEF PublishDelivered, CountDelivered
<1>10. CASE LogFailure(j, r)
  BY <1>10, WriteLogType DEF LogFailure, RecordFailure
<1>11. CASE PublishBounced(j, r)
  BY <1>11 DEF PublishBounced
<1>12. CASE AutoSuppress(j, r)
  BY <1>12 DEF AutoSuppress, Fault
<1> QED
  BY <1>1, <1>2, <1>3, <1>4, <1>5, <1>6, <1>7, <1>8, <1>9, <1>10, <1>11, <1>12
     DEF ForRecipient

\* The steps of the send handler keep the type.
LEMMA SendTypeStep ==
    ASSUME TypeInv, Send
    PROVE  TypeInv'
<1> USE QueueAssumption, FaultAssumption, JobAssumption
    DEF SendUnchanged, ApiUnchanged
<1>1. CASE CheckSender
  BY <1>1 DEF CheckSender
<1>2. CASE CheckRecipients
  BY <1>2 DEF CheckRecipients, SetPayload
<1>3. CASE CheckQuota
  BY <1>3 DEF CheckQuota
<1>4. CASE PutRaw
  BY <1>4 DEF PutRaw
<1>5. CASE InsertMessage
  BY <1>5 DEF InsertMessage
<1>6. CASE EnqueueMessage
  BY <1>6 DEF EnqueueMessage, AddJob
<1>7. CASE SendThrows
  BY <1>7 DEF SendThrows, Fault
<1> QED
  BY <1>1, <1>2, <1>3, <1>4, <1>5, <1>6, <1>7 DEF Send

\* The steps of the cancel handler keep the type.
LEMMA CancelTypeStep ==
    ASSUME TypeInv, Cancel
    PROVE  TypeInv'
<1> USE FaultAssumption, JobAssumption DEF ApiUnchanged
<1>1. CASE CancelRead
  BY <1>1 DEF CancelRead
<1>2. CASE CancelRemove
  BY <1>2 DEF CancelRemove
<1>3. CASE CancelUpdate
  BY <1>3 DEF CancelUpdate, UpdateStatus
<1>4. CASE CancelThrows
  BY <1>4 DEF CancelThrows, Fault
<1> QED
  BY <1>1, <1>2, <1>3, <1>4 DEF Cancel

\* The steps of a resend keep the type.
LEMMA ResendTypeStep ==
    ASSUME TypeInv, NEW q \in Resend, ResendRequest(q)
    PROVE  TypeInv'
<1> USE FaultAssumption, JobAssumption DEF ApiUnchanged, ResendUnchanged, ResendGoto
<1>1. CASE ResendRead(q)
  BY <1>1 DEF ResendRead
<1>2. CASE ResendRecipients(q)
  BY <1>2 DEF ResendRecipients, SetPayload
<1>3. CASE ResendSender(q)
  BY <1>3 DEF ResendSender
<1>4. CASE ResendClaim(q)
  BY <1>4 DEF ResendClaim, Claim
<1>5. CASE ResendAdd(q)
  BY <1>5 DEF ResendAdd, AddJob
<1>6. CASE ResendThrows(q)
  BY <1>6 DEF ResendThrows, Fault
<1> QED
  BY <1>1, <1>2, <1>3, <1>4, <1>5, <1>6 DEF ResendRequest

\* Deletion, cleanup and changes of the account keep the type.
LEMMA OtherTypeStep ==
    ASSUME TypeInv, Remove \/ Environment \/ Quiet
    PROVE  TypeInv'
<1> USE FaultAssumption DEF RemoverUnchanged, DropRow, EnvUnchanged
<1>1. CASE DeleteRow
  BY <1>1 DEF DeleteRow
<1>2. CASE DeleteObject
  <2>1. stored' = FALSE \/ stored' = stored
    BY <1>2 DEF DeleteObject
  <2>2. faults' \in 0 .. MaxFaults
    BY <1>2 DEF DeleteObject, Fault
  <2>3. MessageType'
    BY <1>2, <2>1 DEF DeleteObject
  <2>4. UNCHANGED <<queueVars, runVars, envVars, mode, strict, scheduled, api,
                    cancel, resend, mailed, held>> /\ remover' = "done"
    BY <1>2 DEF DeleteObject
  <2> QED
    BY <2>2, <2>3, <2>4
<1>3. CASE CleanupObject
  <2>1. MessageType'
    BY <1>3 DEF CleanupObject
  <2> QED
    BY <1>3, <2>1 DEF CleanupObject
<1>4. CASE CleanupRow
  BY <1>4 DEF CleanupRow, Fault
<1>5. CASE ChangeDomain
  BY <1>5 DEF ChangeDomain
<1>6. ASSUME NEW r \in Rcpt, Suppress(r) PROVE TypeInv'
  BY <1>6 DEF Suppress
<1>7. ASSUME NEW r \in Rcpt, Unsuppress(r) PROVE TypeInv'
  BY <1>7 DEF Unsuppress
<1>8. CASE Quiet
  BY <1>8 DEF Quiet, vars
<1> QED
  BY <1>1, <1>2, <1>3, <1>4, <1>5, <1>6, <1>7, <1>8 DEF Remove, Environment

\* Every step keeps the type.
LEMMA TypeNext == TypeInv /\ [Next]_vars => TypeInv'
<1> SUFFICES ASSUME TypeInv, [Next]_vars PROVE TypeInv'
  OBVIOUS
<1>1. CASE Send
  BY <1>1, SendTypeStep
<1>2. CASE Cancel
  BY <1>2, CancelTypeStep
<1>3. ASSUME NEW q \in Resend, ResendRequest(q) PROVE TypeInv'
  BY <1>3, ResendTypeStep
<1>4. ASSUME NEW j \in Job, Worker(j) PROVE TypeInv'
  <2>1. CASE WorkerStep(j)
    BY <2>1, QueueTypeStep, RunTypeStep, RecipientTypeStep DEF WorkerStep
  <2> QED
    BY <1>4, <2>1, QueueTypeStep, RunTypeStep DEF Worker
<1>5. CASE Remove \/ Environment \/ Quiet
  BY <1>5, OtherTypeStep
<1>6. CASE UNCHANGED vars
  BY <1>6 DEF vars
<1> QED
  BY <1>1, <1>2, <1>3, <1>4, <1>5, <1>6 DEF Next

\* The state of a message, its jobs, their runs and the handlers stays within
\* its type; in particular a job has a run exactly while the queue holds it
\* active, and a job that may still run has attempts left.
THEOREM TypeCorrect == Spec => []TypeOK
<1>1. Spec => []TypeInv
  BY TypeInit, TypeNext, PTL DEF Spec
<1> QED
  BY <1>1, PTL DEF TypeInv

HIDE DEF rowVars, queueVars, readVars, countVars, runVars, envVars, apiVars,
         TypeInv, NotAdded, TypeOK, MessageType, QueueType, RunType, AccountType,
         HandlerType, HistoryType, ActiveRun, Points, Errors, JobStates, Statuses,
         LogStatuses, Job

-------------------------------------------------------------------------------
(***************************************************************************)
(* No recipient is mailed twice while nothing breaks. The argument:        *)
(* a run only attempts a recipient that nobody has mailed (FirstAttempt),  *)
(* because it skips the ones it found in the delivery logs (Skips), which  *)
(* hold everyone mailed so far (Remembered): no later row overwrites the   *)
(* row of a delivery (Fresh), and no second job is at work between the     *)
(* read of the logs and the attempt (OneDelivery).                         *)
(***************************************************************************)
InLoop == {"loop", "attempt", "accepted", "publish", "caught", "bounce", "suppress"}
BeforeLoop == {"fetch", "dkim", "suppressions", "delivered"}

\* The ordinal of the current or next run of job j.
Ordinal(j) == attemptsMade[j] + stalledCount[j] + 1

\* The current or next run of job j has not recorded a delivery to r.
Unvisited(j, r) ==
    \/ jobState[j] \in {"absent", "pending"}
    \/ pc[j] \in BeforeLoop
    \/ pc[j] \in InLoop /\ r \in left[j] /\ ~(pc[j] = "publish" /\ Turn(j, r))

Fresh ==
    \A j \in Job, k \in Runs, r \in Rcpt :
        k > Ordinal(j) \/ (k = Ordinal(j) /\ Unvisited(j, r)) =>
            log[<<j, k, r>>] # "delivered"

Remembered ==
    \A r \in Rcpt : mailed[r] > 0 =>
        \/ row = "deleted"
        \/ r \in LoggedDelivered
        \/ \E j \in Job : pc[j] = "accepted" /\ Turn(j, r)

Skips ==
    \A j \in Job, r \in Rcpt :
        pc[j] \in InLoop /\ r \in left[j] /\ mailed[r] > 0 =>
            \/ row = "deleted"
            \/ r \in alreadyDelivered[j]
            \/ pc[j] \in {"accepted", "publish"} /\ Turn(j, r)

FirstAttempt ==
    \A j \in Job, r \in Rcpt : pc[j] = "attempt" /\ Turn(j, r) => mailed[r] = 0

NotInserted ==
    /\ api \in {"sender", "recipients", "quota", "put", "insert"} => row = "none"
    /\ remover # "idle" => row # "none"

OnceInv ==
    /\ TypeInv /\ NotInserted /\ OneDelivery /\ MailedAtMostOnce
    /\ faults = 0 => Fresh /\ Remembered /\ Skips /\ FirstAttempt

\* The initial state satisfies the invariant.
LEMMA OnceInit == Init => OnceInv
<1> SUFFICES ASSUME Init PROVE OnceInv
  OBVIOUS
<1>1. TypeInv
  BY TypeInit
<1>2. NotInserted /\ MailedAtMostOnce
  BY DEF Init, NotInserted, MailedAtMostOnce
<1>3. OneDelivery
  BY DEF Init, OneDelivery, Delivering, Resendable
<1>4. Fresh
  BY DEF Init, Fresh, RowIds
<1>5. Remembered /\ Skips /\ FirstAttempt
  BY DEF Init, Remembered, Skips, FirstAttempt, InLoop
<1> QED
  BY <1>1, <1>2, <1>3, <1>4, <1>5 DEF OnceInv

(***************************************************************************)
(* What the steps of the handlers and the environment leave alone, and what*)
(* a worker's step leaves alone of the other jobs.                         *)
(***************************************************************************)
OtherStep ==
    \/ Send \/ Cancel \/ Remove \/ Environment \/ Quiet \/ UNCHANGED vars
    \/ \E q \in Resend : ResendRequest(q)

\* A step that is no step of a worker leaves every run alone.
LEMMA OtherFrame ==
    ASSUME OtherStep
    PROVE  UNCHANGED <<runVars, attemptsMade, stalledCount, mailed>>
<1> USE DEF rowVars, queueVars, runVars, envVars, apiVars
<1>1. CASE Send
  BY <1>1 DEF Send, CheckSender, CheckRecipients, CheckQuota, PutRaw, InsertMessage,
     EnqueueMessage, SendThrows, SendUnchanged, ApiUnchanged, SetPayload, AddJob
<1>2. CASE Cancel
  BY <1>2 DEF Cancel, CancelRead, CancelRemove, CancelUpdate, CancelThrows,
     ApiUnchanged
<1>3. CASE Remove
  BY <1>3 DEF Remove, DeleteRow, DeleteObject, CleanupObject, CleanupRow,
     RemoverUnchanged
<1>4. CASE Environment
  BY <1>4 DEF Environment, ChangeDomain, Suppress, Unsuppress, EnvUnchanged
<1>5. CASE Quiet \/ UNCHANGED vars
  BY <1>5 DEF Quiet, vars
<1>6. ASSUME NEW q \in Resend, ResendRequest(q)
      PROVE  UNCHANGED <<runVars, attemptsMade, stalledCount, mailed>>
  BY <1>6 DEF ResendRequest, ResendRead, ResendRecipients, ResendSender, ResendClaim,
     Claim, ResendAdd, ResendThrows, ResendUnchanged, ApiUnchanged, SetPayload, AddJob
<1> QED
  BY <1>1, <1>2, <1>3, <1>4, <1>5, <1>6 DEF OtherStep

\* It changes no log row other than by deleting them all.
LEMMA OtherLog ==
    ASSUME OtherStep
    PROVE  \/ log' = log
           \/ row' = "deleted" /\ log' = [id \in RowIds |-> "none"]
<1> USE DEF rowVars
<1>1. CASE Send
  BY <1>1 DEF Send, CheckSender, CheckRecipients, CheckQuota, PutRaw, InsertMessage,
     EnqueueMessage, SendThrows, SendUnchanged, ApiUnchanged
<1>2. CASE Cancel
  BY <1>2 DEF Cancel, CancelRead, CancelRemove, CancelUpdate, CancelThrows,
     ApiUnchanged
<1>3. CASE Remove
  BY <1>3 DEF Remove, DeleteRow, DeleteObject, CleanupObject, CleanupRow, DropRow
<1>4. CASE Environment
  BY <1>4 DEF Environment, ChangeDomain, Suppress, Unsuppress, EnvUnchanged
<1>5. CASE Quiet \/ UNCHANGED vars
  BY <1>5 DEF Quiet, vars
<1>6. ASSUME NEW q \in Resend, ResendRequest(q) PROVE log' = log
  BY <1>6 DEF ResendRequest, ResendRead, ResendRecipients, ResendSender, ResendClaim,
     Claim, ResendAdd, ResendThrows, ResendUnchanged, ApiUnchanged
<1> QED
  BY <1>1, <1>2, <1>3, <1>4, <1>5, <1>6 DEF OtherStep

SameRun(i) ==
    /\ pc'[i] = pc[i] /\ left'[i] = left[i]
    /\ alreadyDelivered'[i] = alreadyDelivered[i]
    /\ jobState'[i] = jobState[i]
    /\ attemptsMade'[i] = attemptsMade[i] /\ stalledCount'[i] = stalledCount[i]

\* A step of a run leaves the other runs alone.
LEMMA WorkerFrame ==
    ASSUME TypeInv, NEW j \in Job, WorkerStep(j), NEW i \in Job, i # j
    PROVE  SameRun(i)
<1> USE DEF SameRun, TypeInv, TypeOK, QueueType, RunType,
        rowVars, queueVars, readVars, countVars, runVars, envVars, apiVars,
        Goto, NextRecipient, Catch, NoEffect, WorkerUnchanged
<1>1. CASE Pick(j)
  BY <1>1 DEF Pick
<1>2. CASE CompleteJob(j) \/ FailAttempt(j)
  BY <1>2 DEF CompleteJob, FailAttempt, Retry, EndRun
<1>3. CASE FetchRaw(j) \/ ReadDkim(j) \/ ReadSuppressions(j) \/ ReadDelivered(j)
  BY <1>3 DEF FetchRaw, ReadDkim, ReadSuppressions, LoadSuppressions, ReadDelivered
<1>4. CASE Finish(j) \/ Notify(j)
  BY <1>4 DEF Finish, Notify
<1>5. ASSUME NEW r \in Rcpt, ForRecipient(j, r) PROVE SameRun(i)
  BY <1>5 DEF ForRecipient, SkipSuppressed, SkipDelivered, CountServed, OpenLog,
     Simulate, RefuseSender, Accept, Reject, LogDelivered, RecordDelivery,
     PublishDelivered, LogFailure, RecordFailure, PublishBounced, AutoSuppress
<1> QED
  BY <1>1, <1>2, <1>3, <1>4, <1>5 DEF WorkerStep

\* A worker's step leaves the handlers alone, and the row but for its status.
LEMMA WorkerRow ==
    ASSUME NEW j \in Job, Worker(j)
    PROVE  UNCHANGED apiVars /\ (row' = row \/ Finish(j))
<1> USE DEF rowVars, NoEffect, WorkerUnchanged
<1>1. CASE Pick(j) \/ CompleteJob(j) \/ FailAttempt(j) \/ Crash(j)
  BY <1>1 DEF Pick, CompleteJob, FailAttempt, Retry, Crash, EndRun
<1>2. CASE FetchRaw(j) \/ ReadDkim(j) \/ ReadSuppressions(j) \/ ReadDelivered(j)
  BY <1>2 DEF FetchRaw, ReadDkim, ReadSuppressions, LoadSuppressions, ReadDelivered
<1>3. CASE Finish(j) \/ Notify(j) \/ Throw(j) \/ ThrowInTry(j)
  BY <1>3 DEF Finish, Notify, Throw, ThrowInTry
<1>4. ASSUME NEW r \in Rcpt, ForRecipient(j, r)
      PROVE  UNCHANGED apiVars /\ row' = row
  BY <1>4 DEF ForRecipient, SkipSuppressed, SkipDelivered, CountServed, OpenLog,
     Simulate, RefuseSender, Accept, Reject, LogDelivered, RecordDelivery,
     PublishDelivered, LogFailure, RecordFailure, PublishBounced, AutoSuppress
<1> QED
  BY <1>1, <1>2, <1>3, <1>4 DEF Worker, WorkerStep

\* A step counts one fault or none.
LEMMA FaultCount ==
    ASSUME [Next]_vars
    PROVE  faults' = faults \/ \E kind : Fault(kind)
<1>1. CASE Send
  BY <1>1 DEF Send, CheckSender, CheckRecipients, CheckQuota, PutRaw,
     InsertMessage, EnqueueMessage, SendThrows
<1>2. CASE Cancel
  BY <1>2 DEF Cancel, CancelRead, CancelRemove, CancelUpdate, CancelThrows
<1>3. CASE Remove
  BY <1>3 DEF Remove, DeleteRow, DeleteObject, CleanupObject, CleanupRow
<1>4. CASE Environment
  BY <1>4 DEF Environment, ChangeDomain, Suppress, Unsuppress, EnvUnchanged
<1>5. CASE Quiet \/ UNCHANGED vars
  BY <1>5 DEF Quiet, vars
<1>6. ASSUME NEW q \in Resend, ResendRequest(q)
      PROVE  faults' = faults \/ \E kind : Fault(kind)
  BY <1>6 DEF ResendRequest, ResendRead, ResendRecipients, ResendSender,
     ResendClaim, Claim, ResendAdd, ResendThrows
<1>7. ASSUME NEW j \in Job, Worker(j)
      PROVE  faults' = faults \/ \E kind : Fault(kind)
  <2> USE DEF NoEffect
  <2>1. ASSUME NEW r \in Rcpt, ForRecipient(j, r)
        PROVE  faults' = faults \/ \E kind : Fault(kind)
    BY <2>1 DEF ForRecipient, SkipSuppressed, SkipDelivered, CountServed, OpenLog,
       Simulate, RefuseSender, Accept, Reject, LogDelivered, RecordDelivery,
       PublishDelivered, LogFailure, RecordFailure, PublishBounced, AutoSuppress
  <2> QED
    BY <1>7, <2>1 DEF Worker, WorkerStep, Pick, FetchRaw, ReadDkim, ReadSuppressions,
       LoadSuppressions, ReadDelivered, Finish, Notify, CompleteJob, FailAttempt,
       Retry, Crash, EndRun, Throw, ThrowInTry
<1> QED
  BY <1>1, <1>2, <1>3, <1>4, <1>5, <1>6, <1>7 DEF Next

\* Without a fault a worker only takes the steps of its code.
LEMMA NoFault ==
    ASSUME TypeInv, [Next]_vars, faults' = 0
    PROVE  faults = 0 /\ (OtherStep \/ \E j \in Job : WorkerStep(j))
<1> USE FaultAssumption DEF TypeInv, TypeOK, HistoryType
<1>1. ASSUME NEW kind, Fault(kind) PROVE FALSE
  BY <1>1 DEF Fault
<1>2. faults = 0
  BY <1>1, FaultCount
<1>3. ASSUME NEW j \in Job, Crash(j) \/ Throw(j) \/ ThrowInTry(j) PROVE FALSE
  BY <1>1, <1>3 DEF Crash, Throw, ThrowInTry
<1> QED
  BY <1>2, <1>3 DEF Next, Worker, OtherStep

\* Nothing is queued for a message whose row is not inserted.
LEMMA NotInsertedStep ==
    ASSUME OnceInv, [Next]_vars
    PROVE  NotInserted' /\ (row = "deleted" => row' = "deleted")
<1> DEFINE Keeps == NotInserted' /\ (row = "deleted" => row' = "deleted")
<1> USE DEF OnceInv, NotInserted, rowVars, apiVars
<1>1. CASE Send
  BY <1>1 DEF Send, CheckSender, CheckRecipients, CheckQuota, PutRaw, InsertMessage,
     EnqueueMessage, SendThrows, SendUnchanged, ApiUnchanged
<1>2. CASE Cancel
  BY <1>2 DEF Cancel, CancelRead, CancelRemove, CancelUpdate, CancelThrows,
     ApiUnchanged, UpdateStatus
<1>3. CASE Remove
  BY <1>3 DEF Remove, DeleteRow, DeleteObject, CleanupObject, CleanupRow, DropRow,
     RemoverUnchanged, Present
<1>4. CASE Environment
  BY <1>4 DEF Environment, ChangeDomain, Suppress, Unsuppress, EnvUnchanged
<1>5. CASE Quiet \/ UNCHANGED vars
  BY <1>5 DEF Quiet, vars
<1>6. ASSUME NEW q \in Resend, ResendRequest(q) PROVE Keeps
  BY <1>6 DEF ResendRequest, ResendRead, ResendRecipients, ResendSender, ResendClaim,
     Claim, ResendAdd, ResendThrows, ResendUnchanged, ApiUnchanged, Resendable
<1>7. ASSUME NEW j \in Job, Worker(j) PROVE Keeps
  BY <1>7, WorkerRow DEF Finish, UpdateStatus, Verdict
<1> QED
  BY <1>1, <1>2, <1>3, <1>4, <1>5, <1>6, <1>7 DEF Next

-------------------------------------------------------------------------------
\* A resend becomes a delivering job by its claim; no other step makes one of
\* a job that is not.
LEMMA DeliveringStep ==
    ASSUME TypeInv, OtherStep \/ \E i \in Job : WorkerStep(i), NEW j \in Job,
           Delivering(j)'
    PROVE  \/ Delivering(j)
           \/ j \in Resend /\ ResendClaim(j) /\ row \in Resendable
<1> USE DEF TypeInv, TypeOK
<1>1. CASE OtherStep
  <2> USE DEF OtherStep, Delivering
  <2>1. pc'[j] = pc[j]
    BY <1>1, OtherFrame DEF runVars
  <2>2. CASE Send
    BY <2>1, <2>2, JobAssumption DEF Send, CheckSender, CheckRecipients, CheckQuota, PutRaw,
       InsertMessage, EnqueueMessage, SendThrows, SendUnchanged, SetPayload, AddJob,
       queueVars, Job, QueueType
  <2>3. CASE Cancel
    BY <2>1, <2>3 DEF Cancel, CancelRead, CancelRemove, CancelUpdate, CancelThrows,
       queueVars, Job, QueueType
  <2>4. CASE Remove
    BY <2>1, <2>4 DEF Remove, DeleteRow, DeleteObject, CleanupObject, CleanupRow,
       RemoverUnchanged, queueVars
  <2>5. CASE Environment
    BY <2>1, <2>5 DEF Environment, ChangeDomain, Suppress, Unsuppress, EnvUnchanged,
       queueVars, apiVars
  <2>6. CASE Quiet \/ UNCHANGED vars
    BY <2>1, <2>6 DEF Quiet, vars, queueVars, apiVars
  <2>7. ASSUME NEW q \in Resend, ResendRequest(q)
        PROVE  \/ Delivering(j)
               \/ j \in Resend /\ ResendClaim(j) /\ row \in Resendable
    <3> USE JobAssumption DEF ResendUnchanged, ResendGoto, Job, QueueType, HandlerType,
            queueVars
    <3>1. CASE ResendClaim(q)
      BY <2>1, <3>1 DEF ResendClaim, Claim
    <3>2. CASE ResendAdd(q)
      BY <2>1, <3>2 DEF ResendAdd, AddJob
    <3> QED
      BY <2>1, <2>7, <3>1, <3>2 DEF ResendRequest, ResendRead, ResendRecipients,
         ResendSender, ResendThrows, SetPayload
  <2> QED
    BY <1>1, <2>2, <2>3, <2>4, <2>5, <2>6, <2>7
<1>2. ASSUME NEW i \in Job, WorkerStep(i) PROVE Delivering(j)
  <2>1. UNCHANGED apiVars
    BY <1>2, WorkerRow DEF Worker
  <2>2. CASE i # j
    BY <1>2, <2>1, <2>2, WorkerFrame DEF SameRun, Delivering, apiVars
  <2>3. CASE i = j
    <3>1. CASE ~(pc[j] \in {"idle", "notify", "complete"})
      BY <3>1 DEF Delivering
    <3>2. CASE Pick(j)
      BY <3>2 DEF Pick, Delivering
    <3>3. CASE Notify(j)
      BY <2>1, <3>3 DEF Notify, Goto, NoEffect, WorkerUnchanged, queueVars, RunType,
         Delivering, apiVars
    <3>4. CASE CompleteJob(j)
      BY <2>1, <3>4 DEF CompleteJob, EndRun, QueueType, RunType, Delivering, apiVars
    <3>5. pc[j] \in {"idle", "notify", "complete"} =>
             Pick(j) \/ Notify(j) \/ CompleteJob(j)
      BY <1>2, <2>3 DEF WorkerStep, FetchRaw, ReadDkim, ReadSuppressions,
         LoadSuppressions, ReadDelivered, Finish, FailAttempt, Retry, ForRecipient,
         SkipSuppressed, SkipDelivered, CountServed, OpenLog, Simulate, RefuseSender,
         Accept, Reject, LogDelivered, RecordDelivery, PublishDelivered, LogFailure,
         RecordFailure, PublishBounced, AutoSuppress
    <3> QED
      BY <3>1, <3>2, <3>3, <3>4, <3>5
  <2> QED
    BY <2>2, <2>3
<1> QED
  BY <1>1, <1>2

\* The row of a message becomes "bounced" or "suppressed" only when the job that
\* was delivering it ends.
LEMMA BouncedStep ==
    ASSUME TypeInv, OtherStep \/ \E j \in Job : WorkerStep(j),
           row' \in Resendable \cup {"suppressed"}, row' # row
    PROVE  \E j \in Job : Finish(j) /\ Delivering(j) /\ ~Delivering(j)'
<1> USE DEF TypeInv, TypeOK
<1>1. CASE OtherStep
  <2> USE DEF rowVars, Resendable
  <2>1. CASE Send
    BY <1>1, <2>1 DEF Send, CheckSender, CheckRecipients, CheckQuota, PutRaw,
       InsertMessage, EnqueueMessage, SendThrows
  <2>2. CASE Cancel
    BY <1>1, <2>2 DEF Cancel, CancelRead, CancelRemove, CancelUpdate, CancelThrows,
       UpdateStatus
  <2>3. CASE Remove
    BY <1>1, <2>3 DEF Remove, DeleteRow, DeleteObject, CleanupObject, CleanupRow,
       DropRow
  <2>4. CASE Environment \/ Quiet \/ UNCHANGED vars
    BY <2>4 DEF Environment, ChangeDomain, Suppress, Unsuppress, EnvUnchanged,
       Quiet, vars
  <2>5. ASSUME NEW q \in Resend, ResendRequest(q) PROVE FALSE
    BY <2>5 DEF ResendRequest, ResendRead, ResendRecipients, ResendSender, ResendClaim,
       Claim, ResendAdd, ResendThrows
  <2> QED
    BY <1>1, <2>1, <2>2, <2>3, <2>4, <2>5 DEF OtherStep
<1>2. ASSUME NEW j \in Job, WorkerStep(j)
      PROVE  Finish(j) /\ Delivering(j) /\ ~Delivering(j)'
  <2>1. Finish(j) /\ UNCHANGED apiVars
    BY <1>2, WorkerRow DEF Worker
  <2>2. pc[j] = "loop" /\ jobState[j] = "active"
    BY <2>1 DEF Finish, ActiveRun
  <2>3. /\ pc'[j] = "notify" /\ jobState'[j] = "active"
        /\ api = "replied" \/ j # Orig
        /\ j \in Resend => resend[j] = "done"
    BY <2>1, <2>2 DEF Finish, Goto, WorkerUnchanged, queueVars, RunType, NotAdded
  <2> QED
    BY <2>1, <2>2, <2>3 DEF Delivering, apiVars
<1> QED
  BY <1>1, <1>2

\* Every step keeps OneDelivery.
LEMMA OneDeliveryStep ==
    ASSUME OnceInv, [Next]_vars
    PROVE  OneDelivery'
<1> SUFFICES ASSUME faults' = 0
             PROVE  /\ \A j, k \in Job : Delivering(j)' /\ Delivering(k)' => j = k
                    /\ row' \in Resendable => \A j \in Job : ~Delivering(j)'
  BY DEF OneDelivery, Resendable
<1> USE DEF OnceInv
<1>1. /\ \A j, k \in Job : Delivering(j) /\ Delivering(k) => j = k
      /\ row \in Resendable => \A j \in Job : ~Delivering(j)
  BY NoFault DEF OneDelivery
<1>2. CASE \E q \in Resend : ResendClaim(q) /\ row \in Resendable
  <2>1. PICK q \in Resend : ResendClaim(q) /\ row \in Resendable
    BY <1>2
  <2>2. row' = "queued" /\ \A p \in Resend \ {q} : resend'[p] = resend[p]
    BY <2>1 DEF ResendClaim, Claim, ResendGoto, TypeInv, TypeOK, HandlerType
  <2>3. \A p \in Resend : ResendClaim(p) => p = q
    BY <2>1, <2>2 DEF ResendClaim, Claim, ResendGoto, TypeInv, TypeOK, HandlerType
  <2> QED
    BY <1>1, <2>1, <2>2, <2>3, NoFault, DeliveringStep DEF Resendable
<1>3. CASE ~\E q \in Resend : ResendClaim(q) /\ row \in Resendable
  <2>1. \A j \in Job : Delivering(j)' => Delivering(j)
    BY <1>3, NoFault, DeliveringStep
  <2> QED
    BY <1>1, <2>1, NoFault, BouncedStep
<1> QED
  BY <1>2, <1>3

-------------------------------------------------------------------------------
\* The loop is at one recipient at a time.
LEMMA TurnUnique ==
    ASSUME NEW j \in Job, NEW r \in Rcpt, NEW q \in Rcpt, Turn(j, r), Turn(j, q)
    PROVE  r = q
BY NAssumption DEF Turn, Rcpt

\* At most one job has a run that may mail or record anything.
LEMMA OneRun ==
    ASSUME OnceInv, faults = 0, NEW i \in Job, NEW j \in Job,
           pc[i] \in InLoop \cup BeforeLoop, pc[j] \in InLoop \cup BeforeLoop
    PROVE  i = j
BY DEF OnceInv, OneDelivery, Delivering, InLoop, BeforeLoop

\* A step of the worker's code mails only by Accept, and writes at most the row
\* of its run for the recipient the loop is at.
LEMMA WorkerMails ==
    ASSUME NEW j \in Job, WorkerStep(j)
    PROVE  mailed' = mailed \/ \E r \in Rcpt : Accept(j, r)
<1>1. ASSUME NEW r \in Rcpt, ForRecipient(j, r) PROVE mailed' = mailed \/ Accept(j, r)
  BY <1>1 DEF ForRecipient, SkipSuppressed, SkipDelivered, CountServed, OpenLog,
     Simulate, RefuseSender, Reject, LogDelivered, RecordDelivery, NoEffect,
     PublishDelivered, LogFailure, RecordFailure, PublishBounced, AutoSuppress
<1> QED
  BY <1>1 DEF WorkerStep, Pick, FetchRaw, ReadDkim, ReadSuppressions, NoEffect,
     LoadSuppressions, ReadDelivered, Finish, Notify, CompleteJob, FailAttempt,
     Retry, EndRun

Logs(j, r) ==
    \/ pc[j] = "accepted" /\ pc'[j] = "publish" /\ left' = left
          /\ WriteLog(j, r, "delivered")
    \/ /\ pc[j] \in {"loop", "caught"}
       /\ \E s \in LogStatuses \ {"delivered"} : WriteLog(j, r, s)

\* A step of a run writes its own log row only.
LEMMA WorkerLogs ==
    ASSUME TypeInv, NEW j \in Job, WorkerStep(j)
    PROVE  log' = log \/ \E r \in Rcpt : Turn(j, r) /\ Logs(j, r)
<1>1. ASSUME NEW r \in Rcpt, ForRecipient(j, r)
      PROVE  log' = log \/ (Turn(j, r) /\ Logs(j, r))
  <2>1. CASE SkipSuppressed(j, r)
    BY <2>1 DEF SkipSuppressed, Logs, LogStatuses
  <2>2. CASE OpenLog(j, r)
    BY <2>2 DEF OpenLog, Logs, LogStatuses
  <2>3. CASE LogDelivered(j, r)
    BY <2>3 DEF LogDelivered, RecordDelivery, Logs, Goto, TypeInv, TypeOK, RunType
  <2>4. CASE LogFailure(j, r)
    BY <2>4 DEF LogFailure, RecordFailure, Logs, LogStatuses
  <2>5. CASE SkipDelivered(j, r) \/ PublishDelivered(j, r) \/ PublishBounced(j, r)
    BY <2>5 DEF SkipDelivered, CountServed, PublishDelivered, PublishBounced, NoEffect
  <2>6. CASE Simulate(j, r) \/ RefuseSender(j, r) \/ Accept(j, r) \/ Reject(j, r)
    BY <2>6 DEF Simulate, RefuseSender, Accept, Reject, NoEffect
  <2>7. CASE AutoSuppress(j, r)
    BY <2>7 DEF AutoSuppress
  <2> QED
    BY <1>1, <2>1, <2>2, <2>3, <2>4, <2>5, <2>6, <2>7 DEF ForRecipient
<1> QED
  BY <1>1 DEF WorkerStep, Pick, FetchRaw, ReadDkim, ReadSuppressions, NoEffect,
     LoadSuppressions, ReadDelivered, Finish, Notify, CompleteJob, FailAttempt,
     Retry, EndRun, rowVars
\* A run's part in the loop: it starts with ReadDelivered, visits a recipient
\* only after that, and is done with a recipient it publishes the delivery of.
LoopStep(j) ==
    /\ pc[j] \in InLoop /\ left'[j] \subseteq left[j]
    /\ alreadyDelivered'[j] = alreadyDelivered[j]
    /\ pc[j] = "accepted" => pc'[j] = "publish" /\ left'[j] = left[j]
    /\ pc[j] = "publish" =>
          pc'[j] = "loop" /\ \A r \in Rcpt : Turn(j, r) => r \notin left'[j]
    /\ pc'[j] = "publish" => pc[j] = "accepted"
    /\ pc'[j] = "accepted" => pc[j] = "attempt" /\ left'[j] = left[j]
    /\ pc'[j] = "attempt" =>
          pc[j] = "loop" /\ row # "deleted" /\ left'[j] = left[j]
              /\ \A r \in Rcpt : Turn(j, r) => r \notin alreadyDelivered[j]

\* How a step moves the loop of its run.
LEMMA WorkerLoop ==
    ASSUME TypeInv, NEW j \in Job, WorkerStep(j), pc'[j] \in InLoop
    PROVE  ReadDelivered(j) \/ LoopStep(j)
<1> USE DEF TypeInv, TypeOK, RunType, InLoop, Goto
<1>1. ASSUME NEW r \in Rcpt, ForRecipient(j, r) PROVE LoopStep(j)
  <2> USE DEF LoopStep, readVars
  <2>1. CASE SkipSuppressed(j, r) \/ SkipDelivered(j, r)
    BY <2>1 DEF SkipSuppressed, SkipDelivered, CountServed, NextRecipient
  <2>2. CASE OpenLog(j, r)
    <3>1. \A q \in Rcpt : Turn(j, q) => q = r
      BY <2>2, TurnUnique DEF OpenLog
    <3> QED
      BY <2>2, <3>1 DEF OpenLog
  <2>3. CASE Simulate(j, r) \/ RefuseSender(j, r) \/ Accept(j, r) \/ Reject(j, r)
    BY <2>3 DEF Simulate, RefuseSender, Accept, Reject, Catch
  <2>4. CASE LogDelivered(j, r)
    BY <2>4 DEF LogDelivered, RecordDelivery
  <2>5. CASE PublishDelivered(j, r)
    <3>1. \A q \in Rcpt : Turn(j, q) => q = r
      BY <2>5, TurnUnique DEF PublishDelivered
    <3> QED
      BY <2>5, <3>1 DEF PublishDelivered, NextRecipient
  <2>6. CASE LogFailure(j, r)
    BY <2>6 DEF LogFailure, RecordFailure
  <2>7. CASE PublishBounced(j, r) \/ AutoSuppress(j, r)
    BY <2>7 DEF PublishBounced, AutoSuppress, NextRecipient
  <2> QED
    BY <1>1, <2>1, <2>2, <2>3, <2>4, <2>5, <2>6, <2>7 DEF ForRecipient
<1>2. CASE Pick(j) \/ FetchRaw(j) \/ ReadDkim(j) \/ ReadSuppressions(j)
  BY <1>2 DEF Pick, FetchRaw, ReadDkim, ReadSuppressions, LoadSuppressions
<1>3. CASE Finish(j) \/ Notify(j) \/ CompleteJob(j) \/ FailAttempt(j)
  BY <1>3 DEF Finish, Notify, CompleteJob, FailAttempt, Retry, EndRun
<1> QED
  BY <1>1, <1>2, <1>3 DEF WorkerStep

\* Before the loop.
LEMMA WorkerEnters ==
    ASSUME TypeInv, NEW j \in Job, WorkerStep(j), pc'[j] \in BeforeLoop
    PROVE  jobState[j] = "pending" \/ pc[j] \in BeforeLoop
<1> USE DEF TypeInv, TypeOK, RunType, BeforeLoop, Goto
<1>1. ASSUME NEW r \in Rcpt, ForRecipient(j, r) PROVE FALSE
  BY <1>1 DEF ForRecipient, SkipSuppressed, SkipDelivered, CountServed, OpenLog,
     Simulate, RefuseSender, Accept, Reject, LogDelivered, RecordDelivery,
     PublishDelivered, LogFailure, RecordFailure, PublishBounced, AutoSuppress,
     NextRecipient, Catch
<1> QED
  BY <1>1 DEF WorkerStep, Pick, FetchRaw, ReadDkim, ReadSuppressions,
     LoadSuppressions, ReadDelivered, Finish, Notify, CompleteJob, FailAttempt,
     Retry, EndRun

\* The ordinal of a job's run grows with a failed attempt only, and only that
\* step of the worker leaves its job waiting.
LEMMA WorkerOrdinal ==
    ASSUME TypeInv, NEW j \in Job, WorkerStep(j)
    PROVE  \/ Ordinal(j)' = Ordinal(j) /\ jobState'[j] \notin {"absent", "pending"}
           \/ Ordinal(j)' = Ordinal(j) + 1
<1> USE DEF TypeInv, TypeOK, QueueType, ActiveRun, Ordinal, queueVars
<1>1. ASSUME NEW r \in Rcpt, ForRecipient(j, r)
      PROVE  UNCHANGED queueVars /\ pc[j] # "idle"
  BY <1>1 DEF ForRecipient, SkipSuppressed, SkipDelivered, CountServed, OpenLog,
     Simulate, RefuseSender, Accept, Reject, LogDelivered, RecordDelivery, NoEffect,
     PublishDelivered, LogFailure, RecordFailure, PublishBounced, AutoSuppress,
     WorkerUnchanged
<1>2. CASE \/ FetchRaw(j) \/ ReadDkim(j) \/ ReadSuppressions(j) \/ ReadDelivered(j)
           \/ Finish(j) \/ Notify(j)
  <2>1. UNCHANGED queueVars /\ pc[j] # "idle"
    BY <1>2 DEF FetchRaw, ReadDkim, ReadSuppressions, LoadSuppressions,
       ReadDelivered, Finish, Notify, NoEffect, WorkerUnchanged
  <2> QED
    BY <2>1
<1>3. CASE Pick(j)
  BY <1>3 DEF Pick
<1>4. CASE CompleteJob(j)
  BY <1>4 DEF CompleteJob
<1>5. CASE FailAttempt(j)
  BY <1>5 DEF FailAttempt, Retry
<1> QED
  BY <1>1, <1>2, <1>3, <1>4, <1>5 DEF WorkerStep

\* The handlers only add jobs they have not added before.
LEMMA OtherJobs ==
    ASSUME TypeInv, OtherStep, NEW j \in Job, jobState'[j] \in {"absent", "pending"}
    PROVE  jobState[j] \in {"absent", "pending"}
<1> USE DEF TypeInv, TypeOK, QueueType, NotAdded, queueVars, Job
<1>1. CASE Send
  BY <1>1 DEF Send, CheckSender, CheckRecipients, CheckQuota, PutRaw, InsertMessage,
     EnqueueMessage, SendThrows, SetPayload, AddJob
<1>2. CASE Cancel
  BY <1>2 DEF Cancel, CancelRead, CancelRemove, CancelUpdate, CancelThrows
<1>3. CASE Remove \/ Environment \/ Quiet \/ UNCHANGED vars
  BY <1>3 DEF Remove, DeleteRow, DeleteObject, CleanupObject, CleanupRow,
     RemoverUnchanged, Environment, ChangeDomain, Suppress, Unsuppress, EnvUnchanged,
     Quiet, vars
<1>4. ASSUME NEW q \in Resend, ResendRequest(q)
      PROVE  jobState[j] \in {"absent", "pending"}
  BY <1>4 DEF ResendRequest, ResendRead, ResendRecipients, ResendSender, ResendClaim,
     Claim, ResendAdd, ResendThrows, SetPayload, AddJob
<1> QED
  BY <1>1, <1>2, <1>3, <1>4 DEF OtherStep

\* Every step of a fault-free behaviour keeps Fresh.
LEMMA FreshStep ==
    ASSUME OnceInv, [Next]_vars, faults' = 0
    PROVE  Fresh'
<1> USE DEF OnceInv
<1>0. TypeInv' /\ Fresh /\ faults = 0
  BY TypeNext, NoFault
<1> SUFFICES ASSUME NEW j \in Job, NEW k \in Runs, NEW r \in Rcpt,
                    k > Ordinal(j)' \/ (k = Ordinal(j)' /\ Unvisited(j, r)'),
                    log'[<<j, k, r>>] = "delivered"
             PROVE  FALSE
  BY DEF Fresh
<1>1. /\ k \in Nat /\ Ordinal(j) \in Nat /\ Ordinal(j)' \in Nat
      /\ <<j, k, r>> \in RowIds
  BY <1>0, QueueAssumption DEF Runs, RowIds, Ordinal, TypeInv, TypeOK, QueueType
<1>2. k > Ordinal(j) \/ (k = Ordinal(j) /\ Unvisited(j, r)) =>
         log[<<j, k, r>>] # "delivered"
  BY <1>0 DEF Fresh
<1>3. CASE OtherStep
  <2>1. log[<<j, k, r>>] = "delivered"
    BY <1>1, <1>3, OtherLog
  <2>2. UNCHANGED runVars /\ Ordinal(j)' = Ordinal(j)
    BY <1>3, OtherFrame DEF Ordinal
  <2>3. Unvisited(j, r)' => Unvisited(j, r)
    BY <1>3, <2>2, OtherJobs DEF Unvisited, Turn, runVars
  <2> QED
    BY <1>2, <2>1, <2>2, <2>3
<1>4. ASSUME NEW i \in Job, WorkerStep(i) PROVE FALSE
  <2>1. k > Ordinal(j) \/ (k = Ordinal(j) /\ Unvisited(j, r))
    <3>1. CASE i # j
      <4>1. SameRun(j)
        BY <1>4, <3>1, WorkerFrame
      <4> QED
        BY <4>1 DEF SameRun, Ordinal, Unvisited, Turn
    <3>2. CASE i = j
      <4>1. CASE Ordinal(j)' = Ordinal(j) + 1
        BY <1>1, <4>1
      <4>2. CASE Ordinal(j)' = Ordinal(j) /\ jobState'[j] \notin {"absent", "pending"}
        <5>1. Unvisited(j, r)' => Unvisited(j, r)
          <6>1. CASE pc'[j] \in BeforeLoop
            BY <1>4, <3>2, <6>1, WorkerEnters DEF Unvisited
          <6>2. CASE ReadDelivered(j)
            BY <6>2 DEF ReadDelivered, Unvisited, BeforeLoop
          <6>3. CASE LoopStep(j) /\ pc'[j] \notin BeforeLoop
            BY <4>2, <6>3 DEF LoopStep, Unvisited
          <6> QED
            BY <1>4, <3>2, <4>2, <6>1, <6>2, <6>3, WorkerLoop DEF Unvisited
        <5> QED
          BY <4>2, <5>1
      <4> QED
        BY <1>4, <3>2, <4>1, <4>2, WorkerOrdinal
    <3> QED
      BY <3>1, <3>2
  <2>2. PICK q \in Rcpt : Turn(i, q) /\ Logs(i, q)
    BY <1>2, <1>4, <2>1, WorkerLogs
  <2>3. <<j, k, r>> = LogRow(i, q) /\ pc[i] = "accepted" /\ pc'[i] = "publish"
          /\ left' = left
    BY <1>0, <1>1, <1>2, <2>1, <2>2
       DEF Logs, WriteLog, TypeInv, TypeOK, MessageType, LogStatuses
  <2>4. i = j /\ q = r /\ k = Ordinal(j)
    BY <2>3 DEF LogRow, Ordinal
  <2>5. ~Unvisited(j, r)'
    BY <1>0, <2>2, <2>3, <2>4
       DEF Unvisited, Turn, BeforeLoop, TypeInv, TypeOK, ActiveRun
  <2>6. Ordinal(j)' = Ordinal(j)
    BY <1>0, <1>1, <1>4, <2>3, <2>4, WorkerOrdinal DEF TypeInv, TypeOK, ActiveRun
  <2> QED
    BY <1>1, <2>4, <2>5, <2>6
<1> QED
  BY <1>3, <1>4, NoFault

\* A recipient whose server accepted the message is logged as delivered next.
LEMMA AcceptedStep ==
    ASSUME TypeInv, NEW j \in Job, WorkerStep(j), NEW r \in Rcpt, Turn(j, r),
           pc[j] = "accepted"
    PROVE  WriteLog(j, r, "delivered") /\ mailed' = mailed
<1>1. ASSUME NEW q \in Rcpt, ForRecipient(j, q) PROVE LogDelivered(j, q)
  BY <1>1 DEF ForRecipient, SkipSuppressed, SkipDelivered, CountServed, OpenLog,
     Simulate, RefuseSender, Accept, Reject, PublishDelivered, LogFailure,
     RecordFailure, PublishBounced, AutoSuppress
<1>2. jobState[j] = "pending" \/ \E q \in Rcpt : ForRecipient(j, q)
  BY DEF WorkerStep, Pick, FetchRaw, ReadDkim, ReadSuppressions,
     LoadSuppressions, ReadDelivered, Finish, Notify, CompleteJob, FailAttempt,
     Retry
<1>3. PICK q \in Rcpt : LogDelivered(j, q)
  BY <1>1, <1>2 DEF TypeInv, TypeOK, ActiveRun
<1>4. q = r
  BY <1>3, TurnUnique DEF LogDelivered, RecordDelivery
<1> QED
  BY <1>3, <1>4 DEF LogDelivered, RecordDelivery

\* The log row of a running attempt is one of RowIds.
LEMMA LogRowType ==
    ASSUME TypeInv, NEW j \in Job, NEW r \in Rcpt, pc[j] # "idle"
    PROVE  LogRow(j, r) = <<j, Ordinal(j), r>> /\ Ordinal(j) \in Runs
<1>1. attemptsMade[j] \in 0 .. MaxAttempts /\ stalledCount[j] \in 0 .. MaxStalls
  BY DEF TypeInv, TypeOK, QueueType
<1>2. attemptsMade[j] < MaxAttempts
  BY DEF TypeInv, TypeOK, ActiveRun
<1>3. Ordinal(j) \in Runs
  BY <1>1, <1>2, QueueAssumption DEF Ordinal, Runs
<1> QED
  BY <1>3 DEF LogRow, Ordinal

\* Every step of a fault-free behaviour keeps Remembered.
LEMMA RememberedStep ==
    ASSUME OnceInv, [Next]_vars, faults' = 0
    PROVE  Remembered'
<1> USE DEF OnceInv
<1>0. /\ TypeInv /\ TypeInv' /\ Fresh /\ Remembered /\ faults = 0
      /\ row = "deleted" => row' = "deleted"
  BY TypeNext, NoFault, NotInsertedStep
<1> SUFFICES ASSUME NEW r \in Rcpt, mailed'[r] > 0, row' # "deleted"
             PROVE  \/ r \in LoggedDelivered'
                    \/ \E j \in Job : pc'[j] = "accepted" /\ Turn(j, r)'
  BY DEF Remembered
<1>1. CASE OtherStep
  <2>1. UNCHANGED <<pc, left, mailed, log>>
    BY <1>1, OtherFrame, OtherLog DEF runVars
  <2> QED
    BY <1>0, <2>1 DEF Remembered, Turn, LoggedDelivered, Logged
<1>2. ASSUME NEW i \in Job, WorkerStep(i)
      PROVE  \/ r \in LoggedDelivered'
             \/ \E j \in Job : pc'[j] = "accepted" /\ Turn(j, r)'
  <2>1. CASE \E q \in Rcpt : Accept(i, q)
    <3>1. PICK q \in Rcpt : Accept(i, q)
      BY <2>1
    <3>2. /\ pc[i] = "attempt" /\ pc'[i] = "accepted" /\ left' = left /\ log' = log
          /\ Turn(i, q) /\ \A p \in Rcpt : p # q => mailed'[p] = mailed[p]
      BY <1>0, <3>1
         DEF Accept, Fault, Goto, TypeInv, TypeOK, RunType, HistoryType
    <3>3. CASE r = q
      BY <3>2, <3>3 DEF Turn
    <3>4. CASE r # q
      <4>1. \A j \in Job : pc[j] = "accepted" => pc'[j] = "accepted"
        BY <1>0, <1>2, <3>2, WorkerFrame DEF SameRun
      <4> QED
        BY <1>0, <3>2, <3>4, <4>1 DEF Remembered, Turn, LoggedDelivered, Logged
    <3> QED
      BY <3>3, <3>4
  <2>2. CASE mailed' = mailed
    <3>1. CASE r \in LoggedDelivered
      <4>1. PICK j \in Job, k \in Runs : log[<<j, k, r>>] = "delivered"
        BY <3>1 DEF LoggedDelivered, Logged
      <4>2. log'[<<j, k, r>>] = "delivered"
        <5>1. CASE log' = log
          BY <4>1, <5>1
        <5>2. CASE \E q \in Rcpt : Turn(i, q) /\ Logs(i, q)
          <6>1. PICK q \in Rcpt : Turn(i, q) /\ Logs(i, q)
            BY <5>2
          <6>2. CASE <<j, k, r>> # LogRow(i, q)
            BY <1>0, <4>1, <6>1, <6>2
               DEF Logs, WriteLog, TypeInv, TypeOK, MessageType, RowIds
          <6>3. CASE <<j, k, r>> = LogRow(i, q) /\ pc[i] = "accepted"
            BY <1>0, <4>1, <6>1, <6>3
               DEF Logs, WriteLog, TypeInv, TypeOK, MessageType, RowIds
          <6>4. CASE <<j, k, r>> = LogRow(i, q) /\ pc[i] \in {"loop", "caught"}
            <7>1. Unvisited(i, q)
              BY <6>1, <6>4 DEF Unvisited, InLoop, Turn
            <7>2. i = j /\ q = r /\ k = Ordinal(i)
              BY <6>4 DEF LogRow, Ordinal
            <7> QED
              BY <1>0, <4>1, <7>1, <7>2 DEF Fresh
          <6> QED
            BY <6>1, <6>2, <6>3, <6>4 DEF Logs
        <5> QED
          BY <1>0, <1>2, <5>1, <5>2, WorkerLogs
      <4> QED
        BY <4>2 DEF LoggedDelivered, Logged
    <3>2. ASSUME NEW j \in Job, pc[j] = "accepted", Turn(j, r)
          PROVE  \/ r \in LoggedDelivered'
                 \/ pc'[j] = "accepted" /\ Turn(j, r)'
      <4>1. CASE i # j
        BY <1>0, <1>2, <3>2, <4>1, WorkerFrame DEF SameRun, Turn
      <4>2. CASE i = j
        <5>1. WriteLog(j, r, "delivered") /\ row # "deleted"
          BY <1>0, <1>2, <3>2, <4>2, AcceptedStep
        <5>2. LogRow(j, r) = <<j, Ordinal(j), r>> /\ Ordinal(j) \in Runs
          BY <1>0, <3>2, LogRowType
        <5>3. log'[<<j, Ordinal(j), r>>] = "delivered"
          BY <1>0, <5>1, <5>2 DEF WriteLog, TypeInv, TypeOK, MessageType, RowIds
        <5> QED
          BY <5>2, <5>3 DEF LoggedDelivered, Logged
      <4> QED
        BY <4>1, <4>2
    <3> QED
      BY <1>0, <2>2, <3>1, <3>2 DEF Remembered
  <2> QED
    BY <1>2, <2>1, <2>2, WorkerMails
<1> QED
  BY <1>1, <1>2, NoFault

\* Every step of a fault-free behaviour keeps Skips.
LEMMA SkipsStep ==
    ASSUME OnceInv, [Next]_vars, faults' = 0
    PROVE  Skips'
<1> USE DEF OnceInv
<1>0. /\ TypeInv /\ OneDelivery' /\ Remembered /\ Skips /\ faults = 0
      /\ row = "deleted" => row' = "deleted"
  BY NoFault, OneDeliveryStep, NotInsertedStep
<1> SUFFICES ASSUME NEW j \in Job, NEW r \in Rcpt, pc'[j] \in InLoop,
                    r \in left'[j], mailed'[r] > 0, row' # "deleted"
             PROVE  \/ r \in alreadyDelivered'[j]
                    \/ pc'[j] \in {"accepted", "publish"} /\ Turn(j, r)'
  BY DEF Skips
<1>1. CASE OtherStep
  <2>1. UNCHANGED <<pc, left, alreadyDelivered, mailed>>
    BY <1>1, OtherFrame DEF runVars, readVars
  <2> QED
    BY <1>0, <2>1 DEF Skips, Turn
<1>2. ASSUME NEW i \in Job, WorkerStep(i)
      PROVE  \/ r \in alreadyDelivered'[j]
             \/ pc'[j] \in {"accepted", "publish"} /\ Turn(j, r)'
  <2>1. CASE i # j
    <3>1. SameRun(j)
      BY <1>0, <1>2, <2>1, WorkerFrame
    <3>2. mailed' = mailed
      <4>1. ASSUME NEW q \in Rcpt, Accept(i, q) PROVE FALSE
        BY <1>0, <2>1, <3>1, <4>1, OneRun DEF Accept, SameRun, InLoop
      <4> QED
        BY <1>2, <4>1, WorkerMails
    <3> QED
      BY <1>0, <3>1, <3>2 DEF SameRun, Skips, Turn
  <2>2. CASE i = j /\ ReadDelivered(j)
    <3>1. /\ pc[j] = "delivered" /\ mailed' = mailed /\ row' = row
          /\ alreadyDelivered'[j] = LoggedDelivered
      BY <1>0, <2>2 DEF ReadDelivered, NoEffect, TypeInv, TypeOK, RunType
    <3>2. ~\E p \in Job : pc[p] = "accepted"
      BY <1>0, <3>1, OneRun DEF InLoop, BeforeLoop
    <3> QED
      BY <1>0, <3>1, <3>2 DEF Remembered
  <2>3. CASE i = j /\ LoopStep(j)
    <3>1. CASE mailed[r] > 0
      BY <1>0, <2>3, <3>1 DEF Skips, LoopStep, Turn
    <3>2. CASE ~(mailed[r] > 0)
      <4>1. PICK q \in Rcpt : Accept(j, q)
        BY <1>2, <2>3, <3>2, WorkerMails
      <4>2. q = r /\ pc[j] = "attempt" /\ Turn(j, r)
        BY <1>0, <3>2, <4>1 DEF Accept, TypeInv, TypeOK, HistoryType
      <4>3. pc'[j] = "accepted" /\ left' = left
        BY <1>0, <4>1
           DEF Accept, Fault, Goto, TypeInv, TypeOK, RunType, HistoryType
      <4> QED
        BY <4>2, <4>3 DEF Turn
    <3> QED
      BY <3>1, <3>2
  <2> QED
    BY <1>0, <1>2, <2>1, <2>2, <2>3, WorkerLoop
<1> QED
  BY <1>1, <1>2, NoFault

\* Every step of a fault-free behaviour keeps FirstAttempt.
LEMMA FirstAttemptStep ==
    ASSUME OnceInv, [Next]_vars, faults' = 0
    PROVE  FirstAttempt'
<1> USE DEF OnceInv
<1>0. TypeInv /\ Skips /\ FirstAttempt /\ faults = 0
  BY NoFault
<1> SUFFICES ASSUME NEW j \in Job, NEW r \in Rcpt, pc'[j] = "attempt", Turn(j, r)'
             PROVE  mailed'[r] = 0
  BY DEF FirstAttempt
<1>1. CASE OtherStep
  <2>1. UNCHANGED <<pc, left, mailed>>
    BY <1>1, OtherFrame DEF runVars
  <2> QED
    BY <1>0, <2>1 DEF FirstAttempt, Turn
<1>2. ASSUME NEW i \in Job, WorkerStep(i) PROVE mailed'[r] = 0
  <2>1. CASE i # j
    <3>1. SameRun(j)
      BY <1>0, <1>2, <2>1, WorkerFrame
    <3>2. ASSUME NEW q \in Rcpt, Accept(i, q) PROVE FALSE
      BY <1>0, <2>1, <3>1, <3>2, OneRun DEF Accept, SameRun, InLoop
    <3>3. mailed' = mailed
      BY <1>2, <3>2, WorkerMails
    <3> QED
      BY <1>0, <3>1, <3>3 DEF SameRun, FirstAttempt, Turn
  <2>2. CASE i = j
    <3>1. LoopStep(j)
      <4>1. ~ReadDelivered(j)
        BY <1>0 DEF ReadDelivered, Goto, TypeInv, TypeOK, RunType
      <4> QED
        BY <1>0, <1>2, <2>2, <4>1, WorkerLoop DEF InLoop
    <3>2. /\ pc[j] = "loop" /\ row # "deleted" /\ Turn(j, r)
          /\ r \notin alreadyDelivered[j]
      BY <3>1 DEF LoopStep, Turn
    <3>3. mailed' = mailed
      BY <1>2, <2>2, <3>2, WorkerMails DEF Accept
    <3>4. ~(mailed[r] > 0)
      BY <1>0, <3>2 DEF Skips, InLoop, Turn
    <3> QED
      BY <1>0, <3>3, <3>4 DEF TypeInv, TypeOK, HistoryType
  <2> QED
    BY <2>1, <2>2
<1> QED
  BY <1>1, <1>2, NoFault

\* Every step keeps MailedAtMostOnce.
LEMMA MailedStep ==
    ASSUME OnceInv, [Next]_vars
    PROVE  MailedAtMostOnce'
<1> USE DEF OnceInv
<1> SUFFICES ASSUME faults' = 0, NEW r \in Rcpt PROVE mailed'[r] <= 1
  BY DEF MailedAtMostOnce
<1>1. TypeInv /\ FirstAttempt /\ MailedAtMostOnce /\ faults = 0
  BY NoFault
<1>2. CASE mailed' = mailed
  BY <1>1, <1>2 DEF MailedAtMostOnce
<1>3. ASSUME NEW i \in Job, NEW q \in Rcpt, Accept(i, q) PROVE mailed'[r] <= 1
  <2>1. mailed[q] = 0
    BY <1>1, <1>3 DEF Accept, FirstAttempt
  <2> QED
    BY <1>1, <1>3, <2>1
       DEF Accept, MailedAtMostOnce, TypeInv, TypeOK, HistoryType
<1>4. mailed' = mailed \/ \E i \in Job, q \in Rcpt : Accept(i, q)
  BY NoFault, OtherFrame, WorkerMails
<1> QED
  BY <1>2, <1>3, <1>4

\* Every step keeps the invariant.
LEMMA OnceNext == OnceInv /\ [Next]_vars => OnceInv'
<1> SUFFICES ASSUME OnceInv, [Next]_vars PROVE OnceInv'
  OBVIOUS
<1>1. TypeInv'
  BY TypeNext DEF OnceInv
<1>2. NotInserted' /\ OneDelivery' /\ MailedAtMostOnce'
  BY NotInsertedStep, OneDeliveryStep, MailedStep
<1>3. faults' = 0 => Fresh' /\ Remembered' /\ Skips' /\ FirstAttempt'
  BY FreshStep, RememberedStep, SkipsStep, FirstAttemptStep
<1> QED
  BY <1>1, <1>2, <1>3 DEF OnceInv

\* While nothing breaks, one job at a time delivers the message, and none once
\* it is bounced: the resend handler's claim is enough to keep a resend apart
\* from the original job and from every other resend.
THEOREM OneAtATime == Spec => []OneDelivery
<1>1. Spec => []OnceInv
  BY OnceInit, OnceNext, PTL DEF Spec
<1> QED
  BY <1>1, PTL DEF OnceInv

\* While nothing breaks, no recipient is mailed twice, whatever the servers
\* answer, and whichever retries, resends, cancels and deletions happen.
THEOREM MailedOnce == Spec => []MailedAtMostOnce
<1>1. Spec => []OnceInv
  BY OnceInit, OnceNext, PTL DEF Spec
<1> QED
  BY <1>1, PTL DEF OnceInv

-------------------------------------------------------------------------------
(***************************************************************************)
(* From here on whatever may break does. A step is one of the handlers or  *)
(* the environment, or a step of a worker, a fault's included.             *)
(***************************************************************************)

\* What a worker leaves alone of the jobs it is not running.
OtherRun(i) ==
    /\ SameRun(i)
    /\ suppressedNow'[i] = suppressedNow[i] /\ held'[i] = held[i]
    /\ deliveredCount'[i] = deliveredCount[i] /\ attempted'[i] = attempted[i]

\* No step of a worker, be it a fault, changes the payload of a job.
LEMMA WorkerPayload ==
    ASSUME NEW j \in Job, Worker(j)
    PROVE  to' = to
<1> USE DEF NoEffect, WorkerUnchanged, queueVars
<1>1. ASSUME NEW r \in Rcpt, ForRecipient(j, r) PROVE to' = to
  BY <1>1 DEF ForRecipient, SkipSuppressed, SkipDelivered, CountServed, OpenLog,
     Simulate, RefuseSender, Accept, Reject, LogDelivered, RecordDelivery,
     PublishDelivered, LogFailure, RecordFailure, PublishBounced, AutoSuppress
<1> QED
  BY <1>1 DEF Worker, WorkerStep, Pick, FetchRaw, ReadDkim, ReadSuppressions,
     LoadSuppressions, ReadDelivered, Finish, Notify, CompleteJob, FailAttempt,
     Retry, Crash, EndRun, Throw, ThrowInTry

\* It leaves the other runs alone.
LEMMA WorkerApart ==
    ASSUME TypeInv, NEW j \in Job, Worker(j), NEW i \in Job, i # j
    PROVE  OtherRun(i)
<1> USE DEF OtherRun, SameRun, TypeInv, TypeOK, QueueType, RunType, HistoryType,
        rowVars, queueVars, readVars, countVars, runVars, envVars, apiVars,
        Goto, NextRecipient, Catch, NoEffect, WorkerUnchanged
<1>1. CASE Pick(j)
  BY <1>1 DEF Pick
<1>2. CASE CompleteJob(j) \/ FailAttempt(j) \/ Crash(j)
  BY <1>2 DEF CompleteJob, FailAttempt, Retry, Crash, EndRun
<1>3. CASE FetchRaw(j) \/ ReadDkim(j) \/ ReadSuppressions(j) \/ ReadDelivered(j)
  BY <1>3 DEF FetchRaw, ReadDkim, ReadSuppressions, LoadSuppressions, ReadDelivered
<1>4. CASE Finish(j) \/ Notify(j) \/ Throw(j) \/ ThrowInTry(j)
  BY <1>4 DEF Finish, Notify, Throw, ThrowInTry
<1>5. ASSUME NEW r \in Rcpt, ForRecipient(j, r) PROVE OtherRun(i)
  BY <1>5 DEF ForRecipient, SkipSuppressed, SkipDelivered, CountServed, OpenLog,
     Simulate, RefuseSender, Accept, Reject, LogDelivered, RecordDelivery,
     PublishDelivered, CountDelivered, LogFailure, RecordFailure, PublishBounced,
     AutoSuppress
<1> QED
  BY <1>1, <1>2, <1>3, <1>4, <1>5 DEF Worker, WorkerStep

\* A fault writes no log row and mails nobody.
LEMMA FaultFrame ==
    ASSUME NEW j \in Job, Crash(j) \/ Throw(j) \/ ThrowInTry(j)
    PROVE  UNCHANGED <<row, log, mailed, mode>>
BY DEF Crash, Throw, ThrowInTry, EndRun, WorkerUnchanged, rowVars, apiVars

\* Every step is one of these.
LEMMA StepKinds ==
    ASSUME [Next]_vars
    PROVE  OtherStep \/ \E j \in Job : Worker(j)
BY DEF Next, OtherStep

\* Mail leaves by Accept only, and what has been mailed stays mailed.
LEMMA MailStep ==
    ASSUME TypeInv, [Next]_vars
    PROVE  /\ mailed' = mailed \/ \E j \in Job, r \in Rcpt : Accept(j, r)
           /\ \A r \in Rcpt : mailed'[r] >= mailed[r]
           /\ mode' = mode
<1>1. mailed' = mailed \/ \E j \in Job, r \in Rcpt : Accept(j, r)
  BY StepKinds, OtherFrame, FaultFrame, WorkerMails DEF Worker
<1>2. \A r \in Rcpt : mailed'[r] >= mailed[r]
  BY <1>1 DEF Accept, TypeInv, TypeOK, HistoryType
<1>3. mode' = mode
  <2>1. CASE OtherStep
    <3> USE DEF apiVars
    <3>1. CASE Send
      BY <3>1 DEF Send, CheckSender, CheckRecipients, CheckQuota, PutRaw,
         InsertMessage, EnqueueMessage, SendThrows, SendUnchanged, ApiUnchanged
    <3>2. CASE Cancel
      BY <3>2 DEF Cancel, CancelRead, CancelRemove, CancelUpdate, CancelThrows,
         ApiUnchanged
    <3>3. CASE Remove
      BY <3>3 DEF Remove, DeleteRow, DeleteObject, CleanupObject, CleanupRow,
         RemoverUnchanged
    <3>4. CASE Environment
      BY <3>4 DEF Environment, ChangeDomain, Suppress, Unsuppress, EnvUnchanged
    <3>5. CASE Quiet \/ UNCHANGED vars
      BY <3>5 DEF Quiet, vars
    <3>6. ASSUME NEW q \in Resend, ResendRequest(q) PROVE mode' = mode
      BY <3>6 DEF ResendRequest, ResendRead, ResendRecipients, ResendSender,
         ResendClaim, Claim, ResendAdd, ResendThrows, ResendUnchanged, ApiUnchanged
    <3> QED
      BY <2>1, <3>1, <3>2, <3>3, <3>4, <3>5, <3>6 DEF OtherStep
  <2> QED
    BY <2>1, StepKinds, WorkerRow DEF apiVars
<1> QED
  BY <1>1, <1>2, <1>3

-------------------------------------------------------------------------------
(***************************************************************************)
(* "delivered" is shown only for a message some server accepted. What the  *)
(* status is computed from (the delivery counter, the logs an earlier run  *)
(* left, the point between the server's answer and its record) exists only *)
(* once somebody was mailed.                                               *)
(***************************************************************************)
Unmailed == ~TestingMode /\ \A r \in Rcpt : ~(mailed[r] > 0)

NoEvidence ==
    /\ row # "delivered" /\ LoggedDelivered = {}
    /\ \A j \in Job : /\ alreadyDelivered[j] = {} /\ deliveredCount[j] = 0
                      /\ pc[j] \notin {"accepted", "publish"}

EvidenceInv == TypeInv /\ (Unmailed => NoEvidence)

\* A step of the worker's code makes evidence of a delivery out of evidence.
LEMMA EvidenceRun ==
    ASSUME TypeInv, ~TestingMode, NoEvidence, NEW j \in Job, Worker(j),
           mailed' = mailed, mode' = mode
    PROVE  NoEvidence'
<1> USE DEF NoEvidence, TypeInv, TypeOK, RunType
<1>1. row' # "delivered"
  <2>1. CASE Finish(j)
    BY <2>1 DEF Finish, UpdateStatus, Verdict
  <2> QED
    BY <2>1, WorkerRow
<1>2. LoggedDelivered' = {}
  <2>1. log' = log \/ \E r \in Rcpt : Logs(j, r)
    BY WorkerLogs, FaultFrame DEF Worker
  <2>2. ASSUME NEW r \in Rcpt, Logs(j, r), NEW i \in Job, NEW k \in Runs, NEW q \in Rcpt
        PROVE  log'[<<i, k, q>>] # "delivered"
    <3>1. <<i, k, q>> \in RowIds /\ log[<<i, k, q>>] # "delivered"
      BY DEF RowIds, LoggedDelivered, Logged
    <3> QED
      BY <2>2, <3>1 DEF Logs, WriteLog, MessageType, LogStatuses
  <2> QED
    BY <2>1, <2>2 DEF LoggedDelivered, Logged
<1>3. ASSUME NEW i \in Job
      PROVE  /\ alreadyDelivered'[i] = {} /\ deliveredCount'[i] = 0
             /\ pc'[i] \notin {"accepted", "publish"}
  <2>1. CASE i # j
    BY <2>1, WorkerApart DEF OtherRun, SameRun
  <2>2. CASE i = j
    <3> USE <2>2 DEF readVars, countVars, Goto, NextRecipient, Catch
    <3>1. CASE Pick(j) \/ CompleteJob(j) \/ FailAttempt(j) \/ Crash(j)
      BY <3>1 DEF Pick, CompleteJob, FailAttempt, Retry, Crash, EndRun
    <3>2. CASE FetchRaw(j) \/ ReadDkim(j) \/ ReadSuppressions(j) \/ ReadDelivered(j)
      BY <3>2 DEF FetchRaw, ReadDkim, ReadSuppressions, LoadSuppressions, ReadDelivered
    <3>3. CASE Finish(j) \/ Notify(j) \/ Throw(j) \/ ThrowInTry(j)
      BY <3>3 DEF Finish, Notify, Throw, ThrowInTry
    <3>4. ASSUME NEW r \in Rcpt, Accept(j, r) PROVE FALSE
      BY <3>4 DEF Accept, HistoryType
    <3>5. ASSUME NEW r \in Rcpt, ForRecipient(j, r)
          PROVE  /\ alreadyDelivered'[i] = {} /\ deliveredCount'[i] = 0
                 /\ pc'[i] \notin {"accepted", "publish"}
      BY <3>4, <3>5 DEF ForRecipient, SkipSuppressed, SkipDelivered, CountServed,
         OpenLog, Simulate, RefuseSender, Reject, LogDelivered, RecordDelivery,
         PublishDelivered, LogFailure, RecordFailure, PublishBounced, AutoSuppress
    <3> QED
      BY <3>1, <3>2, <3>3, <3>5 DEF Worker, WorkerStep
  <2> QED
    BY <2>1, <2>2
<1> QED
  BY <1>1, <1>2, <1>3

\* No handler makes any.
LEMMA EvidenceOther ==
    ASSUME NoEvidence, OtherStep
    PROVE  NoEvidence'
<1> USE DEF NoEvidence
<1>1. row' # "delivered"
  <2> USE DEF rowVars
  <2>1. CASE Send \/ Cancel
    BY <2>1 DEF Send, CheckSender, CheckRecipients, CheckQuota, PutRaw, InsertMessage,
       EnqueueMessage, SendThrows, Cancel, CancelRead, CancelRemove, CancelUpdate,
       CancelThrows, UpdateStatus
  <2>2. CASE Remove \/ Environment \/ Quiet \/ UNCHANGED vars
    BY <2>2 DEF Remove, DeleteRow, DeleteObject, CleanupObject, CleanupRow, DropRow,
       Environment, ChangeDomain, Suppress, Unsuppress, EnvUnchanged, Quiet, vars
  <2>3. ASSUME NEW q \in Resend, ResendRequest(q) PROVE row' # "delivered"
    BY <2>3 DEF ResendRequest, ResendRead, ResendRecipients, ResendSender,
       ResendClaim, Claim, ResendAdd, ResendThrows
  <2> QED
    BY <2>1, <2>2, <2>3 DEF OtherStep
<1>2. LoggedDelivered' = {}
  <2>1. CASE log' = log
    BY <2>1 DEF LoggedDelivered, Logged
  <2>2. CASE log' = [id \in RowIds |-> "none"]
    BY <2>2 DEF LoggedDelivered, Logged, RowIds
  <2> QED
    BY <2>1, <2>2, OtherLog
<1> QED
  BY <1>1, <1>2, OtherFrame DEF runVars, readVars, countVars

\* Nothing is mailed, and nothing says so, at the start.
LEMMA EvidenceInit == Init => EvidenceInv
<1> SUFFICES ASSUME Init PROVE EvidenceInv
  OBVIOUS
<1>1. LoggedDelivered = {}
  BY DEF Init, LoggedDelivered, Logged, RowIds
<1> QED
  BY <1>1, TypeInit DEF Init, EvidenceInv, NoEvidence

\* Every step keeps EvidenceInv.
LEMMA EvidenceNext == EvidenceInv /\ [Next]_vars => EvidenceInv'
<1> SUFFICES ASSUME EvidenceInv, [Next]_vars PROVE EvidenceInv'
  OBVIOUS
<1>1. TypeInv /\ TypeInv'
  BY TypeNext DEF EvidenceInv
<1> SUFFICES ASSUME Unmailed' PROVE NoEvidence'
  BY <1>1 DEF EvidenceInv
<1>2. mode' = mode /\ ~TestingMode
  BY <1>1, MailStep DEF Unmailed, TestingMode
<1>3. \A r \in Rcpt : ~(mailed'[r] > 0) /\ ~(mailed[r] > 0)
  BY <1>1, MailStep DEF Unmailed, TypeInv, TypeOK, HistoryType
<1>4. NoEvidence
  BY <1>2, <1>3 DEF EvidenceInv, Unmailed
<1>5. mailed' = mailed
  <2>1. ASSUME NEW j \in Job, NEW r \in Rcpt, Accept(j, r) PROVE FALSE
    BY <1>1, <1>3, <2>1 DEF Accept, TypeInv, TypeOK, HistoryType
  <2> QED
    BY <1>1, <2>1, MailStep
<1> QED
  BY <1>1, <1>2, <1>4, <1>5, StepKinds, EvidenceRun, EvidenceOther

\* Whatever breaks, whatever the catch block takes a database or Redis error
\* for, and whatever logs a retry finds: outside testing mode a message is shown
\* as delivered only if a mail server accepted it for one of its recipients.
THEOREM DeliveredWasMailed == Spec => []DeliveredMeansMailed
<1>1. Spec => []EvidenceInv
  BY EvidenceInit, EvidenceNext, PTL DEF Spec
<1>2. EvidenceInv => DeliveredMeansMailed
  BY DEF EvidenceInv, NoEvidence, Unmailed, DeliveredMeansMailed
<1> QED
  BY <1>1, <1>2, PTL

-------------------------------------------------------------------------------
(***************************************************************************)
(* A run does not mail an address that was on the suppression list all     *)
(* along. Until the run has read the list, such addresses are on it; from  *)
(* then on they are in the run's copy, and an attempt is only made for a   *)
(* recipient of the payload that is not in that copy.                      *)
(***************************************************************************)
BeforeRead == {"fetch", "dkim", "suppressions"}

HeldBack(j) ==
    /\ pc[j] \in BeforeRead => held[j] \subseteq suppressed
    /\ pc[j] \in {"delivered"} \cup InLoop => held[j] \cap to[j] \subseteq suppressedNow[j]
    /\ pc[j] \in InLoop => left[j] \subseteq to[j]
    /\ pc[j] = "attempt" => \A r \in Rcpt : Turn(j, r) => r \notin suppressedNow[j]

HeldInv == TypeInv /\ \A j \in Job : HeldBack(j)

\* A step of a run's code keeps this for its own job.
LEMMA HeldRun ==
    ASSUME TypeInv, NEW j \in Job, Worker(j), HeldBack(j)
    PROVE  HeldBack(j)'
<1> USE DEF HeldBack, BeforeRead, InLoop, TypeInv, TypeOK, QueueType, RunType,
        HistoryType, queueVars, readVars, countVars, envVars, rowVars,
        Goto, NextRecipient, Catch, NoEffect, WorkerUnchanged
<1>1. CASE Pick(j)
  BY <1>1 DEF Pick
<1>2. CASE CompleteJob(j) \/ FailAttempt(j) \/ Crash(j)
  BY <1>2 DEF CompleteJob, FailAttempt, Retry, Crash, EndRun
<1>3. CASE FetchRaw(j) \/ ReadDkim(j)
  BY <1>3 DEF FetchRaw, ReadDkim
<1>4. CASE ReadSuppressions(j)
  BY <1>4 DEF ReadSuppressions, LoadSuppressions
<1>5. CASE ReadDelivered(j)
  BY <1>5 DEF ReadDelivered
<1>6. CASE Finish(j) \/ Notify(j) \/ Throw(j) \/ ThrowInTry(j)
  BY <1>6 DEF Finish, Notify, Throw, ThrowInTry
<1>7. ASSUME NEW r \in Rcpt, OpenLog(j, r) PROVE HeldBack(j)'
  <2>1. \A q \in Rcpt : Turn(j, q) => q = r
    BY <1>7, TurnUnique DEF OpenLog
  <2>2. left' = left /\ Turn(j, r) /\ r \notin suppressedNow[j]
    BY <1>7 DEF OpenLog
  <2>3. \A q \in Rcpt : Turn(j, q)' => q \notin suppressedNow'[j]
    BY <1>7, <2>1, <2>2 DEF OpenLog, Turn
  <2> QED
    BY <1>7, <2>3 DEF OpenLog
<1>8. ASSUME NEW r \in Rcpt, SkipSuppressed(j, r) \/ SkipDelivered(j, r)
      PROVE  HeldBack(j)'
  BY <1>8 DEF SkipSuppressed, SkipDelivered, CountServed
<1>9. ASSUME NEW r \in Rcpt,
             \/ Simulate(j, r) \/ RefuseSender(j, r) \/ Accept(j, r) \/ Reject(j, r)
             \/ LogDelivered(j, r) \/ PublishDelivered(j, r)
      PROVE  HeldBack(j)'
  BY <1>9 DEF Simulate, RefuseSender, Accept, Reject, LogDelivered, RecordDelivery,
     PublishDelivered
<1>10. ASSUME NEW r \in Rcpt, LogFailure(j, r) \/ PublishBounced(j, r) \/ AutoSuppress(j, r)
       PROVE  HeldBack(j)'
  BY <1>10 DEF LogFailure, RecordFailure, PublishBounced, AutoSuppress
<1> QED
  BY <1>1, <1>2, <1>3, <1>4, <1>5, <1>6, <1>7, <1>8, <1>9, <1>10
     DEF Worker, WorkerStep, ForRecipient

\* Workers add to the suppression list and never take from it.
LEMMA WorkerSuppresses ==
    ASSUME NEW j \in Job, Worker(j)
    PROVE  suppressed \subseteq suppressed'
<1> USE DEF NoEffect, envVars
<1>1. ASSUME NEW r \in Rcpt, ForRecipient(j, r) PROVE suppressed \subseteq suppressed'
  BY <1>1 DEF ForRecipient, SkipSuppressed, SkipDelivered, CountServed, OpenLog,
     Simulate, RefuseSender, Accept, Reject, LogDelivered, RecordDelivery,
     PublishDelivered, LogFailure, RecordFailure, PublishBounced, AutoSuppress
<1> QED
  BY <1>1 DEF Worker, WorkerStep, Pick, FetchRaw, ReadDkim, ReadSuppressions,
     LoadSuppressions, ReadDelivered, Finish, Notify, CompleteJob, FailAttempt,
     Retry, Crash, EndRun, Throw, ThrowInTry

\* The payload of a job that runs is not touched by the handlers.
LEMMA OtherPayload ==
    ASSUME TypeInv, OtherStep, NEW j \in Job, jobState[j] # "absent"
    PROVE  to'[j] = to[j]
<1> USE JobAssumption DEF TypeInv, TypeOK, QueueType, NotAdded, queueVars, Job
<1>1. CASE Send
  BY <1>1 DEF Send, CheckSender, CheckRecipients, CheckQuota, PutRaw, InsertMessage,
     EnqueueMessage, SendThrows, SetPayload, AddJob
<1>2. CASE Cancel
  BY <1>2 DEF Cancel, CancelRead, CancelRemove, CancelUpdate, CancelThrows
<1>3. CASE Remove \/ Environment \/ Quiet \/ UNCHANGED vars
  BY <1>3 DEF Remove, DeleteRow, DeleteObject, CleanupObject, CleanupRow,
     RemoverUnchanged, Environment, ChangeDomain, Suppress, Unsuppress, EnvUnchanged,
     Quiet, vars
<1>4. ASSUME NEW q \in Resend, ResendRequest(q) PROVE to'[j] = to[j]
  BY <1>4 DEF ResendRequest, ResendRead, ResendRecipients, ResendSender, ResendClaim,
     Claim, ResendAdd, ResendThrows, SetPayload, AddJob
<1> QED
  BY <1>1, <1>2, <1>3, <1>4 DEF OtherStep

\* An address taken off the suppression list is not held any more.
LEMMA OtherHeld ==
    ASSUME TypeInv, OtherStep, NEW j \in Job
    PROVE  /\ held'[j] \subseteq held[j]
           /\ held[j] \subseteq suppressed => held'[j] \subseteq suppressed'
<1> USE DEF TypeInv, TypeOK, HistoryType, AccountType, envVars
<1>1. CASE Send
  BY <1>1 DEF Send, CheckSender, CheckRecipients, CheckQuota, PutRaw, InsertMessage,
     EnqueueMessage, SendThrows, SendUnchanged, ApiUnchanged
<1>2. CASE Cancel
  BY <1>2 DEF Cancel, CancelRead, CancelRemove, CancelUpdate, CancelThrows,
     ApiUnchanged
<1>3. CASE Remove
  BY <1>3 DEF Remove, DeleteRow, DeleteObject, CleanupObject, CleanupRow,
     RemoverUnchanged
<1>4. CASE Environment
  BY <1>4 DEF Environment, ChangeDomain, Suppress, Unsuppress, EnvUnchanged
<1>5. CASE Quiet \/ UNCHANGED vars
  BY <1>5 DEF Quiet, vars
<1>6. ASSUME NEW q \in Resend, ResendRequest(q)
      PROVE  held' = held /\ suppressed' = suppressed
  BY <1>6 DEF ResendRequest, ResendRead, ResendRecipients, ResendSender, ResendClaim,
     Claim, ResendAdd, ResendThrows, ResendUnchanged, ApiUnchanged
<1> QED
  BY <1>1, <1>2, <1>3, <1>4, <1>5, <1>6 DEF OtherStep

\* No run is active at the start.
LEMMA HeldInit == Init => HeldInv
BY TypeInit DEF Init, HeldInv, HeldBack, BeforeRead, InLoop

\* Every step keeps HeldInv.
LEMMA HeldNext == HeldInv /\ [Next]_vars => HeldInv'
<1> SUFFICES ASSUME HeldInv, [Next]_vars, NEW i \in Job PROVE HeldBack(i)'
  BY TypeNext DEF HeldInv
<1>1. TypeInv /\ HeldBack(i)
  BY DEF HeldInv
<1>2. CASE OtherStep
  <2>1. UNCHANGED <<pc, left, suppressedNow>>
    BY <1>2, OtherFrame DEF runVars, readVars
  <2>2. CASE pc[i] = "idle"
    BY <2>1, <2>2 DEF HeldBack, BeforeRead, InLoop
  <2>3. CASE pc[i] # "idle"
    <3>1. to'[i] = to[i]
      BY <1>1, <1>2, <2>3, OtherPayload DEF TypeInv, TypeOK, ActiveRun
    <3> QED
      BY <1>1, <1>2, <2>1, <3>1, OtherHeld DEF HeldBack, Turn
  <2> QED
    BY <2>2, <2>3
<1>3. ASSUME NEW j \in Job, Worker(j) PROVE HeldBack(i)'
  <2>1. CASE i = j
    BY <1>1, <1>3, <2>1, HeldRun
  <2>2. CASE i # j
    <3>1. OtherRun(i) /\ to' = to /\ suppressed \subseteq suppressed'
      BY <1>1, <1>3, <2>2, WorkerApart, WorkerPayload, WorkerSuppresses
    <3> QED
      BY <1>1, <3>1 DEF HeldBack, Turn, OtherRun, SameRun
  <2> QED
    BY <2>1, <2>2
<1> QED
  BY <1>2, <1>3, StepKinds

\* An address that was on the suppression list ever since a worker picked the
\* job up is not mailed by that run, whatever else changes the list, however the
\* run before it ended, and although the run works from a copy it read once.
THEOREM SuppressedNotMailed == Spec => HeldNeverMailed
<1>1. Spec => []HeldInv
  BY HeldInit, HeldNext, PTL DEF Spec
<1>2. HeldInv /\ [Next]_vars =>
         [\A r \in Rcpt : mailed'[r] # mailed[r] =>
             \E j \in Job : Turn(j, r) /\ pc'[j] # pc[j] /\ r \notin held[j]]_vars
  <2> SUFFICES ASSUME HeldInv, [Next]_vars, NEW r \in Rcpt, mailed'[r] # mailed[r]
               PROVE  \E j \in Job : Turn(j, r) /\ pc'[j] # pc[j] /\ r \notin held[j]
    OBVIOUS
  <2>1. PICK j \in Job, q \in Rcpt : Accept(j, q)
    BY MailStep DEF HeldInv
  <2>2. q = r /\ Turn(j, r) /\ pc[j] = "attempt"
    BY <2>1 DEF Accept, HeldInv, TypeInv, TypeOK, HistoryType
  <2>3. pc'[j] # pc[j]
    BY <2>1, <2>2 DEF Accept, Goto, Catch, HeldInv, TypeInv, TypeOK, RunType
  <2>4. r \notin held[j]
    BY <2>2 DEF HeldInv, HeldBack, InLoop, Turn
  <2> QED
    BY <2>2, <2>3, <2>4
<1> QED
  BY <1>1, <1>2, PTL DEF Spec, HeldNeverMailed

-------------------------------------------------------------------------------
(***************************************************************************)
(* The refinement: while nothing breaks, the handlers, the queue and the   *)
(* worker implement MessageLifecycle. The abstract "delivering" is that    *)
(* some job delivers, so the invariants above say what an abstract step    *)
(* needs: a claim finds no job delivering, a verdict ends the only one that*)
(* was (OneDelivery), a copy is the first (FirstAttempt), and "delivered"  *)
(* has a copy to show for it (EvidenceInv).                                *)
(***************************************************************************)
AnyDelivering == \E j \in Job : Delivering(j)

LifeStep == [Lifecycle!LifeNext]_(Lifecycle!lifeVars)

\* A step that changes neither the status, the copies nor whether a cancel is
\* on its way to the status is none of the life cycle, or the end of a delivery.
LEMMA HiddenStep ==
    ASSUME UNCHANGED <<row, mailed, mode>>, cancel' = "update" <=> cancel = "update",
           AnyDelivering' => AnyDelivering
    PROVE  LifeStep
<1>1. CASE AnyDelivering' <=> AnyDelivering
  BY <1>1 DEF LifeStep, Lifecycle!lifeVars, AnyDelivering, TestingMode
<1>2. CASE AnyDelivering /\ ~AnyDelivering'
  <2>1. Lifecycle!Stopped
    BY <1>2 DEF Lifecycle!Stopped, AnyDelivering, TestingMode
  <2> QED
    BY <2>1 DEF LifeStep, Lifecycle!LifeNext
<1> QED
  BY <1>1, <1>2

\* The worker's part.
LEMMA WorkerLife ==
    ASSUME OnceInv, EvidenceInv, [Next]_vars, faults' = 0, NEW j \in Job, WorkerStep(j)
    PROVE  LifeStep
<1>1. TypeInv /\ faults = 0 /\ UNCHANGED apiVars
  BY NoFault, WorkerRow DEF OnceInv, Worker
<1>2. AnyDelivering' => AnyDelivering
  <2>1. ASSUME NEW i \in Job, Delivering(i)', ~Delivering(i) PROVE FALSE
    <3>1. i \in Resend /\ ResendClaim(i)
      BY <1>1, <2>1, NoFault, DeliveringStep
    <3> QED
      BY <1>1, <3>1
         DEF ResendClaim, Claim, ResendGoto, apiVars, TypeInv, TypeOK, HandlerType
  <2> QED
    BY <2>1 DEF AnyDelivering
<1>3. CASE Finish(j)
  <2>1. Delivering(j) /\ ~Delivering(j)' /\ pc[j] = "loop"
    BY <1>1, <1>3, JobAssumption
       DEF Finish, Goto, WorkerUnchanged, Delivering, apiVars, queueVars, Job,
           TypeInv, TypeOK, RunType, ActiveRun, NotAdded
  <2>2. AnyDelivering /\ ~AnyDelivering'
    <3>1. ASSUME NEW i \in Job, Delivering(i)' PROVE FALSE
      <4>1. i # j
        BY <2>1, <3>1
      <4>2. Delivering(i)
        BY <1>1, <1>3, <3>1, <4>1, WorkerFrame DEF SameRun, Delivering, apiVars
      <4> QED
        BY <1>1, <2>1, <4>1, <4>2 DEF OnceInv, OneDelivery
    <3> QED
      BY <2>1, <3>1 DEF AnyDelivering
  <2>3. UNCHANGED <<mailed, cancel, mode>>
    BY <1>1, <1>3 DEF Finish, apiVars
  <2>4. CASE row \in {"none", "deleted"}
    <3>1. row' = row
      BY <1>3, <2>4 DEF Finish, UpdateStatus
    <3> QED
      BY <1>2, <2>3, <3>1, HiddenStep
  <2>5. CASE row \notin {"none", "deleted"}
    <3>1. row' = Verdict(j)
      BY <1>3, <2>5 DEF Finish, UpdateStatus
    <3>2. row' \in {"delivered", "bounced", "suppressed"}
      BY <3>1 DEF Verdict
    <3>3. row' = "delivered" => TestingMode \/ \E r \in Rcpt : mailed[r] > 0
      <4>1. row' = "delivered" => deliveredCount[j] # 0
        BY <1>1, <3>1 DEF Verdict, TypeInv, TypeOK, RunType
      <4> QED
        BY <4>1 DEF EvidenceInv, Unmailed, NoEvidence
    <3>4. Lifecycle!Judged
      BY <2>2, <2>3, <2>5, <3>2, <3>3
         DEF Lifecycle!Judged, Lifecycle!Shown, AnyDelivering, TestingMode
    <3> QED
      BY <3>4 DEF LifeStep, Lifecycle!LifeNext
  <2> QED
    BY <2>4, <2>5
<1>4. ASSUME NEW r \in Rcpt, Accept(j, r) PROVE LifeStep
  <2>1. ~TestingMode /\ mailed[r] = 0 /\ Delivering(j)
    BY <1>1, <1>4 DEF Accept, MaySend, OnceInv, FirstAttempt, Delivering
  <2>2. mailed' = [mailed EXCEPT ![r] = 1]
    BY <1>4, <2>1 DEF Accept
  <2>3. Delivering(j)'
    <3>1. pc'[j] = "accepted" \/ pc'[j] = "caught"
      BY <1>1, <1>4 DEF Accept, Goto, Catch, TypeInv, TypeOK, RunType
    <3> QED
      BY <3>1 DEF Delivering
  <2>4. UNCHANGED <<row, cancel, mode>>
    BY <1>1, <1>4 DEF Accept, apiVars
  <2>5. Lifecycle!Mailed(r)
    BY <2>1, <2>2, <2>3, <2>4 DEF Lifecycle!Mailed, TestingMode
  <2> QED
    BY <2>5 DEF LifeStep, Lifecycle!LifeNext
<1>5. CASE ~Finish(j) /\ ~\E r \in Rcpt : Accept(j, r)
  <2>1. UNCHANGED <<row, mailed, mode, cancel>>
    BY <1>1, <1>5, WorkerRow, WorkerMails DEF Worker, apiVars
  <2> QED
    BY <1>2, <2>1, HiddenStep
<1> QED
  BY <1>3, <1>4, <1>5

\* A resend's part: its claim is the abstract Resent.
LEMMA ResendLife ==
    ASSUME OnceInv, [Next]_vars, faults' = 0, NEW q \in Resend, ResendRequest(q)
    PROVE  LifeStep
<1>1. TypeInv /\ faults = 0 /\ UNCHANGED <<mailed, mode, cancel>>
  BY NoFault DEF OnceInv, ResendRequest, ResendRead, ResendRecipients, ResendSender,
     ResendClaim, Claim, ResendAdd, ResendThrows, ResendUnchanged, ApiUnchanged
<1>2. CASE ResendClaim(q) /\ row \in Resendable
  <2>1. row = "bounced" /\ ~AnyDelivering
    BY <1>1, <1>2 DEF Resendable, TypeInv, TypeOK, MessageType, Statuses, OnceInv,
       OneDelivery, AnyDelivering
  <2>2. row' = "queued" /\ resend'[q] = "add"
    BY <1>1, <1>2 DEF ResendClaim, Claim, ResendGoto, TypeInv, TypeOK, HandlerType
  <2>3. AnyDelivering'
    BY <2>2 DEF AnyDelivering, Delivering, Job
  <2>4. Lifecycle!Resent
    BY <1>1, <2>1, <2>2, <2>3 DEF Lifecycle!Resent, AnyDelivering, TestingMode
  <2> QED
    BY <2>4 DEF LifeStep, Lifecycle!LifeNext
<1>3. CASE ~(ResendClaim(q) /\ row \in Resendable)
  <2>1. row' = row
    BY <1>3 DEF ResendRequest, ResendRead, ResendRecipients, ResendSender, ResendClaim,
       Claim, ResendAdd, ResendThrows, rowVars
  <2>2. ASSUME NEW p \in Resend, ResendClaim(p), row \in Resendable PROVE FALSE
    <3>1. row' # row
      BY <2>2 DEF ResendClaim, Claim, Resendable
    <3> QED
      BY <2>1, <3>1
  <2>3. AnyDelivering' => AnyDelivering
    BY <1>1, <2>2, NoFault, DeliveringStep DEF AnyDelivering
  <2> QED
    BY <1>1, <2>1, <2>3, HiddenStep
<1> QED
  BY <1>2, <1>3

\* The part of the send and the cancel, of deletion and the environment.
LEMMA HandlerLife ==
    ASSUME OnceInv, [Next]_vars, faults' = 0,
           Send \/ Cancel \/ Remove \/ Environment \/ Quiet \/ UNCHANGED vars
    PROVE  LifeStep
<1>0. ASSUME NEW kind, Fault(kind) PROVE FALSE
  BY <1>0, FaultAssumption DEF Fault, OnceInv, TypeInv, TypeOK, HistoryType
<1>1. TypeInv /\ faults = 0 /\ UNCHANGED <<mailed, mode, pc>>
  BY NoFault, OtherFrame, MailStep DEF OnceInv, OtherStep, runVars
<1>2. AnyDelivering' => AnyDelivering
  <2>1. ASSUME NEW p \in Resend, ResendClaim(p), row \in Resendable PROVE FALSE
    <3>1. resend'[p] = "add" /\ resend[p] = "claim" /\ row' = "queued" /\ row # "queued"
      BY <1>1, <2>1
         DEF ResendClaim, Claim, ResendGoto, Resendable, TypeInv, TypeOK, HandlerType
    <3>2. resend' = resend
      BY <3>1 DEF Send, CheckSender, CheckRecipients, CheckQuota, PutRaw, InsertMessage,
         EnqueueMessage, SendThrows, SendUnchanged, Cancel, CancelRead, CancelRemove,
         CancelUpdate, CancelThrows, Remove, DeleteRow, DeleteObject, CleanupObject,
         CleanupRow, RemoverUnchanged, Environment, ChangeDomain, Suppress, Unsuppress,
         EnvUnchanged, Quiet, vars, apiVars
    <3> QED
      BY <3>1, <3>2
  <2> QED
    BY <1>1, <2>1, NoFault, DeliveringStep DEF AnyDelivering
<1>3. CASE Send
  <2>1. cancel' = cancel
    BY <1>3 DEF Send, CheckSender, CheckRecipients, CheckQuota, PutRaw, InsertMessage,
       EnqueueMessage, SendThrows, SendUnchanged
  <2>2. CASE InsertMessage
    <3>1. row = "none" /\ row' \in {"queued", "scheduled"}
      BY <2>2 DEF InsertMessage, OnceInv, NotInserted
    <3>2. AnyDelivering /\ AnyDelivering'
      BY <2>2 DEF InsertMessage, AnyDelivering, Delivering, Job
    <3>3. Lifecycle!Accepted
      BY <1>1, <2>1, <3>1, <3>2 DEF Lifecycle!Accepted, AnyDelivering, TestingMode
    <3> QED
      BY <3>3 DEF LifeStep, Lifecycle!LifeNext
  <2>3. CASE ~InsertMessage
    <3>1. row' = row
      BY <1>3, <2>3 DEF Send, CheckSender, CheckRecipients, CheckQuota, PutRaw,
         EnqueueMessage, SendThrows, rowVars
    <3> QED
      BY <1>1, <1>2, <2>1, <3>1, HiddenStep
  <2> QED
    BY <2>2, <2>3
<1>4. CASE Cancel
  <2>1. CASE CancelRead
    BY <1>1, <1>2, <2>1, HiddenStep DEF CancelRead, rowVars
  <2>2. CASE CancelRemove /\ cancel' # "update"
    BY <1>1, <1>2, <2>2, HiddenStep DEF CancelRemove, rowVars
  <2>3. CASE CancelRemove /\ cancel' = "update"
    <3>1. cancel = "remove" /\ row' = row
      BY <2>3 DEF CancelRemove, rowVars
    <3>2. AnyDelivering' = AnyDelivering \/ AnyDelivering' = FALSE
      BY <1>2 DEF AnyDelivering
    <3>3. Lifecycle!CancelStarted
      BY <1>1, <2>3, <3>1, <3>2 DEF Lifecycle!CancelStarted, AnyDelivering, TestingMode
    <3> QED
      BY <3>3 DEF LifeStep, Lifecycle!LifeNext
  <2>4. CASE CancelUpdate
    <3>1. cancel = "update" /\ cancel' = "idle" /\ UNCHANGED <<jobState, api, resend>>
      BY <2>4 DEF CancelUpdate, queueVars
    <3>2. AnyDelivering' <=> AnyDelivering
      BY <1>1, <3>1 DEF AnyDelivering, Delivering
    <3>3. row' = IF row \in {"none", "deleted"} THEN row ELSE "cancelled"
      BY <2>4 DEF CancelUpdate, UpdateStatus
    <3>4. Lifecycle!Cancelled
      BY <1>1, <3>1, <3>2, <3>3
         DEF Lifecycle!Cancelled, Lifecycle!Shown, AnyDelivering, TestingMode
    <3> QED
      BY <3>4 DEF LifeStep, Lifecycle!LifeNext
  <2>5. CASE CancelThrows
    BY <1>0, <2>5 DEF CancelThrows
  <2> QED
    BY <1>4, <2>1, <2>2, <2>3, <2>4, <2>5 DEF Cancel
<1>5. CASE Remove
  <2>1. UNCHANGED <<jobState, api, resend, cancel>>
    BY <1>5 DEF Remove, DeleteRow, DeleteObject, CleanupObject, CleanupRow,
       RemoverUnchanged, queueVars
  <2>2. AnyDelivering' <=> AnyDelivering
    BY <1>1, <2>1 DEF AnyDelivering, Delivering
  <2>3. CASE row' = row
    BY <1>1, <2>1, <2>2, <2>3, HiddenStep
  <2>4. CASE row' # row
    <3>1. row' = "deleted" /\ row # "none"
      BY <1>5, <2>4 DEF Remove, DeleteRow, DeleteObject, CleanupObject, CleanupRow,
         DropRow, Present, OnceInv, NotInserted
    <3>2. Lifecycle!Deleted
      BY <1>1, <2>1, <2>2, <2>4, <3>1
         DEF Lifecycle!Deleted, Lifecycle!Shown, AnyDelivering, TestingMode
    <3> QED
      BY <3>2 DEF LifeStep, Lifecycle!LifeNext
  <2> QED
    BY <2>3, <2>4
<1>6. CASE Environment \/ Quiet \/ UNCHANGED vars
  <2>1. row' = row /\ cancel' = cancel
    BY <1>6 DEF Environment, ChangeDomain, Suppress, Unsuppress, EnvUnchanged, Quiet,
       vars, rowVars, apiVars
  <2> QED
    BY <1>1, <1>2, <2>1, HiddenStep
<1> QED
  BY <1>3, <1>4, <1>5, <1>6

\* The initial states are initial states of the life cycle.
LEMMA LifeInit == Init => Lifecycle!LifeInit
<1> SUFFICES ASSUME Init PROVE Lifecycle!LifeInit
  OBVIOUS
<1>1. Delivering(Orig)
  BY DEF Init, Delivering
<1> QED
  BY <1>1 DEF Init, Lifecycle!LifeInit, TestingMode, Job

\* In every behaviour in which nothing breaks, the handlers, the queue and the
\* worker together keep the promise MessageLifecycle makes: one delivery at a
\* time, one copy each, a final verdict that only a cancel under way or a deletion
\* replaces, "delivered" only with a copy to show for it, and a resend of bounced
\* mail only.
THEOREM ImplementsLifecycle == Spec /\ [](faults = 0) => KeepsLifecycle
<1>1. Spec => [](OnceInv /\ EvidenceInv)
  BY OnceInit, OnceNext, EvidenceInit, EvidenceNext, PTL DEF Spec
<1>2. OnceInv /\ EvidenceInv /\ (faults = 0)' /\ [Next]_vars => LifeStep
  <2> SUFFICES ASSUME OnceInv, EvidenceInv, faults' = 0, [Next]_vars PROVE LifeStep
    OBVIOUS
  <2> QED
    BY NoFault, WorkerLife, ResendLife, HandlerLife DEF OnceInv, OtherStep
<1> QED
  BY <1>1, <1>2, LifeInit, PTL DEF Spec, KeepsLifecycle, Lifecycle!LifeSpec, LifeStep

-------------------------------------------------------------------------------
(***************************************************************************)
(* What becomes of a row of the delivery logs, with faults. The row of a   *)
(* run that has not reached its loop does not exist (Unwritten), and a row *)
(* is final once its run is over or has done with the recipient (Final):   *)
(* no step writes it any more, except that it goes away with the message.  *)
(***************************************************************************)
Blank(j, k) ==
    \/ k > Ordinal(j)
    \/ k = Ordinal(j) /\ (jobState[j] \in {"absent", "pending"} \/ pc[j] \in BeforeLoop)
    \/ j \in Resend /\ resend[j] # "done"

Unwritten ==
    \A j \in Job, k \in Runs, r \in Rcpt : Blank(j, k) => log[<<j, k, r>>] = "none"

Final(i, k, r) == ~(k = Ordinal(i) /\ pc[i] \in InLoop /\ r \in left[i])

\* A step of a worker writes no row but the one of its own run for the recipient
\* the loop is at.
LEMMA WorkerWrites ==
    ASSUME TypeInv, NEW j \in Job, Worker(j),
           NEW i \in Job, NEW k \in Runs, NEW r \in Rcpt,
           log'[<<i, k, r>>] # log[<<i, k, r>>]
    PROVE  /\ i = j /\ k = Ordinal(j) /\ Turn(j, r) /\ WorkerStep(j)
           /\ pc[j] \in {"loop", "accepted", "caught"}
<1>1. WorkerStep(j)
  BY FaultFrame DEF Worker
<1>2. PICK q \in Rcpt : Turn(j, q) /\ Logs(j, q)
  BY <1>1, WorkerLogs
<1>3. PICK s \in LogStatuses : WriteLog(j, q, s)
  BY <1>2 DEF Logs, LogStatuses
<1>4. <<i, k, r>> = LogRow(j, q)
  BY <1>3 DEF WriteLog, RowIds, TypeInv, TypeOK, MessageType
<1> QED
  BY <1>1, <1>2, <1>4 DEF LogRow, Ordinal, Logs

\* The ordinal of a run never goes back, and a job waits only for a next run.
LEMMA OrdinalStep ==
    ASSUME TypeInv, NEW j \in Job, Worker(j)
    PROVE  /\ Ordinal(j) \in Nat
           /\ \/ Ordinal(j)' = Ordinal(j) /\ jobState'[j] \notin {"absent", "pending"}
              \/ Ordinal(j)' = Ordinal(j) + 1 /\ pc'[j] = "idle"
<1> USE DEF TypeInv, TypeOK, QueueType, RunType, ActiveRun, Ordinal
<1>1. Ordinal(j) \in Nat
  BY QueueAssumption
<1>2. CASE Crash(j)
  BY <1>2 DEF Crash, EndRun
<1>3. CASE Throw(j) \/ ThrowInTry(j)
  <2>1. UNCHANGED queueVars
    BY <1>3 DEF Throw, ThrowInTry, WorkerUnchanged
  <2>2. pc[j] # "idle"
    BY <1>3 DEF Throw, ThrowInTry, CallsAt
  <2> QED
    BY <1>1, <2>1, <2>2 DEF queueVars
<1>4. CASE WorkerStep(j)
  <2>1. CASE FailAttempt(j)
    BY <2>1 DEF FailAttempt, Retry, EndRun
  <2>2. CASE Ordinal(j)' = Ordinal(j)
    BY <1>1, <1>4, <2>2, WorkerOrdinal
  <2>3. CASE ~FailAttempt(j)
    <3>1. UNCHANGED <<attemptsMade, stalledCount>>
      <4> USE DEF NoEffect, WorkerUnchanged, queueVars
      <4>1. ASSUME NEW r \in Rcpt, ForRecipient(j, r)
            PROVE  UNCHANGED <<attemptsMade, stalledCount>>
        BY <4>1 DEF ForRecipient, SkipSuppressed, SkipDelivered, CountServed,
           OpenLog, Simulate, RefuseSender, Accept, Reject, LogDelivered,
           RecordDelivery, PublishDelivered, LogFailure, RecordFailure,
           PublishBounced, AutoSuppress
      <4> QED
        BY <1>4, <2>3, <4>1 DEF WorkerStep, Pick, FetchRaw, ReadDkim,
           ReadSuppressions, LoadSuppressions, ReadDelivered, Finish, Notify,
           CompleteJob
    <3> QED
      BY <2>2, <3>1
  <2> QED
    BY <2>1, <2>3
<1> QED
  BY <1>1, <1>2, <1>3, <1>4 DEF Worker

\* A resend request never goes back, and it starts by reading the status.
LEMMA ResendStays ==
    ASSUME TypeInv, [Next]_vars, NEW q \in Resend
    PROVE  /\ resend[q] = "done" => resend'[q] = "done"
           /\ resend[q] # "idle" => resend'[q] # "idle"
           /\ resend[q] = "idle" /\ resend'[q] # "idle" => ResendRead(q)
<1> USE DEF TypeInv, TypeOK, HandlerType
<1>1. CASE resend' = resend
  BY <1>1
<1>2. ASSUME NEW p \in Resend, ResendRequest(p)
      PROVE  /\ resend[q] = "done" => resend'[q] = "done"
             /\ resend[q] # "idle" => resend'[q] # "idle"
             /\ resend[q] = "idle" /\ resend'[q] # "idle" => ResendRead(q)
  BY <1>2 DEF ResendRequest, ResendRead, ResendRecipients, ResendSender,
     ResendClaim, Claim, ResendAdd, ResendThrows, ResendGoto
<1>3. ASSUME NEW j \in Job, Worker(j) PROVE resend' = resend
  BY <1>3, WorkerRow DEF apiVars
<1>4. CASE Send \/ Cancel \/ Remove \/ Environment \/ Quiet \/ UNCHANGED vars
  BY <1>4 DEF Send, CheckSender, CheckRecipients, CheckQuota, PutRaw, InsertMessage,
     EnqueueMessage, SendThrows, SendUnchanged, Cancel, CancelRead, CancelRemove,
     CancelUpdate, CancelThrows, Remove, DeleteRow, DeleteObject, CleanupObject,
     CleanupRow, RemoverUnchanged, Environment, ChangeDomain, Suppress, Unsuppress,
     EnvUnchanged, Quiet, vars, apiVars
<1> QED
  BY <1>1, <1>2, <1>3, <1>4 DEF Next

\* A job that runs has been added.
LEMMA RunningDone ==
    ASSUME TypeInv, NEW j \in Job, jobState[j] # "absent"
    PROVE  j \in Resend => resend[j] = "done"
BY DEF TypeInv, NotAdded

\* Which step brings a run to the calls before its loop.
LEMMA EntersStep ==
    ASSUME TypeInv, NEW j \in Job, Worker(j), pc'[j] \in BeforeLoop
    PROVE  jobState[j] = "pending" \/ pc[j] \in BeforeLoop
<1>1. CASE Crash(j) \/ Throw(j) \/ ThrowInTry(j)
  BY <1>1 DEF Crash, EndRun, Throw, ThrowInTry, Goto, Catch, BeforeLoop, TypeInv,
     TypeOK, RunType
<1> QED
  BY <1>1, WorkerEnters DEF Worker

\* At the start no row is written.
LEMMA UnwrittenInit == Init => Unwritten
BY DEF Init, Unwritten, RowIds

\* Every step keeps Unwritten.
LEMMA UnwrittenStep ==
    ASSUME TypeInv, Unwritten, [Next]_vars
    PROVE  Unwritten'
<1> SUFFICES ASSUME NEW i \in Job, NEW k \in Runs, NEW r \in Rcpt, Blank(i, k)'
             PROVE  log'[<<i, k, r>>] = "none"
  BY DEF Unwritten
<1>1. k \in Nat /\ <<i, k, r>> \in RowIds
  BY DEF Runs, RowIds
<1>2. CASE Blank(i, k) /\ log'[<<i, k, r>>] = log[<<i, k, r>>]
  BY <1>2 DEF Unwritten
<1>3. CASE OtherStep
  <2>1. UNCHANGED pc /\ Ordinal(i)' = Ordinal(i)
    BY <1>3, OtherFrame DEF Ordinal, runVars
  <2>2. Blank(i, k)
    BY <1>3, <2>1, OtherJobs, ResendStays DEF Blank
  <2> QED
    BY <1>1, <1>2, <1>3, <2>2, OtherLog
<1>4. ASSUME NEW j \in Job, Worker(j) PROVE log'[<<i, k, r>>] = "none"
  <2>1. Blank(i, k)
    <3>1. CASE i # j
      BY <1>4, <3>1, WorkerApart, ResendStays DEF OtherRun, SameRun, Ordinal, Blank
    <3>2. CASE i = j
      <4>1. i \in Resend /\ resend'[i] # "done" => resend[i] # "done"
        BY ResendStays
      <4>2. CASE Ordinal(i)' = Ordinal(i) /\ jobState'[i] \notin {"absent", "pending"}
        BY <1>4, <3>2, <4>1, <4>2, EntersStep DEF Blank
      <4>3. CASE Ordinal(i)' = Ordinal(i) + 1
        <5>1. Ordinal(i) \in Nat
          BY <1>4, <3>2, OrdinalStep
        <5> QED
          BY <1>1, <4>1, <4>3, <5>1 DEF Blank
      <4> QED
        BY <1>4, <3>2, <4>2, <4>3, OrdinalStep
    <3> QED
      BY <3>1, <3>2
  <2>2. CASE log'[<<i, k, r>>] # log[<<i, k, r>>]
    <3>1. i = j /\ k = Ordinal(j) /\ pc[j] \in {"loop", "accepted", "caught"} /\ WorkerStep(j)
      BY <1>4, <2>2, WorkerWrites
    <3>2. jobState[j] = "active"
      BY <3>1 DEF TypeInv, TypeOK, ActiveRun
    <3>3. j \in Resend => resend[j] = "done"
      BY <3>2, RunningDone
    <3>4. Ordinal(j) \in Nat
      BY <1>4, OrdinalStep
    <3> QED
      BY <1>1, <2>1, <3>1, <3>2, <3>3, <3>4 DEF Blank, BeforeLoop
  <2> QED
    BY <1>2, <2>1, <2>2
<1> QED
  BY <1>3, <1>4, StepKinds

\* How a run moves in its loop: it enters it with ReadDelivered, and comes back
\* to no recipient it is done with.
LEMMA LoopShrinks ==
    ASSUME TypeInv, NEW j \in Job, Worker(j), pc'[j] \in InLoop
    PROVE  ReadDelivered(j) \/ (pc[j] \in InLoop /\ left'[j] \subseteq left[j])
<1>1. CASE Crash(j) \/ Throw(j) \/ ThrowInTry(j)
  BY <1>1 DEF Crash, EndRun, Throw, ThrowInTry, Goto, Catch, InLoop, TypeInv,
     TypeOK, RunType
<1> QED
  BY <1>1, WorkerLoop DEF Worker, LoopStep

\* A final row stays as it is as long as the message is not deleted.
LEMMA FinalStays ==
    ASSUME TypeInv, Unwritten, [Next]_vars, row' # "deleted",
           NEW i \in Job, NEW k \in Runs, NEW r \in Rcpt,
           Final(i, k, r), log[<<i, k, r>>] # "none"
    PROVE  Final(i, k, r)' /\ log'[<<i, k, r>>] = log[<<i, k, r>>]
<1>1. ~Blank(i, k)
  BY DEF Unwritten
<1>2. CASE OtherStep
  <2>1. UNCHANGED <<pc, left>> /\ Ordinal(i)' = Ordinal(i)
    BY <1>2, OtherFrame DEF Ordinal, runVars
  <2> QED
    BY <1>2, <2>1, OtherLog DEF Final
<1>3. ASSUME NEW j \in Job, Worker(j)
      PROVE  Final(i, k, r)' /\ log'[<<i, k, r>>] = log[<<i, k, r>>]
  <2>1. log'[<<i, k, r>>] = log[<<i, k, r>>]
    BY <1>3, WorkerWrites DEF Final, InLoop, Turn
  <2>2. Final(i, k, r)'
    <3>1. CASE i # j
      BY <1>3, <3>1, WorkerApart DEF OtherRun, SameRun, Ordinal, Final
    <3>2. CASE i = j
      <4> SUFFICES ASSUME k = Ordinal(i)', pc'[i] \in InLoop, r \in left'[i]
                   PROVE  FALSE
        BY DEF Final
      <4>1. Ordinal(i)' = Ordinal(i)
        BY <1>3, <3>2, OrdinalStep DEF InLoop
      <4>2. ~ReadDelivered(i)
        BY <1>1, <4>1 DEF ReadDelivered, Blank, BeforeLoop
      <4> QED
        BY <1>3, <3>2, <4>1, <4>2, LoopShrinks DEF Final
    <3> QED
      BY <3>1, <3>2
  <2> QED
    BY <2>1, <2>2
<1> QED
  BY <1>2, <1>3, StepKinds

-------------------------------------------------------------------------------
(***************************************************************************)
(* A finished job leaves a verdict for each of its recipients. A recipient *)
(* is covered by a final row that holds one. What the loop has done with is*)
(* covered; a recipient skipped because another job's row says "delivered",*)
(* a row that may still change, is covered as well, because there is no    *)
(* other job before the original one has bounced, and then it has covered  *)
(* every recipient (Retried).                                              *)
(***************************************************************************)
Verdicts == {"delivered", "bounced", "suppressed"}

Covered(r) ==
    \E i \in Job, k \in Runs : log[<<i, k, r>>] \in Verdicts /\ Final(i, k, r)

Retried == row = "bounced" \/ \E q \in Resend : resend[q] # "idle"

Payloads ==
    \A q \in Resend : /\ to[q] \subseteq to[Orig]
                      /\ resend[q] = "idle" => to[q] = {}
                      /\ resend[q] # "idle" => row # "none"

Recorded(j) ==
    pc[j] \in {"publish", "bounce", "suppress"} =>
        \A r \in Rcpt : Turn(j, r) => log[<<j, Ordinal(j), r>>] \in Verdicts

JobCover(j) ==
    /\ pc[j] \in InLoop =>
          \A r \in to[j] : /\ r \in left[j] \/ Covered(r)
                           /\ r \in alreadyDelivered[j] => Covered(r)
    /\ pc[j] \in {"notify", "complete"} \/ jobState[j] = "completed" =>
          \A r \in to[j] : Covered(r)
    /\ Recorded(j)

CoverInv ==
    /\ Unwritten /\ Payloads
    /\ row # "deleted" =>
          /\ Retried => \A r \in to[Orig] : Covered(r)
          /\ \A j \in Job : JobCover(j)

\* At the start there is nobody to cover.
LEMMA CoverInit == Init => CoverInv
BY UnwrittenInit DEF Init, CoverInv, Payloads, Retried, JobCover, Recorded, Job, InLoop

\* The row of a message that was inserted stays or is marked as deleted.
LEMMA RowStays ==
    ASSUME TypeInv, [Next]_vars, row # "none"
    PROVE  row' # "none"
<1> USE DEF rowVars
<1>1. CASE Send \/ Cancel
  BY <1>1 DEF Send, CheckSender, CheckRecipients, CheckQuota, PutRaw, InsertMessage,
     EnqueueMessage, SendThrows, Cancel, CancelRead, CancelRemove, CancelUpdate,
     CancelThrows, UpdateStatus
<1>2. CASE Remove \/ Environment \/ Quiet \/ UNCHANGED vars
  BY <1>2 DEF Remove, DeleteRow, DeleteObject, CleanupObject, CleanupRow, DropRow,
     Environment, ChangeDomain, Suppress, Unsuppress, EnvUnchanged, Quiet, vars
<1>3. ASSUME NEW q \in Resend, ResendRequest(q) PROVE row' # "none"
  BY <1>3 DEF ResendRequest, ResendRead, ResendRecipients, ResendSender, ResendClaim,
     Claim, ResendAdd, ResendThrows
<1>4. ASSUME NEW j \in Job, Worker(j) PROVE row' # "none"
  BY <1>4, WorkerRow DEF Finish, UpdateStatus, Verdict
<1> QED
  BY <1>1, <1>2, <1>3, <1>4 DEF Next

\* The original payload is fixed before the message has a row.
LEMMA OrigPayload ==
    ASSUME TypeInv, NotInserted, [Next]_vars, to'[Orig] # to[Orig]
    PROVE  row = "none" /\ CheckRecipients
<1> USE JobAssumption DEF TypeInv, TypeOK, QueueType, Job, queueVars
<1>1. CASE Send
  BY <1>1 DEF Send, CheckSender, CheckRecipients, CheckQuota, PutRaw, InsertMessage,
     EnqueueMessage, SendThrows, AddJob, NotInserted
<1>2. CASE Cancel \/ Remove \/ Environment \/ Quiet \/ UNCHANGED vars
  BY <1>2 DEF Cancel, CancelRead, CancelRemove, CancelUpdate, CancelThrows, Remove,
     DeleteRow, DeleteObject, CleanupObject, CleanupRow, RemoverUnchanged,
     Environment, ChangeDomain, Suppress, Unsuppress, EnvUnchanged, Quiet, vars
<1>3. ASSUME NEW q \in Resend, ResendRequest(q) PROVE to'[Orig] = to[Orig]
  BY <1>3 DEF ResendRequest, ResendRead, ResendRecipients, ResendSender, ResendClaim,
     Claim, ResendAdd, ResendThrows, SetPayload, AddJob
<1>4. ASSUME NEW j \in Job, Worker(j) PROVE to' = to
  BY <1>4, WorkerPayload
<1> QED
  BY <1>1, <1>2, <1>3, <1>4 DEF Next

\* A resend's payload is computed from the original one, by its own request.
LEMMA ResendPayload ==
    ASSUME TypeInv, [Next]_vars, NEW q \in Resend, to'[q] # to[q]
    PROVE  /\ to'[q] \subseteq to[Orig] /\ to'[Orig] = to[Orig]
           /\ resend[q] = "recipients" /\ resend'[q] # "idle"
<1> USE JobAssumption DEF TypeInv, TypeOK, QueueType, Job, queueVars
<1>1. CASE Send \/ Cancel \/ Remove \/ Environment \/ Quiet \/ UNCHANGED vars
  BY <1>1 DEF Send, CheckSender, CheckRecipients, CheckQuota, PutRaw, InsertMessage,
     EnqueueMessage, SendThrows, SetPayload, AddJob, Cancel, CancelRead, CancelRemove,
     CancelUpdate, CancelThrows, Remove, DeleteRow, DeleteObject, CleanupObject,
     CleanupRow, RemoverUnchanged, Environment, ChangeDomain, Suppress, Unsuppress,
     EnvUnchanged, Quiet, vars
<1>2. ASSUME NEW p \in Resend, ResendRequest(p)
      PROVE  /\ to'[q] \subseteq to[Orig] /\ to'[Orig] = to[Orig]
             /\ resend[q] = "recipients"
  BY <1>2 DEF ResendRequest, ResendRead, ResendRecipients, ResendSender, ResendClaim,
     Claim, ResendAdd, ResendThrows, SetPayload, AddJob
<1>3. ASSUME NEW j \in Job, Worker(j) PROVE to' = to
  BY <1>3, WorkerPayload
<1> QED
  BY <1>1, <1>2, <1>3, ResendStays DEF Next

\* Every step keeps Payloads.
LEMMA PayloadsStep ==
    ASSUME TypeInv, NotInserted, Payloads, [Next]_vars
    PROVE  Payloads'
<1> SUFFICES ASSUME NEW q \in Resend
             PROVE  /\ to'[q] \subseteq to'[Orig]
                    /\ resend'[q] = "idle" => to'[q] = {}
                    /\ resend'[q] # "idle" => row' # "none"
  BY DEF Payloads
<1>1. resend'[q] # "idle" => row' # "none"
  BY RowStays, ResendStays DEF Payloads, ResendRead, Resendable
<1>2. resend'[q] = "idle" => to'[q] = {}
  BY ResendStays, ResendPayload DEF Payloads
<1>3. to'[q] \subseteq to'[Orig]
  <2>1. CASE to'[q] # to[q]
    BY <2>1, ResendPayload
  <2>2. CASE to'[q] = to[q] /\ to'[Orig] # to[Orig]
    BY <2>2, OrigPayload DEF Payloads
  <2> QED
    BY <2>1, <2>2 DEF Payloads
<1> QED
  BY <1>1, <1>2, <1>3

\* A recipient that is covered stays covered.
LEMMA CoveredStays ==
    ASSUME TypeInv, Unwritten, [Next]_vars, row' # "deleted", NEW r \in Rcpt, Covered(r)
    PROVE  Covered(r)'
<1>1. PICK i \in Job, k \in Runs : log[<<i, k, r>>] \in Verdicts /\ Final(i, k, r)
  BY DEF Covered
<1>2. Final(i, k, r)' /\ log'[<<i, k, r>>] = log[<<i, k, r>>]
  BY <1>1, FinalStays DEF Verdicts
<1> QED
  BY <1>1, <1>2 DEF Covered

\* A row that holds a verdict covers its recipient once its run is done with it.
LEMMA CoversNext ==
    ASSUME TypeInv, NEW j \in Job, NEW r \in Rcpt, pc[j] # "idle",
           Ordinal(j)' = Ordinal(j), log'[<<j, Ordinal(j), r>>] \in Verdicts,
           r \notin left'[j]
    PROVE  Covered(r)'
<1>1. Ordinal(j) \in Runs
  BY LogRowType
<1> QED
  BY <1>1 DEF Covered, Final

\* WriteLog writes the row it is asked to.
LEMMA WriteLogRow ==
    ASSUME TypeInv, NEW j \in Job, NEW r \in Rcpt, pc[j] # "idle", row # "deleted",
           NEW s, WriteLog(j, r, s)
    PROVE  log'[<<j, Ordinal(j), r>>] = s
<1>1. LogRow(j, r) = <<j, Ordinal(j), r>> /\ Ordinal(j) \in Runs
  BY LogRowType
<1> QED
  BY <1>1 DEF WriteLog, RowIds, TypeInv, TypeOK, MessageType

\* A step of a run keeps JobCover for its own job: outside its loop, ...
LEMMA CoverOutside ==
    ASSUME TypeInv, OnceInv, CoverInv, [Next]_vars, row' # "deleted", row # "deleted",
           NEW j \in Job,
           \/ Pick(j) \/ FetchRaw(j) \/ ReadDkim(j) \/ ReadSuppressions(j)
           \/ ReadDelivered(j) \/ Finish(j) \/ Notify(j) \/ CompleteJob(j)
           \/ FailAttempt(j) \/ Crash(j) \/ Throw(j) \/ ThrowInTry(j)
    PROVE  JobCover(j)'
<1>0. /\ to' = to /\ to \in [Job -> SUBSET Rcpt]
      /\ \A r \in Rcpt : Covered(r) => Covered(r)'
  BY WorkerPayload, CoveredStays DEF Worker, WorkerStep, CoverInv, TypeInv, TypeOK,
     QueueType
<1> USE DEF InLoop, JobCover, Recorded, Goto, Catch
<1>1. CASE Pick(j) \/ FailAttempt(j) \/ Crash(j)
  BY <1>1 DEF Pick, FailAttempt, Retry, Crash, EndRun, TypeInv, TypeOK, QueueType, RunType
<1>2. CASE FetchRaw(j) \/ ReadDkim(j) \/ ReadSuppressions(j) \/ Throw(j)
  <2>1. jobState'[j] # "completed"
    BY <1>2 DEF FetchRaw, ReadDkim, ReadSuppressions, LoadSuppressions, Throw, CallsAt,
       NoEffect, WorkerUnchanged, queueVars, TypeInv, TypeOK, ActiveRun
  <2> QED
    BY <1>2, <2>1 DEF FetchRaw, ReadDkim, ReadSuppressions, LoadSuppressions, Throw,
       TypeInv, TypeOK, RunType
<1>3. CASE ReadDelivered(j)
  <2>1. /\ pc[j] = "delivered" /\ pc'[j] = "loop" /\ jobState[j] = "active"
        /\ jobState'[j] = "active" /\ left'[j] = to[j]
        /\ alreadyDelivered'[j] = LoggedDelivered
    BY <1>3 DEF ReadDelivered, NoEffect, WorkerUnchanged, queueVars, TypeInv, TypeOK,
       RunType, ActiveRun
  <2>2. ASSUME NEW r \in to[j], r \in LoggedDelivered PROVE Covered(r)
    <3>1. PICK i \in Job, k \in Runs : log[<<i, k, r>>] = "delivered"
      BY <2>2 DEF LoggedDelivered, Logged
    <3>2. ~Blank(i, k) /\ r \in Rcpt
      BY <1>0, <2>2, <3>1 DEF CoverInv, Unwritten
    <3>3. CASE i = Orig /\ j = Orig
      <4>1. Final(i, k, r)
        BY <2>1, <3>3 DEF Final
      <4> QED
        BY <3>1, <4>1 DEF Covered, Verdicts
    <3>4. CASE ~(i = Orig /\ j = Orig)
      <4>1. Retried
        BY <2>1, <3>2, <3>4, RunningDone DEF Retried, Blank, Job
      <4>2. to[j] \subseteq to[Orig]
        BY DEF CoverInv, Payloads, Job
      <4> QED
        BY <2>2, <4>1, <4>2 DEF CoverInv
    <3> QED
      BY <3>3, <3>4
  <2> QED
    BY <1>0, <2>1, <2>2
<1>4. CASE Finish(j)
  <2>1. pc[j] = "loop" /\ left[j] = {} /\ pc'[j] = "notify"
    BY <1>4 DEF Finish, TypeInv, TypeOK, RunType
  <2>2. \A r \in to[j] : Covered(r)'
    BY <1>0, <2>1 DEF CoverInv
  <2> QED
    BY <1>0, <2>1, <2>2
<1>5. CASE Notify(j) \/ CompleteJob(j)
  <2>1. pc[j] \in {"notify", "complete"} /\ pc'[j] \in {"complete", "idle"}
    BY <1>5 DEF Notify, CompleteJob, EndRun, TypeInv, TypeOK, RunType
  <2>2. \A r \in to[j] : Covered(r)'
    BY <1>0, <2>1 DEF CoverInv
  <2> QED
    BY <1>0, <2>1, <2>2
<1>6. CASE ThrowInTry(j)
  <2>1. /\ pc[j] \in {"accepted", "publish"} /\ pc'[j] = "caught" /\ left' = left
        /\ alreadyDelivered' = alreadyDelivered /\ jobState'[j] = "active"
    BY <1>6 DEF ThrowInTry, WorkerUnchanged, queueVars, readVars, TypeInv, TypeOK,
       RunType, ActiveRun
  <2> QED
    BY <1>0, <2>1 DEF CoverInv
<1> QED
  BY <1>1, <1>2, <1>3, <1>4, <1>5, <1>6

\* ... and in it.
LEMMA CoverLoop ==
    ASSUME TypeInv, OnceInv, CoverInv, [Next]_vars, row' # "deleted", row # "deleted",
           NEW j \in Job, NEW r \in Rcpt, ForRecipient(j, r)
    PROVE  JobCover(j)'
<1>0. /\ to' = to /\ to \in [Job -> SUBSET Rcpt] /\ WorkerStep(j)
      /\ \A q \in Rcpt : Covered(q) => Covered(q)'
  BY WorkerPayload, CoveredStays DEF Worker, WorkerStep, CoverInv, TypeInv, TypeOK,
     QueueType
<1>1. /\ pc[j] \in InLoop /\ Turn(j, r) /\ jobState'[j] = "active"
      /\ alreadyDelivered' = alreadyDelivered
      /\ pc'[j] \notin {"idle", "notify", "complete"}
  <2> USE DEF InLoop, Goto, NextRecipient, Catch, NoEffect, WorkerUnchanged, queueVars,
          readVars, TypeInv, TypeOK, RunType, ActiveRun
  <2>1. pc[j] \in InLoop /\ Turn(j, r) /\ UNCHANGED <<jobState, alreadyDelivered>>
    BY DEF ForRecipient, SkipSuppressed, SkipDelivered, CountServed, OpenLog,
       Simulate, RefuseSender, Accept, Reject, LogDelivered, RecordDelivery,
       PublishDelivered, LogFailure, RecordFailure, PublishBounced, AutoSuppress
  <2>2. pc'[j] \notin {"idle", "notify", "complete"}
    BY DEF ForRecipient, SkipSuppressed, SkipDelivered, CountServed, OpenLog,
       Simulate, RefuseSender, Accept, Reject, LogDelivered, RecordDelivery,
       PublishDelivered, LogFailure, RecordFailure, PublishBounced, AutoSuppress
  <2> QED
    BY <2>1, <2>2
<1>2. Ordinal(j)' = Ordinal(j)
  BY <1>0, <1>1, OrdinalStep DEF Worker
<1>3. /\ \A q \in to[j] : /\ q \in left[j] \/ Covered(q)
                          /\ q \in alreadyDelivered[j] => Covered(q)
      /\ pc[j] \in {"publish", "bounce", "suppress"} =>
            log[<<j, Ordinal(j), r>>] \in Verdicts
  BY <1>1 DEF CoverInv, JobCover, Recorded
<1>4. \A q \in Rcpt : Turn(j, q) => q = r
  BY <1>1, TurnUnique
\* What is left to show: r, if the loop is done with it, is covered, and its row
\* holds a verdict if the loop is about to be.
<1> DEFINE Served == \/ left' = left
                     \/ left' = [left EXCEPT ![j] = @ \ {r}] /\ (r \in to[j] => Covered(r)')
           Marked == pc'[j] \in {"publish", "bounce", "suppress"} =>
                        left' = left /\ log'[<<j, Ordinal(j), r>>] \in Verdicts
<1>5. SUFFICES Served /\ Marked
  <2> ASSUME Served, Marked PROVE JobCover(j)'
    <3>1. \A q \in to[j] : /\ q \in left'[j] \/ Covered(q)'
                           /\ q \in alreadyDelivered'[j] => Covered(q)'
      BY <1>0, <1>1, <1>3 DEF TypeInv, TypeOK, RunType
    <3>2. Recorded(j)'
      BY <1>2, <1>4 DEF Recorded, Turn
    <3>3. to'[j] = to[j] /\ jobState'[j] # "completed"
      BY <1>0, <1>1
    <3>4. \A q \in to'[j] : /\ q \in left'[j] \/ Covered(q)'
                            /\ q \in alreadyDelivered'[j] => Covered(q)'
      BY <3>1, <3>3
    <3>5. ~(pc'[j] \in {"notify", "complete"} \/ jobState'[j] = "completed")
      BY <1>1, <3>3
    <3> QED
      BY <3>2, <3>4, <3>5 DEF JobCover
  <2> QED
    OBVIOUS
<1>6. ASSUME log'[<<j, Ordinal(j), r>>] \in Verdicts,
             left' = [left EXCEPT ![j] = @ \ {r}]
      PROVE  Covered(r)'
  <2>1. r \notin left'[j] /\ pc[j] # "idle"
    BY <1>1, <1>6 DEF TypeInv, TypeOK, RunType, InLoop
  <2> QED
    BY <1>2, <1>6, <2>1, CoversNext
<1>7. CASE log' = log /\ NextRecipient(j, r) /\ pc[j] \in {"publish", "bounce", "suppress"}
  <2>1. Served
    BY <1>3, <1>6, <1>7 DEF NextRecipient
  <2>2. Marked
    BY <1>7 DEF NextRecipient, Goto, TypeInv, TypeOK, RunType
  <2> QED
    BY <2>1, <2>2
<1>8. CASE SkipSuppressed(j, r)
  <2>1. log'[<<j, Ordinal(j), r>>] \in Verdicts
    BY <1>1, <1>8, WriteLogRow DEF SkipSuppressed, Verdicts, InLoop
  <2>2. Served
    BY <1>6, <1>8, <2>1 DEF SkipSuppressed, NextRecipient
  <2>3. Marked
    BY <1>8 DEF SkipSuppressed, NextRecipient, Goto, TypeInv, TypeOK, RunType
  <2> QED
    BY <2>2, <2>3
<1>9. CASE SkipDelivered(j, r)
  <2>1. Served
    BY <1>0, <1>3, <1>9 DEF SkipDelivered, CountServed, NextRecipient
  <2>2. Marked
    BY <1>9 DEF SkipDelivered, CountServed, NextRecipient, Goto, TypeInv, TypeOK, RunType
  <2> QED
    BY <2>1, <2>2
<1>10. CASE OpenLog(j, r) \/ Simulate(j, r) \/ RefuseSender(j, r) \/ Accept(j, r)
            \/ Reject(j, r)
  <2>1. left' = left
    BY <1>10 DEF OpenLog, Simulate, RefuseSender, Accept, Reject
  <2>2. pc'[j] \in {"failing", "attempt", "accepted", "caught"}
    BY <1>10 DEF OpenLog, Simulate, RefuseSender, Accept, Reject, Goto, Catch,
       TypeInv, TypeOK, RunType
  <2> QED
    BY <2>1, <2>2
<1>11. CASE LogDelivered(j, r)
  <2>1. log'[<<j, Ordinal(j), r>>] \in Verdicts
    BY <1>1, <1>11, WriteLogRow DEF LogDelivered, RecordDelivery, Verdicts, InLoop
  <2> QED
    BY <1>11, <2>1 DEF LogDelivered, RecordDelivery
<1>12. CASE LogFailure(j, r)
  <2>1. left' = left /\ pc[j] = "caught"
    BY <1>12 DEF LogFailure, RecordFailure
  <2>2. CASE err[j] = "temp"
    BY <1>12, <2>1, <2>2 DEF LogFailure, RecordFailure, Goto, TypeInv, TypeOK, RunType
  <2>3. CASE err[j] # "temp"
    <3>1. WriteLog(j, r, "bounced")
      BY <1>12, <2>3 DEF LogFailure, RecordFailure
    <3>2. log'[<<j, Ordinal(j), r>>] \in Verdicts
      BY <2>1, <3>1, WriteLogRow DEF Verdicts
    <3> QED
      BY <2>1, <3>2
  <2> QED
    BY <2>2, <2>3
<1>13. CASE PublishDelivered(j, r) \/ AutoSuppress(j, r)
  BY <1>7, <1>13 DEF PublishDelivered, AutoSuppress, NoEffect
<1>14. CASE PublishBounced(j, r)
  <2>1. log' = log /\ pc[j] = "bounce"
    BY <1>14 DEF PublishBounced, NoEffect
  <2>2. NextRecipient(j, r) \/ left' = left
    BY <1>14 DEF PublishBounced
  <2> QED
    BY <1>3, <1>7, <2>1, <2>2
<1> QED
  BY <1>8, <1>9, <1>10, <1>11, <1>12, <1>13, <1>14 DEF ForRecipient

\* A step of another run keeps JobCover.
LEMMA CoverApart ==
    ASSUME TypeInv, OnceInv, CoverInv, [Next]_vars, row' # "deleted", row # "deleted",
           NEW i \in Job, NEW j \in Job, i # j, Worker(i)
    PROVE  JobCover(j)'
<1>1. /\ OtherRun(j) /\ to' = to /\ to \in [Job -> SUBSET Rcpt] /\ JobCover(j)
      /\ \A r \in Rcpt : Covered(r) => Covered(r)'
  BY WorkerApart, WorkerPayload, CoveredStays DEF CoverInv, TypeInv, TypeOK, QueueType
<1>2. Recorded(j)'
  <2>1. ASSUME NEW r \in Rcpt, pc[j] # "idle"
        PROVE  log'[<<j, Ordinal(j), r>>] = log[<<j, Ordinal(j), r>>]
    BY <2>1, LogRowType, WorkerWrites
  <2>2. Ordinal(j)' = Ordinal(j)
    BY <1>1 DEF OtherRun, SameRun, Ordinal
  <2> QED
    BY <1>1, <2>1, <2>2 DEF JobCover, Recorded, OtherRun, SameRun, Turn
<1>3. /\ pc'[j] = pc[j] /\ left'[j] = left[j] /\ jobState'[j] = jobState[j]
      /\ alreadyDelivered'[j] = alreadyDelivered[j] /\ to'[j] = to[j]
  BY <1>1 DEF OtherRun, SameRun
<1>4. pc'[j] \in InLoop =>
         \A r \in to'[j] : /\ r \in left'[j] \/ Covered(r)'
                           /\ r \in alreadyDelivered'[j] => Covered(r)'
  BY <1>1, <1>3 DEF JobCover
<1>5. pc'[j] \in {"notify", "complete"} \/ jobState'[j] = "completed" =>
         \A r \in to'[j] : Covered(r)'
  BY <1>1, <1>3 DEF JobCover
<1> QED
  BY <1>2, <1>4, <1>5 DEF JobCover

\* A handler completes no job.
LEMMA OtherCompletes ==
    ASSUME TypeInv, OtherStep, NEW j \in Job, jobState'[j] = "completed"
    PROVE  jobState[j] = "completed"
<1> USE DEF TypeInv, TypeOK, QueueType, queueVars, Job
<1>1. CASE Send
  BY <1>1 DEF Send, CheckSender, CheckRecipients, CheckQuota, PutRaw, InsertMessage,
     EnqueueMessage, SendThrows, SetPayload, AddJob
<1>2. CASE Cancel
  BY <1>2 DEF Cancel, CancelRead, CancelRemove, CancelUpdate, CancelThrows
<1>3. CASE Remove \/ Environment \/ Quiet \/ UNCHANGED vars
  BY <1>3 DEF Remove, DeleteRow, DeleteObject, CleanupObject, CleanupRow,
     RemoverUnchanged, Environment, ChangeDomain, Suppress, Unsuppress, EnvUnchanged,
     Quiet, vars
<1>4. ASSUME NEW q \in Resend, ResendRequest(q) PROVE jobState[j] = "completed"
  BY <1>4 DEF ResendRequest, ResendRead, ResendRecipients, ResendSender, ResendClaim,
     Claim, ResendAdd, ResendThrows, SetPayload, AddJob
<1> QED
  BY <1>1, <1>2, <1>3, <1>4 DEF OtherStep

\* The handlers keep JobCover.
LEMMA CoverOther ==
    ASSUME TypeInv, OnceInv, CoverInv, [Next]_vars, row' # "deleted", row # "deleted",
           OtherStep, NEW j \in Job
    PROVE  JobCover(j)'
<1>1. /\ JobCover(j) /\ to \in [Job -> SUBSET Rcpt]
      /\ \A r \in Rcpt : Covered(r) => Covered(r)'
  BY CoveredStays DEF CoverInv, TypeInv, TypeOK, QueueType
<1>2. UNCHANGED <<pc, left, alreadyDelivered, log>> /\ Ordinal(j)' = Ordinal(j)
  BY OtherFrame, OtherLog DEF runVars, readVars, Ordinal
<1>3. Recorded(j)'
  BY <1>1, <1>2 DEF JobCover, Recorded, Turn
<1>4. CASE pc[j] = "idle" /\ jobState'[j] # "completed"
  BY <1>2, <1>3, <1>4 DEF JobCover, InLoop
<1>5. CASE ~(pc[j] = "idle" /\ jobState'[j] # "completed")
  <2>1. to'[j] = to[j] /\ (jobState'[j] = "completed" => jobState[j] = "completed")
    BY <1>5, OtherPayload, OtherCompletes DEF TypeInv, TypeOK, ActiveRun
  <2>2. pc'[j] \in InLoop =>
           \A r \in to'[j] : /\ r \in left'[j] \/ Covered(r)'
                             /\ r \in alreadyDelivered'[j] => Covered(r)'
    BY <1>1, <1>2, <2>1 DEF JobCover
  <2>3. pc'[j] \in {"notify", "complete"} \/ jobState'[j] = "completed" =>
           \A r \in to'[j] : Covered(r)'
    BY <1>1, <1>2, <2>1 DEF JobCover
  <2> QED
    BY <1>3, <2>2, <2>3 DEF JobCover
<1> QED
  BY <1>4, <1>5

\* A message has bounced, or has been resent, only once the original job has
\* visited every recipient.
LEMMA RetriedStep ==
    ASSUME TypeInv, OnceInv, CoverInv, [Next]_vars, row # "deleted", row' # "deleted",
           Retried'
    PROVE  \A r \in to'[Orig] : Covered(r)'
<1>1. \A r \in Rcpt : Covered(r) => Covered(r)'
  BY CoveredStays DEF CoverInv
<1>2. to[Orig] \subseteq Rcpt /\ Orig \in Job
  BY DEF TypeInv, TypeOK, QueueType, Job
<1>3. CASE Retried
  <2>1. row # "none"
    BY <1>3 DEF Retried, CoverInv, Payloads
  <2>2. to'[Orig] = to[Orig]
    BY <2>1, OrigPayload DEF OnceInv
  <2> QED
    BY <1>1, <1>2, <1>3, <2>2 DEF CoverInv
<1>4. CASE ~Retried
  <2>1. row' = "bounced"
    <3>1. ASSUME NEW q \in Resend, resend'[q] # "idle" PROVE FALSE
      <4>1. ResendRead(q)
        BY <1>4, <3>1, ResendStays DEF Retried
      <4> QED
        BY <1>4, <4>1 DEF ResendRead, Resendable, Retried, TypeInv, TypeOK, MessageType,
           Statuses
    <3> QED
      BY <3>1 DEF Retried
  <2>2. PICK j \in Job : Worker(j) /\ Finish(j)
    <3>1. row' # row
      BY <1>4, <2>1 DEF Retried
    <3>2. CASE OtherStep
      <4> USE DEF rowVars
      <4>1. CASE Send \/ Cancel
        BY <2>1, <3>1, <4>1 DEF Send, CheckSender, CheckRecipients, CheckQuota, PutRaw,
           InsertMessage, EnqueueMessage, SendThrows, Cancel, CancelRead, CancelRemove,
           CancelUpdate, CancelThrows, UpdateStatus
      <4>2. CASE Remove \/ Environment \/ Quiet \/ UNCHANGED vars
        BY <2>1, <3>1, <4>2 DEF Remove, DeleteRow, DeleteObject, CleanupObject,
           CleanupRow, DropRow, Environment, ChangeDomain, Suppress, Unsuppress,
           EnvUnchanged, Quiet, vars
      <4>3. ASSUME NEW q \in Resend, ResendRequest(q) PROVE FALSE
        BY <2>1, <3>1, <4>3 DEF ResendRequest, ResendRead, ResendRecipients,
           ResendSender, ResendClaim, Claim, ResendAdd, ResendThrows
      <4> QED
        BY <3>2, <4>1, <4>2, <4>3 DEF OtherStep
    <3> QED
      BY <3>1, <3>2, StepKinds, WorkerRow
  <2>3. j = Orig
    <3>1. j \notin Resend
      BY <1>4, <2>2, RunningDone DEF Finish, Retried, TypeInv, TypeOK, ActiveRun
    <3> QED
      BY <3>1 DEF Job
  <2>4. \A r \in to[Orig] : Covered(r)
    BY <2>2, <2>3 DEF CoverInv, JobCover, Finish, InLoop
  <2>5. to' = to
    BY <2>2, WorkerPayload
  <2> QED
    BY <1>1, <1>2, <2>4, <2>5
<1> QED
  BY <1>3, <1>4

\* Every step keeps the invariant.
LEMMA CoverNext == OnceInv /\ CoverInv /\ [Next]_vars => CoverInv'
<1> SUFFICES ASSUME OnceInv, CoverInv, [Next]_vars PROVE CoverInv'
  OBVIOUS
<1>1. TypeInv /\ (row' # "deleted" => row # "deleted")
  BY NotInsertedStep DEF OnceInv
<1>2. Unwritten' /\ Payloads'
  BY <1>1, UnwrittenStep, PayloadsStep DEF CoverInv, OnceInv
<1>3. row' # "deleted" /\ Retried' => \A r \in to'[Orig] : Covered(r)'
  BY <1>1, RetriedStep
<1>4. ASSUME row' # "deleted", NEW j \in Job PROVE JobCover(j)'
  <2>1. CASE OtherStep
    BY <1>1, <1>4, <2>1, CoverOther
  <2>2. ASSUME NEW i \in Job, Worker(i), i # j PROVE JobCover(j)'
    BY <1>1, <1>4, <2>2, CoverApart
  <2>3. CASE Worker(j)
    BY <1>1, <1>4, <2>3, CoverOutside, CoverLoop DEF Worker, WorkerStep
  <2> QED
    BY <2>1, <2>2, <2>3, StepKinds
<1> QED
  BY <1>2, <1>3, <1>4 DEF CoverInv

\* Whatever breaks and however many runs it takes, a job that completes leaves,
\* for each recipient of its payload, a row of the delivery logs that says what
\* became of it: no recipient falls between the runs, between a run and the one
\* of a concurrent resend, or between the loop and its error paths.
THEOREM CompletedIsCovered == Spec => []CompletedCoversAll
<1>1. Spec => [](OnceInv /\ CoverInv)
  BY OnceInit, OnceNext, CoverInit, CoverNext, PTL DEF Spec
<1>2. CoverInv => CompletedCoversAll
  BY DEF CoverInv, JobCover, Covered, Verdicts, CompletedCoversAll
<1> QED
  BY <1>1, <1>2, PTL

-------------------------------------------------------------------------------
(***************************************************************************)
(* The status of a message agrees with its logs and with what was mailed,  *)
(* while nothing breaks. "delivered" needs a delivery to count: by this    *)
(* run, which has logged it, or by one whose row it found.                 *)
(***************************************************************************)
Logless ==
    /\ row # "delivered"
    /\ \A j \in Job : /\ alreadyDelivered[j] = {} /\ deliveredCount[j] = 0
                      /\ pc[j] # "publish"

LogInv == faults = 0 /\ row # "deleted" /\ LoggedDelivered = {} => Logless

\* At the start nothing is delivered or counted.
LEMMA LogInit == Init => LogInv
BY DEF Init, LogInv, Logless

\* While nothing breaks, a row that says "delivered" goes on saying so.
LEMMA DeliveredRowStays ==
    ASSUME OnceInv, [Next]_vars, faults' = 0, row' # "deleted",
           NEW i \in Job, NEW k \in Runs, NEW r \in Rcpt,
           log[<<i, k, r>>] = "delivered"
    PROVE  log'[<<i, k, r>>] = "delivered"
<1>1. TypeInv /\ Fresh /\ faults = 0 /\ row # "deleted"
  BY NoFault, NotInsertedStep DEF OnceInv
<1>2. CASE OtherStep
  BY <1>2, OtherLog
<1>3. ASSUME NEW j \in Job, WorkerStep(j), log'[<<i, k, r>>] # log[<<i, k, r>>]
      PROVE  log'[<<i, k, r>>] = "delivered"
  <2>1. i = j /\ k = Ordinal(j) /\ Turn(j, r) /\ pc[j] \in {"loop", "accepted", "caught"}
    BY <1>1, <1>3, WorkerWrites DEF Worker
  <2>2. CASE pc[j] = "accepted"
    BY <1>1, <1>3, <2>1, <2>2, AcceptedStep, WriteLogRow
  <2>3. CASE pc[j] # "accepted"
    <3>1. Unvisited(j, r)
      BY <2>1, <2>3 DEF Unvisited, InLoop, Turn
    <3> QED
      BY <1>1, <2>1, <3>1 DEF Fresh
  <2> QED
    BY <2>2, <2>3
<1> QED
  BY <1>1, <1>2, <1>3, NoFault

\* Every step keeps LogInv.
LEMMA LogNext == OnceInv /\ LogInv /\ [Next]_vars => LogInv'
<1> SUFFICES ASSUME OnceInv, LogInv, [Next]_vars, faults' = 0, row' # "deleted",
                    LoggedDelivered' = {}
             PROVE  Logless'
  BY DEF LogInv
<1>1. TypeInv /\ faults = 0 /\ row # "deleted"
  BY NoFault, NotInsertedStep DEF OnceInv
<1>2. LoggedDelivered = {}
  <2>1. ASSUME NEW r \in LoggedDelivered PROVE FALSE
    <3>1. r \in Rcpt
      BY DEF LoggedDelivered, Logged
    <3>2. PICK i \in Job, k \in Runs : log[<<i, k, r>>] = "delivered"
      BY DEF LoggedDelivered, Logged
    <3>3. log'[<<i, k, r>>] = "delivered"
      BY <3>1, <3>2, DeliveredRowStays
    <3>4. r \in LoggedDelivered'
      BY <3>1, <3>3 DEF LoggedDelivered, Logged
    <3> QED
      BY <3>4
  <2> QED
    BY <2>1
<1>3. Logless
  BY <1>1, <1>2 DEF LogInv
<1> USE DEF Logless
<1>4. CASE OtherStep
  <2>1. row' # "delivered"
    <3> USE DEF rowVars
    <3>1. CASE Send \/ Cancel
      BY <1>3, <3>1 DEF Send, CheckSender, CheckRecipients, CheckQuota, PutRaw,
         InsertMessage, EnqueueMessage, SendThrows, Cancel, CancelRead, CancelRemove,
         CancelUpdate, CancelThrows, UpdateStatus
    <3>2. CASE Remove \/ Environment \/ Quiet \/ UNCHANGED vars
      BY <1>3, <3>2 DEF Remove, DeleteRow, DeleteObject, CleanupObject, CleanupRow,
         DropRow, Environment, ChangeDomain, Suppress, Unsuppress, EnvUnchanged, Quiet,
         vars
    <3>3. ASSUME NEW q \in Resend, ResendRequest(q) PROVE row' # "delivered"
      BY <1>3, <3>3 DEF ResendRequest, ResendRead, ResendRecipients, ResendSender,
         ResendClaim, Claim, ResendAdd, ResendThrows
    <3> QED
      BY <1>4, <3>1, <3>2, <3>3 DEF OtherStep
  <2> QED
    BY <1>3, <1>4, <2>1, OtherFrame DEF runVars, readVars, countVars
<1>5. ASSUME NEW j \in Job, WorkerStep(j) PROVE Logless'
  <2> USE DEF TypeInv, TypeOK, RunType
  <2>1. row' # "delivered"
    <3>1. CASE Finish(j)
      BY <1>3, <3>1 DEF Finish, UpdateStatus, Verdict
    <3> QED
      BY <1>3, <1>5, <3>1, WorkerRow DEF Worker
  <2>2. ASSUME NEW i \in Job
        PROVE  alreadyDelivered'[i] = {} /\ deliveredCount'[i] = 0 /\ pc'[i] # "publish"
    <3>1. CASE i # j
      BY <1>1, <1>3, <1>5, <3>1, WorkerApart DEF OtherRun, SameRun, Worker
    <3>2. CASE i = j
      <4> USE <1>1, <1>2, <1>3, <3>2 DEF readVars, countVars, Goto, NextRecipient, Catch
      <4>1. CASE Pick(j) \/ CompleteJob(j) \/ FailAttempt(j)
        BY <4>1 DEF Pick, CompleteJob, FailAttempt, Retry, EndRun
      <4>2. CASE FetchRaw(j) \/ ReadDkim(j) \/ ReadSuppressions(j) \/ ReadDelivered(j)
        BY <4>2 DEF FetchRaw, ReadDkim, ReadSuppressions, LoadSuppressions, ReadDelivered
      <4>3. CASE Finish(j) \/ Notify(j)
        BY <4>3 DEF Finish, Notify
      <4>4. ASSUME NEW r \in Rcpt, LogDelivered(j, r) PROVE FALSE
        <5>1. pc[j] # "idle" /\ WriteLog(j, r, "delivered")
          BY <4>4 DEF LogDelivered, RecordDelivery
        <5>2. log'[<<j, Ordinal(j), r>>] = "delivered" /\ Ordinal(j) \in Runs
          BY <5>1, WriteLogRow, LogRowType
        <5>3. r \in LoggedDelivered'
          BY <5>2 DEF LoggedDelivered, Logged
        <5> QED
          BY <5>3
      <4>5. ASSUME NEW r \in Rcpt, ForRecipient(j, r)
            PROVE  /\ alreadyDelivered'[i] = {} /\ deliveredCount'[i] = 0
                   /\ pc'[i] # "publish"
        BY <4>4, <4>5 DEF ForRecipient, SkipSuppressed, SkipDelivered, CountServed,
           OpenLog, Simulate, RefuseSender, Accept, Reject, PublishDelivered,
           LogFailure, RecordFailure, PublishBounced, AutoSuppress
      <4> QED
        BY <1>5, <4>1, <4>2, <4>3, <4>5 DEF WorkerStep
    <3> QED
      BY <3>1, <3>2
  <2> QED
    BY <2>1, <2>2
<1> QED
  BY <1>1, <1>4, <1>5, NoFault

\* While nothing breaks, a message shown as delivered has a row of the delivery
\* logs that says so, in testing mode as in production.
THEOREM DeliveredIsLogged == Spec => []DeliveredMeansLogged
<1>1. Spec => [](OnceInv /\ LogInv)
  BY OnceInit, OnceNext, LogInit, LogNext, PTL DEF Spec
<1>2. LogInv => DeliveredMeansLogged
  BY DEF LogInv, Logless, DeliveredMeansLogged
<1> QED
  BY <1>1, <1>2, PTL

-------------------------------------------------------------------------------
(***************************************************************************)
(* A message shown as bounced or suppressed reached nobody but recipients  *)
(* skipped as suppressed by a later run. A recipient is spared if it got no*)
(* mail, or if a final row says it was skipped. The run whose verdict it   *)
(* is has a delivery to count, or spared everyone it visited; the ones that*)
(* are not in its payload were spared when the message was resent.         *)
(***************************************************************************)
Spared(r) ==
    \/ mailed[r] = 0
    \/ \E i \in Job, k \in Runs : log[<<i, k, r>>] = "suppressed" /\ Final(i, k, r)

\* What a run has done so far.
RunSpares(j) ==
    /\ Delivering(j) => \A r \in Rcpt \ to[j] : Spared(r)
    /\ pc[j] \in InLoop =>
          \A r \in to[j] \ left[j] : Spared(r) \/ deliveredCount[j] # 0
    /\ pc[j] \in InLoop \ {"loop"} \/ deliveredCount[j] # 0 => attempted[j] # 0
    /\ pc[j] = "publish" /\ ~TestingMode => deliveredCount[j] # 0
    /\ pc[j] \in {"caught", "bounce", "suppress"} =>
          \A r \in Rcpt : Turn(j, r) => mailed[r] = 0

Fruitless == row \in {"bounced", "suppressed"}

SpareInv ==
    /\ api \in {"sender", "recipients"} => \A r \in Rcpt : mailed[r] = 0
    /\ faults = 0 /\ row # "deleted" =>
          /\ Fruitless => \A r \in Rcpt : Spared(r)
          /\ Fruitless => \A j \in Job : ~Delivering(j)
          /\ \A j \in Job : RunSpares(j)

\* At the start everybody is spared.
LEMMA SpareInit == Init => SpareInv
BY DEF Init, SpareInv, Fruitless, RunSpares, Spared, InLoop

\* Nobody is mailed before the payload is fixed.
LEMMA EarlyStep ==
    ASSUME OnceInv, CoverInv, SpareInv, [Next]_vars, api' \in {"sender", "recipients"}
    PROVE  api \in {"sender", "recipients"} /\ mailed' = mailed
<1>1. TypeInv
  BY DEF OnceInv
<1>2. api \in {"sender", "recipients"}
  <2>1. CASE Send
    BY <2>1 DEF Send, CheckSender, CheckRecipients, CheckQuota, PutRaw, InsertMessage,
       EnqueueMessage, SendThrows
  <2>2. CASE Cancel \/ Remove \/ Environment \/ Quiet \/ UNCHANGED vars
    BY <2>2 DEF Cancel, CancelRead, CancelRemove, CancelUpdate, CancelThrows, Remove,
       DeleteRow, DeleteObject, CleanupObject, CleanupRow, RemoverUnchanged,
       Environment, ChangeDomain, Suppress, Unsuppress, EnvUnchanged, Quiet, vars, apiVars
  <2>3. ASSUME NEW q \in Resend, ResendRequest(q) PROVE api' = api
    BY <2>3 DEF ResendRequest, ResendRead, ResendRecipients, ResendSender, ResendClaim,
       Claim, ResendAdd, ResendThrows, ResendUnchanged
  <2>4. ASSUME NEW j \in Job, Worker(j) PROVE api' = api
    BY <2>4, WorkerRow DEF apiVars
  <2> QED
    BY <2>1, <2>2, <2>3, <2>4 DEF Next
<1>3. ASSUME NEW j \in Job, NEW r \in Rcpt, Accept(j, r) PROVE FALSE
  <2>1. jobState[j] = "active" /\ row = "none"
    BY <1>1, <1>2, <1>3 DEF Accept, TypeInv, TypeOK, ActiveRun, OnceInv, NotInserted
  <2>2. CASE j = Orig
    BY <1>1, <1>2, <2>1, <2>2 DEF TypeInv, NotAdded
  <2>3. CASE j \in Resend
    BY <1>1, <2>1, <2>3, RunningDone DEF CoverInv, Payloads
  <2> QED
    BY <2>2, <2>3 DEF Job
<1> QED
  BY <1>1, <1>2, <1>3, MailStep

\* A spared recipient that is not mailed stays spared.
LEMMA SparedStays ==
    ASSUME TypeInv, Unwritten, [Next]_vars, row' # "deleted", NEW r \in Rcpt, Spared(r),
           mailed'[r] = mailed[r]
    PROVE  Spared(r)'
<1>1. CASE mailed[r] = 0
  BY <1>1 DEF Spared
<1>2. CASE mailed[r] # 0
  <2>1. PICK i \in Job, k \in Runs : log[<<i, k, r>>] = "suppressed" /\ Final(i, k, r)
    BY <1>2 DEF Spared
  <2>2. Final(i, k, r)' /\ log'[<<i, k, r>>] = log[<<i, k, r>>]
    BY <2>1, FinalStays
  <2> QED
    BY <2>1, <2>2 DEF Spared
<1> QED
  BY <1>1, <1>2

\* A verdict of "bounced" or "suppressed" is about a message nobody delivers and
\* whose recipients are all spared.
LEMMA FruitlessStep ==
    ASSUME OnceInv, CoverInv, SpareInv, [Next]_vars, faults' = 0, row' # "deleted",
           Fruitless'
    PROVE  (\A r \in Rcpt : Spared(r)') /\ \A j \in Job : ~Delivering(j)'
<1>1. TypeInv /\ Unwritten /\ faults = 0 /\ row # "deleted"
  BY NoFault, NotInsertedStep DEF OnceInv, CoverInv
<1>2. ASSUME NEW j \in Job, Delivering(j)' PROVE Delivering(j)
  <2>1. CASE ResendClaim(j) /\ row \in Resendable
    BY <2>1 DEF ResendClaim, Claim, Fruitless
  <2> QED
    BY <1>1, <1>2, <2>1, NoFault, DeliveringStep
<1>3. CASE row' = row
  <2>1. (\A r \in Rcpt : Spared(r)) /\ \A j \in Job : ~Delivering(j)
    BY <1>1, <1>3 DEF SpareInv, Fruitless
  <2>2. mailed' = mailed
    <3>1. ASSUME NEW j \in Job, NEW r \in Rcpt, Accept(j, r) PROVE Delivering(j)
      BY <3>1 DEF Accept, Delivering
    <3> QED
      BY <1>1, <2>1, <3>1, MailStep
  <2> QED
    BY <1>1, <1>2, <2>1, <2>2, SparedStays
<1>4. CASE row' # row
  <2>1. row' \in Resendable \cup {"suppressed"}
    BY DEF Fruitless, Resendable
  <2>2. PICK j \in Job : Finish(j) /\ Delivering(j) /\ ~Delivering(j)'
    BY <1>1, <1>4, <2>1, NoFault, BouncedStep
  <2>3. \A i \in Job : ~Delivering(i)'
    BY <1>1, <1>2, <2>2 DEF OnceInv, OneDelivery
  <2>4. mailed' = mailed /\ RunSpares(j) /\ pc[j] \in InLoop /\ left[j] = {}
    BY <1>1, <2>2 DEF Finish, SpareInv, InLoop
  <2>5. row' = Verdict(j)
    BY <1>4, <2>2 DEF Finish, UpdateStatus
  <2>6. deliveredCount[j] = 0
    <3>1. deliveredCount[j] \in Nat
      BY <1>1 DEF TypeInv, TypeOK, RunType
    <3> QED
      BY <2>4, <2>5, <3>1 DEF Verdict, Fruitless, RunSpares
  <2>7. \A r \in Rcpt : Spared(r)
    BY <2>2, <2>4, <2>6 DEF RunSpares
  <2> QED
    BY <1>1, <2>3, <2>4, <2>7, SparedStays
<1> QED
  BY <1>3, <1>4

\* Recipients left out of a payload are spared.
LEMMA ExcludedStep ==
    ASSUME OnceInv, HeldInv, CoverInv, SpareInv, [Next]_vars, faults' = 0,
           row' # "deleted", NEW j \in Job, Delivering(j)', NEW r \in Rcpt, r \notin to'[j]
    PROVE  Spared(r)'
<1>1. TypeInv /\ Unwritten /\ faults = 0 /\ row # "deleted"
  BY NoFault, NotInsertedStep DEF OnceInv, CoverInv
<1>2. CASE ~Delivering(j)
  <2>1. j \in Resend /\ ResendClaim(j) /\ row \in Resendable
    BY <1>1, <1>2, NoFault, DeliveringStep
  <2>2. OtherStep
    BY <2>1 DEF OtherStep, ResendRequest
  <2>3. Spared(r)
    BY <1>1, <2>1 DEF Resendable, SpareInv, Fruitless, TypeInv, TypeOK, MessageType,
       Statuses
  <2> QED
    BY <1>1, <2>2, <2>3, OtherFrame, SparedStays
<1>3. CASE Delivering(j) /\ to'[j] # to[j]
  <2>1. j \notin Resend
    BY <1>1, <1>3, ResendPayload, JobAssumption
       DEF Delivering, TypeInv, NotAdded, TypeOK, ActiveRun
  <2>2. api \in {"sender", "recipients"} /\ OtherStep
    BY <1>1, <1>3, <2>1, OrigPayload
       DEF Job, OnceInv, CheckRecipients, OtherStep, Send
  <2>3. Spared(r)
    BY <2>2 DEF SpareInv, Spared
  <2> QED
    BY <1>1, <2>2, <2>3, OtherFrame, SparedStays
<1>4. CASE Delivering(j) /\ to'[j] = to[j]
  <2>1. Spared(r)
    BY <1>1, <1>4 DEF SpareInv, RunSpares
  <2>2. mailed'[r] = mailed[r]
    <3>1. ASSUME NEW i \in Job, NEW q \in Rcpt, Accept(i, q) PROVE mailed'[r] = mailed[r]
      <4>1. Delivering(i) /\ q \in left[i] /\ pc[i] = "attempt"
        BY <3>1 DEF Accept, Delivering, Turn
      <4>2. i = j
        BY <1>1, <1>4, <4>1 DEF OnceInv, OneDelivery
      <4>3. q \in to[j]
        BY <4>1, <4>2 DEF HeldInv, HeldBack, InLoop
      <4> QED
        BY <1>1, <1>4, <3>1, <4>3 DEF Accept, TypeInv, TypeOK, HistoryType
    <3> QED
      BY <1>1, <3>1, MailStep
  <2> QED
    BY <1>1, <2>1, <2>2, SparedStays
<1> QED
  BY <1>2, <1>3, <1>4

\* The other conjuncts of RunSpares.
Visited(j) == /\ pc[j] \in InLoop =>
                    \A r \in to[j] \ left[j] : Spared(r) \/ deliveredCount[j] # 0
              /\ pc[j] \in InLoop \ {"loop"} \/ deliveredCount[j] # 0 => attempted[j] # 0
              /\ pc[j] = "publish" /\ ~TestingMode => deliveredCount[j] # 0
              /\ pc[j] \in {"caught", "bounce", "suppress"} =>
                    \A r \in Rcpt : Turn(j, r) => mailed[r] = 0

\* A step of a handler, or of another run, keeps them.
LEMMA VisitedApart ==
    ASSUME OnceInv, CoverInv, SpareInv, [Next]_vars, faults' = 0, row' # "deleted",
           NEW j \in Job, ~WorkerStep(j)
    PROVE  Visited(j)'
<1>1. TypeInv /\ Unwritten /\ faults = 0 /\ row # "deleted" /\ Visited(j)
  BY NoFault, NotInsertedStep DEF OnceInv, CoverInv, SpareInv, RunSpares, Visited
<1>2. /\ pc'[j] = pc[j] /\ left'[j] = left[j] /\ attempted'[j] = attempted[j]
      /\ deliveredCount'[j] = deliveredCount[j] /\ mode' = mode
  <2>1. CASE OtherStep
    BY <1>1, <2>1, OtherFrame, MailStep DEF runVars, countVars
  <2>2. ASSUME NEW i \in Job, WorkerStep(i), i # j
        PROVE  /\ pc'[j] = pc[j] /\ left'[j] = left[j] /\ attempted'[j] = attempted[j]
               /\ deliveredCount'[j] = deliveredCount[j] /\ mode' = mode
    BY <1>1, <2>2, WorkerApart, MailStep DEF Worker, OtherRun, SameRun
  <2> QED
    BY <1>1, <2>1, <2>2, NoFault
<1>3. CASE pc[j] \in InLoop
  <2>1. to'[j] = to[j]
    <3>1. CASE OtherStep
      BY <1>1, <1>3, <3>1, OtherPayload DEF InLoop, TypeInv, TypeOK, ActiveRun
    <3> QED
      BY <1>1, <3>1, WorkerPayload, StepKinds
  <2>2. mailed' = mailed
    <3>1. ASSUME NEW i \in Job, NEW r \in Rcpt, Accept(i, r), WorkerStep(i) PROVE FALSE
      BY <1>1, <1>3, <3>1, OneRun DEF Accept, InLoop
    <3> QED
      BY <1>1, <3>1, NoFault, OtherFrame, WorkerMails
  <2>3. \A r \in to[j] \ left[j] : Spared(r) => Spared(r)'
    BY <1>1, <2>2, SparedStays DEF TypeInv, TypeOK, QueueType
  <2>4. \A r \in to'[j] \ left'[j] : Spared(r)' \/ deliveredCount'[j] # 0
    BY <1>1, <1>2, <1>3, <2>1, <2>3 DEF Visited
  <2>5. pc'[j] \in {"caught", "bounce", "suppress"} =>
           \A r \in Rcpt : Turn(j, r)' => mailed'[r] = 0
    BY <1>1, <1>2, <2>2 DEF Visited, Turn
  <2> QED
    BY <1>1, <1>2, <2>4, <2>5 DEF Visited, TestingMode
<1>4. CASE pc[j] \notin InLoop
  BY <1>1, <1>2, <1>4 DEF Visited, TestingMode, InLoop
<1> QED
  BY <1>3, <1>4

\* The counters of a run in its loop: they only grow, an attempt or a delivery
\* has been counted as one, and in production a delivery before it is published.
LEMMA CountsStep ==
    ASSUME TypeInv, NEW j \in Job, NEW r \in Rcpt, ForRecipient(j, r), row # "deleted",
           pc[j] \in InLoop \ {"loop"} \/ deliveredCount[j] # 0 => attempted[j] # 0
    PROVE  /\ deliveredCount[j] # 0 => deliveredCount'[j] # 0
           /\ pc'[j] \in InLoop \ {"loop"} \/ deliveredCount'[j] # 0 => attempted'[j] # 0
           /\ pc'[j] = "publish" /\ ~TestingMode => deliveredCount'[j] # 0
           /\ SkipDelivered(j, r) => deliveredCount'[j] # 0
           /\ TestingMode /\ pc[j] = "publish" => deliveredCount'[j] # 0
<1> USE DEF InLoop, TypeInv, TypeOK, RunType, NoEffect, countVars, Goto, NextRecipient,
        Catch
<1>1. CASE SkipSuppressed(j, r) \/ SkipDelivered(j, r) \/ OpenLog(j, r)
  BY <1>1 DEF SkipSuppressed, SkipDelivered, CountServed, OpenLog
<1>2. CASE Simulate(j, r) \/ RefuseSender(j, r) \/ Accept(j, r) \/ Reject(j, r)
  BY <1>2 DEF Simulate, RefuseSender, Accept, Reject, SkipDelivered, CountServed
<1>3. CASE LogDelivered(j, r)
  BY <1>3 DEF LogDelivered, RecordDelivery, CountDelivered, SkipDelivered, CountServed
<1>4. CASE PublishDelivered(j, r)
  BY <1>4 DEF PublishDelivered, CountDelivered, SkipDelivered, CountServed
<1>5. CASE LogFailure(j, r) \/ PublishBounced(j, r) \/ AutoSuppress(j, r)
  BY <1>5 DEF LogFailure, RecordFailure, PublishBounced, AutoSuppress, SkipDelivered,
     CountServed
<1> QED
  BY <1>1, <1>2, <1>3, <1>4, <1>5 DEF ForRecipient

\* A recipient the loop is done with was spared, or its delivery is counted.
LEMMA VisitStep ==
    ASSUME OnceInv, CoverInv, SpareInv, [Next]_vars, faults' = 0, row' # "deleted",
           NEW j \in Job, NEW r \in Rcpt, ForRecipient(j, r)
    PROVE  \/ left' = left
           \/ /\ left' = [left EXCEPT ![j] = @ \ {r}]
              /\ Spared(r)' \/ deliveredCount'[j] # 0
<1>1. TypeInv /\ Unwritten /\ faults = 0 /\ row # "deleted" /\ Visited(j)
  BY NoFault, NotInsertedStep DEF OnceInv, CoverInv, SpareInv, RunSpares, Visited
<1>2. CASE SkipSuppressed(j, r)
  <2>1. /\ left' = [left EXCEPT ![j] = @ \ {r}] /\ pc[j] = "loop"
        /\ WriteLog(j, r, "suppressed")
    BY <1>1, <1>2 DEF SkipSuppressed, NextRecipient
  <2>2. log'[<<j, Ordinal(j), r>>] = "suppressed" /\ Ordinal(j) \in Runs
    BY <1>1, <2>1, WriteLogRow, LogRowType
  <2>3. Ordinal(j)' = Ordinal(j) /\ r \notin left'[j]
    BY <1>1, <1>2, <2>1 DEF SkipSuppressed, WorkerUnchanged, queueVars, Ordinal, TypeInv,
       TypeOK, RunType
  <2> QED
    BY <2>1, <2>2, <2>3 DEF Spared, Final
<1>3. CASE SkipDelivered(j, r)
  BY <1>1, <1>3, CountsStep DEF SkipDelivered, CountServed, NextRecipient, Visited
<1>4. CASE PublishDelivered(j, r)
  <2>1. pc[j] = "publish" /\ left' = [left EXCEPT ![j] = @ \ {r}]
    BY <1>4 DEF PublishDelivered, NextRecipient
  <2>2. deliveredCount'[j] # 0
    BY <1>1, <2>1, CountsStep DEF Visited
  <2> QED
    BY <2>1, <2>2
<1>5. CASE PublishBounced(j, r) \/ AutoSuppress(j, r)
  <2>1. /\ pc[j] \in {"bounce", "suppress"} /\ Turn(j, r) /\ mailed' = mailed
        /\ left' = left \/ left' = [left EXCEPT ![j] = @ \ {r}]
    BY <1>5 DEF PublishBounced, AutoSuppress, NextRecipient, NoEffect
  <2>2. mailed[r] = 0
    BY <1>1, <2>1 DEF Visited
  <2> QED
    BY <2>1, <2>2 DEF Spared
<1>6. CASE ~(\/ SkipSuppressed(j, r) \/ SkipDelivered(j, r) \/ PublishDelivered(j, r)
             \/ PublishBounced(j, r) \/ AutoSuppress(j, r))
  BY <1>6 DEF ForRecipient, OpenLog, Simulate, RefuseSender, Accept, Reject,
     LogDelivered, RecordDelivery, LogFailure, RecordFailure
<1> QED
  BY <1>2, <1>3, <1>4, <1>5, <1>6

\* A recipient whose failure is handled was not mailed.
LEMMA CaughtStep ==
    ASSUME OnceInv, SpareInv, [Next]_vars, faults' = 0, row' # "deleted", NEW j \in Job,
           NEW r \in Rcpt, ForRecipient(j, r), pc'[j] \in {"caught", "bounce", "suppress"}
    PROVE  mailed'[r] = 0 /\ Turn(j, r) /\ left' = left
<1>1. TypeInv /\ faults = 0 /\ row # "deleted" /\ Visited(j) /\ FirstAttempt
  BY NoFault, NotInsertedStep DEF OnceInv, SpareInv, RunSpares, Visited
<1> USE DEF TypeInv, TypeOK, RunType, Goto, NextRecipient, Catch
<1>2. CASE SkipSuppressed(j, r) \/ SkipDelivered(j, r) \/ OpenLog(j, r)
  BY <1>1, <1>2 DEF SkipSuppressed, SkipDelivered, CountServed, OpenLog
<1>3. CASE Simulate(j, r) \/ LogDelivered(j, r) \/ PublishDelivered(j, r)
  BY <1>1, <1>3 DEF Simulate, LogDelivered, RecordDelivery, PublishDelivered
<1>4. CASE Accept(j, r)
  BY <1>1, <1>4 DEF Accept, Fault, HistoryType
<1>5. CASE RefuseSender(j, r) \/ Reject(j, r)
  BY <1>1, <1>5 DEF RefuseSender, Reject, FirstAttempt, NoEffect
<1>6. CASE LogFailure(j, r) \/ PublishBounced(j, r) \/ AutoSuppress(j, r)
  <2>1. /\ pc[j] \in {"caught", "bounce", "suppress"} /\ Turn(j, r) /\ mailed' = mailed
        /\ left' = left
    BY <1>1, <1>6 DEF LogFailure, RecordFailure, PublishBounced, AutoSuppress, NoEffect
  <2> QED
    BY <1>1, <2>1 DEF Visited
<1> QED
  BY <1>2, <1>3, <1>4, <1>5, <1>6 DEF ForRecipient

\* A step of the run itself keeps them.
LEMMA VisitedRun ==
    ASSUME OnceInv, CoverInv, SpareInv, [Next]_vars, faults' = 0, row' # "deleted",
           NEW j \in Job, WorkerStep(j)
    PROVE  Visited(j)'
<1>1. TypeInv /\ Unwritten /\ faults = 0 /\ row # "deleted" /\ Visited(j)
  BY NoFault, NotInsertedStep DEF OnceInv, CoverInv, SpareInv, RunSpares, Visited
<1>2. to' = to /\ mode' = mode
  BY <1>1, WorkerPayload, MailStep DEF Worker
<1>3. ASSUME NEW r \in Rcpt, ForRecipient(j, r) PROVE Visited(j)'
  <2>1. pc[j] \in InLoop /\ Turn(j, r)
    BY <1>3 DEF ForRecipient, SkipSuppressed, SkipDelivered, CountServed, OpenLog,
       Simulate, RefuseSender, Accept, Reject, LogDelivered, RecordDelivery,
       PublishDelivered, LogFailure, RecordFailure, PublishBounced, AutoSuppress, InLoop
  <2>2. \A q \in to[j] \ left[j] : Spared(q) => Spared(q)'
    <3>1. ASSUME NEW q \in to[j] \ left[j], Spared(q) PROVE Spared(q)'
      <4>1. q \in Rcpt
        BY <1>1 DEF TypeInv, TypeOK, QueueType
      <4>2. mailed'[q] = mailed[q]
        <5>1. ASSUME NEW s \in Rcpt, Accept(j, s) PROVE mailed'[q] = mailed[q]
          BY <1>1, <3>1, <4>1, <5>1 DEF Accept, Turn, TypeInv, TypeOK, HistoryType
        <5> QED
          BY <5>1, WorkerMails
      <4> QED
        BY <1>1, <3>1, <4>1, <4>2, SparedStays
    <3> QED
      BY <3>1
  <2>3. /\ deliveredCount[j] # 0 => deliveredCount'[j] # 0
        /\ pc'[j] \in InLoop \ {"loop"} \/ deliveredCount'[j] # 0 => attempted'[j] # 0
        /\ pc'[j] = "publish" /\ ~TestingMode => deliveredCount'[j] # 0
    BY <1>1, <1>3, CountsStep DEF Visited
  <2>4. \A q \in to[j] \ left[j] : Spared(q)' \/ deliveredCount'[j] # 0
    BY <1>1, <2>1, <2>2, <2>3 DEF Visited
  <2>5. \A q \in to'[j] \ left'[j] : Spared(q)' \/ deliveredCount'[j] # 0
    BY <1>1, <1>2, <1>3, <2>4, VisitStep DEF TypeInv, TypeOK, RunType
  <2>6. pc'[j] \in {"caught", "bounce", "suppress"} =>
           \A q \in Rcpt : Turn(j, q)' => mailed'[q] = 0
    <3> SUFFICES ASSUME pc'[j] \in {"caught", "bounce", "suppress"}, NEW q \in Rcpt,
                        Turn(j, q)'
                 PROVE  mailed'[q] = 0
      OBVIOUS
    <3>1. mailed'[r] = 0 /\ left' = left
      BY <1>3, CaughtStep
    <3>2. Turn(j, q)
      BY <3>1 DEF Turn
    <3>3. q = r
      BY <2>1, <3>2, TurnUnique
    <3> QED
      BY <3>1, <3>3
  <2> QED
    BY <1>2, <2>3, <2>5, <2>6 DEF Visited, TestingMode
<1>4. CASE ReadDelivered(j)
  BY <1>1, <1>2, <1>4 DEF ReadDelivered, Goto, Visited, countVars, TypeInv, TypeOK,
     RunType, TestingMode, InLoop
<1>5. CASE Pick(j) \/ CompleteJob(j) \/ FailAttempt(j)
  <2>1. pc'[j] \notin InLoop /\ (deliveredCount'[j] # 0 => attempted'[j] # 0)
    BY <1>1, <1>5 DEF Pick, CompleteJob, FailAttempt, Retry, EndRun, Visited, countVars,
       TypeInv, TypeOK, RunType, InLoop
  <2> QED
    BY <2>1 DEF Visited, InLoop
<1>6. CASE FetchRaw(j) \/ ReadDkim(j) \/ ReadSuppressions(j) \/ Finish(j) \/ Notify(j)
  <2>1. pc'[j] \notin InLoop /\ UNCHANGED countVars
    BY <1>1, <1>6 DEF FetchRaw, ReadDkim, ReadSuppressions, LoadSuppressions, Finish,
       Notify, Goto, TypeInv, TypeOK, RunType, InLoop
  <2> QED
    BY <1>1, <2>1 DEF Visited, InLoop, countVars
<1> QED
  BY <1>3, <1>4, <1>5, <1>6 DEF WorkerStep

\* Every step keeps SpareInv.
LEMMA SpareNext ==
    OnceInv /\ HeldInv /\ CoverInv /\ SpareInv /\ [Next]_vars => SpareInv'
<1> SUFFICES ASSUME OnceInv, HeldInv, CoverInv, SpareInv, [Next]_vars PROVE SpareInv'
  OBVIOUS
<1>1. api' \in {"sender", "recipients"} => \A r \in Rcpt : mailed'[r] = 0
  BY EarlyStep DEF SpareInv
<1>2. ASSUME faults' = 0, row' # "deleted"
      PROVE  /\ Fruitless' => \A r \in Rcpt : Spared(r)'
             /\ Fruitless' => \A j \in Job : ~Delivering(j)'
             /\ \A j \in Job : RunSpares(j)'
  <2>1. Fruitless' => (\A r \in Rcpt : Spared(r)') /\ \A j \in Job : ~Delivering(j)'
    BY <1>2, FruitlessStep
  <2>2. ASSUME NEW j \in Job PROVE RunSpares(j)'
    <3>1. Delivering(j)' => \A r \in Rcpt \ to'[j] : Spared(r)'
      BY <1>2, ExcludedStep
    <3>2. Visited(j)'
      BY <1>2, VisitedApart, VisitedRun
    <3> QED
      BY <3>1, <3>2 DEF RunSpares, Visited
  <2> QED
    BY <2>1, <2>2
<1> QED
  BY <1>1, <1>2 DEF SpareInv

\* While nothing breaks, a message shown as bounced or suppressed has reached
\* nobody but recipients that a later run skipped as suppressed, whatever the
\* servers answered and however often the message was resent.
THEOREM UndeliveredIsUnmailed == Spec => []UndeliveredMeansUnmailed
<1>1. Spec => [](OnceInv /\ HeldInv /\ CoverInv /\ SpareInv)
  BY OnceInit, OnceNext, HeldInit, HeldNext, CoverInit, CoverNext, SpareInit, SpareNext,
     PTL DEF Spec
<1>2. SpareInv => UndeliveredMeansUnmailed
  BY DEF SpareInv, Fruitless, Spared, UndeliveredMeansUnmailed
<1> QED
  BY <1>1, <1>2, PTL

-------------------------------------------------------------------------------
(***************************************************************************)
(* Each further copy is paid for by a fault. MayMail(j, r): job j may still*)
(* mail r, because no final row says that r was served, or because r is a  *)
(* recipient its loop will visit that its read of the logs has missed. One *)
(* job may when the message is sent; another gets to only by a fault, or   *)
(* by a resend, for which the job before must have ended as bounced: that  *)
(* verdict leaves a token which the resend's claim takes.                  *)
(***************************************************************************)
FinalDelivered(r) ==
    \E i \in Job, k \in Runs : log[<<i, k, r>>] = "delivered" /\ Final(i, k, r)

MayMail(j, r) ==
    /\ Delivering(j)
    /\ ~(pc[j] \in {"accepted", "publish"} /\ Turn(j, r))
    /\ row = "deleted" => pc[j] = "attempt" /\ Turn(j, r)
    /\ FinalDelivered(r) => pc[j] \in InLoop /\ r \in left[j] /\ r \notin alreadyDelivered[j]

Mailers(r) == {j \in Job : MayMail(j, r)}
Token(r) == IF row = "bounced" /\ ~FinalDelivered(r) THEN 1 ELSE 0

PublishLogged ==
    row # "deleted" =>
        \A j \in Job, r \in Rcpt :
            pc[j] = "publish" /\ Turn(j, r) => log[<<j, Ordinal(j), r>>] = "delivered"
TurnFresh ==
    \A j \in Job, r \in Rcpt : pc[j] = "attempt" /\ Turn(j, r) => r \notin alreadyDelivered[j]
Paid == \A r \in Rcpt : mailed[r] + Cardinality(Mailers(r)) + Token(r) <= 1 + faults

PaidInv == PublishLogged /\ TurnFresh /\ Paid

\* Sets of jobs are finite, and a step that concerns one job changes their size
\* by one at most.
LEMMA JobsFinite == \A S \in SUBSET Job : IsFiniteSet(S) /\ Cardinality(S) \in Nat
<1>1. IsFiniteSet(Job)
  <2>1. IsFiniteSet(Resend \cup {Orig})
    BY ResendAssumption, FS_AddElement
  <2>2. Job = Resend \cup {Orig}
    BY DEF Job
  <2> QED
    BY <2>1, <2>2
<1> QED
  BY <1>1, FS_Subset, FS_CardinalityType

\* No more jobs, ...
LEMMA FewerJobs ==
    ASSUME NEW S \in SUBSET Job, NEW T \in SUBSET Job, T \subseteq S
    PROVE  Cardinality(T) <= Cardinality(S)
BY JobsFinite, FS_Subset

\* ... one more at most, ...
LEMMA OneMoreJob ==
    ASSUME NEW S \in SUBSET Job, NEW T \in SUBSET Job, NEW j \in Job, T \subseteq S \cup {j}
    PROVE  Cardinality(T) <= Cardinality(S) + 1
<1>1. IsFiniteSet(S) /\ Cardinality(S) \in Nat
  BY JobsFinite
<1>2. Cardinality(S \cup {j}) <= Cardinality(S) + 1
  BY <1>1, FS_AddElement
<1>3. S \cup {j} \in SUBSET Job
  OBVIOUS
<1>4. Cardinality(T) <= Cardinality(S \cup {j})
  BY <1>3, FewerJobs
<1>5. Cardinality(T) \in Nat /\ Cardinality(S \cup {j}) \in Nat
  BY <1>3, JobsFinite
<1> QED
  BY <1>1, <1>2, <1>4, <1>5

\* ... or one less.
LEMMA OneJobLess ==
    ASSUME NEW S \in SUBSET Job, NEW T \in SUBSET Job, NEW j \in S, T \subseteq S \ {j}
    PROVE  Cardinality(T) <= Cardinality(S) - 1
<1>1. IsFiniteSet(S) /\ Cardinality(S) \in Nat
  BY JobsFinite
<1>2. Cardinality(S \ {j}) = Cardinality(S) - 1
  BY <1>1, FS_RemoveElement
<1>3. S \ {j} \in SUBSET Job
  OBVIOUS
<1> QED
  BY <1>2, <1>3, FewerJobs

\* A recipient for whom a final row says "delivered" stays one.
LEMMA FinalDeliveredStays ==
    ASSUME TypeInv, Unwritten, [Next]_vars, row' # "deleted", NEW r \in Rcpt,
           FinalDelivered(r)
    PROVE  FinalDelivered(r)'
<1>1. PICK i \in Job, k \in Runs : log[<<i, k, r>>] = "delivered" /\ Final(i, k, r)
  BY DEF FinalDelivered
<1>2. Final(i, k, r)' /\ log'[<<i, k, r>>] = log[<<i, k, r>>]
  BY <1>1, FinalStays
<1> QED
  BY <1>1, <1>2 DEF FinalDelivered

PaidRest == OnceInv /\ Unwritten /\ PublishLogged /\ TurnFresh

\* A job whose run does not move may mail r only if it might before.
LEMMA SameMailer ==
    ASSUME PaidRest, [Next]_vars, NEW j \in Job, NEW r \in Rcpt, MayMail(j, r)',
           Delivering(j), pc'[j] = pc[j], left'[j] = left[j],
           alreadyDelivered'[j] = alreadyDelivered[j]
    PROVE  MayMail(j, r)
<1>1. TypeInv /\ Unwritten /\ TurnFresh
  BY DEF PaidRest, OnceInv
<1>2. ~(pc[j] \in {"accepted", "publish"} /\ Turn(j, r))
  BY DEF MayMail, Turn
<1>3. CASE row' = "deleted"
  <2>1. pc[j] = "attempt" /\ Turn(j, r)
    BY <1>3 DEF MayMail, Turn
  <2>2. r \in left[j] /\ r \notin alreadyDelivered[j]
    BY <1>1, <2>1 DEF TurnFresh, Turn
  <2> QED
    BY <1>2, <2>1, <2>2 DEF MayMail, InLoop
<1>4. CASE row' # "deleted"
  <2>1. row # "deleted"
    BY <1>4, NotInsertedStep DEF PaidRest
  <2>2. FinalDelivered(r) => FinalDelivered(r)'
    BY <1>1, <1>4, FinalDeliveredStays
  <2>3. FinalDelivered(r) => pc[j] \in InLoop /\ r \in left[j] /\ r \notin alreadyDelivered[j]
    BY <2>2 DEF MayMail
  <2> QED
    BY <1>2, <2>1, <2>3 DEF MayMail
<1> QED
  BY <1>3, <1>4

\* A step of another job's run lets no job mail r that might not before.
LEMMA MailerApart ==
    ASSUME PaidRest, [Next]_vars, NEW i \in Job, Worker(i), NEW j \in Job, i # j,
           NEW r \in Rcpt, MayMail(j, r)'
    PROVE  MayMail(j, r)
<1>1. OtherRun(j) /\ UNCHANGED apiVars
  BY WorkerApart, WorkerRow DEF PaidRest, OnceInv
<1>2. Delivering(j)
  BY <1>1 DEF MayMail, Delivering, OtherRun, SameRun, apiVars
<1> QED
  BY <1>1, <1>2, SameMailer DEF OtherRun, SameRun

\* Nor does a step of a handler, but for a resend's claim of a bounced message.
LEMMA MailerOther ==
    ASSUME PaidRest, [Next]_vars, OtherStep, NEW j \in Job, NEW r \in Rcpt, MayMail(j, r)'
    PROVE  \/ MayMail(j, r)
           \/ j \in Resend /\ ResendClaim(j) /\ row \in Resendable /\ ~FinalDelivered(r)
<1>1. TypeInv /\ Unwritten
  BY DEF PaidRest, OnceInv
<1>2. UNCHANGED <<pc, left, alreadyDelivered>>
  BY OtherFrame DEF runVars, readVars
<1>3. CASE Delivering(j)
  BY <1>2, <1>3, SameMailer
<1>4. CASE ~Delivering(j)
  <2>1. j \in Resend /\ ResendClaim(j) /\ row \in Resendable
    BY <1>1, <1>4, DeliveringStep DEF MayMail
  <2>2. row' = "queued" /\ resend[j] = "claim"
    BY <2>1 DEF ResendClaim, Claim
  <2>3. pc[j] = "idle"
    BY <1>1, <2>1, <2>2 DEF TypeInv, NotAdded, TypeOK, ActiveRun
  <2>4. ~FinalDelivered(r)
    BY <1>1, <1>2, <2>2, <2>3, FinalDeliveredStays DEF MayMail, InLoop
  <2> QED
    BY <2>1, <2>4
<1> QED
  BY <1>3, <1>4

\* A run that has served a recipient records it and is done with it.
LEMMA ServedStep ==
    ASSUME TypeInv, NEW j \in Job, WorkerStep(j), NEW r \in Rcpt, Turn(j, r),
           pc[j] \in {"accepted", "publish"}
    PROVE  \/ pc'[j] = "publish" /\ left' = left
           \/ pc[j] = "publish" /\ log' = log /\ r \notin left'[j] /\ UNCHANGED queueVars
<1>1. ASSUME NEW q \in Rcpt, ForRecipient(j, q)
      PROVE  Turn(j, q) /\ (LogDelivered(j, q) \/ PublishDelivered(j, q))
  BY <1>1 DEF ForRecipient, SkipSuppressed, SkipDelivered, CountServed, OpenLog,
     Simulate, RefuseSender, Accept, Reject, LogDelivered, RecordDelivery,
     PublishDelivered, LogFailure, RecordFailure, PublishBounced, AutoSuppress
<1>2. jobState[j] = "pending" \/ \E q \in Rcpt : ForRecipient(j, q)
  BY DEF WorkerStep, Pick, FetchRaw, ReadDkim, ReadSuppressions,
     LoadSuppressions, ReadDelivered, Finish, Notify, CompleteJob, FailAttempt,
     Retry
<1>3. PICK q \in Rcpt : Turn(j, q) /\ (LogDelivered(j, q) \/ PublishDelivered(j, q))
  BY <1>1, <1>2 DEF TypeInv, TypeOK, ActiveRun
<1>4. q = r
  BY <1>3, TurnUnique
<1>5. CASE LogDelivered(j, r)
  BY <1>5 DEF LogDelivered, RecordDelivery, Goto, TypeInv, TypeOK, RunType
<1>6. CASE PublishDelivered(j, r)
  BY <1>6 DEF PublishDelivered, NextRecipient, NoEffect, WorkerUnchanged, TypeInv,
     TypeOK, RunType
<1> QED
  BY <1>3, <1>4, <1>5, <1>6

\* Nor does a step of the run itself, unless something breaks.
LEMMA MailerRun ==
    ASSUME PaidRest, [Next]_vars, NEW j \in Job, WorkerStep(j), NEW r \in Rcpt,
           MayMail(j, r)'
    PROVE  MayMail(j, r)
<1>1. TypeInv /\ Unwritten /\ PublishLogged /\ UNCHANGED apiVars
  BY WorkerRow DEF PaidRest, OnceInv, Worker
<1>2. Delivering(j)
  <2>1. ASSUME j \in Resend, ResendClaim(j), row \in Resendable PROVE FALSE
    BY <1>1, <2>1
       DEF ResendClaim, Claim, ResendGoto, apiVars, TypeInv, TypeOK, HandlerType
  <2> QED
    BY <1>1, <2>1, DeliveringStep DEF MayMail
<1>3. row' # "deleted" /\ row # "deleted"
  <2>1. row # "deleted" => row' # "deleted"
    BY <1>1, WorkerRow DEF Worker, Finish, UpdateStatus, Verdict
  <2>2. ASSUME row = "deleted", row' = "deleted" PROVE FALSE
    <3>1. pc'[j] = "attempt"
      BY <2>2 DEF MayMail
    <3>2. ~ReadDelivered(j)
      BY <1>1, <3>1 DEF ReadDelivered, Goto, TypeInv, TypeOK, RunType
    <3>3. LoopStep(j)
      BY <1>1, <3>1, <3>2, WorkerLoop DEF InLoop
    <3> QED
      BY <2>2, <3>1, <3>3 DEF LoopStep
  <2> QED
    BY <2>1, <2>2, NotInsertedStep DEF PaidRest
<1>4. FinalDelivered(r) => FinalDelivered(r)'
  BY <1>1, <1>3, FinalDeliveredStays
<1>5. FinalDelivered(r) => pc[j] \in InLoop /\ r \in left[j] /\ r \notin alreadyDelivered[j]
  <2> SUFFICES ASSUME FinalDelivered(r)
               PROVE  pc[j] \in InLoop /\ r \in left[j] /\ r \notin alreadyDelivered[j]
    OBVIOUS
  <2>1. pc'[j] \in InLoop /\ r \in left'[j] /\ r \notin alreadyDelivered'[j]
    BY <1>4 DEF MayMail
  <2>2. r \in LoggedDelivered
    BY DEF FinalDelivered, LoggedDelivered, Logged
  <2>3. ~ReadDelivered(j)
    BY <1>1, <2>1, <2>2 DEF ReadDelivered, TypeInv, TypeOK, RunType
  <2> QED
    BY <1>1, <2>1, <2>3, WorkerLoop DEF LoopStep
<1>6. ~(pc[j] \in {"accepted", "publish"} /\ Turn(j, r))
  <2> SUFFICES ASSUME pc[j] \in {"accepted", "publish"}, Turn(j, r) PROVE FALSE
    OBVIOUS
  <2>1. CASE pc'[j] = "publish" /\ left' = left
    BY <2>1 DEF MayMail, Turn
  <2>2. CASE pc[j] = "publish" /\ log' = log /\ r \notin left'[j] /\ UNCHANGED queueVars
    <3>1. log'[<<j, Ordinal(j), r>>] = "delivered" /\ Ordinal(j) \in Runs
      BY <1>1, <1>3, <2>2, LogRowType DEF PublishLogged
    <3>2. Ordinal(j)' = Ordinal(j)
      BY <2>2 DEF queueVars, Ordinal
    <3>3. FinalDelivered(r)'
      BY <2>2, <3>1, <3>2 DEF FinalDelivered, Final
    <3> QED
      BY <2>2, <3>3 DEF MayMail
  <2> QED
    BY <1>1, <2>1, <2>2, ServedStep
<1> QED
  BY <1>2, <1>3, <1>5, <1>6 DEF MayMail

\* Every step keeps TurnFresh.
LEMMA TurnFreshStep ==
    ASSUME PaidRest, [Next]_vars
    PROVE  TurnFresh'
<1>1. TypeInv /\ TurnFresh
  BY DEF PaidRest, OnceInv
<1> SUFFICES ASSUME NEW j \in Job, NEW r \in Rcpt, pc'[j] = "attempt", Turn(j, r)'
             PROVE  r \notin alreadyDelivered'[j]
  BY DEF TurnFresh
<1>2. CASE pc'[j] = pc[j] /\ left'[j] = left[j] /\ alreadyDelivered'[j] = alreadyDelivered[j]
  BY <1>1, <1>2 DEF TurnFresh, Turn
<1>3. CASE OtherStep
  BY <1>2, <1>3, OtherFrame DEF runVars, readVars
<1>4. ASSUME NEW i \in Job, Worker(i), i # j PROVE r \notin alreadyDelivered'[j]
  BY <1>1, <1>2, <1>4, WorkerApart DEF OtherRun, SameRun
<1>5. CASE Worker(j)
  <2>1. WorkerStep(j)
    BY <1>1, <1>5 DEF Worker, Crash, EndRun, Throw, ThrowInTry, Goto, Catch, TypeInv,
       TypeOK, RunType
  <2>2. ~ReadDelivered(j)
    BY <1>1 DEF ReadDelivered, Goto, TypeInv, TypeOK, RunType
  <2>3. LoopStep(j)
    BY <1>1, <2>1, <2>2, WorkerLoop DEF InLoop
  <2> QED
    BY <2>3 DEF LoopStep, Turn
<1> QED
  BY <1>3, <1>4, <1>5, StepKinds

\* Every step keeps PublishLogged.
LEMMA PublishLoggedStep ==
    ASSUME PaidRest, [Next]_vars
    PROVE  PublishLogged'
<1>1. TypeInv /\ PublishLogged
  BY DEF PaidRest, OnceInv
<1> SUFFICES ASSUME row' # "deleted", NEW j \in Job, NEW r \in Rcpt, pc'[j] = "publish",
                    Turn(j, r)'
             PROVE  log'[<<j, Ordinal(j)', r>>] = "delivered"
  BY DEF PublishLogged
<1>2. row # "deleted"
  BY NotInsertedStep DEF PaidRest
<1>3. CASE OtherStep
  <2>1. pc'[j] = pc[j] /\ left' = left /\ Ordinal(j)' = Ordinal(j)
    BY <1>3, OtherFrame DEF runVars, Ordinal
  <2> QED
    BY <1>1, <1>2, <1>3, <2>1, OtherLog DEF PublishLogged, Turn
<1>4. ASSUME NEW i \in Job, Worker(i), i # j
      PROVE  log'[<<j, Ordinal(j)', r>>] = "delivered"
  <2>1. pc'[j] = pc[j] /\ left'[j] = left[j] /\ Ordinal(j)' = Ordinal(j)
    BY <1>1, <1>4, WorkerApart DEF OtherRun, SameRun, Ordinal
  <2>2. log[<<j, Ordinal(j), r>>] = "delivered" /\ Ordinal(j) \in Runs
    BY <1>1, <1>2, <2>1, LogRowType DEF PublishLogged, Turn
  <2> QED
    BY <1>1, <1>4, <2>1, <2>2, WorkerWrites
<1>5. CASE Worker(j)
  <2>1. WorkerStep(j)
    BY <1>1, <1>5 DEF Worker, Crash, EndRun, Throw, ThrowInTry, Goto, Catch, TypeInv,
       TypeOK, RunType
  <2>2. ~ReadDelivered(j)
    BY <1>1 DEF ReadDelivered, Goto, TypeInv, TypeOK, RunType
  <2>3. pc[j] = "accepted" /\ left'[j] = left[j]
    BY <1>1, <2>1, <2>2, WorkerLoop DEF InLoop, LoopStep
  <2>4. WriteLog(j, r, "delivered")
    BY <1>1, <2>1, <2>3, AcceptedStep DEF Turn
  <2>5. Ordinal(j)' = Ordinal(j)
    BY <1>1, <1>5, OrdinalStep
  <2> QED
    BY <1>1, <1>2, <2>3, <2>4, <2>5, WriteLogRow
<1> QED
  BY <1>3, <1>4, <1>5, StepKinds

\* The token of a recipient only appears when a job ends as bounced that might
\* have mailed it.
LEMMA TokenStep ==
    ASSUME PaidRest, [Next]_vars, NEW r \in Rcpt, Token(r)' > Token(r)
    PROVE  \E j \in Job : Finish(j) /\ MayMail(j, r) /\ ~MayMail(j, r)'
<1>1. TypeInv /\ Unwritten
  BY DEF PaidRest, OnceInv
<1>2. row' = "bounced" /\ ~FinalDelivered(r)'
  BY DEF Token
<1>3. ~FinalDelivered(r) /\ row # "bounced"
  BY <1>1, <1>2, FinalDeliveredStays DEF Token
<1>4. PICK j \in Job : Finish(j) /\ Delivering(j) /\ ~Delivering(j)'
  <2>1. OtherStep \/ \E j \in Job : WorkerStep(j)
    <3>1. ASSUME NEW j \in Job, Crash(j) \/ Throw(j) \/ ThrowInTry(j) PROVE FALSE
      BY <1>2, <1>3, <3>1, FaultFrame
    <3> QED
      BY <3>1, StepKinds DEF Worker
  <2> QED
    BY <1>1, <1>2, <1>3, <2>1, BouncedStep DEF Resendable
<1>5. row # "deleted" /\ pc[j] = "loop"
  BY <1>2, <1>4 DEF Finish, UpdateStatus
<1> QED
  BY <1>3, <1>4, <1>5 DEF MayMail

\* What a step does to the jobs that may mail r, in numbers.
LEMMA PaidStep ==
    ASSUME PaidRest, [Next]_vars, NEW r \in Rcpt,
           mailed[r] + Cardinality(Mailers(r)) + Token(r) <= 1 + faults
    PROVE  mailed'[r] + Cardinality(Mailers(r)') + Token(r)' <= 1 + faults'
<1>1. TypeInv /\ Unwritten /\ TurnFresh
  BY DEF PaidRest, OnceInv
<1>2. PICK S \in SUBSET Job : S = Mailers(r)
  BY DEF Mailers
<1>3. PICK T \in SUBSET Job : T = Mailers(r)'
  BY DEF Mailers
<1>4. \A j \in Job : (j \in S <=> MayMail(j, r)) /\ (j \in T <=> MayMail(j, r)')
  BY <1>2, <1>3 DEF Mailers
<1>5. PICK t \in {0, 1} : t = Token(r)
  BY DEF Token
<1>6. PICK u \in {0, 1} : u = Token(r)'
  BY DEF Token
<1>7. /\ Cardinality(S) \in Nat /\ Cardinality(T) \in Nat
      /\ mailed[r] \in Nat /\ faults \in Nat /\ mailed \in [Rcpt -> Nat]
      /\ mailed[r] + Cardinality(S) + t <= 1 + faults
  BY <1>1, <1>2, <1>5, JobsFinite, FaultAssumption DEF TypeInv, TypeOK, HistoryType
<1>8. faults' = faults \/ faults' = faults + 1
  BY FaultCount DEF Fault
<1> SUFFICES mailed'[r] + Cardinality(T) + u <= 1 + faults'
  BY <1>3, <1>6
<1>9. u > t => \E j \in Job : Finish(j) /\ j \in S /\ j \notin T
  BY <1>4, <1>5, <1>6, TokenStep
<1>10. CASE OtherStep
  <2>1. mailed' = mailed
    BY <1>10, OtherFrame
  <2>2. CASE \E q \in Resend : ResendClaim(q) /\ row \in Resendable
    <3>1. PICK q \in Resend : ResendClaim(q) /\ row \in Resendable
      BY <2>2
    <3>2. /\ row = "bounced" /\ row' = "queued" /\ q \in Job
          /\ \A p \in Resend : ResendClaim(p) => p = q
      BY <1>1, <3>1 DEF ResendClaim, Claim, ResendGoto, Resendable, TypeInv, TypeOK,
         MessageType, Statuses, HandlerType, Job
    <3>3. u = 0
      BY <1>6, <3>2 DEF Token
    <3>4. CASE FinalDelivered(r)
      <4>1. T \subseteq S
        BY <1>4, <1>10, <3>4, MailerOther
      <4> QED
        BY <1>5, <1>7, <1>8, <2>1, <3>3, <4>1, FewerJobs
    <3>5. CASE ~FinalDelivered(r)
      <4>1. t = 1
        BY <1>5, <3>2, <3>5 DEF Token
      <4>2. T \subseteq S \cup {q}
        BY <1>4, <1>10, <3>2, MailerOther
      <4>3. Cardinality(T) <= Cardinality(S) + 1
        BY <3>2, <4>2, OneMoreJob
      <4> QED
        BY <1>7, <1>8, <2>1, <3>3, <4>1, <4>3
    <3> QED
      BY <3>4, <3>5
  <2>3. CASE ~\E q \in Resend : ResendClaim(q) /\ row \in Resendable
    <3>1. T \subseteq S
      BY <1>4, <1>10, <2>3, MailerOther
    <3>2. UNCHANGED pc
      BY <1>10, OtherFrame DEF runVars
    <3>3. ~(u > t)
      BY <1>1, <1>9, <3>2 DEF Finish, Goto, TypeInv, TypeOK, RunType
    <3> QED
      BY <1>5, <1>6, <1>7, <1>8, <2>1, <3>1, <3>3, FewerJobs
  <2> QED
    BY <2>2, <2>3
<1>11. ASSUME NEW j \in Job, Crash(j) \/ Throw(j) \/ ThrowInTry(j)
       PROVE  mailed'[r] + Cardinality(T) + u <= 1 + faults'
  <2>1. faults' = faults + 1 /\ mailed' = mailed
    BY <1>11, FaultFrame DEF Crash, Throw, ThrowInTry, Fault
  <2>2. T \subseteq S \cup {j}
    BY <1>4, <1>11, MailerApart DEF Worker
  <2>3. Cardinality(T) <= Cardinality(S) + 1
    BY <2>2, OneMoreJob
  <2>4. u <= t
    <3>1. row' = row
      BY <1>11, FaultFrame
    <3> QED
      BY <1>1, <1>5, <1>6, <3>1, FinalDeliveredStays DEF Token
  <2> QED
    BY <1>7, <2>1, <2>3, <2>4
<1>12. ASSUME NEW j \in Job, WorkerStep(j)
       PROVE  mailed'[r] + Cardinality(T) + u <= 1 + faults'
  <2>1. T \subseteq S
    BY <1>4, <1>12, MailerApart, MailerRun DEF Worker
  <2>2. CASE Accept(j, r)
    <3>1. mailed'[r] = mailed[r] + 1 /\ pc[j] = "attempt" /\ Turn(j, r) /\ row' = row
      BY <1>7, <2>2 DEF Accept
    <3>2. j \in S
      BY <1>1, <1>4, <3>1 DEF MayMail, Delivering, TurnFresh, InLoop, Turn
    <3>3. u <= t
      BY <1>1, <1>5, <1>6, <3>1, FinalDeliveredStays DEF Token
    <3>4. CASE faults' = faults + 1
      BY <1>7, <2>1, <3>1, <3>3, <3>4, FewerJobs
    <3>5. CASE faults' # faults + 1
      <4>1. pc'[j] = "accepted" /\ left' = left
        BY <1>1, <2>2, <3>5 DEF Accept, Fault, Goto, TypeInv, TypeOK, RunType
      <4>2. j \notin T
        BY <1>4, <3>1, <4>1 DEF MayMail, Turn
      <4>3. Cardinality(T) <= Cardinality(S) - 1
        BY <2>1, <3>2, <4>2, OneJobLess
      <4> QED
        BY <1>7, <1>8, <3>1, <3>3, <3>5, <4>3
    <3> QED
      BY <3>4, <3>5
  <2>3. CASE ~Accept(j, r)
    <3>1. mailed'[r] = mailed[r]
      BY <1>7, <1>12, <2>3, WorkerMails DEF Accept
    <3>2. CASE u <= t
      BY <1>7, <1>8, <2>1, <3>1, <3>2, FewerJobs
    <3>3. CASE u > t
      <4>1. PICK i \in Job : i \in S /\ i \notin T
        BY <1>9, <3>3
      <4>2. Cardinality(T) <= Cardinality(S) - 1
        BY <2>1, <4>1, OneJobLess
      <4> QED
        BY <1>5, <1>6, <1>7, <1>8, <3>1, <4>2
    <3> QED
      BY <1>5, <1>6, <3>2, <3>3
  <2> QED
    BY <2>2, <2>3
<1> QED
  BY <1>10, <1>11, <1>12, StepKinds DEF Worker

\* When the message is about to be sent, only its own job may mail it.
LEMMA PaidInit == Init => PaidInv
<1> SUFFICES ASSUME Init PROVE PaidInv
  OBVIOUS
<1>1. PublishLogged /\ TurnFresh
  BY DEF Init, PublishLogged, TurnFresh
<1>2. ASSUME NEW r \in Rcpt
      PROVE  mailed[r] + Cardinality(Mailers(r)) + Token(r) <= 1 + faults
  <2>1. Mailers(r) \subseteq {Orig}
    BY DEF Init, Mailers, MayMail, Delivering, Job
  <2>2. {} \in SUBSET Job /\ Orig \in Job /\ Mailers(r) \in SUBSET Job
    BY DEF Job, Mailers
  <2>3. Cardinality(Mailers(r)) <= Cardinality({}) + 1
    BY <2>1, <2>2, OneMoreJob
  <2>4. Cardinality({}) = 0 /\ Cardinality(Mailers(r)) \in Nat
    BY <2>2, JobsFinite, FS_EmptySet
  <2>5. mailed[r] = 0 /\ Token(r) = 0 /\ faults = 0
    BY DEF Init, Token
  <2> QED
    BY <2>3, <2>4, <2>5
<1> QED
  BY <1>1, <1>2 DEF PaidInv, Paid

\* Every step keeps PaidInv.
LEMMA PaidNext == OnceInv /\ CoverInv /\ PaidInv /\ [Next]_vars => PaidInv'
<1> SUFFICES ASSUME OnceInv, CoverInv, PaidInv, [Next]_vars PROVE PaidInv'
  OBVIOUS
<1>1. PaidRest
  BY DEF PaidRest, CoverInv, PaidInv
<1>2. Paid'
  BY <1>1, PaidStep DEF PaidInv, Paid
<1> QED
  BY <1>1, <1>2, TurnFreshStep, PublishLoggedStep DEF PaidInv

\* Whatever breaks, each copy a recipient gets beyond the first is paid for by a
\* fault of its own: a lost reply, a database or Redis error, a crash.
THEOREM DuplicatesArePaid == Spec => []DuplicatesNeedFaults
<1>1. Spec => [](OnceInv /\ CoverInv /\ PaidInv)
  BY OnceInit, OnceNext, CoverInit, CoverNext, PaidInit, PaidNext, PTL DEF Spec
<1>2. OnceInv /\ PaidInv => DuplicatesNeedFaults
  <2> SUFFICES ASSUME OnceInv, PaidInv, NEW r \in Rcpt PROVE mailed[r] <= 1 + faults
    BY DEF DuplicatesNeedFaults
  <2>1. PICK S \in SUBSET Job : S = Mailers(r)
    BY DEF Mailers
  <2>2. PICK t \in {0, 1} : t = Token(r)
    BY DEF Token
  <2>3. Cardinality(S) \in Nat /\ mailed[r] \in Nat /\ faults \in Nat
    BY JobsFinite, FaultAssumption DEF OnceInv, TypeInv, TypeOK, HistoryType
  <2>4. mailed[r] + Cardinality(S) + t <= 1 + faults
    BY <2>1, <2>2 DEF PaidInv, Paid
  <2> QED
    BY <2>3, <2>4
<1> QED
  BY <1>1, <1>2, PTL
===============================================================================
