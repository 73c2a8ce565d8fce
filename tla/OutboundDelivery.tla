--------------------------- MODULE OutboundDelivery ---------------------------
(***************************************************************************)
(* One outbound message of MailPocket, from the API handler that accepts   *)
(* it to the last attempt of its delivery job.                             *)
(*                                                                         *)
(*   API handlers   send (routes/send.ts), forward, cancel, resend and     *)
(*                  delete (routes/messages.ts), each a process with one   *)
(*                  step per awaited call                                  *)
(*   queue          the BullMQ jobs of the message: the one the send adds  *)
(*                  and one per accepted resend                            *)
(*   worker         processOutboundEmail (workers/src/outbound.ts): one    *)
(*                  run per active job, one step per awaited call          *)
(*   environment    the recipients' mail servers, the account's suppression*)
(*                  list and verified domain, and infrastructure faults    *)
(*                                                                         *)
(* A recipient is its position in the message's recipient list, which is   *)
(* the order in which the worker's loop visits them.                       *)
(***************************************************************************)
EXTENDS Naturals, FiniteSets

CONSTANTS
    N,            \* recipients of the message
    Orig,         \* id of the job added by the send handler (jobId: messageId)
    Resend,       \* the resend requests, each the id of the job it would add
    MaxAttempts,  \* BullMQ "attempts" of the outbound queue (5 in the code)
    MaxStalls,    \* BullMQ maxStalledCount (its default is 1)
    FaultKinds,   \* infrastructure faults of this instance, see Kinds
    MaxFaults,    \* bound on the number of faults
    Modes,        \* values of APP_MODE this instance is deployed with
    UserActions   \* which of "cancel", "delete", "cleanup", "suppress",
                  \* "unsuppress", "domain" the environment performs

Rcpt == 1 .. N
Job  == {Orig} \cup Resend
Kinds == {"storage", "db", "redis", "crash", "ack"}

ASSUME NAssumption      == N \in Nat \ {0}
ASSUME JobAssumption    == Orig \notin Resend
ASSUME ResendAssumption == IsFiniteSet(Resend)
ASSUME QueueAssumption  == MaxAttempts \in Nat \ {0} /\ MaxStalls \in Nat
ASSUME FaultAssumption  == FaultKinds \subseteq Kinds /\ MaxFaults \in Nat
ASSUME ModeAssumption   == Modes \subseteq {"testing", "production"}

VARIABLES
    row,         \* messages.status, "none" before the insert, "deleted" after
    stored,      \* the raw .eml is in object storage
    log,         \* delivery_logs: status of the row a run wrote for a recipient
    \* BullMQ's view of each job
    jobState, attemptsMade, stalledCount,
    to,          \* the recipients in the job's payload
    \* local variables of processOutboundEmail for each active job
    pc,          \* the call it is about to make, see Points
    left,        \* recipients the loop has not finished with
    suppressedNow, alreadyDelivered, attempted, deliveredCount, dkim,
    err,         \* what the try block threw
    suppressed,  \* the account's suppression list
    verified,    \* the sender domain is a verified domain of the account
    mode,        \* APP_MODE: in "testing" no mail leaves the worker
    strict,      \* requireVerifiedSender: FALSE for server-originated mail
    scheduled,   \* the send carried a sendAt
    api,         \* program counter of the send handler
    cancel,      \* program counter of the cancel handler
    resend,      \* program counter of each resend request
    remover,     \* program counter of delete handler or cleanup worker
    mailed,      \* history: messages the recipient's server accepted
    held,        \* history: addresses on the suppression list ever since the
                 \* current run of the job was picked up
    faults       \* history: infrastructure faults so far

rowVars   == <<row, stored>>
queueVars == <<jobState, attemptsMade, stalledCount, to>>
readVars  == <<suppressedNow, alreadyDelivered, dkim>>
countVars == <<attempted, deliveredCount>>
runVars   == <<pc, left, readVars, countVars, err>>
envVars   == <<suppressed, verified>>
apiVars   == <<mode, strict, scheduled, api, cancel, resend, remover>>
vars == <<rowVars, log, queueVars, runVars, envVars, apiVars, mailed, held,
          faults>>

Statuses == {"queued", "scheduled", "delivered", "bounced", "suppressed",
             "cancelled"}
LogStatuses == {"sending", "delivered", "deferred", "bounced", "suppressed"}
JobStates == {"absent", "pending", "active", "completed", "failed", "removed"}

(***************************************************************************)
(* A run of the job writes at most one log row per recipient, so a row is  *)
(* named by the job, the ordinal of the run and the recipient.             *)
(***************************************************************************)
Runs == 1 .. (MaxAttempts + MaxStalls)
RowIds == Job \X Runs \X Rcpt

(***************************************************************************)
(* Program points of processOutboundEmail, named for the call made there:  *)
(* the .eml, the DKIM domain, the suppression list and the delivered logs  *)
(* are read; "loop" is the top of the recipient loop (or the final status  *)
(* update once no recipient is left); "caught" is the catch block.         *)
(***************************************************************************)
Points == {"idle", "fetch", "dkim", "suppressions", "delivered", "loop",
           "attempt", "accepted", "publish", "caught", "bounce", "suppress",
           "notify", "complete", "failing"}
Errors == {"none", "temp", "perm", "reject"}

Init ==
    /\ row = "none"
    /\ stored = FALSE
    /\ log = [id \in RowIds |-> "none"]
    /\ jobState = [j \in Job |-> "absent"]
    /\ attemptsMade = [j \in Job |-> 0]
    /\ stalledCount = [j \in Job |-> 0]
    /\ to = [j \in Job |-> {}]
    /\ pc = [j \in Job |-> "idle"]
    /\ left = [j \in Job |-> {}]
    /\ suppressedNow = [j \in Job |-> {}]
    /\ alreadyDelivered = [j \in Job |-> {}]
    /\ attempted = [j \in Job |-> 0]
    /\ deliveredCount = [j \in Job |-> 0]
    /\ dkim = [j \in Job |-> FALSE]
    /\ err = [j \in Job |-> "none"]
    /\ suppressed \in SUBSET Rcpt
    /\ verified \in BOOLEAN
    /\ mode \in Modes
    /\ strict \in BOOLEAN
    /\ (~strict) => N = 1          \* a forward has one recipient
    /\ scheduled \in BOOLEAN
    /\ scheduled => strict         \* only the send API takes a sendAt
    /\ api = "sender"
    /\ cancel = "idle"
    /\ resend = [q \in Resend |-> "idle"]
    /\ remover = "idle"
    /\ mailed = [r \in Rcpt |-> 0]
    /\ held = [j \in Job |-> {}]
    /\ faults = 0

Fault(kind) ==
    /\ kind \in FaultKinds
    /\ faults < MaxFaults
    /\ faults' = faults + 1

TestingMode == mode = "testing"

\* UPDATE messages SET status = s WHERE id = messageId
UpdateStatus(s) ==
    row' = IF row \in {"none", "deleted"} THEN row ELSE s

-------------------------------------------------------------------------------
(***************************************************************************)
(* The queue: what BullMQ does with the jobs. A job that waits and one     *)
(* that is delayed (a sendAt or a retry's backoff) are both "pending".     *)
(***************************************************************************)
AddJob(j) == /\ jobState' = [jobState EXCEPT ![j] = "pending"]
             /\ UNCHANGED <<attemptsMade, stalledCount, to>>

\* The payload a handler builds before it adds the job.
SetPayload(j, S) == /\ to' = [to EXCEPT ![j] = S]
                    /\ UNCHANGED <<jobState, attemptsMade, stalledCount>>

\* A worker picks the job up and enters processOutboundEmail.
Pick(j) ==
    /\ jobState[j] = "pending"
    /\ jobState' = [jobState EXCEPT ![j] = "active"]
    /\ pc' = [pc EXCEPT ![j] = "fetch"]
    /\ held' = [held EXCEPT ![j] = suppressed]
    /\ UNCHANGED <<attemptsMade, stalledCount, to, left, readVars, countVars, err,
                   rowVars, log, envVars, apiVars, mailed, faults>>

\* The run is over: its local variables are gone.
EndRun(j) ==
    /\ pc' = [pc EXCEPT ![j] = "idle"]
    /\ left' = [left EXCEPT ![j] = {}]
    /\ suppressedNow' = [suppressedNow EXCEPT ![j] = {}]
    /\ alreadyDelivered' = [alreadyDelivered EXCEPT ![j] = {}]
    /\ attempted' = [attempted EXCEPT ![j] = 0]
    /\ deliveredCount' = [deliveredCount EXCEPT ![j] = 0]
    /\ dkim' = [dkim EXCEPT ![j] = FALSE]
    /\ err' = [err EXCEPT ![j] = "none"]
    /\ held' = [held EXCEPT ![j] = {}]
    /\ UNCHANGED <<to, rowVars, log, envVars, apiVars, mailed>>

\* The processor returned.
CompleteJob(j) ==
    /\ pc[j] = "complete"
    /\ jobState' = [jobState EXCEPT ![j] = "completed"]
    /\ EndRun(j)
    /\ UNCHANGED <<attemptsMade, stalledCount, faults>>

Retry(j, made, again) ==
    /\ pc[j] = "failing"
    /\ attemptsMade' = [attemptsMade EXCEPT ![j] = made]
    /\ jobState' = [jobState EXCEPT ![j] = IF again THEN "pending" ELSE "failed"]
    /\ EndRun(j)
    /\ UNCHANGED <<stalledCount, faults>>

\* Mutants: one attempt too many; a retry that does not count.
FailAttemptOnceMore(j) ==
    Retry(j, attemptsMade[j] + 1, attemptsMade[j] < MaxAttempts)
FailAttemptUncounted(j) == Retry(j, attemptsMade[j], TRUE)

\* The processor threw: BullMQ retries until "attempts" are used up.
FailAttempt(j) ==
    Retry(j, attemptsMade[j] + 1, attemptsMade[j] + 1 < MaxAttempts)

\* The worker process dies; its jobs are found stalled and run again, which
\* does not count as an attempt, or failed once they stalled too often.
Crash(j) ==
    /\ pc[j] # "idle"
    /\ Fault("crash")
    /\ IF stalledCount[j] < MaxStalls
       THEN /\ stalledCount' = [stalledCount EXCEPT ![j] = @ + 1]
            /\ jobState' = [jobState EXCEPT ![j] = "pending"]
       ELSE /\ jobState' = [jobState EXCEPT ![j] = "failed"]
            /\ UNCHANGED stalledCount
    /\ EndRun(j)
    /\ UNCHANGED attemptsMade

-------------------------------------------------------------------------------
(***************************************************************************)
(* processOutboundEmail                                                    *)
(***************************************************************************)
Goto(j, point) == pc' = [pc EXCEPT ![j] = point]

\* What every step of the worker's code leaves alone, and what the steps leave
\* alone that only read or compute.
WorkerUnchanged == UNCHANGED <<queueVars, verified, apiVars, held, stored>>
NoEffect == /\ UNCHANGED <<row, log, suppressed, mailed, faults>>
            /\ WorkerUnchanged

FetchRaw(j) ==
    /\ pc[j] = "fetch"
    /\ Goto(j, IF stored THEN "dkim" ELSE "failing")
    /\ UNCHANGED <<left, readVars, countVars, err>>
    /\ NoEffect

ReadDkim(j) ==
    /\ pc[j] = "dkim"
    /\ Goto(j, "suppressions")
    /\ dkim' = [dkim EXCEPT ![j] = verified]
    /\ UNCHANGED <<left, suppressedNow, alreadyDelivered, countVars, err>>
    /\ NoEffect

LoadSuppressions(j, S) ==
    /\ pc[j] = "suppressions"
    /\ Goto(j, "delivered")
    /\ suppressedNow' = [suppressedNow EXCEPT ![j] = S \cap to[j]]
    /\ UNCHANGED <<left, alreadyDelivered, dkim, countVars, err>>
    /\ NoEffect

\* Mutant: the suppression list is only checked on the first attempt.
ReadSuppressionsOnce(j) ==
    LoadSuppressions(j, IF attemptsMade[j] = 0 THEN suppressed ELSE {})

ReadSuppressions(j) == LoadSuppressions(j, suppressed)

Logged(status) ==
    {r \in Rcpt : \E j \in Job, k \in Runs : log[<<j, k, r>>] = status}

\* Mutant: the retry looks for rows still marked as being sent.
LoggedSending == Logged("sending")

LoggedDelivered == Logged("delivered")

ReadDelivered(j) ==
    /\ pc[j] = "delivered"
    /\ Goto(j, "loop")
    /\ left' = [left EXCEPT ![j] = to[j]]
    /\ alreadyDelivered' = [alreadyDelivered EXCEPT ![j] = LoggedDelivered]
    /\ UNCHANGED <<suppressedNow, dkim, countVars, err>>
    /\ NoEffect

\* r is the recipient the loop of job j is at.
Turn(j, r) == r \in left[j] /\ \A q \in left[j] : r <= q

\* The loop goes on with the next recipient.
NextRecipient(j, r) == Goto(j, "loop") /\ left' = [left EXCEPT ![j] = @ \ {r}]

\* The row of delivery_logs that this run writes for r.
LogRow(j, r) == <<j, attemptsMade[j] + stalledCount[j] + 1, r>>

\* INSERT fails on the foreign key once the message row is deleted, and an
\* UPDATE of a row deleted with its message changes nothing.
WriteLog(j, r, s) ==
    log' = IF row = "deleted" THEN log ELSE [log EXCEPT ![LogRow(j, r)] = s]

SkipSuppressed(j, r) ==
    /\ pc[j] = "loop" /\ Turn(j, r)
    /\ r \in suppressedNow[j]
    /\ WriteLog(j, r, "suppressed")
    /\ IF row = "deleted" THEN Goto(j, "failing") /\ UNCHANGED left
                          ELSE NextRecipient(j, r)
    /\ UNCHANGED <<readVars, countVars, err, row, suppressed, mailed, faults>>
    /\ WorkerUnchanged

CountServed(j, r, n) ==
    /\ pc[j] = "loop" /\ Turn(j, r)
    /\ r \in alreadyDelivered[j] \ suppressedNow[j]
    /\ NextRecipient(j, r)
    /\ attempted' = [attempted EXCEPT ![j] = @ + 1]
    /\ deliveredCount' = [deliveredCount EXCEPT ![j] = @ + n]
    /\ UNCHANGED <<readVars, err>>
    /\ NoEffect

\* Mutant: a recipient served by an earlier run is not counted as delivered.
SkipDeliveredUncounted(j, r) == CountServed(j, r, 0)

SkipDelivered(j, r) == CountServed(j, r, 1)

OpenLog(j, r) ==
    /\ pc[j] = "loop" /\ Turn(j, r)
    /\ r \notin suppressedNow[j] \cup alreadyDelivered[j]
    /\ WriteLog(j, r, "sending")
    /\ attempted' = [attempted EXCEPT ![j] = @ + 1]
    /\ Goto(j, IF row = "deleted" THEN "failing" ELSE "attempt")
    /\ UNCHANGED <<left, readVars, deliveredCount, err, row, suppressed, mailed,
                   faults>>
    /\ WorkerUnchanged

Catch(j, e) == Goto(j, "caught") /\ err' = [err EXCEPT ![j] = e]

\* Testing mode: the delivery is simulated.
Simulate(j, r) ==
    /\ pc[j] = "attempt" /\ Turn(j, r)
    /\ TestingMode
    /\ Goto(j, "accepted")
    /\ UNCHANGED <<left, readVars, countVars, err>>
    /\ NoEffect

\* requireVerifiedSender of the payload: a resend always sets it.
NeedsDomain(j) == strict \/ j # Orig

\* A user-chosen sender whose domain is not verified any more: a 550.
RefuseSender(j, r) ==
    /\ pc[j] = "attempt" /\ Turn(j, r)
    /\ ~TestingMode /\ NeedsDomain(j) /\ ~dkim[j]
    /\ Catch(j, "perm")
    /\ UNCHANGED <<left, readVars, countVars>>
    /\ NoEffect

MaySend(j) == ~TestingMode /\ (NeedsDomain(j) => dkim[j])

\* The recipient's server accepts the message ...
Accept(j, r) ==
    /\ pc[j] = "attempt" /\ Turn(j, r)
    /\ MaySend(j)
    /\ mailed' = [mailed EXCEPT ![r] = @ + 1]
    /\ \/ Goto(j, "accepted") /\ UNCHANGED <<err, faults>>
       \/ Catch(j, "temp") /\ Fault("ack")    \* ... and its reply is lost
    /\ UNCHANGED <<left, readVars, countVars, row, log, suppressed>>
    /\ WorkerUnchanged

\* It answers 4xx or cannot be reached, answers 5xx, or 5.1.x "no such user".
Reject(j, r) ==
    /\ pc[j] = "attempt" /\ Turn(j, r)
    /\ MaySend(j)
    /\ \E e \in {"temp", "perm", "reject"} : Catch(j, e)
    /\ UNCHANGED <<left, readVars, countVars>>
    /\ NoEffect

\* deliveredCount++ comes before the webhook is published, in testing mode
\* after it.
CountDelivered(j, here) ==
    deliveredCount' = IF here THEN [deliveredCount EXCEPT ![j] = @ + 1]
                              ELSE deliveredCount

RecordDelivery(j, r, logging) ==
    /\ pc[j] = "accepted" /\ Turn(j, r)
    /\ IF logging THEN WriteLog(j, r, "delivered") ELSE UNCHANGED log
    /\ Goto(j, "publish")
    /\ CountDelivered(j, ~TestingMode)
    /\ UNCHANGED <<left, readVars, attempted, err, row, suppressed, mailed, faults>>
    /\ WorkerUnchanged

\* Mutant: the simulated delivery of testing mode is not logged.
LogDeliveredUnsimulated(j, r) == RecordDelivery(j, r, ~TestingMode)

LogDelivered(j, r) == RecordDelivery(j, r, TRUE)

PublishDelivered(j, r) ==
    /\ pc[j] = "publish" /\ Turn(j, r)
    /\ NextRecipient(j, r)
    /\ CountDelivered(j, TestingMode)
    /\ UNCHANGED <<readVars, attempted, err>>
    /\ NoEffect

RecordFailure(j, r, next) ==
    /\ pc[j] = "caught" /\ Turn(j, r)
    /\ WriteLog(j, r, IF err[j] = "temp" THEN "deferred" ELSE "bounced")
    /\ Goto(j, next)
    /\ UNCHANGED <<left, readVars, countVars, err, row, suppressed, mailed, faults>>
    /\ WorkerUnchanged

\* Mutant: a temporary error is logged and the loop goes on.
LogFailureSwallowed(j, r) == RecordFailure(j, r, "bounce")

\* The catch block: a temporary error ends the run, a permanent one goes on.
LogFailure(j, r) ==
    RecordFailure(j, r, IF err[j] = "temp" THEN "failing" ELSE "bounce")

PublishBounced(j, r) ==
    /\ pc[j] = "bounce" /\ Turn(j, r)
    /\ IF err[j] = "reject" THEN Goto(j, "suppress") /\ UNCHANGED left
                            ELSE NextRecipient(j, r)
    /\ UNCHANGED <<readVars, countVars, err>>
    /\ NoEffect

\* Best effort: a failure to insert the suppression is only logged.
AutoSuppress(j, r) ==
    /\ pc[j] = "suppress" /\ Turn(j, r)
    /\ \/ suppressed' = suppressed \cup {r} /\ UNCHANGED faults
       \/ Fault("db") /\ UNCHANGED suppressed
    /\ NextRecipient(j, r)
    /\ UNCHANGED <<readVars, countVars, err, row, log, mailed>>
    /\ WorkerUnchanged

\* Mutant: any attempt makes the message "delivered".
VerdictOptimistic(j) ==
    IF attempted[j] = 0 THEN "suppressed" ELSE "delivered"

Verdict(j) ==
    IF attempted[j] = 0 THEN "suppressed"
    ELSE IF deliveredCount[j] > 0 THEN "delivered" ELSE "bounced"

Finish(j) ==
    /\ pc[j] = "loop" /\ left[j] = {}
    /\ UpdateStatus(Verdict(j))
    /\ Goto(j, "notify")
    /\ UNCHANGED <<left, readVars, countVars, err, log, suppressed, mailed, faults>>
    /\ WorkerUnchanged

Notify(j) ==
    /\ pc[j] = "notify"
    /\ Goto(j, "complete")
    /\ UNCHANGED <<left, readVars, countVars, err>>
    /\ NoEffect

\* A call outside the try block throws: the attempt fails. At the top of the
\* loop no call is made for a recipient already delivered to.
CallsAt(point) ==
    CASE point = "fetch"  -> {"storage"}
      [] point \in {"dkim", "suppressions", "delivered", "loop", "caught"} -> {"db"}
      [] point = "bounce" -> {"redis"}
      [] point = "notify" -> {"db", "redis"}
      [] OTHER -> {}

NoCall(j) ==
    /\ pc[j] = "loop"
    /\ \E r \in alreadyDelivered[j] \ suppressedNow[j] : Turn(j, r)

Throw(j) ==
    /\ ~NoCall(j)
    /\ \E kind \in CallsAt(pc[j]) : Fault(kind)
    /\ Goto(j, "failing")
    /\ UNCHANGED <<left, readVars, countVars, err, row, log, suppressed, mailed>>
    /\ WorkerUnchanged

\* A call of the try block throws after the recipient was served: the catch
\* block cannot tell it from an SMTP error. extractSmtpCode takes any three
\* digits of its message for a reply code, and 421 when there are none.
ThrowInTry(j) ==
    /\ \/ pc[j] = "accepted" /\ Fault("db")
       \/ pc[j] = "publish"  /\ Fault("redis")
    /\ \E e \in {"temp", "perm"} : Catch(j, e)
    /\ UNCHANGED <<left, readVars, countVars, row, log, suppressed, mailed>>
    /\ WorkerUnchanged

ForRecipient(j, r) ==
    \/ SkipSuppressed(j, r) \/ SkipDelivered(j, r) \/ OpenLog(j, r)
    \/ Simulate(j, r) \/ RefuseSender(j, r) \/ Accept(j, r) \/ Reject(j, r)
    \/ LogDelivered(j, r) \/ PublishDelivered(j, r)
    \/ LogFailure(j, r) \/ PublishBounced(j, r) \/ AutoSuppress(j, r)

\* What the worker's code and BullMQ do with job j when nothing breaks.
WorkerStep(j) ==
    \/ Pick(j) \/ FetchRaw(j) \/ ReadDkim(j) \/ ReadSuppressions(j)
    \/ ReadDelivered(j) \/ Finish(j) \/ Notify(j)
    \/ CompleteJob(j) \/ FailAttempt(j)
    \/ \E r \in Rcpt : ForRecipient(j, r)

Worker(j) == WorkerStep(j) \/ Crash(j) \/ Throw(j) \/ ThrowInTry(j)

-------------------------------------------------------------------------------
(***************************************************************************)
(* POST /v1/messages (and forward, when ~strict). "refused" is a 4xx,      *)
(* "error" a 500.                                                          *)
(***************************************************************************)
ApiUnchanged ==
    UNCHANGED <<log, runVars, envVars, mode, strict, scheduled, mailed, held>>
SendUnchanged == ApiUnchanged /\ UNCHANGED <<cancel, resend, remover>>

CheckSender ==
    /\ api = "sender"
    /\ api' = IF strict /\ ~TestingMode /\ ~verified
              THEN "refused" ELSE "recipients"
    /\ UNCHANGED <<rowVars, queueVars, faults>>
    /\ SendUnchanged

\* Suppressed recipients are left out; with none left the send is refused.
CheckRecipients ==
    /\ api = "recipients"
    /\ SetPayload(Orig, Rcpt \ suppressed)
    /\ api' = IF Rcpt \subseteq suppressed THEN "refused" ELSE "quota"
    /\ UNCHANGED <<rowVars, faults>>
    /\ SendUnchanged

\* The quota itself is the subject of module AccountQuota.
CheckQuota ==
    /\ api = "quota"
    /\ api' \in {"put", "refused"}
    /\ UNCHANGED <<rowVars, queueVars, faults>>
    /\ SendUnchanged

PutRaw ==
    /\ api = "put"
    /\ stored' = TRUE
    /\ api' = "insert"
    /\ UNCHANGED <<row, queueVars, faults>>
    /\ SendUnchanged

InsertMessage ==
    /\ api = "insert"
    /\ row' = IF scheduled THEN "scheduled" ELSE "queued"
    /\ api' = "add"
    /\ UNCHANGED <<stored, queueVars, faults>>
    /\ SendUnchanged

EnqueueMessage ==
    /\ api = "add"
    /\ AddJob(Orig)
    /\ api' = "replied"
    /\ UNCHANGED <<rowVars, faults>>
    /\ SendUnchanged

SendThrows ==
    /\ \/ api \in {"sender", "recipients", "quota", "insert"} /\ Fault("db")
       \/ api = "put" /\ Fault("storage")
       \/ api = "add" /\ Fault("redis")
       \/ api \in {"put", "insert", "add"} /\ Fault("crash")
    /\ api' = "error"
    /\ UNCHANGED <<rowVars, queueVars>>
    /\ SendUnchanged

Send == \/ CheckSender \/ CheckRecipients \/ CheckQuota \/ PutRaw
        \/ InsertMessage \/ EnqueueMessage \/ SendThrows

-------------------------------------------------------------------------------
(***************************************************************************)
(* DELETE /api/messages/:id/schedule                                       *)
(***************************************************************************)
CancelRead ==
    /\ cancel = "idle" /\ "cancel" \in UserActions
    /\ row = "scheduled"           \* any other status is answered with a 400
    /\ cancel' = "remove"
    /\ UNCHANGED <<rowVars, queueVars, api, resend, remover, faults>>
    /\ ApiUnchanged

\* getJob and job.remove(): BullMQ refuses (409) only while a worker holds the
\* job's lock. A job waiting for a retry, or finished, is removed.
CancelRemove ==
    /\ cancel = "remove"
    /\ IF jobState[Orig] = "active"
       THEN cancel' = "idle" /\ UNCHANGED jobState
       ELSE /\ cancel' = "update"
            /\ jobState' = [jobState EXCEPT ![Orig] =
                               IF @ = "absent" THEN @ ELSE "removed"]
    /\ UNCHANGED <<rowVars, attemptsMade, stalledCount, to, api, resend, remover,
                   faults>>
    /\ ApiUnchanged

CancelUpdate ==
    /\ cancel = "update"
    /\ UpdateStatus("cancelled")
    /\ cancel' = "idle"
    /\ UNCHANGED <<stored, queueVars, api, resend, remover, faults>>
    /\ ApiUnchanged

CancelThrows ==
    /\ \/ cancel = "remove" /\ Fault("redis")
       \/ cancel = "update" /\ Fault("db")
    /\ cancel' = "idle"
    /\ UNCHANGED <<rowVars, queueVars, api, resend, remover>>
    /\ ApiUnchanged

Cancel == CancelRead \/ CancelRemove \/ CancelUpdate \/ CancelThrows

-------------------------------------------------------------------------------
(***************************************************************************)
(* POST /api/messages/:id/resend, each request q once                      *)
(***************************************************************************)
\* Mutant: a message still queued may be resent.
ResendableQueued == {"bounced", "failed", "queued"}

Resendable == {"bounced", "failed"}
ResendGoto(q, step) == resend' = [resend EXCEPT ![q] = step]
ResendUnchanged == ApiUnchanged /\ UNCHANGED <<api, cancel, remover>>

ResendRead(q) ==
    /\ resend[q] = "idle"
    /\ row \in Resendable
    /\ ResendGoto(q, "recipients")
    /\ UNCHANGED <<rowVars, queueVars, faults>>
    /\ ResendUnchanged

\* The recipients are those of the message row: the active ones of the send.
ResendRecipients(q) ==
    /\ resend[q] = "recipients"
    /\ SetPayload(q, to[Orig] \ suppressed)
    /\ ResendGoto(q, IF to[Orig] \subseteq suppressed THEN "done" ELSE "sender")
    /\ UNCHANGED <<rowVars, faults>>
    /\ ResendUnchanged

ResendSender(q) ==
    /\ resend[q] = "sender"
    /\ ResendGoto(q, IF ~TestingMode /\ ~verified THEN "done" ELSE "claim")
    /\ UNCHANGED <<rowVars, queueVars, faults>>
    /\ ResendUnchanged

Claim(q, allowed) ==
    /\ resend[q] = "claim"
    /\ IF allowed THEN row' = "queued" /\ ResendGoto(q, "add")
                  ELSE UNCHANGED row /\ ResendGoto(q, "done")
    /\ UNCHANGED <<stored, queueVars, faults>>
    /\ ResendUnchanged

\* Mutant: the status read before is trusted.
ResendClaimBlindly(q) == Claim(q, row # "deleted")

\* UPDATE ... SET status = 'queued' WHERE status IN ('bounced', 'failed')
ResendClaim(q) == Claim(q, row \in Resendable)

\* Mutant: the original job's id is used again, which BullMQ ignores.
ResendAddSameId(q) ==
    /\ resend[q] = "add"
    /\ ResendGoto(q, "done")
    /\ UNCHANGED <<rowVars, queueVars, faults>>
    /\ ResendUnchanged

ResendAdd(q) ==
    /\ resend[q] = "add"
    /\ AddJob(q)
    /\ ResendGoto(q, "done")
    /\ UNCHANGED <<rowVars, faults>>
    /\ ResendUnchanged

ResendThrows(q) ==
    /\ \/ resend[q] \in {"recipients", "sender", "claim"} /\ Fault("db")
       \/ resend[q] = "add" /\ Fault("redis")
       \/ resend[q] = "add" /\ Fault("crash")
    /\ ResendGoto(q, "done")
    /\ UNCHANGED <<rowVars, queueVars>>
    /\ ResendUnchanged

ResendRequest(q) ==
    \/ ResendRead(q) \/ ResendRecipients(q) \/ ResendSender(q)
    \/ ResendClaim(q) \/ ResendAdd(q) \/ ResendThrows(q)

-------------------------------------------------------------------------------
(***************************************************************************)
(* The message goes away: DELETE /api/messages/:id removes the row first,  *)
(* the cleanup worker the stored objects first. Delivery logs cascade.     *)
(***************************************************************************)
Present == row \notin {"none", "deleted"}
RemoverUnchanged ==
    UNCHANGED <<queueVars, runVars, envVars, mode, strict, scheduled, api, cancel, resend,
                mailed, held>>

DropRow == /\ row' = "deleted"
           /\ log' = [id \in RowIds |-> "none"]

DeleteRow ==
    /\ remover = "idle" /\ "delete" \in UserActions /\ Present
    /\ DropRow
    /\ remover' = "object"
    /\ UNCHANGED <<stored, faults>>
    /\ RemoverUnchanged

\* removeStored is best effort.
DeleteObject ==
    /\ remover = "object"
    /\ \/ stored' = FALSE /\ UNCHANGED faults
       \/ Fault("storage") /\ UNCHANGED stored
    /\ remover' = "done"
    /\ UNCHANGED <<row, log>>
    /\ RemoverUnchanged

CleanupObject ==
    /\ remover = "idle" /\ "cleanup" \in UserActions /\ Present
    /\ stored' = FALSE
    /\ remover' = "row"
    /\ UNCHANGED <<row, log, faults>>
    /\ RemoverUnchanged

CleanupRow ==
    /\ remover = "row"
    /\ \/ DropRow /\ remover' = "done" /\ UNCHANGED faults
       \/ Fault("db") /\ remover' = "idle" /\ UNCHANGED <<row, log>>
    /\ UNCHANGED stored
    /\ RemoverUnchanged

Remove == DeleteRow \/ DeleteObject \/ CleanupObject \/ CleanupRow

-------------------------------------------------------------------------------
EnvUnchanged == UNCHANGED <<rowVars, log, queueVars, runVars, apiVars, mailed, faults>>

\* POST /api/suppressions, or another message's hard bounce.
Suppress(r) ==
    /\ "suppress" \in UserActions
    /\ suppressed' = suppressed \cup {r}
    /\ UNCHANGED <<verified, held>>
    /\ EnvUnchanged

\* DELETE /api/suppressions/:id
Unsuppress(r) ==
    /\ "unsuppress" \in UserActions
    /\ suppressed' = suppressed \ {r}
    /\ held' = [j \in Job |-> held[j] \ {r}]
    /\ UNCHANGED verified
    /\ EnvUnchanged

\* The domain is verified, fails re-verification or is removed.
ChangeDomain ==
    /\ "domain" \in UserActions
    /\ verified' = ~verified
    /\ UNCHANGED <<suppressed, held>>
    /\ EnvUnchanged

Environment == ChangeDomain \/ \E r \in Rcpt : Suppress(r) \/ Unsuppress(r)

\* Nothing is left to do: every job and every request has come to an end.
Quiet ==
    /\ api \in {"replied", "refused", "error"}
    /\ cancel = "idle"
    /\ \A j \in Job : jobState[j] \notin {"pending", "active"}
    /\ UNCHANGED vars

Next ==
    \/ Send
    \/ Cancel
    \/ \E q \in Resend : ResendRequest(q)
    \/ \E j \in Job : Worker(j)
    \/ Remove
    \/ Environment
    \/ Quiet

(***************************************************************************)
(* The API handlers and the worker run on: node's event loop resumes every *)
(* settled await, a waiting job is picked up by a worker, and a mail server*)
(* that does not answer runs into the transport's timeouts. Users and      *)
(* faults are under no such obligation.                                    *)
(***************************************************************************)
Fairness ==
    /\ WF_vars(Send)
    /\ \A q \in Resend : WF_vars(resend[q] # "idle" /\ ResendRequest(q))
    /\ WF_vars(cancel # "idle" /\ Cancel)
    /\ \A j \in Job : WF_vars(WorkerStep(j))

Spec == Init /\ [][Next]_vars
FairSpec == Spec /\ Fairness

-------------------------------------------------------------------------------
MessageType ==
    /\ row \in Statuses \cup {"none", "deleted"}
    /\ stored \in BOOLEAN
    /\ log \in [RowIds -> LogStatuses \cup {"none"}]
QueueType ==
    /\ jobState \in [Job -> JobStates]
    /\ attemptsMade \in [Job -> 0 .. MaxAttempts]
    /\ stalledCount \in [Job -> 0 .. MaxStalls]
    /\ to \in [Job -> SUBSET Rcpt]
RunType ==
    /\ pc \in [Job -> Points]
    /\ left \in [Job -> SUBSET Rcpt]
    /\ suppressedNow \in [Job -> SUBSET Rcpt]
    /\ alreadyDelivered \in [Job -> SUBSET Rcpt]
    /\ attempted \in [Job -> Nat]
    /\ deliveredCount \in [Job -> Nat]
    /\ dkim \in [Job -> BOOLEAN]
    /\ err \in [Job -> Errors]
AccountType ==
    /\ suppressed \in SUBSET Rcpt
    /\ verified \in BOOLEAN
    /\ mode \in Modes
    /\ strict \in BOOLEAN
    /\ scheduled \in BOOLEAN
HandlerType ==
    /\ api \in {"sender", "recipients", "quota", "put", "insert", "add",
                "replied", "refused", "error"}
    /\ cancel \in {"idle", "remove", "update"}
    /\ resend \in [Resend -> {"idle", "recipients", "sender", "claim", "add",
                              "done"}]
    /\ remover \in {"idle", "object", "row", "done"}
HistoryType ==
    /\ mailed \in [Rcpt -> Nat]
    /\ held \in [Job -> SUBSET Rcpt]
    /\ faults \in 0 .. MaxFaults

\* A job has a run exactly while it is active, and attempts left until it has
\* completed, failed or been removed.
ActiveRun ==
    \A j \in Job : /\ pc[j] # "idle" <=> jobState[j] = "active"
                   /\ jobState[j] \in {"absent", "pending", "active"} =>
                         attemptsMade[j] < MaxAttempts

TypeOK ==
    /\ MessageType /\ QueueType /\ RunType /\ AccountType /\ HandlerType
    /\ HistoryType /\ ActiveRun

-------------------------------------------------------------------------------
(***************************************************************************)
(* Safety                                                                  *)
(***************************************************************************)
\* Job j may still change the message: its send or resend is about to add it,
\* it is waiting, or its run has not written the message's status yet.
Delivering(j) ==
    \/ j = Orig /\ api \notin {"replied", "refused", "error"}
    \/ j \in Resend /\ resend[j] = "add"
    \/ jobState[j] = "pending"
    \/ pc[j] \notin {"idle", "notify", "complete"}

\* As long as nothing breaks, at most one job at a time is delivering the
\* message, and none once it is "bounced": the status claim of the resend
\* handler keeps a resend apart from the original job and from other resends.
OneDelivery ==
    faults = 0 => /\ \A j, k \in Job : Delivering(j) /\ Delivering(k) => j = k
                  /\ row \in Resendable => \A j \in Job : ~Delivering(j)

\* As long as nothing breaks, no recipient is mailed twice, whatever the mail
\* servers answer, however often the job is retried or the message is resent,
\* and although deleting the message deletes the logs a retry relies on.
MailedAtMostOnce == faults = 0 => \A r \in Rcpt : mailed[r] <= 1

\* Each further copy a recipient gets is paid for by an infrastructure fault.
DuplicatesNeedFaults == \A r \in Rcpt : mailed[r] <= 1 + faults

\* "delivered" is never shown for a message no server accepted, even when the
\* catch block takes a database or Redis error for a bounce.
DeliveredMeansMailed ==
    row = "delivered" /\ ~TestingMode => \E r \in Rcpt : mailed[r] > 0

\* A message shown as bounced or suppressed reached nobody, except recipients
\* put on the suppression list between being served and a later run: those
\* are skipped as suppressed and no longer counted as delivered.
UndeliveredMeansUnmailed ==
    faults = 0 /\ row \in {"bounced", "suppressed"} =>
        \A r \in Rcpt : mailed[r] = 0
                       \/ \E j \in Job, k \in Runs : log[<<j, k, r>>] = "suppressed"

\* A finished job leaves a verdict for each of its recipients in the delivery
\* logs, whatever broke and however many runs it took.
CompletedCoversAll ==
    \A j \in Job : jobState[j] = "completed" /\ row # "deleted" =>
        \A r \in to[j] : \E i \in Job, k \in Runs :
            log[<<i, k, r>>] \in {"delivered", "bounced", "suppressed"}

\* The status agrees with the logs as long as nothing breaks: some recipient
\* of a "delivered" message is logged as delivered.
DeliveredMeansLogged ==
    faults = 0 /\ row = "delivered" => LoggedDelivered # {}

\* An address that has been on the suppression list ever since a worker picked
\* the job up is not mailed by that run, be it the first or a retry.
HeldNeverMailed ==
    [][\A r \in Rcpt : mailed'[r] # mailed[r] =>
          \E j \in Job : Turn(j, r) /\ pc'[j] # pc[j] /\ r \notin held[j]]_vars

\* What a user may rely on about a message: it is being delivered as long as
\* some job may still change it.
Lifecycle == INSTANCE MessageLifecycle WITH
    Recipients <- Rcpt, status <- row, copies <- mailed, simulated <- TestingMode,
    delivering <- \E j \in Job : Delivering(j), cancelling <- cancel = "update"

\* As long as nothing breaks, handlers, queue and worker together keep that
\* promise: one delivery at a time, one copy each, a final verdict that only a
\* cancel under way or a deletion replaces, and a resend of bounced mail only.
KeepsLifecycle == Lifecycle!LifeSpec

(***************************************************************************)
(* Liveness                                                                *)
(***************************************************************************)
\* A job that was added ends: retries and stalls are bounded, and no answer of
\* a mail server, deletion or change of the account keeps it going.
JobEnds ==
    \A j \in Job : jobState[j] = "pending" ~>
                      jobState[j] \in {"completed", "failed", "removed"}

\* A resend that was claimed is delivered, unless a fault hits: the claim never
\* leaves the message queued with no job, and its job ends.
ClaimedIsServed ==
    \A q \in Resend : resend[q] = "add" ~>
        faults > 0 \/ jobState[q] \in {"completed", "failed"}

(***************************************************************************)
(* What the repository says and the code does not do                       *)
(***************************************************************************)
\* outbound.ts: "A retry re-runs the whole recipient list; don't mail people
\* twice."
NoDoubleMail == \A r \in Rcpt : mailed[r] <= 1

\* messages.ts: "BullMQ refuses to remove a job a worker has already picked
\* up": a job that a cancel removed while its message is still scheduled, as the
\* cancel read it, would be one that has mailed nobody.
CancelledNeverMailed ==
    jobState[Orig] = "removed" /\ row = "scheduled" => \A r \in Rcpt : mailed[r] = 0

\* messageStatuses.ts: the list of statuses "mirrors what the API and workers
\* write to messages.status", with "failed" among them: a message whose
\* job has failed for good would not be shown as still in progress.
FailedIsReported ==
    \A j \in Job : jobState[j] = "failed" => row \notin {"queued", "scheduled"}
===============================================================================
