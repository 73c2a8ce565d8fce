----------------------------- MODULE InboundMail -----------------------------
(***************************************************************************)
(* One mail on its way into an inbox, and out of it again.                 *)
(*                                                                         *)
(*   client         the SMTP client, which sends the mail again after an   *)
(*                  error or a lost connection                             *)
(*   SMTP server    onData (apps/smtp/src/index.ts), one process per DATA  *)
(*                  session, with a step per awaited call                  *)
(*   worker         processIncomingEmail (workers/src/index.ts), one run   *)
(*                  per active job of the incoming queue                   *)
(*   users          read flags, deletion of messages and of the inbox      *)
(*   cleanup        processCleanup (workers/src/index.ts)                  *)
(*                                                                         *)
(* Every run of a job that gets as far as the INSERT writes a row of its   *)
(* own with attachments of its own, so a row and its attachments are named *)
(* by the session and the ordinal of the run; all rows of a session share  *)
(* the session's raw .eml.                                                 *)
(***************************************************************************)
EXTENDS Naturals, FiniteSets

CONSTANTS
    MaxSessions,  \* bound on the times the client sends the mail
    MaxAttempts,  \* BullMQ "attempts" of the incoming queue (3 in the code)
    MaxStalls,    \* BullMQ maxStalledCount (its default is 1)
    FaultKinds,   \* infrastructure faults of this instance, see Kinds
    MaxFaults     \* bound on the number of faults

Session == 1 .. MaxSessions
Runs    == 1 .. (MaxAttempts + MaxStalls)
RowId   == Session \X Runs
Kinds   == {"storage", "db", "redis", "reply", "server", "worker", "api"}

ASSUME QueueAssumption == /\ MaxSessions \in Nat /\ MaxStalls \in Nat
                          /\ MaxAttempts \in Nat \ {0}
ASSUME FaultAssumption == FaultKinds \subseteq Kinds /\ MaxFaults \in Nat

VARIABLES
    client,      \* what the client is doing with the mail
    known,       \* the session is authenticated for the inbox
    fits,        \* what the parser finds fits the columns of messages
    smtp,        \* the step each DATA session is at
    jobState, attemptsMade, stalledCount,   \* BullMQ's view of a session's job
    pc,          \* the call each run of processIncomingEmail is about to make
    raw,         \* sessions whose .eml is in object storage
    files,       \* rows whose attachments are in object storage
    row,         \* messages: state of each row
    inbox,       \* the inbox exists
    leftover,    \* deleted rows whose objects a delete handler still removes
    cleaner,     \* the step processCleanup is at
    batch,       \* rows it selected
    announced,   \* history: rows whose "received" event was published
    faults       \* history: infrastructure faults so far

smtpVars  == <<client, known, fits, smtp>>
queueVars == <<jobState, attemptsMade, stalledCount>>
workVars  == <<queueVars, pc, announced>>
storeVars == <<raw, files>>
rowVars   == <<row, inbox>>
cleanVars == <<cleaner, batch>>
vars == <<smtpVars, workVars, storeVars, rowVars, leftover, cleanVars, faults>>

Exists(id) == row[id] \in {"unread", "read"}
Present == {id \in RowId : Exists(id)}
ReadRows == {id \in RowId : row[id] = "read"}

Init ==
    /\ client = "ready"
    /\ inbox \in BOOLEAN
    /\ known \in BOOLEAN
    /\ known => inbox
    /\ fits \in BOOLEAN
    /\ smtp = [s \in Session |-> "idle"]
    /\ jobState = [s \in Session |-> "absent"]
    /\ attemptsMade = [s \in Session |-> 0]
    /\ stalledCount = [s \in Session |-> 0]
    /\ pc = [s \in Session |-> "idle"]
    /\ raw = {}
    /\ files = {}
    /\ row = [id \in RowId |-> "none"]
    /\ leftover = {}
    /\ cleaner = "idle"
    /\ batch = {}
    /\ announced = {}
    /\ faults = 0

Fault(kind) ==
    /\ kind \in FaultKinds
    /\ faults < MaxFaults
    /\ faults' = faults + 1

-------------------------------------------------------------------------------
(***************************************************************************)
(* The SMTP server. An error without a response code is answered with 450, *)
(* so the client tries again; 552 makes it give up. A call that fails may  *)
(* have had its effect all the same.                                       *)
(***************************************************************************)
Answer(s, outcome, reaction) ==
    /\ smtp' = [smtp EXCEPT ![s] = outcome]
    /\ client' = reaction
    /\ UNCHANGED <<known, fits>>

Step(s, point) ==
    /\ smtp' = [smtp EXCEPT ![s] = point]
    /\ UNCHANGED <<client, known, fits>>

ServerUnchanged == UNCHANGED <<files, rowVars, leftover, cleanVars, pc, announced,
                               attemptsMade, stalledCount>>

SendData(s) ==
    /\ client = "ready"
    /\ smtp[s] = "idle" /\ \A t \in Session : t < s => smtp[t] # "idle"
    /\ Answer(s, "put", "waiting")
    /\ UNCHANGED <<raw, jobState, faults>>
    /\ ServerUnchanged

TooLarge(s) ==
    /\ smtp[s] = "put"
    /\ Answer(s, "refused", "done")
    /\ UNCHANGED <<raw, jobState, faults>>
    /\ ServerUnchanged

PutRaw(s) ==
    /\ smtp[s] = "put"
    /\ \/ Step(s, "route") /\ raw' = raw \cup {s} /\ UNCHANGED faults
       \/ /\ Fault("storage")
          /\ Answer(s, "refused", "ready")
          /\ raw' \in {raw, raw \cup {s}}
    /\ UNCHANGED jobState
    /\ ServerUnchanged

\* The authenticated inbox or, in testing mode, the first one there is.
Route(s) ==
    /\ smtp[s] = "route"
    /\ \/ (known \/ inbox) /\ Step(s, "enqueue") /\ UNCHANGED faults
       \/ ~(known \/ inbox) /\ Answer(s, "refused", "ready") /\ UNCHANGED faults
       \/ ~known /\ Fault("db") /\ Answer(s, "refused", "ready")
    /\ UNCHANGED <<raw, jobState>>
    /\ ServerUnchanged

AddJob(s) == jobState' = [jobState EXCEPT ![s] = "pending"]

\* Mutant: the message is acknowledged whether or not its job was added.
EnqueueUnchecked(s) ==
    /\ smtp[s] = "enqueue"
    /\ \/ Answer(s, "accepted", "done") /\ AddJob(s) /\ UNCHANGED faults
       \/ Fault("redis") /\ Answer(s, "accepted", "done") /\ UNCHANGED jobState
    /\ UNCHANGED raw
    /\ ServerUnchanged

Enqueue(s) ==
    /\ smtp[s] = "enqueue"
    /\ \/ Answer(s, "accepted", "done") /\ AddJob(s) /\ UNCHANGED faults
       \/ Fault("reply") /\ Answer(s, "accepted", "ready") /\ AddJob(s)
       \/ /\ Fault("redis")
          /\ Answer(s, "refused", "ready")
          /\ AddJob(s) \/ UNCHANGED jobState
    /\ UNCHANGED raw
    /\ ServerUnchanged

\* The SMTP server dies, and with it the session.
ServerCrash(s) ==
    /\ smtp[s] \in {"put", "route", "enqueue"}
    /\ Fault("server")
    /\ Answer(s, "refused", "ready")
    /\ UNCHANGED <<raw, jobState>>
    /\ ServerUnchanged

Receive(s) == \/ TooLarge(s) \/ PutRaw(s) \/ Route(s) \/ Enqueue(s)

-------------------------------------------------------------------------------
(***************************************************************************)
(* The incoming queue and processIncomingEmail                             *)
(***************************************************************************)
WorkerUnchanged == UNCHANGED <<smtpVars, leftover, cleanVars, inbox>>
QueueUnchanged  == UNCHANGED queueVars
NoWrite         == UNCHANGED <<storeVars, row, announced>>

Goto(s, point) == pc' = [pc EXCEPT ![s] = point]

\* The row and the attachments of the run of session s that is active.
This(s) == <<s, attemptsMade[s] + stalledCount[s] + 1>>

Pick(s) ==
    /\ jobState[s] = "pending"
    /\ jobState' = [jobState EXCEPT ![s] = "active"]
    /\ Goto(s, "fetch")
    /\ UNCHANGED <<attemptsMade, stalledCount, faults>>
    /\ NoWrite /\ WorkerUnchanged

FetchRaw(s) ==
    /\ pc[s] = "fetch"
    /\ \/ Goto(s, IF s \in raw THEN "attach" ELSE "failing") /\ UNCHANGED faults
       \/ Fault("storage") /\ Goto(s, "failing")
    /\ NoWrite /\ QueueUnchanged /\ WorkerUnchanged

Attach(s) ==
    /\ pc[s] = "attach"
    /\ \/ /\ Goto(s, "insert") /\ UNCHANGED faults
          /\ files' = files \cup {This(s)}
       \/ /\ Fault("storage") /\ Goto(s, "failing")
          /\ files' \in {files, files \cup {This(s)}}
    /\ UNCHANGED <<raw, row, announced>>
    /\ QueueUnchanged /\ WorkerUnchanged

InsertRow(s) == row' = [row EXCEPT ![This(s)] = "unread"]

\* The INSERT fails on the foreign key once the inbox is deleted, and whenever
\* a subject or a sender is longer than its column.
Insert(s) ==
    /\ pc[s] = "insert"
    /\ \/ inbox /\ fits /\ Goto(s, "announce") /\ InsertRow(s) /\ UNCHANGED faults
       \/ ~(inbox /\ fits) /\ Goto(s, "failing") /\ UNCHANGED <<row, faults>>
       \/ /\ Fault("db") /\ Goto(s, "failing")
          /\ (inbox /\ fits /\ InsertRow(s)) \/ UNCHANGED row
    /\ UNCHANGED <<storeVars, announced>>
    /\ QueueUnchanged /\ WorkerUnchanged

\* publish("email:new")
Announce(s) ==
    /\ pc[s] = "announce"
    /\ \/ Goto(s, "fire") /\ UNCHANGED faults
       \/ Fault("redis") /\ Goto(s, "failing")
    /\ NoWrite /\ QueueUnchanged /\ WorkerUnchanged

PublishReceived(s) == announced' = announced \cup {This(s)}

\* Mutant: a failed publish is only logged.
FireAndForget(s) ==
    /\ pc[s] = "fire"
    /\ Goto(s, "complete")
    /\ \/ PublishReceived(s) /\ UNCHANGED faults
       \/ Fault("redis") /\ UNCHANGED announced
    /\ UNCHANGED <<storeVars, row>>
    /\ QueueUnchanged /\ WorkerUnchanged

\* Mutant: an event nobody listens to is an error.
FireHeard(s) ==
    /\ pc[s] = "fire"
    /\ \/ Goto(s, "complete") /\ PublishReceived(s)
       \/ Goto(s, "failing") /\ UNCHANGED announced
    /\ UNCHANGED <<storeVars, row, faults>>
    /\ QueueUnchanged /\ WorkerUnchanged

\* publish("webhook:fire")
Fire(s) ==
    /\ pc[s] = "fire"
    /\ \/ Goto(s, "complete") /\ PublishReceived(s) /\ UNCHANGED faults
       \/ /\ Fault("redis") /\ Goto(s, "failing")
          /\ PublishReceived(s) \/ UNCHANGED announced
    /\ UNCHANGED <<storeVars, row>>
    /\ QueueUnchanged /\ WorkerUnchanged

CompleteJob(s) ==
    /\ pc[s] = "complete"
    /\ jobState' = [jobState EXCEPT ![s] = "completed"]
    /\ Goto(s, "idle")
    /\ UNCHANGED <<attemptsMade, stalledCount, faults>>
    /\ NoWrite /\ WorkerUnchanged

\* Mutant: the job is not retried.
FailForGood(s) ==
    /\ pc[s] = "failing"
    /\ attemptsMade' = [attemptsMade EXCEPT ![s] = @ + 1]
    /\ jobState' = [jobState EXCEPT ![s] = "failed"]
    /\ Goto(s, "idle")
    /\ UNCHANGED <<stalledCount, faults>>
    /\ NoWrite /\ WorkerUnchanged

\* Mutant: one attempt too many.
FailAttemptLate(s) ==
    /\ pc[s] = "failing"
    /\ attemptsMade' = [attemptsMade EXCEPT ![s] = @ + 1]
    /\ jobState' = [jobState EXCEPT ![s] = IF attemptsMade[s] < MaxAttempts
                                           THEN "pending" ELSE "failed"]
    /\ Goto(s, "idle")
    /\ UNCHANGED <<stalledCount, faults>>
    /\ NoWrite /\ WorkerUnchanged

FailAttempt(s) ==
    /\ pc[s] = "failing"
    /\ attemptsMade' = [attemptsMade EXCEPT ![s] = @ + 1]
    /\ jobState' = [jobState EXCEPT ![s] = IF attemptsMade[s] + 1 < MaxAttempts
                                           THEN "pending" ELSE "failed"]
    /\ Goto(s, "idle")
    /\ UNCHANGED <<stalledCount, faults>>
    /\ NoWrite /\ WorkerUnchanged

Work(s) == \/ FetchRaw(s) \/ Attach(s) \/ Insert(s) \/ Announce(s) \/ Fire(s)
           \/ CompleteJob(s) \/ FailAttempt(s)

Active(s) == pc[s] # "idle"

\* The worker process dies with all its runs and with a cleanup under way; the
\* jobs are found stalled and run again, or failed once they stalled too often.
WorkerCrash ==
    /\ Fault("worker")
    /\ (\E s \in Session : Active(s)) \/ cleaner # "idle"
    /\ jobState' = [s \in Session |->
           IF ~Active(s) THEN jobState[s]
           ELSE IF stalledCount[s] < MaxStalls THEN "pending" ELSE "failed"]
    /\ stalledCount' = [s \in Session |->
           IF Active(s) /\ stalledCount[s] < MaxStalls
           THEN stalledCount[s] + 1 ELSE stalledCount[s]]
    /\ pc' = [s \in Session |-> "idle"]
    /\ cleaner' = "idle"
    /\ batch' = {}
    /\ UNCHANGED <<smtpVars, attemptsMade, storeVars, rowVars, leftover, announced>>

-------------------------------------------------------------------------------
(***************************************************************************)
(* Users. The three delete handlers take a message, a selection or all     *)
(* messages of the inbox; removeStored then removes their objects one row  *)
(* after the other and only logs what it cannot remove. Deleting the inbox *)
(* deletes its rows and leaves their objects.                              *)
(***************************************************************************)
UserUnchanged == UNCHANGED <<smtpVars, workVars, cleanVars>>

SetRead(id, flag) ==
    /\ Exists(id)
    /\ row' = [row EXCEPT ![id] = flag]
    /\ UNCHANGED <<inbox, storeVars, leftover, faults>>
    /\ UserUnchanged

Without(ids) == [id \in RowId |-> IF id \in ids /\ Exists(id) THEN "deleted"
                                                             ELSE row[id]]

\* Mutant: the objects of a selection are not removed.
DeleteRowsOnly(ids) ==
    /\ row' = Without(ids)
    /\ UNCHANGED <<inbox, leftover, storeVars, faults>>
    /\ UserUnchanged

DeleteRows(ids) ==
    /\ row' = Without(ids)
    /\ leftover' = leftover \cup ids
    /\ UNCHANGED <<inbox, storeVars, faults>>
    /\ UserUnchanged

RemoveStored(id) ==
    /\ id \in leftover
    /\ leftover' = leftover \ {id}
    /\ \/ raw' = raw \ {id[1]} /\ files' = files \ {id} /\ UNCHANGED faults
       \/ /\ Fault("storage")
          /\ raw' \in {raw, raw \ {id[1]}}
          /\ files' \in {files, files \ {id}}
    /\ UNCHANGED rowVars
    /\ UserUnchanged

ApiCrash ==
    /\ leftover # {}
    /\ Fault("api")
    /\ leftover' = {}
    /\ UNCHANGED <<rowVars, storeVars>>
    /\ UserUnchanged

DeleteInbox ==
    /\ inbox
    /\ inbox' = FALSE
    /\ row' = Without(RowId)
    /\ UNCHANGED <<storeVars, leftover, faults>>
    /\ UserUnchanged

Users ==
    \/ \E id \in RowId : SetRead(id, "read") \/ SetRead(id, "unread")
    \/ \E ids \in SUBSET Present \ {{}} : DeleteRows(ids)
    \/ \E id \in RowId : RemoveStored(id)
    \/ ApiCrash \/ DeleteInbox

-------------------------------------------------------------------------------
(***************************************************************************)
(* processCleanup: which of the read rows are old enough, and fit a batch, *)
(* is left open. A run that fails is tried again, and another follows      *)
(* every hour.                                                             *)
(***************************************************************************)
CleanUnchanged == UNCHANGED <<smtpVars, workVars, leftover, inbox>>

SelectOld(ids) ==
    /\ cleaner = "idle"
    /\ cleaner' = "objects"
    /\ batch' = ids
    /\ UNCHANGED <<row, storeVars, faults>>
    /\ CleanUnchanged

\* Mutant: removing an object that is already gone is an error.
RemoveObjectsStrict ==
    /\ cleaner = "objects"
    /\ \/ /\ \A id \in batch : id[1] \in raw
          /\ cleaner' = "rows" /\ UNCHANGED <<batch, faults>>
          /\ raw' = {s \in raw : \A id \in batch : id[1] # s}
          /\ files' = files \ batch
       \/ /\ Fault("storage") \/ (\E id \in batch : id[1] \notin raw /\ UNCHANGED faults)
          /\ cleaner' = "idle" /\ batch' = {}
          /\ \E done \in SUBSET batch :
                /\ raw' = {s \in raw : \A id \in done : id[1] # s}
                /\ files' = files \ done
    /\ UNCHANGED row
    /\ CleanUnchanged

RemoveObjects ==
    /\ cleaner = "objects"
    /\ \/ /\ cleaner' = "rows" /\ UNCHANGED <<batch, faults>>
          /\ raw' = {s \in raw : \A id \in batch : id[1] # s}
          /\ files' = files \ batch
       \/ /\ Fault("storage") /\ cleaner' = "idle" /\ batch' = {}
          /\ \E done \in SUBSET batch :
                /\ raw' = {s \in raw : \A id \in done : id[1] # s}
                /\ files' = files \ done
    /\ UNCHANGED row
    /\ CleanUnchanged

\* Mutant: rows that have been marked unread since are kept.
DeleteReadBatch ==
    /\ cleaner = "rows"
    /\ row' = Without({id \in batch : row[id] = "read"})
    /\ cleaner' = "idle"
    /\ batch' = {}
    /\ UNCHANGED <<storeVars, faults>>
    /\ CleanUnchanged

DeleteBatch ==
    /\ cleaner = "rows"
    /\ \/ row' = Without(batch) /\ UNCHANGED faults
       \/ Fault("db") /\ row' \in {row, Without(batch)}
    /\ cleaner' = "idle"
    /\ batch' = {}
    /\ UNCHANGED storeVars
    /\ CleanUnchanged

Clean == RemoveObjects \/ DeleteBatch

-------------------------------------------------------------------------------
\* Nothing more need happen: the mail has arrived or was refused for good.
Quiet ==
    /\ \A s \in Session : /\ smtp[s] \in {"idle", "accepted", "refused"}
                          /\ jobState[s] \notin {"pending", "active"}
    /\ UNCHANGED vars

Next ==
    \/ \E s \in Session : \/ SendData(s) \/ Receive(s) \/ ServerCrash(s)
                          \/ Pick(s) \/ Work(s)
    \/ WorkerCrash
    \/ Users
    \/ \E ids \in SUBSET ReadRows \ {{}} : SelectOld(ids)
    \/ Clean
    \/ Quiet

\* The server and the worker run on, and cleanup comes back to every row that
\* stays read: it runs every hour, and what it has deleted leaves its batch to
\* the next.
Fairness ==
    /\ \A s \in Session : WF_vars(Receive(s)) /\ WF_vars(Pick(s)) /\ WF_vars(Work(s))
    /\ WF_vars(Clean)
    /\ \A id \in RowId :
          SF_vars(\E ids \in SUBSET ReadRows : id \in ids /\ SelectOld(ids))

Spec == Init /\ [][Next]_vars
FairSpec == Spec /\ Fairness

-------------------------------------------------------------------------------
SmtpType ==
    /\ client \in {"ready", "waiting", "done"}
    /\ known \in BOOLEAN /\ fits \in BOOLEAN
    /\ smtp \in [Session -> {"idle", "put", "route", "enqueue", "accepted",
                             "refused"}]
QueueType ==
    /\ jobState \in [Session -> {"absent", "pending", "active", "completed",
                                 "failed"}]
    /\ attemptsMade \in [Session -> 0 .. MaxAttempts]
    /\ stalledCount \in [Session -> 0 .. MaxStalls]
    /\ pc \in [Session -> {"idle", "fetch", "attach", "insert", "announce", "fire",
                           "complete", "failing"}]
RowType ==
    /\ row \in [RowId -> {"none", "unread", "read", "deleted"}]
    /\ inbox \in BOOLEAN
    /\ raw \subseteq Session
    /\ files \subseteq RowId
    /\ leftover \subseteq RowId
    /\ cleaner \in {"idle", "objects", "rows"}
    /\ batch \subseteq RowId
HistoryType == announced \subseteq RowId /\ faults \in 0 .. MaxFaults

\* A job has a run exactly while it is active, and attempts left until it ends.
ActiveRun ==
    \A s \in Session : /\ Active(s) <=> jobState[s] = "active"
                       /\ jobState[s] \in {"absent", "pending", "active"} =>
                             attemptsMade[s] < MaxAttempts

TypeOK == SmtpType /\ QueueType /\ RowType /\ HistoryType /\ ActiveRun

-------------------------------------------------------------------------------
Saved(s) == \E k \in Runs : row[<<s, k>>] # "none"
Copies(s) == {k \in Runs : row[<<s, k>>] # "none"}

\* A session is saved once, and each further copy of it is paid for by a fault:
\* a retry inserts again only when a call after the INSERT, or its reply, failed
\* (workers/src/index.ts:105-153). The mail as a whole is saved once if nothing
\* breaks, however often its client tries.
CopiesNeedFaults ==
    /\ \A s \in Session : Cardinality(Copies(s)) <= 1 + faults
    /\ faults = 0 => \A s, t \in Session : Saved(s) /\ Saved(t) => s = t

\* A mail the server acknowledged is lost only when faults used up all its
\* attempts or stalls, its inbox is gone, or it does not fit the columns.
LossNeedsFaults ==
    \A s \in Session : smtp[s] = "accepted" /\ ~Saved(s) /\ inbox /\ fits =>
        \/ jobState[s] \in {"pending", "active"}
        \/ faults >= MaxAttempts \/ faults > MaxStalls

\* The same as progress: an acknowledged mail reaches the inbox.
AcceptedIsSaved ==
    \A s \in Session : smtp[s] = "accepted" ~>
        Saved(s) \/ jobState[s] = "failed"

\* Every finished job has announced a row it saved, whatever broke on the way:
\* an event is at most repeated, never skipped (workers/src/index.ts:134-153).
CompletedIsAnnounced ==
    \A s \in Session : jobState[s] = "completed" =>
        \E k \in Runs : <<s, k>> \in announced /\ row[<<s, k>>] # "none"

\* As long as nothing breaks, a message in an inbox has its .eml and attachments,
\* but for the moment between the two steps of a cleanup that deletes it.
RowHasObjects ==
    faults = 0 => \A id \in RowId : Exists(id) =>
        (id[1] \in raw /\ id \in files) \/ (cleaner = "rows" /\ id \in batch)

\* As long as nothing breaks, nothing stays in object storage without an owner: a
\* message, a job, or a handler that is at it. The exceptions are a deleted inbox
\* and a mail that cannot be saved.
StoredIsOwned ==
    faults = 0 /\ inbox /\ fits =>
        /\ \A s \in raw : \/ smtp[s] \in {"route", "enqueue"}
                          \/ jobState[s] \in {"pending", "active"}
                          \/ \E k \in Runs : Exists(<<s, k>>) \/ <<s, k>> \in leftover
        /\ \A id \in files : \/ Active(id[1])
                             \/ Exists(id) \/ id \in leftover

\* Rows and objects go together.
ObjectsMatchRows == RowHasObjects /\ StoredIsOwned

\* A message left without its .eml, by a cleanup that failed half-way or by the
\* deletion of its copy, is removed in the end unless somebody marks it unread.
HalvedRowsGo ==
    \A id \in RowId : Exists(id) /\ id[1] \notin raw ~>
        ~Exists(id) \/ row[id] = "unread"
===============================================================================
