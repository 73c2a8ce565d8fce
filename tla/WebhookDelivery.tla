--------------------------- MODULE WebhookDelivery ---------------------------
(***************************************************************************)
(* Events of one message on their way to the webhooks of its inbox.        *)
(*                                                                         *)
(*   producers      publish on the pub/sub channel "webhook:fire"          *)
(*   dispatcher     enqueueWebhooks (workers/src/webhook-dispatcher.ts),   *)
(*                  in every worker process: a log row and a delivery job  *)
(*                  for each hook                                          *)
(*   worker         createWebhookDeliveryWorker: posts, writes the log     *)
(*                  row and adds the job of the next try itself; an error  *)
(*                  it does not catch makes BullMQ run the same job again  *)
(*   users          delete the message or a hook, and ask for a new try of *)
(*                  a log row (routes/webhooks.ts)                         *)
(*                                                                         *)
(* A log row is named by the event, the process that dispatched it and the *)
(* hook.                                                                   *)
(***************************************************************************)
EXTENDS Naturals, FiniteSets

CONSTANTS
    Events,       \* events published for the message
    Pods,         \* worker processes, each with a dispatcher
    Hooks,        \* hooks of the inbox that want these events
    MaxTries,     \* tries of one delivery ("maxAttempts = 5")
    MaxAttempts,  \* BullMQ "attempts" of the delivery queue (5 in the code)
    MaxStalls,    \* BullMQ maxStalledCount (its default is 1)
    MaxRetries,   \* bound on the retries a user asks for of one row
    MaxJobs,      \* bound on the delivery jobs
    FaultKinds,   \* infrastructure faults of this instance, see Kinds
    MaxFaults     \* bound on the number of faults

Dispatch == Events \X Pods
Log   == Dispatch \X Hooks
Job   == 1 .. MaxJobs
Kinds == {"db", "redis", "worker", "api"}

ASSUME TriesAssumption == MaxTries \in Nat \ {0} /\ MaxRetries \in Nat
ASSUME QueueAssumption == /\ MaxAttempts \in Nat \ {0} /\ MaxStalls \in Nat
                          /\ MaxJobs \in Nat
ASSUME SomeLog == Events # {} /\ Pods # {} /\ Hooks # {}
ASSUME FaultAssumption == FaultKinds \subseteq Kinds /\ MaxFaults \in Nat

VARIABLES
    published,    \* events published so far
    step,         \* the call each dispatch is about to make
    todo,         \* the hooks it has not finished with
    message,      \* the message's row exists
    hooks,        \* hooks that exist
    log,          \* webhook_logs.status
    of,           \* the log row a job is about
    try,          \* "attempt" in its payload
    at,           \* what becomes of the job: the queue, or a call of its run
    attemptsMade, stalledCount,
    retry,        \* rows whose retry handler is about to add its job
    posts,        \* history: requests sent for a row
    answers,      \* history: requests for a row that were answered with 2xx
    retries,      \* history: retries users asked for
    faults        \* history: infrastructure faults so far

eventVars == <<published, step, todo>>
rowVars   == <<message, hooks, log>>
jobVars   == <<of, try, at, attemptsMade, stalledCount>>
postVars  == <<posts, answers>>
userVars  == <<retry, retries>>
vars == <<eventVars, rowVars, jobVars, postVars, userVars, faults>>

Init ==
    /\ published = {}
    /\ step = [d \in Dispatch |-> "idle"]
    /\ todo = [d \in Dispatch |-> {}]
    /\ message = TRUE
    /\ hooks = Hooks
    /\ log = [l \in Log |-> "none"]
    /\ of = [j \in Job |-> CHOOSE l \in Log : TRUE]
    /\ try = [j \in Job |-> 0]
    /\ at = [j \in Job |-> "absent"]
    /\ attemptsMade = [j \in Job |-> 0]
    /\ stalledCount = [j \in Job |-> 0]
    /\ retry = {}
    /\ posts = [l \in Log |-> 0]
    /\ answers = [l \in Log |-> 0]
    /\ retries = [l \in Log |-> 0]
    /\ faults = 0

Fault(kind) ==
    /\ kind \in FaultKinds
    /\ faults < MaxFaults
    /\ faults' = faults + 1

Live(l) == log[l] \notin {"none", "deleted"}

\* UPDATE webhook_logs SET status = s WHERE id = l
SetStatus(l, s) == log' = IF Live(l) THEN [log EXCEPT ![l] = s] ELSE log

\* webhookQueue.add: job ids are handed out in turn. In state S, after the
\* step's own change of the jobs' states.
AddJob(l, n, S) ==
    \E j \in Job :
        /\ at[j] = "absent" /\ \A i \in Job : i < j => at[i] # "absent"
        /\ of' = [of EXCEPT ![j] = l]
        /\ try' = [try EXCEPT ![j] = n]
        /\ at' = [S EXCEPT ![j] = "waiting"]
        /\ UNCHANGED <<attemptsMade, stalledCount>>

-------------------------------------------------------------------------------
(***************************************************************************)
(* The dispatcher. An error in enqueueWebhooks is logged and the rest of   *)
(* the event dropped.                                                      *)
(***************************************************************************)
DispatchUnchanged == UNCHANGED <<published, message, hooks, postVars, userVars>>

Continue(d, point, hs) ==
    /\ step' = [step EXCEPT ![d] = point]
    /\ todo' = [todo EXCEPT ![d] = hs]

Drop(d) == Continue(d, "done", {})

\* Pub/sub: the event reaches the processes that are connected at the moment.
Publish(e) ==
    /\ e \notin published
    /\ published' = published \cup {e}
    /\ \E reached \in SUBSET Pods :
          step' = [d \in Dispatch |-> IF d[1] = e /\ d[2] \in reached
                                     THEN "message" ELSE step[d]]
    /\ UNCHANGED <<todo, rowVars, jobVars, postVars, userVars, faults>>

FindMessage(d) ==
    /\ step[d] = "message"
    /\ \/ message /\ Continue(d, "hooks", {}) /\ UNCHANGED faults
       \/ ~message /\ Drop(d) /\ UNCHANGED faults
       \/ Fault("db") /\ Drop(d)
    /\ UNCHANGED <<log, jobVars>>
    /\ DispatchUnchanged

\* Mutant: the event is missing from the table of events.
FindHooksUnrouted(d) ==
    /\ step[d] = "hooks"
    /\ Drop(d)
    /\ UNCHANGED <<log, jobVars, faults>>
    /\ DispatchUnchanged

FindHooks(d) ==
    /\ step[d] = "hooks"
    /\ \/ Continue(d, "insert", hooks) /\ UNCHANGED faults
       \/ Fault("db") /\ Drop(d)
    /\ UNCHANGED <<log, jobVars>>
    /\ DispatchUnchanged

\* The INSERT fails when the hook has been deleted meanwhile.
InsertLog(d, h) ==
    /\ step[d] = "insert" /\ h \in todo[d]
    /\ log[<<d, h>>] = "none"
    /\ \/ /\ h \in hooks /\ Continue(d, "add", todo[d]) /\ UNCHANGED faults
          /\ log' = [log EXCEPT ![<<d, h>>] = "pending"]
       \/ h \notin hooks /\ Drop(d) /\ UNCHANGED <<log, faults>>
       \/ /\ Fault("db") /\ Drop(d)
          /\ \/ h \in hooks /\ log' = [log EXCEPT ![<<d, h>>] = "pending"]
             \/ UNCHANGED log
    /\ UNCHANGED jobVars
    /\ DispatchUnchanged

\* The hook whose log row was just written.
Current(d, h) == h \in todo[d] /\ log[<<d, h>>] # "none"

AddDelivery(d, h) ==
    /\ step[d] = "add" /\ Current(d, h)
    /\ \/ Continue(d, "insert", todo[d] \ {h}) /\ AddJob(<<d, h>>, 1, at) /\ UNCHANGED faults
       \/ /\ Fault("redis") /\ Drop(d)
          /\ AddJob(<<d, h>>, 1, at) \/ UNCHANGED jobVars
    /\ UNCHANGED log
    /\ DispatchUnchanged

Finish(d) ==
    /\ step[d] = "insert" /\ todo[d] = {}
    /\ Drop(d)
    /\ UNCHANGED <<log, jobVars, faults>>
    /\ DispatchUnchanged

Dispatcher(d) == \/ FindMessage(d) \/ FindHooks(d) \/ Finish(d)
                 \/ \E h \in Hooks : InsertLog(d, h) \/ AddDelivery(d, h)

-------------------------------------------------------------------------------
(***************************************************************************)
(* The delivery worker                                                     *)
(***************************************************************************)
Goto(j, point) == at' = [at EXCEPT ![j] = point]
Idle == {"absent", "waiting", "ended"}
Active(j) == at[j] \notin Idle

OnlyAt == UNCHANGED <<of, try, attemptsMade, stalledCount>>
WorkerUnchanged == UNCHANGED <<eventVars, message, hooks, userVars>>

\* The delay of a further try, ten seconds and more, outlasts the completion of
\* the job that added it.
Due(j) == \A i \in Job : of[i] = of[j] /\ try[i] < try[j] => at[i] # "complete"

Pick(j) ==
    /\ at[j] = "waiting" /\ Due(j)
    /\ Goto(j, "hook")
    /\ OnlyAt
    /\ UNCHANGED <<log, postVars, faults>>
    /\ WorkerUnchanged

Hook(j) == of[j][2]

\* A hook deleted while the job waited ends it; a failed read is caught.
FindHook(j) ==
    /\ at[j] = "hook"
    /\ \/ Goto(j, IF Hook(j) \in hooks THEN "post" ELSE "complete") /\ UNCHANGED faults
       \/ Fault("db") /\ Goto(j, "caught")
    /\ OnlyAt
    /\ UNCHANGED <<log, postVars>>
    /\ WorkerUnchanged

\* 2xx, or any other status, an error or the ten-second timeout, after each of
\* which the endpoint may have taken the event nevertheless.
Post(j) ==
    /\ at[j] = "post"
    /\ posts' = [posts EXCEPT ![of[j]] = @ + 1]
    /\ \/ Goto(j, "answered") /\ answers' = [answers EXCEPT ![of[j]] = @ + 1]
       \/ Goto(j, "caught") /\ UNCHANGED answers
    /\ OnlyAt
    /\ UNCHANGED <<log, faults>>
    /\ WorkerUnchanged

\* Mutant: the success is logged and the error thrown all the same.
LogSuccessAndThrow(j) ==
    /\ at[j] = "answered"
    /\ Goto(j, "caught")
    /\ SetStatus(of[j], "success")
    /\ OnlyAt
    /\ UNCHANGED <<postVars, faults>>
    /\ WorkerUnchanged

LogSuccess(j) ==
    /\ at[j] = "answered"
    /\ \/ Goto(j, "complete") /\ SetStatus(of[j], "success") /\ UNCHANGED faults
       \/ /\ Fault("db") /\ Goto(j, "caught")
          /\ SetStatus(of[j], "success") \/ UNCHANGED log
    /\ OnlyAt
    /\ UNCHANGED postVars
    /\ WorkerUnchanged

\* Mutants: the last try is one too early, or never comes.
LastTryEarly(j) == try[j] + 1 >= MaxTries
LastTryNever(j) == FALSE

LastTry(j) == try[j] >= MaxTries

\* Mutant: the next try is announced and never added.
LogFailureOnly(j) ==
    /\ at[j] = "caught"
    /\ SetStatus(of[j], IF LastTry(j) THEN "failed" ELSE "retrying")
    /\ Goto(j, "complete")
    /\ OnlyAt
    /\ UNCHANGED <<postVars, faults>>
    /\ WorkerUnchanged

LogFailure(j) ==
    /\ at[j] = "caught"
    /\ LET status == IF LastTry(j) THEN "failed" ELSE "retrying" IN
       \/ /\ SetStatus(of[j], status) /\ UNCHANGED faults
          /\ Goto(j, IF LastTry(j) THEN "complete" ELSE "add")
       \/ /\ Fault("db") /\ Goto(j, "failing")
          /\ SetStatus(of[j], status) \/ UNCHANGED log
    /\ OnlyAt
    /\ UNCHANGED postVars
    /\ WorkerUnchanged

\* Mutant: the error is thrown again after the next try was added.
AddNextTryAndThrow(j) ==
    /\ at[j] = "add"
    /\ AddJob(of[j], try[j] + 1, [at EXCEPT ![j] = "failing"])
    /\ UNCHANGED <<log, postVars, faults>>
    /\ WorkerUnchanged

AddNextTry(j) ==
    /\ at[j] = "add"
    /\ \/ AddJob(of[j], try[j] + 1, [at EXCEPT ![j] = "complete"]) /\ UNCHANGED faults
       \/ /\ Fault("redis")
          /\ \/ AddJob(of[j], try[j] + 1, [at EXCEPT ![j] = "failing"])
             \/ Goto(j, "failing") /\ OnlyAt
    /\ UNCHANGED <<log, postVars>>
    /\ WorkerUnchanged

CompleteJob(j) ==
    /\ at[j] = "complete"
    /\ Goto(j, "ended")
    /\ OnlyAt
    /\ UNCHANGED <<log, postVars, faults>>
    /\ WorkerUnchanged

FailAttempt(j) ==
    /\ at[j] = "failing"
    /\ attemptsMade' = [attemptsMade EXCEPT ![j] = @ + 1]
    /\ Goto(j, IF attemptsMade[j] + 1 < MaxAttempts THEN "waiting" ELSE "ended")
    /\ UNCHANGED <<of, try, stalledCount, log, postVars, faults>>
    /\ WorkerUnchanged

Work(j) == \/ FindHook(j) \/ Post(j) \/ LogSuccess(j) \/ LogFailure(j)
           \/ AddNextTry(j) \/ CompleteJob(j) \/ FailAttempt(j)

\* A worker process dies with the events it dispatches and the jobs it runs,
\* which are found stalled.
Crash(p) ==
    /\ Fault("worker")
    /\ \E lost \in SUBSET {j \in Job : Active(j)} :
          /\ at' = [j \in Job |-> IF j \notin lost THEN at[j]
                                  ELSE IF stalledCount[j] < MaxStalls
                                       THEN "waiting" ELSE "ended"]
          /\ stalledCount' = [j \in Job |->
                 IF j \in lost /\ stalledCount[j] < MaxStalls
                 THEN stalledCount[j] + 1 ELSE stalledCount[j]]
    /\ step' = [d \in Dispatch |-> IF d[2] = p /\ step[d] # "idle"
                                   THEN "done" ELSE step[d]]
    /\ todo' = [d \in Dispatch |-> IF d[2] = p THEN {} ELSE todo[d]]
    /\ UNCHANGED <<published, rowVars, of, try, attemptsMade, postVars, userVars>>

-------------------------------------------------------------------------------
(***************************************************************************)
(* Users                                                                   *)
(***************************************************************************)
\* Of interest as long as a dispatcher may still look the message up.
DeleteMessage ==
    /\ message
    /\ \E d \in Dispatch : step[d] \in {"idle", "message"}
    /\ message' = FALSE
    /\ UNCHANGED <<hooks, log, eventVars, jobVars, postVars, userVars, faults>>

\* The log rows go with their hook.
DeleteHook(h) ==
    /\ h \in hooks
    /\ hooks' = hooks \ {h}
    /\ log' = [l \in Log |-> IF l[2] = h /\ Live(l) THEN "deleted" ELSE log[l]]
    /\ UNCHANGED <<message, eventVars, jobVars, postVars, userVars, faults>>

\* The row is reset to "pending", whatever its status and its jobs.
AskRetry(l) ==
    /\ Live(l) /\ retries[l] < MaxRetries /\ l \notin retry
    /\ SetStatus(l, "pending")
    /\ retry' = retry \cup {l}
    /\ retries' = [retries EXCEPT ![l] = @ + 1]
    /\ UNCHANGED <<message, hooks, eventVars, jobVars, postVars, faults>>

\* Mutant: the row is reset and no job added.
AddRetryNot(l) ==
    /\ l \in retry
    /\ retry' = retry \ {l}
    /\ UNCHANGED <<retries, rowVars, eventVars, jobVars, postVars, faults>>

AddRetry(l) ==
    /\ l \in retry
    /\ retry' = retry \ {l}
    /\ \/ AddJob(l, 1, at) /\ UNCHANGED faults
       \/ Fault("redis") /\ (AddJob(l, 1, at) \/ UNCHANGED jobVars)
    /\ UNCHANGED <<retries, rowVars, eventVars, postVars>>

ApiCrash ==
    /\ retry # {}
    /\ Fault("api")
    /\ retry' = {}
    /\ UNCHANGED <<retries, rowVars, eventVars, jobVars, postVars>>

Users == \/ DeleteMessage \/ ApiCrash
         \/ \E h \in Hooks : DeleteHook(h)
         \/ \E l \in Log : AskRetry(l)

-------------------------------------------------------------------------------
Quiet ==
    /\ published = Events
    /\ \A d \in Dispatch : step[d] \in {"idle", "done"}
    /\ \A j \in Job : at[j] \in {"absent", "ended"}
    /\ retry = {}
    /\ UNCHANGED vars

Next ==
    \/ \E e \in Events : Publish(e)
    \/ \E p \in Pods : Crash(p)
    \/ \E d \in Dispatch : Dispatcher(d)
    \/ \E j \in Job : Pick(j) \/ Work(j)
    \/ \E l \in Log : AddRetry(l)
    \/ Users
    \/ Quiet

\* Dispatchers, the worker and a retry handler that has begun run on.
Fairness ==
    /\ \A d \in Dispatch : WF_vars(Dispatcher(d))
    /\ \A j \in Job : WF_vars(Pick(j)) /\ WF_vars(Work(j))
    /\ \A l \in Log : WF_vars(AddRetry(l))

Spec == Init /\ [][Next]_vars
FairSpec == Spec /\ Fairness

-------------------------------------------------------------------------------
EventType ==
    /\ published \subseteq Events
    /\ step \in [Dispatch -> {"idle", "message", "hooks", "insert", "add", "done"}]
    /\ todo \in [Dispatch -> SUBSET Hooks]
RowType ==
    /\ message \in BOOLEAN
    /\ hooks \subseteq Hooks
    /\ log \in [Log -> {"none", "pending", "retrying", "success", "failed",
                        "deleted"}]
JobType ==
    /\ of \in [Job -> Log]
    /\ try \in [Job -> 0 .. MaxTries]
    /\ at \in [Job -> {"absent", "waiting", "hook", "post", "answered", "caught",
                       "add", "complete", "failing", "ended"}]
    /\ attemptsMade \in [Job -> 0 .. MaxAttempts]
    /\ stalledCount \in [Job -> 0 .. MaxStalls]
HistoryType ==
    /\ retry \subseteq Log
    /\ posts \in [Log -> Nat] /\ answers \in [Log -> Nat]
    /\ retries \in [Log -> 0 .. MaxRetries]
    /\ faults \in 0 .. MaxFaults

TypeOK == EventType /\ RowType /\ JobType /\ HistoryType

-------------------------------------------------------------------------------
\* How often a delivery may be started over: a retry that a user asks for starts
\* it once more, and a fault may run each job that is at work a second time.
Starts(l) == (1 + retries[l]) * 2^faults

\* Two retry mechanisms on top of each other still post a delivery at most
\* MaxTries times for each time it is started (webhook-dispatcher.ts:255-283).
PostsBounded == \A l \in Log : posts[l] <= MaxTries * Starts(l)

\* The endpoint answers an event with 2xx once for each time it is started:
\* nothing is posted again after it was answered.
AnsweredOnce == \A l \in Log : answers[l] <= Starts(l)

\* Both bounds on what the endpoint is asked.
EndpointSpared == PostsBounded /\ AnsweredOnce

\* The log tells the truth about the endpoint: "success" was answered with 2xx,
\* and "failed" was tried MaxTries times, with database errors counted as tries
\* by the catch block (webhook-dispatcher.ts:254).
LogIsTrue ==
    \A l \in Log : /\ log[l] = "success" => answers[l] > 0
                   /\ log[l] = "failed" => posts[l] + faults >= MaxTries

\* As long as nothing breaks, a delivery shown as pending or retrying has a job,
\* or somebody is about to add it.
OpenHasJob ==
    faults = 0 => \A l \in Log : log[l] \in {"pending", "retrying"} =>
        \/ \E j \in Job : of[j] = l /\ at[j] \notin {"absent", "complete", "ended"}
        \/ step[l[1]] = "add" /\ Current(l[1], l[2])
        \/ l \in retry

\* A delivery that was logged is settled in the end, unless a fault hits.
DeliveryEnds ==
    \A l \in Log : log[l] = "pending" ~>
        log[l] \in {"success", "failed", "deleted"} \/ faults > 0

\* An event that a dispatcher receives is logged for every hook, unless a fault
\* hits, the message has been deleted, or a hook is deleted meanwhile, which
\* drops the event for the other hooks as well.
EventIsLogged ==
    \A d \in Dispatch, h \in Hooks : step[d] = "message" ~>
        log[<<d, h>>] # "none" \/ faults > 0 \/ ~message \/ hooks # Hooks
===============================================================================
