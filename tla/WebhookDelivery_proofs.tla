------------------------ MODULE WebhookDelivery_proofs ------------------------
(***************************************************************************)
(* Proofs about WebhookDelivery, for any number of events, processes,      *)
(* hooks, tries, attempts, stalls, manual retries, jobs and faults.        *)
(***************************************************************************)
EXTENDS WebhookDelivery, FiniteSetTheorems, TLAPS

(***************************************************************************)
(* Type correctness. TypeOK is not inductive by itself: that a try stays   *)
(* within MaxTries rests on a further one being added only after a try     *)
(* that was not the last, and that a job's attempts stay within            *)
(* MaxAttempts on a job ending with its last.                              *)
(***************************************************************************)
TriesLeft == \A j \in Job : /\ at[j] = "add" => try[j] < MaxTries
                            /\ at[j] # "ended" => attemptsMade[j] < MaxAttempts

TypeInv == TypeOK /\ TriesLeft

\* What the steps of this section expand everywhere.
USE DEF eventVars, rowVars, jobVars, postVars, userVars, TypeInv, TypeOK,
        TriesLeft, EventType, RowType, JobType, HistoryType

\* The initial state has the type.
LEMMA TypeInit == Init => TypeInv
<1> SUFFICES ASSUME Init PROVE TypeInv
  OBVIOUS
<1>1. \E l \in Log : TRUE
  <2>1. PICK e \in Events, p \in Pods, h \in Hooks : TRUE
    BY SomeLog
  <2>2. <<<<e, p>>, h>> \in Log
    BY <2>1 DEF Log, Dispatch
  <2> QED
    BY <2>2
<1>2. (CHOOSE l \in Log : TRUE) \in Log
  BY <1>1
<1> QED
  BY <1>2, TriesAssumption, QueueAssumption, FaultAssumption DEF Init

\* A status that is written to a row that exists is a status.
LEMMA StatusType ==
    ASSUME TypeInv, NEW l \in Log,
           NEW s \in {"pending", "retrying", "success", "failed"}, SetStatus(l, s)
    PROVE  log' \in [Log -> {"none", "pending", "retrying", "success", "failed",
                             "deleted"}]
BY DEF SetStatus

\* What adding a job does to the jobs.
LEMMA AddJobEffect ==
    ASSUME TypeInv, NEW l \in Log, NEW n \in 1 .. MaxTries,
           NEW S \in [Job -> {"absent", "waiting", "hook", "post", "answered",
                              "caught", "add", "complete", "failing", "ended"}],
           AddJob(l, n, S)
    PROVE  /\ JobType' /\ UNCHANGED <<attemptsMade, stalledCount>>
           /\ \E j \in Job : /\ at[j] = "absent" /\ of'[j] = l /\ try'[j] = n
                             /\ at'[j] = "waiting"
                             /\ \A i \in Job : i # j => /\ of'[i] = of[i]
                                                        /\ try'[i] = try[i]
                                                        /\ at'[i] = S[i]
BY TriesAssumption DEF AddJob

\* The dispatcher keeps the type.
LEMMA DispatchType ==
    ASSUME TypeInv, NEW d \in Dispatch, Dispatcher(d)
    PROVE  TypeInv'
<1> USE FaultAssumption DEF DispatchUnchanged, Continue, Drop, Fault
<1>1. CASE FindMessage(d)
  BY <1>1 DEF FindMessage
<1>2. CASE FindHooks(d)
  BY <1>2 DEF FindHooks
<1>3. CASE Finish(d)
  BY <1>3 DEF Finish
<1>4. ASSUME NEW h \in Hooks, InsertLog(d, h) PROVE TypeInv'
  <2>1. <<d, h>> \in Log
    BY DEF Log
  <2>2. log' \in [Log -> {"none", "pending", "retrying", "success", "failed", "deleted"}]
    BY <1>4, <2>1 DEF InsertLog
  <2> QED
    BY <1>4, <2>2 DEF InsertLog
<1>5. ASSUME NEW h \in Hooks, AddDelivery(d, h) PROVE TypeInv'
  <2>1. <<d, h>> \in Log /\ 1 \in 1 .. MaxTries
    BY TriesAssumption DEF Log
  <2>2. CASE AddJob(<<d, h>>, 1, at)
    <3>1. JobType' /\ UNCHANGED attemptsMade
      BY <2>1, <2>2, AddJobEffect
    <3>2. PICK i \in Job :
             /\ at[i] = "absent" /\ at'[i] = "waiting"
             /\ \A k \in Job : k # i => try'[k] = try[k] /\ at'[k] = at[k]
      BY <2>1, <2>2, AddJobEffect
    <3>3. TriesLeft'
      BY <3>1, <3>2
    <3> QED
      BY <1>5, <3>1, <3>3 DEF AddDelivery
  <2>3. CASE UNCHANGED jobVars
    BY <1>5, <2>3 DEF AddDelivery
  <2> QED
    BY <1>5, <2>2, <2>3 DEF AddDelivery
<1> QED
  BY <1>1, <1>2, <1>3, <1>4, <1>5 DEF Dispatcher

\* The delivery worker keeps the type.
LEMMA WorkType ==
    ASSUME TypeInv, NEW j \in Job, Pick(j) \/ Work(j)
    PROVE  TypeInv'
<1> USE FaultAssumption, QueueAssumption, TriesAssumption
    DEF WorkerUnchanged, OnlyAt, Goto, Fault
<1>1. CASE Pick(j)
  BY <1>1 DEF Pick
<1>2. CASE FindHook(j)
  BY <1>2 DEF FindHook
<1>3. CASE Post(j)
  BY <1>3 DEF Post
<1>4. CASE LogSuccess(j)
  <2>1. log' \in [Log -> {"none", "pending", "retrying", "success", "failed", "deleted"}]
    BY <1>4, StatusType DEF LogSuccess
  <2> QED
    BY <1>4, <2>1 DEF LogSuccess
<1>5. CASE LogFailure(j)
  <2>1. log' \in [Log -> {"none", "pending", "retrying", "success", "failed", "deleted"}]
    BY <1>5, StatusType DEF LogFailure
  <2> QED
    BY <1>5, <2>1 DEF LogFailure, LastTry
<1>6. CASE AddNextTry(j)
  <2>1. try[j] + 1 \in 1 .. MaxTries
    BY <1>6 DEF AddNextTry
  <2>2. JobType' /\ TriesLeft'
    <3>1. ASSUME NEW p \in {"complete", "failing"}, NEW S,
                 S = [at EXCEPT ![j] = p], AddJob(of[j], try[j] + 1, S)
          PROVE  JobType' /\ TriesLeft'
      <4>1. /\ of[j] \in Log
            /\ S \in [Job -> {"absent", "waiting", "hook", "post", "answered", "caught",
                             "add", "complete", "failing", "ended"}]
        BY <3>1
      <4>2. JobType' /\ UNCHANGED attemptsMade
        BY <2>1, <3>1, <4>1, AddJobEffect
      <4>3. PICK i \in Job :
               /\ at[i] = "absent" /\ at'[i] = "waiting"
               /\ \A k \in Job : k # i => try'[k] = try[k] /\ at'[k] = S[k]
        BY <3>1, <4>1 DEF AddJob
      <4> QED
        BY <1>6, <3>1, <4>2, <4>3 DEF AddNextTry
    <3>2. CASE Goto(j, "failing") /\ OnlyAt
      BY <1>6, <3>2 DEF AddNextTry
    <3> QED
      BY <1>6, <3>1, <3>2 DEF AddNextTry
  <2> QED
    BY <1>6, <2>2 DEF AddNextTry
<1>7. CASE CompleteJob(j)
  BY <1>7 DEF CompleteJob
<1>8. CASE FailAttempt(j)
  <2>1. attemptsMade[j] + 1 \in 0 .. MaxAttempts
    BY <1>8 DEF FailAttempt
  <2> QED
    BY <1>8, <2>1 DEF FailAttempt
<1> QED
  BY <1>1, <1>2, <1>3, <1>4, <1>5, <1>6, <1>7, <1>8 DEF Work

\* The retry handler, the death of a process, producers and users keep the type.
LEMMA OtherType ==
    ASSUME TypeInv,
           \/ \E l \in Log : AddRetry(l)
           \/ \E p \in Pods : Crash(p)
           \/ \E e \in Events : Publish(e)
           \/ Users
    PROVE  TypeInv'
<1> USE FaultAssumption, TriesAssumption, QueueAssumption DEF Fault
<1>1. ASSUME NEW l \in Log, AddRetry(l) PROVE TypeInv'
  <2>1. CASE AddJob(l, 1, at)
    <3>1. 1 \in 1 .. MaxTries
      OBVIOUS
    <3>2. JobType' /\ UNCHANGED attemptsMade
      BY <2>1, <3>1, AddJobEffect
    <3>3. PICK i \in Job :
             /\ at[i] = "absent" /\ at'[i] = "waiting"
             /\ \A k \in Job : k # i => try'[k] = try[k] /\ at'[k] = at[k]
      BY <2>1, <3>1, AddJobEffect
    <3>4. TriesLeft'
      BY <3>2, <3>3
    <3> QED
      BY <1>1, <3>2, <3>4 DEF AddRetry
  <2>2. CASE UNCHANGED jobVars
    BY <1>1, <2>2 DEF AddRetry
  <2> QED
    BY <1>1, <2>1, <2>2 DEF AddRetry
<1>2. ASSUME NEW p \in Pods, Crash(p) PROVE TypeInv'
  BY <1>2 DEF Crash, Active, Idle
<1>3. ASSUME NEW e \in Events, Publish(e) PROVE TypeInv'
  BY <1>3 DEF Publish
<1>4. CASE DeleteMessage
  BY <1>4 DEF DeleteMessage
<1>5. ASSUME NEW h \in Hooks, DeleteHook(h) PROVE TypeInv'
  BY <1>5 DEF DeleteHook
<1>6. ASSUME NEW l \in Log, AskRetry(l) PROVE TypeInv'
  <2>1. log' \in [Log -> {"none", "pending", "retrying", "success", "failed", "deleted"}]
    BY <1>6, StatusType DEF AskRetry
  <2>2. retries' \in [Log -> 0 .. MaxRetries] /\ retry' \subseteq Log
    BY <1>6 DEF AskRetry
  <2> QED
    BY <1>6, <2>1, <2>2 DEF AskRetry
<1>7. CASE ApiCrash
  BY <1>7 DEF ApiCrash
<1> QED
  BY <1>1, <1>2, <1>3, <1>4, <1>5, <1>6, <1>7 DEF Users

\* Every step keeps the type.
LEMMA TypeNext == TypeInv /\ [Next]_vars => TypeInv'
<1> SUFFICES ASSUME TypeInv, [Next]_vars PROVE TypeInv'
  OBVIOUS
<1>1. CASE Quiet \/ UNCHANGED vars
  BY <1>1 DEF Quiet, vars
<1> QED
  BY <1>1, DispatchType, WorkType, OtherType DEF Next

\* The variables stay in their types: no try beyond the last, no attempt beyond
\* the queue's (webhook-dispatcher.ts:255-283, queue/src/index.ts:107-117).
THEOREM TypeCorrect == Spec => []TypeOK
<1>1. Spec => []TypeInv
  BY TypeInit, TypeNext, PTL DEF Spec
<1>2. TypeInv => TypeOK
  OBVIOUS
<1> QED
  BY <1>1, <1>2, PTL

(***************************************************************************)
(* The log tells the truth. The invariant counts, for every job, the tries *)
(* behind it: each was a post or a fault.                                  *)
(***************************************************************************)
Tried == \A j \in Job :
    /\ at[j] \in {"answered", "caught", "add"} => try[j] <= posts[of[j]] + faults
    /\ at[j] # "absent" => try[j] <= posts[of[j]] + faults + 1
    /\ at[j] = "answered" => answers[of[j]] > 0

TruthInv == Tried /\ LogIsTrue

\* Initially nothing is logged and no job exists.
LEMMA TruthInit == Init => TruthInv
BY DEF Init, TruthInv, Tried, LogIsTrue

\* History only grows.
LEMMA HistoryGrows ==
    ASSUME TypeInv, [Next]_vars
    PROVE  /\ faults <= faults'
           /\ \A l \in Log : posts[l] <= posts'[l] /\ answers[l] <= answers'[l]
<1> USE FaultAssumption DEF Fault
<1>1. CASE \E d \in Dispatch : Dispatcher(d)
  <2>1. PICK d \in Dispatch : Dispatcher(d)
    BY <1>1
  <2>2. UNCHANGED postVars
    BY <2>1 DEF Dispatcher, FindMessage, FindHooks, Finish, InsertLog, AddDelivery,
                DispatchUnchanged
  <2>3. faults' \in {faults, faults + 1}
    BY <2>1 DEF Dispatcher, FindMessage, FindHooks, Finish, InsertLog, AddDelivery
  <2> QED
    BY <2>2, <2>3
<1>2. CASE \E j \in Job : Pick(j) \/ Work(j)
  BY <1>2 DEF Pick, Work, FindHook, Post, LogSuccess, LogFailure, AddNextTry,
              CompleteJob, FailAttempt
<1>3. CASE \/ \E e \in Events : Publish(e)
           \/ \E p \in Pods : Crash(p)
           \/ \E l \in Log : AddRetry(l)
  BY <1>3 DEF Publish, Crash, AddRetry
<1>4. CASE Users \/ Quiet \/ UNCHANGED vars
  BY <1>4 DEF Users, DeleteMessage, ApiCrash, DeleteHook, AskRetry, Quiet, vars
<1> QED
  BY <1>1, <1>2, <1>3, <1>4 DEF Next

\* Steps that leave the jobs alone, or add the first try of a delivery, or put
\* a job back or end it, and that write neither "success" nor "failed".
LEMMA TruthFrame ==
    ASSUME TypeInv, TypeInv', TruthInv, [Next]_vars,
           \A j \in Job :
              \/ of'[j] = of[j] /\ try'[j] = try[j] /\ at'[j] = at[j]
              \/ /\ of'[j] = of[j] /\ try'[j] = try[j] /\ at[j] # "absent"
                 /\ at'[j] \in {"waiting", "ended"}
              \/ try'[j] = 1 /\ at'[j] = "waiting",
           \A l \in Log : log'[l] \in {"success", "failed"} => log'[l] = log[l]
    PROVE  TruthInv'
<1>1. Tried'
  <2> SUFFICES ASSUME NEW j \in Job
               PROVE  /\ at'[j] \in {"answered", "caught", "add"} =>
                             try'[j] <= posts'[of'[j]] + faults'
                      /\ at'[j] # "absent" => try'[j] <= posts'[of'[j]] + faults' + 1
                      /\ at'[j] = "answered" => answers'[of'[j]] > 0
    BY DEF Tried
  <2>1. /\ faults <= faults' /\ faults \in Nat /\ faults' \in Nat
        /\ posts[of[j]] <= posts'[of[j]] /\ answers[of[j]] <= answers'[of[j]]
        /\ of[j] \in Log /\ of'[j] \in Log
        /\ posts[of[j]] \in Nat /\ posts'[of'[j]] \in Nat /\ try[j] \in Nat
        /\ answers[of[j]] \in Nat /\ answers'[of'[j]] \in Nat
        /\ posts'[of[j]] \in Nat /\ answers'[of[j]] \in Nat
    BY HistoryGrows, FaultAssumption, TriesAssumption
  <2>2. /\ at[j] \in {"answered", "caught", "add"} => try[j] <= posts[of[j]] + faults
        /\ at[j] # "absent" => try[j] <= posts[of[j]] + faults + 1
        /\ at[j] = "answered" => answers[of[j]] > 0
    BY DEF TruthInv, Tried
  <2>3. CASE of'[j] = of[j] /\ try'[j] = try[j] /\ at'[j] = at[j]
    BY <2>1, <2>2, <2>3
  <2>4. CASE /\ of'[j] = of[j] /\ try'[j] = try[j] /\ at[j] # "absent"
             /\ at'[j] \in {"waiting", "ended"}
    BY <2>1, <2>2, <2>4
  <2>5. CASE try'[j] = 1 /\ at'[j] = "waiting"
    BY <2>1, <2>5
  <2> QED
    BY <2>3, <2>4, <2>5
<1>2. LogIsTrue'
  <2> SUFFICES ASSUME NEW l \in Log
               PROVE  /\ log'[l] = "success" => answers'[l] > 0
                      /\ log'[l] = "failed" => posts'[l] + faults' >= MaxTries
    BY DEF LogIsTrue
  <2>1. /\ log[l] = "success" => answers[l] > 0
        /\ log[l] = "failed" => posts[l] + faults >= MaxTries
    BY DEF TruthInv, LogIsTrue
  <2>2. /\ faults <= faults' /\ faults \in Nat /\ faults' \in Nat
        /\ posts[l] <= posts'[l] /\ posts[l] \in Nat /\ posts'[l] \in Nat
        /\ answers[l] <= answers'[l] /\ answers[l] \in Nat /\ answers'[l] \in Nat
    BY HistoryGrows, FaultAssumption
  <2> QED
    BY <2>1, <2>2, TriesAssumption
<1> QED
  BY <1>1, <1>2 DEF TruthInv

\* Jobs are left alone but for one that starts a delivery.
FirstTries == \A j \in Job :
    \/ of'[j] = of[j] /\ try'[j] = try[j] /\ at'[j] = at[j]
    \/ try'[j] = 1 /\ at'[j] = "waiting"

\* Adding the first try of a delivery does just that.
LEMMA FirstTry ==
    ASSUME TypeInv, NEW l \in Log, AddJob(l, 1, at) \/ UNCHANGED jobVars
    PROVE  FirstTries
BY DEF AddJob, FirstTries

\* The dispatcher, the retry handler, producers and users stay within the frame;
\* so does a process that dies.
LEMMA TruthOther ==
    ASSUME TypeInv, TypeInv', TruthInv, [Next]_vars,
           \/ \E d \in Dispatch : Dispatcher(d)
           \/ \E l \in Log : AddRetry(l)
           \/ \E p \in Pods : Crash(p)
           \/ \E e \in Events : Publish(e)
           \/ Users \/ Quiet \/ UNCHANGED vars
    PROVE  TruthInv'
<1>1. ASSUME NEW d \in Dispatch, Dispatcher(d) PROVE TruthInv'
  <2>1. FirstTries
    <3>1. CASE UNCHANGED jobVars
      BY <3>1 DEF FirstTries
    <3>2. ASSUME NEW h \in Hooks, AddJob(<<d, h>>, 1, at)
          PROVE  FirstTries
      <4>1. <<d, h>> \in Log
        BY DEF Log
      <4> QED
        BY <3>2, <4>1, FirstTry
    <3> QED
      BY <1>1, <3>1, <3>2
         DEF Dispatcher, FindMessage, FindHooks, Finish, InsertLog, AddDelivery
  <2>2. \A l \in Log : log'[l] \in {"success", "failed"} => log'[l] = log[l]
    BY <1>1 DEF Dispatcher, FindMessage, FindHooks, Finish, InsertLog, AddDelivery
  <2> QED
    BY <2>1, <2>2, TruthFrame DEF FirstTries
<1>2. ASSUME NEW l \in Log, AddRetry(l) PROVE TruthInv'
  <2>1. FirstTries
    BY <1>2, FirstTry DEF AddRetry
  <2>2. UNCHANGED log
    BY <1>2 DEF AddRetry
  <2> QED
    BY <2>1, <2>2, TruthFrame DEF FirstTries
<1>3. ASSUME NEW p \in Pods, Crash(p) PROVE TruthInv'
  <2>1. UNCHANGED <<of, try, log>>
    BY <1>3 DEF Crash
  <2>2. \A j \in Job : \/ at'[j] = at[j]
                       \/ at[j] # "absent" /\ at'[j] \in {"waiting", "ended"}
    BY <1>3 DEF Crash, Active, Idle
  <2> QED
    BY <2>1, <2>2, TruthFrame
<1>4. ASSUME (\E e \in Events : Publish(e)) \/ Users \/ Quiet \/ UNCHANGED vars
      PROVE  TruthInv'
  <2>1. UNCHANGED jobVars
    BY <1>4 DEF Publish, Users, DeleteMessage, DeleteHook, AskRetry, ApiCrash, Quiet,
                vars
  <2>2. \A l \in Log : log'[l] \in {"success", "failed"} => log'[l] = log[l]
    BY <1>4 DEF Publish, Users, DeleteMessage, DeleteHook, AskRetry, ApiCrash, Quiet,
                vars, SetStatus
  <2> QED
    BY <2>1, <2>2, TruthFrame
<1> QED
  BY <1>1, <1>2, <1>3, <1>4

\* A step of a job that posts nothing concerns that job and its row alone.
LEMMA TruthJob ==
    ASSUME TypeInv, TypeInv', TruthInv, [Next]_vars, NEW j \in Job,
           UNCHANGED <<of, try>>,
           \A i \in Job : i # j => at'[i] = at[i],
           at[j] # "absent",
           at'[j] \in {"answered", "caught", "add"} => try[j] <= posts'[of[j]] + faults',
           at'[j] = "answered" => answers'[of[j]] > 0,
           \A l \in Log : l # of[j] => log'[l] = log[l],
           log'[of[j]] = "success" => log[of[j]] = "success" \/ answers'[of[j]] > 0,
           log'[of[j]] = "failed" =>
              log[of[j]] = "failed" \/ posts'[of[j]] + faults' >= MaxTries
    PROVE  TruthInv'
<1> USE FaultAssumption, TriesAssumption
<1>1. faults <= faults' /\ faults \in Nat /\ faults' \in Nat
  BY HistoryGrows
<1>2. \A l \in Log : /\ posts[l] <= posts'[l] /\ answers[l] <= answers'[l]
                     /\ posts[l] \in Nat /\ posts'[l] \in Nat
                     /\ answers[l] \in Nat /\ answers'[l] \in Nat
  BY HistoryGrows
<1>3. Tried'
  <2> SUFFICES ASSUME NEW i \in Job
               PROVE  /\ at'[i] \in {"answered", "caught", "add"} =>
                             try[i] <= posts'[of[i]] + faults'
                      /\ at'[i] # "absent" => try[i] <= posts'[of[i]] + faults' + 1
                      /\ at'[i] = "answered" => answers'[of[i]] > 0
    BY DEF Tried
  <2>1. of[i] \in Log /\ try[i] \in Nat
    OBVIOUS
  <2>2. /\ at[i] \in {"answered", "caught", "add"} => try[i] <= posts[of[i]] + faults
        /\ at[i] # "absent" => try[i] <= posts[of[i]] + faults + 1
        /\ at[i] = "answered" => answers[of[i]] > 0
    BY DEF TruthInv, Tried
  <2>3. CASE i = j
    BY <1>1, <1>2, <2>1, <2>2, <2>3
  <2>4. CASE i # j
    BY <1>1, <1>2, <2>1, <2>2, <2>4
  <2> QED
    BY <2>3, <2>4
<1>4. LogIsTrue'
  <2> SUFFICES ASSUME NEW l \in Log
               PROVE  /\ log'[l] = "success" => answers'[l] > 0
                      /\ log'[l] = "failed" => posts'[l] + faults' >= MaxTries
    BY DEF LogIsTrue
  <2>1. /\ log[l] = "success" => answers[l] > 0
        /\ log[l] = "failed" => posts[l] + faults >= MaxTries
    BY DEF TruthInv, LogIsTrue
  <2> QED
    BY <1>1, <1>2, <2>1
<1> QED
  BY <1>3, <1>4 DEF TruthInv

\* The delivery worker.
LEMMA TruthWork ==
    ASSUME TypeInv, TypeInv', TruthInv, [Next]_vars, NEW j \in Job, Pick(j) \/ Work(j)
    PROVE  TruthInv'
<1> USE FaultAssumption, TriesAssumption DEF OnlyAt, Goto
<1> DEFINE l == of[j]
<1>1. /\ l \in Log /\ faults \in Nat /\ posts[l] \in Nat /\ answers[l] \in Nat
      /\ try[j] \in Nat
  OBVIOUS
<1>2. /\ at[j] \in {"answered", "caught", "add"} => try[j] <= posts[l] + faults
      /\ at[j] # "absent" => try[j] <= posts[l] + faults + 1
      /\ at[j] = "answered" => answers[l] > 0
  BY DEF TruthInv, Tried
<1>3. CASE Pick(j) \/ CompleteJob(j) \/ FailAttempt(j)
  BY <1>3, TruthJob DEF Pick, CompleteJob, FailAttempt
<1>4. CASE FindHook(j)
  <2>1. at'[j] = "caught" => faults' = faults + 1
    BY <1>4 DEF FindHook, Fault
  <2>2. at[j] = "hook" /\ at'[j] \in {"post", "complete", "caught"} /\ UNCHANGED postVars
    BY <1>4 DEF FindHook
  <2> QED
    BY <1>1, <1>2, <1>4, <2>1, <2>2, TruthJob DEF FindHook
<1>5. CASE Post(j)
  <2>1. /\ at[j] = "post" /\ at'[j] \in {"answered", "caught"}
        /\ posts'[l] = posts[l] + 1 /\ UNCHANGED faults
        /\ at'[j] = "answered" => answers'[l] = answers[l] + 1
    BY <1>1, <1>5 DEF Post
  <2> QED
    BY <1>1, <1>2, <1>5, <2>1, TruthJob DEF Post
<1>6. CASE LogSuccess(j)
  <2>1. /\ at[j] = "answered" /\ at'[j] \in {"complete", "caught"} /\ UNCHANGED postVars
        /\ faults' \in {faults, faults + 1}
        /\ UNCHANGED log \/ SetStatus(l, "success")
    BY <1>6 DEF LogSuccess, Fault
  <2> QED
    BY <1>1, <1>2, <1>6, <2>1, TruthJob DEF LogSuccess, SetStatus
<1>7. CASE LogFailure(j)
  <2>1. /\ at[j] = "caught" /\ at'[j] \in {"complete", "add", "failing"}
        /\ UNCHANGED postVars /\ faults' \in {faults, faults + 1}
        /\ \/ UNCHANGED log
           \/ SetStatus(l, "retrying")
           \/ SetStatus(l, "failed") /\ try[j] >= MaxTries
    BY <1>7 DEF LogFailure, LastTry, Fault
  <2> QED
    BY <1>1, <1>2, <1>7, <2>1, TruthJob DEF LogFailure, SetStatus
<1>8. CASE AddNextTry(j)
  <2>1. UNCHANGED <<log, postVars>> /\ faults' \in {faults, faults + 1} /\ at[j] = "add"
    BY <1>8 DEF AddNextTry, Fault
  <2>2. CASE Goto(j, "failing") /\ OnlyAt
    BY <1>1, <2>1, <2>2, TruthJob
  <2>3. ASSUME NEW p \in {"complete", "failing"},
               AddJob(l, try[j] + 1, [at EXCEPT ![j] = p])
        PROVE  TruthInv'
    <3>1. PICK k \in Job :
             /\ at[k] = "absent" /\ of' = [of EXCEPT ![k] = l]
             /\ try' = [try EXCEPT ![k] = try[j] + 1]
             /\ at' = [[at EXCEPT ![j] = p] EXCEPT ![k] = "waiting"]
      BY <2>3 DEF AddJob
    <3>2. Tried'
      <4> SUFFICES ASSUME NEW i \in Job
                   PROVE  /\ at'[i] \in {"answered", "caught", "add"} =>
                                 try'[i] <= posts'[of'[i]] + faults'
                          /\ at'[i] # "absent" => try'[i] <= posts'[of'[i]] + faults' + 1
                          /\ at'[i] = "answered" => answers'[of'[i]] > 0
        BY DEF Tried
      <4>1. /\ at[i] \in {"answered", "caught", "add"} => try[i] <= posts[of[i]] + faults
            /\ at[i] # "absent" => try[i] <= posts[of[i]] + faults + 1
            /\ at[i] = "answered" => answers[of[i]] > 0
        BY DEF TruthInv, Tried
      <4>2. of[i] \in Log /\ posts[of[i]] \in Nat /\ try[i] \in Nat
        OBVIOUS
      <4>3. CASE i = k
        BY <1>1, <1>2, <2>1, <3>1, <4>3
      <4>4. CASE i = j
        BY <1>1, <1>2, <2>1, <2>3, <3>1, <4>4
      <4>5. CASE i # k /\ i # j
        BY <2>1, <3>1, <4>1, <4>2, <4>5, <1>1
      <4> QED
        BY <4>3, <4>4, <4>5
    <3>3. LogIsTrue'
      BY <1>1, <2>1 DEF TruthInv, LogIsTrue
    <3> QED
      BY <3>2, <3>3 DEF TruthInv
  <2> QED
    BY <1>8, <2>2, <2>3 DEF AddNextTry
<1> QED
  BY <1>3, <1>4, <1>5, <1>6, <1>7, <1>8 DEF Work

\* The log of a delivery tells the truth about its endpoint: "success" means it
\* answered with 2xx, and "failed" that all tries were made, each a request or a
\* failure of the database around one (webhook-dispatcher.ts:237-275), also when
\* manual retries and the worker's own tries overlap.
THEOREM LogTellsTruth == Spec => []LogIsTrue
<1>1. Init => TypeInv /\ TruthInv
  BY TypeInit, TruthInit
<1>2. TypeInv /\ TruthInv /\ [Next]_vars => (TypeInv /\ TruthInv)'
  <2> SUFFICES ASSUME TypeInv, TruthInv, [Next]_vars PROVE TypeInv' /\ TruthInv'
    OBVIOUS
  <2>1. TypeInv'
    BY TypeNext
  <2> QED
    BY <2>1, TruthOther, TruthWork DEF Next
<1>3. TruthInv => LogIsTrue
  BY DEF TruthInv
<1> QED
  BY <1>1, <1>2, <1>3, PTL DEF Spec

(***************************************************************************)
(* Open rows have jobs. The invariant keeps the order of a dispatch: its   *)
(* rows appear one after the other, each followed by its job (InOrder),    *)
(* events not yet published have no dispatch (Unpublished), rows go with   *)
(* their hook (HookExists), and only a fault makes a job fail (NoFailure). *)
(***************************************************************************)
Unpublished == \A d \in Dispatch : d[1] \notin published => step[d] = "idle"

InOrder == \A d \in Dispatch :
    /\ step[d] \in {"idle", "message", "hooks"} => \A h \in Hooks : log[<<d, h>>] = "none"
    /\ step[d] = "insert" => \A h \in todo[d] : log[<<d, h>>] = "none"
    /\ step[d] = "add" => \A h, g \in Hooks : Current(d, h) /\ Current(d, g) => h = g

HookExists == \A l \in Log : Live(l) => l[2] \in hooks

NoFailure == faults = 0 => \A j \in Job : at[j] # "failing"

OpenInv == Unpublished /\ InOrder /\ HookExists /\ NoFailure /\ OpenHasJob

\* What keeps an open row open: a job that has not ended, a dispatch that is about
\* to add one, or a retry handler that is.
Served(l) == \/ \E j \in Job : of[j] = l /\ at[j] \notin {"absent", "complete", "ended"}
             \/ step[l[1]] = "add" /\ Current(l[1], l[2])
             \/ l \in retry

IsOpen(l) == log[l] \in {"pending", "retrying"}

\* Initially there are no rows.
LEMMA OpenInit == Init => OpenInv
<1> SUFFICES ASSUME Init PROVE OpenInv
  OBVIOUS
<1>1. \A d \in Dispatch, h \in Hooks : log[<<d, h>>] = "none"
  BY DEF Init, Log
<1> QED
  BY <1>1 DEF Init, OpenInv, Unpublished, InOrder, HookExists, NoFailure, OpenHasJob, Live

\* Steps outside the dispatcher write no row that does not exist, and keep the
\* order of the dispatches.
LEMMA OrderFrame ==
    ASSUME TypeInv, InOrder,
           \A d \in Dispatch : \/ step'[d] = step[d] /\ todo'[d] = todo[d]
                               \/ step[d] = "idle" /\ step'[d] = "message",
           \A l \in Log : log[l] = "none" <=> log'[l] = "none"
    PROVE  InOrder'
<1> SUFFICES ASSUME NEW d \in Dispatch
             PROVE  /\ step'[d] \in {"idle", "message", "hooks"} =>
                          \A h \in Hooks : log'[<<d, h>>] = "none"
                    /\ step'[d] = "insert" => \A h \in todo'[d] : log'[<<d, h>>] = "none"
                    /\ step'[d] = "add" =>
                          \A h, g \in Hooks : Current(d, h)' /\ Current(d, g)' => h = g
  BY DEF InOrder
<1>1. \A h \in Hooks : <<d, h>> \in Log
  BY DEF Log
<1>2. todo[d] \subseteq Hooks
  OBVIOUS
<1> QED
  BY <1>1, <1>2 DEF InOrder, Current

\* A dispatch keeps its own order, and leaves the others'.
LEMMA OrderDispatch ==
    ASSUME TypeInv, OpenInv, NEW d \in Dispatch, Dispatcher(d)
    PROVE  InOrder' /\ Unpublished' /\ HookExists'
<1> USE DEF OpenInv, DispatchUnchanged, Continue, Drop
<1>1. \A h \in Hooks, e \in Dispatch : <<e, h>> \in Log
  BY DEF Log
<1>2. todo[d] \subseteq Hooks
  OBVIOUS
<1>3. step[d] # "idle" /\ UNCHANGED <<published, hooks>>
      /\ \A e \in Dispatch : e # d => step'[e] = step[e] /\ todo'[e] = todo[e]
  BY DEF Dispatcher, FindMessage, FindHooks, Finish, InsertLog, AddDelivery
<1>4. Unpublished'
  BY <1>3 DEF Unpublished
<1>5. CASE FindMessage(d) \/ FindHooks(d) \/ Finish(d)
  <2>1. UNCHANGED log
    BY <1>5 DEF FindMessage, FindHooks, Finish
  <2>2. HookExists'
    BY <1>3, <2>1 DEF HookExists, Live
  <2>3. InOrder'
    BY <1>1, <1>3, <1>5, <2>1 DEF FindMessage, FindHooks, Finish, InOrder, Current
  <2> QED
    BY <1>4, <2>2, <2>3
<1>6. ASSUME NEW h \in Hooks, InsertLog(d, h) PROVE InOrder' /\ HookExists'
  <2>1. log' = log \/ (h \in hooks /\ log' = [log EXCEPT ![<<d, h>>] = "pending"])
    BY <1>6 DEF InsertLog
  <2>2. \/ step'[d] = "done"
        \/ step'[d] = "add" /\ todo'[d] = todo[d]
    BY <1>6 DEF InsertLog
  <2>3. \A g \in todo[d] : log[<<d, g>>] = "none"
    BY <1>6 DEF InsertLog, InOrder
  <2>4. \A g \in Hooks, e \in Dispatch : (e # d \/ g # h) => log'[<<e, g>>] = log[<<e, g>>]
    BY <1>1, <2>1
  <2>5. InOrder'
    BY <1>1, <1>2, <1>3, <2>2, <2>3, <2>4 DEF InOrder, Current
  <2>6. HookExists'
    BY <1>1, <1>3, <2>1 DEF HookExists, Live, Log
  <2> QED
    BY <2>5, <2>6
<1>7. ASSUME NEW h \in Hooks, AddDelivery(d, h) PROVE InOrder' /\ HookExists'
  <2>1. UNCHANGED log /\ step[d] = "add" /\ Current(d, h)
    BY <1>7 DEF AddDelivery
  <2>2. step'[d] = "done" \/ (step'[d] = "insert" /\ todo'[d] = todo[d] \ {h})
    BY <1>7 DEF AddDelivery
  <2>3. \A g \in todo[d] \ {h} : log[<<d, g>>] = "none"
    BY <1>2, <2>1 DEF InOrder, Current
  <2>4. InOrder'
    BY <1>1, <1>2, <1>3, <2>1, <2>2, <2>3 DEF InOrder, Current
  <2>5. HookExists'
    BY <1>3, <2>1 DEF HookExists, Live
  <2> QED
    BY <2>4, <2>5
<1> QED
  BY <1>4, <1>5, <1>6, <1>7 DEF Dispatcher

\* SetStatus leaves rows that do not exist.
LEMMA SetStatusEffect ==
    ASSUME TypeInv, NEW l \in Log, NEW s \in {"pending", "retrying", "success", "failed"},
           SetStatus(l, s)
    PROVE  /\ \A i \in Log : i # l => log'[i] = log[i]
           /\ Live(l) => log'[l] = s
           /\ ~Live(l) => log'[l] = log[l]
           /\ \A i \in Log : (log[i] = "none" <=> log'[i] = "none") /\ (Live(i)' => Live(i))
BY DEF SetStatus, Live

\* The steps of everybody else keep the order as well.
LEMMA OrderOther ==
    ASSUME TypeInv, OpenInv,
           \/ \E j \in Job : Pick(j) \/ Work(j)
           \/ \E l \in Log : AddRetry(l)
           \/ \E p \in Pods : Crash(p)
           \/ \E e \in Events : Publish(e)
           \/ Users \/ Quiet \/ UNCHANGED vars
    PROVE  InOrder' /\ Unpublished' /\ HookExists'
<1> USE DEF OpenInv
<1>1. ASSUME NEW j \in Job, Pick(j) \/ Work(j) PROVE InOrder' /\ Unpublished' /\ HookExists'
  <2>1. UNCHANGED <<eventVars, hooks>>
    BY <1>1 DEF Pick, Work, FindHook, Post, LogSuccess, LogFailure, AddNextTry,
                CompleteJob, FailAttempt, WorkerUnchanged
  <2>2. UNCHANGED log \/ \E s \in {"success", "retrying", "failed"} : SetStatus(of[j], s)
    BY <1>1 DEF Pick, Work, FindHook, Post, LogSuccess, LogFailure, AddNextTry,
                CompleteJob, FailAttempt
  <2>3. \A i \in Log : (log[i] = "none" <=> log'[i] = "none") /\ (Live(i)' => Live(i))
    <3>1. of[j] \in Log
      OBVIOUS
    <3>2. CASE UNCHANGED log
      BY <3>2 DEF Live
    <3> QED
      BY <2>2, <3>1, <3>2, SetStatusEffect
  <2>4. InOrder'
    BY <2>1, <2>3, OrderFrame
  <2>5. Unpublished'
    BY <2>1 DEF Unpublished
  <2>6. HookExists'
    BY <2>1, <2>3 DEF HookExists
  <2> QED
    BY <2>4, <2>5, <2>6
<1>2. ASSUME (\E l \in Log : AddRetry(l)) \/ Quiet \/ UNCHANGED vars
             \/ DeleteMessage \/ ApiCrash
      PROVE  InOrder' /\ Unpublished' /\ HookExists'
  <2>1. UNCHANGED <<eventVars, hooks, log>>
    BY <1>2 DEF AddRetry, Quiet, vars, DeleteMessage, ApiCrash
  <2> QED
    BY <2>1, OrderFrame DEF Unpublished, HookExists, Live
<1>3. ASSUME NEW p \in Pods, Crash(p) PROVE InOrder' /\ Unpublished' /\ HookExists'
  <2>0. /\ UNCHANGED <<published, rowVars>>
        /\ step' = [d \in Dispatch |-> IF d[2] = p /\ step[d] # "idle"
                                      THEN "done" ELSE step[d]]
        /\ todo' = [d \in Dispatch |-> IF d[2] = p THEN {} ELSE todo[d]]
    BY <1>3 DEF Crash
  <2>1. /\ UNCHANGED <<published, hooks, log>>
        /\ \A d \in Dispatch : \/ step'[d] = "done" /\ step[d] # "idle"
                               \/ step'[d] = step[d] /\ todo'[d] = todo[d]
                               \/ step'[d] = "idle" /\ step[d] = "idle"
    BY <2>0
  <2>2. Unpublished' /\ HookExists'
    BY <2>1 DEF Unpublished, HookExists, Live
  <2>3. InOrder'
    BY <2>1 DEF InOrder, Current
  <2> QED
    BY <2>2, <2>3
<1>4. ASSUME NEW e \in Events, Publish(e) PROVE InOrder' /\ Unpublished' /\ HookExists'
  <2>1. UNCHANGED <<todo, log, hooks>> /\ published' = published \cup {e} /\ e \notin published
    BY <1>4 DEF Publish
  <2>0. PICK reached \in SUBSET Pods :
           step' = [d \in Dispatch |-> IF d[1] = e /\ d[2] \in reached
                                      THEN "message" ELSE step[d]]
    BY <1>4 DEF Publish
  <2>2. \A d \in Dispatch : \/ step'[d] = step[d]
                            \/ d[1] = e /\ step[d] = "idle" /\ step'[d] = "message"
    BY <2>0, <2>1 DEF Unpublished
  <2>3. Unpublished' /\ HookExists'
    BY <2>1, <2>2 DEF Unpublished, HookExists, Live
  <2> QED
    BY <2>1, <2>2, <2>3, OrderFrame
<1>5. ASSUME NEW h \in Hooks, DeleteHook(h) PROVE InOrder' /\ Unpublished' /\ HookExists'
  <2>1. UNCHANGED eventVars /\ hooks' = hooks \ {h}
        /\ log' = [l \in Log |-> IF l[2] = h /\ Live(l) THEN "deleted" ELSE log[l]]
    BY <1>5 DEF DeleteHook
  <2>2. \A l \in Log : log[l] = "none" <=> log'[l] = "none"
    BY <2>1 DEF Live
  <2>3. HookExists'
    BY <2>1 DEF HookExists, Live
  <2> QED
    BY <2>1, <2>2, <2>3, OrderFrame DEF Unpublished
<1>6. ASSUME NEW l \in Log, AskRetry(l) PROVE InOrder' /\ Unpublished' /\ HookExists'
  <2>1. UNCHANGED <<eventVars, hooks>> /\ SetStatus(l, "pending")
    BY <1>6 DEF AskRetry
  <2>2. \A i \in Log : (log[i] = "none" <=> log'[i] = "none") /\ (Live(i)' => Live(i))
    BY <2>1, SetStatusEffect
  <2> QED
    BY <2>1, <2>2, OrderFrame DEF Unpublished, HookExists
<1> QED
  BY <1>1, <1>2, <1>3, <1>4, <1>5, <1>6 DEF Users

\* Only faults make a job fail.
LEMMA NoFailureNext == TypeInv /\ NoFailure /\ [Next]_vars => NoFailure'
<1> SUFFICES ASSUME TypeInv, NoFailure, [Next]_vars, faults' = 0,
                    NEW i \in Job, at'[i] = "failing"
             PROVE  FALSE
  BY DEF NoFailure
<1>1. faults = 0 /\ at[i] # "failing"
  BY HistoryGrows, FaultAssumption DEF NoFailure
<1>2. ASSUME NEW j \in Job, Pick(j) \/ Work(j) PROVE FALSE
  BY <1>1, <1>2
     DEF Pick, Work, FindHook, Post, LogSuccess, LogFailure, AddNextTry, CompleteJob,
         FailAttempt, Goto, OnlyAt, Fault, AddJob
<1>3. ASSUME NEW d \in Dispatch, Dispatcher(d) PROVE FALSE
  BY <1>1, <1>3 DEF Dispatcher, FindMessage, FindHooks, Finish, InsertLog, AddDelivery,
                    AddJob
<1>4. CASE (\E l \in Log : AddRetry(l)) \/ (\E p \in Pods : Crash(p))
           \/ (\E e \in Events : Publish(e)) \/ Users \/ Quiet \/ UNCHANGED vars
  BY <1>1, <1>4 DEF AddRetry, AddJob, Crash, Fault, Publish, Users, DeleteMessage,
                    DeleteHook, AskRetry, ApiCrash, Quiet, vars
<1> QED
  BY <1>2, <1>3, <1>4 DEF Next

\* The parts of a log row's name.
LEMMA LogParts ==
    ASSUME NEW l \in Log
    PROVE  l[1] \in Dispatch /\ l[2] \in Hooks /\ l = <<l[1], l[2]>>
BY DEF Log

\* A step of one job that changes no row but its own leaves every other row with
\* what serves it.
LEMMA OpenJob ==
    ASSUME TypeInv, OpenHasJob, faults = 0, NEW j \in Job,
           UNCHANGED <<of, step, todo, retry>>,
           \A i \in Job : i # j => at'[i] = at[i],
           \A l \in Log : l # of[j] => log'[l] = log[l],
           \A l \in Log : log[l] = "none" <=> log'[l] = "none",
           \/ at'[j] \notin {"absent", "complete", "ended"}
           \/ ~IsOpen(of[j])'
           \/ at[j] \in {"absent", "complete", "ended"} /\ log'[of[j]] = log[of[j]],
           NEW l \in Log, IsOpen(l)'
    PROVE  Served(l)'
<1>1. CASE l = of[j] /\ at'[j] \notin {"absent", "complete", "ended"}
  BY <1>1 DEF Served
<1>2. CASE ~(l = of[j] /\ at'[j] \notin {"absent", "complete", "ended"})
  <2>1. /\ log'[l] = log[l]
        /\ l = of[j] => at[j] \in {"absent", "complete", "ended"}
    BY <1>2 DEF IsOpen
  <2>2. Served(l)
    BY <2>1 DEF OpenHasJob, Served, IsOpen
  <2>3. CASE \E i \in Job : of[i] = l /\ at[i] \notin {"absent", "complete", "ended"}
    <3>1. PICK i \in Job : of[i] = l /\ at[i] \notin {"absent", "complete", "ended"}
      BY <2>3
    <3>2. i # j
      BY <2>1, <3>1
    <3> QED
      BY <3>1, <3>2 DEF Served
  <2>4. CASE step[l[1]] = "add" /\ Current(l[1], l[2])
    <3>1. <<l[1], l[2]>> \in Log
      BY LogParts
    <3> QED
      BY <2>4, <3>1 DEF Served, Current
  <2> QED
    BY <2>2, <2>3, <2>4 DEF Served
<1> QED
  BY <1>1, <1>2

\* A new job serves its row and disturbs no other.
LEMMA OpenAdd ==
    ASSUME TypeInv, NEW r \in Log, NEW n, AddJob(r, n, at)
    PROVE  /\ \E k \in Job : of'[k] = r /\ at'[k] = "waiting"
           /\ \A i \in Job : at[i] # "absent" => of'[i] = of[i] /\ at'[i] = at[i]
BY DEF AddJob

\* The delivery worker.
LEMMA OpenWork ==
    ASSUME TypeInv, OpenInv, faults = 0, faults' = 0,
           NEW j \in Job, Pick(j) \/ Work(j),
           NEW l \in Log, IsOpen(l)'
    PROVE  Served(l)'
<1> USE DEF OpenInv
<1>1. \A kind : ~Fault(kind)
  BY DEF Fault
<1>2. UNCHANGED <<step, todo, retry>> /\ of[j] \in Log
  BY DEF Pick, Work, FindHook, Post, LogSuccess, LogFailure, AddNextTry, CompleteJob,
         FailAttempt, WorkerUnchanged, eventVars, userVars
<1>3. CASE Pick(j) \/ Post(j) \/ CompleteJob(j)
  <2>1. /\ UNCHANGED <<of, log>>
        /\ \A i \in Job : i # j => at'[i] = at[i]
        /\ \/ at'[j] \notin {"absent", "complete", "ended"}
           \/ at[j] = "complete"
    BY <1>3 DEF Pick, Post, CompleteJob, Goto, OnlyAt
  <2> QED
    BY <1>2, <2>1, OpenJob
<1>4. CASE FindHook(j)
  <2>1. /\ UNCHANGED <<of, log>>
        /\ \A i \in Job : i # j => at'[i] = at[i]
        /\ at'[j] = "post" \/ of[j][2] \notin hooks
    BY <1>1, <1>4 DEF FindHook, Goto, OnlyAt, Hook
  <2>2. of[j][2] \notin hooks => ~IsOpen(of[j])'
    BY <1>2, <2>1 DEF HookExists, IsOpen, Live
  <2> QED
    BY <1>2, <2>1, <2>2, OpenJob
<1>5. CASE LogSuccess(j)
  <2>1. /\ UNCHANGED of /\ SetStatus(of[j], "success")
        /\ \A i \in Job : i # j => at'[i] = at[i]
    BY <1>1, <1>5 DEF LogSuccess, Goto, OnlyAt
  <2>2. /\ ~IsOpen(of[j])'
        /\ \A i \in Log : i # of[j] => log'[i] = log[i]
        /\ \A i \in Log : log[i] = "none" <=> log'[i] = "none"
    BY <1>2, <2>1, SetStatusEffect DEF IsOpen, Live
  <2> QED
    BY <1>2, <2>1, <2>2, OpenJob
<1>6. CASE LogFailure(j)
  <2>1. /\ UNCHANGED of
        /\ \A i \in Job : i # j => at'[i] = at[i]
        /\ \/ SetStatus(of[j], "failed")
           \/ SetStatus(of[j], "retrying") /\ at'[j] = "add"
    BY <1>1, <1>6 DEF LogFailure, Goto, OnlyAt
  <2>2. /\ at'[j] = "add" \/ ~IsOpen(of[j])'
        /\ \A i \in Log : i # of[j] => log'[i] = log[i]
        /\ \A i \in Log : log[i] = "none" <=> log'[i] = "none"
    BY <1>2, <2>1, SetStatusEffect DEF IsOpen, Live
  <2> QED
    BY <1>2, <2>1, <2>2, OpenJob
<1>7. CASE AddNextTry(j)
  <2>1. /\ UNCHANGED log /\ at[j] = "add"
        /\ AddJob(of[j], try[j] + 1, [at EXCEPT ![j] = "complete"])
    BY <1>1, <1>7 DEF AddNextTry
  <2>2. /\ \E k \in Job : of'[k] = of[j] /\ at'[k] = "waiting"
        /\ \A i \in Job : i # j /\ at[i] # "absent" => of'[i] = of[i] /\ at'[i] = at[i]
    <3>1. PICK k \in Job :
             /\ at[k] = "absent" /\ of' = [of EXCEPT ![k] = of[j]]
             /\ at' = [[at EXCEPT ![j] = "complete"] EXCEPT ![k] = "waiting"]
      BY <2>1 DEF AddJob
    <3> QED
      BY <1>2, <3>1
  <2>3. CASE l = of[j]
    BY <2>2, <2>3 DEF Served
  <2>4. CASE l # of[j]
    <3>1. Served(l)
      BY <2>1 DEF OpenHasJob, Served, IsOpen
    <3>2. CASE \E i \in Job : of[i] = l /\ at[i] \notin {"absent", "complete", "ended"}
      <4>1. PICK i \in Job : of[i] = l /\ at[i] \notin {"absent", "complete", "ended"}
        BY <3>2
      <4>2. i # j
        BY <2>4, <4>1
      <4> QED
        BY <2>2, <4>1, <4>2 DEF Served
    <3>3. CASE step[l[1]] = "add" /\ Current(l[1], l[2])
      BY <1>2, <2>1, <3>3 DEF Served, Current
    <3> QED
      BY <1>2, <3>1, <3>2, <3>3 DEF Served
  <2> QED
    BY <2>3, <2>4
<1>8. CASE FailAttempt(j)
  BY <1>8 DEF FailAttempt, NoFailure
<1> QED
  BY <1>3, <1>4, <1>5, <1>6, <1>7, <1>8 DEF Work

\* The dispatcher hands an open row over from its own "add" to the new job.
LEMMA OpenDispatch ==
    ASSUME TypeInv, OpenInv, faults = 0, faults' = 0,
           NEW d \in Dispatch, Dispatcher(d),
           NEW l \in Log, IsOpen(l)'
    PROVE  Served(l)'
<1> USE DEF OpenInv
<1>1. \A kind : ~Fault(kind)
  BY DEF Fault
<1>2. l[1] \in Dispatch /\ l[2] \in Hooks /\ l = <<l[1], l[2]>>
  BY LogParts
<1>3. /\ UNCHANGED retry
      /\ \A e \in Dispatch : e # d => step'[e] = step[e] /\ todo'[e] = todo[e]
  BY DEF Dispatcher, FindMessage, FindHooks, Finish, InsertLog, AddDelivery, Continue,
         Drop, DispatchUnchanged, userVars
<1>4. ASSUME UNCHANGED <<of, at>>, log'[l] = log[l], step[d] # "add"
      PROVE  Served(l)'
  <2>1. Served(l)
    BY <1>4 DEF OpenHasJob, Served, IsOpen
  <2>2. CASE step[l[1]] = "add" /\ Current(l[1], l[2])
    BY <1>2, <1>3, <1>4, <2>2 DEF Served, Current
  <2> QED
    BY <1>3, <1>4, <2>1, <2>2 DEF Served
<1>5. CASE FindMessage(d) \/ FindHooks(d) \/ Finish(d)
  BY <1>4, <1>5 DEF FindMessage, FindHooks, Finish, jobVars
<1>6. ASSUME NEW h \in Hooks, InsertLog(d, h) PROVE Served(l)'
  <2>1. /\ UNCHANGED <<of, at>> /\ step[d] = "insert" /\ h \in todo[d]
        /\ \/ UNCHANGED log
           \/ /\ log' = [log EXCEPT ![<<d, h>>] = "pending"]
              /\ step'[d] = "add" /\ todo'[d] = todo[d]
    BY <1>1, <1>6 DEF InsertLog, Continue, jobVars
  <2>2. CASE l # <<d, h>> \/ UNCHANGED log
    BY <1>4, <2>1, <2>2
  <2>3. CASE l = <<d, h>> /\ ~UNCHANGED log
    <3>1. step'[d] = "add" /\ h \in todo'[d] /\ log'[l] = "pending"
      BY <2>1, <2>3
    <3>2. l[1] = d /\ l[2] = h
      BY <2>3
    <3> QED
      BY <2>3, <3>1, <3>2 DEF Served, Current
  <2> QED
    BY <2>2, <2>3
<1>7. ASSUME NEW h \in Hooks, AddDelivery(d, h) PROVE Served(l)'
  <2>1. /\ UNCHANGED log /\ step[d] = "add" /\ Current(d, h)
        /\ AddJob(<<d, h>>, 1, at)
    BY <1>1, <1>7 DEF AddDelivery
  <2>2. <<d, h>> \in Log
    BY DEF Log
  <2>3. /\ \E k \in Job : of'[k] = <<d, h>> /\ at'[k] = "waiting"
        /\ \A i \in Job : at[i] # "absent" => of'[i] = of[i] /\ at'[i] = at[i]
    BY <2>1, <2>2, OpenAdd
  <2>4. CASE l = <<d, h>>
    BY <2>3, <2>4 DEF Served
  <2>5. CASE l # <<d, h>>
    <3>1. Served(l)
      BY <2>1 DEF OpenHasJob, Served, IsOpen
    <3>2. CASE step[l[1]] = "add" /\ Current(l[1], l[2])
      <4>1. l[1] # d
        BY <1>2, <2>1, <2>5, <3>2 DEF InOrder
      <4> QED
        BY <1>2, <1>3, <2>1, <3>2, <4>1 DEF Served, Current
    <3> QED
      BY <1>3, <2>3, <3>1, <3>2 DEF Served
  <2> QED
    BY <2>4, <2>5
<1> QED
  BY <1>5, <1>6, <1>7 DEF Dispatcher

\* Retry handlers, users and the bus; crashes are faults.
LEMMA OpenOther ==
    ASSUME TypeInv, OpenInv, faults = 0, faults' = 0,
           \/ \E r \in Log : AddRetry(r)
           \/ \E p \in Pods : Crash(p)
           \/ \E e \in Events : Publish(e)
           \/ Users \/ Quiet \/ UNCHANGED vars,
           NEW l \in Log, IsOpen(l)'
    PROVE  Served(l)'
<1> USE DEF OpenInv
<1>1. \A kind : ~Fault(kind)
  BY DEF Fault
<1>2. l[1] \in Dispatch /\ l[2] \in Hooks /\ l = <<l[1], l[2]>>
  BY LogParts
<1>3. ASSUME NEW r \in Log, AddRetry(r) PROVE Served(l)'
  <2>1. UNCHANGED <<log, step, todo>> /\ retry' = retry \ {r} /\ AddJob(r, 1, at)
    BY <1>1, <1>3 DEF AddRetry, rowVars, eventVars
  <2>2. /\ \E k \in Job : of'[k] = r /\ at'[k] = "waiting"
        /\ \A i \in Job : at[i] # "absent" => of'[i] = of[i] /\ at'[i] = at[i]
    BY <2>1, OpenAdd
  <2>3. Served(l)
    BY <2>1 DEF OpenHasJob, Served, IsOpen
  <2> QED
    BY <2>1, <2>2, <2>3 DEF Served, Current
<1>4. ASSUME UNCHANGED <<of, at>>, retry \subseteq retry',
             IsOpen(l) \/ l \in retry',
             log[l] = "none" <=> log'[l] = "none",
             step[l[1]] = "add" => step'[l[1]] = "add" /\ todo'[l[1]] = todo[l[1]]
      PROVE  Served(l)'
  <2>1. Served(l) \/ l \in retry'
    BY <1>4 DEF OpenHasJob, Served, IsOpen
  <2>2. CASE step[l[1]] = "add" /\ Current(l[1], l[2])
    BY <1>2, <1>4, <2>2 DEF Served, Current
  <2> QED
    BY <1>4, <2>1, <2>2 DEF Served
<1>5. CASE \E p \in Pods : Crash(p)
  BY <1>1, <1>5 DEF Crash
<1>6. ASSUME NEW e \in Events, Publish(e) PROVE Served(l)'
  <2>1. UNCHANGED <<of, at, log, todo, retry>> /\ e \notin published
    BY <1>6 DEF Publish, rowVars, jobVars, userVars
  <2>2. PICK reached \in SUBSET Pods :
           step' = [d \in Dispatch |-> IF d[1] = e /\ d[2] \in reached
                                      THEN "message" ELSE step[d]]
    BY <1>6 DEF Publish
  <2>3. step[l[1]] = "add" => step'[l[1]] = "add"
    BY <1>2, <2>1, <2>2 DEF Unpublished
  <2> QED
    BY <1>4, <2>1, <2>3 DEF IsOpen
<1>7. CASE Quiet \/ UNCHANGED vars \/ DeleteMessage \/ ApiCrash
  <2>1. UNCHANGED <<of, at, log, step, todo, retry>>
    BY <1>1, <1>7 DEF Quiet, vars, DeleteMessage, ApiCrash, eventVars, rowVars, jobVars,
                      userVars
  <2> QED
    BY <1>4, <2>1 DEF IsOpen
<1>8. ASSUME NEW h \in Hooks, DeleteHook(h) PROVE Served(l)'
  <2>1. /\ UNCHANGED <<of, at, step, todo, retry>>
        /\ log' = [r \in Log |-> IF r[2] = h /\ Live(r) THEN "deleted" ELSE log[r]]
    BY <1>8 DEF DeleteHook, eventVars, jobVars, userVars
  <2>2. log'[l] = log[l]
    BY <2>1 DEF IsOpen
  <2> QED
    BY <1>4, <2>1, <2>2 DEF IsOpen
<1>9. ASSUME NEW r \in Log, AskRetry(r) PROVE Served(l)'
  <2>1. /\ UNCHANGED <<of, at, step, todo>> /\ retry' = retry \cup {r}
        /\ SetStatus(r, "pending")
    BY <1>9 DEF AskRetry, eventVars, jobVars
  <2>2. /\ \A i \in Log : i # r => log'[i] = log[i]
        /\ \A i \in Log : log[i] = "none" <=> log'[i] = "none"
    BY <2>1, SetStatusEffect
  <2>3. IsOpen(l) \/ l \in retry'
    BY <2>1, <2>2 DEF IsOpen
  <2> QED
    BY <1>4, <2>1, <2>2, <2>3
<1> QED
  BY <1>3, <1>5, <1>6, <1>7, <1>8, <1>9 DEF Users

\* Every step keeps what an open row rests on.
LEMMA OpenNext == TypeInv /\ OpenInv /\ [Next]_vars => OpenInv'
<1> SUFFICES ASSUME TypeInv, OpenInv, [Next]_vars PROVE OpenInv'
  OBVIOUS
<1>1. InOrder' /\ Unpublished' /\ HookExists'
  BY OrderDispatch, OrderOther DEF Next
<1>2. NoFailure'
  BY NoFailureNext DEF OpenInv
<1>3. OpenHasJob'
  <2> SUFFICES ASSUME faults' = 0, NEW l \in Log, IsOpen(l)' PROVE Served(l)'
    BY DEF OpenHasJob, Served, IsOpen
  <2>1. faults = 0
    BY HistoryGrows, FaultAssumption
  <2> QED
    BY <2>1, OpenDispatch, OpenWork, OpenOther DEF Next
<1> QED
  BY <1>1, <1>2, <1>3 DEF OpenInv

\* As long as nothing breaks, a delivery shown as pending or retrying has a job, or
\* somebody is about to add it: the worker that adds the next try, the dispatcher
\* and the retry handler hand a row over without ever leaving it alone
\* (webhook-dispatcher.ts:254-283, webhooks.ts:177).
THEOREM OpenRowsHaveJobs == Spec => []OpenHasJob
<1>1. Init => TypeInv /\ OpenInv
  BY TypeInit, OpenInit
<1>2. TypeInv /\ OpenInv /\ [Next]_vars => (TypeInv /\ OpenInv)'
  BY TypeNext, OpenNext
<1>3. OpenInv => OpenHasJob
  BY DEF OpenInv
<1> QED
  BY <1>1, <1>2, <1>3, PTL DEF Spec

(***************************************************************************)
(* The endpoint is spared. A delivery is a line of tries, each job handing *)
(* it on to the job of the next try. A retry that a user asks for begins   *)
(* one line more, and a fault, which may run again a job that has already  *)
(* handed its line on, at most doubles the lines. The invariant keeps a    *)
(* ledger for every row: which line each job continues (lab), which tries  *)
(* of which lines have been posted (used) and which lines have been        *)
(* answered (won), with a line set aside for the dispatcher (disp) and one *)
(* for a retry handler (again) while they have yet to add their job. No    *)
(* two jobs continue the same line, except that a job that completes may   *)
(* share it with the waiting job that it handed it on to: the delay of a   *)
(* further try keeps that one from being picked meanwhile (Due).           *)
(***************************************************************************)
Mine(j, l) == of[j] = l /\ at[j] \notin {"absent", "ended"}

\* The calls after which a try is still to be posted, or has just been.
Before == {"waiting", "hook", "post", "failing"}
After  == {"caught", "add"}

Labelled(l, lab) ==
    \A j \in Job : Mine(j, l) => lab[j] \in 1 .. Starts(l) /\ try[j] >= 1

Unspent(l, lab, used, won) ==
    \A j \in Job : Mine(j, l) =>
        /\ at[j] \in Before => \A t \in try[j] .. MaxTries : <<lab[j], t>> \notin used
        /\ at[j] \in After => \A t \in try[j] + 1 .. MaxTries : <<lab[j], t>> \notin used
        /\ at[j] \in Before \cup After => lab[j] \notin won

HandedOn(i, j) == at[i] = "complete" /\ at[j] = "waiting" /\ try[i] < try[j]

Apart(l, lab) ==
    \A i, j \in Job : Mine(i, l) /\ Mine(j, l) /\ i # j /\ lab[i] = lab[j] =>
        HandedOn(i, j) \/ HandedOn(j, i)

MayDispatch(l) == log[l] = "none" \/ (step[l[1]] = "add" /\ Current(l[1], l[2]))

Unused(k, l, lab, used, won) ==
    /\ k \in 1 .. Starts(l) /\ k \notin won
    /\ \A j \in Job : Mine(j, l) => lab[j] # k
    /\ \A t \in 1 .. MaxTries : <<k, t>> \notin used

Reserved(l, lab, used, won, disp, again) ==
    /\ MayDispatch(l) => Unused(disp, l, lab, used, won)
    /\ l \in retry => Unused(again, l, lab, used, won)
    /\ MayDispatch(l) /\ l \in retry => disp # again

Booked(l, used, won) ==
    /\ used \subseteq (1 .. Starts(l)) \X (1 .. MaxTries) /\ posts[l] <= Cardinality(used)
    /\ won \subseteq 1 .. Starts(l) /\ answers[l] <= Cardinality(won)

Ledger(l, lab, used, won, disp, again) ==
    /\ Booked(l, used, won) /\ Labelled(l, lab) /\ Unspent(l, lab, used, won)
    /\ Apart(l, lab) /\ Reserved(l, lab, used, won, disp, again)

Kept(l) ==
    \E lab \in [Job -> Nat], used \in SUBSET (Nat \X Nat), won \in SUBSET Nat,
       disp \in Nat, again \in Nat : Ledger(l, lab, used, won, disp, again)

LedgerInv == \A l \in Log : Kept(l)

\* Twice a power of two is at most the next one: the subsets of 1 .. n + 1 are
\* those of 1 .. n, and as many that hold n + 1.
LEMMA PowerDoubles ==
    ASSUME NEW n \in Nat
    PROVE  2^n \in Nat /\ 2^n >= 1 /\ 2 * 2^n <= 2^(n + 1)
<1> DEFINE A == SUBSET (1 .. n)
           C == SUBSET (1 .. (n + 1))
           F == [a \in A |-> a \cup {n + 1}]
<1>1. /\ IsFiniteSet(1 .. n) /\ Cardinality(1 .. n) = n
      /\ IsFiniteSet(1 .. (n + 1)) /\ Cardinality(1 .. (n + 1)) = n + 1
  BY FS_Interval
<1>2. IsFiniteSet(A) /\ Cardinality(A) = 2^n
  <2>1. IsFiniteSet(A) /\ Cardinality(A) = 2^Cardinality(1 .. n)
    BY <1>1, FS_SUBSET
  <2> QED
    BY <1>1, <2>1
<1>3. IsFiniteSet(C) /\ Cardinality(C) = 2^(n + 1)
  <2>1. IsFiniteSet(C) /\ Cardinality(C) = 2^Cardinality(1 .. (n + 1))
    BY <1>1, FS_SUBSET
  <2> QED
    BY <1>1, <2>1
<1>4. A \subseteq C
  OBVIOUS
<1>5. IsFiniteSet(C \ A) /\ Cardinality(C \ A) = Cardinality(C) - Cardinality(A)
  <2>1. C \cap A = A
    BY <1>4
  <2> HIDE DEF A, C
  <2>2. IsFiniteSet(C \ A) /\ Cardinality(C \ A) = Cardinality(C) - Cardinality(C \cap A)
    BY <1>2, <1>3, FS_Difference
  <2> QED
    BY <2>1, <2>2
<1>6. F \in Injection(A, C \ A)
  <2>1. \A a \in A : a \cup {n + 1} \in C \ A
    OBVIOUS
  <2>2. \A a, b \in A : a \cup {n + 1} = b \cup {n + 1} => a = b
    <3> SUFFICES ASSUME NEW a \in A, NEW b \in A, a \cup {n + 1} = b \cup {n + 1}
                 PROVE  a = b
      OBVIOUS
    <3>1. n + 1 \notin a /\ n + 1 \notin b
      OBVIOUS
    <3>2. a = (a \cup {n + 1}) \ {n + 1} /\ b = (b \cup {n + 1}) \ {n + 1}
      BY <3>1
    <3> QED
      BY <3>2
  <2> HIDE DEF A, C
  <2>3. F \in [A -> C \ A]
    BY <2>1
  <2> QED
    BY <2>2, <2>3 DEF Injection, IsInjective
<1>7. Cardinality(A) <= Cardinality(C \ A)
  <2> HIDE DEF A, C, F
  <2> QED
    BY <1>5, <1>6, FS_Injection
<1>8. Cardinality(A) \in Nat /\ Cardinality(C) \in Nat
  BY <1>2, <1>3, FS_CardinalityType
<1>9. Cardinality(A) # 0
  <2>1. {} \in A
    OBVIOUS
  <2> HIDE DEF A
  <2> QED
    BY <1>2, <2>1, FS_EmptySet
<1> HIDE DEF A, C, F
<1> QED
  BY <1>2, <1>3, <1>5, <1>7, <1>8, <1>9

\* How a product grows with its factors.
LEMMA Products ==
    ASSUME NEW r \in Nat, NEW s \in Nat, NEW p \in Nat, NEW q \in Nat,
           1 <= r, 1 <= p, s \in {r, r + 1}, q = p \/ 2 * p <= q
    PROVE  /\ r * p \in Nat /\ s * q \in Nat /\ 1 <= r * p /\ r * p <= s * q
           /\ 2 * p <= q => 2 * (r * p) <= s * q
           /\ s = r + 1 => r * p + 1 <= s * q
<1>1. r * p \in Nat /\ s * q \in Nat /\ r * q \in Nat
  OBVIOUS
<1>2. PICK c \in Nat : r = 1 + c
  <2>1. r - 1 \in Nat /\ r = 1 + (r - 1)
    OBVIOUS
  <2> QED
    BY <2>1
<1>3. r * p = p + c * p /\ c * p \in Nat
  BY <1>2
<1>4. PICK d \in Nat : q = p + d
  <2>1. q - p \in Nat /\ q = p + (q - p)
    OBVIOUS
  <2> QED
    BY <2>1
<1>5. r * q = r * p + r * d /\ r * d \in Nat
  BY <1>4
<1>6. s * q = r * q \/ s * q = r * q + q
  OBVIOUS
<1>7. s = r + 1 => s * q = r * q + q
  OBVIOUS
<1>8. ASSUME 2 * p <= q PROVE 2 * (r * p) <= r * q
  <2>1. q - 2 * p \in Nat /\ q = 2 * p + (q - 2 * p)
    BY <1>8
  <2>2. PICK e \in Nat : q = 2 * p + e
    BY <2>1
  <2>3. r * q = 2 * (r * p) + r * e /\ r * e \in Nat
    BY <2>2
  <2> QED
    BY <1>1, <2>3
<1>9. 1 <= r * p
  BY <1>3
<1>10. r * p <= r * q /\ p <= q
  BY <1>1, <1>4, <1>5
<1>11. r * p <= s * q
  BY <1>1, <1>6, <1>10
<1>12. 2 * p <= q => 2 * (r * p) <= s * q
  BY <1>1, <1>6, <1>8
<1>13. s = r + 1 => r * p + 1 <= s * q
  BY <1>1, <1>7, <1>10
<1> QED
  BY <1>1, <1>9, <1>11, <1>12, <1>13

\* The lines a row may have: at least one, one more with each retry, and twice as
\* many with each fault.
LEMMA StartsGrow ==
    ASSUME TypeInv, TypeInv', NEW l \in Log,
           faults' \in {faults, faults + 1}, retries'[l] \in {retries[l], retries[l] + 1}
    PROVE  /\ Starts(l) \in Nat /\ Starts(l)' \in Nat
           /\ 1 <= Starts(l) /\ Starts(l) <= Starts(l)'
           /\ faults' = faults + 1 => 2 * Starts(l) <= Starts(l)'
           /\ retries'[l] = retries[l] + 1 => Starts(l) + 1 <= Starts(l)'
<1>1. faults \in Nat /\ faults' \in Nat /\ retries[l] \in Nat /\ retries'[l] \in Nat
  BY FaultAssumption, TriesAssumption
<1>0. PICK r \in Nat : r = 1 + retries[l]
  BY <1>1
<1>2. PICK s \in Nat : /\ s = 1 + retries'[l] /\ 1 <= r /\ s \in {r, r + 1}
                       /\ retries'[l] = retries[l] + 1 => s = r + 1
  BY <1>0, <1>1
<1>3. PICK p \in Nat : p = 2^faults /\ p >= 1
  BY <1>1, PowerDoubles
<1>4. PICK q \in Nat : q = 2^(faults') /\ (q = p \/ 2 * p <= q)
                       /\ (faults' = faults + 1 => 2 * p <= q)
  <2>1. 2^(faults') \in Nat
    BY <1>1, PowerDoubles
  <2>2. faults' = faults + 1 => 2 * p <= 2^(faults')
    BY <1>1, <1>3, PowerDoubles
  <2>3. faults' = faults => 2^(faults') = p
    BY <1>3
  <2> QED
    BY <1>1, <2>1, <2>2, <2>3
<1>5. Starts(l) = r * p /\ Starts(l)' = s * q
  BY <1>0, <1>2, <1>3, <1>4 DEF Starts
<1>6. /\ r * p \in Nat /\ s * q \in Nat /\ 1 <= r * p /\ r * p <= s * q
      /\ 2 * p <= q => 2 * (r * p) <= s * q
      /\ s = r + 1 => r * p + 1 <= s * q
  <2>1. 1 <= r /\ 1 <= p /\ s \in {r, r + 1} /\ (q = p \/ 2 * p <= q)
    BY <1>2, <1>3, <1>4
  <2> QED
    BY <2>1, Products, Zenon
<1>7. faults' = faults + 1 => 2 * (r * p) <= s * q
  BY <1>4, <1>6
<1>8. retries'[l] = retries[l] + 1 => r * p + 1 <= s * q
  BY <1>2, <1>6
<1> QED
  BY <1>5, <1>6, <1>7, <1>8, Zenon

\* Initially a row has its first line set aside for the dispatcher.
LEMMA LedgerInit == Init => LedgerInv
<1> SUFFICES ASSUME Init, NEW l \in Log PROVE Kept(l)
  BY DEF LedgerInv
<1>1. Starts(l) \in Nat /\ 1 <= Starts(l)
  <2>1. Starts(l) = 1 * 2^0
    BY DEF Init, Starts
  <2> QED
    BY <2>1, PowerDoubles
<1> DEFINE lab == [j \in Job |-> 0]
<1>2. Booked(l, {}, {})
  BY FS_EmptySet DEF Init, Booked
<1>3. Labelled(l, lab) /\ Unspent(l, lab, {}, {}) /\ Apart(l, lab)
  BY DEF Init, Labelled, Unspent, Apart, Mine
<1>4. Reserved(l, lab, {}, {}, 1, 1)
  BY <1>1 DEF Init, Reserved, Unused, Mine
<1>5. Ledger(l, lab, {}, {}, 1, 1)
  BY <1>2, <1>3, <1>4 DEF Ledger
<1>6. lab \in [Job -> Nat] /\ {} \in SUBSET (Nat \X Nat) /\ {} \in SUBSET Nat /\ 1 \in Nat
  OBVIOUS
<1> HIDE DEF lab
<1> QED
  BY <1>5, <1>6 DEF Kept

\* How a job goes on with its line.
GoesOn(j) ==
    \/ at'[j] = at[j]
    \/ at[j] = "waiting" /\ Due(j) /\ at'[j] = "hook"
    \/ at[j] = "hook" /\ at'[j] \in {"post", "caught", "complete"}
    \/ at[j] = "answered" /\ at'[j] = "complete"
    \/ at[j] = "caught" /\ at'[j] \in {"add", "complete"}
    \/ at[j] = "failing" /\ at'[j] = "waiting"

\* A step that posts nothing and adds no job to the row keeps its ledger: the jobs
\* go on with their lines, and those that a fault sends back (M) get a line that
\* the fault has added.
LEMMA LedgerMoves ==
    ASSUME TypeInv, TypeInv', NEW l \in Log, Kept(l), NEW M \in SUBSET Job,
           posts'[l] = posts[l], answers'[l] = answers[l],
           Starts(l) \in Nat, Starts(l)' \in Nat, Starts(l) <= Starts(l)',
           M = {} \/ 2 * Starts(l) <= Starts(l)',
           \A j \in M : at[j] \notin {"absent", "ended", "waiting"},
           \A j \in Job : Mine(j, l)' =>
               /\ Mine(j, l) /\ try'[j] = try[j]
               /\ j \in M \/ GoesOn(j),
           MayDispatch(l)' => MayDispatch(l),
           l \in retry' => l \in retry
    PROVE  Kept(l)'
<1>1. PICK lab \in [Job -> Nat], used \in SUBSET (Nat \X Nat), won \in SUBSET Nat,
           disp \in Nat, again \in Nat : Ledger(l, lab, used, won, disp, again)
  BY DEF Kept
<1>2. PICK S \in Nat : S = Starts(l)
  OBVIOUS
<1>3. PICK T \in Nat : T = Starts(l)' /\ S <= T /\ (M = {} \/ 2 * S <= T)
  BY <1>2
<1> DEFINE new == [j \in Job |-> IF j \in M THEN lab[j] + S ELSE lab[j]]
<1>4. new \in [Job -> Nat]
  OBVIOUS
<1>5. \A j \in Job : (j \in M => new[j] = lab[j] + S) /\ (j \notin M => new[j] = lab[j])
  OBVIOUS
<1> HIDE DEF new
<1>6. /\ used \subseteq (1 .. S) \X (1 .. MaxTries) /\ posts[l] <= Cardinality(used)
      /\ won \subseteq 1 .. S /\ answers[l] <= Cardinality(won)
  BY <1>1, <1>2 DEF Ledger, Booked
<1>7. Booked(l, used, won)'
  BY <1>3, <1>6 DEF Booked
<1>8. \A j \in Job : Mine(j, l) => lab[j] \in 1 .. S /\ try[j] >= 1
  BY <1>1, <1>2 DEF Ledger, Labelled
<1>9. Labelled(l, new)'
  BY <1>3, <1>4, <1>5, <1>8 DEF Labelled
<1>10. Unspent(l, new, used, won)'
  <2> SUFFICES ASSUME NEW j \in Job, Mine(j, l)'
               PROVE  /\ at'[j] \in Before =>
                            \A t \in try[j] .. MaxTries : <<new[j], t>> \notin used
                      /\ at'[j] \in After =>
                            \A t \in try[j] + 1 .. MaxTries : <<new[j], t>> \notin used
                      /\ at'[j] \in Before \cup After => new[j] \notin won
    BY DEF Unspent
  <2>1. CASE j \in M
    <3>1. new[j] \notin 1 .. S
      BY <1>4, <1>5, <1>8, <2>1
    <3> QED
      BY <1>6, <3>1
  <2>2. CASE j \notin M
    <3>1. /\ at[j] \in Before => \A t \in try[j] .. MaxTries : <<lab[j], t>> \notin used
          /\ at[j] \in After => \A t \in try[j] + 1 .. MaxTries : <<lab[j], t>> \notin used
          /\ at[j] \in Before \cup After => lab[j] \notin won
      BY <1>1 DEF Ledger, Unspent
    <3>2. /\ at'[j] \in Before => at[j] \in Before
          /\ at'[j] \in After => at[j] \in Before \cup After
      BY <2>2 DEF GoesOn, Before, After
    <3>3. try[j] \in Nat /\ MaxTries \in Nat
      BY TriesAssumption
    <3>4. \A t \in try[j] + 1 .. MaxTries : t \in try[j] .. MaxTries
      BY <3>3
    <3>5. new[j] = lab[j]
      BY <1>5, <2>2
    <3> QED
      BY <3>1, <3>2, <3>4, <3>5
  <2> QED
    BY <2>1, <2>2
<1>11. Apart(l, new)'
  <2> SUFFICES ASSUME NEW i \in Job, NEW j \in Job, Mine(i, l)', Mine(j, l)', i # j,
                      new[i] = new[j]
               PROVE  HandedOn(i, j)' \/ HandedOn(j, i)'
    BY DEF Apart
  <2>1. lab[i] \in 1 .. S /\ lab[j] \in 1 .. S
    BY <1>8
  <2>2. i \in M <=> j \in M
    <3>1. \A m \in 1 .. S, n \in 1 .. S : m + S # n
      OBVIOUS
    <3>2. CASE i \in M /\ j \notin M
      <4>1. lab[i] + S = lab[j]
        BY <1>5, <3>2
      <4> QED
        BY <2>1, <3>1, <4>1
    <3>3. CASE i \notin M /\ j \in M
      <4>1. lab[j] + S = lab[i]
        BY <1>5, <3>3
      <4> QED
        BY <2>1, <3>1, <4>1
    <3> QED
      BY <3>2, <3>3
  <2>3. lab[i] = lab[j]
    <3>1. CASE i \in M
      <4>1. lab[i] + S = lab[j] + S
        BY <1>5, <2>2, <3>1
      <4>2. \A m \in 1 .. S, n \in 1 .. S : m + S = n + S => m = n
        OBVIOUS
      <4> QED
        BY <2>1, <4>1, <4>2
    <3>2. CASE i \notin M
      BY <1>5, <2>2, <3>2
    <3> QED
      BY <3>1, <3>2
  <2>4. HandedOn(i, j) \/ HandedOn(j, i)
    BY <1>1, <2>3 DEF Ledger, Apart
  <2>5. i \notin M /\ j \notin M
    BY <2>2, <2>4 DEF HandedOn
  <2>6. ASSUME NEW a \in Job, NEW b \in Job, HandedOn(a, b), GoesOn(a), GoesOn(b),
               Mine(a, l)', Mine(b, l)'
        PROVE  HandedOn(a, b)'
    BY <2>6 DEF HandedOn, GoesOn, Due, Mine
  <2> QED
    BY <2>4, <2>5, <2>6
<1>12. ASSUME NEW k \in Nat, Unused(k, l, lab, used, won)
       PROVE  Unused(k, l, new, used, won)'
  <2>1. k \in 1 .. S /\ k \in 1 .. T
    BY <1>2, <1>3, <1>12 DEF Unused
  <2>2. \A j \in Job : Mine(j, l)' => new[j] # k
    BY <1>5, <1>8, <1>12, <2>1 DEF Unused
  <2> QED
    BY <1>3, <1>12, <2>1, <2>2 DEF Unused
<1>13. Reserved(l, new, used, won, disp, again)'
  BY <1>1, <1>12 DEF Ledger, Reserved
<1>14. Ledger(l, new, used, won, disp, again)'
  BY <1>7, <1>9, <1>10, <1>11, <1>13 DEF Ledger
<1> QED
  BY <1>4, <1>14 DEF Kept

\* There are n numbers from 1 to n.
LEMMA Counting == ASSUME NEW n \in Nat
                  PROVE  IsFiniteSet(1 .. n) /\ Cardinality(1 .. n) = n
BY FS_Interval

\* What the lemmas below say of the lines and of the sets that book them.
LEMMA LedgerBounds ==
    ASSUME NEW l \in Log, NEW lab, NEW used, NEW won, NEW disp, NEW again,
           Ledger(l, lab, used, won, disp, again), NEW S \in Nat, S = Starts(l)
    PROVE  /\ IsFiniteSet(used) /\ Cardinality(used) \in Nat /\ Cardinality(used) <= S * MaxTries
           /\ IsFiniteSet(won) /\ Cardinality(won) \in Nat /\ Cardinality(won) <= S
<1>1. /\ IsFiniteSet(1 .. S) /\ Cardinality(1 .. S) = S
      /\ IsFiniteSet(1 .. MaxTries) /\ Cardinality(1 .. MaxTries) = MaxTries
  BY Counting, TriesAssumption
<1>2. /\ IsFiniteSet((1 .. S) \X (1 .. MaxTries))
      /\ Cardinality((1 .. S) \X (1 .. MaxTries)) = Cardinality(1 .. S) * Cardinality(1 .. MaxTries)
  BY <1>1, FS_Product
<1>3. used \in SUBSET ((1 .. S) \X (1 .. MaxTries)) /\ won \in SUBSET (1 .. S)
  BY DEF Ledger, Booked
<1>4. IsFiniteSet(used) /\ Cardinality(used) <= Cardinality((1 .. S) \X (1 .. MaxTries))
  BY <1>2, <1>3, FS_Subset
<1>5. IsFiniteSet(won) /\ Cardinality(won) <= Cardinality(1 .. S)
  BY <1>1, <1>3, FS_Subset
<1>6. Cardinality(used) \in Nat /\ Cardinality(won) \in Nat
  BY <1>4, <1>5, FS_CardinalityType
<1> QED
  BY <1>1, <1>2, <1>4, <1>5, <1>6

\* The first job of a delivery takes the line set aside for it, be it by the
\* dispatcher or by a retry handler.
LEMMA LedgerAdds ==
    ASSUME TypeInv, TypeInv', NEW l \in Log, Kept(l),
           posts'[l] = posts[l], answers'[l] = answers[l],
           Starts(l) \in Nat, Starts(l)' \in Nat, Starts(l) <= Starts(l)',
           NEW j \in Job, at[j] = "absent",
           of'[j] = l, try'[j] = 1, at'[j] = "waiting",
           \A i \in Job : i # j => of'[i] = of[i] /\ try'[i] = try[i] /\ at'[i] = at[i],
           MayDispatch(l)' => MayDispatch(l), l \in retry' => l \in retry,
           \/ MayDispatch(l) /\ ~MayDispatch(l)'
           \/ l \in retry /\ l \notin retry'
    PROVE  Kept(l)'
<1>1. PICK lab \in [Job -> Nat], used \in SUBSET (Nat \X Nat), won \in SUBSET Nat,
           disp \in Nat, again \in Nat : Ledger(l, lab, used, won, disp, again)
  BY DEF Kept
<1>2. PICK S \in Nat : S = Starts(l)
  OBVIOUS
<1>3. PICK T \in Nat : T = Starts(l)' /\ S <= T
  BY <1>2
<1>4. PICK k \in Nat : /\ Unused(k, l, lab, used, won)
                       /\ MayDispatch(l)' => disp # k /\ Unused(disp, l, lab, used, won)
                       /\ l \in retry' => again # k /\ Unused(again, l, lab, used, won)
  <2>1. CASE MayDispatch(l) /\ ~MayDispatch(l)'
    <3> WITNESS disp \in Nat
    <3> QED
      BY <1>1, <2>1 DEF Ledger, Reserved
  <2>2. CASE l \in retry /\ l \notin retry'
    <3> WITNESS again \in Nat
    <3> QED
      BY <1>1, <2>2 DEF Ledger, Reserved
  <2> QED
    BY <2>1, <2>2
<1>5. k \in 1 .. S
  BY <1>2, <1>4 DEF Unused
<1> DEFINE new == [lab EXCEPT ![j] = k]
<1>6. new \in [Job -> Nat] /\ new[j] = k /\ \A i \in Job : i # j => new[i] = lab[i]
  OBVIOUS
<1> HIDE DEF new
<1>7. \A i \in Job : Mine(i, l)' => i = j \/ Mine(i, l)
  BY DEF Mine
<1>8. Booked(l, used, won)'
  BY <1>1, <1>2, <1>3 DEF Ledger, Booked
<1>9. Labelled(l, new)'
  BY <1>1, <1>2, <1>3, <1>5, <1>6, <1>7 DEF Ledger, Labelled
<1>10. Unspent(l, new, used, won)'
  <2> SUFFICES ASSUME NEW i \in Job, Mine(i, l)'
               PROVE  /\ at'[i] \in Before =>
                            \A t \in try'[i] .. MaxTries : <<new[i], t>> \notin used
                      /\ at'[i] \in After =>
                            \A t \in try'[i] + 1 .. MaxTries : <<new[i], t>> \notin used
                      /\ at'[i] \in Before \cup After => new[i] \notin won
    BY DEF Unspent
  <2>1. CASE i = j
    BY <1>4, <1>6, <2>1 DEF Unused, Before, After
  <2>2. CASE i # j
    BY <1>1, <1>6, <1>7, <2>2 DEF Ledger, Unspent
  <2> QED
    BY <2>1, <2>2
<1>11. Apart(l, new)'
  <2> SUFFICES ASSUME NEW i \in Job, NEW m \in Job, Mine(i, l)', Mine(m, l)', i # m,
                      new[i] = new[m]
               PROVE  HandedOn(i, m)' \/ HandedOn(m, i)'
    BY DEF Apart
  <2>1. i # j /\ m # j
    BY <1>4, <1>6, <1>7 DEF Unused
  <2> QED
    BY <1>1, <1>6, <1>7, <2>1 DEF Ledger, Apart, HandedOn
<1>12. ASSUME NEW n \in Nat, n # k, Unused(n, l, lab, used, won)
       PROVE  Unused(n, l, new, used, won)'
  BY <1>2, <1>3, <1>6, <1>7, <1>12 DEF Unused
<1>13. Reserved(l, new, used, won, disp, again)'
  BY <1>1, <1>4, <1>12 DEF Ledger, Reserved
<1>14. Ledger(l, new, used, won, disp, again)'
  BY <1>8, <1>9, <1>10, <1>11, <1>13 DEF Ledger
<1> QED
  BY <1>6, <1>14 DEF Kept

\* The job of the next try takes the line of the job that adds it, which completes
\* or, if a fault makes it run again, goes on with a line that the fault has added.
LEMMA LedgerHandsOn ==
    ASSUME TypeInv, TypeInv', NEW l \in Log, Kept(l),
           posts'[l] = posts[l], answers'[l] = answers[l],
           Starts(l) \in Nat, Starts(l)' \in Nat, Starts(l) <= Starts(l)',
           NEW j \in Job, at[j] = "add", of[j] = l, of'[j] = l, try'[j] = try[j],
           \/ at'[j] = "complete"
           \/ at'[j] = "failing" /\ 2 * Starts(l) <= Starts(l)',
           NEW i \in Job, i # j, at[i] = "absent",
           of'[i] = l, try'[i] = try[j] + 1, at'[i] = "waiting",
           \A n \in Job : n # i /\ n # j => of'[n] = of[n] /\ try'[n] = try[n] /\ at'[n] = at[n],
           MayDispatch(l)' => MayDispatch(l), l \in retry' => l \in retry
    PROVE  Kept(l)'
<1>1. PICK lab \in [Job -> Nat], used \in SUBSET (Nat \X Nat), won \in SUBSET Nat,
           disp \in Nat, again \in Nat : Ledger(l, lab, used, won, disp, again)
  BY DEF Kept
<1>2. PICK S \in Nat : S = Starts(l)
  OBVIOUS
<1>3. PICK T \in Nat : T = Starts(l)' /\ S <= T
  BY <1>2
<1>4. Mine(j, l) /\ lab[j] \in 1 .. S /\ try[j] >= 1 /\ try[j] \in Nat /\ MaxTries \in Nat
  BY <1>1, <1>2, TriesAssumption DEF Ledger, Labelled, Mine
<1>5. PICK k \in 1 .. S : k = lab[j]
  BY <1>4
<1>6. PICK m \in Nat : /\ \/ at'[j] = "complete" /\ m = k
                          \/ at'[j] = "failing" /\ m = k + S
                       /\ m \in 1 .. T
  <2>1. CASE at'[j] = "complete"
    BY <1>3, <2>1
  <2>2. CASE at'[j] = "failing"
    <3>1. k + S \in Nat /\ k + S \in 1 .. T
      BY <1>2, <1>3, <2>2
    <3> QED
      BY <2>2, <3>1
  <2> QED
    BY <2>1, <2>2
<1> DEFINE new == [[lab EXCEPT ![i] = k] EXCEPT ![j] = m]
<1>7. /\ new \in [Job -> Nat] /\ new[i] = k /\ new[j] = m
      /\ \A n \in Job : n # i /\ n # j => new[n] = lab[n]
  OBVIOUS
<1> HIDE DEF new
<1>8. \A n \in Job : Mine(n, l)' => n = i \/ Mine(n, l)
  BY DEF Mine
<1>9. \A n \in Job : Mine(n, l) => lab[n] \in 1 .. S /\ try[n] >= 1
  BY <1>1, <1>2 DEF Ledger, Labelled
<1>10. \A n \in Job : Mine(n, l) /\ n # j => lab[n] # k
  BY <1>1, <1>4, <1>5 DEF Ledger, Apart, HandedOn
<1>11. m = k \/ m \notin 1 .. S
  BY <1>6
<1>12. Booked(l, used, won)'
  BY <1>1, <1>2, <1>3 DEF Ledger, Booked
<1>13. Labelled(l, new)'
  <2> SUFFICES ASSUME NEW n \in Job, Mine(n, l)'
               PROVE  new[n] \in 1 .. T /\ try'[n] >= 1
    BY <1>3 DEF Labelled
  <2>1. CASE n = i
    BY <1>3, <1>4, <1>7, <2>1
  <2>2. CASE n = j
    BY <1>4, <1>6, <1>7, <2>2
  <2>3. CASE n # i /\ n # j
    BY <1>3, <1>7, <1>8, <1>9, <2>3
  <2> QED
    BY <2>1, <2>2, <2>3
<1>14. Unspent(l, new, used, won)'
  <2> SUFFICES ASSUME NEW n \in Job, Mine(n, l)'
               PROVE  /\ at'[n] \in Before =>
                            \A t \in try'[n] .. MaxTries : <<new[n], t>> \notin used
                      /\ at'[n] \in After =>
                            \A t \in try'[n] + 1 .. MaxTries : <<new[n], t>> \notin used
                      /\ at'[n] \in Before \cup After => new[n] \notin won
    BY DEF Unspent
  <2>1. CASE n = i
    <3>1. /\ \A t \in try[j] + 1 .. MaxTries : <<k, t>> \notin used
          /\ k \notin won
      BY <1>1, <1>4, <1>5 DEF Ledger, Unspent, After
    <3> QED
      BY <1>7, <2>1, <3>1 DEF After
  <2>2. CASE n = j /\ at'[j] = "failing"
    <3>1. m \notin 1 .. S
      BY <1>6, <2>2
    <3> QED
      BY <1>1, <1>2, <1>7, <2>2, <3>1 DEF Ledger, Booked
  <2>3. CASE n = j /\ at'[j] = "complete"
    BY <2>3 DEF Before, After
  <2>4. CASE n # i /\ n # j
    BY <1>1, <1>7, <1>8, <2>4 DEF Ledger, Unspent
  <2> QED
    BY <2>1, <2>2, <2>3, <2>4
<1>15. Apart(l, new)'
  <2> SUFFICES ASSUME NEW a \in Job, NEW b \in Job, Mine(a, l)', Mine(b, l)', a # b,
                      new[a] = new[b]
               PROVE  HandedOn(a, b)' \/ HandedOn(b, a)'
    BY DEF Apart
  <2>1. ASSUME NEW n \in Job, Mine(n, l)', n # i, n # j
        PROVE  new[n] # k /\ new[n] # m
    BY <1>7, <1>8, <1>9, <1>10, <1>11, <2>1
  <2>2. CASE {a, b} = {i, j}
    <3>1. m = k /\ at'[j] = "complete"
      <4>1. new[i] = new[j]
        BY <2>2
      <4>2. k = m
        BY <1>7, <4>1
      <4>3. \A c \in 1 .. S : c # c + S
        BY <1>2
      <4> QED
        BY <1>5, <1>6, <4>2, <4>3
    <3>2. HandedOn(j, i)'
      BY <1>4, <3>1 DEF HandedOn
    <3>3. CASE a = i /\ b = j
      BY <3>2, <3>3
    <3>4. CASE a = j /\ b = i
      BY <3>2, <3>4
    <3> QED
      BY <2>2, <3>3, <3>4
  <2>3. CASE a \notin {i, j} /\ b \in {i, j}
    BY <1>7, <2>1, <2>3
  <2>4. CASE b \notin {i, j} /\ a \in {i, j}
    BY <1>7, <2>1, <2>4
  <2>5. CASE a \notin {i, j} /\ b \notin {i, j}
    BY <1>1, <1>7, <1>8, <2>5 DEF Ledger, Apart, HandedOn
  <2> QED
    BY <2>2, <2>3, <2>4, <2>5
<1>16. ASSUME NEW c \in Nat, Unused(c, l, lab, used, won)
       PROVE  Unused(c, l, new, used, won)'
  <2>1. c \in 1 .. S /\ c \in 1 .. T /\ c # k
    BY <1>2, <1>3, <1>4, <1>5, <1>16 DEF Unused
  <2>2. \A n \in Job : Mine(n, l)' => new[n] # c
    <3> SUFFICES ASSUME NEW n \in Job, Mine(n, l)' PROVE new[n] # c
      OBVIOUS
    <3>1. CASE n \in {i, j}
      BY <1>7, <1>11, <2>1, <3>1
    <3>2. CASE n \notin {i, j}
      BY <1>7, <1>8, <1>16, <3>2 DEF Unused
    <3> QED
      BY <3>1, <3>2
  <2> QED
    BY <1>3, <1>16, <2>1, <2>2 DEF Unused
<1>17. Reserved(l, new, used, won, disp, again)'
  BY <1>1, <1>16 DEF Ledger, Reserved
<1>18. Ledger(l, new, used, won, disp, again)'
  BY <1>12, <1>13, <1>14, <1>15, <1>17 DEF Ledger
<1> QED
  BY <1>7, <1>18 DEF Kept

\* A post takes a try of the job's line, and an answer with 2xx the line itself.
LEMMA LedgerPosts ==
    ASSUME TypeInv, TypeInv', NEW l \in Log, Kept(l),
           Starts(l) \in Nat, Starts(l)' = Starts(l),
           NEW j \in Job, at[j] = "post", of[j] = l, of' = of, try' = try,
           posts'[l] = posts[l] + 1,
           \/ at'[j] = "answered" /\ answers'[l] = answers[l] + 1
           \/ at'[j] = "caught" /\ answers'[l] = answers[l],
           \A i \in Job : i # j => at'[i] = at[i],
           MayDispatch(l)' => MayDispatch(l), l \in retry' => l \in retry
    PROVE  Kept(l)'
<1>1. PICK lab \in [Job -> Nat], used \in SUBSET (Nat \X Nat), won \in SUBSET Nat,
           disp \in Nat, again \in Nat : Ledger(l, lab, used, won, disp, again)
  BY DEF Kept
<1>2. PICK S \in Nat : S = Starts(l)
  OBVIOUS
<1>3. Mine(j, l) /\ lab[j] \in 1 .. S /\ try[j] \in 1 .. MaxTries /\ MaxTries \in Nat
  BY <1>1, <1>2, TriesAssumption DEF Ledger, Labelled, Mine
<1>4. PICK k \in 1 .. S : k = lab[j]
  BY <1>3
<1>5. PICK n \in 1 .. MaxTries : n = try[j]
  BY <1>3
<1>6. /\ \A t \in n .. MaxTries : <<k, t>> \notin used
      /\ k \notin won
  BY <1>1, <1>3, <1>4, <1>5 DEF Ledger, Unspent, Before
<1>7. <<k, n>> \notin used
  <2>1. n \in n .. MaxTries
    BY <1>3
  <2> QED
    BY <1>6, <2>1
<1>8. PICK paid \in SUBSET (Nat \X Nat) : paid = used \cup {<<k, n>>}
  <2>1. k \in Nat /\ n \in Nat
    BY <1>2, <1>3, <1>4, <1>5
  <2>2. used \cup {<<k, n>>} \in SUBSET (Nat \X Nat)
    BY <2>1
  <2> QED
    BY <2>2
<1>9. PICK done \in SUBSET Nat :
         \/ at'[j] = "answered" /\ done = won \cup {k}
         \/ at'[j] = "caught" /\ done = won
  <2>1. won \cup {k} \in SUBSET Nat
    OBVIOUS
  <2> QED
    BY <2>1
<1>10. \A i \in Job : Mine(i, l)' <=> Mine(i, l)
  <2> SUFFICES ASSUME NEW i \in Job PROVE Mine(i, l)' <=> Mine(i, l)
    OBVIOUS
  <2> QED
    BY DEF Mine
<1>11. \A i \in Job : Mine(i, l) /\ i # j => lab[i] # k
  BY <1>1, <1>3, <1>4 DEF Ledger, Apart, HandedOn
<1>12. Booked(l, paid, done)'
  <2>1. /\ IsFiniteSet(used) /\ Cardinality(used) \in Nat
        /\ IsFiniteSet(won) /\ Cardinality(won) \in Nat
    BY <1>1, <1>2, LedgerBounds
  <2>2. Cardinality(paid) = Cardinality(used) + 1
    BY <1>7, <1>8, <2>1, FS_AddElement
  <2>3. Cardinality(won \cup {k}) = Cardinality(won) + 1
    BY <1>6, <2>1, FS_AddElement
  <2>4. /\ used \subseteq (1 .. S) \X (1 .. MaxTries) /\ posts[l] <= Cardinality(used)
        /\ won \subseteq 1 .. S /\ answers[l] <= Cardinality(won)
    BY <1>1, <1>2 DEF Ledger, Booked
  <2>5. posts[l] \in Nat /\ answers[l] \in Nat
    OBVIOUS
  <2>6. paid \subseteq (1 .. S) \X (1 .. MaxTries) /\ posts'[l] <= Cardinality(paid)
    BY <1>8, <2>1, <2>2, <2>4, <2>5
  <2>7. done \subseteq 1 .. S
    BY <1>9, <2>4
  <2>8. answers'[l] <= Cardinality(done)
    <3>1. CASE at'[j] = "answered" /\ done = won \cup {k}
      BY <2>1, <2>3, <2>4, <2>5, <3>1
    <3>2. CASE at'[j] = "caught" /\ done = won
      BY <2>4, <3>2
    <3> QED
      BY <1>9, <3>1, <3>2
  <2> QED
    BY <1>2, <2>6, <2>7, <2>8 DEF Booked
<1>13. Labelled(l, lab)'
  BY <1>1, <1>2, <1>10 DEF Ledger, Labelled
<1>14. Unspent(l, lab, paid, done)'
  <2> SUFFICES ASSUME NEW i \in Job, Mine(i, l)'
               PROVE  /\ at'[i] \in Before =>
                            \A t \in try[i] .. MaxTries : <<lab[i], t>> \notin paid
                      /\ at'[i] \in After =>
                            \A t \in try[i] + 1 .. MaxTries : <<lab[i], t>> \notin paid
                      /\ at'[i] \in Before \cup After => lab[i] \notin done
    BY DEF Unspent
  <2>1. CASE i = j
    <3>1. \A t \in n + 1 .. MaxTries : t \in n .. MaxTries /\ t # n
      BY <1>3
    <3>2. \A t \in n + 1 .. MaxTries : <<k, t>> \notin paid
      BY <1>6, <1>8, <3>1
    <3> QED
      BY <1>4, <1>5, <1>6, <1>9, <2>1, <3>2 DEF Before, After
  <2>2. CASE i # j
    <3>1. Mine(i, l) /\ lab[i] # k /\ at'[i] = at[i]
      BY <1>10, <1>11, <2>2
    <3> QED
      BY <1>1, <1>8, <1>9, <3>1 DEF Ledger, Unspent
  <2> QED
    BY <2>1, <2>2
<1>15. Apart(l, lab)'
  <2> SUFFICES ASSUME NEW a \in Job, NEW b \in Job, Mine(a, l)', Mine(b, l)', a # b,
                      lab[a] = lab[b]
               PROVE  HandedOn(a, b)' \/ HandedOn(b, a)'
    BY DEF Apart
  <2>1. Mine(a, l) /\ Mine(b, l) /\ a # j /\ b # j
    BY <1>4, <1>10, <1>11
  <2> QED
    BY <1>1, <2>1 DEF Ledger, Apart, HandedOn
<1>16. ASSUME NEW c \in Nat, Unused(c, l, lab, used, won)
       PROVE  Unused(c, l, lab, paid, done)'
  <2>1. c # k
    BY <1>3, <1>4, <1>16 DEF Unused
  <2> QED
    BY <1>8, <1>9, <1>10, <1>16, <2>1 DEF Unused
<1>17. Reserved(l, lab, paid, done, disp, again)'
  BY <1>1, <1>16 DEF Ledger, Reserved
<1>18. Ledger(l, lab, paid, done, disp, again)'
  BY <1>12, <1>13, <1>14, <1>15, <1>17 DEF Ledger
<1> QED
  BY <1>18 DEF Kept

\* A retry that a user asks for sets a further line aside.
LEMMA LedgerAsks ==
    ASSUME TypeInv, TypeInv', NEW l \in Log, Kept(l),
           posts' = posts, answers' = answers, UNCHANGED jobVars,
           Starts(l) \in Nat, Starts(l)' \in Nat, Starts(l) + 1 <= Starts(l)',
           MayDispatch(l)' => MayDispatch(l)
    PROVE  Kept(l)'
<1>1. PICK lab \in [Job -> Nat], used \in SUBSET (Nat \X Nat), won \in SUBSET Nat,
           disp \in Nat, again \in Nat : Ledger(l, lab, used, won, disp, again)
  BY DEF Kept
<1>2. PICK S \in Nat : S = Starts(l)
  OBVIOUS
<1>3. PICK T \in Nat : T = Starts(l)' /\ S + 1 <= T
  BY <1>2
<1>4. PICK k \in Nat : k = S + 1
  OBVIOUS
<1>5. \A j \in Job : Mine(j, l)' <=> Mine(j, l)
  <2> SUFFICES ASSUME NEW j \in Job PROVE Mine(j, l)' <=> Mine(j, l)
    OBVIOUS
  <2> QED
    BY DEF Mine
<1>6. /\ used \subseteq (1 .. S) \X (1 .. MaxTries) /\ posts[l] <= Cardinality(used)
      /\ won \subseteq 1 .. S /\ answers[l] <= Cardinality(won)
      /\ \A j \in Job : Mine(j, l) => lab[j] \in 1 .. S /\ try[j] >= 1
  BY <1>1, <1>2 DEF Ledger, Booked, Labelled
<1>7. 1 .. S \subseteq 1 .. T /\ k \in 1 .. T /\ k \notin 1 .. S
  BY <1>2, <1>3, <1>4
<1>8. Booked(l, used, won)' /\ Labelled(l, lab)'
  BY <1>3, <1>5, <1>6, <1>7 DEF Booked, Labelled
<1>9. Unspent(l, lab, used, won)' /\ Apart(l, lab)'
  BY <1>1, <1>5 DEF Ledger, Unspent, Apart, HandedOn
<1>10. Unused(k, l, lab, used, won)'
  <2>1. \A t \in 1 .. MaxTries : <<k, t>> \notin used
    BY <1>6, <1>7
  <2> QED
    BY <1>3, <1>5, <1>6, <1>7, <2>1 DEF Unused
<1>11. MayDispatch(l)' => Unused(disp, l, lab, used, won)' /\ disp # k
  <2> SUFFICES ASSUME MayDispatch(l)' PROVE Unused(disp, l, lab, used, won)' /\ disp # k
    OBVIOUS
  <2>1. Unused(disp, l, lab, used, won)
    BY <1>1 DEF Ledger, Reserved
  <2>2. disp \in 1 .. S
    BY <1>2, <2>1 DEF Unused
  <2> QED
    BY <1>3, <1>5, <1>7, <2>1, <2>2 DEF Unused
<1>12. Reserved(l, lab, used, won, disp, k)'
  BY <1>10, <1>11 DEF Reserved
<1>13. Ledger(l, lab, used, won, disp, k)'
  BY <1>8, <1>9, <1>12 DEF Ledger
<1> QED
  BY <1>13 DEF Kept

\* What a step may do to the bounds: a fault doubles the lines of every row, a
\* retry adds one to those of its own.
LEMMA StartsStep ==
    ASSUME TypeInv, TypeInv', [Next]_vars, NEW l \in Log
    PROVE  /\ Starts(l) \in Nat /\ Starts(l)' \in Nat
           /\ 1 <= Starts(l) /\ Starts(l) <= Starts(l)'
           /\ faults' = faults + 1 => 2 * Starts(l) <= Starts(l)'
           /\ retries'[l] = retries[l] + 1 => Starts(l) + 1 <= Starts(l)'
<1>1. faults' \in {faults, faults + 1}
  <2>1. ASSUME NEW j \in Job, Pick(j) \/ Work(j) PROVE faults' \in {faults, faults + 1}
    BY <2>1 DEF Pick, Work, FindHook, Post, LogSuccess, LogFailure, AddNextTry, CompleteJob,
                FailAttempt, Fault
  <2>2. ASSUME NEW d \in Dispatch, Dispatcher(d) PROVE faults' \in {faults, faults + 1}
    BY <2>2 DEF Dispatcher, FindMessage, FindHooks, Finish, InsertLog, AddDelivery, Fault
  <2>3. CASE (\E r \in Log : AddRetry(r)) \/ (\E p \in Pods : Crash(p))
             \/ (\E e \in Events : Publish(e)) \/ Users \/ Quiet \/ UNCHANGED vars
    BY <2>3 DEF AddRetry, Crash, Fault, Publish, Users, DeleteMessage, DeleteHook, AskRetry,
                ApiCrash, Quiet, vars
  <2> QED
    BY <2>1, <2>2, <2>3 DEF Next
<1>2. retries'[l] \in {retries[l], retries[l] + 1}
  <2>1. ASSUME NEW j \in Job, Pick(j) \/ Work(j) PROVE UNCHANGED retries
    BY <2>1 DEF Pick, Work, FindHook, Post, LogSuccess, LogFailure, AddNextTry, CompleteJob,
                FailAttempt, WorkerUnchanged
  <2>2. ASSUME NEW d \in Dispatch, Dispatcher(d) PROVE UNCHANGED retries
    BY <2>2 DEF Dispatcher, FindMessage, FindHooks, Finish, InsertLog, AddDelivery,
                DispatchUnchanged
  <2>3. CASE (\E r \in Log : AddRetry(r)) \/ (\E p \in Pods : Crash(p))
             \/ (\E e \in Events : Publish(e)) \/ Users \/ Quiet \/ UNCHANGED vars
    BY <2>3 DEF AddRetry, Crash, Publish, Users, DeleteMessage, DeleteHook, AskRetry,
                ApiCrash, Quiet, vars
  <2> QED
    BY <2>1, <2>2, <2>3 DEF Next
<1> QED
  BY <1>1, <1>2, StartsGrow

\* A dispatch that has let go of a row does not come back to it.
LEMMA DispatchLetsGo ==
    ASSUME TypeInv, OpenInv, [Next]_vars, NEW l \in Log, MayDispatch(l)'
    PROVE  MayDispatch(l)
<1>1. l[1] \in Dispatch /\ l[2] \in Hooks /\ l = <<l[1], l[2]>>
  BY LogParts
<1>2. ASSUME step'[l[1]] # "add" \/ (step'[l[1]] = step[l[1]] /\ todo'[l[1]] = todo[l[1]]),
             log'[l] = "none" <=> log[l] = "none"
      PROVE  MayDispatch(l)
  BY <1>1, <1>2 DEF MayDispatch, Current
<1>3. ASSUME NEW d \in Dispatch, Dispatcher(d) PROVE MayDispatch(l)
  <2> USE DEF Continue, Drop, DispatchUnchanged
  <2>1. CASE FindMessage(d) \/ FindHooks(d) \/ Finish(d)
    <3>1. UNCHANGED log
      BY <2>1 DEF FindMessage, FindHooks, Finish
    <3>2. \/ step'[l[1]] # "add"
          \/ step'[l[1]] = step[l[1]] /\ todo'[l[1]] = todo[l[1]]
      BY <1>1, <2>1 DEF FindMessage, FindHooks, Finish
    <3> QED
      BY <1>2, <3>1, <3>2
  <2>2. ASSUME NEW h \in Hooks, InsertLog(d, h) PROVE MayDispatch(l)
    <3>1. <<d, h>> \in Log /\ (l = <<d, h>> <=> l[1] = d /\ l[2] = h)
      BY <1>1 DEF Log
    <3>2. CASE l = <<d, h>>
      BY <2>2, <3>2 DEF InsertLog, MayDispatch
    <3>3. CASE l # <<d, h>>
      <4>1. log'[l] = log[l]
        BY <2>2, <3>1, <3>3 DEF InsertLog
      <4>2. CASE l[1] # d
        <5>1. step'[l[1]] = step[l[1]] /\ todo'[l[1]] = todo[l[1]]
          BY <1>1, <2>2, <4>2 DEF InsertLog
        <5> QED
          BY <1>2, <4>1, <5>1
      <4>3. CASE l[1] = d
        <5>1. step'[d] = "add" => todo'[d] = todo[d]
          BY <2>2 DEF InsertLog
        <5>2. l[2] \in todo[d] => log[l] = "none"
          BY <1>1, <2>2, <4>3 DEF InsertLog, OpenInv, InOrder
        <5> QED
          BY <1>1, <4>1, <4>3, <5>1, <5>2 DEF MayDispatch, Current
      <4> QED
        BY <4>2, <4>3
    <3> QED
      BY <3>2, <3>3
  <2>3. ASSUME NEW h \in Hooks, AddDelivery(d, h) PROVE MayDispatch(l)
    <3>1. UNCHANGED log
      BY <2>3 DEF AddDelivery
    <3>2. \/ step'[l[1]] # "add"
          \/ step'[l[1]] = step[l[1]] /\ todo'[l[1]] = todo[l[1]]
      BY <1>1, <2>3 DEF AddDelivery
    <3> QED
      BY <1>2, <3>1, <3>2
  <2> QED
    BY <1>3, <2>1, <2>2, <2>3 DEF Dispatcher
<1>4. ASSUME NEW j \in Job, Pick(j) \/ Work(j) PROVE MayDispatch(l)
  <2>1. UNCHANGED <<step, todo>>
    BY <1>4 DEF Pick, Work, FindHook, Post, LogSuccess, LogFailure, AddNextTry, CompleteJob,
                FailAttempt, WorkerUnchanged
  <2>2. \/ UNCHANGED log
        \/ \E s \in {"success", "failed", "retrying"} : SetStatus(of[j], s)
    BY <1>4 DEF Pick, Work, FindHook, Post, LogSuccess, LogFailure, AddNextTry, CompleteJob,
                FailAttempt
  <2>3. log'[l] = "none" <=> log[l] = "none"
    BY <2>2 DEF SetStatus, Live
  <2> QED
    BY <1>2, <2>1, <2>3
<1>5. ASSUME NEW e \in Events, Publish(e) PROVE MayDispatch(l)
  <2>1. UNCHANGED <<log, todo>>
    BY <1>5 DEF Publish
  <2>2. step'[l[1]] \in {step[l[1]], "message"}
    BY <1>1, <1>5 DEF Publish
  <2> QED
    BY <1>2, <2>1, <2>2
<1>6. ASSUME NEW p \in Pods, Crash(p) PROVE MayDispatch(l)
  <2>1. UNCHANGED log
    BY <1>6 DEF Crash
  <2>2. /\ step'[l[1]] = IF l[1][2] = p /\ step[l[1]] # "idle" THEN "done" ELSE step[l[1]]
        /\ todo'[l[1]] = IF l[1][2] = p THEN {} ELSE todo[l[1]]
    BY <1>1, <1>6 DEF Crash
  <2>3. \/ step'[l[1]] # "add"
        \/ step'[l[1]] = step[l[1]] /\ todo'[l[1]] = todo[l[1]]
    BY <2>2
  <2> QED
    BY <1>2, <2>1, <2>3
<1>7. CASE (\E r \in Log : AddRetry(r)) \/ Quiet \/ UNCHANGED vars \/ DeleteMessage \/ ApiCrash
  <2>1. UNCHANGED <<step, todo, log>>
    BY <1>7 DEF AddRetry, Quiet, vars, DeleteMessage, ApiCrash
  <2> QED
    BY <1>2, <2>1
<1>8. ASSUME NEW h \in Hooks, DeleteHook(h) PROVE MayDispatch(l)
  <2>1. UNCHANGED <<step, todo>> /\ (log'[l] = "none" <=> log[l] = "none")
    BY <1>8 DEF DeleteHook, Live
  <2> QED
    BY <1>2, <2>1
<1>9. ASSUME NEW r \in Log, AskRetry(r) PROVE MayDispatch(l)
  <2>1. UNCHANGED <<step, todo>> /\ (log'[l] = "none" <=> log[l] = "none")
    BY <1>9 DEF AskRetry, SetStatus, Live
  <2> QED
    BY <1>2, <2>1
<1> QED
  BY <1>3, <1>4, <1>5, <1>6, <1>7, <1>8, <1>9 DEF Next, Users

\* A step that leaves all jobs to where they are keeps every ledger.
LEMMA LedgerRests ==
    ASSUME TypeInv, TypeInv', OpenInv, [Next]_vars, NEW l \in Log, Kept(l),
           posts'[l] = posts[l], answers'[l] = answers[l], l \in retry' => l \in retry,
           \A j \in Job : Mine(j, l)' => /\ Mine(j, l)
                                         /\ try'[j] = try[j] /\ at'[j] = at[j]
    PROVE  Kept(l)'
<1>1. /\ Starts(l) \in Nat /\ Starts(l)' \in Nat /\ Starts(l) <= Starts(l)'
      /\ MayDispatch(l)' => MayDispatch(l)
  BY StartsStep, DispatchLetsGo
<1>2. \A j \in Job : Mine(j, l)' =>
          Mine(j, l) /\ try'[j] = try[j] /\ (j \in {} \/ GoesOn(j))
  BY DEF GoesOn
<1>3. PICK M \in SUBSET Job : M = {}
  OBVIOUS
<1>4. M = {} \/ 2 * Starts(l) <= Starts(l)'
  BY <1>3
<1>5. \A j \in M : at[j] \notin {"absent", "ended", "waiting"}
  BY <1>3
<1>6. \A j \in Job : Mine(j, l)' => /\ Mine(j, l) /\ try'[j] = try[j]
                                    /\ j \in M \/ GoesOn(j)
  BY <1>2
<1> QED
  BY <1>1, <1>4, <1>5, <1>6, LedgerMoves

\* Adding a job to another row does not touch the ledger.
LEMMA LedgerOfAnother ==
    ASSUME TypeInv, TypeInv', OpenInv, [Next]_vars, NEW l \in Log, Kept(l),
           posts'[l] = posts[l], answers'[l] = answers[l], l \in retry' => l \in retry,
           NEW r \in Log, r # l,
           NEW i \in Job, at[i] = "absent", of'[i] = r,
           \A n \in Job : n # i => /\ of'[n] = of[n] /\ try'[n] = try[n]
                                   /\ of[n] = r \/ at'[n] = at[n]
    PROVE  Kept(l)'
<1>1. \A n \in Job : Mine(n, l)' => /\ Mine(n, l)
                                    /\ try'[n] = try[n] /\ at'[n] = at[n]
  BY DEF Mine
<1> QED
  BY <1>1, LedgerRests

\* The worker goes on with the line of its job, posts it, or hands it on.
LEMMA LedgerWork ==
    ASSUME TypeInv, TypeInv', OpenInv, [Next]_vars,
           NEW j \in Job, Pick(j) \/ Work(j), NEW l \in Log, Kept(l)
    PROVE  Kept(l)'
<1>1. /\ Starts(l) \in Nat /\ Starts(l)' \in Nat /\ Starts(l) <= Starts(l)'
      /\ faults' = faults + 1 => 2 * Starts(l) <= Starts(l)'
      /\ MayDispatch(l)' => MayDispatch(l)
  BY StartsStep, DispatchLetsGo
<1>2. UNCHANGED <<retry, retries>>
  BY DEF Pick, Work, FindHook, Post, LogSuccess, LogFailure, AddNextTry, CompleteJob,
         FailAttempt, WorkerUnchanged
<1>3. of[j] \in Log /\ try[j] \in 0 .. MaxTries
  OBVIOUS
<1>4. ASSUME UNCHANGED <<posts, answers, of, try>>,
             \A i \in Job : i # j => at'[i] = at[i],
             GoesOn(j) \/ at'[j] = "ended"
                 \/ (at[j] \notin {"absent", "ended", "waiting"} /\ faults' = faults + 1)
      PROVE  Kept(l)'
  <2>1. PICK M \in SUBSET Job :
           \/ M = {} /\ (GoesOn(j) \/ at'[j] = "ended")
           \/ M = {j} /\ at[j] \notin {"absent", "ended", "waiting"} /\ faults' = faults + 1
    <3>1. {} \in SUBSET Job /\ {j} \in SUBSET Job
      OBVIOUS
    <3> QED
      BY <1>4, <3>1
  <2>2. M = {} \/ 2 * Starts(l) <= Starts(l)'
    BY <1>1, <2>1
  <2>3. \A i \in M : at[i] \notin {"absent", "ended", "waiting"}
    BY <2>1
  <2>4. \A i \in Job : Mine(i, l)' => /\ Mine(i, l) /\ try'[i] = try[i]
                                      /\ i \in M \/ GoesOn(i)
    <3> SUFFICES ASSUME NEW i \in Job, Mine(i, l)'
                 PROVE  Mine(i, l) /\ try'[i] = try[i] /\ (i \in M \/ GoesOn(i))
      OBVIOUS
    <3>1. CASE i # j
      BY <1>4, <3>1 DEF Mine, GoesOn
    <3>2. CASE i = j
      BY <1>4, <2>1, <3>2 DEF Mine, GoesOn
    <3> QED
      BY <3>1, <3>2
  <2> QED
    BY <1>1, <1>2, <1>4, <2>2, <2>3, <2>4, LedgerMoves
<1>5. CASE Pick(j)
  <2>1. UNCHANGED <<posts, answers, of, try>> /\ Due(j)
        /\ at[j] = "waiting" /\ at' = [at EXCEPT ![j] = "hook"]
    BY <1>5 DEF Pick, Goto, OnlyAt
  <2>2. GoesOn(j)
    BY <2>1 DEF GoesOn
  <2> QED
    BY <1>4, <2>1, <2>2
<1>6. CASE FindHook(j)
  <2>1. UNCHANGED <<posts, answers, of, try>> /\ at[j] = "hook"
        /\ \/ at' = [at EXCEPT ![j] = "post"]
           \/ at' = [at EXCEPT ![j] = "complete"]
           \/ at' = [at EXCEPT ![j] = "caught"]
    BY <1>6 DEF FindHook, Goto, OnlyAt
  <2>2. GoesOn(j)
    BY <2>1 DEF GoesOn
  <2> QED
    BY <1>4, <2>1, <2>2
<1>7. CASE LogSuccess(j)
  <2>1. UNCHANGED <<posts, answers, of, try>> /\ at[j] = "answered"
        /\ \/ at' = [at EXCEPT ![j] = "complete"]
           \/ at' = [at EXCEPT ![j] = "caught"] /\ faults' = faults + 1
    BY <1>7 DEF LogSuccess, Goto, OnlyAt, Fault
  <2>2. GoesOn(j) \/ faults' = faults + 1
    BY <2>1 DEF GoesOn
  <2> QED
    BY <1>4, <2>1, <2>2
<1>8. CASE LogFailure(j)
  <2>1. UNCHANGED <<posts, answers, of, try>> /\ at[j] = "caught"
        /\ \/ at' = [at EXCEPT ![j] = "complete"]
           \/ at' = [at EXCEPT ![j] = "add"]
           \/ at' = [at EXCEPT ![j] = "failing"] /\ faults' = faults + 1
    BY <1>8 DEF LogFailure, Goto, OnlyAt, Fault
  <2>2. GoesOn(j) \/ faults' = faults + 1
    BY <2>1 DEF GoesOn
  <2> QED
    BY <1>4, <2>1, <2>2
<1>9. CASE CompleteJob(j)
  <2>1. UNCHANGED <<posts, answers, of, try>> /\ at' = [at EXCEPT ![j] = "ended"]
    BY <1>9 DEF CompleteJob, Goto, OnlyAt
  <2> QED
    BY <1>4, <2>1
<1>10. CASE FailAttempt(j)
  <2>1. UNCHANGED <<posts, answers, of, try>> /\ at[j] = "failing"
        /\ \/ at' = [at EXCEPT ![j] = "waiting"]
           \/ at' = [at EXCEPT ![j] = "ended"]
    BY <1>10 DEF FailAttempt, Goto
  <2>2. GoesOn(j) \/ at'[j] = "ended"
    BY <2>1 DEF GoesOn
  <2> QED
    BY <1>4, <2>1, <2>2
<1>11. CASE Post(j)
  <2>1. /\ at[j] = "post" /\ UNCHANGED <<of, try, faults>>
        /\ posts' = [posts EXCEPT ![of[j]] = @ + 1]
        /\ \/ /\ at' = [at EXCEPT ![j] = "answered"]
              /\ answers' = [answers EXCEPT ![of[j]] = @ + 1]
           \/ at' = [at EXCEPT ![j] = "caught"] /\ UNCHANGED answers
    BY <1>11 DEF Post, Goto, OnlyAt
  <2>2. CASE l # of[j]
    <3>1. /\ posts'[l] = posts[l] /\ answers'[l] = answers[l]
          /\ \A n \in Job : n # j => at'[n] = at[n]
      BY <1>3, <2>1, <2>2
    <3>2. \A n \in Job : Mine(n, l)' => Mine(n, l) /\ try'[n] = try[n] /\ at'[n] = at[n]
      BY <2>1, <2>2, <3>1 DEF Mine
    <3> QED
      BY <1>2, <3>1, <3>2, LedgerRests
  <2>3. CASE l = of[j]
    <3>1. Starts(l)' = Starts(l)
      BY <1>2, <2>1 DEF Starts
    <3>2. /\ posts'[l] = posts[l] + 1
          /\ \/ at'[j] = "answered" /\ answers'[l] = answers[l] + 1
             \/ at'[j] = "caught" /\ answers'[l] = answers[l]
          /\ \A i \in Job : i # j => at'[i] = at[i]
      BY <2>1, <2>3
    <3> QED
      BY <1>1, <1>2, <2>1, <2>3, <3>1, <3>2, LedgerPosts
  <2> QED
    BY <2>2, <2>3
<1>12. CASE AddNextTry(j)
  <2>1. at[j] = "add" /\ UNCHANGED <<posts, answers>>
    BY <1>12 DEF AddNextTry
  <2>2. CASE faults' = faults + 1 /\ at' = [at EXCEPT ![j] = "failing"] /\ OnlyAt
    BY <1>4, <2>1, <2>2 DEF OnlyAt
  <2>3. ASSUME NEW p \in {"complete", "failing"}, p = "complete" \/ faults' = faults + 1,
               AddJob(of[j], try[j] + 1, [at EXCEPT ![j] = p])
        PROVE  Kept(l)'
    <3>1. PICK i \in Job :
             /\ at[i] = "absent"
             /\ of' = [of EXCEPT ![i] = of[j]]
             /\ try' = [try EXCEPT ![i] = try[j] + 1]
             /\ at' = [[at EXCEPT ![j] = p] EXCEPT ![i] = "waiting"]
      BY <2>3 DEF AddJob
    <3>2. i # j
      BY <2>1, <3>1
    <3>3. /\ of'[i] = of[j] /\ try'[i] = try[j] + 1 /\ at'[i] = "waiting"
          /\ of'[j] = of[j] /\ try'[j] = try[j] /\ at'[j] = p
          /\ \A n \in Job : n # i => of'[n] = of[n] /\ try'[n] = try[n]
          /\ \A n \in Job : n # i /\ n # j => at'[n] = at[n]
      BY <3>1, <3>2
    <3>4. CASE l # of[j]
      <4>1. \A n \in Job : n # i => /\ of'[n] = of[n] /\ try'[n] = try[n]
                                    /\ of[n] = of[j] \/ at'[n] = at[n]
        BY <3>3
      <4> QED
        BY <1>2, <1>3, <2>1, <3>1, <3>3, <3>4, <4>1, LedgerOfAnother
    <3>5. CASE l = of[j]
      <4>1. \/ at'[j] = "complete"
            \/ at'[j] = "failing" /\ 2 * Starts(l) <= Starts(l)'
        BY <1>1, <2>3, <3>3
      <4>2. \A n \in Job : n # i /\ n # j =>
                of'[n] = of[n] /\ try'[n] = try[n] /\ at'[n] = at[n]
        BY <3>3
      <4> QED
        BY <1>1, <1>2, <2>1, <3>1, <3>2, <3>3, <3>5, <4>1, <4>2, LedgerHandsOn
    <3> QED
      BY <3>4, <3>5
  <2> QED
    BY <1>12, <2>2, <2>3 DEF AddNextTry, Fault, Goto
<1> QED
  BY <1>5, <1>6, <1>7, <1>8, <1>9, <1>10, <1>11, <1>12 DEF Work

\* The first job of a delivery is added by the dispatcher or by a retry handler,
\* which then lets go of the row.
LEMMA LedgerFirst ==
    ASSUME TypeInv, TypeInv', OpenInv, [Next]_vars, NEW l \in Log, Kept(l),
           UNCHANGED postVars, l \in retry' => l \in retry,
           NEW r \in Log, AddJob(r, 1, at),
           \/ MayDispatch(r) /\ ~MayDispatch(r)'
           \/ r \in retry /\ r \notin retry'
    PROVE  Kept(l)'
<1>1. /\ Starts(l) \in Nat /\ Starts(l)' \in Nat /\ Starts(l) <= Starts(l)'
      /\ MayDispatch(l)' => MayDispatch(l)
  BY StartsStep, DispatchLetsGo
<1>2. PICK j \in Job : /\ at[j] = "absent" /\ of'[j] = r /\ try'[j] = 1
                       /\ at'[j] = "waiting"
                       /\ \A i \in Job : i # j => /\ of'[i] = of[i] /\ try'[i] = try[i]
                                                  /\ at'[i] = at[i]
  BY DEF AddJob
<1>3. posts'[l] = posts[l] /\ answers'[l] = answers[l]
  OBVIOUS
<1>4. CASE l = r
  BY <1>1, <1>2, <1>3, <1>4, LedgerAdds
<1>5. CASE l # r
  <2>1. \A i \in Job : i # j => /\ of'[i] = of[i] /\ try'[i] = try[i]
                                /\ of[i] = r \/ at'[i] = at[i]
    BY <1>2
  <2> QED
    BY <1>2, <1>3, <1>5, <2>1, LedgerOfAnother
<1> QED
  BY <1>4, <1>5

\* The dispatcher adds the first job of a row, once.
LEMMA LedgerDispatch ==
    ASSUME TypeInv, TypeInv', OpenInv, [Next]_vars,
           NEW d \in Dispatch, Dispatcher(d), NEW l \in Log, Kept(l)
    PROVE  Kept(l)'
<1>1. UNCHANGED <<postVars, retry>>
  BY DEF Dispatcher, FindMessage, FindHooks, Finish, InsertLog, AddDelivery, DispatchUnchanged
<1>2. ASSUME UNCHANGED jobVars PROVE Kept(l)'
  <2>1. \A j \in Job : Mine(j, l)' => Mine(j, l) /\ try'[j] = try[j] /\ at'[j] = at[j]
    BY <1>2 DEF Mine
  <2> QED
    BY <1>1, <2>1, LedgerRests
<1>3. ASSUME NEW h \in Hooks, AddDelivery(d, h), AddJob(<<d, h>>, 1, at) PROVE Kept(l)'
  <2>1. <<d, h>> \in Log
    BY DEF Log
  <2>2. /\ step[d] = "add" /\ Current(d, h) /\ UNCHANGED log
        /\ step'[d] \in {"insert", "done"}
    BY <1>3 DEF AddDelivery, Continue, Drop
  <2>3. MayDispatch(<<d, h>>)
    BY <2>2 DEF MayDispatch
  <2>4. ~MayDispatch(<<d, h>>)'
    BY <2>2 DEF MayDispatch, Current
  <2> QED
    BY <1>1, <1>3, <2>1, <2>3, <2>4, LedgerFirst
<1> QED
  BY <1>2, <1>3 DEF Dispatcher, FindMessage, FindHooks, Finish, InsertLog, AddDelivery

\* A retry handler adds the job of the retry asked for; a process that dies leaves
\* jobs that run again, with the lines that its fault adds; nobody else touches them.
LEMMA LedgerOther ==
    ASSUME TypeInv, TypeInv', OpenInv, [Next]_vars,
           \/ \E r \in Log : AddRetry(r)
           \/ \E p \in Pods : Crash(p)
           \/ \E e \in Events : Publish(e)
           \/ Users \/ Quiet \/ UNCHANGED vars,
           NEW l \in Log, Kept(l)
    PROVE  Kept(l)'
<1>1. ASSUME UNCHANGED <<jobVars, postVars>>, l \in retry' => l \in retry PROVE Kept(l)'
  <2>1. \A j \in Job : Mine(j, l)' => Mine(j, l) /\ try'[j] = try[j] /\ at'[j] = at[j]
    BY <1>1 DEF Mine
  <2> QED
    BY <1>1, <2>1, LedgerRests
<1>2. ASSUME NEW r \in Log, AddRetry(r) PROVE Kept(l)'
  <2>1. r \in retry /\ retry' = retry \ {r} /\ UNCHANGED postVars
    BY <1>2 DEF AddRetry
  <2>2. CASE UNCHANGED jobVars
    BY <1>1, <2>1, <2>2
  <2>3. CASE AddJob(r, 1, at)
    BY <2>1, <2>3, LedgerFirst
  <2> QED
    BY <1>2, <2>2, <2>3 DEF AddRetry
<1>3. ASSUME NEW p \in Pods, Crash(p) PROVE Kept(l)'
  <2>1. UNCHANGED <<of, try, posts, answers, retry>> /\ faults' = faults + 1
    BY <1>3 DEF Crash, Fault
  <2>2. PICK lost \in SUBSET {j \in Job : Active(j)} :
           at' = [j \in Job |-> IF j \notin lost THEN at[j]
                                ELSE IF stalledCount[j] < MaxStalls
                                     THEN "waiting" ELSE "ended"]
    BY <1>3 DEF Crash
  <2>3. lost \in SUBSET Job /\ \A j \in lost : at[j] \notin {"absent", "ended", "waiting"}
    BY DEF Active, Idle
  <2>4. \A j \in Job : Mine(j, l)' => /\ Mine(j, l) /\ try'[j] = try[j]
                                      /\ j \in lost \/ GoesOn(j)
    BY <2>1, <2>2, <2>3 DEF Mine, GoesOn
  <2>5. /\ Starts(l) \in Nat /\ Starts(l)' \in Nat /\ Starts(l) <= Starts(l)'
        /\ 2 * Starts(l) <= Starts(l)'
        /\ MayDispatch(l)' => MayDispatch(l)
    BY <2>1, StartsStep, DispatchLetsGo
  <2> QED
    BY <2>1, <2>3, <2>4, <2>5, LedgerMoves
<1>4. ASSUME NEW r \in Log, AskRetry(r) PROVE Kept(l)'
  <2>1. UNCHANGED <<jobVars, postVars>> /\ retry' = retry \cup {r}
        /\ retries' = [retries EXCEPT ![r] = @ + 1]
    BY <1>4 DEF AskRetry
  <2>2. CASE l = r
    <3>1. retries'[l] = retries[l] + 1
      BY <2>1, <2>2
    <3>2. /\ Starts(l) \in Nat /\ Starts(l)' \in Nat /\ Starts(l) + 1 <= Starts(l)'
          /\ MayDispatch(l)' => MayDispatch(l)
      BY <3>1, StartsStep, DispatchLetsGo
    <3> QED
      BY <2>1, <3>2, LedgerAsks
  <2>3. CASE l # r
    BY <1>1, <2>1, <2>3
  <2> QED
    BY <2>2, <2>3
<1>5. CASE (\E e \in Events : Publish(e)) \/ Quiet \/ UNCHANGED vars
           \/ DeleteMessage \/ ApiCrash \/ (\E h \in Hooks : DeleteHook(h))
  <2>1. UNCHANGED <<jobVars, postVars>> /\ retry' \subseteq retry
    BY <1>5 DEF Publish, Quiet, vars, DeleteMessage, ApiCrash, DeleteHook
  <2> QED
    BY <1>1, <2>1
<1> QED
  BY <1>2, <1>3, <1>4, <1>5 DEF Users

\* The endpoint is asked at most MaxTries times, and answers with 2xx at most once,
\* for every line of tries: the worker's own retries and BullMQ's do not multiply
\* (webhook-dispatcher.ts:254-283, queue/src/index.ts:107-117), whatever the faults.
THEOREM EndpointIsSpared == Spec => []EndpointSpared
<1>1. Init => TypeInv /\ OpenInv /\ LedgerInv
  BY TypeInit, OpenInit, LedgerInit
<1>2. TypeInv /\ OpenInv /\ LedgerInv /\ [Next]_vars => (TypeInv /\ OpenInv /\ LedgerInv)'
  <2> SUFFICES ASSUME TypeInv, OpenInv, LedgerInv, [Next]_vars
               PROVE  TypeInv' /\ OpenInv' /\ LedgerInv'
    OBVIOUS
  <2>1. TypeInv' /\ OpenInv'
    BY TypeNext, OpenNext
  <2>2. ASSUME NEW l \in Log PROVE Kept(l)'
    <3>1. Kept(l)
      BY DEF LedgerInv
    <3> QED
      BY <2>1, <3>1, LedgerWork, LedgerDispatch, LedgerOther DEF Next
  <2> QED
    BY <2>1, <2>2 DEF LedgerInv
<1>3. TypeInv /\ LedgerInv => EndpointSpared
  <2> SUFFICES ASSUME TypeInv, LedgerInv, NEW l \in Log
               PROVE  posts[l] <= MaxTries * Starts(l) /\ answers[l] <= Starts(l)
    BY DEF EndpointSpared, PostsBounded, AnsweredOnce
  <2>1. PICK lab \in [Job -> Nat], used \in SUBSET (Nat \X Nat), won \in SUBSET Nat,
             disp \in Nat, again \in Nat : Ledger(l, lab, used, won, disp, again)
    BY DEF LedgerInv, Kept
  <2>2. PICK S \in Nat : S = Starts(l)
    <3>1. faults \in Nat /\ retries[l] \in Nat
      BY FaultAssumption, TriesAssumption
    <3>2. 2^faults \in Nat
      BY <3>1, PowerDoubles
    <3> QED
      BY <3>1, <3>2 DEF Starts
  <2>3. posts[l] <= Cardinality(used) /\ answers[l] <= Cardinality(won)
    BY <2>1 DEF Ledger, Booked
  <2>4. /\ Cardinality(used) \in Nat /\ Cardinality(used) <= S * MaxTries
        /\ Cardinality(won) \in Nat /\ Cardinality(won) <= S
    BY <2>1, <2>2, LedgerBounds
  <2>5. posts[l] \in Nat /\ answers[l] \in Nat /\ MaxTries \in Nat
        /\ S * MaxTries = MaxTries * S /\ S * MaxTries \in Nat
    BY TriesAssumption
  <2> QED
    BY <2>2, <2>3, <2>4, <2>5
<1> QED
  BY <1>1, <1>2, <1>3, PTL DEF Spec
===============================================================================
