-------------------------- MODULE InboundMail_proofs --------------------------
(***************************************************************************)
(* Proofs about InboundMail, for any number of sessions, attempts, stalls  *)
(* and faults: its type, that what is completed was announced, that an     *)
(* acknowledged mail is lost and copied only by faults, and that rows and  *)
(* objects come and go together.                                           *)
(***************************************************************************)
EXTENDS InboundMail, FiniteSetTheorems, TLAPS

(***************************************************************************)
(* Type correctness. TypeOK is not inductive by itself: that a session's   *)
(* job is not already running when it is added rests on a session adding   *)
(* it once.                                                                *)
(***************************************************************************)
NotAdded == \A s \in Session :
    smtp[s] \in {"idle", "put", "route", "enqueue"} => jobState[s] = "absent"

TypeInv == TypeOK /\ NotAdded

\* What the steps of this section expand everywhere.
USE DEF smtpVars, queueVars, workVars, storeVars, rowVars, cleanVars, TypeInv,
        NotAdded, TypeOK, SmtpType, QueueType, RowType, HistoryType, ActiveRun,
        Active

\* The initial state has the type.
LEMMA TypeInit == Init => TypeInv
BY QueueAssumption, FaultAssumption DEF Init

\* The steps of a DATA session keep the type.
LEMMA SessionType ==
    ASSUME TypeInv, NEW s \in Session,
           SendData(s) \/ Receive(s) \/ ServerCrash(s)
    PROVE  TypeInv'
<1> USE FaultAssumption DEF Answer, Step, ServerUnchanged
<1>1. CASE SendData(s)
  BY <1>1 DEF SendData
<1>2. CASE TooLarge(s)
  BY <1>2 DEF TooLarge
<1>3. CASE PutRaw(s)
  BY <1>3 DEF PutRaw, Fault
<1>4. CASE Route(s)
  BY <1>4 DEF Route, Fault
<1>5. CASE Enqueue(s)
  BY <1>5 DEF Enqueue, AddJob, Fault
<1>6. CASE ServerCrash(s)
  BY <1>6 DEF ServerCrash, Fault
<1> QED
  BY <1>1, <1>2, <1>3, <1>4, <1>5, <1>6 DEF Receive

\* An active run has a row of its own.
LEMMA ThisIsRow ==
    ASSUME TypeInv, NEW s \in Session, Active(s)
    PROVE  This(s) \in RowId
BY QueueAssumption DEF This, RowId, Runs

\* The steps of the worker keep the type.
LEMMA WorkType ==
    ASSUME TypeInv, NEW s \in Session, Pick(s) \/ Work(s)
    PROVE  TypeInv'
<1> USE QueueAssumption, FaultAssumption
    DEF Goto, WorkerUnchanged, QueueUnchanged, NoWrite
<1>1. CASE Pick(s)
  BY <1>1 DEF Pick
<1>2. CASE FetchRaw(s)
  BY <1>2 DEF FetchRaw, Fault
<1>3. CASE Attach(s)
  BY <1>3, ThisIsRow DEF Attach, Fault
<1>4. CASE Insert(s)
  BY <1>4 DEF Insert, InsertRow, Fault
<1>5. CASE Announce(s)
  BY <1>5 DEF Announce, Fault
<1>6. CASE Fire(s)
  BY <1>6, ThisIsRow DEF Fire, PublishReceived, Fault
<1>7. CASE CompleteJob(s)
  BY <1>7 DEF CompleteJob
<1>8. CASE FailAttempt(s)
  BY <1>8 DEF FailAttempt
<1> QED
  BY <1>1, <1>2, <1>3, <1>4, <1>5, <1>6, <1>7, <1>8 DEF Work

\* So does the death of the worker process.
LEMMA CrashType == TypeInv /\ WorkerCrash => TypeInv'
BY QueueAssumption, FaultAssumption DEF WorkerCrash, Fault

\* Users and cleanup keep the type.
LEMMA UserType == TypeInv /\ Users => TypeInv'
<1> SUFFICES ASSUME TypeInv, Users PROVE TypeInv'
  OBVIOUS
<1> USE FaultAssumption DEF UserUnchanged, Without
<1>1. ASSUME NEW id \in RowId, SetRead(id, "read") \/ SetRead(id, "unread")
      PROVE  TypeInv'
  BY <1>1 DEF SetRead
<1>2. ASSUME NEW ids \in SUBSET Present, DeleteRows(ids) PROVE TypeInv'
  BY <1>2 DEF DeleteRows, Present
<1>3. ASSUME NEW id \in RowId, RemoveStored(id) PROVE TypeInv'
  BY <1>3 DEF RemoveStored, Fault
<1>4. CASE ApiCrash
  BY <1>4 DEF ApiCrash, Fault
<1>5. CASE DeleteInbox
  BY <1>5 DEF DeleteInbox
<1> QED
  BY <1>1, <1>2, <1>3, <1>4, <1>5 DEF Users

\* The type is kept by the cleanup worker.
LEMMA CleanType ==
    ASSUME TypeInv, Clean \/ \E ids \in SUBSET ReadRows : SelectOld(ids)
    PROVE  TypeInv'
<1> USE FaultAssumption DEF CleanUnchanged
<1>1. ASSUME NEW ids \in SUBSET ReadRows, SelectOld(ids) PROVE TypeInv'
  BY <1>1 DEF SelectOld, ReadRows
<1>2. CASE RemoveObjects
  BY <1>2 DEF RemoveObjects, Fault
<1>3. CASE DeleteBatch
  BY <1>3 DEF DeleteBatch, Without, Fault
<1> QED
  BY <1>1, <1>2, <1>3 DEF Clean

\* Every step keeps the type.
LEMMA TypeNext == TypeInv /\ [Next]_vars => TypeInv'
<1> SUFFICES ASSUME TypeInv, [Next]_vars PROVE TypeInv'
  OBVIOUS
<1>1. CASE \E s \in Session : \/ SendData(s) \/ Receive(s) \/ ServerCrash(s)
                              \/ Pick(s) \/ Work(s)
  BY <1>1, SessionType, WorkType
<1>2. CASE WorkerCrash \/ Users \/ Clean
           \/ \E ids \in SUBSET ReadRows : SelectOld(ids)
  BY <1>2, CrashType, UserType, CleanType
<1>3. CASE Quiet \/ UNCHANGED vars
  BY <1>3 DEF Quiet, vars
<1> QED
  BY <1>1, <1>2, <1>3 DEF Next

\* The variables stay in their types; a job has a run exactly while it is active
\* and attempts left until it ends (BullMQ and processIncomingEmail).
THEOREM TypeCorrect == Spec => []TypeOK
<1>1. Spec => []TypeInv
  BY TypeInit, TypeNext, PTL DEF Spec
<1>2. TypeInv => TypeOK
  OBVIOUS
<1> QED
  BY <1>1, <1>2, PTL

(***************************************************************************)
(* Announcement and loss. The invariant follows a job: what its run has    *)
(* saved and announced (RunSaved), that its .eml stays until a row owns it *)
(* (RawKept, which needs that only rows are deleted: OwnedByRows), and     *)
(* that as long as nothing is saved every attempt and every stall was paid *)
(* for by a fault (Paid).                                                  *)
(***************************************************************************)
OwnedByRows == \A id \in leftover \cup batch : row[id] # "none"

RunSaved ==
    \A s \in Session :
        /\ pc[s] \in {"announce", "fire", "complete"} => row[This(s)] # "none"
        /\ pc[s] = "complete" => This(s) \in announced

\* The session has a job, or will have one if nothing breaks.
Stored(s) == smtp[s] \in {"route", "enqueue"} \/ jobState[s] # "absent"

RawKept == \A s \in Session : Stored(s) /\ ~Saved(s) => s \in raw

Savable(s) == inbox /\ fits /\ ~Saved(s)

Failing(s) == IF pc[s] = "failing" THEN 1 ELSE 0

Paid == \A s \in Session :
    Savable(s) => attemptsMade[s] + stalledCount[s] + Failing(s) <= faults

GivenUp == \A s \in Session :
    Savable(s) /\ jobState[s] = "failed" =>
        faults >= MaxAttempts \/ faults > MaxStalls

Acknowledged == \A s \in Session : smtp[s] = "accepted" => jobState[s] # "absent"

LossInv == /\ OwnedByRows /\ RunSaved /\ RawKept /\ Paid /\ GivenUp
           /\ Acknowledged /\ CompletedIsAnnounced

\* Initially nothing is under way.
LEMMA LossInit == Init => LossInv
BY DEF Init, LossInv, OwnedByRows, RunSaved, RawKept, Stored, Savable, Paid,
       Failing, GivenUp, Acknowledged, CompletedIsAnnounced

\* A row is never forgotten, and an inbox never comes back.
LEMMA RowsStay ==
    ASSUME TypeInv, [Next]_vars
    PROVE  /\ \A id \in RowId : row[id] # "none" => row'[id] # "none"
           /\ inbox' => inbox
           /\ fits' = fits
           /\ faults <= faults' /\ faults \in Nat /\ faults' \in Nat
<1> USE FaultAssumption DEF Without
<1>1. CASE \E s \in Session : SendData(s) \/ Receive(s) \/ ServerCrash(s)
  BY <1>1 DEF SendData, Receive, TooLarge, PutRaw, Route, Enqueue, ServerCrash,
              ServerUnchanged, Answer, Step, Fault
<1>2. CASE \E s \in Session : Pick(s) \/ Work(s)
  <2>1. PICK s \in Session : Pick(s) \/ Work(s)
    BY <1>2
  <2>2. row' = row \/ InsertRow(s)
    BY <2>1 DEF Pick, Work, FetchRaw, Attach, Insert, Announce, Fire, CompleteJob,
                FailAttempt, NoWrite
  <2>3. UNCHANGED <<inbox, fits>> /\ faults <= faults' /\ faults' \in Nat
    BY <2>1 DEF Pick, Work, FetchRaw, Attach, Insert, Announce, Fire, CompleteJob,
                FailAttempt, WorkerUnchanged, Fault
  <2> QED
    BY <2>2, <2>3 DEF InsertRow
<1>3. CASE WorkerCrash \/ Quiet \/ UNCHANGED vars
  BY <1>3 DEF WorkerCrash, Quiet, vars, Fault
<1>4. CASE Users
  BY <1>4 DEF Users, SetRead, DeleteRows, RemoveStored, ApiCrash, DeleteInbox,
              UserUnchanged, Fault, Exists
<1>5. CASE Clean \/ \E ids \in SUBSET ReadRows : SelectOld(ids)
  BY <1>5 DEF Clean, SelectOld, RemoveObjects, DeleteBatch, CleanUnchanged, Fault
<1> QED
  BY <1>1, <1>2, <1>3, <1>4, <1>5 DEF Next

\* So what is saved stays saved, and what could be saved later could be before.
LEMMA SavedStays ==
    ASSUME TypeInv, [Next]_vars, NEW s \in Session
    PROVE  /\ Saved(s) => Saved(s)'
           /\ Savable(s)' => Savable(s)
<1>1. Saved(s) => Saved(s)'
  BY RowsStay DEF Saved, RowId
<1> QED
  BY <1>1, RowsStay DEF Savable

\* Whatever changes neither a job nor its run keeps what LossInv says of it, if
\* it removes no .eml without a row and leaves announcements alone.
LEMMA LossFrame ==
    ASSUME TypeInv, LossInv, [Next]_vars,
           UNCHANGED <<queueVars, pc, announced>>,
           OwnedByRows',
           \A s \in Session : Stored(s)' /\ ~Saved(s) /\ (Stored(s) => s \in raw)
                                 => s \in raw',
           \A s \in Session : smtp'[s] = "accepted" => smtp[s] = "accepted"
    PROVE  LossInv'
<1> USE RowsStay, SavedStays DEF LossInv
<1>1. RunSaved'
  <2> SUFFICES ASSUME NEW s \in Session
               PROVE  /\ pc[s] \in {"announce", "fire", "complete"} => row'[This(s)] # "none"
                      /\ pc[s] = "complete" => This(s) \in announced
    BY DEF RunSaved, This
  <2> QED
    BY ThisIsRow DEF RunSaved
<1>2. RawKept'
  BY DEF RawKept
<1>3. Paid'
  BY DEF Paid, Failing
<1>4. GivenUp'
  BY QueueAssumption DEF GivenUp
<1>5. Acknowledged'
  BY DEF Acknowledged
<1>6. CompletedIsAnnounced'
  <2> SUFFICES ASSUME NEW s \in Session, jobState[s] = "completed"
               PROVE  \E k \in Runs : <<s, k>> \in announced /\ row'[<<s, k>>] # "none"
    BY DEF CompletedIsAnnounced
  <2>1. PICK k \in Runs : <<s, k>> \in announced /\ row[<<s, k>>] # "none"
    BY DEF CompletedIsAnnounced
  <2>2. <<s, k>> \in RowId
    BY DEF RowId
  <2> QED
    BY <2>1, <2>2
<1> QED
  BY <1>1, <1>2, <1>3, <1>4, <1>5, <1>6

\* Users and cleanup remove only objects of rows.
LEMMA LossUsers == TypeInv /\ LossInv /\ Users => LossInv'
<1> SUFFICES ASSUME TypeInv, LossInv, Users PROVE LossInv'
  OBVIOUS
<1>1. Next
  BY DEF Next
<1>2. UNCHANGED <<smtp, queueVars, pc, announced>>
  BY DEF Users, SetRead, DeleteRows, RemoveStored, ApiCrash, DeleteInbox, UserUnchanged
<1>3. OwnedByRows'
  <2>1. \A id \in leftover' \cup batch' : id \in RowId /\ row[id] # "none"
    BY DEF LossInv, OwnedByRows, Users, SetRead, DeleteRows, RemoveStored, ApiCrash,
           DeleteInbox, UserUnchanged, Present, Exists
  <2> QED
    BY <2>1, <1>1, RowsStay DEF OwnedByRows
<1>4. \A s \in Session : s \in raw /\ ~Saved(s) => s \in raw'
  <2>1. CASE UNCHANGED raw
    BY <2>1
  <2>2. ASSUME NEW id \in RowId, RemoveStored(id)
        PROVE  \A s \in Session : s \in raw /\ ~Saved(s) => s \in raw'
    <3>1. Saved(id[1])
      BY <2>2 DEF RemoveStored, LossInv, OwnedByRows, Saved, RowId
    <3> QED
      BY <2>2, <3>1 DEF RemoveStored
  <2> QED
    BY <2>1, <2>2 DEF Users, SetRead, DeleteRows, ApiCrash, DeleteInbox
<1> QED
  BY <1>1, <1>2, <1>3, <1>4, LossFrame DEF Stored

\* The cleanup worker removes rows and objects, and leaves mail on its way in alone.
LEMMA LossClean ==
    ASSUME TypeInv, LossInv, Next,
           Clean \/ \E ids \in SUBSET ReadRows : SelectOld(ids)
    PROVE  LossInv'
<1>2. UNCHANGED <<smtp, queueVars, pc, announced>>
  BY DEF Clean, SelectOld, RemoveObjects, DeleteBatch, CleanUnchanged
<1>3. OwnedByRows'
  <2>1. \A id \in leftover' \cup batch' : id \in RowId /\ row[id] # "none"
    BY DEF LossInv, OwnedByRows, Clean, SelectOld, RemoveObjects, DeleteBatch,
           CleanUnchanged, ReadRows
  <2> QED
    BY <2>1, RowsStay DEF OwnedByRows
<1>4. \A s \in Session : s \in raw /\ ~Saved(s) => s \in raw'
  <2>1. CASE UNCHANGED raw
    BY <2>1
  <2>2. CASE RemoveObjects
    <3>1. \A id \in batch : Saved(id[1])
      BY DEF LossInv, OwnedByRows, Saved, RowId
    <3> QED
      BY <2>2, <3>1 DEF RemoveObjects
  <2> QED
    BY <2>1, <2>2 DEF Clean, SelectOld, DeleteBatch
<1> QED
  BY <1>2, <1>3, <1>4, LossFrame DEF Stored

\* A DATA session stores the .eml before it adds its job, and answers after.
LEMMA LossSession ==
    ASSUME TypeInv, LossInv, Next, NEW s \in Session,
           SendData(s) \/ Receive(s) \/ ServerCrash(s)
    PROVE  LossInv'
<1> USE DEF Answer, Step, ServerUnchanged
<1>1. OwnedByRows'
  BY DEF LossInv, OwnedByRows, SendData, Receive, ServerCrash, TooLarge, PutRaw,
         Route, Enqueue
<1>2. CASE Enqueue(s)
  <2>1. /\ UNCHANGED <<attemptsMade, stalledCount, pc, announced, row, raw, inbox, fits>>
        /\ \A t \in Session : t # s => smtp'[t] = smtp[t] /\ jobState'[t] = jobState[t]
        /\ smtp[s] = "enqueue" /\ jobState[s] = "absent"
        /\ jobState'[s] \in {"absent", "pending"}
        /\ smtp'[s] = "accepted" => jobState'[s] = "pending"
    BY <1>2 DEF Enqueue, AddJob
  <2>2. RunSaved' /\ RawKept'
    BY <2>1 DEF LossInv, RunSaved, This, RawKept, Stored, Saved
  <2>3. Paid' /\ GivenUp'
    <3>1. faults <= faults' /\ faults' \in Nat
      BY RowsStay
    <3>2. \A t \in Session : Savable(t)' => Savable(t)
      BY SavedStays
    <3>3. Paid'
      BY <2>1, <3>1, <3>2 DEF LossInv, Paid, Failing
    <3>4. GivenUp'
      BY <2>1, <3>1, <3>2, QueueAssumption DEF LossInv, GivenUp
    <3> QED
      BY <3>3, <3>4
  <2>4. Acknowledged' /\ CompletedIsAnnounced'
    BY <2>1 DEF LossInv, Acknowledged, CompletedIsAnnounced
  <2> QED
    BY <1>1, <2>2, <2>3, <2>4 DEF LossInv
<1>3. CASE SendData(s) \/ TooLarge(s) \/ PutRaw(s) \/ Route(s) \/ ServerCrash(s)
  <2>1. UNCHANGED <<queueVars, pc, announced>>
    BY <1>3 DEF SendData, TooLarge, PutRaw, Route, ServerCrash
  <2>2. \A t \in Session : Stored(t)' /\ (Stored(t) => t \in raw) => t \in raw'
    BY <1>3 DEF SendData, TooLarge, PutRaw, Route, ServerCrash, Stored
  <2>3. \A t \in Session : smtp'[t] = "accepted" => smtp[t] = "accepted"
    BY <1>3 DEF SendData, TooLarge, PutRaw, Route, ServerCrash
  <2> QED
    BY <1>1, <2>1, <2>2, <2>3, LossFrame
<1> QED
  BY <1>2, <1>3 DEF Receive

\* A run of the worker saves before it announces, and fails only for a fault
\* unless the mail cannot be saved or is saved already.
LEMMA LossWork ==
    ASSUME TypeInv, LossInv, Next, NEW s \in Session, Pick(s) \/ Work(s)
    PROVE  LossInv'
<1> USE DEF Goto, WorkerUnchanged, QueueUnchanged, NoWrite
<1> DEFINE OthersStay ==
        \A t \in Session : t # s => /\ jobState'[t] = jobState[t]
                                    /\ attemptsMade'[t] = attemptsMade[t]
                                    /\ stalledCount'[t] = stalledCount[t]
                                    /\ pc'[t] = pc[t]
<1>1. /\ OthersStay /\ UNCHANGED <<smtp, raw, leftover, batch, inbox, fits, stalledCount>>
      /\ announced \subseteq announced'
  BY DEF Pick, Work, FetchRaw, Attach, Insert, Announce, Fire, CompleteJob,
         FailAttempt, PublishReceived
<1>2. /\ \A id \in RowId : row[id] # "none" => row'[id] # "none"
      /\ faults <= faults' /\ faults \in Nat /\ faults' \in Nat
      /\ \A t \in Session : Saved(t) => Saved(t)'
      /\ \A t \in Session : Savable(t)' => Savable(t)
  BY RowsStay, SavedStays
<1>3. OwnedByRows'
  BY <1>1, <1>2 DEF LossInv, OwnedByRows
<1>4. jobState[s] # "absent" /\ jobState'[s] # "absent"
  BY DEF Pick, Work, FetchRaw, Attach, Insert, Announce, Fire, CompleteJob, FailAttempt
<1>5. RawKept' /\ Acknowledged'
  BY <1>1, <1>2, <1>4 DEF LossInv, RawKept, Stored, Acknowledged
<1>6. RunSaved'
  <2>1. ASSUME NEW t \in Session, t # s
        PROVE  /\ pc'[t] \in {"announce", "fire", "complete"} => row'[This(t)'] # "none"
               /\ pc'[t] = "complete" => This(t)' \in announced'
    <3>1. This(t)' = This(t)
      BY <1>1, <2>1 DEF This
    <3> QED
      BY <1>1, <1>2, <2>1, <3>1, ThisIsRow DEF LossInv, RunSaved
  <2>2. /\ pc'[s] \in {"announce", "fire", "complete"} => row'[This(s)'] # "none"
        /\ pc'[s] = "complete" => This(s)' \in announced'
    <3>1. pc'[s] \in {"announce", "fire", "complete"} =>
             This(s)' = This(s) /\ pc[s] # "idle" /\ This(s) \in RowId
      BY ThisIsRow
         DEF Pick, Work, FetchRaw, Attach, Insert, Announce, Fire, CompleteJob,
             FailAttempt, This
    <3>2. pc'[s] = "announce" => row'[This(s)] # "none"
      BY <3>1 DEF Pick, Work, FetchRaw, Attach, Insert, InsertRow, Announce, Fire,
                  CompleteJob, FailAttempt
    <3>3. pc'[s] \in {"fire", "complete"} => pc[s] \in {"announce", "fire"}
      BY DEF Pick, Work, FetchRaw, Attach, Insert, Announce, Fire, CompleteJob,
             FailAttempt
    <3>4. pc'[s] = "complete" => This(s) \in announced'
      BY DEF Pick, Work, FetchRaw, Attach, Insert, Announce, Fire, PublishReceived,
             CompleteJob, FailAttempt
    <3> QED
      BY <1>2, <3>1, <3>2, <3>3, <3>4 DEF LossInv, RunSaved
  <2> QED
    BY <2>1, <2>2 DEF RunSaved
<1>7. ASSUME Savable(s)'
      PROVE  /\ attemptsMade'[s] + stalledCount'[s] + Failing(s)' <= faults'
             /\ jobState'[s] = "failed" => faults' >= MaxAttempts
  <2>1. Savable(s) /\ s \in raw /\ attemptsMade[s] + stalledCount[s] + Failing(s) <= faults
    BY <1>2, <1>4, <1>7 DEF LossInv, RawKept, Stored, Savable, Paid
  <2>2. attemptsMade[s] \in Nat /\ stalledCount[s] \in Nat
    OBVIOUS
  <2>3. CASE FailAttempt(s)
    BY <2>1, <2>2, <2>3, QueueAssumption, <1>2 DEF FailAttempt, Failing
  <2>4. CASE Announce(s) \/ Fire(s)
    <3>1. row[This(s)] # "none" /\ This(s) \in RowId
      BY <2>4, ThisIsRow DEF Announce, Fire, LossInv, RunSaved
    <3> QED
      BY <3>1, <2>1 DEF Savable, Saved, This, RowId
  <2>5. CASE Pick(s) \/ FetchRaw(s) \/ Attach(s) \/ Insert(s) \/ CompleteJob(s)
    <3>1. /\ UNCHANGED attemptsMade
          /\ jobState'[s] # "failed"
          /\ pc'[s] = "failing" => faults' = faults + 1 /\ pc[s] # "failing"
      BY <2>1, <2>5 DEF Pick, FetchRaw, Attach, Insert, CompleteJob, Fault, Savable
    <3> QED
      BY <1>1, <1>2, <2>1, <2>2, <3>1 DEF Failing
  <2> QED
    BY <2>3, <2>4, <2>5 DEF Work
<1>8. Paid'
  BY <1>1, <1>2, <1>7 DEF LossInv, Paid, Failing
<1>9. GivenUp'
  BY <1>1, <1>2, <1>7, QueueAssumption DEF LossInv, GivenUp
<1>10. CompletedIsAnnounced'
  <2> SUFFICES ASSUME NEW t \in Session, jobState'[t] = "completed"
               PROVE  \E k \in Runs : <<t, k>> \in announced' /\ row'[<<t, k>>] # "none"
    BY DEF CompletedIsAnnounced
  <2>1. CASE jobState[t] = "completed"
    <3>1. PICK k \in Runs : <<t, k>> \in announced /\ row[<<t, k>>] # "none"
      BY <2>1 DEF LossInv, CompletedIsAnnounced
    <3>2. <<t, k>> \in RowId
      BY DEF RowId
    <3> QED
      BY <1>1, <1>2, <3>1, <3>2
  <2>2. CASE jobState[t] # "completed"
    <3>1. t = s /\ CompleteJob(s)
      BY <1>1, <2>2 DEF Pick, Work, FetchRaw, Attach, Insert, Announce, Fire, FailAttempt
    <3>2. This(s) \in announced /\ row[This(s)] # "none" /\ This(s) \in RowId
      BY <3>1, ThisIsRow DEF CompleteJob, LossInv, RunSaved
    <3> QED
      BY <1>1, <1>2, <3>1, <3>2 DEF This, RowId
  <2> QED
    BY <2>1, <2>2
<1> QED
  BY <1>3, <1>5, <1>6, <1>8, <1>9, <1>10 DEF LossInv

\* A job that stalls once too often has paid a fault for every stall.
LEMMA LossCrash == TypeInv /\ LossInv /\ WorkerCrash => LossInv'
<1> SUFFICES ASSUME TypeInv, LossInv, WorkerCrash PROVE LossInv'
  OBVIOUS
<1>1. Next
  BY DEF Next
<1>2. /\ UNCHANGED <<smtp, raw, row, inbox, fits, leftover, attemptsMade, announced>>
      /\ pc' = [s \in Session |-> "idle"] /\ batch' = {}
      /\ faults' = faults + 1 /\ faults \in Nat
  BY FaultAssumption DEF WorkerCrash, Fault
<1>3. OwnedByRows' /\ RunSaved'
  BY <1>2 DEF LossInv, OwnedByRows, RunSaved
<1>4. RawKept' /\ Acknowledged'
  BY <1>2 DEF LossInv, RawKept, Stored, Saved, Acknowledged, WorkerCrash
<1>5. Paid'
  <2> SUFFICES ASSUME NEW s \in Session, Savable(s)'
               PROVE  attemptsMade'[s] + stalledCount'[s] + 0 <= faults'
    BY <1>2 DEF Paid, Failing
  <2>1. Savable(s)
    BY <1>1, SavedStays
  <2>2. attemptsMade[s] + stalledCount[s] <= faults
    BY <2>1 DEF LossInv, Paid, Failing
  <2> QED
    BY <1>2, <2>2 DEF WorkerCrash
<1>6. GivenUp'
  <2> SUFFICES ASSUME NEW s \in Session, Savable(s)', jobState'[s] = "failed"
               PROVE  faults' >= MaxAttempts \/ faults' > MaxStalls
    BY DEF GivenUp
  <2>1. Savable(s)
    BY <1>1, SavedStays
  <2>2. CASE jobState[s] = "failed"
    BY <1>2, <2>1, <2>2, QueueAssumption DEF LossInv, GivenUp
  <2>3. CASE jobState[s] # "failed"
    <3>1. stalledCount[s] = MaxStalls
      BY <2>3, QueueAssumption DEF WorkerCrash
    <3>2. attemptsMade[s] + stalledCount[s] + Failing(s) <= faults
      BY <2>1 DEF LossInv, Paid
    <3> QED
      BY <1>2, <3>1, <3>2, QueueAssumption DEF Failing
  <2> QED
    BY <2>2, <2>3
<1>7. CompletedIsAnnounced'
  BY <1>2 DEF LossInv, CompletedIsAnnounced, WorkerCrash
<1> QED
  BY <1>3, <1>4, <1>5, <1>6, <1>7 DEF LossInv

\* Every step keeps the invariant.
LEMMA LossNext == TypeInv /\ LossInv /\ [Next]_vars => LossInv'
<1> SUFFICES ASSUME TypeInv, LossInv, [Next]_vars PROVE LossInv'
  OBVIOUS
<1>1. CASE UNCHANGED vars
  BY <1>1 DEF vars, LossInv, OwnedByRows, RunSaved, This, RawKept, Stored, Saved,
              Savable, Paid, Failing, GivenUp, Acknowledged, CompletedIsAnnounced
<1>2. CASE Next
  <2>1. CASE \E s \in Session : \/ SendData(s) \/ Receive(s) \/ ServerCrash(s)
                                \/ Pick(s) \/ Work(s)
    BY <1>2, <2>1, LossSession, LossWork
  <2>2. CASE WorkerCrash \/ Users \/ Clean
             \/ \E ids \in SUBSET ReadRows : SelectOld(ids)
    BY <1>2, <2>2, LossCrash, LossUsers, LossClean
  <2>3. CASE Quiet
    BY <1>1, <2>3 DEF Quiet
  <2> QED
    BY <1>2, <2>1, <2>2, <2>3 DEF Next
<1> QED
  BY <1>1, <1>2

\* The invariant holds throughout.
LEMMA LossInvariant == Spec => [](TypeInv /\ LossInv)
<1>1. Init => TypeInv /\ LossInv
  BY TypeInit, LossInit
<1>2. TypeInv /\ LossInv /\ [Next]_vars => (TypeInv /\ LossInv)'
  BY TypeNext, LossNext
<1> QED
  BY <1>1, <1>2, PTL DEF Spec

\* A mail that the SMTP server acknowledged is saved, will be tried again, or was
\* given up after faults that used up its attempts or stalls, whatever users and
\* cleanup do meanwhile (smtp/src/index.ts:228, workers/src/index.ts:62-158).
THEOREM AcceptedIsKept == Spec => []LossNeedsFaults
<1>1. TypeInv /\ LossInv => LossNeedsFaults
  <2> SUFFICES ASSUME TypeInv, LossInv, NEW s \in Session, smtp[s] = "accepted",
                      ~Saved(s), inbox, fits, jobState[s] \notin {"pending", "active"}
               PROVE  faults >= MaxAttempts \/ faults > MaxStalls
    BY DEF LossNeedsFaults
  <2>1. jobState[s] # "completed"
    BY DEF LossInv, CompletedIsAnnounced, Saved
  <2>2. jobState[s] = "failed"
    BY <2>1 DEF LossInv, Acknowledged
  <2> QED
    BY <2>2 DEF LossInv, GivenUp, Savable
<1> QED
  BY <1>1, LossInvariant, PTL

\* A job completes only after it saved a row and published its "received" event
\* (workers/src/index.ts:105-153): an event may be repeated, never skipped.
THEOREM CompletedWasAnnounced == Spec => []CompletedIsAnnounced
<1>1. LossInv => CompletedIsAnnounced
  BY DEF LossInv
<1> QED
  BY <1>1, LossInvariant, PTL

(***************************************************************************)
(* Copies. The invariant counts the rows of a session against the faults   *)
(* and the run that has inserted and not failed yet (Owing), and keeps the *)
(* client from starting a second session while the first is open or, if    *)
(* nothing broke, once it has a job.                                       *)
(***************************************************************************)
Owing(s) == IF \/ pc[s] \in {"announce", "fire", "complete"}
               \/ jobState[s] = "completed"
            THEN 1 ELSE 0

CopiesPaid == \A s \in Session : Cardinality(Copies(s)) <= faults + Owing(s)

Open(s) == smtp[s] \in {"put", "route", "enqueue"}

OneSession == /\ \A s \in Session : Open(s) => client = "waiting"
              /\ \A s, t \in Session : Open(s) /\ Open(t) => s = t

OneJob == faults = 0 =>
    /\ \A s \in Session : jobState[s] # "absent" => client = "done"
    /\ \A s, t \in Session : jobState[s] # "absent" /\ jobState[t] # "absent" => s = t

SavedByJob == \A s \in Session : Saved(s) => jobState[s] # "absent"

CopyInv == CopiesPaid /\ OneSession /\ OneJob /\ SavedByJob

\* Initially no session has sent anything.
LEMMA CopyInit == Init => CopyInv
<1> SUFFICES ASSUME Init PROVE CopyInv
  OBVIOUS
<1>1. CopiesPaid
  <2> SUFFICES ASSUME NEW s \in Session
               PROVE  Cardinality(Copies(s)) <= faults + Owing(s)
    BY DEF CopiesPaid
  <2>1. Copies(s) = {}
    BY DEF Init, Copies, RowId
  <2> QED
    BY <2>1, FS_EmptySet DEF Init, Owing
<1> QED
  BY <1>1 DEF Init, CopyInv, OneSession, Open, OneJob, SavedByJob, Saved, RowId

\* The copies of a session are a finite set.
LEMMA CopiesFinite ==
    ASSUME NEW s \in Session
    PROVE  /\ IsFiniteSet(Copies(s)) /\ Cardinality(Copies(s)) \in Nat
<1>1. IsFiniteSet(Runs)
  BY FS_Interval, QueueAssumption DEF Runs
<1>2. Copies(s) \subseteq Runs
  BY DEF Copies
<1> QED
  BY <1>1, <1>2, FS_Subset, FS_CardinalityType

\* Rows appear in one place only.
LEMMA RowsAppear ==
    ASSUME TypeInv, Next,
           NEW id \in RowId, row[id] = "none", row'[id] # "none"
    PROVE  \E s \in Session : Insert(s) /\ id = This(s)
<1> USE DEF Without
<1>1. CASE \E s \in Session : \/ SendData(s) \/ Receive(s) \/ ServerCrash(s)
  BY <1>1 DEF SendData, Receive, TooLarge, PutRaw, Route, Enqueue, ServerCrash,
              ServerUnchanged
<1>2. CASE \E s \in Session : Pick(s) \/ Work(s)
  BY <1>2 DEF Pick, Work, FetchRaw, Attach, Insert, InsertRow, Announce, Fire,
              CompleteJob, FailAttempt, NoWrite
<1>3. CASE WorkerCrash \/ Quiet
  BY <1>3 DEF WorkerCrash, Quiet, vars
<1>4. CASE Users
  BY <1>4 DEF Users, SetRead, DeleteRows, RemoveStored, ApiCrash, DeleteInbox, Exists
<1>5. CASE Clean \/ \E ids \in SUBSET ReadRows : SelectOld(ids)
  BY <1>5 DEF Clean, SelectOld, RemoveObjects, DeleteBatch, Exists
<1> QED
  BY <1>1, <1>2, <1>3, <1>4, <1>5 DEF Next

\* Only the session's own INSERT adds a copy of it.
LEMMA CopiesGrow ==
    ASSUME TypeInv, Next, NEW s \in Session
    PROVE  \/ Copies(s)' = Copies(s)
           \/ Insert(s) /\ \E k \in Runs : Copies(s)' = Copies(s) \cup {k}
<1>1. \A id \in RowId : row[id] # "none" => row'[id] # "none"
  BY RowsStay
<1>2. Copies(s) \subseteq Copies(s)'
  BY <1>1 DEF Copies, RowId
<1>3. CASE Insert(s)
  <2>1. This(s) \in RowId
    BY <1>3, ThisIsRow DEF Insert
  <2>2. \A k \in Runs : k \in Copies(s)' => k \in Copies(s) \/ <<s, k>> = This(s)
    BY <1>3, <2>1 DEF Insert, InsertRow, Copies, RowId
  <2>3. PICK k \in Runs : This(s) = <<s, k>>
    BY <2>1 DEF This, RowId
  <2>4. \A i \in Copies(s)' : i \in Copies(s) \/ i = k
    BY <2>2, <2>3 DEF Copies
  <2> QED
    BY <1>2, <1>3, <2>3, <2>4
<1>4. CASE ~Insert(s)
  <2>1. ASSUME NEW k \in Runs, row[<<s, k>>] = "none", row'[<<s, k>>] # "none"
        PROVE  FALSE
    <3>1. PICK t \in Session : Insert(t) /\ <<s, k>> = This(t)
      BY <2>1, RowsAppear DEF RowId
    <3> QED
      BY <1>4, <3>1 DEF This
  <2> QED
    BY <1>2, <2>1 DEF Copies
<1> QED
  BY <1>3, <1>4

\* A run that has inserted its row fails only for a fault, and an INSERT of a row
\* is followed by the rest of the run or by a fault.
LEMMA OwingStep ==
    ASSUME TypeInv, Next, NEW s \in Session
    PROVE  /\ faults + Owing(s) <= faults' + Owing(s)'
           /\ Insert(s) /\ row' # row => faults + Owing(s) + 1 <= faults' + Owing(s)'
           /\ Owing(s) \in {0, 1} /\ Owing(s)' \in {0, 1}
<1>1. faults <= faults' /\ faults \in Nat /\ faults' \in Nat
  BY RowsStay
<1>2. Owing(s) \in {0, 1} /\ Owing(s)' \in {0, 1}
  BY DEF Owing
<1>3. Insert(s) /\ row' # row => Owing(s) = 0 /\ (Owing(s)' = 1 \/ faults' = faults + 1)
  BY DEF Insert, Goto, QueueUnchanged, Fault, Owing
<1>4. Owing(s) = 1 => Owing(s)' = 1 \/ faults' = faults + 1
  <2>1. CASE \E t \in Session : SendData(t) \/ Receive(t) \/ ServerCrash(t)
    BY <2>1 DEF SendData, Receive, TooLarge, PutRaw, Route, Enqueue, AddJob,
                ServerCrash, ServerUnchanged, Owing
  <2>2. CASE \E t \in Session : Pick(t) \/ Work(t)
    BY <2>2 DEF Pick, Work, FetchRaw, Attach, Insert, Announce, Fire, CompleteJob,
                FailAttempt, Goto, QueueUnchanged, Fault, Owing
  <2>3. CASE WorkerCrash \/ Quiet
    BY <2>3 DEF WorkerCrash, Fault, Quiet, vars, Owing
  <2>4. CASE Users \/ Clean \/ \E ids \in SUBSET ReadRows : SelectOld(ids)
    <3>1. UNCHANGED <<pc, jobState>>
      BY <2>4 DEF Users, SetRead, DeleteRows, RemoveStored, ApiCrash, DeleteInbox,
                  UserUnchanged, Clean, SelectOld, RemoveObjects, DeleteBatch,
                  CleanUnchanged
    <3> QED
      BY <3>1 DEF Owing
  <2> QED
    BY <2>1, <2>2, <2>3, <2>4 DEF Next
<1> QED
  BY <1>1, <1>2, <1>3, <1>4

\* Each step pays for the copies it makes.
LEMMA CopiesPaidNext ==
    ASSUME TypeInv, CopiesPaid, Next
    PROVE  CopiesPaid'
<1> SUFFICES ASSUME NEW s \in Session
             PROVE  Cardinality(Copies(s)') <= faults' + Owing(s)'
  BY DEF CopiesPaid
<1>1. Cardinality(Copies(s)) <= faults + Owing(s)
  BY DEF CopiesPaid
<1>2. /\ faults \in Nat /\ faults' \in Nat
      /\ IsFiniteSet(Copies(s)) /\ Cardinality(Copies(s)) \in Nat
  BY RowsStay, CopiesFinite
<1>3. CASE Copies(s)' = Copies(s)
  BY <1>1, <1>2, <1>3, OwingStep
<1>4. ASSUME Insert(s), Copies(s)' # Copies(s),
             NEW k \in Runs, Copies(s)' = Copies(s) \cup {k}
      PROVE  Cardinality(Copies(s)') <= faults' + Owing(s)'
  <2>1. Cardinality(Copies(s) \cup {k}) \in {Cardinality(Copies(s)), Cardinality(Copies(s)) + 1}
    BY <1>2, FS_AddElement
  <2>2. Cardinality(Copies(s)') = Cardinality(Copies(s) \cup {k})
    BY <1>4, Zenon
  <2>3. row' # row
    BY <1>4 DEF Copies
  <2> QED
    BY <1>1, <1>2, <1>4, <2>1, <2>2, <2>3, OwingStep
<1>5. CASE Insert(s) /\ \E k \in Runs : Copies(s)' = Copies(s) \cup {k}
  BY <1>3, <1>4, <1>5
<1> QED
  BY <1>3, <1>5, CopiesGrow

\* Every step keeps the invariant.
LEMMA CopyNext == TypeInv /\ CopyInv /\ [Next]_vars => CopyInv'
<1> SUFFICES ASSUME TypeInv, CopyInv, [Next]_vars PROVE CopyInv'
  OBVIOUS
<1> USE DEF CopyInv
<1>1. CASE UNCHANGED vars
  <2>1. \A s \in Session : Copies(s)' = Copies(s)
    BY <1>1 DEF vars, Copies
  <2>2. CopiesPaid'
    BY <1>1, <2>1 DEF vars, CopiesPaid, Owing
  <2> QED
    BY <1>1, <2>2 DEF vars, OneSession, Open, OneJob, SavedByJob, Saved
<1>2. CASE Next
  <2>1. CopiesPaid'
    BY <1>2, CopiesPaidNext
  <2>2. SavedByJob'
    <3> SUFFICES ASSUME NEW s \in Session, Saved(s)' PROVE jobState'[s] # "absent"
      BY DEF SavedByJob
    <3>1. jobState[s] # "absent" => jobState'[s] # "absent"
      BY <1>2
         DEF Next, SendData, Receive, TooLarge, PutRaw, Route, Enqueue, AddJob,
             ServerCrash, ServerUnchanged, Pick, Work, FetchRaw, Attach, Insert,
             Announce, Fire, CompleteJob, FailAttempt, QueueUnchanged, WorkerCrash,
             Quiet, vars, Users, SetRead, DeleteRows, RemoveStored, ApiCrash,
             DeleteInbox, UserUnchanged, Clean, SelectOld, RemoveObjects,
             DeleteBatch, CleanUnchanged
    <3>2. Saved(s) \/ Insert(s)
      BY <1>2, CopiesGrow DEF Saved, Copies
    <3> QED
      BY <3>1, <3>2 DEF SavedByJob, Insert
  <2>3. OneSession' /\ OneJob'
    <3>1. CASE \E s \in Session : SendData(s) \/ Receive(s) \/ ServerCrash(s)
      <4> USE FaultAssumption
          DEF Answer, Step, ServerUnchanged, OneSession, Open, OneJob, Fault
      <4>1. PICK s \in Session : SendData(s) \/ Receive(s) \/ ServerCrash(s)
        BY <3>1
      <4>2. CASE SendData(s)
        BY <4>2 DEF SendData
      <4>3. CASE TooLarge(s)
        BY <4>3 DEF TooLarge
      <4>4. CASE PutRaw(s)
        BY <4>4 DEF PutRaw
      <4>5. CASE Route(s)
        BY <4>5 DEF Route
      <4>6. CASE Enqueue(s)
        BY <4>6 DEF Enqueue, AddJob
      <4>7. CASE ServerCrash(s)
        BY <4>7 DEF ServerCrash
      <4> QED
        BY <4>1, <4>2, <4>3, <4>4, <4>5, <4>6, <4>7 DEF Receive
    <3>2. CASE ~\E s \in Session : SendData(s) \/ Receive(s) \/ ServerCrash(s)
      <4>1. UNCHANGED <<client, smtp>>
        BY <1>2, <3>2
           DEF Next, Pick, Work, FetchRaw, Attach, Insert, Announce, Fire,
               CompleteJob, FailAttempt, WorkerUnchanged, WorkerCrash, Quiet, vars,
               Users, SetRead, DeleteRows, RemoveStored, ApiCrash, DeleteInbox,
               UserUnchanged, Clean, SelectOld, RemoveObjects, DeleteBatch,
               CleanUnchanged
      <4>2. \A s \in Session : jobState'[s] # "absent" => jobState[s] # "absent"
        BY <1>2, <3>2
           DEF Next, Pick, Work, FetchRaw, Attach, Insert, Announce, Fire,
               CompleteJob, FailAttempt, QueueUnchanged, WorkerCrash, Quiet, vars,
               Users, SetRead, DeleteRows, RemoveStored, ApiCrash, DeleteInbox,
               UserUnchanged, Clean, SelectOld, RemoveObjects, DeleteBatch,
               CleanUnchanged
      <4>3. faults' = 0 => faults = 0
        BY RowsStay
      <4> QED
        BY <4>1, <4>2, <4>3 DEF OneSession, Open, OneJob
    <3> QED
      BY <3>1, <3>2
  <2> QED
    BY <2>1, <2>2, <2>3
<1> QED
  BY <1>1, <1>2

\* Each copy of a session beyond the first is owed to a fault, and if nothing
\* breaks the mail is saved once however often its client tries: the client's
\* retries and the queue's do not multiply (smtp/src/index.ts:161-242,
\* workers/src/index.ts:105-153).
THEOREM CopiesAreOwed == Spec => []CopiesNeedFaults
<1>1. Init => TypeInv /\ CopyInv
  BY TypeInit, CopyInit
<1>2. TypeInv /\ CopyInv /\ [Next]_vars => (TypeInv /\ CopyInv)'
  BY TypeNext, CopyNext
<1>3. TypeInv /\ CopyInv => CopiesNeedFaults
  <2> SUFFICES ASSUME TypeInv, CopyInv PROVE CopiesNeedFaults
    OBVIOUS
  <2>1. ASSUME NEW s \in Session PROVE Cardinality(Copies(s)) <= 1 + faults
    <3>1. Cardinality(Copies(s)) \in Nat /\ faults \in Nat
      BY CopiesFinite, FaultAssumption
    <3>2. Cardinality(Copies(s)) <= faults + Owing(s)
      BY DEF CopyInv, CopiesPaid
    <3>3. Owing(s) \in {0, 1}
      BY DEF Owing
    <3> QED
      BY <3>1, <3>2, <3>3
  <2>2. faults = 0 => \A s, t \in Session : Saved(s) /\ Saved(t) => s = t
    BY DEF CopyInv, OneJob, SavedByJob
  <2> QED
    BY <2>1, <2>2 DEF CopiesNeedFaults
<1> QED
  BY <1>1, <1>2, <1>3, PTL DEF Spec

(***************************************************************************)
(* Rows and objects. While nothing breaks, a session has one row, its      *)
(* attachments are stored before the row is (Attached), its objects go     *)
(* only after the row has been deleted by a user (Gone) or with the batch  *)
(* that holds it (Halved), and a deleted row leaves no object that nobody  *)
(* is about to remove (Swept).                                             *)
(***************************************************************************)
Gone == \A id \in leftover : row[id] = "deleted"

Attached == \A s \in Session : pc[s] = "insert" => This(s) \in files

Halved == cleaner = "rows" => \A id \in batch : id[1] \notin raw /\ id \notin files

Swept == inbox => \A id \in RowId :
    row[id] = "deleted" => id \in leftover \/ (id[1] \notin raw /\ id \notin files)

RawOwned == inbox /\ fits => \A s \in raw :
    smtp[s] \in {"route", "enqueue"} \/ jobState[s] \in {"pending", "active"} \/ Saved(s)

FilesOwned == inbox /\ fits => \A id \in files :
    row[id] # "none" \/ (Active(id[1]) /\ id = This(id[1]))

Backed == \A id \in RowId : Exists(id) =>
    (id[1] \in raw /\ id \in files) \/ (cleaner = "rows" /\ id \in batch)

Tidy == Gone /\ Attached /\ Halved /\ Swept /\ RawOwned /\ FilesOwned /\ Backed

ObjectInv == faults = 0 => Tidy

\* Initially nothing is stored.
LEMMA ObjectInit == Init => ObjectInv
BY DEF Init, ObjectInv, Tidy, Gone, Attached, Halved, Swept, RawOwned, FilesOwned,
       Backed, Exists

\* A session whose run has not inserted has no row while nothing breaks.
LEMMA Unsaved ==
    ASSUME TypeInv, CopyInv, faults = 0, NEW s \in Session, Owing(s) = 0
    PROVE  ~Saved(s)
<1>1. Cardinality(Copies(s)) = 0
  BY CopiesFinite DEF CopyInv, CopiesPaid
<1>2. Copies(s) = {}
  BY <1>1, CopiesFinite, FS_EmptySet
<1> QED
  BY <1>2 DEF Saved, Copies

\* A session has one row while nothing breaks.
LEMMA Sole ==
    ASSUME TypeInv, CopyInv, faults = 0,
           NEW id \in RowId, NEW other \in RowId, id[1] = other[1],
           row[id] # "none", row[other] # "none"
    PROVE  id = other
<1>1. PICK s \in Session, k \in Runs, l \in Runs : id = <<s, k>> /\ other = <<s, l>>
  BY DEF RowId
<1>2. SUFFICES ASSUME k # l PROVE FALSE
  BY <1>1
<1>3. {k, l} \subseteq Copies(s)
  BY <1>1 DEF Copies
<1>4. Cardinality({k, l}) = 2 /\ IsFiniteSet({k, l})
  <2>1. IsFiniteSet({k}) /\ Cardinality({k}) = 1
    BY FS_Singleton
  <2>2. IsFiniteSet({k} \cup {l}) /\ Cardinality({k} \cup {l}) = Cardinality({k}) + 1
    BY <1>2, <2>1, FS_AddElement
  <2>3. {k, l} = {k} \cup {l}
    OBVIOUS
  <2>4. IsFiniteSet({k, l}) /\ Cardinality({k, l}) = Cardinality({k} \cup {l})
    BY <2>2, <2>3, Zenon
  <2> QED
    BY <2>1, <2>2, <2>4
<1>5. Cardinality({k, l}) <= Cardinality(Copies(s))
  BY <1>3, CopiesFinite, FS_Subset
<1>6. Cardinality(Copies(s)) <= Owing(s) /\ Owing(s) \in {0, 1}
  BY DEF CopyInv, CopiesPaid, Owing
<1> QED
  BY <1>4, <1>5, <1>6, CopiesFinite

\* The calls of a DATA session add an .eml of a session without a row.
LEMMA ObjectSession ==
    ASSUME TypeInv, LossInv, CopyInv, Tidy, faults = 0, faults' = 0,
           NEW s \in Session, SendData(s) \/ Receive(s) \/ ServerCrash(s)
    PROVE  Tidy'
<1> USE DEF Answer, Step, ServerUnchanged, Fault
<1>1. UNCHANGED <<files, row, inbox, leftover, cleaner, batch, pc, attemptsMade,
                  stalledCount, fits>>
  BY DEF SendData, Receive, TooLarge, PutRaw, Route, Enqueue, ServerCrash
<1>2. /\ \A t \in Session : jobState[t] \in {"pending", "active"} =>
                               jobState'[t] \in {"pending", "active"}
      /\ raw \subseteq raw'
      /\ \A t \in raw' : t \in raw \/ (t = s /\ smtp[s] = "put" /\ smtp'[s] = "route")
  BY DEF SendData, Receive, TooLarge, PutRaw, Route, Enqueue, AddJob, ServerCrash
<1>3. ASSUME smtp[s] = "put" PROVE \A id \in RowId : id[1] = s => row[id] = "none"
  BY <1>3 DEF CopyInv, SavedByJob, Saved, RowId
<1>4. \A t \in Session : This(t)' = This(t) /\ (Saved(t) <=> Saved(t)')
  BY <1>1 DEF This, Saved
<1>5. Gone' /\ Attached' /\ FilesOwned' /\ Backed'
  <2>1. Gone' /\ Backed'
    BY <1>1, <1>2 DEF Tidy, Gone, Backed, Exists
  <2>2. Attached'
    BY <1>1, <1>4 DEF Tidy, Attached
  <2>3. FilesOwned'
    <3>1. \A id \in files : id[1] \in Session
      BY DEF RowId
    <3> QED
      BY <1>1, <1>4, <3>1 DEF Tidy, FilesOwned
  <2> QED
    BY <2>1, <2>2, <2>3
<1>6. Halved'
  <2>1. \A id \in batch : id \in RowId /\ row[id] # "none"
    BY DEF LossInv, OwnedByRows
  <2> QED
    BY <1>1, <1>2, <1>3, <2>1 DEF Tidy, Halved
<1>7. Swept'
  BY <1>1, <1>2, <1>3 DEF Tidy, Swept
<1>8. RawOwned'
  <2> SUFFICES ASSUME inbox, fits, NEW t \in raw
               PROVE  \/ smtp'[t] \in {"route", "enqueue"}
                      \/ jobState'[t] \in {"pending", "active"}
                      \/ Saved(t)
    BY <1>1, <1>2, <1>4 DEF RawOwned
  <2>1. smtp[t] \in {"route", "enqueue"} =>
           smtp'[t] \in {"route", "enqueue"} \/ jobState'[t] \in {"pending", "active"}
    <3>1. CASE SendData(s) \/ TooLarge(s) \/ PutRaw(s)
      BY <3>1 DEF SendData, TooLarge, PutRaw
    <3>2. CASE Route(s)
      BY <3>2 DEF Route
    <3>3. CASE Enqueue(s)
      BY <3>3 DEF Enqueue, AddJob
    <3>4. CASE ServerCrash(s)
      BY <3>4 DEF ServerCrash
    <3> QED
      BY <3>1, <3>2, <3>3, <3>4 DEF Receive
  <2> QED
    BY <1>2, <2>1 DEF Tidy, RawOwned
<1> QED
  BY <1>5, <1>6, <1>7, <1>8 DEF Tidy

\* A run stores attachments before it inserts its row, and while nothing breaks
\* it fails only if the mail cannot be saved.
LEMMA ObjectWork ==
    ASSUME TypeInv, LossInv, CopyInv, Tidy, faults = 0, faults' = 0,
           NEW s \in Session, Pick(s) \/ Work(s)
    PROVE  Tidy'
<1> USE DEF Goto, WorkerUnchanged, QueueUnchanged, NoWrite, Fault
<1>1. /\ UNCHANGED <<smtp, fits, raw, inbox, leftover, cleaner, batch, stalledCount>>
      /\ \A t \in Session : t # s => pc'[t] = pc[t] /\ This(t)' = This(t)
                                     /\ jobState'[t] = jobState[t]
  BY DEF Pick, Work, FetchRaw, Attach, Insert, Announce, Fire, CompleteJob,
         FailAttempt, This
<1>2. pc[s] \in {"attach", "insert"} => ~Saved(s) /\ This(s) \in RowId
  <2> SUFFICES ASSUME pc[s] \in {"attach", "insert"} PROVE ~Saved(s)
    BY ThisIsRow
  <2>1. Owing(s) = 0
    BY DEF Owing
  <2> QED
    BY <2>1, Unsaved
<1>3. This(s) \in RowId /\ ~Saved(s) => row[This(s)] = "none"
  BY DEF Saved, This, RowId
<1>4. ~(pc[s] = "failing" /\ inbox /\ fits)
  <2> SUFFICES ASSUME pc[s] = "failing", inbox, fits PROVE FALSE
    OBVIOUS
  <2>1. ~Saved(s)
    BY Unsaved DEF Owing
  <2> QED
    BY <2>1 DEF LossInv, Paid, Savable, Failing
<1>5. CASE Insert(s) /\ row' # row
  <2>1. /\ pc[s] = "insert" /\ pc'[s] = "announce" /\ This(s) \in RowId
        /\ row' = [row EXCEPT ![This(s)] = "unread"]
        /\ UNCHANGED <<files, jobState, attemptsMade>> /\ inbox /\ fits
    BY <1>2, <1>5 DEF Insert, InsertRow
  <2>2. row[This(s)] = "none" /\ ~Saved(s)
    BY <1>2, <1>3, <2>1
  <2>3. s \in raw /\ This(s)[1] = s
    BY <2>1, <2>2 DEF LossInv, RawKept, Stored, This
  <2>4. This(s) \in files
    BY <2>1 DEF Tidy, Attached
  <2>5. \A t \in Session : This(t)' = This(t) /\ (Saved(t) => Saved(t)')
    <3>1. \A id \in RowId : row[id] # "none" => row'[id] # "none"
      BY <2>1
    <3> QED
      BY <1>1, <2>1, <3>1 DEF This, Saved, RowId
  <2>6. Gone' /\ Halved'
    BY <1>1, <2>1, <2>2 DEF Tidy, Gone, Halved
  <2>7. Attached'
    BY <1>1, <2>1, <2>5 DEF Tidy, Attached
  <2>8. Swept'
    BY <1>1, <2>1 DEF Tidy, Swept
  <2>9. RawOwned'
    BY <1>1, <2>1, <2>5 DEF Tidy, RawOwned
  <2>10. FilesOwned'
    <3> SUFFICES ASSUME NEW id \in files
                 PROVE  row'[id] # "none" \/ (Active(id[1])' /\ id = This(id[1]))
      BY <2>1, <2>5 DEF FilesOwned, RowId
    <3>1. row[id] # "none" \/ (Active(id[1]) /\ id = This(id[1]))
      BY <1>1, <2>1 DEF Tidy, FilesOwned
    <3> QED
      BY <1>1, <2>1, <3>1, ThisIsRow DEF RowId
  <2>11. Backed'
    BY <1>1, <2>1, <2>3, <2>4 DEF Tidy, Backed, Exists
  <2> QED
    BY <2>6, <2>7, <2>8, <2>9, <2>10, <2>11 DEF Tidy
<1>6. CASE Attach(s)
  <2>1. /\ pc[s] = "attach" /\ pc'[s] = "insert" /\ This(s) \in RowId
        /\ files' = files \cup {This(s)}
        /\ UNCHANGED <<row, jobState, attemptsMade>> /\ Active(s)'
    BY <1>2, <1>6 DEF Attach
  <2>2. row[This(s)] = "none" /\ This(s)[1] = s
    BY <1>2, <1>3, <2>1 DEF This
  <2>3. \A t \in Session : This(t)' = This(t) /\ (Saved(t) <=> Saved(t)')
    BY <1>1, <2>1 DEF This, Saved
  <2>4. Gone' /\ Attached'
    BY <1>1, <2>1, <2>3 DEF Tidy, Gone, Attached
  <2>5. Halved'
    <3>1. \A id \in batch : row[id] # "none"
      BY DEF LossInv, OwnedByRows
    <3> QED
      BY <1>1, <2>1, <2>2, <3>1 DEF Tidy, Halved
  <2>6. Swept'
    BY <1>1, <2>1, <2>2 DEF Tidy, Swept
  <2>7. RawOwned'
    BY <1>1, <2>1, <2>3 DEF Tidy, RawOwned
  <2>8. FilesOwned'
    <3> SUFFICES ASSUME inbox, fits, NEW id \in files'
                 PROVE  row[id] # "none" \/ (Active(id[1])' /\ id = This(id[1]))
      BY <1>1, <2>1, <2>3 DEF FilesOwned, RowId
    <3>1. CASE id = This(s)
      BY <2>1, <2>2, <3>1
    <3>2. CASE id \in files
      <4>1. row[id] # "none" \/ (Active(id[1]) /\ id = This(id[1]))
        BY <3>2 DEF Tidy, FilesOwned
      <4> QED
        BY <1>1, <2>1, <4>1 DEF RowId
    <3> QED
      BY <2>1, <3>1, <3>2
  <2>9. Backed'
    BY <1>1, <2>1 DEF Tidy, Backed, Exists
  <2> QED
    BY <2>4, <2>5, <2>6, <2>7, <2>8, <2>9 DEF Tidy
<1>7. CASE row' = row /\ files' = files /\ ~Attach(s)
  <2> USE <1>7
  <2>1. \A t \in Session : Saved(t) <=> Saved(t)'
    BY DEF Saved
  <2>2. pc'[s] # "insert" \/ (pc'[s] = pc[s] /\ This(s)' = This(s))
    BY DEF Pick, Work, FetchRaw, Attach, Insert, Announce, Fire, CompleteJob,
           FailAttempt, This
  <2>3. Gone' /\ Halved' /\ Swept' /\ Backed'
    BY <1>1 DEF Tidy, Gone, Halved, Swept, Backed, Exists
  <2>4. Attached'
    BY <1>1, <2>2 DEF Tidy, Attached
  <2>5. inbox /\ fits =>
           \/ This(s)' = This(s) /\ pc'[s] # "idle" /\ jobState'[s] \in {"pending", "active"}
           \/ pc[s] = "complete" /\ row[This(s)] # "none" /\ This(s) \in RowId
    <3>1. CASE CompleteJob(s)
      BY <3>1, ThisIsRow DEF CompleteJob, LossInv, RunSaved
    <3>2. CASE ~CompleteJob(s)
      BY <1>4, <3>2 DEF Pick, Work, FetchRaw, Attach, Insert, Announce, Fire,
                        FailAttempt, This
    <3> QED
      BY <3>1, <3>2
  <2>6. This(s) \in RowId /\ row[This(s)] # "none" => Saved(s)
    BY DEF Saved, This, RowId
  <2>7. RawOwned'
    BY <1>1, <2>1, <2>5, <2>6 DEF Tidy, RawOwned
  <2>8. FilesOwned'
    <3> SUFFICES ASSUME inbox, fits, NEW id \in files
                 PROVE  row[id] # "none" \/ (Active(id[1])' /\ id = This(id[1])')
      BY <1>1 DEF FilesOwned
    <3>1. row[id] # "none" \/ (Active(id[1]) /\ id = This(id[1]))
      BY DEF Tidy, FilesOwned
    <3>2. id[1] \in Session
      BY DEF RowId
    <3>3. CASE id[1] = s
      BY <2>5, <3>1, <3>3
    <3>4. CASE id[1] # s
      BY <1>1, <3>1, <3>2, <3>4
    <3> QED
      BY <3>3, <3>4
  <2> QED
    BY <2>3, <2>4, <2>7, <2>8 DEF Tidy
<1>8. Insert(s) \/ Attach(s) \/ (row' = row /\ files' = files /\ ~Attach(s))
  BY DEF Pick, Work, FetchRaw, Announce, Fire, CompleteJob, FailAttempt
<1>9. Insert(s) => files' = files /\ ~Attach(s)
  BY DEF Insert, Attach
<1> QED
  BY <1>5, <1>6, <1>7, <1>8, <1>9

\* Users delete rows before their objects, and cleanup the objects of its batch
\* before their rows.
LEMMA ObjectUsers ==
    ASSUME TypeInv, LossInv, CopyInv, Tidy, faults = 0, faults' = 0,
           Users \/ Clean \/ \E ids \in SUBSET ReadRows : SelectOld(ids)
    PROVE  Tidy'
<1> USE DEF UserUnchanged, CleanUnchanged, Fault, Exists, Tidy
<1>1. /\ UNCHANGED <<smtp, fits, jobState, pc, attemptsMade, stalledCount>>
      /\ inbox' => inbox
  BY DEF Users, SetRead, DeleteRows, RemoveStored, ApiCrash, DeleteInbox, Clean,
         SelectOld, RemoveObjects, DeleteBatch
<1>2. \A t \in Session : This(t)' = This(t)
  BY <1>1 DEF This
<1>3. /\ \A id \in RowId : row[id] = "none" <=> row'[id] = "none"
      /\ \A id \in RowId : row[id] = "deleted" => row'[id] = "deleted"
      /\ raw' \subseteq raw /\ files' \subseteq files
  BY DEF Users, SetRead, DeleteRows, RemoveStored, ApiCrash, DeleteInbox, Clean,
         SelectOld, RemoveObjects, DeleteBatch, Without
<1>4. \A t \in Session : Saved(t) <=> Saved(t)'
  BY <1>3 DEF Saved, RowId
<1>5. RawOwned'
  BY <1>1, <1>3, <1>4 DEF RawOwned
<1>6. FilesOwned'
  BY <1>1, <1>2, <1>3 DEF FilesOwned, RowId
<1>7. \A id \in leftover \cup batch : id \in RowId /\ row[id] # "none"
  BY DEF LossInv, OwnedByRows
<1>8. Attached'
  <2> SUFFICES ASSUME NEW s \in Session, pc[s] = "insert"
               PROVE  This(s) \in files'
    BY <1>1, <1>2 DEF Attached
  <2>1. This(s) \in files /\ This(s) \in RowId
    BY ThisIsRow DEF Attached
  <2>2. ~Saved(s)
    BY Unsaved DEF Owing
  <2>3. row[This(s)] = "none"
    BY <2>1, <2>2 DEF Saved, This, RowId
  <2> QED
    BY <1>7, <2>1, <2>3
       DEF Users, SetRead, DeleteRows, RemoveStored, ApiCrash, DeleteInbox, Clean,
           SelectOld, RemoveObjects, DeleteBatch
<1>9. Gone'
  BY <1>3 DEF Gone, Users, SetRead, DeleteRows, RemoveStored, ApiCrash, DeleteInbox,
              Clean, SelectOld, RemoveObjects, DeleteBatch, Without, Present
<1>10. Halved'
  BY <1>3 DEF Halved, Users, SetRead, DeleteRows, RemoveStored, ApiCrash, DeleteInbox,
              Clean, SelectOld, RemoveObjects, DeleteBatch
<1>11. Swept'
  <2>1. ASSUME NEW id \in RowId, SetRead(id, "read") \/ SetRead(id, "unread")
        PROVE  Swept'
    <3>1. \A other \in RowId : row'[other] = "deleted" => row[other] = "deleted"
      BY <2>1 DEF SetRead
    <3>2. UNCHANGED <<inbox, leftover, raw, files>>
      BY <2>1 DEF SetRead
    <3> QED
      BY <3>1, <3>2 DEF Swept
  <2>2. ASSUME NEW ids \in SUBSET Present, DeleteRows(ids) PROVE Swept'
    BY <2>2 DEF DeleteRows, Without, Swept
  <2>3. ASSUME NEW id \in RowId, RemoveStored(id) PROVE Swept'
    BY <2>3 DEF RemoveStored, Swept
  <2>4. CASE ApiCrash \/ DeleteInbox
    BY <2>4 DEF ApiCrash, DeleteInbox, Swept
  <2>5. CASE RemoveObjects \/ \E ids \in SUBSET ReadRows : SelectOld(ids)
    BY <2>5 DEF RemoveObjects, SelectOld, Swept
  <2>6. CASE DeleteBatch
    BY <2>6 DEF DeleteBatch, Without, Swept, Halved
  <2> QED
    BY <2>1, <2>2, <2>3, <2>4, <2>5, <2>6 DEF Users, Clean
<1>12. Backed'
  <2>1. CASE \E id \in RowId : SetRead(id, "read") \/ SetRead(id, "unread")
    BY <2>1 DEF SetRead, Backed
  <2>2. CASE \/ \E ids \in SUBSET Present : DeleteRows(ids)
             \/ ApiCrash \/ DeleteInbox
    BY <2>2 DEF DeleteRows, ApiCrash, DeleteInbox, Without, Backed
  <2>3. ASSUME NEW id \in RowId, RemoveStored(id) PROVE Backed'
    <3> SUFFICES ASSUME NEW other \in RowId, row[other] \in {"unread", "read"}
                 PROVE  \/ other[1] \in raw' /\ other \in files'
                        \/ cleaner = "rows" /\ other \in batch
      BY <2>3 DEF Backed, RemoveStored
    <3>1. row[id] = "deleted" /\ id # other
      BY <2>3 DEF RemoveStored, Gone
    <3>2. id[1] # other[1]
      BY <3>1, Sole
    <3> QED
      BY <2>3, <3>1, <3>2 DEF RemoveStored, Backed
  <2>4. ASSUME NEW ids \in SUBSET ReadRows, SelectOld(ids) PROVE Backed'
    BY <2>4 DEF SelectOld, Backed
  <2>5. CASE RemoveObjects
    <3> SUFFICES ASSUME NEW other \in RowId, row[other] \in {"unread", "read"},
                        other \notin batch
                 PROVE  other[1] \in raw' /\ other \in files'
      BY <2>5 DEF Backed, RemoveObjects
    <3>1. \A id \in batch : id[1] # other[1]
      BY <1>7, Sole
    <3> QED
      BY <2>5, <3>1 DEF RemoveObjects, Backed
  <2>6. CASE DeleteBatch
    BY <2>6 DEF DeleteBatch, Without, Backed
  <2> QED
    BY <2>1, <2>2, <2>3, <2>4, <2>5, <2>6 DEF Users, Clean
<1> QED
  BY <1>5, <1>6, <1>8, <1>9, <1>10, <1>11, <1>12

\* Every step keeps the invariant.
LEMMA ObjectNext ==
    TypeInv /\ LossInv /\ CopyInv /\ ObjectInv /\ [Next]_vars => ObjectInv'
<1> SUFFICES ASSUME TypeInv, LossInv, CopyInv, ObjectInv, [Next]_vars, faults' = 0
             PROVE  Tidy'
  BY DEF ObjectInv
<1>1. faults = 0 /\ Tidy
  BY RowsStay DEF ObjectInv
<1>2. CASE \E s \in Session : SendData(s) \/ Receive(s) \/ ServerCrash(s)
  BY <1>1, <1>2, ObjectSession
<1>3. CASE \E s \in Session : Pick(s) \/ Work(s)
  BY <1>1, <1>3, ObjectWork
<1>4. CASE Users \/ Clean \/ \E ids \in SUBSET ReadRows : SelectOld(ids)
  BY <1>1, <1>4, ObjectUsers
<1>5. CASE WorkerCrash
  BY <1>1, <1>5 DEF WorkerCrash, Fault
<1>6. CASE Quiet \/ UNCHANGED vars
  BY <1>1, <1>6 DEF Quiet, vars, Tidy, Gone, Attached, Halved, Swept, RawOwned,
                    FilesOwned, Backed, This, Saved, Exists
<1> QED
  BY <1>2, <1>3, <1>4, <1>5, <1>6 DEF Next

\* While nothing breaks, a message of the inbox has its .eml and attachments, but
\* for the moment in which a cleanup deletes it, and no object stays behind that
\* neither a message, nor a job, nor a handler at work owns
\* (workers/src/index.ts:62-158 and its processCleanup, the delete handlers of
\* routes/inboxes.ts).
THEOREM RowsOwnObjects == Spec => []ObjectsMatchRows
<1>1. Init => TypeInv /\ LossInv /\ CopyInv /\ ObjectInv
  BY TypeInit, LossInit, CopyInit, ObjectInit
<1>2. TypeInv /\ LossInv /\ CopyInv /\ ObjectInv /\ [Next]_vars
         => (TypeInv /\ LossInv /\ CopyInv /\ ObjectInv)'
  BY TypeNext, LossNext, CopyNext, ObjectNext
<1>3. TypeInv /\ ObjectInv => ObjectsMatchRows
  <2> SUFFICES ASSUME TypeInv, Tidy PROVE RowHasObjects /\ StoredIsOwned
    BY DEF ObjectInv, ObjectsMatchRows, RowHasObjects, StoredIsOwned
  <2>1. RowHasObjects
    BY DEF Tidy, Backed, RowHasObjects
  <2>2. ASSUME inbox, fits, NEW id \in RowId, row[id] # "none", id[1] \in raw \/ id \in files
        PROVE  Exists(id) \/ id \in leftover
    BY <2>2 DEF Tidy, Swept, Exists
  <2>3. ASSUME inbox, fits, NEW s \in raw
        PROVE  \/ smtp[s] \in {"route", "enqueue"}
               \/ jobState[s] \in {"pending", "active"}
               \/ \E k \in Runs : Exists(<<s, k>>) \/ <<s, k>> \in leftover
    <3>1. ASSUME NEW k \in Runs, row[<<s, k>>] # "none"
          PROVE  Exists(<<s, k>>) \/ <<s, k>> \in leftover
      BY <2>2, <2>3, <3>1 DEF RowId
    <3> QED
      BY <2>3, <3>1 DEF Tidy, RawOwned, Saved
  <2>4. ASSUME inbox, fits, NEW id \in files
        PROVE  Active(id[1]) \/ Exists(id) \/ id \in leftover
    BY <2>2, <2>4 DEF Tidy, FilesOwned
  <2> QED
    BY <2>1, <2>3, <2>4 DEF StoredIsOwned
<1> QED
  BY <1>1, <1>2, <1>3, PTL DEF Spec
===============================================================================
