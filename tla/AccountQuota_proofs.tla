------------------------- MODULE AccountQuota_proofs -------------------------
(***************************************************************************)
(* Proofs about AccountQuota, for any number of requests, any limits and   *)
(* any length of a month. Types and inboxes hold in any time zone; what is *)
(* said of months holds where the worker runs on UTC (Zone = 0) as the API *)
(* does.                                                                   *)
(***************************************************************************)
EXTENDS AccountQuota, TLAPS

USE LimitAssumption, ClockAssumption

(***************************************************************************)
(* The calendar. Month is a division, so the facts about it are nonlinear: *)
(* they are stated here once, and Month, End and NextReset stay unexpanded *)
(* below.                                                                  *)
(***************************************************************************)

\* Multiplication by the length of a month keeps order.
LEMMA Scaled == ASSUME NEW a \in Nat, NEW b \in Nat, a <= b
                PROVE  a * Ticks <= b * Ticks
<1> PICK d \in Nat : b = a + d
  <2> WITNESS b - a \in Nat
  <2> QED OBVIOUS
<1> b * Ticks = a * Ticks + d * Ticks
  OBVIOUS
<1> d * Ticks \in Nat /\ a * Ticks \in Nat
  OBVIOUS
<1> QED OBVIOUS

\* A time lies in its month.
LEMMA InMonth == ASSUME NEW t \in Nat
                 PROVE  /\ Month(t) \in Nat
                        /\ Month(t) * Ticks <= t
                        /\ t < End(Month(t))
<1> DEFINE q == t \div Ticks
<1>1. q \in Nat /\ t = Ticks * q + (t % Ticks) /\ t % Ticks \in 0 .. Ticks - 1
  OBVIOUS
<1> HIDE DEF q
<1>2. q * Ticks <= t /\ t < (q + 1) * Ticks
  BY <1>1
<1> QED BY <1>1, <1>2 DEF Month, End, q

\* The end of a month is a time.
LEMMA EndIsNat == ASSUME NEW m \in Nat PROVE End(m) \in Nat
BY DEF End

\* A time before the end of a month lies in it or in an earlier one.
LEMMA BeforeEnd == ASSUME NEW t \in Nat, NEW m \in Nat
                   PROVE  t < End(m) <=> Month(t) <= m
<1>1. /\ Month(t) \in Nat /\ Month(t) * Ticks <= t /\ t < (Month(t) + 1) * Ticks
  BY InMonth DEF End
<1>2. CASE Month(t) <= m
  <2>1. (Month(t) + 1) * Ticks <= (m + 1) * Ticks
    BY <1>1, <1>2, Scaled
  <2> QED BY <1>1, <1>2, <2>1 DEF End
<1>3. CASE m + 1 <= Month(t)
  <2>1. (m + 1) * Ticks <= Month(t) * Ticks
    BY <1>1, <1>3, Scaled
  <2> QED BY <1>1, <1>3, <2>1 DEF End
<1> QED BY <1>1, <1>2, <1>3

\* The ends of months are ordered as the months are.
LEMMA EndOrder == ASSUME NEW m \in Nat, NEW k \in Nat
                  PROVE  End(m) <= End(k) <=> m <= k
<1>1. m * Ticks \in Nat /\ k * Ticks \in Nat
  OBVIOUS
<1>2. CASE m <= k
  BY <1>2, <1>1, Scaled DEF End
<1>3. CASE k + 1 <= m
  <2>1. (k + 1) * Ticks <= m * Ticks
    BY <1>3, Scaled
  <2>2. (m + 1) * Ticks = m * Ticks + Ticks
    OBVIOUS
  <2> QED BY <1>1, <1>3, <2>1, <2>2 DEF End
<1> QED BY <1>2, <1>3

\* Later times have later resets, and a reset date after u is not before the
\* end of u's month.
LEMMA ResetOrder ==
    ASSUME NEW t \in Nat, NEW u \in Nat
    PROVE  /\ NextReset(t) \in Nat /\ t < NextReset(t)
           /\ t <= u => NextReset(t) <= NextReset(u)
           /\ u < NextReset(t) => NextReset(u) <= NextReset(t)
           /\ NextReset(t) = End(Month(t)) /\ Month(t) \in Nat
<1>1. Month(t) \in Nat /\ t < End(Month(t)) /\ Month(u) \in Nat /\ u < End(Month(u))
  BY InMonth
<1>2. u < NextReset(t) => NextReset(u) <= NextReset(t)
  BY <1>1, BeforeEnd, EndOrder DEF NextReset
<1>3. t <= u => NextReset(t) <= NextReset(u)
  <2> SUFFICES ASSUME t <= u PROVE NextReset(t) <= NextReset(u)
    OBVIOUS
  <2>1. t < End(Month(u))
    BY <1>1, EndIsNat
  <2>2. Month(t) <= Month(u)
    BY <1>1, <2>1, BeforeEnd
  <2> QED BY <1>1, <2>2, EndOrder DEF NextReset
<1> QED BY <1>1, <1>2, <1>3, EndIsNat DEF NextReset

\* The month of a time the clock can show is one of Months.
LEMMA MonthIsBounded == ASSUME NEW t \in 0 .. MaxClock PROVE Month(t) \in Months
<1>1. Month(t) \in Nat /\ Month(MaxClock) \in Nat /\ MaxClock < End(Month(MaxClock))
  BY InMonth
<1>2. t < End(Month(MaxClock))
  BY <1>1, EndIsNat
<1>3. Month(t) <= Month(MaxClock)
  BY <1>1, <1>2, BeforeEnd
<1> QED BY <1>1, <1>3 DEF Months, Month

\* Months are numbers.
LEMMA MonthsAreNat == Months \subseteq Nat
<1>1. Month(MaxClock) \in Nat
  BY InMonth
<1> QED BY <1>1 DEF Months, Month

-------------------------------------------------------------------------------
(***************************************************************************)
(* The invariant. MonthWithinLimit is not inductive: that the recipients of*)
(* this month are still in current_monthly_sent rests on the reset date    *)
(* lying after the month, and that on every request having passed its own  *)
(* reset before it consumes, whatever stale resets run in between.         *)
(***************************************************************************)

\* No statement carries a time the clock has not reached, and the reset date
\* was computed from a time that has passed.
Dated ==
    /\ \A s \in Sends : now[s] <= clock
    /\ worker <= clock /\ page <= clock
    /\ resetAt \in {Never, Absent} \cup {NextReset(t) : t \in 0 .. clock}

DatedFor(s) == resetAt = Never \/ NextReset(now[s]) <= resetAt

\* A request about to consume finds a row that has been reset for its month.
Ready ==
    \A s \in Sends : /\ pc[s] \in {"reset", "consume"} => Exists
                     /\ pc[s] = "consume" => DatedFor(s)

\* Until a month ends, current_monthly_sent holds everything counted in it.
WithinSent ==
    \A m \in Months :
        within[m] > 0 /\ clock < End(m) =>
            Exists /\ within[m] <= sent /\ (resetAt = Never \/ End(m) <= resetAt)

\* What current_monthly_sent holds was counted in the months since its reset.
SentSince ==
    Exists /\ resetAt # Never =>
        \A m \in Months : End(m) <= resetAt => sent <= since[m]

QuotaInv == TypeOK /\ Dated /\ Ready /\ WithinSent /\ MonthWithinLimit /\ SentSince

\* The initial state satisfies the invariant.
LEMMA QuotaInit == Init => QuotaInv
<1> SUFFICES ASSUME Init PROVE QuotaInv
  OBVIOUS
<1> USE DEF Init
<1>1. TypeOK
  BY DEF TypeOK, Absent, None
<1>2. Dated
  BY DEF Dated, None
<1>3. Ready /\ WithinSent /\ MonthWithinLimit /\ SentSince
  BY DEF Ready, WithinSent, MonthWithinLimit, SentSince, Exists
<1> QED BY <1>1, <1>2, <1>3 DEF QuotaInv

USE DEF quotaVars, sendVars, inboxVars, SendUnchanged, InboxUnchanged, Goto

-------------------------------------------------------------------------------
(***************************************************************************)
(* Types. They do not depend on how far the worker's local time is ahead   *)
(* of UTC, so neither does the bound of current_monthly_sent.              *)
(***************************************************************************)

\* The reset dates that the handlers compute are numbers, in the worker's local
\* time as well.
LEMMA ResetIsInt ==
    ASSUME NEW t \in Nat
    PROVE  NextReset(t) \in Int /\ NextLocalReset(t) \in Int
<1> DEFINE q == (t + Zone) \div Ticks
<1>1. q \in Int
  OBVIOUS
<1>2. (q + 1) * Ticks \in Int
  <2> HIDE DEF q
  <2> QED BY <1>1
<1>3. NextReset(t + Zone) \in Int
  BY <1>2 DEF NextReset, End, Month
<1>4. NextReset(t) \in Int
  BY InMonth, EndIsNat DEF NextReset
<1> QED BY <1>3, <1>4 DEF NextLocalReset

\* What every step leaves of the row: a date, and a count within the limit.
LEMMA RowTyped ==
    ASSUME TypeOK, [Next]_vars
    PROVE  resetAt' \in Int /\ sent' \in 0 .. Limit
<1> USE DEF TypeOK, InsertQuota, ResetQuota, Never
<1>1. CASE \E s \in Sends : Send(s)
  <2> PICK s \in Sends : Send(s)
    BY <1>1
  <2>1. NextReset(now[s]) \in Int
    BY ResetIsInt
  <2>2. CASE Consume(s)
    BY <2>2 DEF Consume, Fits
  <2>3. CASE Insert(s) \/ Reset(s)
    BY <2>1, <2>3 DEF Insert, Reset
  <2>4. CASE Begin(s) \/ Refuse(s) \/ Abort(s)
    BY <2>4 DEF Begin, Refuse, Abort
  <2> QED BY <2>2, <2>3, <2>4 DEF Send
<1>2. CASE UpdateOverdue
  <2>1. NextLocalReset(worker) \in Int
    BY <1>2, ResetIsInt DEF UpdateOverdue
  <2> QED BY <1>2, <2>1 DEF UpdateOverdue
<1>3. CASE InsertUsage
  <2>1. NextReset(page) \in Int
    BY <1>3, ResetIsInt DEF InsertUsage
  <2> QED BY <1>3, <2>1 DEF InsertUsage
<1>4. CASE \E c \in Creates : CreateInbox(c)
  <2> PICK c \in Creates : CreateInbox(c)
    BY <1>4
  <2> QED BY DEF CreateInbox, Lock, CountInboxes, Commit, Rollback
<1>5. CASE Tick \/ SelectOverdue \/ ReadUsage \/ DeleteInbox \/ UNCHANGED vars
  BY <1>5 DEF Tick, SelectOverdue, ReadUsage, DeleteInbox, vars
<1> QED BY <1>1, <1>2, <1>3, <1>4, <1>5 DEF Next

\* Every step keeps the type.
LEMMA TypeStep == TypeOK /\ [Next]_vars => TypeOK'
<1> SUFFICES ASSUME TypeOK, [Next]_vars PROVE TypeOK'
  OBVIOUS
<1>1. resetAt' \in Int /\ sent' \in 0 .. Limit
  BY RowTyped
<1>2. CASE \E s \in Sends : Consume(s)
  <2> PICK s \in Sends : Consume(s)
    BY <1>2
  <2> QED BY <1>1, MonthIsBounded DEF Consume, TypeOK
<1>3. CASE ~ \E s \in Sends : Consume(s)
  <2> USE DEF TypeOK
  <2>1. CASE \E s \in Sends : Send(s)
    <3> PICK s \in Sends : Send(s)
      BY <2>1
    <3> QED BY <1>1, <1>3 DEF Send, Begin, Insert, Reset, Refuse, Abort
  <2>2. CASE \E c \in Creates : CreateInbox(c)
    <3> PICK c \in Creates : CreateInbox(c)
      BY <2>2
    <3> QED BY <1>1 DEF CreateInbox, Lock, CountInboxes, Commit, Rollback
  <2>3. CASE \/ Tick \/ SelectOverdue \/ UpdateOverdue \/ ReadUsage
             \/ InsertUsage \/ DeleteInbox \/ UNCHANGED vars
    BY <1>1, <2>3 DEF Tick, SelectOverdue, UpdateOverdue, ReadUsage, InsertUsage,
                      DeleteInbox, vars
  <2> QED BY <2>1, <2>2, <2>3 DEF Next
<1> QED BY <1>2, <1>3

\* Whatever the limits, the length of a month and the time zone of the worker,
\* and however the statements of the handlers interleave,
\* current_monthly_sent never exceeds the limit: the conditional UPDATE of the
\* send keeps it there, whichever reset ran before it.
THEOREM TypeCorrect == Spec => []TypeOK
<1>1. Init => TypeOK
  BY DEF Init, TypeOK, Absent, None
<1> QED BY <1>1, TypeStep, PTL DEF Spec

-------------------------------------------------------------------------------
(***************************************************************************)
(* What a step does to the row.                                            *)
(***************************************************************************)
Kept == resetAt' = resetAt /\ sent' = sent
Restarted(t) == (~Exists \/ Due(t)) /\ resetAt' = NextReset(t) /\ sent' = 0
Undated == ~Exists /\ resetAt' = Never /\ sent' = 0

\* Every step but Consume keeps the row, restarts it from a time that has
\* passed, or creates it without a reset date.
LEMMA RowStep ==
    ASSUME Zone = 0, QuotaInv, [Next]_vars, ~ \E s \in Sends : Consume(s)
    PROVE  /\ Kept \/ Undated \/ \E t \in 0 .. clock : Restarted(t)
           /\ within' = within /\ since' = since
           /\ clock' \in Nat /\ clock <= clock' /\ clock' <= MaxClock
<1> USE DEF QuotaInv, TypeOK, InsertQuota, ResetQuota, Kept, Restarted, Undated
<1>1. CASE \E s \in Sends : Send(s)
  <2> PICK s \in Sends : Send(s)
    BY <1>1
  <2>1. now[s] \in 0 .. clock
    BY DEF Dated
  <2>2. CASE Begin(s) \/ Refuse(s) \/ Abort(s)
    BY <2>2 DEF Begin, Refuse, Abort
  <2>3. CASE Insert(s)
    BY <2>1, <2>3 DEF Insert
  <2>4. CASE Reset(s)
    BY <2>1, <2>4 DEF Reset
  <2> QED BY <2>2, <2>3, <2>4 DEF Send
<1>2. CASE UpdateOverdue
  <2>1. worker \in 0 .. clock
    BY <1>2 DEF UpdateOverdue, Dated
  <2>2. NextLocalReset(worker) = NextReset(worker)
    <3>1. NextReset(worker) \in Nat
      BY <2>1, ResetOrder
    <3> QED BY <2>1, <3>1 DEF NextLocalReset
  <2> QED BY <1>2, <2>1, <2>2 DEF UpdateOverdue
<1>3. CASE InsertUsage
  <2>1. page \in 0 .. clock
    BY <1>3 DEF InsertUsage, Dated
  <2> QED BY <1>3, <2>1 DEF InsertUsage
<1>4. CASE Tick \/ SelectOverdue \/ ReadUsage \/ DeleteInbox \/ UNCHANGED vars
  BY <1>4 DEF Tick, SelectOverdue, ReadUsage, DeleteInbox, vars
<1>5. CASE \E c \in Creates : CreateInbox(c)
  <2> PICK c \in Creates : CreateInbox(c)
    BY <1>5
  <2> QED BY DEF CreateInbox, Lock, CountInboxes, Commit, Rollback
<1> QED BY <1>1, <1>2, <1>3, <1>4, <1>5 DEF Next

\* A dated row that restarts was overdue, so its reset date only moves on.
LEMMA Later ==
    ASSUME QuotaInv, NEW t \in 0 .. clock, Restarted(t)
    PROVE  /\ resetAt' \in Nat /\ t < resetAt' /\ Exists'
           /\ Exists => resetAt # Never /\ resetAt \in Nat /\ resetAt <= t
<1>1. NextReset(t) \in Nat /\ t < NextReset(t) /\ clock \in Nat
  BY ResetOrder DEF QuotaInv, TypeOK
<1>2. Exists => resetAt # Never /\ resetAt <= t
  BY DEF Restarted, Due
<1>3. Exists /\ resetAt # Never => resetAt \in Nat
  <2> SUFFICES ASSUME Exists, resetAt # Never PROVE resetAt \in Nat
    OBVIOUS
  <2> PICK u \in 0 .. clock : resetAt = NextReset(u)
    BY DEF QuotaInv, Dated, Exists
  <2> QED BY <1>1, ResetOrder
<1> QED BY <1>1, <1>2, <1>3 DEF Restarted, Exists, Absent

\* A dated row has the reset date of a time that has passed.
LEMMA DatedRow ==
    ASSUME QuotaInv, Exists, resetAt # Never
    PROVE  \E t \in 0 .. clock : resetAt = NextReset(t)
BY DEF QuotaInv, Dated, Exists

\* Every step keeps Dated.
LEMMA DatedStep == QuotaInv /\ [Next]_vars /\ Zone = 0 => Dated'
<1> SUFFICES ASSUME QuotaInv, [Next]_vars, Zone = 0 PROVE Dated'
  OBVIOUS
<1> USE DEF QuotaInv, TypeOK, Dated
<1>1. CASE \E s \in Sends : Consume(s)
  <2> PICK s \in Sends : Consume(s)
    BY <1>1
  <2> QED BY DEF Consume
<1>2. CASE ~ \E s \in Sends : Consume(s)
  <2>1. clock' \in Nat /\ clock <= clock'
    BY <1>2, RowStep
  <2>2. 0 .. clock \subseteq 0 .. clock'
    BY <2>1
  <2>3. resetAt' \in {Never, Absent} \cup {NextReset(t) : t \in 0 .. clock'}
    <3>1. CASE Kept \/ Undated
      BY <2>2, <3>1 DEF Kept, Undated
    <3>2. CASE \E t \in 0 .. clock : Restarted(t)
      BY <2>2, <3>2 DEF Restarted
    <3> QED BY <1>2, <3>1, <3>2, RowStep
  <2>4. (\A s \in Sends : now'[s] <= clock') /\ worker' <= clock' /\ page' <= clock'
    <3>1. CASE \E s \in Sends : Send(s)
      <4> PICK s \in Sends : Send(s)
        BY <3>1
      <4> QED BY <1>2 DEF Send, Begin, Insert, Reset, Refuse, Abort
    <3>2. CASE \E c \in Creates : CreateInbox(c)
      <4> PICK c \in Creates : CreateInbox(c)
        BY <3>2
      <4> QED BY DEF CreateInbox, Lock, CountInboxes, Commit, Rollback
    <3>3. CASE SelectOverdue \/ UpdateOverdue \/ ReadUsage \/ InsertUsage
      BY <3>3 DEF SelectOverdue, UpdateOverdue, ReadUsage, InsertUsage, None
    <3>4. CASE Tick \/ DeleteInbox \/ UNCHANGED vars
      BY <3>4 DEF Tick, DeleteInbox, vars, None
    <3> QED BY <3>1, <3>2, <3>3, <3>4 DEF Next
  <2> QED BY <2>3, <2>4
<1> QED BY <1>1, <1>2

\* A row that exists goes on existing, and a reset date never moves back.
LEMMA RowPersists ==
    ASSUME Zone = 0, QuotaInv, [Next]_vars, Exists
    PROVE  Exists' /\ (resetAt = Never \/ resetAt' = resetAt
                        \/ (resetAt' \in Nat /\ resetAt \in Nat /\ resetAt <= resetAt'))
<1>1. CASE \E s \in Sends : Consume(s)
  <2> PICK s \in Sends : Consume(s)
    BY <1>1
  <2> QED BY DEF Consume, Exists
<1>2. CASE Kept \/ Undated
  BY <1>2 DEF Kept, Undated, Exists
<1>3. CASE \E t \in 0 .. clock : Restarted(t)
  <2> PICK t \in 0 .. clock : Restarted(t)
    BY <1>3
  <2>1. resetAt' \in Nat /\ t < resetAt' /\ Exists' /\ resetAt \in Nat /\ resetAt <= t
    BY Later
  <2> QED BY <2>1
<1> QED BY <1>1, <1>2, <1>3, RowStep

\* Every step keeps Ready.
LEMMA ReadyStep == QuotaInv /\ [Next]_vars /\ Zone = 0 => Ready'
<1> SUFFICES ASSUME QuotaInv, [Next]_vars, Zone = 0, NEW r \in Sends
             PROVE  /\ pc'[r] \in {"reset", "consume"} => Exists'
                    /\ pc'[r] = "consume" => DatedFor(r)'
  BY DEF Ready
<1> USE DEF QuotaInv, TypeOK
<1>1. ASSUME pc'[r] = pc[r], now'[r] = now[r]
      PROVE  /\ pc'[r] \in {"reset", "consume"} => Exists'
             /\ pc'[r] = "consume" => DatedFor(r)'
  <2>1. pc'[r] \in {"reset", "consume"} => Exists
    BY <1>1 DEF Ready
  <2>2. SUFFICES ASSUME pc'[r] = "consume", Exists', Exists PROVE DatedFor(r)'
    BY <2>1, RowPersists
  <2>3. DatedFor(r) /\ NextReset(now[r]) \in Nat
    <3>1. DatedFor(r)
      BY <1>1, <2>2 DEF Ready
    <3>2. now[r] \in Nat
      OBVIOUS
    <3> QED BY <3>1, <3>2, ResetOrder
  <2>4. CASE resetAt = Never
    <3>1. resetAt' = Never
      <4>1. CASE \E s \in Sends : Consume(s)
        BY <4>1, <2>4 DEF Consume
      <4>2. CASE Kept \/ Undated
        BY <4>2, <2>4 DEF Kept, Undated
      <4>3. CASE \E t \in 0 .. clock : Restarted(t)
        BY <4>3, <2>4, <2>2 DEF Restarted, Due
      <4> QED BY <4>1, <4>2, <4>3, RowStep
    <3> QED BY <3>1 DEF DatedFor
  <2>5. CASE resetAt # Never
    <3>1. NextReset(now[r]) <= resetAt /\ resetAt \in Int
      BY <2>3, <2>5 DEF DatedFor
    <3>2. resetAt' = resetAt \/ (resetAt' \in Nat /\ resetAt <= resetAt')
      BY <2>2, <2>5, RowPersists
    <3> QED BY <1>1, <2>3, <3>1, <3>2 DEF DatedFor
  <2> QED BY <2>4, <2>5
<1>2. CASE \E s \in Sends : Send(s)
  <2> PICK s \in Sends : Send(s)
    BY <1>2
  <2>1. CASE s # r
    <3>1. pc'[r] = pc[r] /\ now'[r] = now[r]
      BY <2>1 DEF Send, Begin, Insert, Reset, Consume, Refuse, Abort
    <3> QED BY <3>1, <1>1
  <2>2. CASE s = r /\ (Begin(r) \/ Consume(r) \/ Refuse(r) \/ Abort(r))
    BY <2>2 DEF Begin, Consume, Refuse, Abort
  <2>3. CASE s = r /\ Insert(r)
    <3>1. pc'[r] = "reset" /\ now[r] \in 0 .. clock
      BY <2>3 DEF Insert, Dated
    <3>2. NextReset(now[r]) \in Nat
      BY <3>1, ResetOrder
    <3> QED BY <2>3, <3>1, <3>2 DEF Insert, InsertQuota, Exists, Absent
  <2>4. CASE s = r /\ Reset(r)
    <3>1. pc'[r] = "consume" /\ now'[r] = now[r] /\ now[r] \in 0 .. clock /\ Exists
      BY <2>4 DEF Reset, Dated, Ready
    <3>2. NextReset(now[r]) \in Nat
      BY <3>1, ResetOrder
    <3>3. CASE Due(now[r])
      BY <2>4, <3>1, <3>2, <3>3 DEF Reset, ResetQuota, Exists, Absent, DatedFor
    <3>4. CASE ~ Due(now[r])
      <4>1. resetAt' = resetAt
        BY <2>4, <3>4 DEF Reset, ResetQuota
      <4>2. CASE resetAt = Never
        BY <3>1, <4>1, <4>2 DEF Exists, DatedFor
      <4>3. CASE resetAt # Never
        <5> PICK t \in 0 .. clock : resetAt = NextReset(t)
          BY <3>1, <4>3, DatedRow
        <5>1. now[r] < NextReset(t)
          BY <3>1, <3>4, <4>3, ResetOrder DEF Due
        <5>2. NextReset(now[r]) <= resetAt
          BY <3>1, <5>1, ResetOrder
        <5> QED BY <3>1, <4>1, <5>2 DEF Exists, DatedFor
      <4> QED BY <4>2, <4>3
    <3> QED BY <3>3, <3>4
  <2> QED BY <2>1, <2>2, <2>3, <2>4 DEF Send
<1>3. CASE \E c \in Creates : CreateInbox(c)
  <2> PICK c \in Creates : CreateInbox(c)
    BY <1>3
  <2>1. pc' = pc /\ now' = now
    BY DEF CreateInbox, Lock, CountInboxes, Commit, Rollback
  <2> QED BY <1>1, <2>1
<1>4. CASE \/ Tick \/ SelectOverdue \/ UpdateOverdue \/ ReadUsage
           \/ InsertUsage \/ DeleteInbox \/ UNCHANGED vars
  <2>1. pc' = pc /\ now' = now
    BY <1>4 DEF Tick, SelectOverdue, UpdateOverdue, ReadUsage, InsertUsage,
                DeleteInbox, vars
  <2> QED BY <1>1, <2>1
<1> QED BY <1>2, <1>3, <1>4 DEF Next

\* A row that restarts holds nothing of a month that has not ended.
LEMMA WithinStep ==
    QuotaInv /\ [Next]_vars /\ Zone = 0 => WithinSent' /\ MonthWithinLimit'
<1> SUFFICES ASSUME QuotaInv, [Next]_vars, Zone = 0, TypeOK', NEW m \in Months
             PROVE  /\ within'[m] <= Limit
                    /\ within'[m] > 0 /\ clock' < End(m) =>
                          /\ Exists' /\ within'[m] <= sent'
                          /\ resetAt' = Never \/ End(m) <= resetAt'
  BY TypeStep DEF QuotaInv, WithinSent, MonthWithinLimit, Months
<1> USE DEF QuotaInv, TypeOK
<1>0. m \in Nat /\ End(m) \in Nat
  BY MonthsAreNat, EndIsNat
<1>1. CASE \E s \in Sends : Consume(s)
  <2> PICK s \in Sends : Consume(s)
    BY <1>1
  <2>1. /\ Exists /\ Exists' /\ clock' = clock /\ resetAt' = resetAt
        /\ sent' = sent + recipients[s] /\ sent' <= Limit
        /\ recipients[s] \in Nat /\ sent \in Nat /\ Limit \in Nat
    BY DEF Consume, Fits, Ready, Exists
  <2>2. CASE m = Month(clock) /\ Month(now[s]) = Month(clock)
    <3>1. within'[m] = within[m] + recipients[s]
      BY <2>2 DEF Consume
    <3>2. clock < End(m)
      BY <2>2, InMonth
    <3>3. resetAt = Never \/ End(m) <= resetAt
      BY <2>2 DEF Consume, Ready, DatedFor, NextReset
    <3>4. within[m] <= sent
      BY <3>2, <2>1 DEF WithinSent
    <3> QED BY <2>1, <3>1, <3>3, <3>4
  <2>3. CASE ~(m = Month(clock) /\ Month(now[s]) = Month(clock))
    <3>1. within'[m] = within[m]
      BY <2>3 DEF Consume
    <3>2. within[m] <= Limit /\ within[m] \in Nat
      BY DEF MonthWithinLimit
    <3>3. within[m] > 0 /\ clock < End(m) =>
              Exists /\ within[m] <= sent /\ (resetAt = Never \/ End(m) <= resetAt)
      BY DEF WithinSent
    <3> QED BY <2>1, <3>1, <3>2, <3>3
  <2> QED BY <2>2, <2>3
<1>2. CASE ~ \E s \in Sends : Consume(s)
  <2>1. within' = within /\ clock <= clock' /\ within[m] <= Limit
    BY <1>2, RowStep DEF MonthWithinLimit
  <2>2. SUFFICES ASSUME within[m] > 0, clock' < End(m)
                 PROVE  /\ Exists' /\ within[m] <= sent'
                        /\ resetAt' = Never \/ End(m) <= resetAt'
    BY <2>1
  <2>3. clock < End(m)
    BY <1>0, <2>1, <2>2
  <2>4. Exists /\ within[m] <= sent /\ (resetAt = Never \/ End(m) <= resetAt)
    BY <2>2, <2>3 DEF WithinSent
  <2>5. Kept
    <3>1. ~Undated
      BY <2>4 DEF Undated
    <3>2. ASSUME NEW t \in 0 .. clock, Restarted(t) PROVE FALSE
      <4>1. resetAt # Never /\ resetAt \in Nat /\ resetAt <= t
        BY <2>4, <3>2, Later
      <4> QED BY <1>0, <2>3, <2>4, <4>1
    <3> QED BY <1>2, <3>1, <3>2, RowStep
  <2> QED BY <2>4, <2>5 DEF Kept, Exists
<1> QED BY <1>1, <1>2

\* What a step counts, it counts in every month up to the present.
LEMMA SinceStep == QuotaInv /\ [Next]_vars /\ Zone = 0 => SentSince'
<1> SUFFICES ASSUME QuotaInv, [Next]_vars, Zone = 0, Exists', resetAt' # Never,
                    NEW m \in Months, End(m) <= resetAt'
             PROVE  sent' <= since'[m]
  BY DEF SentSince, Months
<1> USE DEF QuotaInv, TypeOK
<1>0. m \in Nat /\ End(m) \in Nat /\ since[m] \in Nat
  BY MonthsAreNat, EndIsNat
<1>1. CASE \E s \in Sends : Consume(s)
  <2> PICK s \in Sends : Consume(s)
    BY <1>1
  <2>1. /\ resetAt' = resetAt /\ sent' = sent + recipients[s]
        /\ recipients[s] \in Nat /\ sent \in Nat /\ Exists
    BY DEF Consume, Exists
  <2>2. sent <= since[m]
    BY <2>1 DEF SentSince
  <2>3. m <= Month(clock)
    <3> PICK t \in 0 .. clock : resetAt = NextReset(t)
      BY <2>1, DatedRow
    <3>1. NextReset(t) <= NextReset(clock) /\ NextReset(t) \in Nat
      BY ResetOrder
    <3>2. NextReset(clock) = End(Month(clock)) /\ Month(clock) \in Nat
      BY ResetOrder
    <3>3. End(m) <= End(Month(clock))
      BY <1>0, <2>1, <3>1, <3>2, EndIsNat
    <3> QED BY <1>0, <3>2, <3>3, EndOrder
  <2>4. since'[m] = since[m] + recipients[s]
    BY <2>3 DEF Consume
  <2> QED BY <1>0, <2>1, <2>2, <2>4
<1>2. CASE ~ \E s \in Sends : Consume(s)
  <2>1. since' = since
    BY <1>2, RowStep
  <2>2. CASE Kept
    BY <2>1, <2>2 DEF Kept, SentSince, Exists
  <2>3. CASE Undated \/ \E t \in 0 .. clock : Restarted(t)
    BY <1>0, <2>1, <2>3 DEF Undated, Restarted
  <2> QED BY <1>2, <2>2, <2>3, RowStep
<1> QED BY <1>1, <1>2

\* Every step keeps the invariant.
LEMMA QuotaNext == QuotaInv /\ [Next]_vars /\ Zone = 0 => QuotaInv'
BY TypeStep, DatedStep, ReadyStep, WithinStep, SinceStep DEF QuotaInv

\* On a worker that runs on UTC the monthly limit holds for every month.
THEOREM MonthlyLimit == ASSUME Zone = 0 PROVE Spec => [](TypeOK /\ MonthWithinLimit)
<1>1. QuotaInv /\ [Next]_vars => QuotaInv'
  BY QuotaNext
<1>2. QuotaInv => TypeOK /\ MonthWithinLimit
  BY DEF QuotaInv
<1> QED BY QuotaInit, <1>1, <1>2, PTL DEF Spec

\* A request that finds too little room left has it exhausted by requests
\* counted since its own month began.
LEMMA RefusedRow ==
    ASSUME QuotaInv, [Next]_vars, NEW s \in Sends, RefusedNow(s), resetAt # Never
    PROVE  Exhausted(s)
<1> USE DEF QuotaInv, TypeOK
<1>1. Refuse(s)
  <2>1. CASE \E r \in Sends : Send(r)
    <3> PICK r \in Sends : Send(r)
      BY <2>1
    <3>1. r = s
      BY DEF RefusedNow, Send, Begin, Insert, Reset, Consume, Refuse, Abort
    <3> QED BY <3>1 DEF RefusedNow, Send, Begin, Insert, Reset, Consume, Abort
  <2>2. CASE \E c \in Creates : CreateInbox(c)
    <3> PICK c \in Creates : CreateInbox(c)
      BY <2>2
    <3> QED BY DEF RefusedNow, CreateInbox, Lock, CountInboxes, Commit, Rollback
  <2>3. CASE \/ Tick \/ SelectOverdue \/ UpdateOverdue \/ ReadUsage
             \/ InsertUsage \/ DeleteInbox \/ UNCHANGED vars
    BY <2>3 DEF RefusedNow, Tick, SelectOverdue, UpdateOverdue, ReadUsage,
                InsertUsage, DeleteInbox, vars
  <2> QED BY <2>1, <2>2, <2>3 DEF Next
<1> DEFINE m == Month(now[s])
<1>2. m \in Months /\ NextReset(now[s]) = End(m)
  BY MonthIsBounded DEF NextReset
<1>3. Exists /\ End(m) <= resetAt
  BY <1>1, <1>2 DEF Refuse, Ready, DatedFor
<1>4. sent <= since[m]
  BY <1>2, <1>3 DEF SentSince
<1>5. sent + recipients[s] > Limit /\ since[m] \in Nat /\ recipients[s] \in Nat
  BY <1>1, <1>2 DEF Refuse, Fits
<1> QED BY <1>4, <1>5 DEF Exhausted

\* On a worker that runs on UTC no account with a reset date is refused a send
\* for usage of an earlier month.
THEOREM RefusalsAreDue == ASSUME Zone = 0 PROVE Spec => RefusalIsDue
<1>1. QuotaInv /\ [Next]_vars => QuotaInv'
  BY QuotaNext
<1>2. QuotaInv /\ [Next]_vars =>
          [\A s \in Sends : RefusedNow(s) /\ resetAt # Never => Exhausted(s)]_vars
  BY RefusedRow
<1> QED BY QuotaInit, <1>1, <1>2, PTL DEF Spec, RefusalIsDue

-------------------------------------------------------------------------------
(***************************************************************************)
(* Inbox creation. The holder of the lock is the one creation between its  *)
(* count and its commit, so the count it read is still an upper bound.     *)
(***************************************************************************)
InboxInv ==
    /\ create \in [Creates -> {"idle", "count", "insert", "created", "refused",
                               "error"}]
    /\ seen \in [Creates -> Nat] /\ inboxes \in Nat /\ inboxes <= MaxInboxes
    /\ \A c \in Creates : create[c] \in {"count", "insert"} => lock = {c}
    /\ \A c \in Creates : create[c] = "insert" => inboxes <= seen[c]

\* Every step keeps the invariant of inbox creation.
LEMMA InboxStep == InboxInv /\ [Next]_vars => InboxInv'
<1> SUFFICES ASSUME InboxInv, [Next]_vars PROVE InboxInv'
  OBVIOUS
<1> USE DEF InboxInv
<1>1. CASE \E c \in Creates : CreateInbox(c)
  <2> PICK c \in Creates : CreateInbox(c)
    BY <1>1
  <2>1. CASE Lock(c)
    BY <2>1 DEF Lock
  <2>2. CASE CountInboxes(c)
    BY <2>2 DEF CountInboxes
  <2>3. CASE Commit(c)
    BY <2>3 DEF Commit
  <2>4. CASE Rollback(c)
    BY <2>4 DEF Rollback
  <2> QED BY <2>1, <2>2, <2>3, <2>4 DEF CreateInbox
<1>2. CASE DeleteInbox
  BY <1>2 DEF DeleteInbox
<1>3. CASE \E s \in Sends : Send(s)
  <2> PICK s \in Sends : Send(s)
    BY <1>3
  <2>1. UNCHANGED inboxVars
    BY DEF Send, Begin, Insert, Reset, Consume, Refuse, Abort
  <2> QED BY <2>1
<1>4. CASE \/ Tick \/ SelectOverdue \/ UpdateOverdue \/ ReadUsage
           \/ InsertUsage \/ UNCHANGED vars
  <2>1. UNCHANGED inboxVars
    BY <1>4 DEF Tick, SelectOverdue, UpdateOverdue, ReadUsage, InsertUsage, vars
  <2> QED BY <2>1
<1> QED BY <1>1, <1>2, <1>3, <1>4 DEF Next

\* However many creations and deletions run at once, the account keeps within
\* its number of inboxes.
THEOREM InboxLimit == Spec => []InboxesWithinLimit
<1>1. Init => InboxInv
  BY DEF Init, InboxInv
<1>2. InboxInv => InboxesWithinLimit
  BY DEF InboxInv, InboxesWithinLimit
<1> QED BY <1>1, <1>2, InboxStep, PTL DEF Spec

\* Both limits together, for any number of sends, creations and deletions, on a
\* worker that runs on UTC.
THEOREM LimitsAreKept == ASSUME Zone = 0 PROVE Spec => []LimitsHold
<1>1. Spec => [](TypeOK /\ MonthWithinLimit)
  BY MonthlyLimit
<1>2. Spec => []InboxesWithinLimit
  BY InboxLimit
<1>3. TypeOK /\ MonthWithinLimit /\ InboxesWithinLimit => LimitsHold
  BY DEF LimitsHold
<1> QED BY <1>1, <1>2, <1>3, PTL
===============================================================================
