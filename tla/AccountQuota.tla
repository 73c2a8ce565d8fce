----------------------------- MODULE AccountQuota -----------------------------
(***************************************************************************)
(* The quota row of one account: the monthly sends counted by every send   *)
(* (lib/quota.ts), the worker that resets overdue quotas (workers/src/     *)
(* index.ts), the usage page (routes/quotas.ts) and the inbox limit        *)
(* (routes/inboxes.ts). Every SQL statement is one step; between two       *)
(* statements of a handler any other may run, and time may pass.           *)
(***************************************************************************)
EXTENDS Integers, FiniteSets

CONSTANTS
    Sends,      \* send requests of the account
    Creates,    \* requests that create an inbox
    Limit,      \* monthly_send_limit (1000 by default)
    MaxInboxes, \* max_inboxes (10 by default)
    MaxBatch,   \* bound on the recipients of one request
    Ticks,      \* clock ticks in a month
    MaxClock,   \* bound on the clock
    Zone        \* how far the worker's local time is ahead of UTC, in ticks

ASSUME LimitAssumption == /\ Limit \in Nat /\ MaxInboxes \in Nat
                          /\ MaxBatch \in Nat \ {0}
ASSUME ClockAssumption == Ticks \in Nat \ {0} /\ MaxClock \in Nat /\ Zone \in Int

Never == -1       \* quota_reset_at IS NULL
Absent == -2      \* the account has no user_quotas row

VARIABLES
    clock,
    resetAt,      \* user_quotas.quota_reset_at, Never, or Absent
    sent,         \* user_quotas.current_monthly_sent
    pc,           \* the statement each send request is about to execute
    now,          \* "now" of checkAndIncrementQuota: when the request began
    recipients,   \* its "count"
    worker,       \* processQuotaReset: the "now" it selected overdue rows at
    page,         \* GET /api/account/usage: the "now" it found no row at
    create,       \* the statement each inbox creation is about to execute
    lock,         \* the creations that hold the account's advisory lock
    seen,         \* the inbox count a creation read
    inboxes,      \* inboxes the account owns
    within,       \* history: recipients that requests of month m counted in m
    since         \* history: recipients counted in month m or later

quotaVars == <<resetAt, sent>>
sendVars  == <<pc, now, recipients, within, since>>
inboxVars == <<create, lock, seen, inboxes>>
vars == <<clock, quotaVars, sendVars, worker, page, inboxVars>>

Months == 0 .. MaxClock \div Ticks
Month(t) == t \div Ticks

\* Date.UTC(year, month + 1, 1), and the same in the worker's local time.
End(m) == (m + 1) * Ticks
NextReset(t) == End(Month(t))
NextLocalReset(t) == NextReset(t + Zone) - Zone

None == -1
Exists == resetAt # Absent
Due(t) == Exists /\ resetAt # Never /\ resetAt <= t

Init ==
    /\ clock = 0
    /\ resetAt = Absent
    /\ sent = 0
    /\ pc = [s \in Sends |-> "idle"]
    /\ now = [s \in Sends |-> 0]
    /\ recipients = [s \in Sends |-> 0]
    /\ worker = None
    /\ page = None
    /\ create = [c \in Creates |-> "idle"]
    /\ lock = {}
    /\ seen = [c \in Creates |-> 0]
    /\ inboxes = 0
    /\ within = [m \in Months |-> 0]
    /\ since = [m \in Months |-> 0]

Tick == /\ clock < MaxClock
        /\ clock' = clock + 1
        /\ UNCHANGED <<quotaVars, sendVars, worker, page, inboxVars>>

\* INSERT INTO user_quotas ... ON CONFLICT DO NOTHING
InsertQuota(reset) ==
    IF Exists THEN UNCHANGED quotaVars
              ELSE resetAt' = reset /\ sent' = 0

\* UPDATE user_quotas SET current_monthly_sent = 0 WHERE quota_reset_at <= t
ResetQuota(t, reset) ==
    IF Due(t) THEN resetAt' = reset /\ sent' = 0
              ELSE UNCHANGED quotaVars

-------------------------------------------------------------------------------
(***************************************************************************)
(* checkAndIncrementQuota, called by the three send handlers and forward   *)
(***************************************************************************)
Goto(s, step) == pc' = [pc EXCEPT ![s] = step]
SendUnchanged == UNCHANGED <<clock, worker, page, inboxVars>>

Begin(s) ==
    /\ pc[s] = "idle"
    /\ Goto(s, "insert")
    /\ now' = [now EXCEPT ![s] = clock]
    /\ \E n \in 1 .. MaxBatch : recipients' = [recipients EXCEPT ![s] = n]
    /\ UNCHANGED <<quotaVars, within, since>>
    /\ SendUnchanged

Insert(s) ==
    /\ pc[s] = "insert"
    /\ Goto(s, "reset")
    /\ InsertQuota(NextReset(now[s]))
    /\ UNCHANGED <<now, recipients, within, since>>
    /\ SendUnchanged

\* Mutant: the reset falls due again at once.
ResetStale(s) ==
    /\ pc[s] = "reset"
    /\ Goto(s, "consume")
    /\ ResetQuota(now[s], now[s])
    /\ UNCHANGED <<now, recipients, within, since>>
    /\ SendUnchanged

\* Mutant: a new month does not start counting again.
ResetSkipped(s) ==
    /\ pc[s] = "reset"
    /\ Goto(s, "consume")
    /\ UNCHANGED <<quotaVars, now, recipients, within, since>>
    /\ SendUnchanged

Reset(s) ==
    /\ pc[s] = "reset"
    /\ Goto(s, "consume")
    /\ ResetQuota(now[s], NextReset(now[s]))
    /\ UNCHANGED <<now, recipients, within, since>>
    /\ SendUnchanged

\* Mutant: any room left admits the whole request.
FitsLoosely(s) == sent < Limit

Fits(s) == sent + recipients[s] <= Limit

Consume(s) ==
    /\ pc[s] = "consume" /\ Fits(s)
    /\ Goto(s, "accepted")
    /\ sent' = sent + recipients[s]
    /\ within' = IF Month(now[s]) = Month(clock)
                 THEN [within EXCEPT ![Month(clock)] = @ + recipients[s]]
                 ELSE within
    /\ since' = [m \in Months |-> IF m <= Month(clock) THEN since[m] + recipients[s]
                                                       ELSE since[m]]
    /\ UNCHANGED <<resetAt, now, recipients>>
    /\ SendUnchanged

Refuse(s) ==
    /\ pc[s] = "consume" /\ ~Fits(s)
    /\ Goto(s, "refused")
    /\ UNCHANGED <<quotaVars, now, recipients, within, since>>
    /\ SendUnchanged

\* A statement fails, or the process dies.
Abort(s) ==
    /\ pc[s] \in {"insert", "reset", "consume"}
    /\ Goto(s, "error")
    /\ UNCHANGED <<quotaVars, now, recipients, within, since>>
    /\ SendUnchanged

Send(s) == \/ Begin(s) \/ Insert(s) \/ Reset(s) \/ Consume(s) \/ Refuse(s)
           \/ Abort(s)

-------------------------------------------------------------------------------
(***************************************************************************)
(* processQuotaReset runs daily. Its loop repeats one UPDATE of all overdue*)
(* rows, whose second execution finds none left.                           *)
(***************************************************************************)
SelectOverdue ==
    /\ worker = None
    /\ Due(clock)
    /\ worker' = clock
    /\ UNCHANGED <<clock, quotaVars, sendVars, page, inboxVars>>

UpdateOverdue ==
    /\ worker # None
    /\ ResetQuota(worker, NextLocalReset(worker))
    /\ worker' = None
    /\ UNCHANGED <<clock, sendVars, page, inboxVars>>

\* GET /api/account/usage creates a missing row; without ON CONFLICT the
\* INSERT fails, and the request with it, when the row has appeared meanwhile.
ReadUsage ==
    /\ page = None
    /\ ~Exists
    /\ page' = clock
    /\ UNCHANGED <<clock, quotaVars, sendVars, worker, inboxVars>>

InsertUsage ==
    /\ page # None
    /\ InsertQuota(NextReset(page))
    /\ page' = None
    /\ UNCHANGED <<clock, sendVars, worker, inboxVars>>

-------------------------------------------------------------------------------
(***************************************************************************)
(* POST /api/inboxes: one transaction under the account's advisory lock,   *)
(* whose writes appear at its commit. Its INSERT of the quota row leaves   *)
(* quota_reset_at NULL. An insert of another handler that meets the        *)
(* uncommitted row waits for the commit, so it comes after Commit here.    *)
(***************************************************************************)
InboxUnchanged == UNCHANGED <<clock, sendVars, worker, page>>

\* Mutant: the lock does not keep another creation out.
LockShared(c) ==
    /\ create[c] = "idle"
    /\ create' = [create EXCEPT ![c] = "count"]
    /\ lock' = lock \cup {c}
    /\ UNCHANGED <<quotaVars, seen, inboxes>>
    /\ InboxUnchanged

Lock(c) ==
    /\ create[c] = "idle"
    /\ lock = {}
    /\ create' = [create EXCEPT ![c] = "count"]
    /\ lock' = {c}
    /\ UNCHANGED <<quotaVars, seen, inboxes>>
    /\ InboxUnchanged

CountInboxes(c) ==
    /\ create[c] = "count"
    /\ create' = [create EXCEPT ![c] = "insert"]
    /\ seen' = [seen EXCEPT ![c] = inboxes]
    /\ UNCHANGED <<quotaVars, lock, inboxes>>
    /\ InboxUnchanged

Commit(c) ==
    /\ create[c] = "insert"
    /\ InsertQuota(Never)
    /\ IF seen[c] >= MaxInboxes
       THEN create' = [create EXCEPT ![c] = "refused"] /\ UNCHANGED inboxes
       ELSE create' = [create EXCEPT ![c] = "created"] /\ inboxes' = inboxes + 1
    /\ lock' = lock \ {c}
    /\ UNCHANGED seen
    /\ InboxUnchanged

Rollback(c) ==
    /\ create[c] \in {"count", "insert"}
    /\ create' = [create EXCEPT ![c] = "error"]
    /\ lock' = lock \ {c}
    /\ UNCHANGED <<quotaVars, seen, inboxes>>
    /\ InboxUnchanged

CreateInbox(c) == Lock(c) \/ CountInboxes(c) \/ Commit(c) \/ Rollback(c)

\* DELETE /api/inboxes/:id takes no lock.
DeleteInbox ==
    /\ inboxes > 0
    /\ inboxes' = inboxes - 1
    /\ UNCHANGED <<quotaVars, create, lock, seen>>
    /\ InboxUnchanged

Next ==
    \/ Tick
    \/ \E s \in Sends : Send(s)
    \/ SelectOverdue \/ UpdateOverdue
    \/ ReadUsage \/ InsertUsage
    \/ \E c \in Creates : CreateInbox(c)
    \/ DeleteInbox

Spec == Init /\ [][Next]_vars

-------------------------------------------------------------------------------
\* The shape of the state; sent never exceeds the limit (lib/quota.ts:6-8: "one
\* UPDATE so concurrent requests can't both slip under the limit").
TypeOK ==
    /\ clock \in 0 .. MaxClock
    /\ resetAt \in Int
    /\ sent \in 0 .. Limit
    /\ pc \in [Sends -> {"idle", "insert", "reset", "consume", "accepted",
                         "refused", "error"}]
    /\ now \in [Sends -> 0 .. MaxClock]
    /\ recipients \in [Sends -> 0 .. MaxBatch]
    /\ worker \in {None} \cup 0 .. MaxClock
    /\ page \in {None} \cup 0 .. MaxClock
    /\ create \in [Creates -> {"idle", "count", "insert", "created", "refused",
                               "error"}]
    /\ lock \subseteq Creates
    /\ seen \in [Creates -> Nat]
    /\ inboxes \in Nat
    /\ within \in [Months -> Nat]
    /\ since \in [Months -> Nat]

\* The requests that begin and are counted within one month never take more
\* than the limit, however the statements of concurrent requests, the reset
\* worker, the usage page and inbox creations interleave around the turn of the
\* month (lib/quota.ts:25-43). A request that straddles the turn may count in
\* either month.
MonthWithinLimit == \A m \in Months : within[m] <= Limit

\* The inboxes of the account stay within its limit under concurrent creations
\* and deletions (routes/inboxes.ts:180-203).
InboxesWithinLimit == inboxes <= MaxInboxes

\* Both limits of the account.
LimitsHold == MonthWithinLimit /\ InboxesWithinLimit

RefusedNow(s) == pc[s] = "consume" /\ pc'[s] = "refused"
Exhausted(s) == since[Month(now[s])] + recipients[s] > Limit

\* A request of an account with a reset date is refused only when what has been
\* counted since the request's month began leaves no room for it: usage of an
\* earlier month never costs a send (lib/quota.ts:24-30).
RefusalIsDue ==
    [][\A s \in Sends : RefusedNow(s) /\ resetAt # Never => Exhausted(s)]_vars

\* The same of every account, as lib/quota.ts:24 has it: "New month: start
\* counting again".
NewMonthCountsAgain == [][\A s \in Sends : RefusedNow(s) => Exhausted(s)]_vars
===============================================================================
