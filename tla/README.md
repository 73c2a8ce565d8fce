# MailPocket in TLA+

MailPocket (repository `smtp-service`) is a self-hosted mail service: an HTTP
API and an SMTP server accept mail, BullMQ workers deliver it, PostgreSQL holds
its state, Redis its queues and live events, an S3 store its raw messages. This
directory holds TLA+ models of its core, TLC configurations that check them on
small instances, and TLAPS proofs about them for every instance.

Paths below are relative to `src/`; `PROJECT.json` maps each definition to the
lines it models.

## 1. Inventory

### 1.1 Processes and shared state

| Process | Code | Shared state it uses |
|---|---|---|
| API | `apps/api/src` (Fastify on Node) | PostgreSQL, Redis (queues, pub/sub, counters, session cache), object store |
| SMTP server | `apps/smtp/src/index.ts` | PostgreSQL (read), Redis (throttle, queue), object store |
| Workers | `apps/workers/src` (outbound, incoming, cleanup, quota reset, webhook dispatcher and delivery) | the same, plus remote mail servers and webhook endpoints |
| Web | `apps/web` (Nuxt) | the API, its SSE stream |

Nothing here is transactional across stores. A handler is a chain of awaited
calls (a statement, a Redis command, an object-store request, a queue add, a
delivery); between two of them every other process may run, any call may fail,
and the process may die. A few places use one SQL statement, a transaction or an
advisory lock to be atomic. These facts decide the grain of the models: **one
action per awaited call**, and a fault is possible at every call.

### 1.2 Components

| Component | State | Operations | Hard behaviour | What makes it correct |
|---|---|---|---|---|
| Send API (`routes/send.ts`) | message row, .eml, quota, job | `POST /v1/messages`, `/mime`, batch | six steps over four stores, no undo | a reply means row, object and job exist |
| Message routes (`routes/messages.ts`) | message row, logs, job | forward, resend, cancel, delete, read flags, search | each is check-then-act against a running worker | one job at a time delivers a message; a claimed resend is served |
| Outbound worker (`workers/src/outbound.ts`) | delivery_logs, message status, suppression list, job attempts | `processOutboundEmail` | at-least-once jobs around non-idempotent SMTP | nobody mailed twice; every recipient ends with a verdict; suppressed means unmailed |
| Queues (`packages/queue`, BullMQ) | job states, attempts, stalls | add, pick, retry, stall, remove | stalled jobs run again without counting as attempts | every job ends |
| Account quota (`lib/quota.ts`, `routes/quotas.ts`, `routes/inboxes.ts`, worker) | user_quotas row, inboxes, advisory lock | check-and-increment, reset, usage, inbox create/delete | reads of the clock long before the statements; three creators of the row | limits hold in a month; a new month counts again |
| Suppression list (`routes/suppressions.ts`) | suppressions | add, remove, add on bounce | changes during sends and retries | a listed address is not mailed |
| Sender domains (`routes/domains.ts`) | domains | create, verify, delete | row read before a DNS lookup, written after it | only a verified domain signs and sends |
| SMTP ingress (`apps/smtp`) | throttle counters, sessions | auth, DATA | reply lost, enqueue fails after the upload | an accepted message becomes a row |
| Incoming worker (`workers/src/index.ts`) | message and attachment rows, objects, events | `processIncomingEmail` | a retry repeats inserts and uploads | no row without its object, no loss |
| Cleanup worker (`workers/src/index.ts`) | messages, objects | `processCleanup` | objects first, rows second | unread mail stays |
| Webhooks (`webhook-dispatcher.ts`, `routes/webhooks.ts`) | webhooks, webhook_logs, delivery jobs | publish, dispatch, deliver, retry | pub/sub loses events; two retry mechanisms on top of each other | each event is posted until answered, at most five times |
| Tracking (`routes/tracking.ts`) | opens, clicks, events | pixel, redirect | repeated requests | counts match events |
| Inbox access and rules (`middleware/access.ts`, `routes/inbox-members.ts`, `routes/inbox-rules.ts`) | memberships, rules | role resolution, rule application | the best of several roles | a viewer never writes |
| Teams (`routes/teams.ts`) | members, invitations | invite, accept, remove, role changes | invitation read, then used, then deleted | one membership per acceptance |
| Authentication (`routes/auth.ts`, `middleware/auth.ts`, `lib/revocation.ts`) | users, sessions, tokens, cache | register, login, reset, verify, revoke | single-use tokens; a cached session outlives its row | a token is used once |
| API keys (`routes/api-keys.ts`) | api_keys | create, rotate, revoke, upgrade of legacy hashes | upgrade against rotation | a revoked key stays revoked |
| Real-time events (`routes/sse.ts`) | connection counters, visible inboxes | subscribe, forward, close | increment, await, then register the decrement | no slot leaks |
| Secret encryption (`packages/db/src/secret-box.ts`) | encrypted columns | encrypt, decrypt, rotate | rotation against writes | every value stays readable |
| Administration (`routes/admin.ts`) | users, roles, settings | user, role and inbox administration | check of the last administrator | an administrator remains |
| Storage and text utilities | none | S3 client, spam and HTML reports, formatting | none | - |
| Web (`apps/web`) | page state | message list, live merge | events against page loads | no row twice or lost in a list |

### 1.3 Interactions

    client -> API send -> quota -> object store -> messages row -> outbound queue -> worker -> mail servers
                                                                                      |-> delivery_logs, status, suppression list
                                                                                      `-> pub/sub -> webhook dispatcher -> delivery queue -> endpoint
    mail client -> SMTP server -> object store -> incoming queue -> worker -> messages rows -> pub/sub -> SSE, webhooks
    user -> API cancel / resend / delete / suppress  (at any moment of the above)
    schedule -> cleanup, quota reset

The hazards that follow from this are listed in `PROJECT.json`, each at the line
where it bites, with the properties that cover it or the reason none does.

## 2. The modules

| Module | Models | Checked by | Proofs |
|---|---|---|---|
| `OutboundDelivery` | one message from the send handler to its last attempt, with everything that happens to it meanwhile | `outbound_*` | `OutboundDelivery_proofs` |
| `MessageLifecycle` | what a user may rely on about one message: an abstract specification that `OutboundDelivery` implements | `outbound_clean` | `OutboundDelivery_proofs` |
| `AccountQuota` | the quota row, its resets, the inbox limit | `account_quota`, `account_quota_never` | `AccountQuota_proofs` |
| `InboundMail` | one mail from the SMTP session to its row, and its deletion | `inbound_mail` | `InboundMail_proofs` |
| `WebhookDelivery` | one event from the channel to the endpoint | `webhook_delivery` | `WebhookDelivery_proofs` |
| `Accounts` | users, sign-in, sessions, passwords, mailed links, API keys | `platform`, `account_rotated` | `Accounts_proofs` |
| `TeamAccess` | teams, invitations, inbox roles and the checks in front of them | `platform` | `TeamAccess_proofs` |
| `SenderDomains` | verification of a domain, its key, the encryption secret | `platform` | `Accounts_proofs` |
| `EventStreams` | stream slots of the API, the shared connection of a tab | `platform` | `Browser_proofs` |
| `SmtpLogin` | the login throttle | `platform` | `Accounts_proofs` |
| `WebSession` | the session across tabs | `platform` | `Browser_proofs` |
| `InboxView`, `ReadState` | the message list, read flags and badge | `platform` | `Browser_proofs` |
| `WebPages` | fourteen list pages that share their control | `platform` | `Browser_proofs` |
| `MessagePage`, `ListNav`, `AnalyticsPages` | resend, stepping through a list, figures | `platform` | `Browser_proofs` |

`MCPlatform` composes the last twelve, which share no state (section 7), and
`Platform_proofs` carries what is proved of each of them over to it. The other
`MC*` modules hold only the symmetry, start states and bounds of an instance.

## 3. `OutboundDelivery`: one message from send to verdict

### State and code

| Variables | Code |
|---|---|
| `row`, `stored`, `log` | `messages.status` (with "none" before the insert and "deleted" after), the raw .eml, the rows of `delivery_logs`, named by job, run and recipient |
| `jobState`, `attemptsMade`, `stalledCount`, `to` | BullMQ's record of each job and the recipients in its payload |
| `pc`, `left`, `suppressedNow`, `alreadyDelivered`, `attempted`, `deliveredCount`, `dkim`, `err` | the local variables of one run of `processOutboundEmail` per active job |
| `suppressed`, `verified` | the account's suppression list and the state of the sender's domain |
| `mode`, `strict`, `scheduled` | `APP_MODE`, `requireVerifiedSender` (off for a forward), whether a `sendAt` was given |
| `api`, `cancel`, `resend`, `remover` | program counters of the send, cancel, resend and delete handlers (and of cleanup) |
| `mailed`, `held`, `faults` | history, for the properties only |

Each handler is an action per awaited call: `Send` is the sender check, the
suppression list, the quota call, the upload, the insert and `queue.add`;
`ResendRequest` is read, sender, claim, add; `Cancel` is read and `job.remove`,
then the update; `Remove` is the delete handler (row, then objects) and the
cleanup worker (objects, then row). `WorkerStep` is `processOutboundEmail`:
three reads and the DKIM lookup, then per recipient the skip rules, the "sending"
log row, the delivery, its log row, the webhook publish and the catch block with
its hard-bounce suppression, and after the loop the status update and its
event. Which reply a mail server gives is the environment's choice. An
exception before the loop, or one that the loop rethrows, ends the attempt.

The queue is external: BullMQ is modelled by how the code relies on it. A job
has `MaxAttempts` attempts, a run whose worker dies is repeated up to
`MaxStalls` times without counting as an attempt, an id still in the queue is
not added again, and a job can be removed whenever no worker holds it.

Waiting is not distinguished from being delayed: a scheduled job may be picked at
any time, which admits all real orders and more. Completed jobs are never
evicted from the queue, and one resend request is one click.

### Faults

`FaultKinds` chooses among: a call to the object store, the database or Redis
fails; a worker dies; the remote server accepts a message but its reply is lost.
`MaxFaults` bounds how many. A call that fails has not had its effect, except
for the lost reply, which has. Properties that hold only while nothing breaks
say so with `faults = 0`; note that mail servers' errors, retries, resends,
cancels, deletions and suppressions are *not* faults: they are normal use.

### Runs

| Run | Instance | What it shows |
|---|---|---|
| `outbound_clean` | 2 recipients, 2 concurrent resends, cancel and deletion, no fault | `MailedAtMostOnce`; `UndeliveredMeansUnmailed` (a bounced or suppressed verdict is true of everybody but those suppressed after being served); `OneDelivery` (the status claim is a lock: jobs never overlap); `KeepsLifecycle`, the refinement of `MessageLifecycle` |
| `outbound_faults` | 2 recipients, 1 fault of any kind | `CompletedCoversAll`, `DeliveredMeansMailed`, `HeldNeverMailed` survive any single fault |
| `outbound_live` | 1 recipient, 1 resend, 1 fault, both modes, fairness | `JobEnds`, `ClaimedIsServed`, `DuplicatesNeedFaults` (each extra copy costs a fault), `DeliveredMeansLogged` |
| `outbound_twice`, `outbound_cancelled`, `outbound_failed` | smallest instance | violations, see section 9 |

Bounds. Two recipients are what it takes for one to be served and the other to
defer, for a retry to skip one and not the other, and for a partial outcome. Two
attempts give one retry; a third repeats the second. Two resends compete with
each other and with the original job. One fault of every kind at every call
covers all single failures; two faults in sequence are left to the theorems and
to `DuplicatesNeedFaults`, which counts. Deadlock is checked in these runs:
`Quiet` is the only state in which the system may stop, and it requires every job
to have ended.

Fairness (`FairSpec`) is weak and only on what the code itself keeps going: the
steps of the send handler, of a resend and a cancel that have begun, and of a
worker with a job to run. Node resumes every settled await, BullMQ workers poll,
and the transport has timeouts (`outbound.ts`). Nothing obliges a user, a fault or
a change of the account to happen.

### The lifecycle it implements

`MessageLifecycle` has a status, a bit for "a delivery is under way" and the copies
each recipient got; no jobs, locks, logs or retries. `KeepsLifecycle` instantiates it
with a refinement mapping (the delivery is under way while the send handler, a resend
that has claimed the row or an active or waiting job may still change the message)
and TLC checks that every step of the detailed model is a step of the abstract one
or stutters. That a resend starts only when nobody delivers, that a verdict ends a
delivery once, and that "delivered" is shown only after somebody was mailed are
steps the abstract specification has no alternative to. It is stated for the time
nothing breaks: with a fault a second copy is possible (section 9).

## 4. `AccountQuota`: limits around the turn of a month

`resetAt` and `sent` are the quota row (`Absent` when there is none, `Never` for
a NULL reset date); each SQL statement of `checkAndIncrementQuota` is an action
that carries the `now` taken when the request began, and `Tick` may come between
any two. `SelectOverdue`/`UpdateOverdue` are the reset worker, `ReadUsage` and
`InsertUsage` the usage page, `Lock`, `CountInboxes`, `Commit`, `Rollback` the
transaction of an inbox creation under its advisory lock. `within` and `since`
record, per month, what was counted.

* `LimitsHold`, of two parts. `MonthWithinLimit`: requests that begin and count within one month never take
  more than the limit together. The interesting case is a reset carried out with
  a clock value from before the turn of the month after newer requests counted.
* `RefusalIsDue`: a refusal is never owed to last month's usage, for accounts that
  have a reset date. `InboxesWithinLimit`, the other part of `LimitsHold`: the lock
  covers count and insert.
* `account_quota` checks these with two sends of up to two recipients, two
  creations, a limit of two and three months of two ticks, enough for a request to
  straddle a turn while the other begins before, in and after it. The system may
  stop (the clock is bounded), so deadlock is not checked.
* `Zone` is how far the worker's local time is ahead of UTC: the worker computes
  the next reset with `new Date(y, m + 1, 1)`, the API with `Date.UTC`. The runs
  and theorems take a worker on UTC, which the container images use; for a worker
  ahead of UTC `MonthWithinLimit` fails.

The system inbox that `createSystemInbox` makes for the administrator bypasses
the inbox limit and is not a creation in this sense.

## 5. `InboundMail`: one mail into an inbox, and out of it again

### State and code

| Variables | Code |
|---|---|
| `client`, `known`, `fits` | the SMTP client and its mail: whether the session logged in to the inbox, and whether the parsed subject and sender fit `varchar(1000)` and `varchar(512)` |
| `smtp` | the call each DATA session of `apps/smtp/src/index.ts` is about to make |
| `jobState`, `attemptsMade`, `stalledCount`, `pc` | BullMQ's record of the session's job, and the call of its run of `processIncomingEmail` |
| `raw`, `files` | object storage: the session's .eml, and the attachments each run uploads under keys of its own |
| `row`, `inbox` | `messages` (read, unread, deleted), by session and run, and whether the inbox exists |
| `leftover` | the objects a delete handler has yet to remove |
| `cleaner`, `batch` | `processCleanup` between its three calls |

`TooLarge`, `PutRaw`, `Route`, `Enqueue` are `onData`; every error but 552 is a 450
to the client, who may send the mail again in a new session. `FetchRaw`, `Attach`,
`Insert`, `Announce`, `Fire` are the worker. `DeleteRows` followed by a
`RemoveStored` per row are the three delete handlers; `DeleteInbox` relies on the
cascade and leaves the objects, as the handler does. `SelectOld`, `RemoveObjects`,
`DeleteBatch` are cleanup; age and batch size are left open, so any non-empty set
of read rows may be selected.

Faults are a failing call to storage, database or Redis (which may have had its
effect all the same), a lost SMTP reply, and the death of the SMTP server, the
workers or the API.

### Run and properties

`inbound_mail`: two sessions, two attempts, one stall, one fault of any kind, and
all user actions.

* `CopiesNeedFaults`: the client's retries and BullMQ's retries together save a mail
  once; every further copy costs a fault.
* `LossNeedsFaults` and, as progress, `AcceptedIsSaved`: an acknowledged mail becomes
  a row, unless faults use up its attempts, its inbox is gone, or it does not fit.
* `CompletedIsAnnounced`: a completed job saved a row and announced it.
* `ObjectsMatchRows` (`RowHasObjects`, `StoredIsOwned`): rows and objects go together, through two orders
  of deletion (rows first by users, objects first by cleanup) that may meet. A
  mutant that spares rows marked unread in the meantime breaks the first: they
  would be left without an .eml.
* `HalvedRowsGo`: what a failed cleanup leaves half-deleted a later one removes,
  because removing an object that is gone is not an error.

Bounds: two sessions are one resend; a second fault only repeats what one does,
and the counting properties are stated for any number. Cleanup and users are
unbounded. Deadlock is checked: the system may stop only in `Quiet`.

Fairness: weak for the steps of a session, of the worker and of a cleanup that has
begun. Strong for selecting a row that is read again and again: the scheduler runs
cleanup every hour, and each run removes its batch from the competition, so a row
that stays read and grows old is selected. Nothing is assumed of the client.

A message marked unread between `SelectOld` and `DeleteBatch` is deleted although
unread. The model has this behaviour.

## 6. `WebhookDelivery`: an event on its way to a hook

### State and code

| Variables | Code |
|---|---|
| `published`, `step`, `todo` | an event on the channel `webhook:fire`, and each process's `enqueueWebhooks` for it: its next call, and the hooks its loop has left |
| `message`, `hooks`, `log` | the message's row, the hooks, `webhook_logs.status` |
| `of`, `try`, `at`, `attemptsMade`, `stalledCount` | a delivery job: its log row, `attempt` in its payload, the queue's state or the call of its run, and BullMQ's counters |
| `retry` | retry handlers between their UPDATE and `queue.add` |
| `posts`, `answers`, `retries`, `faults` | history |

`Publish` reaches any set of the processes, which is what pub/sub promises.
`FindMessage`, `FindHooks`, `InsertLog`, `AddDelivery` are the dispatcher; an error
in one of them drops the rest of the event. `FindHook`, `Post`, `LogSuccess`,
`LogFailure`, `AddNextTry` are the worker, whose catch block also covers the
database calls around the request. The worker adds the job of its next try itself
and lets the current one complete; when the catch block throws, BullMQ runs the
same job again. `AskRetry` and `AddRetry` are the retry route, which looks neither
at the row's status nor at its jobs.

One modelling assumption: the delay of a next try, ten seconds at least, outlasts
the completion of the job that added it (`Due`); delays are otherwise not
distinguished from waiting.

### Run and properties

`webhook_delivery`: one event, process and hook, two tries, two attempts, one stall,
one manual retry at any moment, one fault of any kind.

* `EndpointSpared` (`PostsBounded`, `AnsweredOnce`): a delivery is posted at most `MaxTries` times, and
  answered with 2xx once, for each time it is started. A manual retry starts it once
  more, and a fault may run every job at work twice, the tries it added included.
* `LogIsTrue`: "success" was answered; "failed" was tried to the end.
* `OpenHasJob`, `DeliveryEnds`: a row shown as pending or retrying has a job, and is
  settled in the end, also when a manual retry and the row's own tries overlap.
* `EventIsLogged`: a received event gets a log row for each hook.

Bounds: `MaxJobs` is the number of jobs the other bounds allow, so it never binds.
Two tries are one retry; five repeat it. Two hooks or processes multiply
independent copies of the same handler, except that a deletion of one hook drops
the event for the others, which `EventIsLogged` excepts by name.

Fairness is weak, for dispatchers, jobs and a retry handler that has begun.
`DeliveryEnds` and `OpenHasJob` except faults, since with one they fail: an error
between the log row and its job leaves the row pending for ever.

## 7. The platform: twelve parts under one configuration

`MCPlatform` picks one part at the start and runs it; the others stay as they start.
The parts share no state in these models (what they have in common, such as the user
behind a request, is an argument), so nothing is lost by taking them one at a time,
and `VIEW` tells states apart by the part in motion. Whatever the code does between
two awaits is one step, on the server and in the browser.

### API and SMTP

* **`Accounts`.** Every route of `auth.ts` and `api-keys.ts` and the user routes of
  `admin.ts`, statement by statement: register, login by password, LDAP and OAuth2
  (`resolveSsoUser` with its find, insert-or-ignore, find again), verification and
  reset links, change of password, logout, `isSessionActive`, the use of a key with
  the upgrade of legacy hashes. A clock of whole seconds moves between statements, as
  `passwordChangedAt` is compared with `iat` in seconds; the date of a password change is
  taken (`DateChange`) before the UPDATE that carries it runs. `SsoSignsProven`,
  `KeysEndWithPassword`, `DeadSessionsStayDead`, `LastAdminNeedsRace`. The two SELECTs of
  a key (by digest, then the legacy hashes) are one step, since both only read.
* **`TeamAccess`.** Each check of `middleware/access.ts` is the sequence of its
  queries, each write of `teams.ts`, `inbox-members.ts`, `inboxes.ts` and the inbox
  half of `admin.ts` one more; accounts are verified, promoted and deleted meanwhile.
  `OwnerStaysAdmin`, `MembersAreProven` (together `MembershipHolds`) and
  `GrantWasHeld`: the role `resolveInboxRole` puts together from four reads was held
  at one moment, unless the tables changed twice meanwhile.
* **`SenderDomains`.** Verification reads the row, asks DNS, updates by id; the
  encryption secret is introduced, replaced and dropped while API processes boot and
  re-encrypt. `SignerIsProven`.
* **`EventStreams`.** The slot counter of `sse.ts` around its awaits, and the one
  connection components of a tab share, with watchdog and reconnect timer.
  `StreamsHold` counts exactly which slots the API loses (a failed query, a client gone
  before its listener), and that a tab is connected once or about to reconnect.
* **`SmtpLogin`.** The throttle is read before an await and raised after it:
  `GuessesBounded` says by how much parallel logins overshoot.

### The web application

* **`WebSession`.** Tabs with a token in memory, one in `localStorage`, storage events
  on their way, and answers to requests made with older tokens. `TabsAgree`.
* **`InboxView`, `ReadState`.** The message list (superseded requests, two timers, Retry,
  selection, bulk actions) and its read flags (optimistic, events, reloads, rollback). A
  route may fail before its UPDATE, at the publish after it (rows changed, nobody told,
  500) or on the way back; an event reaches the browsers whose stream is up at that
  moment, the others never. The list and the badge are right again after a reload that no
  change crosses, and the model says so for what went wrong before it.
* **`WebPages`.** Users, inboxes, teams and suppressions of the administrator, API
  keys, templates, domains, members and webhooks of an inbox, members, invitations and
  inboxes of a team, saved filters, and one's own invitations have the same control
  and differ in traits: what they patch instead of reloading, whether a question
  stays open, what is read again after the await, how a failed load is treated.
* **`MessagePage`, `ListNav`, `AnalyticsPages`.** Resend with its polling interval,
  stepping through a list past the edges of its pages, figures and their labels.

`ScreensAreTrue` joins what these pages promise when nothing is under way: the rows on
screen are the answer to the filter and page on screen, every change reported as done
is in the list, read flags and badge are those of the database, a message page shows
how its resend ended, a step leads to the neighbour, labels name what is shown.
The exceptions are in the properties, by name, each with the race that causes it; they
are behaviours of the code a reader may want to know:

* list answers of `WebPages` are shown as they come, so an older one may be shown last
  (`overtook`; `useInboxMessages` does number its requests);
* on the domains page a deletion drops the row of the dialog that is open when the
  answer comes, and a filter deleted in a dialog closed meanwhile stays in the list
  (`strayed`);
* a list keeps an older flag after a rollback, a reload or a "mark page" that crossed a
  change, after two routes that wrote one message before either published, and after a
  change it was not told of, by a publish that failed or with its stream down
  (`muddled`); the badge is wrong after the same, and after a request for a flag that was
  set already (`miscounted`); both until the next reload that no change crosses;
* polls of the message page overlap; the end of a poll of an earlier resend stops the
  interval of the next (`straggled`);
* a step asked for on a page already left is applied all the same (`pulled`); the "["
  key on the first message of page 1 asks for page 0, which the API answers with page 1,
  and opens its last message (an exception of `mislaid`);
* analytics are labelled with what is chosen when the answer comes, so a choice made with
  another under way can mislabel them until everything is loaded again (`stale`); and
  when a period failed to load, the next metric is plotted for that period under the
  pill of the old one (`analytics.vue:607-613`, against the comment at 460-463);
* a session a password change ended is honoured again when an overlapping change, dated
  earlier, is written last (`auth.ts:685,808`, `admin.ts:266`): `passwordChangedAt` goes back;
* two administrators who demote or delete each other leave none.

Some limits are the structure of a module, not a constant: a page of `WebPages` has one
write under way, where deletions of several rows can overlap on some pages
(`domains.vue:441`, `api-keys.vue:369`); `InboxView` keeps one superseded request (the
answer of an older one is dropped too, and may step back a page, as that of the one kept).

### Bounds

Two requests interleave in each API part, which is what it takes to change a row
between two statements of another; `TeamMenus` lists which routes are taken together,
those that touch the same tables. Two owners, two names (a domain and one below it) and
two boots; three stream requests for two slots; three logins against a limit of two;
two tabs, two tokens; two messages with pages of one; two rows, one write and two list
requests; two browsers and three marks; two resends and two overlapping polls of two;
five messages in pages of two, of which a restore tries two (`MaxTries`, ten in the
code); two periods and metrics. `Calm` cuts a behaviour where a property has already
excepted it (not so the exceptions of `ReadState` and `AnalyticsPages`, which reloads
end), and takes rare combinations of independent concerns
(two timers at once, a dialog on page 2) one at a time. Requests and rows are
interchangeable (`SYMMETRY`). The system may stop where a bound is used up, so deadlock
is not checked here. Failing calls, lost answers and lost events are part of every
behaviour and not counted.

`account_rotated` is `Accounts` alone with the one property the code breaks (section 9).

## 8. What is proved

TLC checks the instances above; the theorems hold for every value of the
constants that satisfies the named assumptions (`N`, `MaxAttempts` at least one,
the original job's id not a resend's, finitely many resends, `Nobody` neither a person
nor a role, and so on). Proofs are in eight modules: `<component>_proofs`, of which
`Accounts_proofs` is also about `SmtpLogin` and `SenderDomains`, `Browser_proofs` about
the eight modules of the web application and `Platform_proofs` about their
composition. The theorems of a platform part are about
that part's own specification (`AccSpec`, `TeamSpec`, `LoginSpec`, `DomSpec`, `StrSpec`,
`SessSpec`, `ViewSpec`, `ReadSpec`, `WebSpec`, `MsgSpec`, `NavSpec`, `AnaSpec`), which is
what `MCPlatform` runs when it picks the part. Every invariant and action property of
the passing runs is the subject of a theorem.

### Outbound mail


**`TypeCorrect`.** `Spec => []TypeOK`. `TypeOK` alone is not inductive: that an
added job has no run yet rests on its handler adding it once (`NotAdded`).

**`OneAtATime`, `MailedOnce`.** `Spec => []OneDelivery` and
`Spec => []MailedAtMostOnce`, any number of recipients, resends, attempts.
The inductive invariant `OnceInv` adds, for the time nothing has broken:
`Remembered` (whoever was mailed is in the logs, or is being logged),
`Fresh` (no later row overwrites the row of a delivery),
`Skips` (a run has everybody mailed before it among those it skips) and
`FirstAttempt` (at the delivery call nobody has mailed the recipient), plus the
disjunct that the row is deleted: logs vanish with it, but a worker that needs
them then fails on the foreign key before it mails. `Skips` is kept stable by
`OneDelivery`, since no second job mails between the read of the logs and the
delivery. Each of these is a conjunct without which the step of some action fails.

**`ImplementsLifecycle`.** `Spec /\ [](faults = 0) => KeepsLifecycle`: every step of
`OutboundDelivery` is a step of `MessageLifecycle` or a stutter (`LifeStep`), given
`OnceInv` and `EvidenceInv`. The hypothesis is what the run `outbound_clean` has as
`MaxFaults = 0`; with faults the promise of one copy is really broken (section 9).

**`DeliveredWasMailed`.** `EvidenceInv`: outside testing mode, as long as nobody is mailed
there is no evidence of a delivery anywhere: not in the row, the logs, what a run
read of them, nor its count. The row alone is not inductive, since a later run
writes "delivered" from what an earlier one left in the logs. Holds with all faults.

**`SuppressedNotMailed`.** The action property `HeldNeverMailed`. `HeldInv` follows the
addresses held back since the job was picked (`HeldBack`) from the table to the copy
that a run reads once, and from there to the recipient at the delivery call.

**`CompletedIsCovered`.** `CoverInv`, with all faults: a recipient is `Covered` by a verdict in
a row of the logs that nobody will write again (`Final`). In a run, each recipient is
still to be visited or covered; when a row of the logs is written, somebody's cover may
be a row of another job, so the invariant has to say that there is no other job until the
original one has covered everybody (`Retried`) and that a resend has no more
recipients than the original (`Payloads`).

**`DeliveredIsLogged`, `UndeliveredIsUnmailed`.** `LogInv` is the counterpart of `EvidenceInv`
for the logs while nothing breaks. `SpareInv` says of a run what its verdict may
claim: it has a delivery to count, or has spared everyone it visited (`RunSpares`),
and who is not in its payload was spared when the message was resent.

**`DuplicatesArePaid`.** `Spec => []DuplicatesNeedFaults`, with all faults. `PaidInv` is a
potential: the copies of a recipient, plus the jobs that may still mail them
(`Mailers`), plus one while a bounced row may be resent (`Token`), never exceed one
more than the faults. The send starts it at one, a delivery moves one from the jobs to
the copies, a bounce turns a job into the token and a resend turns it back; only a
fault adds one. The bound itself says nothing of jobs that are about to mail.

### Quota

**`TypeCorrect`** holds in any time zone; the counter's bound, part of the type, is kept by
the condition in the UPDATE.

**`LimitsAreKept`, `RefusalsAreDue`.** Under `Zone = 0`; the first joins `MonthlyLimit`
and `InboxLimit`. `QuotaInv` adds that no
statement carries a time from the future (`Dated`), that a request about to
consume has passed its own reset (`Ready`), that until a month ends the counter
holds everything counted in it (`WithinSent`), and that it holds nothing older
than its reset (`SentSince`). Months are a quotient; the few facts about division
that are needed are lemmas at the start of the proofs.

**`InboxLimit`.** The holder of the lock has read the present count, or more than
it (`DeleteInbox` takes no lock).

### Inbound mail and webhooks

**`AcceptedIsKept`, `CompletedWasAnnounced`.** `Spec => []LossNeedsFaults` and
`Spec => []CompletedIsAnnounced` of `InboundMail`. `LossInv` follows the mail from
hand to hand: the raw object exists as long as a run may need it (`RawKept`), a run
that is past the INSERT has written its row (`RunSaved`), only what belongs to a row is
ever cleaned up (`OwnedByRows`), every attempt and every stall of a job was paid for by
a fault (`Paid`), so a job that gave up had `MaxAttempts` of them or more than
`MaxStalls` (`GivenUp`), and "accepted" is answered only after the job is there
(`Acknowledged`). Without `RawKept` the step that reads the object could fail for
good with no fault at all.

**`CopiesAreOwed`.** `Spec => []CopiesNeedFaults`. `CopyInv` counts the rows
of a session against the faults, plus one for a run that has inserted and not failed
yet (`CopiesPaid`); for the
time nothing has broken it has at most one session with a job (`OneSession`, `OneJob`):
the client repeats its message only after a reply that is an error or missing.

**`RowsOwnObjects`.** `Spec => []ObjectsMatchRows`. `ObjectInv` says for the time nothing
has broken, on top of `LossInv` and `CopyInv` (one row for a session): attachments are
stored before the row (`Attached`), objects go after their row (`Gone`, `Swept`) or, in
cleanup, before it within the same batch (`Halved`, `Backed`), and each raw
object and attachment has an owner (`RawOwned`, `FilesOwned`).

**`LogTellsTruth`.** `Spec => []LogIsTrue` of `WebhookDelivery`. `TruthInv` adds
`Tried`: a job at its n-th try has n - 1 earlier tries behind it that each posted or
met a fault, and n when its request is over. It holds for every job of a row
separately, which is why manual retries that overlap do not break it.

**`OpenRowsHaveJobs`.** `Spec => []OpenHasJob`. `OpenInv` keeps the order of a
dispatch, one row and then its job, so that exactly one row is in the dispatcher's
hands (`InOrder`, with `Unpublished` for dispatches not begun), that rows go with
their hook (`HookExists`, for the job that finds its hook gone), and that only a
fault makes a job fail (`NoFailure`, after which BullMQ may end it with its row open).

**`EndpointIsSpared`.** `Spec => []EndpointSpared`, with all faults. Retries overlap, so
counting jobs does not bound the requests. `LedgerInv` says that a
ledger exists for every row: which line of tries each job continues, which tries of
which lines were posted, which lines were answered, and which line is set aside for
the dispatcher or a retry handler that has yet to add its job. No two jobs continue
the same line (`Apart`), except one that completes and the waiting one it handed
the line on to, which the delay of a further try keeps from being picked meanwhile. A
fault that makes a job run again after it handed its line on needs lines for both:
the lines double, and the proof gives each job of the row a line from the new half.

### The platform's parts

**`EndedSessionsStayEnded`, `KeysGoWithPassword`, `ProvidersSignProven`, `LastAdminStays`.**
`DeadSessionsStayDead`, `KeysEndWithPassword`, `SsoSignsProven` and `LastAdminNeedsRace`
of `Accounts`, for any number of requests, seeds, addresses and passwords and any length
of time. All rest on `NamesInv`: rows are named after the request that inserts them, and
whatever refers to a name (a session, a link, a key, a request at work) refers to one
whose insert is over (`UsersSettled`, `SessionsSettled`, `LinksSettled`, `KeysClosed`,
`RequestsSettled`), so an insert never brings a deleted user's session or key back to
life. `EndedSessionsStayEnded` needs only that: with names settled, a dead session
can come back only if the date of its user's password goes back, which is the write of a
change dated before the one that stands (`DeadStaysDead`, `TakesBack`); `KeysGone` carries the keys read at the write of
the password to the statement that deletes them, through rotations and edits, which
change a key but not its user; `ProvenFound` says of a sign-in that has found its user
that the address is proven, which no statement of the API takes back; and `GuardHolds`
keeps what an administrator's request was checked for (its caller is an administrator,
and not the user it removes or demotes) while no other such write falls in between.

**`MembershipsAreSound`.** `TeamSpec => []MembershipHolds`, any number of people, requests
and teams. `TeamInv` adds `Ready` for each request, what it has established by the time
it writes (whoever is added has proved the address; the membership changed or removed
is not the owner's; a created team's owner is the creator), and `InvitesBorn`: a team
is known to others only after its creation inserted it (`Born`). Without `Born` a removal
could have read "not the owner" of a team that is inserted afterwards; with it, a team's
owner only ever changes to none (`KeepsOthers`), so what was read stays true although the
check and the write are separate statements.

**`GrantsWereHeld`.** `TeamSpec => []GrantWasHeld`. The four reads of `resolveInboxRole` may
see different states. `GrantInv` adds what a request has found by each read
(`FoundTeam`): the team it read still is the inbox's, or the one write in between took the
inbox out of it (`MovedOnce`), and then the role was held before that write, because no
write both moves an inbox and gives a role in the team. `Remembered` ties the history
to the tables, and `BoxShapes` says that an inbox a request can name is never created
again.

**`SignersAreProven`.** `DomSpec => [](DomTypeOK /\ SignerIsProven)`. `RowsInv`: a row belongs to the one
request that inserts it, so a request that verifies it still means the same name at its
UPDATE (`KnowsRow`), what it found in DNS was published, and at most one row of a name is
proven (`OneProof`). `SealsInv`: a row whose key is not yet under the current secret is on
the list of every start that has one (`OnList`), so a migration is only declared
finished, and the old secret only dropped, when no such row is left.

**`StreamsAlwaysHold`.** `StrSpec => [](StrTypeOK /\ StreamsHold)`. `SlotsAreTaken` identifies the counter
with the number of requests that hold or have lost a slot; `ControllerIsCurrent` ties
the tab's controller, timer and connection together, so that a second connection can
only be begun when the first is over; `OnlySent` that the API serves what was sent.

**`TabsHearOfEachOther`.** `SessSpec => [](SessTypeOK /\ TabsAgree)`. Not inductive by itself: it says nothing
of a tab with events on their way. `SessInv` does (`Follows`): the last of them is what
localStorage holds. `crossed` records that a tab wrote while events were under way
to it, which breaks exactly that, in the code as in the model.

**`OvershootIsBounded`.** `LoginSpec => [](LoginTypeOK /\ GuessesBounded)`. `Reserved`: each login past the
check is a failure that may still be recorded, so failures and comparisons in progress
together stay within the limit plus the number of logins. The bound itself is not
inductive, since it says nothing of the comparisons in progress.

**`AccountsStayTyped`, `TeamsStayTyped`.** `AccSpec => []AccTypeOK` and
`TeamSpec => []TeamTypeOK`. A type invariant of tables is not inductive: a row gets its
values from the request that writes it, which has carried them through checks and reads
that other requests interleave with. `Fits` says what a request of `Accounts` carries at
each statement, `Carries` what one of `TeamAccess` does; `Leads` is what has to be
known before a request goes on to a statement, so that each check and read shows it once.
The other parts' types are in the theorems named above and below.

**`PlatformIsItsParts`.** `PlatformSpec` implies the specification of each of its twelve parts: a
step of one part is a step of it and leaves the variables of the others alone. So what is
proved of a part alone holds of what the run `platform` checks, for every value of the
constants: `PlatformStaysTyped` (`PlatformTypeOK`), `ScreensStayTrue` (`ScreensAreTrue`) and
`PlatformIsSound` (all its other properties). None of them needs the bounds of `Calm`.

### What a browser shows

The parts of `ScreensAreTrue`, each for any bounds. Where TLC stops a behaviour once an
exception has occurred (`Calm`), the theorems go on.

**`SelectionStaysShown`.** `ViewSpec => [](ViewTypeOK /\ SelectionIsShown)`. `ListInv` adds what a request
under way was asked for (`Current`: the page on screen and, unless a search is still to
be made, the filter), since its answer is shown whatever the user did meanwhile, and that
the rows on screen match what they were asked for (`RowsFound`).

**`ReadFlagsSettle`.** `ReadSpec => [](ReadTypeOK /\ ReadStateSettles)`. `ListFollows`: the last event on its
way to a list that names a message carries the flag of the database, and without one the
list shows that flag, unless a route has written it and not published it (`Updates`) or
the list's own toggle is unanswered (`Toggled`). A browser the event does not reach keeps
its place in `muddled` unless it shows the flag already; a reload that finds nothing
under way re-establishes the invariant from the database. A badge cannot be followed message by
message: `Counted` says that there are flags, one for each event on the way and one more,
of which the first have as many unread messages as the badge says, each event changes
every message it names (unless it is about all), and the last are those of the database
but for what is not published yet. No such flags need exist once two routes have written
a message before either published, an event was missed, or a reload of the badge crossed
one; there the model sets `miscounted`.

**`MessagesStayInTheirList`.** `NavSpec => []ListIsKnown`. `NavInv`: a message page that is
not in its list is asking for it (`Restoring`), and no request of another page carries
its number (`OwnRequests`), so an answer of a page left earlier is always told apart.

**`StepsLeadToNeighbours`.** `NavSpec => [](NavTypeOK /\ NavFollowsList)`, any inbox and page
size. Pages are slices of a listing, so first the listing: each selected message stands in
it once, in the place given by how many are as new or newer (`ListingIsRanked`; the places
are taken by `PlacesAreTaken`, which counts subsets instead of following the listing from
its start). The invariant is `AtEdge`: as long as the list is the one it was made from, a
request past the edge of a page asks for the page that starts (or ends) right at the
message it was made for. An answer that has no other page in between then opens the
neighbour (`NeighbourIsOpened`), and `mislaid` is never set; mail that arrives or goes
meanwhile changes the list, and then nothing is claimed.

**`ResendsAreShown`.** `MsgSpec => [](MsgTypeOK /\ PageSettles)`. Polls overlap, so the page can be wrong
about any one of them; what holds is an order. `Overtaken`: a request that is behind a
later one is late. `LaterKnow`: once a poll of the last resend was told a settled status
(`Knows`), so was every later one that was answered. `TellsTruth`: what it was told is
still the status. With these, the poll that ends the interval, unless it is late, leaves a
page on which nothing that is not late itself can bring back an older status (`PollIsShown`, `Ended`).
`FateIsKnown` and `Informed` say what the page has to have heard of its own requests.

**`PagesShowWhatTheyTold`.** `WebSpec => [](WebTypeOK /\ ToldIsShown)`. `OnlyWritten`: what will be reported
as done is in the table, and in the rows of every request answered since. Pages that catch
a failed reload need their last request to be good (`Reloads`); pages that report it as a
failed write need all of them to be, and the screen as well (`Keeps`), since they go on
with what is on screen.

**`PillsAreTrue`.** `AnaSpec => [](AnaTypeOK /\ LabelsAreTrue)`. `Figures`: every request under way is for
what is chosen now, so that it does not matter which is labelled last, and what is still
to be shown is coming or was refused. `Labels` ties both pills of the administrator's page to the
figures and the chart; that the chart has the period of its pill rests on no load having
been refused since everything was last loaded.

### Only model-checked

* The liveness properties (`JobEnds`, `ClaimedIsServed`, `AcceptedIsSaved`, `HalvedRowsGo`,
  `DeliveryEnds`, `EventIsLogged`): liveness under fairness needs `ENABLED`, which is
  beyond the prover.
* The five disagreements of section 9 are counterexamples of TLC.

No induction over data is used: what the proofs need of a listing follows from counting
finite sets, and months from a quotient.

## 9. Findings

Each is a run that TLC ends with a counterexample; details in `PROJECT.json`.

* `outbound_twice` (`outbound.ts:437`): a webhook publish that fails inside the
  recipient loop turns a served recipient into a deferred or bounced one; the
  retry mails them again.
* `outbound_cancelled` (`messages.ts:820`): cancelling succeeds while the job waits
  for a retry, after a recipient has been mailed.
* `outbound_failed` (`outbound.ts:464`): a job that fails for good leaves its
  message "queued" for ever; nothing writes "failed".
* `account_quota_never` (`inboxes.ts:188`): a quota row created by the first inbox
  has no reset date and is never reset.
* `account_rotated` (`middleware/auth.ts:239`): a request with a key still hashed with
  bcrypt, under way while the key is rotated, writes the digest of the old secret over
  the new one; `api-keys.ts:160` says the old secret stops working immediately.

Three more were met on the way and are exceptions of properties that hold, with no run of
their own:

* a session ended by a password change comes back when an overlapping change, dated
  earlier, is written last; `middleware/auth.ts:71-74` says that sessions issued before the
  last change are rejected;
* after a period that failed to load, a metric is plotted for it under the pill of the
  period before (`analytics.vue:607-613`); lines 460-463 say the pill names what is shown;
* cleanup removes by id a message that was marked unread after it was selected
  (`workers/src/index.ts:247`); line 219 says it never removes unread messages.

## 10. Not modelled

* Open and click tracking (`routes/tracking.ts`): stateless; a checked signature and a
  published event, whose way on is `WebhookDelivery`'s.
* The SQL of saved filters and search, templates, exports, analytics queries, spam and
  HTML reports, MIME building and parsing: functions of their input without state.
* Creating and editing a webhook and the check of its address; listing suppressions.
* The compose and forward dialogs, forms, tables and other views of the web application.
* Validation of requests, the cryptography of DKIM, passwords and stored secrets, LDAP
  and OAuth2 themselves: reduced to their verdicts.
* System mail skips suppression list and quota and uses the outbound queue as a forward
  does; that the system inbox exists is part of `Accounts`, its delivery is not repeated.
* Configuration, container images, generated migrations, and tests.

## 11. Running

    tlc -workers 2 -config MCOutboundClean.cfg MCOutboundDelivery
    tlc -workers 2 -config MCPlatform.cfg MCPlatform
    tlapm OutboundDelivery_proofs.tla
