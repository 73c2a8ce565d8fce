----------------------------- MODULE MessagePage -----------------------------
(***************************************************************************)
(* The page of one message (src/apps/web/pages/inbox/[inboxId]/message):   *)
(* it marks the message read, resends a bounced one and then polls the API *)
(* until the status settles, and cancels a scheduled one.  An interval     *)
(* starts a poll every two seconds whether or not the last has ended; a    *)
(* poll asks for the message and then for its delivery log, and stops      *)
(* whatever interval runs when it ends.  "bounced" is any failure that can *)
(* be resent.                                                              *)
(***************************************************************************)
EXTENDS Integers, SequencesExt

CONSTANTS MaxPolls,   \* polls after one resend
          MaxResends, \* bound: resends
          MaxOverlap  \* bound: polls under way

ASSUME MessagePageAssumption ==
    MaxPolls \in Nat \ {0} /\ MaxResends \in Nat /\ MaxOverlap \in Nat \ {0}

VARIABLES status,    \* messages.status, at the server
          readAt,    \* messages.is_read, at the server
          onPage,     \* message.value: status and isRead
          entry,     \* status of which the delivery log on screen tells
          resends,   \* resends the server took
          timer,     \* the resend whose interval runs, 0 for none
          polls,     \* polls started, per resend
          asks,      \* requests under way of polls and of the delivery log, in order
          asking,      \* the resend, cancel or delete request under way
          marking,   \* the request that marks the message read
          straggled, \* history: since the last resend, an answer came late
          cutShort,  \* history: polling was cut short, or an answer lost, since then
          logLost    \* history: the last delivery log a poll asked for did not arrive

msgServer == <<status, readAt>>
pollVars == <<resends, timer, polls, asks>>
pollHistory == <<straggled, cutShort, logLost>>
msgVars == <<msgServer, onPage, entry, pollVars, asking, marking, pollHistory>>

Statuses == {"scheduled", "queued", "sending", "delivered", "bounced", "cancelled", "gone"}
Steps == {"get", "got", "logs", "logged"}
PageCalls == {"resend", "cancel", "remove"}
NotAsking == [op |-> "none", at |-> "none"]

(* loadDelivery: the delivery log, asked for by the page itself (0) or by a *)
(* poll of a resend.                                                       *)
LogsAsked(n) == [of |-> n, at |-> "logs", told |-> "none", log |-> "none", late |-> FALSE]

(* Request i is served or answered: of those made before it, the ones still *)
(* at one of the given steps are late, and so is a log the page or the user *)
(* asked for that is on its way.                                           *)
Overtaking(i, steps) ==
    [k \in DOMAIN asks |->
       [asks[k] EXCEPT !.late = \/ @
                                \/ k < i /\ asks[k].at \in steps
                                \/ k > i /\ asks[k].of = 0 /\ asks[k].at = "logged"]]

MsgInit ==
    /\ status \in {"scheduled", "bounced"} /\ readAt \in BOOLEAN
    /\ onPage = [status |-> status, isRead |-> TRUE]
    /\ marking = IF readAt THEN "none" ELSE "sent"
    /\ entry = "none" /\ asks = <<LogsAsked(0)>>
    /\ resends = 0 /\ timer = 0 /\ polls = [n \in 0..MaxResends |-> 0]
    /\ asking = NotAsking /\ straggled = FALSE /\ cutShort = FALSE /\ logLost = FALSE

(***************************************************************************)
(* The server.                                                             *)
(***************************************************************************)

(* The worker takes the job up, and ends it.                               *)
Attempt ==
    /\ \/ status \in {"scheduled", "queued"} /\ status' = "sending"
       \/ status = "sending" /\ status' \in {"delivered", "bounced"}
    /\ UNCHANGED <<readAt, onPage, entry, pollVars, asking, marking, pollHistory>>

(* A resend claims a failed message, a cancel a scheduled one.             *)
Takes(op) ==
    CASE op = "resend" -> status = "bounced"
      [] op = "cancel" -> status = "scheduled"
      [] OTHER         -> status # "gone"
ServeCall ==
    /\ asking.at = "sent"
    /\ IF Takes(asking.op)
       THEN /\ status' = CASE asking.op = "resend" -> "queued"
                           [] asking.op = "cancel" -> "cancelled"
                           [] OTHER              -> "gone"
            /\ asking' = [asking EXCEPT !.at = "done"]
       ELSE /\ asking' = [asking EXCEPT !.at = "refused"] /\ UNCHANGED status
    /\ UNCHANGED <<readAt, onPage, entry, pollVars, marking, pollHistory>>
LoseCall ==
    /\ asking.at = "done" /\ asking' = [asking EXCEPT !.at = "refused"] /\ cutShort' = TRUE
    /\ UNCHANGED <<msgServer, onPage, entry, pollVars, marking, straggled, logLost>>
ServeRead ==
    /\ marking = "sent" /\ readAt' = TRUE /\ marking' = "done"
    /\ UNCHANGED <<status, onPage, entry, pollVars, asking, pollHistory>>
ServeAsk(i) ==
    /\ status # "gone" /\ asks[i].at \in {"get", "logs"}
    /\ asks' = IF asks[i].at = "get"
               THEN [Overtaking(i, {"get"}) EXCEPT ![i].at = "got", ![i].told = status]
               ELSE [Overtaking(i, {"logs"}) EXCEPT ![i].at = "logged", ![i].log = status]
    /\ UNCHANGED <<msgServer, onPage, entry, resends, timer, polls, asking, marking, pollHistory>>

(***************************************************************************)
(* The page.                                                               *)
(***************************************************************************)

(* The flag was set on screen at once; it is taken back on failure.        *)
MarkedRead ==
    /\ marking # "none" /\ marking' = "none"
    /\ \/ marking = "done" /\ UNCHANGED onPage
       \/ onPage' = [onPage EXCEPT !.isRead = FALSE]
    /\ UNCHANGED <<msgServer, entry, pollVars, asking, pollHistory>>

(* The user resends a failed message, cancels a scheduled one or deletes   *)
(* it; the page offers what the status on screen allows.                   *)
Offered(op) ==
    CASE op = "resend" -> onPage.status = "bounced" /\ entry # "none" /\ resends < MaxResends
      [] op = "cancel" -> onPage.status = "scheduled"
      [] OTHER         -> onPage.status # "gone"
AskFor(op) ==
    /\ asking = NotAsking /\ Offered(op)
    /\ asking' = [op |-> op, at |-> "sent"]
    /\ UNCHANGED <<msgServer, onPage, entry, pollVars, marking, pollHistory>>

(* resend, answered: "queued" is shown and a new interval replaces the old. *)
StartPolling ==
    /\ asking = [op |-> "resend", at |-> "done"] /\ asking' = NotAsking
    /\ onPage' = [onPage EXCEPT !.status = "queued"]
    /\ resends' = resends + 1 /\ timer' = resends'
    /\ straggled' = FALSE /\ cutShort' = FALSE /\ logLost' = FALSE
    /\ UNCHANGED <<msgServer, entry, polls, asks, marking>>

(* cancelSchedule and remove, answered; leaving the page stops everything. *)
ScheduleCancelled ==
    /\ asking = [op |-> "cancel", at |-> "done"] /\ asking' = NotAsking
    /\ onPage' = [onPage EXCEPT !.status = "cancelled"]
    /\ UNCHANGED <<msgServer, entry, pollVars, marking, pollHistory>>
LeavePage ==
    /\ asking = [op |-> "remove", at |-> "done"] /\ asking' = NotAsking
    /\ onPage' = [onPage EXCEPT !.status = "gone"] /\ timer' = 0 /\ asks' = <<>>
    /\ UNCHANGED <<msgServer, entry, resends, polls, marking, pollHistory>>
CallRefused ==
    /\ asking.at = "refused" /\ asking' = NotAsking
    /\ UNCHANGED <<msgServer, onPage, entry, pollVars, marking, pollHistory>>

(* The interval fires: one more poll starts.                               *)
Poll ==
    /\ timer # 0 /\ Len(asks) < MaxOverlap /\ polls[timer] < MaxPolls
    /\ polls' = [polls EXCEPT ![timer] = @ + 1]
    /\ asks' = Append(asks, [LogsAsked(timer) EXCEPT !.at = "get"])
    /\ UNCHANGED <<msgServer, onPage, entry, resends, timer, asking, marking, pollHistory>>

(* The user asks for the delivery log again.                               *)
RefreshLog ==
    /\ Len(asks) < MaxOverlap /\ onPage.status # "gone" /\ asks' = Append(asks, LogsAsked(0))
    /\ UNCHANGED <<msgServer, onPage, entry, resends, timer, polls, asking, marking, pollHistory>>

(* The message arrives: its status is shown, the log is asked for.         *)
PollAnswered(i) ==
    /\ asks[i].at = "got"
    /\ onPage' = [onPage EXCEPT !.status = asks[i].told]
    /\ asks' = [Overtaking(i, {"get", "got"}) EXCEPT ![i].at = "logs"]
    /\ straggled' = (straggled \/ asks[i].late \/ asks[i].of # timer)
    /\ UNCHANGED <<msgServer, entry, resends, timer, polls, asking, marking, cutShort, logLost>>

(* Mutant: a message being sent counts as settled.                         *)
IsFinalOnceSending(s) == s # "queued"

IsFinal(s) == s \notin {"queued", "sending"}

(* The log arrives, or fails; the poll ends.  The interval goes on unless  *)
(* the poll saw a settled status or enough polls have started.             *)
PollEnds(i) ==
    LET a == asks[i]
        enough == polls[a.of] >= MaxPolls
    IN /\ a.at \in {"logs", "logged"}
       /\ \/ a.at = "logged" /\ entry' = a.log /\ logLost' = (logLost /\ a.of = 0)
          \/ logLost' = TRUE /\ UNCHANGED entry
       /\ asks' = RemoveAt(Overtaking(i, Steps), i)
       /\ straggled' = (straggled \/ a.late \/ a.of \notin {0, resends})
       /\ IF a.of = 0
          THEN UNCHANGED <<timer, cutShort>>
          ELSE /\ timer' = IF IsFinal(a.told) \/ enough THEN 0 ELSE timer
               /\ cutShort' = (cutShort \/ (enough /\ ~IsFinal(a.told)))
       /\ UNCHANGED <<msgServer, onPage, resends, polls, asking, marking>>

(* The message cannot be read: polling stops.                              *)
PollFails(i) ==
    /\ asks[i].at \in {"get", "got"}
    /\ asks' = RemoveAt(asks, i) /\ timer' = 0 /\ cutShort' = TRUE
    /\ UNCHANGED <<msgServer, onPage, entry, resends, polls, asking, marking, straggled, logLost>>

MsgNext ==
    \/ Attempt \/ ServeCall \/ LoseCall \/ ServeRead \/ MarkedRead
    \/ \E op \in PageCalls : AskFor(op)
    \/ StartPolling \/ ScheduleCancelled \/ LeavePage \/ CallRefused
    \/ Poll \/ RefreshLog
    \/ \E i \in DOMAIN asks : ServeAsk(i) \/ PollAnswered(i) \/ PollEnds(i) \/ PollFails(i)
MsgSpec == MsgInit /\ [][MsgNext]_msgVars

-----------------------------------------------------------------------------
(* Type invariant.                                                         *)
MsgTypeOK ==
    /\ status \in Statuses /\ {readAt, straggled, cutShort, logLost} \subseteq BOOLEAN
    /\ onPage \in [status : Statuses, isRead : BOOLEAN] /\ entry \in Statuses \cup {"none"}
    /\ resends \in 0..MaxResends /\ timer \in 0..MaxResends
    /\ polls \in [0..MaxResends -> 0..MaxPolls]
    /\ asks \in Seq([of : 0..MaxResends, at : Steps, told : Statuses \cup {"none"},
                      log : Statuses \cup {"none"}, late : BOOLEAN])
    /\ asking \in [op : PageCalls \cup {"none"}, at : {"none", "sent", "done", "refused"}]
    /\ marking \in {"none", "sent", "done"}

(* When the page has stopped polling after a resend and nothing is under   *)
(* way, it shows how the resend ended, in its badge and its delivery log,  *)
(* unless an answer came late (an overtaken poll, or one of an earlier     *)
(* resend, whose end stops the new interval), polling was cut short or an  *)
(* answer lost.  A message shown as read is read at the server.            *)
PageSettles ==
    asks = <<>> /\ asking = NotAsking /\ marking = "none" =>
        /\ onPage.isRead => readAt
        /\ resends > 0 /\ timer = 0 /\ ~straggled /\ ~cutShort /\ onPage.status # "gone" =>
               /\ IsFinal(status) /\ onPage.status = status
               /\ logLost \/ entry = status
=============================================================================
