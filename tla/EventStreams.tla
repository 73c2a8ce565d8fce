---------------------------- MODULE EventStreams ----------------------------
(***************************************************************************)
(* The live event stream of one user: the API's side with its slots        *)
(* (src/apps/api/src/routes/sse.ts) and the one connection a browser tab   *)
(* shares between its components (src/apps/web/composables/useSSE.ts).     *)
(* On either side whatever runs between two awaits is one step; in the     *)
(* browser that includes the continuation of an aborted fetch, which runs  *)
(* before the next event.  The events themselves are left out.             *)
(***************************************************************************)
EXTENDS Integers, FiniteSets

CONSTANTS Streams,     \* requests for the stream, each made once
          Components,  \* components of the tab that use it
          MaxStreams,  \* MAX_STREAMS_PER_USER (5)
          NoStream

ASSUME EventStreamsAssumption == MaxStreams \in Nat \ {0} /\ NoStream \notin Streams

VARIABLES slots,      \* openStreams.get(userId), 0 when there is no entry
          serving,    \* what the API does with each request
          ended,      \* requests whose session or key is no longer valid
          link,       \* the tab's end of each request
          mounted,    \* the tab's components: off, set up, or mounted
          controller, \* sseController: the request it belongs to
          reconnect,  \* sseReconnectTimer is armed
          watchdog    \* sseWatchdogTimer is armed

apiVars == <<slots, serving, ended>>
tabVars == <<mounted, controller, reconnect, watchdog>>
strVars == <<apiVars, link, tabVars>>

StrInit ==
    /\ slots = 0
    /\ serving = [s \in Streams |-> "none"]
    /\ ended = {}
    /\ link = [s \in Streams |-> "none"]
    /\ mounted = [c \in Components |-> "off"]
    /\ controller = NoStream
    /\ reconnect = FALSE
    /\ watchdog = FALSE

(***************************************************************************)
(* The API.                                                                *)
(***************************************************************************)
Serve(s, step) == serving' = [serving EXCEPT ![s] = step]

(* The limit is read and the slot taken without an await in between.       *)
OpenStream(s) ==
    /\ serving[s] = "sent"
    /\ \/ s \notin ended /\ slots < MaxStreams /\ slots' = slots + 1 /\ Serve(s, "loading")
       \/ (s \in ended \/ slots >= MaxStreams) /\ Serve(s, "over") /\ UNCHANGED slots
    /\ UNCHANGED <<ended, link, tabVars>>

(* The user's inboxes are loaded, then the head is written, Redis          *)
(* subscribed and the listener for the close registered.  A failed query   *)
(* answers 500 and keeps the slot; so does a stream whose client closed    *)
(* while the query ran, with its timers and its Redis connection.          *)
LoadInboxes(s) ==
    /\ \/ serving[s] = "loading" /\ Serve(s, "open")
       \/ serving[s] = "unheard" /\ Serve(s, "orphan")
       \/ serving[s] \in {"loading", "unheard"} /\ Serve(s, "failed")
    /\ UNCHANGED <<slots, ended, link, tabVars>>

Release == slots' = IF slots > 1 THEN slots - 1 ELSE 0

(* request.raw "close": it is heard only once the listener is there.       *)
ClientClosed(s) ==
    /\ link[s] = "over"
    /\ \/ serving[s] = "open" /\ Serve(s, "over") /\ Release
       \/ serving[s] = "loading" /\ Serve(s, "unheard") /\ UNCHANGED slots
    /\ UNCHANGED <<ended, link, tabVars>>

(* The refresh of every minute ends the stream of an ended session.        *)
RefreshStream(s) ==
    /\ serving[s] = "open" /\ s \in ended
    /\ Serve(s, "over") /\ Release
    /\ UNCHANGED <<ended, link, tabVars>>

(* Logout, a new password, or a revoked key.                               *)
EndSession ==
    /\ ended' = {s \in Streams : serving[s] # "none"}
    /\ UNCHANGED <<slots, serving, link, tabVars>>

RestartApi ==
    /\ slots' = 0
    /\ serving' = [s \in Streams |-> IF serving[s] = "none" THEN "none" ELSE "over"]
    /\ UNCHANGED <<ended, link, tabVars>>

(***************************************************************************)
(* The tab.                                                                *)
(***************************************************************************)
Open == {s \in Streams : link[s] = "open"}

(* startSSEConnection up to its first await.                               *)
StartConnection(s) ==
    /\ link[s] = "none"
    /\ link' = [link EXCEPT ![s] = "open"]
    /\ Serve(s, "sent")
    /\ controller' = s
    /\ watchdog' = TRUE

(* Its end, however the fetch or the body ended.                           *)
ConnectionOver(s) ==
    LET used == \E c \in Components : mounted[c] # "off" IN
    /\ link[s] = "open"
    /\ link' = [link EXCEPT ![s] = "over"]
    /\ watchdog' = FALSE
    /\ reconnect' = used
    /\ controller' = IF used THEN controller ELSE NoStream
    /\ UNCHANGED <<apiVars, mounted>>

(* The API answered with an error, ended the stream or went away, or the   *)
(* network failed.                                                         *)
StreamEnds(s) == ConnectionOver(s)

(* Nothing was received for 45 seconds.                                    *)
WatchdogFires ==
    /\ watchdog /\ controller # NoStream
    /\ ConnectionOver(controller)

ReconnectFires(s) ==
    /\ reconnect
    /\ StartConnection(s)
    /\ reconnect' = FALSE
    /\ UNCHANGED <<slots, ended, mounted>>

UseSSE(c) ==
    /\ mounted[c] = "off"
    /\ mounted' = [mounted EXCEPT ![c] = "setUp"]
    /\ UNCHANGED <<apiVars, link, controller, reconnect, watchdog>>

OnMounted(c, s) ==
    /\ mounted[c] = "setUp"
    /\ mounted' = [mounted EXCEPT ![c] = "mounted"]
    /\ \/ controller = NoStream /\ StartConnection(s) /\ UNCHANGED <<slots, ended, reconnect>>
       \/ /\ controller # NoStream
          /\ UNCHANGED <<apiVars, link, controller, reconnect, watchdog>>

(* Mutant: the reconnect timer outlives the last component.                *)
OnUnmountedKeepingTimer(c) ==
    LET last == \A d \in Components \ {c} : mounted[d] = "off" IN
    /\ mounted[c] = "mounted"
    /\ mounted' = [mounted EXCEPT ![c] = "off"]
    /\ watchdog' = (watchdog /\ ~last)
    /\ controller' = IF last THEN NoStream ELSE controller
    /\ link' = [s \in Streams |-> IF last /\ s = controller THEN "over" ELSE link[s]]
    /\ UNCHANGED <<apiVars, reconnect>>

(* The last one to go shuts the connection down.                           *)
OnUnmounted(c) ==
    LET last == \A d \in Components \ {c} : mounted[d] = "off" IN
    /\ mounted[c] = "mounted"
    /\ mounted' = [mounted EXCEPT ![c] = "off"]
    /\ reconnect' = (reconnect /\ ~last)
    /\ watchdog' = (watchdog /\ ~last)
    /\ controller' = IF last THEN NoStream ELSE controller
    /\ link' = [s \in Streams |-> IF last /\ s = controller THEN "over" ELSE link[s]]
    /\ UNCHANGED apiVars

StrNext ==
    \/ \E s \in Streams : \/ OpenStream(s) \/ LoadInboxes(s) \/ ClientClosed(s)
                          \/ RefreshStream(s) \/ StreamEnds(s) \/ ReconnectFires(s)
    \/ EndSession \/ RestartApi \/ WatchdogFires
    \/ \E c \in Components : \/ UseSSE(c) \/ OnUnmounted(c)
                             \/ \E s \in Streams : OnMounted(c, s)

StrSpec == StrInit /\ [][StrNext]_strVars

(***************************************************************************)
(* Properties.                                                             *)
(***************************************************************************)
(* Slots, requests and the tab are well typed.                             *)
StrTypeOK ==
    /\ slots \in Nat
    /\ serving \in [Streams -> {"none", "sent", "loading", "unheard", "open", "orphan",
                                "failed", "over"}]
    /\ ended \subseteq Streams
    /\ link \in [Streams -> {"none", "open", "over"}]
    /\ mounted \in [Components -> {"off", "setUp", "mounted"}]
    /\ controller \in Streams \cup {NoStream}
    /\ reconnect \in BOOLEAN /\ watchdog \in BOOLEAN

Holding(steps) == {s \in Streams : serving[s] \in steps}

(* A user never holds more Redis connections than the limit, and the       *)
(* counter is exact but for what it is known to lose: the streams whose    *)
(* query failed or whose client left before the listener was there         *)
(* (sse.ts:25,107).                                                        *)
SlotsAreAccounted ==
    /\ Cardinality(Holding({"open", "orphan"})) <= MaxStreams
    /\ slots = Cardinality(Holding({"loading", "open"}))
               + Cardinality(Holding({"unheard", "orphan", "failed"}))

(* "So only one SSE connection is ever open" (useSSE.ts:18), and as long   *)
(* as a component is mounted the tab is connected with its watchdog armed, *)
(* or about to reconnect, whatever ended in whichever order.               *)
OneConnection ==
    /\ Cardinality(Open) <= 1
    /\ \A s \in Open : controller = s /\ watchdog /\ ~reconnect
    /\ (\E c \in Components : mounted[c] = "mounted") => Open # {} \/ reconnect

(* Both ends of the stream: the slots of the API and the tab's connection. *)
StreamsHold == SlotsAreAccounted /\ OneConnection
=============================================================================
