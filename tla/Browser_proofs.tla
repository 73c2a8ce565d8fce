---------------------------- MODULE Browser_proofs ----------------------------
(***************************************************************************)
(* What a browser has open.  Both ends of the live event stream, for any   *)
(* number of requests and components and any limit of streams: which slots *)
(* the API counts, and that the tab has one connection.  And the session   *)
(* its tabs share, for any number of tabs and tokens: that they agree.     *)
(* Then the pages it shows, for any sequence of requests, answers and      *)
(* events: the list of an inbox and the way through it, read flags, the    *)
(* page of one message, the other lists with their dialogs, and analytics. *)
(***************************************************************************)
EXTENDS EventStreams, WebSession, AnalyticsPages, ReadState, InboxView, WebPages, MessagePage,
        ListNav, FiniteSetTheorems, SequenceTheorems, TLAPS

(* Every slot taken belongs to a request that has it still or has lost it. *)
Holds == {"loading", "open", "unheard", "orphan", "failed"}
SlotHolders == Holding(Holds)
SlotsAreTaken ==
    /\ IsFiniteSet(SlotHolders)
    /\ slots = Cardinality(SlotHolders) /\ slots <= MaxStreams

(* The controller stands for the connection there is, or the one a timer   *)
(* will make; a mounted component always has one.                          *)
ControllerIsCurrent ==
    /\ \A s \in Streams : link[s] = "open" => controller = s /\ watchdog /\ ~reconnect
    /\ controller # NoStream => reconnect \/ link[controller] = "open"
    /\ reconnect => controller # NoStream
    /\ \A c \in Components : mounted[c] = "mounted" => controller # NoStream

(* The API knows only requests that the tab has made.                      *)
OnlySent == \A s \in Streams : link[s] = "none" => serving[s] = "none"

StrInv == StrTypeOK /\ SlotsAreTaken /\ ControllerIsCurrent /\ OnlySent

(***************************************************************************)
(* Types.                                                                  *)
(***************************************************************************)
(* The API's steps keep the types.                                         *)
LEMMA ApiTypes ==
    ASSUME StrTypeOK, NEW s \in Streams,
           OpenStream(s) \/ LoadInboxes(s) \/ ClientClosed(s) \/ RefreshStream(s)
    PROVE  StrTypeOK'
  <1>1. slots' \in Nat
    BY DEF StrTypeOK, OpenStream, LoadInboxes, ClientClosed, RefreshStream, Release
  <1>2. serving' \in [Streams -> {"none", "sent", "loading", "unheard", "open", "orphan",
                                  "failed", "over"}]
    BY DEF StrTypeOK, OpenStream, LoadInboxes, ClientClosed, RefreshStream, Serve
  <1>3. UNCHANGED <<ended, link, tabVars>>
    BY DEF OpenStream, LoadInboxes, ClientClosed, RefreshStream
  <1> QED
    BY <1>1, <1>2, <1>3 DEF StrTypeOK, tabVars

(* So do those of the tab and of the session.                              *)
LEMMA TabTypes ==
    ASSUME StrTypeOK, StrNext,
           ~\E s \in Streams : OpenStream(s) \/ LoadInboxes(s) \/ ClientClosed(s)
                               \/ RefreshStream(s)
    PROVE  StrTypeOK'
  <1> USE DEF StrTypeOK
  <1>1. ASSUME NEW s \in Streams, ConnectionOver(s)
        PROVE  StrTypeOK'
    BY <1>1 DEF ConnectionOver, apiVars
  <1>2. CASE EndSession \/ RestartApi
    BY <1>2 DEF EndSession, RestartApi, tabVars
  <1>3. ASSUME NEW s \in Streams, ReconnectFires(s)
        PROVE  StrTypeOK'
    BY <1>3 DEF ReconnectFires, StartConnection, Serve
  <1>4. ASSUME NEW c \in Components, UseSSE(c) \/ OnUnmounted(c)
        PROVE  StrTypeOK'
    <2>1. CASE UseSSE(c)
      BY <2>1 DEF UseSSE, apiVars
    <2>2. CASE OnUnmounted(c)
      BY <2>2 DEF OnUnmounted, apiVars
    <2> QED
      BY <1>4, <2>1, <2>2
  <1>5. ASSUME NEW c \in Components, NEW s \in Streams, OnMounted(c, s)
        PROVE  StrTypeOK'
    BY <1>5 DEF OnMounted, StartConnection, Serve, apiVars
  <1>6. CASE WatchdogFires
    BY <1>1, <1>6 DEF WatchdogFires
  <1> QED
    BY <1>1, <1>2, <1>3, <1>4, <1>5, <1>6 DEF StrNext, StreamEnds

(* Every step keeps the types.                                             *)
LEMMA StrTypeStep ==
    ASSUME StrTypeOK, [StrNext]_strVars
    PROVE  StrTypeOK'
  <1>1. CASE UNCHANGED strVars
    BY <1>1 DEF StrTypeOK, strVars, apiVars, tabVars
  <1> QED
    BY <1>1, ApiTypes, TabTypes

(***************************************************************************)
(* Slots.                                                                  *)
(***************************************************************************)
(* A request that moves between the steps that hold a slot changes none,   *)
(* one that leaves them frees one, one that joins them takes one.          *)
LEMMA TakenMoves ==
    ASSUME StrTypeOK, IsFiniteSet(SlotHolders), NEW s \in Streams, NEW step, Serve(s, step)
    PROVE  /\ IsFiniteSet(SlotHolders')
           /\ (serving[s] \in Holds <=> step \in Holds)
                => Cardinality(SlotHolders') = Cardinality(SlotHolders)
           /\ (serving[s] \in Holds /\ step \notin Holds)
                => Cardinality(SlotHolders') = Cardinality(SlotHolders) - 1 /\ Cardinality(SlotHolders) # 0
           /\ (serving[s] \notin Holds /\ step \in Holds)
                => Cardinality(SlotHolders') = Cardinality(SlotHolders) + 1
  <1>1. serving' = [serving EXCEPT ![s] = step] /\ DOMAIN serving = Streams
    BY DEF Serve, StrTypeOK
  <1>2. Cardinality(SlotHolders) \in Nat
    BY FS_CardinalityType
  <1>3. CASE step \in Holds
    <2>1. SlotHolders' = SlotHolders \cup {s}
      BY <1>1, <1>3 DEF SlotHolders, Holding
    <2>2. serving[s] \in Holds <=> s \in SlotHolders
      BY DEF SlotHolders, Holding
    <2>3. IsFiniteSet(SlotHolders') /\ Cardinality(SlotHolders')
                                 = IF s \in SlotHolders THEN Cardinality(SlotHolders)
                                   ELSE Cardinality(SlotHolders) + 1
      BY <2>1, FS_AddElement
    <2> QED
      BY <1>3, <2>2, <2>3
  <1>4. CASE step \notin Holds
    <2>1. SlotHolders' = SlotHolders \ {s}
      BY <1>1, <1>4 DEF SlotHolders, Holding
    <2>2. serving[s] \in Holds <=> s \in SlotHolders
      BY DEF SlotHolders, Holding
    <2>3. IsFiniteSet(SlotHolders') /\ Cardinality(SlotHolders')
                                 = IF s \in SlotHolders THEN Cardinality(SlotHolders) - 1
                                   ELSE Cardinality(SlotHolders)
      BY <2>1, FS_RemoveElement
    <2>4. s \in SlotHolders => Cardinality(SlotHolders) # 0
      BY FS_EmptySet
    <2> QED
      BY <1>4, <2>2, <2>3, <2>4
  <1> QED
    BY <1>3, <1>4

(* Every step keeps the count, and the count below the limit.              *)
LEMMA SlotStep ==
    ASSUME StrTypeOK, SlotsAreTaken, OnlySent, [StrNext]_strVars
    PROVE  SlotsAreTaken'
  <1> USE EventStreamsAssumption
  <1>0. IsFiniteSet(SlotHolders) /\ Cardinality(SlotHolders) \in Nat
    BY FS_CardinalityType DEF SlotsAreTaken
  <1>1. ASSUME NEW s \in Streams, OpenStream(s)
        PROVE  SlotsAreTaken'
    <2>1. CASE slots < MaxStreams /\ slots' = slots + 1 /\ Serve(s, "loading")
      <3>1. IsFiniteSet(SlotHolders') /\ Cardinality(SlotHolders') = Cardinality(SlotHolders) + 1
        BY <1>0, <1>1, <2>1, TakenMoves DEF OpenStream, Holds
      <3> QED
        BY <1>0, <2>1, <3>1 DEF SlotsAreTaken
    <2>2. CASE Serve(s, "over") /\ slots' = slots
      <3>1. IsFiniteSet(SlotHolders') /\ Cardinality(SlotHolders') = Cardinality(SlotHolders)
        BY <1>0, <1>1, <2>2, TakenMoves DEF OpenStream, Holds
      <3> QED
        BY <1>0, <2>2, <3>1 DEF SlotsAreTaken
    <2> QED
      BY <1>1, <2>1, <2>2 DEF OpenStream
  <1>2. ASSUME NEW s \in Streams, NEW step \in {"open", "orphan", "failed", "unheard"},
               serving[s] \in {"loading", "unheard"}, Serve(s, step), UNCHANGED slots
        PROVE  SlotsAreTaken'
    <2>1. IsFiniteSet(SlotHolders') /\ Cardinality(SlotHolders') = Cardinality(SlotHolders)
      BY <1>0, <1>2, TakenMoves DEF Holds
    <2> QED
      BY <1>2, <2>1 DEF SlotsAreTaken
  <1>3. ASSUME NEW s \in Streams, serving[s] = "open", Serve(s, "over"), Release
        PROVE  SlotsAreTaken'
    <2>1. /\ IsFiniteSet(SlotHolders')
          /\ Cardinality(SlotHolders') = Cardinality(SlotHolders) - 1 /\ Cardinality(SlotHolders) # 0
      BY <1>0, <1>3, TakenMoves DEF Holds
    <2> QED
      BY <1>0, <1>3, <2>1 DEF SlotsAreTaken, Release
  <1>4. ASSUME NEW s \in Streams, LoadInboxes(s)
        PROVE  SlotsAreTaken'
    BY <1>2, <1>4 DEF LoadInboxes
  <1>5. ASSUME NEW s \in Streams, ClientClosed(s) \/ RefreshStream(s)
        PROVE  SlotsAreTaken'
    BY <1>2, <1>3, <1>5 DEF ClientClosed, RefreshStream
  <1>6. CASE RestartApi
    <2>1. SlotHolders' = {} /\ slots' = 0
      BY <1>6 DEF RestartApi, SlotHolders, Holding, Holds, StrTypeOK
    <2> QED
      BY <2>1, FS_EmptySet DEF SlotsAreTaken
  <1>7. ASSUME UNCHANGED <<slots, serving>>
        PROVE  SlotsAreTaken'
    BY <1>7 DEF SlotsAreTaken, SlotHolders, Holding
  <1>8. ASSUME NEW s \in Streams, StartConnection(s), UNCHANGED slots
        PROVE  SlotsAreTaken'
    <2>1. Serve(s, "sent") /\ serving[s] = "none"
      BY <1>8 DEF StartConnection, OnlySent
    <2>2. IsFiniteSet(SlotHolders') /\ Cardinality(SlotHolders') = Cardinality(SlotHolders)
      BY <1>0, <2>1, TakenMoves DEF Holds
    <2> QED
      BY <1>8, <2>2 DEF SlotsAreTaken
  <1>9. ASSUME NEW s \in Streams, ReconnectFires(s) \/ StreamEnds(s)
        PROVE  SlotsAreTaken'
    BY <1>7, <1>8, <1>9 DEF ReconnectFires, StreamEnds, ConnectionOver, apiVars
  <1>10. ASSUME NEW c \in Components, NEW s \in Streams, OnMounted(c, s)
         PROVE  SlotsAreTaken'
    BY <1>7, <1>8, <1>10 DEF OnMounted, apiVars
  <1>11. ASSUME NEW c \in Components, UseSSE(c) \/ OnUnmounted(c)
         PROVE  SlotsAreTaken'
    BY <1>7, <1>11 DEF UseSSE, OnUnmounted, apiVars
  <1>12. CASE EndSession \/ WatchdogFires \/ UNCHANGED strVars
    BY <1>7, <1>12 DEF EndSession, WatchdogFires, ConnectionOver, strVars, apiVars
  <1> QED
    BY <1>1, <1>4, <1>5, <1>6, <1>9, <1>10, <1>11, <1>12 DEF StrNext

(* A slot counted is a request the API was sent.                           *)
LEMMA SentStep ==
    ASSUME StrTypeOK, OnlySent, [StrNext]_strVars
    PROVE  OnlySent'
  <1> USE DEF OnlySent, StrTypeOK
  <1>1. ASSUME NEW s \in Streams,
               OpenStream(s) \/ LoadInboxes(s) \/ ClientClosed(s) \/ RefreshStream(s)
        PROVE  OnlySent'
    BY <1>1 DEF OpenStream, LoadInboxes, ClientClosed, RefreshStream, Serve
  <1>2. ASSUME NEW s \in Streams, StartConnection(s)
        PROVE  OnlySent'
    BY <1>2 DEF StartConnection, Serve
  <1>3. ASSUME NEW s \in Streams, ConnectionOver(s)
        PROVE  OnlySent'
    BY <1>3 DEF ConnectionOver, apiVars
  <1>4. ASSUME NEW s \in Streams, StreamEnds(s) \/ ReconnectFires(s)
        PROVE  OnlySent'
    BY <1>2, <1>3, <1>4 DEF StreamEnds, ReconnectFires
  <1>5. ASSUME NEW c \in Components, UseSSE(c) \/ OnUnmounted(c)
        PROVE  OnlySent'
    BY <1>5 DEF UseSSE, OnUnmounted, apiVars
  <1>6. ASSUME NEW c \in Components, NEW s \in Streams, OnMounted(c, s)
        PROVE  OnlySent'
    BY <1>2, <1>6 DEF OnMounted, apiVars
  <1>7. CASE EndSession \/ RestartApi \/ UNCHANGED strVars
    BY <1>7 DEF EndSession, RestartApi, strVars, apiVars
  <1>8. CASE WatchdogFires
    BY <1>3, <1>8 DEF WatchdogFires
  <1> QED
    BY <1>1, <1>4, <1>5, <1>6, <1>7, <1>8 DEF StrNext

(***************************************************************************)
(* The tab.                                                                *)
(***************************************************************************)
(* A connection is started only where there is none, with no timer left.   *)
LEMMA StartIsFirst ==
    ASSUME StrTypeOK, ControllerIsCurrent, NEW s \in Streams, StartConnection(s),
           controller = NoStream \/ reconnect, ~reconnect'
    PROVE  ControllerIsCurrent'
  <1>1. \A t \in Streams : link[t] # "open"
    BY EventStreamsAssumption DEF ControllerIsCurrent
  <1>2. \A t \in Streams : link'[t] = "open" => t = s
    BY <1>1 DEF StartConnection, StrTypeOK
  <1>3. controller' = s /\ s # NoStream /\ link'[s] = "open" /\ watchdog'
    BY EventStreamsAssumption DEF StartConnection, StrTypeOK
  <1> QED
    BY <1>2, <1>3 DEF ControllerIsCurrent

(* The end of a connection leaves a timer, or nobody who would need one.   *)
LEMMA EndLeavesTimer ==
    ASSUME StrTypeOK, ControllerIsCurrent, NEW s \in Streams, ConnectionOver(s)
    PROVE  ControllerIsCurrent'
  <1>1. controller = s /\ s # NoStream
    BY EventStreamsAssumption DEF ControllerIsCurrent, ConnectionOver
  <1>2. \A t \in Streams : link'[t] # "open"
    BY <1>1 DEF ConnectionOver, ControllerIsCurrent, StrTypeOK
  <1>3. CASE \E c \in Components : mounted[c] # "off"
    <2>1. controller' = s /\ reconnect'
      BY <1>1, <1>3 DEF ConnectionOver
    <2> QED
      BY <1>1, <1>2, <2>1 DEF ControllerIsCurrent
  <1>4. CASE \A c \in Components : mounted[c] = "off"
    <2>1. controller' = NoStream /\ ~reconnect' /\ mounted' = mounted
      BY <1>4 DEF ConnectionOver
    <2> QED
      BY <1>2, <1>4, <2>1 DEF ControllerIsCurrent
  <1> QED
    BY <1>3, <1>4

(* The last component to go takes the connection and its timers along.     *)
LEMMA LastShutsDown ==
    ASSUME StrTypeOK, ControllerIsCurrent, NEW c \in Components, OnUnmounted(c)
    PROVE  ControllerIsCurrent'
  <1>1. \A d \in Components : mounted'[d] = "mounted" => mounted[d] = "mounted" /\ d # c
    BY DEF OnUnmounted, StrTypeOK
  <1>2. CASE \A d \in Components \ {c} : mounted[d] = "off"
    <2>1. controller' = NoStream /\ ~reconnect'
      BY <1>2 DEF OnUnmounted
    <2>2. \A s \in Streams : link'[s] # "open"
      BY <1>2 DEF OnUnmounted, ControllerIsCurrent
    <2>3. \A d \in Components : mounted'[d] # "mounted"
      BY <1>1, <1>2
    <2> QED
      BY <2>1, <2>2, <2>3 DEF ControllerIsCurrent
  <1>3. CASE ~\A d \in Components \ {c} : mounted[d] = "off"
    <2>1. UNCHANGED <<reconnect, watchdog, controller>>
      BY <1>3 DEF OnUnmounted, StrTypeOK
    <2>2. link' = link
      BY <1>3 DEF OnUnmounted, StrTypeOK
    <2> QED
      BY <1>1, <2>1, <2>2 DEF ControllerIsCurrent
  <1> QED
    BY <1>2, <1>3

(* Every step keeps the tab's one connection.                              *)
LEMMA ConnectionStep ==
    ASSUME StrTypeOK, ControllerIsCurrent, [StrNext]_strVars
    PROVE  ControllerIsCurrent'
  <1>1. ASSUME UNCHANGED <<link, tabVars>>
        PROVE  ControllerIsCurrent'
    BY <1>1 DEF ControllerIsCurrent, tabVars
  <1>2. ASSUME NEW s \in Streams,
               OpenStream(s) \/ LoadInboxes(s) \/ ClientClosed(s) \/ RefreshStream(s)
        PROVE  ControllerIsCurrent'
    BY <1>1, <1>2 DEF OpenStream, LoadInboxes, ClientClosed, RefreshStream
  <1>3. ASSUME NEW s \in Streams, StreamEnds(s)
        PROVE  ControllerIsCurrent'
    BY <1>3, EndLeavesTimer DEF StreamEnds
  <1>4. ASSUME NEW s \in Streams, ReconnectFires(s)
        PROVE  ControllerIsCurrent'
    <2>1. reconnect /\ ~reconnect' /\ StartConnection(s)
      BY <1>4 DEF ReconnectFires
    <2> QED
      BY <2>1, StartIsFirst
  <1>5. ASSUME NEW c \in Components, UseSSE(c)
        PROVE  ControllerIsCurrent'
    <2>1. /\ UNCHANGED <<link, controller, reconnect, watchdog>>
          /\ \A d \in Components : mounted'[d] = "mounted" => mounted[d] = "mounted"
      BY <1>5 DEF UseSSE, StrTypeOK
    <2> QED
      BY <2>1 DEF ControllerIsCurrent
  <1>6. ASSUME NEW c \in Components, NEW s \in Streams, OnMounted(c, s)
        PROVE  ControllerIsCurrent'
    <2>1. CASE controller = NoStream
      <3>1. ~reconnect /\ reconnect' = reconnect /\ StartConnection(s)
        BY <1>6, <2>1 DEF OnMounted, ControllerIsCurrent
      <3> QED
        BY <2>1, <3>1, StartIsFirst
    <2>2. CASE controller # NoStream
      <3>1. UNCHANGED <<link, controller, reconnect, watchdog>>
        BY <1>6, <2>2 DEF OnMounted
      <3> QED
        BY <2>2, <3>1 DEF ControllerIsCurrent
    <2> QED
      BY <2>1, <2>2
  <1>7. ASSUME NEW c \in Components, OnUnmounted(c)
        PROVE  ControllerIsCurrent'
    BY <1>7, LastShutsDown
  <1>8. CASE WatchdogFires
    <2>1. controller \in Streams /\ ConnectionOver(controller)
      BY <1>8 DEF WatchdogFires, StrTypeOK
    <2> QED
      BY <2>1, EndLeavesTimer
  <1>9. CASE EndSession \/ RestartApi \/ UNCHANGED strVars
    BY <1>1, <1>9 DEF EndSession, RestartApi, strVars
  <1> QED
    BY <1>2, <1>3, <1>4, <1>5, <1>6, <1>7, <1>8, <1>9 DEF StrNext

(* Sets without a common element are counted one after the other.          *)
LEMMA DisjointCount ==
    ASSUME NEW A, NEW B, IsFiniteSet(A), IsFiniteSet(B), A \cap B = {}
    PROVE  Cardinality(A \cup B) = Cardinality(A) + Cardinality(B)
  <1>1. Cardinality(A) \in Nat /\ Cardinality(B) \in Nat
    BY FS_CardinalityType
  <1>2. Cardinality(A \cap B) = 0
    BY FS_EmptySet
  <1>3. Cardinality(A \cup B) = Cardinality(A) + Cardinality(B) - Cardinality(A \cap B)
    BY FS_Union
  <1> QED
    BY <1>1, <1>2, <1>3

(***************************************************************************)
(* The theorem.                                                            *)
(***************************************************************************)
(* The counter counts the slots in use and those it lost, no user gets     *)
(* past the limit, and a tab with a component has one connection or a      *)
(* timer that makes it (sse.ts, useSSE.ts).                                *)
THEOREM StreamsAlwaysHold == StrSpec => [](StrTypeOK /\ StreamsHold)
  <1>1. StrInit => StrInv
    <2> SUFFICES ASSUME StrInit
                 PROVE  StrInv
      OBVIOUS
    <2>1. StrTypeOK /\ ControllerIsCurrent /\ OnlySent
      BY DEF StrInit, StrTypeOK, ControllerIsCurrent, OnlySent
    <2>2. SlotHolders = {} /\ slots = 0
      BY DEF StrInit, SlotHolders, Holding, Holds
    <2>3. SlotsAreTaken
      BY <2>2, FS_EmptySet, EventStreamsAssumption DEF SlotsAreTaken
    <2> QED
      BY <2>1, <2>3 DEF StrInv
  <1>2. StrInv /\ [StrNext]_strVars => StrInv'
    BY StrTypeStep, SlotStep, ConnectionStep, SentStep DEF StrInv
  <1>3. StrInv => StreamsHold
    <2> SUFFICES ASSUME StrInv
                 PROVE  StreamsHold
      OBVIOUS
    <2>1. SlotsAreAccounted
      <3> DEFINE Kept == Holding({"loading", "open"})
                 Lost == Holding({"unheard", "orphan", "failed"})
                 Connected == Holding({"open", "orphan"})
      <3>1. /\ SlotHolders = Kept \cup Lost /\ Kept \cap Lost = {} /\ IsFiniteSet(SlotHolders)
            /\ Connected \subseteq SlotHolders
        BY DEF SlotHolders, Holding, Holds, StrInv, SlotsAreTaken
      <3>2. IsFiniteSet(Kept) /\ IsFiniteSet(Lost)
        BY <3>1, FS_Subset
      <3>3. /\ Cardinality(Kept) \in Nat /\ Cardinality(Lost) \in Nat
            /\ Cardinality(SlotHolders) \in Nat
        BY <3>1, <3>2, FS_CardinalityType
      <3>5. Cardinality(SlotHolders) = Cardinality(Kept) + Cardinality(Lost)
        BY <3>1, <3>2, DisjointCount
      <3>6. Cardinality(Connected) \in Nat /\ Cardinality(Connected) <= Cardinality(SlotHolders)
        BY <3>1, FS_Subset, FS_CardinalityType
      <3> HIDE DEF Kept, Lost, Connected
      <3>7. slots = Cardinality(SlotHolders) /\ slots <= MaxStreams
        BY DEF StrInv, SlotsAreTaken
      <3>8. Cardinality(Connected) <= MaxStreams
        BY <3>3, <3>6, <3>7, EventStreamsAssumption
      <3> QED
        BY <3>5, <3>7, <3>8 DEF SlotsAreAccounted, Kept, Lost, Connected
    <2>2. OneConnection
      <3>1. Open = {} \/ Open = {controller}
        BY DEF StrInv, ControllerIsCurrent, Open
      <3>2. Cardinality(Open) <= 1
        <4>1. Cardinality({}) = 0
          BY FS_EmptySet
        <4>2. Cardinality({controller}) = 1
          BY FS_Singleton
        <4> QED
          BY <3>1, <4>1, <4>2
      <3>3. \A s \in Open : controller = s /\ watchdog /\ ~reconnect
        BY DEF StrInv, ControllerIsCurrent, Open
      <3>4. controller # NoStream /\ ~reconnect => controller \in Open
        BY DEF StrInv, ControllerIsCurrent, StrTypeOK, Open
      <3>5. (\E c \in Components : mounted[c] = "mounted") => Open # {} \/ reconnect
        BY <3>4 DEF StrInv, ControllerIsCurrent
      <3> QED
        BY <3>2, <3>3, <3>5 DEF OneConnection
    <2> QED
      BY <2>1, <2>2 DEF StreamsHold
  <1>4. StrInv => StrTypeOK
    BY DEF StrInv
  <1> QED
    BY <1>1, <1>2, <1>3, <1>4, PTL DEF StrSpec

(***************************************************************************)
(* The tabs of a browser.  As long as no tab wrote while events were on    *)
(* their way to it, the last event on its way to a tab is what             *)
(* localStorage holds, so that a tab with none left agrees with it.        *)
(***************************************************************************)
Asking == [kind : {"none", "login", "call", "change"}, token : Nat,
           state : {"none", "sent", "signed", "done", "401"}, new : Nat]
SessShapes ==
    /\ lapsed \in Nat /\ signed \in Nat /\ stored \in Nat /\ crossed \in BOOLEAN
    /\ memory \in [Tabs -> Nat] /\ heard \in [Tabs -> Seq(Nat)]
    /\ waiting \in [Tabs -> Asking]

Agrees(t) == memory[t] \in {0, stored} \/ (stored # 0 /\ IsTokenExpired(stored))
Follows(t) == IF heard[t] = <<>> THEN Agrees(t) ELSE heard[t][Len(heard[t])] = stored

SessInv == SessShapes /\ (~crossed => \A t \in Tabs : Follows(t))

(* The last of a sequence outlives its head, and follows what is appended. *)
LEMMA Lasts ==
    ASSUME NEW s \in Seq(Nat), NEW k \in Nat
    PROVE  /\ Append(s, k) \in Seq(Nat) /\ Append(s, k) # <<>>
           /\ Append(s, k)[Len(Append(s, k))] = k
           /\ s # <<>> => /\ Head(s) \in Nat /\ Tail(s) \in Seq(Nat)
                          /\ Tail(s) = <<>> => Head(s) = s[Len(s)]
                          /\ Tail(s) # <<>> => Tail(s)[Len(Tail(s))] = s[Len(s)]
  OBVIOUS

(* A tab that writes what it has in memory, or forgets, agrees with it,    *)
(* and all others are told.                                                *)
LEMMA StoreFollows ==
    ASSUME SessInv, NEW t \in Tabs, NEW k \in Nat, Store(t, k), UNCHANGED lapsed,
           NEW m \in {0, k}, memory' = [memory EXCEPT ![t] = m]
    PROVE  /\ stored' \in Nat /\ crossed' \in BOOLEAN /\ memory' \in [Tabs -> Nat]
           /\ heard' \in [Tabs -> Seq(Nat)]
           /\ ~crossed' => \A o \in Tabs : Follows(o)'
  <1>1. /\ stored' = k /\ crossed' = (crossed \/ heard[t] # <<>>)
        /\ heard' = [o \in Tabs |-> IF o = t THEN heard[o] ELSE Append(heard[o], k)]
    BY DEF Store
  <1>2. /\ stored' \in Nat /\ crossed' \in BOOLEAN /\ memory' \in [Tabs -> Nat]
        /\ heard' \in [Tabs -> Seq(Nat)] /\ memory'[t] = m
    BY <1>1 DEF SessInv, SessShapes
  <1>3. ASSUME ~crossed', NEW o \in Tabs
        PROVE  Follows(o)'
    <2>1. CASE o = t
      BY <1>1, <1>2, <1>3, <2>1 DEF Follows, Agrees
    <2>2. CASE o # t
      <3>1. heard[o] \in Seq(Nat) /\ heard'[o] = Append(heard[o], k)
        BY <1>1, <2>2 DEF SessInv, SessShapes
      <3> QED
        BY <1>1, <3>1, Lasts DEF Follows
    <2> QED
      BY <2>1, <2>2
  <1> QED
    BY <1>2, <1>3

(* So it is when a tab forgets its token and there may be none to remove.  *)
LEMMA RemoveFollows ==
    ASSUME SessInv, NEW t \in Tabs, RemoveItem(t), UNCHANGED lapsed,
           memory' = [memory EXCEPT ![t] = 0]
    PROVE  /\ stored' \in Nat /\ crossed' \in BOOLEAN /\ memory' \in [Tabs -> Nat]
           /\ heard' \in [Tabs -> Seq(Nat)]
           /\ ~crossed' => \A o \in Tabs : Follows(o)'
  <1>1. CASE stored # 0
    BY <1>1, StoreFollows DEF RemoveItem
  <1>2. CASE stored = 0
    <2>1. UNCHANGED stored /\ UNCHANGED heard /\ UNCHANGED crossed
      BY <1>2 DEF RemoveItem
    <2>2. \A o \in Tabs : memory'[o] \in {memory[o], 0}
      BY DEF SessInv, SessShapes
    <2>3. ~crossed => \A o \in Tabs : Follows(o)'
      BY <2>1, <2>2 DEF SessInv, Follows, Agrees, IsTokenExpired
    <2> QED
      BY <2>1, <2>3 DEF SessInv, SessShapes
  <1> QED
    BY <1>1, <1>2

(* Requests keep their shape.                                              *)
LEMMA AskingStays ==
    ASSUME SessShapes, SessNext
    PROVE  waiting' \in [Tabs -> Asking] /\ signed' \in Nat /\ lapsed' \in Nat
  <1> USE DEF SessShapes, server
  <1>0. Nothing \in Asking
    BY DEF Nothing, Asking
  <1>1. ASSUME NEW t \in Tabs, SignIn(t) \/ CallApi(t) \/ ChangeOwnPassword(t)
        PROVE  waiting' \in [Tabs -> Asking] /\ signed' \in Nat /\ lapsed' \in Nat
    <2>1. PICK kind \in {"login", "call", "change"} : Ask(t, kind)
      BY <1>1 DEF SignIn, CallApi, ChangeOwnPassword
    <2>2. [kind |-> kind, token |-> memory[t], state |-> "sent", new |-> 0] \in Asking
      BY DEF Asking
    <2> QED
      BY <1>1, <2>1, <2>2 DEF Ask, SignIn, CallApi, ChangeOwnPassword
  <1>2. ASSUME NEW t \in Tabs, Decide(t)
        PROVE  waiting' \in [Tabs -> Asking] /\ signed' \in Nat /\ lapsed' \in Nat
    <2>1. UNCHANGED lapsed /\ signed' \in {signed, signed + 1}
      BY <1>2 DEF Decide
    <2>2. ASSUME NEW state \in {"signed", "done", "401"}, NEW n \in Nat,
                 waiting' = [waiting EXCEPT ![t].state = state, ![t].new = n]
          PROVE  waiting' \in [Tabs -> Asking]
      <3> PICK x : x = [waiting[t] EXCEPT !.state = state, !.new = n]
        OBVIOUS
      <3>1. waiting[t] \in Asking
        OBVIOUS
      <3>2. x \in Asking
        BY <3>1 DEF Asking
      <3>3. waiting' = [waiting EXCEPT ![t] = x]
        BY <2>2
      <3> QED
        BY <3>2, <3>3
    <2>3. \/ waiting' = [waiting EXCEPT ![t].state = "signed", ![t].new = signed + 1]
          \/ waiting' = [waiting EXCEPT ![t].state = "done", ![t].new = 0]
          \/ waiting' = [waiting EXCEPT ![t].state = "401", ![t].new = 0]
      BY <1>2, Zenon DEF Decide
    <2>4. waiting' \in [Tabs -> Asking]
      <3> PICK n \in Nat : n = signed + 1
        OBVIOUS
      <3>1. CASE waiting' = [waiting EXCEPT ![t].state = "signed", ![t].new = signed + 1]
        <4>1. waiting' = [waiting EXCEPT ![t].state = "signed", ![t].new = n]
          BY <3>1, Zenon
        <4> QED
          BY <2>2, <4>1
      <3> QED
        BY <2>2, <2>3, <3>1
    <2> QED
      BY <2>1, <2>4
  <1>3. ASSUME NEW t \in Tabs, Receive(t) \/ Reload(t)
        PROVE  waiting' \in [Tabs -> Asking] /\ signed' \in Nat /\ lapsed' \in Nat
    BY <1>0, <1>3 DEF Receive, Reload
  <1>4. ASSUME NEW t \in Tabs,
               SignOut(t) \/ PersistUser(t) \/ Hydrate(t) \/ BecomeVisible(t) \/ HearStorage(t)
        PROVE  waiting' \in [Tabs -> Asking] /\ signed' \in Nat /\ lapsed' \in Nat
    BY <1>4, Zenon DEF SignOut, PersistUser, Hydrate, BecomeVisible, HearStorage
  <1>5. CASE Expire
    BY <1>5 DEF Expire
  <1> QED
    BY <1>1, <1>2, <1>3, <1>4, <1>5 DEF SessNext

(* A storage event brings a tab up to date with what it is about.          *)
LEMMA HearingFollows ==
    ASSUME SessInv, NEW t \in Tabs, HearStorage(t)
    PROVE  /\ stored' \in Nat /\ crossed' \in BOOLEAN /\ memory' \in [Tabs -> Nat]
           /\ heard' \in [Tabs -> Seq(Nat)]
           /\ ~crossed' => \A o \in Tabs : Follows(o)'
  <1> PICK s \in Seq(Nat), k \in Nat : s = heard[t] /\ s # <<>> /\ k = Head(s)
    <2>1. heard[t] \in Seq(Nat) /\ heard[t] # <<>>
      BY DEF HearStorage, SessInv, SessShapes
    <2> QED
      BY <2>1
  <1>0. /\ Tail(s) \in Seq(Nat) /\ UNCHANGED lapsed
        /\ Tail(s) = <<>> => k = s[Len(s)]
        /\ Tail(s) # <<>> => Tail(s)[Len(Tail(s))] = s[Len(s)]
    BY Lasts DEF HearStorage, server
  <1>1. ASSUME NEW m \in Nat, memory' = [memory EXCEPT ![t] = m],
               heard' = [heard EXCEPT ![t] = Tail(s)], UNCHANGED stored, UNCHANGED crossed,
               m \in {0, k} \/ (k # 0 /\ IsTokenExpired(k))
        PROVE  /\ stored' \in Nat /\ crossed' \in BOOLEAN /\ memory' \in [Tabs -> Nat]
               /\ heard' \in [Tabs -> Seq(Nat)]
               /\ ~crossed' => \A o \in Tabs : Follows(o)'
    <2>1. /\ stored' \in Nat /\ crossed' \in BOOLEAN /\ memory' \in [Tabs -> Nat]
          /\ heard' \in [Tabs -> Seq(Nat)]
          /\ heard'[t] = Tail(s) /\ memory'[t] = m
          /\ \A o \in Tabs : o # t => heard'[o] = heard[o] /\ memory'[o] = memory[o]
      BY <1>0, <1>1 DEF SessInv, SessShapes
    <2>2. ASSUME ~crossed', NEW o \in Tabs
          PROVE  Follows(o)'
      <3>1. Follows(o)
        BY <1>1, <2>2 DEF SessInv
      <3>2. CASE o # t
        BY <1>0, <1>1, <2>1, <3>1, <3>2 DEF Follows, Agrees, IsTokenExpired
      <3>3. CASE o = t
        <4>1. s[Len(s)] = stored
          BY <3>1, <3>3 DEF Follows
        <4> QED
          BY <1>0, <1>1, <2>1, <3>3, <4>1 DEF Follows, Agrees, IsTokenExpired
      <3> QED
        BY <3>2, <3>3
    <2> QED
      BY <2>1, <2>2
  <1>2. CASE k # 0
    <2>1. /\ memory' = IF IsTokenExpired(k) THEN memory ELSE [memory EXCEPT ![t] = k]
          /\ heard' = [heard EXCEPT ![t] = Tail(s)] /\ UNCHANGED stored /\ UNCHANGED crossed
      BY <1>2 DEF HearStorage
    <2>2. memory = [memory EXCEPT ![t] = memory[t]] /\ memory[t] \in Nat
      BY DEF SessInv, SessShapes
    <2> QED
      BY <1>1, <1>2, <2>1, <2>2
  <1>3. CASE k = 0 /\ ~(memory[t] # 0 /\ stored # 0)
    BY <1>1, <1>3 DEF HearStorage
  <1>4. CASE k = 0 /\ memory[t] # 0 /\ stored # 0
    <2>1. /\ memory' = [memory EXCEPT ![t] = 0] /\ stored' = 0
          /\ heard' = [o \in Tabs |-> IF o = t THEN Tail(s) ELSE Append(heard[o], 0)]
          /\ crossed' = (crossed \/ Tail(s) # <<>>)
      BY <1>4 DEF HearStorage
    <2>2. /\ stored' \in Nat /\ crossed' \in BOOLEAN /\ memory' \in [Tabs -> Nat]
          /\ heard' \in [Tabs -> Seq(Nat)] /\ memory'[t] = 0
      BY <1>0, <2>1 DEF SessInv, SessShapes
    <2>3. ASSUME ~crossed', NEW o \in Tabs
          PROVE  Follows(o)'
      <3>1. CASE o = t
        BY <2>1, <2>2, <2>3, <3>1 DEF Follows, Agrees
      <3>2. CASE o # t
        <4> PICK h \in Seq(Nat) : h = heard[o] /\ heard'[o] = Append(h, 0)
          BY <2>1, <3>2 DEF SessInv, SessShapes
        <4>1. Append(h, 0) # <<>> /\ Append(h, 0)[Len(Append(h, 0))] = 0
          BY Lasts
        <4> QED
          BY <2>1, <4>1 DEF Follows
      <3> QED
        BY <3>1, <3>2
    <2> QED
      BY <2>2, <2>3
  <1> QED
    BY <1>2, <1>3, <1>4

(* No token is named before it is signed, and no tab waits for more events *)
(* than it may.                                                            *)
Within(s, n) == Len(s) <= MaxEvents /\ \A i \in 1 .. Len(s) : s[i] <= n
TabsKnow(n) ==
    /\ stored <= n
    /\ \A t \in Tabs : memory[t] <= n /\ Within(heard[t], n)
SessBounds ==
    /\ signed <= MaxTokens /\ lapsed <= signed /\ dead \subseteq SessTokens
    /\ \A t \in Tabs : waiting[t].new <= signed
    /\ TabsKnow(signed)

(* What bounds the events of a tab: the next one, those after it, and one  *)
(* more for which there is room.                                           *)
LEMMA WithinStays ==
    ASSUME NEW s \in Seq(Nat), NEW n \in Nat, Within(s, n)
    PROVE  /\ s # <<>> => Head(s) <= n /\ Within(Tail(s), n)
           /\ Within(<<>>, n) /\ \A m \in Nat : n <= m => Within(s, m)
           /\ \A k \in Nat : k <= n /\ Len(s) < MaxEvents => Within(Append(s, k), n)
  <1>1. Len(s) \in Nat /\ \A i \in 1 .. Len(s) : s[i] \in Nat
    OBVIOUS
  <1>2. s # <<>> => Head(s) <= n /\ Within(Tail(s), n)
    BY WebSessionAssumption DEF Within
  <1>3. Within(<<>>, n)
    BY WebSessionAssumption DEF Within
  <1>4. \A m \in Nat : n <= m => Within(s, m)
    BY <1>1 DEF Within
  <1>5. ASSUME NEW k \in Nat, k <= n, Len(s) < MaxEvents
        PROVE  Within(Append(s, k), n)
    BY <1>5, WebSessionAssumption DEF Within
  <1> QED
    BY <1>2, <1>3, <1>4, <1>5

(* A tab that stores a token, or removes it, tells the others of no other. *)
LEMMA StoreRemembers ==
    ASSUME SessShapes, SessBounds, NEW t \in Tabs, NEW k \in Nat, k <= signed,
           Store(t, k) \/ (k = 0 /\ RemoveItem(t))
    PROVE  stored' <= signed /\ \A o \in Tabs : Within(heard'[o], signed)
  <1>1. CASE UNCHANGED <<stored, heard>>
    BY <1>1 DEF SessBounds, TabsKnow
  <1>2. CASE Store(t, k)
    <2>1. ASSUME NEW o \in Tabs
          PROVE  Within(heard'[o], signed)
      <3>1. heard[o] \in Seq(Nat) /\ Within(heard[o], signed) /\ signed \in Nat
        BY DEF SessShapes, SessBounds, TabsKnow
      <3>2. CASE o = t
        BY <1>2, <3>1, <3>2 DEF Store
      <3>3. CASE o # t
        <4>1. heard'[o] = Append(heard[o], k) /\ Len(heard[o]) < MaxEvents
          BY <1>2, <3>3 DEF Store
        <4> QED
          BY <3>1, <4>1, WithinStays
      <3> QED
        BY <3>2, <3>3
    <2>2. stored' <= signed
      BY <1>2 DEF Store
    <2> QED
      BY <2>1, <2>2
  <1> QED
    BY <1>1, <1>2 DEF RemoveItem

(* What a tab does with the session leaves the bounds of what it knows.    *)
LEMMA TabRemembers ==
    ASSUME SessShapes, SessBounds, NEW t \in Tabs,
           \/ Receive(t) \/ SignOut(t) \/ PersistUser(t) \/ Hydrate(t) \/ BecomeVisible(t)
           \/ HearStorage(t) \/ Reload(t)
    PROVE  TabsKnow(signed)'
  <1>0. /\ signed \in Nat /\ UNCHANGED signed /\ stored \in Nat
        /\ \A o \in Tabs : /\ memory[o] \in Nat /\ memory[o] <= signed
                           /\ heard[o] \in Seq(Nat) /\ Within(heard[o], signed)
    BY DEF SessShapes, SessBounds, TabsKnow, Receive, SignOut, PersistUser, Hydrate, BecomeVisible,
           HearStorage, Reload, server
  <1>1. ASSUME NEW k \in Nat, k <= signed, memory' = [memory EXCEPT ![t] = k] \/ UNCHANGED memory,
               stored' <= signed, \A o \in Tabs : Within(heard'[o], signed)
        PROVE  TabsKnow(signed)'
    BY <1>0, <1>1 DEF TabsKnow, SessShapes
  <1>2. ASSUME ForceLogout(t)
        PROVE  TabsKnow(signed)'
    <2>1. 0 \in Nat /\ 0 <= signed
      BY <1>0
    <2> QED
      BY <1>1, <1>2, <2>1, StoreRemembers DEF ForceLogout
  <1>3. ASSUME UNCHANGED <<stored, heard>>, UNCHANGED memory \/ memory' = [memory EXCEPT ![t] = stored]
        PROVE  TabsKnow(signed)'
    <2>1. stored <= signed /\ \A o \in Tabs : Within(heard[o], signed)
      BY DEF SessBounds, TabsKnow
    <2> QED
      BY <1>0, <1>1, <1>3, <2>1
  <1>4. CASE Receive(t)
    <2>1. waiting[t].new \in Nat /\ waiting[t].new <= signed
      BY DEF SessShapes, Asking, SessBounds
    <2>2. CASE SetToken(t, waiting[t].new)
      BY <1>1, <2>1, <2>2, StoreRemembers DEF SetToken
    <2>3. SetToken(t, waiting[t].new) \/ ForceLogout(t) \/ UNCHANGED <<stored, memory, heard>>
      BY <1>4 DEF Receive
    <2> QED
      BY <1>2, <1>3, <2>2, <2>3
  <1>5. CASE SignOut(t) \/ BecomeVisible(t)
    BY <1>2, <1>5 DEF SignOut, BecomeVisible
  <1>6. CASE PersistUser(t)
    <2>1. Store(t, memory[t]) /\ UNCHANGED memory
      BY <1>6 DEF PersistUser
    <2> QED
      BY <1>0, <1>1, <2>1, StoreRemembers
  <1>7. CASE Hydrate(t)
    <2>1. CASE IsTokenExpired(stored)
      <3>1. RemoveItem(t) /\ UNCHANGED memory /\ 0 \in Nat /\ 0 <= signed
        BY <1>0, <1>7, <2>1 DEF Hydrate
      <3> QED
        BY <1>1, <3>1, StoreRemembers
    <2>2. CASE ~IsTokenExpired(stored)
      BY <1>3, <1>7, <2>2 DEF Hydrate
    <2> QED
      BY <2>1, <2>2
  <1>8. CASE HearStorage(t)
    <2> PICK k \in Nat : k = Head(heard[t]) /\ k <= signed /\ Within(Tail(heard[t]), signed)
      BY <1>0, <1>8, WithinStays DEF HearStorage
    <2>1. UNCHANGED memory \/ memory' = [memory EXCEPT ![t] = k] \/ memory' = [memory EXCEPT ![t] = 0]
      BY <1>8 DEF HearStorage
    <2>2. CASE heard' = [heard EXCEPT ![t] = Tail(@)] /\ UNCHANGED stored
      <3>1. stored' <= signed /\ \A o \in Tabs : Within(heard'[o], signed)
        BY <1>0, <2>2 DEF SessShapes, SessBounds, TabsKnow
      <3>2. 0 \in Nat /\ 0 <= signed
        BY <1>0
      <3> QED
        BY <1>1, <2>1, <3>1, <3>2
    <2>3. CASE /\ \A o \in Tabs \ {t} : Len(heard[o]) < MaxEvents
               /\ stored' = 0
               /\ heard' = [o \in Tabs |-> IF o = t THEN Tail(heard[t]) ELSE Append(heard[o], 0)]
      <3>1. 0 \in Nat /\ 0 <= signed
        BY <1>0
      <3>2. \A o \in Tabs : Within(heard'[o], signed)
        <4>1. ASSUME NEW o \in Tabs, o # t
              PROVE  Within(Append(heard[o], 0), signed)
          BY <1>0, <2>3, <3>1, <4>1, WithinStays
        <4> QED
          BY <2>3, <4>1
      <3> QED
        BY <1>1, <2>1, <2>3, <3>1, <3>2
    <2> QED
      BY <1>8, <2>2, <2>3 DEF HearStorage
  <1>9. CASE Reload(t)
    <2>1. memory' = [memory EXCEPT ![t] = 0] /\ heard' = [heard EXCEPT ![t] = <<>>] /\ UNCHANGED stored
      BY <1>9 DEF Reload
    <2>2. 0 \in Nat /\ 0 <= signed /\ Within(<<>>, signed)
      BY <1>0, WithinStays
    <2>3. stored' <= signed /\ \A o \in Tabs : Within(heard'[o], signed)
      BY <1>0, <2>1, <2>2 DEF SessShapes, SessBounds, TabsKnow
    <2> QED
      BY <1>1, <2>1, <2>2, <2>3
  <1> QED
    BY <1>4, <1>5, <1>6, <1>7, <1>8, <1>9

(* Every step keeps the bounds.                                            *)
LEMMA SessBoundsStay ==
    ASSUME SessShapes, SessBounds, [SessNext]_sessVars
    PROVE  SessBounds'
  <1>0. /\ signed \in Nat /\ lapsed \in Nat /\ signed <= MaxTokens /\ lapsed <= signed
        /\ dead \subseteq SessTokens /\ TabsKnow(signed)
        /\ \A t \in Tabs : waiting[t] \in Asking /\ waiting[t].new \in Nat /\ waiting[t].new <= signed
    BY DEF SessShapes, SessBounds, Asking
  <1>1. \A o \in Tabs : memory[o] \in Nat /\ memory[o] <= signed
    BY <1>0 DEF SessShapes, TabsKnow
  <1>2. CASE UNCHANGED sessVars
    BY <1>0, <1>2 DEF sessVars, SessBounds, TabsKnow, Within
  <1>3. CASE Expire
    <2>1. UNCHANGED <<signed, dead, stored, memory, heard, waiting>> /\ lapsed' <= signed
      BY <1>0, <1>3 DEF Expire
    <2> QED
      BY <1>0, <2>1 DEF SessBounds, TabsKnow, Within
  <1>4. ASSUME NEW t \in Tabs, SignIn(t) \/ CallApi(t) \/ ChangeOwnPassword(t)
        PROVE  SessBounds'
    <2>1. PICK kind \in {"login", "call", "change"} : Ask(t, kind)
      BY <1>4 DEF SignIn, CallApi, ChangeOwnPassword
    <2>2. UNCHANGED <<signed, lapsed, dead, stored, memory, heard>>
      BY <1>4 DEF SignIn, CallApi, ChangeOwnPassword, server
    <2>3. \A o \in Tabs : waiting'[o].new <= signed
      BY <1>0, <2>1 DEF Ask, SessShapes
    <2> QED
      BY <1>0, <2>2, <2>3 DEF SessBounds, TabsKnow, Within
  <1>5. ASSUME NEW t \in Tabs, Decide(t)
        PROVE  SessBounds'
    <2>1. UNCHANGED <<lapsed, stored, memory, heard>>
      BY <1>5 DEF Decide
    <2>2. PICK n \in Nat, state \in {"signed", "done", "401"} :
              /\ waiting' = [waiting EXCEPT ![t].state = state, ![t].new = n]
              /\ \/ /\ signed < MaxTokens /\ signed' = signed + 1 /\ n = signed + 1
                    /\ dead' \in {dead, 1 .. signed}
                 \/ n = 0 /\ UNCHANGED <<signed, dead>>
      <3> DEFINE Says(state, n) == waiting' = [waiting EXCEPT ![t].state = state, ![t].new = n]
      <3>1. \/ /\ signed < MaxTokens /\ signed' = signed + 1
               /\ dead' = dead \/ dead' = 1 .. signed
               /\ Says("signed", signed + 1)
            \/ UNCHANGED <<signed, dead>> /\ (Says("done", 0) \/ Says("401", 0))
        BY <1>5, Zenon DEF Decide
      <3>2. signed + 1 \in Nat /\ 0 \in Nat
        BY <1>0
      <3> HIDE DEF Says
      <3>3. CASE /\ signed < MaxTokens /\ signed' = signed + 1
                 /\ dead' = dead \/ dead' = 1 .. signed
                 /\ Says("signed", signed + 1)
        <4> PICK n \in Nat : n = signed + 1
          BY <3>2
        <4> WITNESS n \in Nat, "signed" \in {"signed", "done", "401"}
        <4> QED
          BY <3>3 DEF Says
      <3>4. CASE UNCHANGED <<signed, dead>> /\ Says("done", 0)
        <4> WITNESS 0 \in Nat, "done" \in {"signed", "done", "401"}
        <4> QED
          BY <3>4 DEF Says
      <3>5. CASE UNCHANGED <<signed, dead>> /\ Says("401", 0)
        <4> WITNESS 0 \in Nat, "401" \in {"signed", "done", "401"}
        <4> QED
          BY <3>5 DEF Says
      <3> QED
        BY <3>1, <3>3, <3>4, <3>5
    <2>3. /\ signed' \in Nat /\ signed <= signed' /\ signed' <= MaxTokens /\ n <= signed'
          /\ dead' \subseteq SessTokens
      BY <1>0, <2>2, WebSessionAssumption DEF SessTokens
    <2>4. \A o \in Tabs : waiting'[o].new <= signed'
      BY <1>0, <2>2, <2>3 DEF SessShapes, Asking
    <2>5. \A o \in Tabs : Within(heard[o], signed')
      BY <1>0, <2>3, WithinStays DEF SessShapes, TabsKnow
    <2>6. stored <= signed' /\ \A o \in Tabs : memory[o] <= signed'
      BY <1>0, <1>1, <2>3 DEF TabsKnow, SessShapes
    <2>7. TabsKnow(signed)'
      BY <2>1, <2>5, <2>6 DEF TabsKnow, Within
    <2> QED
      BY <1>0, <2>1, <2>3, <2>4, <2>7 DEF SessBounds
  <1>6. ASSUME NEW t \in Tabs,
               \/ Receive(t) \/ SignOut(t) \/ PersistUser(t) \/ Hydrate(t) \/ BecomeVisible(t)
               \/ HearStorage(t) \/ Reload(t)
        PROVE  SessBounds'
    <2>1. UNCHANGED <<signed, lapsed>> /\ waiting' \in {waiting, [waiting EXCEPT ![t] = Nothing]}
          /\ dead' \in {dead, dead \cup {memory[t]}} /\ (dead' = dead \/ memory[t] # 0)
      BY <1>6 DEF Receive, SignOut, PersistUser, Hydrate, BecomeVisible, HearStorage, Reload, server
    <2>2. dead' \subseteq SessTokens
      <3>1. memory[t] # 0 => memory[t] \in SessTokens
        BY <1>0, <1>1, WebSessionAssumption DEF SessTokens
      <3> QED
        BY <1>0, <2>1, <3>1
    <2>3. \A o \in Tabs : waiting'[o].new <= signed
      <3>1. Nothing.new = 0
        BY DEF Nothing
      <3>2. CASE waiting' = waiting
        BY <1>0, <3>2
      <3>3. CASE waiting' = [waiting EXCEPT ![t] = Nothing]
        BY <1>0, <3>1, <3>3 DEF SessShapes
      <3> QED
        BY <2>1, <3>2, <3>3
    <2> QED
      BY <1>0, <1>6, <2>1, <2>2, <2>3, TabRemembers DEF SessBounds
  <1> QED
    BY <1>2, <1>3, <1>4, <1>5, <1>6 DEF SessNext

(* Tabs that have heard everything agree with localStorage on the session, *)
(* for any number of tabs, tokens and events on their way, requests that   *)
(* are answered late, expiries, reloads and changes of the password,       *)
(* unless a tab wrote before it had heard of another's change              *)
(* (useAuth.ts:92).                                                        *)
THEOREM TabsHearOfEachOther == SessSpec => [](SessTypeOK /\ TabsAgree)
  <1>1. SessInit => SessInv
    <2> SUFFICES ASSUME SessInit
                 PROVE  SessInv
      OBVIOUS
    <2>1. Nothing \in Asking
      BY DEF Nothing, Asking
    <2>2. heard \in [Tabs -> Seq(Nat)]
      BY DEF SessInit
    <2>3. SessShapes
      BY <2>1, <2>2 DEF SessInit, SessShapes
    <2>4. \A t \in Tabs : Follows(t)
      BY DEF SessInit, Follows, Agrees
    <2> QED
      BY <2>3, <2>4 DEF SessInv
  <1>2. SessInv /\ [SessNext]_sessVars => SessInv'
    <2> SUFFICES ASSUME SessInv, [SessNext]_sessVars
                 PROVE  SessInv'
      OBVIOUS
    <2> DEFINE Kept == /\ stored' \in Nat /\ crossed' \in BOOLEAN /\ memory' \in [Tabs -> Nat]
                       /\ heard' \in [Tabs -> Seq(Nat)]
                       /\ ~crossed' => \A o \in Tabs : Follows(o)'
    <2>1. CASE UNCHANGED sessVars
      BY <2>1 DEF sessVars, SessInv, SessShapes, Follows, Agrees, IsTokenExpired
    <2>2. CASE SessNext
      <3>1. waiting' \in [Tabs -> Asking] /\ signed' \in Nat /\ lapsed' \in Nat
        BY <2>2, AskingStays DEF SessInv
      <3>2. ASSUME NEW t \in Tabs, RemoveItem(t), memory' = [memory EXCEPT ![t] = 0],
                   UNCHANGED lapsed
            PROVE  Kept
        BY <3>2, RemoveFollows
      <3>3. ASSUME UNCHANGED stored, UNCHANGED memory, UNCHANGED heard, UNCHANGED crossed,
                   lapsed' \in Nat, lapsed <= lapsed'
            PROVE  Kept
        BY <3>3 DEF SessInv, SessShapes, Follows, Agrees, IsTokenExpired
      <3>4. ASSUME NEW t \in Tabs, SignIn(t) \/ CallApi(t) \/ ChangeOwnPassword(t) \/ Decide(t)
            PROVE  Kept
        <4>1. UNCHANGED stored /\ UNCHANGED memory /\ UNCHANGED heard /\ UNCHANGED crossed
              /\ UNCHANGED lapsed
          BY <3>4, Zenon DEF SignIn, CallApi, ChangeOwnPassword, Decide, server
        <4> QED
          BY <3>3, <4>1 DEF SessInv, SessShapes
      <3>5. ASSUME NEW t \in Tabs, Receive(t)
            PROVE  Kept
        <4>1. UNCHANGED lapsed /\ waiting[t].new \in Nat
          BY <3>5 DEF Receive, server, SessInv, SessShapes, Asking
        <4> PICK k \in Nat : k = waiting[t].new
          BY <4>1
        <4>2. CASE SetToken(t, k)
          BY <4>1, <4>2, StoreFollows DEF SetToken
        <4>3. CASE ForceLogout(t)
          BY <3>2, <4>1, <4>3 DEF ForceLogout
        <4>4. CASE UNCHANGED <<stored, memory, heard, crossed>>
          BY <3>3, <4>1, <4>4 DEF SessInv, SessShapes
        <4>5. waiting[t].state \in {"signed", "done", "401"}
          BY <3>5 DEF Receive
        <4> QED
          BY <3>5, <4>2, <4>3, <4>4, <4>5 DEF Receive
      <3>6. ASSUME NEW t \in Tabs, SignOut(t) \/ BecomeVisible(t)
            PROVE  Kept
        BY <3>2, <3>6 DEF SignOut, BecomeVisible, ForceLogout, server
      <3>7. ASSUME NEW t \in Tabs, PersistUser(t)
            PROVE  Kept
        <4> PICK k \in Nat : k = memory[t]
          BY DEF SessInv, SessShapes
        <4>1. memory' = [memory EXCEPT ![t] = k] /\ Store(t, k) /\ UNCHANGED lapsed
          BY <3>7 DEF PersistUser, server, SessInv, SessShapes
        <4> QED
          BY <4>1, StoreFollows
      <3>8. ASSUME NEW t \in Tabs, Hydrate(t)
            PROVE  Kept
        <4>1. CASE IsTokenExpired(stored)
          <5>1. memory' = [memory EXCEPT ![t] = 0] /\ RemoveItem(t) /\ UNCHANGED lapsed
            BY <3>8, <4>1 DEF Hydrate, server, SessInv, SessShapes
          <5> QED
            BY <3>2, <5>1
        <4>2. CASE ~IsTokenExpired(stored)
          <5>1. /\ memory' = [memory EXCEPT ![t] = stored] /\ UNCHANGED stored
                /\ UNCHANGED heard /\ UNCHANGED crossed /\ UNCHANGED lapsed
            BY <3>8, <4>2 DEF Hydrate, server
          <5>2. \A o \in Tabs : memory'[o] \in {memory[o], stored}
            BY <5>1 DEF SessInv, SessShapes
          <5> QED
            BY <5>1, <5>2 DEF SessInv, SessShapes, Follows, Agrees, IsTokenExpired
        <4> QED
          BY <4>1, <4>2
      <3>9. ASSUME NEW t \in Tabs, HearStorage(t)
            PROVE  Kept
        BY <3>9, HearingFollows
      <3>10. ASSUME NEW t \in Tabs, Reload(t)
             PROVE  Kept
        <4>1. /\ memory' = [memory EXCEPT ![t] = 0] /\ heard' = [heard EXCEPT ![t] = <<>>]
              /\ UNCHANGED stored /\ UNCHANGED crossed /\ UNCHANGED lapsed
          BY <3>10 DEF Reload, server
        <4>2. /\ memory' \in [Tabs -> Nat] /\ heard' \in [Tabs -> Seq(Nat)]
              /\ memory'[t] = 0 /\ heard'[t] = <<>>
              /\ \A o \in Tabs : o # t => memory'[o] = memory[o] /\ heard'[o] = heard[o]
          BY <4>1 DEF SessInv, SessShapes
        <4>3. ~crossed' => \A o \in Tabs : Follows(o)'
          BY <4>1, <4>2 DEF SessInv, Follows, Agrees, IsTokenExpired
        <4> QED
          BY <4>1, <4>2, <4>3 DEF SessInv, SessShapes
      <3>11. ASSUME Expire
             PROVE  Kept
        <4>1. UNCHANGED stored /\ UNCHANGED memory /\ UNCHANGED heard /\ UNCHANGED crossed
              /\ lapsed' \in Nat /\ lapsed <= lapsed'
          BY <3>11 DEF Expire, SessInv, SessShapes
        <4> HIDE DEF Kept
        <4> QED
          BY <3>3, <4>1
      <3>12. Kept
        <4> HIDE DEF Kept
        <4> QED
          BY <2>2, <3>4, <3>5, <3>6, <3>7, <3>8, <3>9, <3>10, <3>11 DEF SessNext
      <3> QED
        BY <3>1, <3>12 DEF SessInv, SessShapes
    <2> QED
      BY <2>1, <2>2
  <1>3. SessInv => TabsAgree
    BY DEF SessInv, Follows, Agrees, TabsAgree
  <1>4. SessInit => SessBounds
    <2> SUFFICES ASSUME SessInit
                 PROVE  SessBounds
      OBVIOUS
    <2>1. Within(<<>>, 0) /\ 0 <= MaxTokens
      BY WebSessionAssumption DEF Within
    <2>2. TabsKnow(signed)
      BY <2>1 DEF SessInit, TabsKnow
    <2>3. \A t \in Tabs : waiting[t].new <= signed
      BY DEF SessInit, Nothing
    <2> QED
      BY <2>1, <2>2, <2>3 DEF SessInit, SessBounds
  <1>5. SessInv /\ SessBounds /\ [SessNext]_sessVars => SessBounds'
    BY SessBoundsStay DEF SessInv
  <1>6. SessInv /\ SessBounds => SessTypeOK
    <2> SUFFICES ASSUME SessShapes, SessBounds
                 PROVE  SessTypeOK
      BY DEF SessInv
    <2>1. signed \in 0 .. MaxTokens /\ lapsed \in 0 .. signed /\ stored \in 0 .. signed
      BY WebSessionAssumption DEF SessShapes, SessBounds, TabsKnow
    <2>2. memory \in [Tabs -> 0 .. signed]
      BY DEF SessShapes, SessBounds, TabsKnow
    <2>3. ASSUME NEW t \in Tabs
          PROVE  heard[t] \in Seq(0 .. signed) /\ Len(heard[t]) <= MaxEvents
      <3>1. heard[t] \in Seq(Nat) /\ Within(heard[t], signed)
        BY DEF SessShapes, SessBounds, TabsKnow
      <3>2. heard[t] \in [1 .. Len(heard[t]) -> Nat] /\ Len(heard[t]) \in Nat
        BY <3>1, LenProperties
      <3>3. \A i \in 1 .. Len(heard[t]) : heard[t][i] \in 0 .. signed
        BY <3>1, <3>2 DEF SessShapes, Within
      <3> DEFINE Signs == 0 .. signed
      <3>4. heard[t] \in [1 .. Len(heard[t]) -> Signs]
        BY <3>2, <3>3
      <3>5. PICK n \in Nat : heard[t] \in [1 .. n -> Signs]
        BY <3>2, <3>4
      <3>6. heard[t] \in Seq(Signs)
        <4> HIDE DEF Signs
        <4> QED  BY <3>5, SeqDef
      <3> QED
        BY <3>1, <3>6 DEF Within
    <2>4. \A t \in Tabs : waiting[t].kind \in {"none", "login", "call", "change"}
      BY DEF SessShapes, Asking
    <2> QED
      BY <2>1, <2>2, <2>3, <2>4 DEF SessShapes, SessBounds, SessTypeOK
  <1> QED
    BY <1>1, <1>2, <1>3, <1>4, <1>5, <1>6, PTL DEF SessSpec

(* What is left of a sequence when one element is removed.                 *)
LEMMA Removed ==
    ASSUME NEW S, NEW s \in Seq(S), NEW i \in DOMAIN s
    PROVE  /\ RemoveAt(s, i) \in Seq(S)
           /\ Len(RemoveAt(s, i)) = Len(s) - 1
           /\ \A k \in 1 .. Len(s) - 1 :
                 RemoveAt(s, i)[k] = IF k < i THEN s[k] ELSE s[k + 1]
  <1>1. i \in 1 .. Len(s) /\ Len(s) \in Nat
    OBVIOUS
  <1> DEFINE a == SubSeq(s, 1, i - 1)
             b == SubSeq(s, i + 1, Len(s))
  <1>2. a \in Seq(S) /\ Len(a) = i - 1
    BY <1>1
  <1>3. b \in Seq(S) /\ Len(b) = Len(s) - i
    BY <1>1
  <1>4. \A k \in 1 .. i - 1 : a[k] = s[k]
    BY <1>1
  <1>5. \A k \in 1 .. Len(s) - i : b[k] = s[k + i]
    BY <1>1
  <1>6. RemoveAt(s, i) = a \o b
    BY DEF RemoveAt
  <1> HIDE DEF a, b
  <1>7. /\ a \o b \in Seq(S) /\ Len(a \o b) = Len(a) + Len(b)
        /\ \A k \in 1 .. Len(a) + Len(b) : (a \o b)[k] = IF k <= Len(a) THEN a[k] ELSE b[k - Len(a)]
    BY <1>2, <1>3, ConcatProperties
  <1>8. Len(a) + Len(b) = Len(s) - 1
    BY <1>1, <1>2, <1>3
  <1>9. ASSUME NEW k \in 1 .. Len(s) - 1
        PROVE  (a \o b)[k] = IF k < i THEN s[k] ELSE s[k + 1]
    <2>1. CASE k < i
      <3>1. k \in 1 .. i - 1 /\ k <= Len(a)
        BY <2>1, <1>1, <1>2
      <3>2. (a \o b)[k] = a[k] /\ a[k] = s[k]
        BY <3>1, <1>4, <1>7, <1>8
      <3> QED
        BY <3>2, <2>1
    <2>2. CASE ~(k < i)
      <3>1. PICK m \in 1 .. Len(s) - i : m = k - Len(a)
        BY <2>2, <1>1, <1>2
      <3>2. m + i = k + 1 /\ ~(k <= Len(a))
        BY <3>1, <1>1, <1>2, <2>2
      <3>3. b[m] = s[k + 1]
        BY <3>2, <1>5
      <3>4. (a \o b)[k] = b[m]
        BY <3>1, <3>2, <1>7, <1>8
      <3> QED
        BY <3>3, <3>4, <2>2
    <2> QED
      BY <2>1, <2>2
  <1> QED
    BY <1>6, <1>7, <1>8, <1>9

(***************************************************************************)
(* The message list.  A request under way is for the page the user is on   *)
(* and, unless a search is still to be made, for the filter; a list that   *)
(* is not loading was asked for them too.  What is selected is on screen,  *)
(* or was selected as all that the filter finds.                           *)
(***************************************************************************)
ListRequest == [filter : FilterNames, page : Nat, stepBack : BOOLEAN]
ListShapes == filter \in FilterNames /\ page \in Nat \ {0} /\ fetch \in ListRequest

ListCurrent == fetch # NoFetch => fetch.page = page /\ (searchTimer \/ fetch.filter = filter)
RowsFound == rows \subseteq Matching(shownFor.filter)
ShowsAsked == Settled => shownFor.filter = filter /\ shownFor.page = page
Selects == Settled \/ (allMatching /\ ~searchTimer) =>
             overtaken \/ selected \subseteq Matching(filter)

ListInv == ListShapes /\ ListCurrent /\ RowsFound /\ ShowsAsked /\ Selects

(* A page of what a filter finds holds nothing else.                       *)
LEMMA PageFound == \A f, p : PageOf(f, p) \subseteq Matching(f)
  BY DEF PageOf, Listed

(* A new request is for the filter and page that go with it.               *)
LEMMA LoadIsCurrent ==
    ASSUME NEW silent \in BOOLEAN, NEW stepBack \in BOOLEAN,
           filter' \in FilterNames, page' \in Nat \ {0}, Load(filter', page', silent, stepBack)
    PROVE  /\ ListShapes' /\ ListCurrent'
           /\ UNCHANGED <<rows, shownFor>>
           /\ ~silent => pending'
           /\ silent => pending' = (pending \/ FALSE) /\ fetchError' = (fetchError /\ TRUE)
  <1>1. fetch' = [filter |-> filter', page |-> page', stepBack |-> stepBack]
    BY DEF Load
  <1>2. fetch' \in ListRequest /\ fetch'.filter = filter' /\ fetch'.page = page'
    BY <1>1 DEF ListRequest
  <1> QED
    BY <1>2 DEF Load, ListShapes, ListCurrent

(* A list that loads anew need not show anything yet; its selection was    *)
(* cleared, or stays as it was for the same filter.                        *)
LEMMA LoadHolds ==
    ASSUME ListInv, NEW stepBack \in BOOLEAN,
           filter' \in FilterNames, page' \in Nat \ {0}, Load(filter', page', FALSE, stepBack),
           \/ ClearSelection
           \/ UNCHANGED <<selVars, filter, searchTimer>>
    PROVE  ListInv'
  <1>1. ListShapes' /\ ListCurrent' /\ UNCHANGED <<rows, shownFor>> /\ pending'
    BY LoadIsCurrent
  <1>2. RowsFound' /\ ShowsAsked'
    BY <1>1 DEF ListInv, RowsFound, ShowsAsked, Settled, Matching
  <1>3. Selects'
    BY <1>1 DEF ListInv, Selects, Settled, ClearSelection, selVars, Matching
  <1> QED
    BY <1>1, <1>2, <1>3 DEF ListInv

(* Answers.                                                                *)
LEMMA AnswerListed ==
    ASSUME ListInv, Loaded \/ LoadFailed \/ LateAnswer
    PROVE  ListInv'
  <1>0. ListShapes /\ ListCurrent /\ RowsFound /\ ShowsAsked /\ Selects
    BY DEF ListInv
  <1>1. CASE Loaded
    <2> USE <1>1 DEF Loaded
    <2>1. /\ UNCHANGED <<filter, searchTimer, allMatching>> /\ fetch # NoFetch
          /\ rows' = PageOf(fetch.filter, fetch.page) /\ fetchError' = FALSE
          /\ shownFor' = [fetch EXCEPT !.stepBack = FALSE]
          /\ selected' = IF allMatching THEN selected ELSE selected \cap PageOf(fetch.filter, fetch.page)
          /\ overtaken' = (overtaken /\ allMatching)
      BY DEF Show
    <2>2. shownFor'.filter = fetch.filter /\ shownFor'.page = fetch.page
      BY <2>1, <1>0 DEF ListShapes, ListRequest
    <2>3. RowsFound'
      BY <2>1, <2>2, PageFound DEF RowsFound, Matching
    <2>4. (allMatching /\ ~searchTimer => overtaken' \/ selected' \subseteq Matching(filter))
      BY <2>1, <1>0 DEF Selects
    <2>5. CASE StepBack(fetch, PageOf(fetch.filter, fetch.page))
      <3>1. /\ page' = page - 1 /\ page > 1 /\ pending'
            /\ fetch' = [filter |-> filter, page |-> page - 1, stepBack |-> FALSE]
        BY <2>5 DEF StepBack
      <3>2. ListShapes' /\ ListCurrent'
        BY <3>1, <2>1, <1>0 DEF ListShapes, ListRequest, ListCurrent
      <3>3. ShowsAsked' /\ Selects'
        BY <3>1, <2>1, <2>4 DEF ShowsAsked, Selects, Settled, Matching
      <3> QED
        BY <3>2, <3>3, <2>3 DEF ListInv
    <2>6. CASE ~StepBack(fetch, PageOf(fetch.filter, fetch.page))
      <3>1. page' = page /\ fetch' = NoFetch
        BY <2>6
      <3>2. ListShapes' /\ ListCurrent'
        BY <3>1, <2>1, <1>0 DEF ListShapes, ListRequest, ListCurrent, NoFetch, FilterNames
      <3>3. ShowsAsked'
        BY <3>1, <2>1, <2>2, <1>0 DEF ShowsAsked, Settled, ListCurrent
      <3>4. ~searchTimer /\ ~allMatching => selected' \subseteq Matching(filter)
        BY <2>1, <1>0, PageFound DEF ListCurrent
      <3>5. Selects'
        BY <3>4, <2>1, <2>4 DEF Selects, Settled, Matching
      <3> QED
        BY <3>2, <3>3, <3>5, <2>3 DEF ListInv
    <2> QED
      BY <2>5, <2>6
  <1>2. CASE LoadFailed
    <2> USE <1>2 DEF LoadFailed
    <2>1. UNCHANGED <<filter, searchTimer, rows, shownFor, selected, allMatching, overtaken>>
      BY DEF selVars
    <2>2. (fetchError' \/ pending') /\ page' \in {page, page - 1} /\ page' \in Nat \ {0}
      BY <1>0 DEF StepBack, ListShapes
    <2>3. ListShapes' /\ ListCurrent'
      <3>1. CASE StepBack(fetch, rows)
        <4>1. fetch' = [filter |-> filter, page |-> page - 1, stepBack |-> FALSE] /\ page' = page - 1
          BY <3>1
        <4> QED
          BY <4>1, <2>1, <2>2, <1>0 DEF ListShapes, ListRequest, ListCurrent
      <3>2. CASE ~StepBack(fetch, rows)
        <4>1. fetch' = NoFetch
          BY <3>2
        <4> QED
          BY <4>1, <2>1, <2>2, <1>0 DEF ListShapes, ListRequest, ListCurrent, NoFetch, FilterNames
      <3> QED
        BY <3>1, <3>2
    <2> QED
      BY <2>1, <2>2, <2>3, <1>0
         DEF ListInv, RowsFound, ShowsAsked, Selects, Settled, Matching
  <1>3. CASE LateAnswer
    <2> USE <1>3 DEF LateAnswer
    <2>1. UNCHANGED <<selVars, filter, searchTimer>>
      OBVIOUS
    <2>2. CASE StepBack(late, rows)
      <3>1. page' = page - 1 /\ Load(filter, page - 1, FALSE, FALSE) /\ page > 1
        BY <2>2 DEF StepBack
      <3>2. page - 1 \in Nat \ {0} /\ filter' = filter /\ filter' \in FilterNames
        BY <3>1, <2>1, <1>0 DEF ListShapes
      <3>3. page' \in Nat \ {0} /\ Load(filter', page', FALSE, FALSE)
        BY <3>1, <3>2
      <3> QED
        BY <3>2, <3>3, <2>1, LoadHolds
    <2>3. CASE ~StepBack(late, rows)
      BY <2>3, <2>1 DEF ListInv, ListShapes, ListCurrent, RowsFound, ShowsAsked, Selects, Settled,
                        Matching, selVars
    <2> QED
      BY <2>2, <2>3
  <1> QED
    BY <1>1, <1>2, <1>3

(* The user, the timers and the server.                                    *)
LEMMA UserListed ==
    ASSUME ListInv,
           \/ \E f \in FilterNames : TypeSearch(f) \/ PickFilter(f)
           \/ SearchTimerFires \/ RefreshTimerFires \/ RetryList \/ MailArrives
           \/ \E p \in 1 .. Pages(MaxMessages) : GoToPage(p)
    PROVE  ListInv'
  <1>0. ListShapes /\ ListCurrent /\ RowsFound /\ ShowsAsked /\ Selects
    BY DEF ListInv
  <1>1. ASSUME NEW f \in FilterNames, TypeSearch(f)
        PROVE  ListInv'
    BY <1>1 DEF TypeSearch, listVars, selVars, ListInv, ListShapes, ListCurrent, RowsFound,
                ShowsAsked, Selects, Settled, Matching
  <1>2. ASSUME NEW f \in FilterNames, PickFilter(f)
        PROVE  ListInv'
    <2>1. filter' = f /\ page' = 1 /\ ClearSelection /\ Load(filter', page', FALSE, FALSE)
      BY <1>2 DEF PickFilter, ApplyFilters
    <2>2. page' \in Nat \ {0} /\ filter' \in FilterNames
      BY <2>1
    <2> QED
      BY <2>1, <2>2, LoadHolds
  <1>3. CASE SearchTimerFires
    <2>1. filter' = filter /\ page' = 1 /\ ClearSelection /\ Load(filter', page', FALSE, FALSE)
      BY <1>3 DEF SearchTimerFires, ApplyFilters
    <2>2. page' \in Nat \ {0} /\ filter' \in FilterNames
      BY <2>1, <1>0 DEF ListShapes
    <2> QED
      BY <2>1, <2>2, LoadHolds
  <1>4. CASE RefreshTimerFires
    <2>1. /\ UNCHANGED <<filter, page, searchTimer, selected, allMatching, overtaken>>
          /\ Load(filter', page', TRUE, FALSE)
      BY <1>4 DEF RefreshTimerFires, filterVars, selVars
    <2>2. /\ ListShapes' /\ ListCurrent' /\ UNCHANGED <<rows, shownFor>>
          /\ pending' = (pending \/ FALSE) /\ fetchError' = (fetchError /\ TRUE)
      BY <2>1, <1>0, LoadIsCurrent DEF ListShapes
    <2> QED
      BY <2>1, <2>2, <1>0 DEF ListInv, RowsFound, ShowsAsked, Selects, Settled, Matching
  <1>5. CASE MailArrives
    BY <1>5 DEF MailArrives, listVars, filterVars, selVars, ListInv, ListShapes, ListCurrent,
                RowsFound, ShowsAsked, Selects, Settled, Matching
  <1>6. ASSUME NEW p \in 1 .. Pages(MaxMessages), GoToPage(p)
        PROVE  ListInv'
    <2>1. /\ UNCHANGED <<selVars, filter, searchTimer>> /\ page' = p
          /\ Load(filter', page', FALSE, FALSE)
      BY <1>6 DEF GoToPage
    <2>2. p \in Nat \ {0}
      OBVIOUS
    <2> QED
      BY <2>1, <2>2, <1>0, LoadHolds DEF ListShapes
  <1>7. CASE RetryList
    <2>1. /\ UNCHANGED <<selVars, filter, page, searchTimer>>
          /\ Load(filter', page', FALSE, FALSE)
      BY <1>7 DEF RetryList, filterVars
    <2> QED
      BY <2>1, <1>0, LoadHolds DEF ListShapes
  <1> QED
    BY <1>1, <1>2, <1>3, <1>4, <1>5, <1>6, <1>7

(* The selection and what is done with it.                                 *)
LEMMA SelectionListed ==
    ASSUME ListInv,
           \/ ToggleSelected \/ SelectPage \/ Escape \/ SelectAllMatching \/ AllSelected
           \/ StartBulk \/ BulkDone
    PROVE  ListInv'
  <1>0. ListShapes /\ ListCurrent /\ RowsFound /\ ShowsAsked /\ Selects
    BY DEF ListInv
  <1>1. ASSUME UNCHANGED <<filterVars, listVars>>, Selects'
        PROVE  ListInv'
    BY <1>0, <1>1 DEF filterVars, listVars, ListInv, ListShapes, ListCurrent, RowsFound, ShowsAsked,
                      Settled, Matching
  <1>2. Settled => rows \subseteq Matching(filter)
    BY <1>0 DEF RowsFound, ShowsAsked
  <1>3. CASE ToggleSelected
    <2>1. UNCHANGED <<filterVars, listVars, overtaken>> /\ allMatching' = FALSE
      BY <1>3 DEF ToggleSelected
    <2>2. PICK range \in SUBSET rows : selected' \in {selected \ range, selected \cup range}
      BY <1>3 DEF ToggleSelected
    <2>3. UNCHANGED <<filter, searchTimer, pending, fetchError>>
      BY <2>1 DEF filterVars, listVars
    <2>4. Settled => overtaken \/ selected' \subseteq Matching(filter)
      BY <2>2, <1>0, <1>2 DEF Selects
    <2>5. Selects'
      BY <2>1, <2>3, <2>4 DEF Selects, Settled, Matching
    <2> QED
      BY <1>1, <2>1, <2>5
  <1>4. CASE SelectPage
    <2>1. /\ UNCHANGED <<filterVars, listVars, filter, searchTimer, pending, fetchError>>
          /\ selected' = rows /\ allMatching' = FALSE
      BY <1>4 DEF SelectPage, filterVars, listVars
    <2>2. Selects'
      BY <2>1, <1>2 DEF Selects, Settled, Matching
    <2> QED
      BY <1>1, <2>1, <2>2
  <1>5. CASE Escape
    <2>1. UNCHANGED <<filterVars, listVars>> /\ Selects'
      BY <1>5 DEF Escape, ClearSelection, Selects
    <2> QED
      BY <1>1, <2>1
  <1>6. ASSUME UNCHANGED <<filterVars, listVars, selVars>>
        PROVE  ListInv'
    <2>1. Selects'
      BY <1>0, <1>6 DEF filterVars, listVars, selVars, Selects, Settled, Matching
    <2> QED
      BY <1>1, <1>6, <2>1
  <1>7. CASE SelectAllMatching \/ StartBulk
    BY <1>6, <1>7 DEF SelectAllMatching, StartBulk
  <1>8. CASE AllSelected
    <2>1. UNCHANGED <<filterVars, listVars, filter>>
      BY <1>8 DEF AllSelected, filterVars
    <2>2. CASE UNCHANGED selVars
      BY <1>6, <2>1, <2>2
    <2>3. CASE /\ selected' = mails \cap Matching(selectAll)
               /\ overtaken' = (selectAll # filter)
      <3>1. overtaken' \/ selected' \subseteq Matching(filter)
        BY <2>3
      <3>2. Selects'
        BY <3>1, <2>1 DEF Selects, Matching
      <3> QED
        BY <1>1, <2>1, <3>2
    <2> QED
      BY <1>8, <2>2, <2>3 DEF AllSelected
  <1>9. CASE BulkDone
    <2>1. UNCHANGED <<filterVars, filter, page, searchTimer>>
      BY <1>9 DEF BulkDone, filterVars
    <2>2. CASE UNCHANGED <<listVars, selVars>>
      BY <1>6, <2>1, <2>2
    <2>3. CASE ClearSelection /\ Load(filter, page, bulk.kind = "mark", bulk.kind = "delete")
      <3>1. PICK silent \in BOOLEAN, stepBack \in BOOLEAN : Load(filter', page', silent, stepBack)
        <4>1. (bulk.kind = "mark") \in BOOLEAN /\ (bulk.kind = "delete") \in BOOLEAN
          OBVIOUS
        <4> QED
          BY <4>1, <2>1, <2>3
      <3>2. /\ ListShapes' /\ ListCurrent' /\ UNCHANGED <<rows, shownFor>>
            /\ ~silent => pending'
            /\ silent => pending' = (pending \/ FALSE) /\ fetchError' = (fetchError /\ TRUE)
        BY <3>1, <2>1, <1>0, LoadIsCurrent DEF ListShapes
      <3>3. RowsFound' /\ ShowsAsked'
        BY <3>2, <2>1, <1>0 DEF RowsFound, ShowsAsked, Settled, Matching
      <3>4. Selects'
        BY <2>3 DEF ClearSelection, Selects
      <3> QED
        BY <3>2, <3>3, <3>4 DEF ListInv
    <2> QED
      BY <1>9, <2>2, <2>3 DEF BulkDone
  <1> QED
    BY <1>3, <1>4, <1>5, <1>7, <1>8, <1>9

(* What the list is made of besides the request it waits for.              *)
ViewShapes ==
    /\ newest \in 0 .. MaxMessages /\ mails \subseteq 1 .. newest /\ total \in 0 .. MaxMessages
    /\ rows \subseteq AllMail /\ selected \subseteq AllMail /\ bulk.ids \subseteq AllMail
    /\ searchTimer \in BOOLEAN /\ refreshTimer \in BOOLEAN /\ pending \in BOOLEAN
    /\ fetchError \in BOOLEAN /\ allMatching \in BOOLEAN /\ overtaken \in BOOLEAN
    /\ selectAll \in FilterNames \cup {"no"}

(* Whatever a filter finds is mail, and never more than there is.          *)
LEMMA FoundIsMail ==
    ASSUME newest \in 0 .. MaxMessages, mails \subseteq 1 .. newest, NEW f
    PROVE  /\ Listed(f) \subseteq AllMail /\ \A p : PageOf(f, p) \subseteq AllMail
           /\ mails \subseteq AllMail
           /\ Cardinality(Listed(f)) \in 0 .. MaxMessages
  <1>1. MaxMessages \in Nat /\ newest \in Nat /\ newest <= MaxMessages
    BY InboxViewAssumption
  <1>2. mails \subseteq AllMail
    BY <1>1 DEF AllMail
  <1>3. PICK S \in SUBSET AllMail : S = Listed(f)
    BY <1>2 DEF Listed
  <1>4. IsFiniteSet(AllMail) /\ Cardinality(AllMail) = MaxMessages
    BY <1>1, FS_Interval DEF AllMail
  <1>5. Cardinality(S) \in Nat /\ Cardinality(S) <= MaxMessages
    BY <1>4, FS_Subset, FS_CardinalityType
  <1>6. Cardinality(S) \in 0 .. MaxMessages
    BY <1>1, <1>5
  <1>7. \A p : PageOf(f, p) \subseteq AllMail
    BY <1>3 DEF PageOf
  <1> QED
    BY <1>2, <1>3, <1>6, <1>7

(* A request leaves them alone but for the flags of the list.              *)
LEMMA LoadShapes ==
    ASSUME ViewShapes, NEW f, NEW p, NEW silent \in BOOLEAN, NEW stepBack, Load(f, p, silent, stepBack)
    PROVE  pending' \in BOOLEAN /\ fetchError' \in BOOLEAN /\ UNCHANGED <<rows, total>>
  BY DEF Load, ViewShapes

(* Every step keeps the types.                                             *)
LEMMA ViewShapesStay ==
    ASSUME ListShapes, ViewShapes, [ViewNext]_viewVars
    PROVE  ViewShapes'
  <1>1. CASE Loaded
    <2>1. /\ rows' = PageOf(fetch.filter, fetch.page) /\ total' = Cardinality(Listed(fetch.filter))
          /\ selected' \in {selected, selected \cap PageOf(fetch.filter, fetch.page)}
          /\ overtaken' = (overtaken /\ allMatching) /\ fetchError' = FALSE
          /\ pending' \in BOOLEAN
          /\ UNCHANGED <<newest, mails, bulk, searchTimer, refreshTimer, allMatching, selectAll>>
      BY <1>1 DEF Loaded, Show, workVars
    <2>2. rows' \subseteq AllMail /\ total' \in 0 .. MaxMessages
      BY <2>1, FoundIsMail DEF ViewShapes
    <2>3. overtaken' \in BOOLEAN
      BY <2>1
    <2> QED
      BY <2>1, <2>2, <2>3 DEF ViewShapes
  <1>2. CASE LoadFailed
    <2>1. /\ pending' \in BOOLEAN /\ fetchError' \in BOOLEAN
          /\ UNCHANGED <<newest, mails, total, rows, selected, bulk, searchTimer, refreshTimer,
                         allMatching, overtaken, selectAll>>
      BY <1>2 DEF LoadFailed, workVars, selVars
    <2> QED
      BY <2>1 DEF ViewShapes
  <1>3. ASSUME NEW f, NEW p, NEW silent \in BOOLEAN, NEW stepBack, Load(f, p, silent, stepBack),
               UNCHANGED <<mails, newest, selectAll>>, searchTimer' \in BOOLEAN,
               refreshTimer' \in BOOLEAN, bulk'.ids \subseteq AllMail,
               ClearSelection \/ UNCHANGED selVars
        PROVE  ViewShapes'
    <2>1. pending' \in BOOLEAN /\ fetchError' \in BOOLEAN /\ UNCHANGED <<rows, total>>
      BY <1>3, LoadShapes
    <2>2. selected' \subseteq AllMail /\ allMatching' \in BOOLEAN /\ overtaken' \in BOOLEAN
      BY <1>3 DEF ViewShapes, ClearSelection, selVars
    <2> QED
      BY <1>3, <2>1, <2>2 DEF ViewShapes
  <1>4. CASE LateAnswer
    <2>1. CASE Load(filter, page - 1, FALSE, FALSE)
      BY <1>3, <1>4, <2>1 DEF LateAnswer, ViewShapes, workVars
    <2>2. CASE UNCHANGED <<page, rows, total, pending, fetchError, fetch, shownFor>>
      BY <1>4, <2>2 DEF LateAnswer, ViewShapes, workVars, selVars
    <2> QED
      BY <1>4, <2>1, <2>2 DEF LateAnswer
  <1>5. ASSUME NEW f \in FilterNames, TypeSearch(f)
        PROVE  ViewShapes'
    BY <1>5 DEF TypeSearch, ViewShapes, listVars, selVars, workVars
  <1>6. CASE SearchTimerFires
    BY <1>3, <1>6 DEF SearchTimerFires, ApplyFilters, ViewShapes, workVars
  <1>7. ASSUME NEW f \in FilterNames, PickFilter(f)
        PROVE  ViewShapes'
    BY <1>3, <1>7 DEF PickFilter, ApplyFilters, ViewShapes, workVars
  <1>8. ASSUME NEW p, GoToPage(p)
        PROVE  ViewShapes'
    BY <1>3, <1>8 DEF GoToPage, ViewShapes, workVars
  <1>9. CASE MailArrives
    <2>1. newest' = newest + 1 /\ newest < MaxMessages /\ mails' = mails \cup {newest + 1}
          /\ refreshTimer' = TRUE
          /\ UNCHANGED <<total, rows, selected, bulk, searchTimer, pending, fetchError,
                         allMatching, overtaken, selectAll>>
      BY <1>9 DEF MailArrives, filterVars, listVars, selVars, workVars
    <2>2. newest' \in 0 .. MaxMessages /\ mails' \subseteq 1 .. newest'
      BY <2>1, InboxViewAssumption DEF ViewShapes
    <2> QED
      BY <2>1, <2>2 DEF ViewShapes
  <1>10. CASE RefreshTimerFires \/ RetryList
    BY <1>3, <1>10 DEF RefreshTimerFires, RetryList, ViewShapes, workVars, filterVars
  <1>11. CASE ToggleSelected \/ SelectPage \/ Escape
    <2>1. selected' \subseteq AllMail /\ allMatching' = FALSE /\ overtaken' \in BOOLEAN
      BY <1>11 DEF ToggleSelected, SelectPage, Escape, ClearSelection, ViewShapes
    <2>2. UNCHANGED <<newest, mails, total, rows, bulk, searchTimer, refreshTimer, pending,
                      fetchError, selectAll>>
      BY <1>11 DEF ToggleSelected, SelectPage, Escape, filterVars, listVars, workVars
    <2> QED
      BY <2>1, <2>2 DEF ViewShapes
  <1>12. CASE SelectAllMatching
    BY <1>12 DEF SelectAllMatching, ListShapes, ViewShapes, filterVars, listVars, selVars
  <1>13. CASE AllSelected
    <2>1. \/ /\ selected' = mails \cap Matching(selectAll) /\ allMatching' = TRUE
             /\ overtaken' = (selectAll # filter)
          \/ UNCHANGED <<selected, allMatching, overtaken>>
      BY <1>13 DEF AllSelected, selVars
    <2>2. mails \subseteq AllMail
      BY FoundIsMail DEF ViewShapes
    <2>3. selected' \subseteq AllMail /\ allMatching' \in BOOLEAN /\ overtaken' \in BOOLEAN
      BY <2>1, <2>2 DEF ViewShapes
    <2> QED
      BY <1>13, <2>3 DEF AllSelected, ViewShapes, filterVars, listVars
  <1>14. CASE StartBulk
    <2>1. PICK kind : bulk' = [kind |-> kind, ids |-> selected]
      BY <1>14 DEF StartBulk
    <2>2. bulk'.ids = selected
      BY <2>1
    <2> QED
      BY <1>14, <2>2 DEF StartBulk, ViewShapes, filterVars, listVars, selVars
  <1>15. CASE BulkDone
    <2>1. bulk' = NoBulk /\ UNCHANGED <<newest, refreshTimer, searchTimer, selectAll>>
      BY <1>15 DEF BulkDone, filterVars
    <2>2. bulk'.ids \subseteq AllMail
      BY <2>1 DEF NoBulk
    <2>3. CASE UNCHANGED <<mails, listVars, selVars>>
      BY <2>1, <2>2, <2>3 DEF ViewShapes, listVars, selVars
    <2>4. ASSUME mails' = IF bulk.kind = "delete" THEN mails \ bulk.ids ELSE mails, ClearSelection,
                 NEW silent \in BOOLEAN, NEW stepBack, Load(filter, page, silent, stepBack)
          PROVE  ViewShapes'
      <3>1. mails' \subseteq 1 .. newest'
        BY <2>1, <2>4 DEF ViewShapes
      <3>2. pending' \in BOOLEAN /\ fetchError' \in BOOLEAN /\ UNCHANGED <<rows, total>>
        BY <2>4, LoadShapes
      <3>3. selected' = {} /\ allMatching' = FALSE /\ overtaken' = FALSE
        BY <2>4 DEF ClearSelection
      <3> QED
        BY <2>1, <2>2, <3>1, <3>2, <3>3 DEF ViewShapes
    <2>5. (bulk.kind = "mark") \in BOOLEAN
      OBVIOUS
    <2> QED
      BY <1>15, <2>3, <2>4, <2>5 DEF BulkDone
  <1>16. CASE UNCHANGED viewVars
    BY <1>16 DEF ViewShapes, viewVars, filterVars, listVars, selVars, workVars
  <1> QED
    BY <1>1, <1>2, <1>4, <1>5, <1>6, <1>7, <1>8, <1>9, <1>10, <1>11, <1>12, <1>13, <1>14, <1>15,
       <1>16 DEF ViewNext

(* However answers, filters, pages, timers, live events and bulk actions   *)
(* overtake each other, a list that is not loading shows the page and the  *)
(* filter the user sees, and what a bulk action would touch matches that   *)
(* filter unless "select all" was answered after it changed                *)
(* (useInboxMessages.ts:78,248).                                           *)
THEOREM SelectionStaysShown == ViewSpec => [](ViewTypeOK /\ SelectionIsShown)
  <1>1. ViewInit => ListInv /\ ViewShapes
    <2> SUFFICES ASSUME ViewInit PROVE ListInv /\ ViewShapes
      OBVIOUS
    <2>1. /\ filter \in FilterNames /\ page \in {1, 2}
          /\ fetch = [filter |-> filter, page |-> page, stepBack |-> FALSE]
          /\ rows = {} /\ selected = {} /\ pending
      BY DEF ViewInit
    <2>2. ListShapes /\ ListCurrent
      BY <2>1 DEF ListShapes, ListRequest, ListCurrent
    <2>3. ListInv
      BY <2>1, <2>2 DEF ListInv, RowsFound, ShowsAsked, Selects, Settled
    <2>4. ViewShapes
      <3>1. /\ newest \in 0 .. MaxMessages /\ mails = 1 .. newest /\ total = 0 /\ rows = {}
            /\ selected = {} /\ bulk.ids = {} /\ searchTimer = FALSE /\ refreshTimer = FALSE
            /\ pending = TRUE /\ fetchError = FALSE /\ allMatching = FALSE /\ overtaken = FALSE
            /\ selectAll = "no"
        BY DEF ViewInit, NoBulk
      <3>2. 0 \in 0 .. MaxMessages
        BY InboxViewAssumption
      <3> QED
        BY <3>1, <3>2 DEF ViewShapes
    <2> QED
      BY <2>3, <2>4
  <1>2. ListInv /\ ViewShapes /\ [ViewNext]_viewVars => ListInv' /\ ViewShapes'
    <2> SUFFICES ASSUME ListInv, ViewShapes, [ViewNext]_viewVars PROVE ListInv' /\ ViewShapes'
      OBVIOUS
    <2>1. ViewShapes'
      BY ViewShapesStay DEF ListInv
    <2>2. ListInv'
      <3>1. CASE UNCHANGED viewVars
        BY <3>1 DEF viewVars, filterVars, listVars, selVars, ListInv, ListShapes, ListCurrent,
                    RowsFound, ShowsAsked, Selects, Settled, Matching
      <3> QED
        BY <3>1, AnswerListed, UserListed, SelectionListed DEF ViewNext
    <2> QED
      BY <2>1, <2>2
  <1>3. ListInv => SelectionIsShown
    BY DEF ListInv, ShowsAsked, Selects, SelectionIsShown
  <1>4. ListInv /\ ViewShapes => ViewTypeOK
    BY DEF ListInv, ListShapes, ViewShapes, ViewTypeOK
  <1> QED
    BY <1>1, <1>2, <1>3, <1>4, PTL DEF ViewSpec

(***************************************************************************)
(* Read flags.  The last event on its way to a list that has a flag for a  *)
(* message has the one of the database, and without such an event the list *)
(* shows it, unless a route has yet to publish it or the list's own toggle *)
(* is yet to be answered.  The badge counts the messages that were unread  *)
(* before the events on their way: there are flags that start with what it *)
(* counts, change with each of those events, in every message the event    *)
(* names, and end as in the database but for what is yet to be published.  *)
(***************************************************************************)
Flagged == [ids : SUBSET Letters, value : BOOLEAN, all : BOOLEAN]
Marking == [kind : {"none", "one", "page", "all"}, ids : SUBSET Letters, value : BOOLEAN,
            at : {"none", "sent", "updated", "done", "failed"}]
ReadShapes ==
    /\ isRead \in Flags /\ display \in [Viewers -> Flags] /\ badge \in [Viewers -> Nat]
    /\ feed \in [Viewers -> Seq(Flagged)] /\ ask \in [Viewers -> Marking]
    /\ reload \in [Viewers -> [of : {"none", "list", "sidebar"}, flags : SUBSET Letters]]

(* "Mark all" is about all messages.                                       *)
AllMarked ==
    /\ \A t \in Viewers : ask[t].kind = "all" => ask[t].ids = Letters /\ ask[t].value
    /\ \A t \in Viewers : \A i \in DOMAIN feed[t] :
          feed[t][i].all => feed[t][i].ids = Letters /\ feed[t][i].value

(* The database has what the routes wrote that have yet to publish it, and *)
(* no two of those wrote the same message; or all browsers were muddled.   *)
Updates(u, m) == ask[u].at = "updated" /\ m \in ask[u].ids
Updated(m) == \E u \in Viewers : Updates(u, m)
Written == \A u \in Viewers, m \in Letters :
             Updates(u, m) => /\ isRead[m] = ask[u].value
                              /\ \A v \in Viewers \ {u} : ~Updates(v, m)
Muddle == Viewers \subseteq muddled /\ Viewers \subseteq miscounted

LastOf(t, i, m) == /\ m \in feed[t][i].ids
                   /\ \A j \in DOMAIN feed[t] : j > i => m \notin feed[t][j].ids
Unheard(t, m) == \E i \in DOMAIN feed[t] : m \in feed[t][i].ids
Toggled(t, m) == ask[t].kind = "one" /\ m \in ask[t].ids /\ ask[t].at \in {"sent", "failed"}
Shown(t, m) ==
    Updated(m) \/ /\ \A i \in DOMAIN feed[t] : LastOf(t, i, m) => feed[t][i].value = isRead[m]
                  /\ Unheard(t, m) \/ Toggled(t, m) \/ display[t][m] = isRead[m]
ListFollows(t) == t \in muddled \/ \A m \in Letters : Shown(t, m)

Passes(t, h) ==
    \A i \in DOMAIN feed[t] :
        /\ h[i + 1] = Changed(h[i], feed[t][i].ids, feed[t][i].value)
        /\ feed[t][i].all \/ \A m \in feed[t][i].ids : h[i][m] # feed[t][i].value
Ends(flags) ==
    /\ \A m \in Letters : Updated(m) \/ flags[m] = isRead[m]
    /\ \A u \in Viewers, m \in Letters :
          Updates(u, m) /\ ask[u].kind # "all" => flags[m] # ask[u].value
Counted(t) ==
    \E h \in [1 .. Len(feed[t]) + 1 -> Flags] :
        /\ badge[t] = Cardinality(UnreadIn(h[1]))
        /\ Passes(t, h) /\ Ends(h[Len(feed[t]) + 1])
BadgeFollows(t) == t \in miscounted \/ Counted(t)

ReadInv == /\ ReadShapes /\ AllMarked /\ (Muddle \/ Written)
           /\ \A t \in Viewers : ListFollows(t) /\ BadgeFollows(t)

(* The first flags of such a history.                                      *)
LEMMA FlagsChange ==
    ASSUME NEW f \in Flags, NEW ids \in SUBSET Letters, NEW v \in BOOLEAN
    PROVE  /\ Changed(f, ids, v) \in Flags
           /\ \A m \in Letters : Changed(f, ids, v)[m] = IF m \in ids THEN v ELSE f[m]
  BY DEF Changed, Flags

(* Unread messages are a finite number.                                    *)
LEMMA UnreadCounts ==
    ASSUME NEW f \in Flags
    PROVE  /\ UnreadIn(f) = {m \in Letters : ~f[m]}
           /\ UnreadIn(f) \subseteq Letters
           /\ IsFiniteSet(UnreadIn(f)) /\ Cardinality(UnreadIn(f)) \in Nat
  <1>1. DOMAIN f = Letters
    BY DEF Flags
  <1>2. UnreadIn(f) = {m \in Letters : ~f[m]}
    BY <1>1 DEF UnreadIn
  <1>3. IsFiniteSet(UnreadIn(f))
    BY <1>2, ReadStateAssumption, FS_Subset
  <1> QED
    BY <1>2, <1>3, FS_CardinalityType

(* Only a browser that counts wrong already, or whose badge, feed and the  *)
(* routes' work stay as they are, needs no more than this.                 *)
LEMMA BadgeStays ==
    ASSUME NEW t \in Viewers, BadgeFollows(t), t \in miscounted => t \in miscounted',
           isRead' = isRead, feed'[t] = feed[t], badge'[t] = badge[t],
           \A u \in Viewers : /\ ask'[u].at = "updated" <=> ask[u].at = "updated"
                              /\ ask[u].at = "updated" => ask'[u] = ask[u]
    PROVE  BadgeFollows(t)'
  <1>1. \A u \in Viewers, m \in Letters : Updates(u, m)' <=> Updates(u, m)
    BY DEF Updates
  <1>2. \A m \in Letters : Updated(m)' <=> Updated(m)
    BY <1>1 DEF Updated
  <1>3. ASSUME Counted(t) PROVE Counted(t)'
    <2>1. PICK h \in [1 .. Len(feed[t]) + 1 -> Flags] :
             /\ badge[t] = Cardinality(UnreadIn(h[1]))
             /\ Passes(t, h) /\ Ends(h[Len(feed[t]) + 1])
      BY <1>3 DEF Counted
    <2>2. badge'[t] = Cardinality(UnreadIn(h[1]))
      BY <2>1
    <2>3. \A i \in DOMAIN feed'[t] :
            /\ h[i + 1] = Changed(h[i], feed'[t][i].ids, feed'[t][i].value)
            /\ feed'[t][i].all \/ \A m \in feed'[t][i].ids : h[i][m] # feed'[t][i].value
      BY <2>1 DEF Passes
    <2>4. /\ \A m \in Letters : Updated(m)' \/ h[Len(feed[t]) + 1][m] = isRead'[m]
          /\ \A u \in Viewers, m \in Letters :
                Updates(u, m)' /\ ask'[u].kind # "all" => h[Len(feed[t]) + 1][m] # ask'[u].value
      BY <2>1, <1>1, <1>2 DEF Ends, Updates
    <2> QED
      BY <2>2, <2>3, <2>4 DEF Counted, Passes, Ends
  <1> QED
    BY <1>3 DEF BadgeFollows

(* The same for a list.                                                    *)
LEMMA ListStays ==
    ASSUME NEW t \in Viewers, ListFollows(t), t \in muddled => t \in muddled',
           isRead' = isRead, feed'[t] = feed[t],
           \A u \in Viewers : /\ ask'[u].at = "updated" <=> ask[u].at = "updated"
                              /\ ask[u].at = "updated" => ask'[u] = ask[u],
           \A m \in Letters : t \in muddled' \/ Toggled(t, m)' \/ display'[t][m] = isRead'[m]
                              \/ (display'[t][m] = display[t][m] /\ ~Toggled(t, m))
    PROVE  ListFollows(t)'
  <1> SUFFICES ASSUME t \notin muddled', NEW m \in Letters
               PROVE  Shown(t, m)'
    BY DEF ListFollows
  <1>1. Shown(t, m)
    BY DEF ListFollows
  <1>2. Updated(m)' <=> Updated(m)
    BY DEF Updated, Updates
  <1>3. Unheard(t, m)' <=> Unheard(t, m)
    BY DEF Unheard
  <1>4. \A i \in DOMAIN feed[t] : LastOf(t, i, m)' <=> LastOf(t, i, m)
    BY DEF LastOf
  <1>5. Unheard(t, m)' \/ Toggled(t, m)' \/ display'[t][m] = isRead'[m] \/ Updated(m)'
    BY <1>1, <1>2, <1>3 DEF Shown
  <1> QED
    BY <1>1, <1>2, <1>4, <1>5 DEF Shown

(* A request is made: a toggle shows at once.                              *)
LEMMA MarkSettles ==
    ASSUME ReadInv, NEW t \in Viewers,
           MarkPageRead(t) \/ \E m \in Letters : ToggleRead(t, m)
    PROVE  ReadInv'
  <1>0. ReadShapes /\ AllMarked /\ (Muddle \/ Written)
    BY DEF ReadInv
  <1>1. PICK kind \in {"one", "page", "all"}, ids \in SUBSET Letters, v \in BOOLEAN :
           /\ Mark(t, kind, ids, v)
           /\ kind = "all" => ids = Letters /\ v
           /\ \/ UNCHANGED display
              \/ /\ kind = "one" /\ display' \in [Viewers -> Flags]
                 /\ \A u \in Viewers, m \in Letters :
                       (u = t /\ m \in ids) \/ display'[u][m] = display[u][m]
    <2>1. CASE MarkPageRead(t)
      <3>1. UNCHANGED display
        BY <2>1 DEF MarkPageRead
      <3>2. CASE Mark(t, "all", Letters, TRUE)
        BY <3>1, <3>2
      <3>3. CASE \E shown \in SUBSET Letters : Mark(t, "page", UnreadIn(display[t]) \cap shown, TRUE)
        <4>1. PICK shown \in SUBSET Letters : Mark(t, "page", UnreadIn(display[t]) \cap shown, TRUE)
          BY <3>3
        <4>2. UnreadIn(display[t]) \cap shown \in SUBSET Letters
          OBVIOUS
        <4> QED
          BY <3>1, <4>1, <4>2
      <3> QED
        BY <2>1, <3>2, <3>3 DEF MarkPageRead
    <2>2. ASSUME NEW m \in Letters, ToggleRead(t, m)
          PROVE  \E v \in BOOLEAN :
                    /\ Mark(t, "one", {m}, v) /\ display' \in [Viewers -> Flags]
                    /\ \A u \in Viewers, n \in Letters :
                          (u = t /\ n \in {m}) \/ display'[u][n] = display[u][n]
      <3>1. /\ Mark(t, "one", {m}, ~display[t][m])
            /\ display' = [display EXCEPT ![t][m] = ~@]
        BY <2>2 DEF ToggleRead
      <3>2. display \in [Viewers -> [Letters -> BOOLEAN]]
        BY <1>0 DEF ReadShapes, Flags
      <3> QED
        BY <3>1, <3>2 DEF Flags
    <2>3. CASE \E m \in Letters : ToggleRead(t, m)
      <3>1. PICK m \in Letters : ToggleRead(t, m)
        BY <2>3
      <3>2. PICK v \in BOOLEAN :
                    /\ Mark(t, "one", {m}, v) /\ display' \in [Viewers -> Flags]
                    /\ \A u \in Viewers, n \in Letters :
                          (u = t /\ n \in {m}) \/ display'[u][n] = display[u][n]
        BY <3>1, <2>2
      <3>3. {m} \in SUBSET Letters
        OBVIOUS
      <3> QED
        BY <3>2, <3>3
    <2> QED
      BY <2>1, <2>3
  <1>2. /\ ask[t] = NoAsk /\ UNCHANGED <<isRead, feed, badge, reload, muddled, miscounted>>
        /\ ask' = [ask EXCEPT ![t] = [kind |-> kind, ids |-> ids, value |-> v, at |-> "sent"]]
    BY <1>1 DEF Mark
  <1>3. \A u \in Viewers : /\ ask'[u] = IF u = t THEN [kind |-> kind, ids |-> ids, value |-> v, at |-> "sent"]
                                        ELSE ask[u]
    BY <1>2, <1>0 DEF ReadShapes
  <1>4. /\ ask[t].at = "none" /\ ask[t].kind = "none"
        /\ ask'[t].at = "sent" /\ ask'[t].kind = kind /\ ask'[t].ids = ids /\ ask'[t].value = v
    BY <1>2, <1>3 DEF NoAsk
  <1>5. \A u \in Viewers : /\ ask'[u].at = "updated" <=> ask[u].at = "updated"
                           /\ ask[u].at = "updated" => ask'[u] = ask[u]
    BY <1>3, <1>4
  <1>6. ReadShapes'
    <2>1. ask' \in [Viewers -> Marking]
      BY <1>0, <1>1, <1>2 DEF ReadShapes, Marking
    <2> QED
      BY <2>1, <1>0, <1>1, <1>2 DEF ReadShapes
  <1>7. AllMarked'
    BY <1>0, <1>1, <1>2, <1>3, <1>4 DEF AllMarked
  <1>8. (Muddle \/ Written)'
    BY <1>0, <1>2, <1>5 DEF Muddle, Written, Updates
  <1>9. ASSUME NEW u \in Viewers
        PROVE  ListFollows(u)' /\ BadgeFollows(u)'
    <2>1. ListFollows(u) /\ BadgeFollows(u)
      BY DEF ReadInv
    <2>2. \A m \in Letters : Toggled(u, m)' \/ (display'[u][m] = display[u][m] /\ ~Toggled(u, m))
      <3>1. CASE u = t
        <4>1. \A m \in Letters : ~Toggled(u, m)
          BY <3>1, <1>4 DEF Toggled
        <4>2. \A m \in Letters : Toggled(u, m)' \/ display'[u][m] = display[u][m]
          BY <3>1, <1>1, <1>4 DEF Toggled
        <4> QED
          BY <4>1, <4>2
      <3>2. CASE u # t
        <4>1. \A m \in Letters : Toggled(u, m)' <=> Toggled(u, m)
          BY <3>2, <1>3 DEF Toggled
        <4>2. \A m \in Letters : display'[u][m] = display[u][m]
          BY <3>2, <1>1
        <4> QED
          BY <4>1, <4>2
      <3> QED
        BY <3>1, <3>2
    <2> QED
      BY <2>1, <2>2, <1>2, <1>5, ListStays, BadgeStays
  <1> QED
    BY <1>6, <1>7, <1>8, <1>9 DEF ReadInv

(* A route writes its messages.                                            *)
LEMMA UpdateSettles ==
    ASSUME ReadInv, NEW t \in Viewers, UpdateRead(t)
    PROVE  ReadInv'
  <1> DEFINE ids == ask[t].ids
             v == ask[t].value
             Crossing == \E u \in Viewers \ {t} : ask[u].at = "updated" /\ ask[u].ids \cap ids # {}
             Idle == ask[t].kind # "all" /\ \E m \in ids : isRead[m] = v
  <1>0. ReadShapes /\ AllMarked /\ (Muddle \/ Written)
    BY DEF ReadInv
  <1>1. /\ ask[t].at = "sent" /\ UNCHANGED <<feed, display, badge, reload>>
        /\ isRead' = Changed(isRead, ids, v)
        /\ ask' = [ask EXCEPT ![t] = [@ EXCEPT !.at = "updated"]]
        /\ muddled' = IF Crossing THEN Viewers ELSE muddled
        /\ miscounted' = IF Crossing \/ Idle THEN Viewers ELSE miscounted
    BY DEF UpdateRead
  <1>2. ids \in SUBSET Letters /\ v \in BOOLEAN /\ ask[t] \in Marking
    BY <1>0 DEF ReadShapes, Marking
  <1>3. /\ \A u \in Viewers : u # t => ask'[u] = ask[u]
        /\ ask'[t] = [ask[t] EXCEPT !.at = "updated"]
    BY <1>1, <1>0 DEF ReadShapes
  <1>4. /\ ask'[t].at = "updated" /\ ask'[t].ids = ids /\ ask'[t].value = v
        /\ ask'[t].kind = ask[t].kind /\ ask'[t] \in Marking
    BY <1>2, <1>3 DEF Marking
  <1>5. /\ isRead' \in Flags
        /\ \A m \in Letters : isRead'[m] = IF m \in ids THEN v ELSE isRead[m]
    <2>1. isRead \in Flags
      BY <1>0 DEF ReadShapes
    <2>2. isRead' = Changed(isRead, ids, v)
      BY <1>1
    <2> HIDE DEF ids, v
    <2>3. ids \in SUBSET Letters /\ v \in BOOLEAN
      BY <1>2
    <2> QED
      BY <2>1, <2>2, <2>3, FlagsChange
  <1> HIDE DEF ids, v
  <1>6. ReadShapes' /\ AllMarked'
    <2>1. ask' \in [Viewers -> Marking]
      BY <1>0, <1>1, <1>4 DEF ReadShapes
    <2>2. ReadShapes'
      BY <2>1, <1>0, <1>1, <1>5 DEF ReadShapes
    <2>3. AllMarked'
      BY <1>0, <1>1, <1>3, <1>4 DEF AllMarked, ids, v
    <2> QED
      BY <2>2, <2>3
  <1>7. CASE Crossing
    <2>1. Muddle'
      BY <1>1, <1>7 DEF Muddle
    <2> QED
      BY <2>1, <1>6 DEF ReadInv, Muddle, ListFollows, BadgeFollows
  <1>8. CASE ~Crossing /\ ~Muddle
    <2>1. Written /\ muddled' = muddled
      BY <1>0, <1>1, <1>8
    <2>2. \A m \in Letters, u \in Viewers :
             Updates(u, m)' <=> IF u = t THEN m \in ids ELSE Updates(u, m)
      BY <1>3, <1>4 DEF Updates
    <2>3. \A m \in Letters, u \in Viewers \ {t} : m \in ids => ~Updates(u, m)
      BY <1>8 DEF Updates
    <2>4. \A m \in Letters : Updated(m)' <=> m \in ids \/ Updated(m)
      <3>1. \A m \in Letters : ~Updates(t, m)
        BY <1>1 DEF Updates
      <3> QED
        BY <2>2, <3>1 DEF Updated
    <2>5. Written'
      <3> SUFFICES ASSUME NEW u \in Viewers, NEW m \in Letters, Updates(u, m)'
                   PROVE  /\ isRead'[m] = ask'[u].value
                          /\ \A w \in Viewers \ {u} : ~Updates(w, m)'
        BY DEF Written
      <3>1. CASE u = t
        BY <3>1, <2>2, <2>3, <1>4, <1>5
      <3>2. CASE u # t
        <4>1. Updates(u, m) /\ m \notin ids
          BY <3>2, <2>2, <2>3
        <4> QED
          BY <4>1, <3>2, <2>1, <2>2, <1>3, <1>5 DEF Written
      <3> QED
        BY <3>1, <3>2
    <2>6. ASSUME NEW u \in Viewers
          PROVE  ListFollows(u)'
      <3> SUFFICES ASSUME u \notin muddled, NEW m \in Letters
                   PROVE  Shown(u, m)'
        BY <2>1 DEF ListFollows
      <3>1. Shown(u, m)
        BY DEF ReadInv, ListFollows
      <3>2. CASE m \in ids
        BY <3>2, <2>4 DEF Shown
      <3>3. CASE m \notin ids
        <4>1. isRead'[m] = isRead[m] /\ display' = display /\ feed' = feed
          BY <3>3, <1>1, <1>5
        <4>2. Updated(m)' <=> Updated(m)
          BY <3>3, <2>4
        <4>3. Toggled(u, m)' <=> Toggled(u, m)
          BY <3>3, <1>3, <1>4 DEF Toggled, ids
        <4>4. Unheard(u, m)' <=> Unheard(u, m)
          BY <4>1 DEF Unheard
        <4>5. \A i \in DOMAIN feed[u] : LastOf(u, i, m)' <=> LastOf(u, i, m)
          BY <4>1 DEF LastOf
        <4> QED
          BY <3>1, <4>1, <4>2, <4>3, <4>4, <4>5 DEF Shown
      <3> QED
        BY <3>2, <3>3
    <2>7. ASSUME NEW u \in Viewers
          PROVE  BadgeFollows(u)'
      <3> SUFFICES ASSUME u \notin miscounted'
                   PROVE  Counted(u)'
        BY DEF BadgeFollows
      <3>1. ~Idle /\ u \notin miscounted
        BY <1>1
      <3>2. PICK h \in [1 .. Len(feed[u]) + 1 -> Flags] :
               /\ badge[u] = Cardinality(UnreadIn(h[1]))
               /\ Passes(u, h) /\ Ends(h[Len(feed[u]) + 1])
        BY <3>1 DEF ReadInv, BadgeFollows, Counted
      <3> PICK f : f = h[Len(feed[u]) + 1]
        OBVIOUS
      <3>3. \A m \in Letters : m \in ids => f[m] = isRead[m]
        BY <3>2, <2>3, <1>1 DEF Ends, Updated, Updates
      <3>4. \A m \in Letters : Updated(m)' \/ f[m] = isRead'[m]
        BY <3>2, <2>4, <1>5 DEF Ends
      <3>5. ASSUME NEW w \in Viewers, NEW m \in Letters, Updates(w, m)', ask'[w].kind # "all"
            PROVE  f[m] # ask'[w].value
        <4>1. CASE w = t
          BY <4>1, <3>1, <3>3, <3>5, <2>2, <1>4
        <4>2. CASE w # t
          BY <4>2, <3>2, <3>5, <2>2, <1>3 DEF Ends
        <4> QED
          BY <4>1, <4>2
      <3>6. Ends(f)'
        BY <3>4, <3>5 DEF Ends
      <3>7. Passes(u, h)'
        BY <3>2, <1>1 DEF Passes
      <3> QED
        BY <3>2, <3>6, <3>7, <1>1 DEF Counted
    <2> QED
      BY <1>6, <2>5, <2>6, <2>7 DEF ReadInv
  <1>9. CASE Muddle
    <2>1. Muddle'
      BY <1>1, <1>9 DEF Muddle
    <2> QED
      BY <2>1, <1>6 DEF ReadInv, Muddle, ListFollows, BadgeFollows
  <1> QED
    BY <1>7, <1>8, <1>9

(* A route publishes what it wrote: some browsers are about to hear of it, *)
(* and what the others show is right already or marked as not.             *)
LEMMA PublishSettles ==
    ASSUME ReadInv, NEW t \in Viewers, NEW reached \in SUBSET Viewers, Told(t, reached),
           NEW end \in {"done", "failed"}, ask' = [ask EXCEPT ![t].at = end]
    PROVE  ReadInv'
  <1>0. ReadShapes /\ AllMarked /\ (Muddle \/ Written)
    BY DEF ReadInv
  <1>1. PICK ids \in SUBSET Letters, v \in BOOLEAN, all \in BOOLEAN :
           ids = ask[t].ids /\ v = ask[t].value /\ all = (ask[t].kind = "all")
    BY <1>0 DEF ReadShapes, Marking
  <1>2. PICK e \in Flagged : e.ids = ids /\ e.value = v /\ e.all = all
                             /\ e = [ids |-> ids, value |-> v, all |-> all]
    BY DEF Flagged
  <1>3. /\ ask[t].at = "updated"
        /\ UNCHANGED <<isRead, display, badge, reload>>
        /\ feed' = [u \in Viewers |-> IF u \in reached THEN Append(feed[u], e) ELSE feed[u]]
        /\ ask' = [ask EXCEPT ![t] = [@ EXCEPT !.at = end]]
        /\ muddled \subseteq muddled' /\ miscounted \subseteq miscounted'
        /\ Viewers \ reached \subseteq miscounted'
        /\ \A u \in Viewers \ reached :
              u \in muddled' \/ (feed[u] = <<>> /\ \A m \in ids : display[u][m] = v)
    BY <1>1, <1>2 DEF Told
  <1>4. /\ \A u \in Viewers : u # t => ask'[u] = ask[u]
        /\ ask'[t].at = end /\ ask'[t].ids = ids /\ ask'[t].value = v
        /\ ask'[t].kind = ask[t].kind /\ ask'[t] \in Marking
    <2>1. ask \in [Viewers -> Marking] /\ ask[t] \in Marking
      BY <1>0 DEF ReadShapes
    <2>2. /\ \A u \in Viewers : u # t => ask'[u] = ask[u]
          /\ ask'[t] = [ask[t] EXCEPT !.at = end]
      BY <2>1, <1>3
    <2>3. PICK a \in Marking : a = ask[t]
      BY <2>1
    <2>4. PICK b : b = [a EXCEPT !.at = end]
      OBVIOUS
    <2>5. b \in Marking /\ b.at = end /\ b.ids = a.ids /\ b.value = a.value /\ b.kind = a.kind
      BY <2>4 DEF Marking
    <2> QED
      BY <2>2, <2>3, <2>4, <2>5, <1>1
  <1>5. ASSUME NEW u \in reached
        PROVE  /\ feed'[u] \in Seq(Flagged) /\ Len(feed'[u]) = Len(feed[u]) + 1
               /\ DOMAIN feed[u] = 1 .. Len(feed[u]) /\ Len(feed[u]) \in Nat
               /\ DOMAIN feed'[u] = 1 .. Len(feed[u]) + 1
               /\ \A i \in 1 .. Len(feed[u]) : feed'[u][i] = feed[u][i]
               /\ feed'[u][Len(feed[u]) + 1] = e
    <2>1. feed[u] \in Seq(Flagged) /\ feed'[u] = Append(feed[u], e)
      BY <1>0, <1>3 DEF ReadShapes
    <2> QED
      BY <2>1, AppendProperties
  <1>10. ASSUME NEW u \in Viewers \ reached
         PROVE  feed'[u] = feed[u] /\ feed'[u] \in Seq(Flagged)
    BY <1>0, <1>3 DEF ReadShapes
  <1>6. ReadShapes' /\ AllMarked'
    <2>1. ask' \in [Viewers -> Marking]
      BY <1>0, <1>3, <1>4 DEF ReadShapes
    <2>2. feed' \in [Viewers -> Seq(Flagged)]
      <3>1. \A u \in Viewers : feed'[u] \in Seq(Flagged)
        BY <1>5, <1>10
      <3> QED
        BY <3>1, <1>3
    <2>3. \A u \in Viewers : ask'[u].kind = "all" => ask'[u].ids = Letters /\ ask'[u].value
      BY <1>0, <1>1, <1>4 DEF AllMarked
    <2>4. ASSUME NEW u \in Viewers, NEW i \in DOMAIN feed'[u], feed'[u][i].all
          PROVE  feed'[u][i].ids = Letters /\ feed'[u][i].value
      <3>0. CASE u \notin reached
        BY <3>0, <2>4, <1>0, <1>10 DEF AllMarked
      <3>1. CASE u \in reached /\ i \in 1 .. Len(feed[u])
        BY <3>1, <2>4, <1>0, <1>5 DEF AllMarked
      <3>2. CASE u \in reached /\ i = Len(feed[u]) + 1
        <4>1. feed'[u][i] = e /\ all
          BY <3>2, <2>4, <1>2, <1>5
        <4> QED
          BY <4>1, <1>0, <1>1, <1>2 DEF AllMarked
      <3> QED
        BY <3>0, <3>1, <3>2, <1>5
    <2>5. AllMarked'
      BY <2>3, <2>4 DEF AllMarked
    <2>6. ReadShapes'
      BY <2>1, <2>2, <1>0, <1>3 DEF ReadShapes
    <2> QED
      BY <2>5, <2>6
  <1>7. CASE Muddle
    BY <1>3, <1>6, <1>7 DEF ReadInv, Muddle, ListFollows, BadgeFollows
  <1>8. CASE Written
    <2>1. \A m \in Letters, u \in Viewers : Updates(u, m)' <=> (u # t /\ Updates(u, m))
      BY <1>4 DEF Updates
    <2>2. \A m \in ids : Updates(t, m) /\ isRead[m] = v /\ ~Updated(m)'
      BY <2>1, <1>1, <1>3, <1>8 DEF Updates, Updated, Written
    <2>3. \A m \in Letters : m \notin ids => (Updated(m)' <=> Updated(m))
      BY <2>1, <1>1 DEF Updated, Updates
    <2>4. Written'
      BY <2>1, <1>3, <1>4, <1>8 DEF Written
    <2>5. ASSUME NEW u \in Viewers
          PROVE  ListFollows(u)'
      <3> SUFFICES ASSUME u \notin muddled', NEW m \in Letters
                   PROVE  Shown(u, m)'
        BY DEF ListFollows
      <3>1. Shown(u, m)
        BY <1>3 DEF ReadInv, ListFollows
      <3>5. CASE u \notin reached
        <4>1. feed[u] = <<>> /\ feed'[u] = <<>> /\ \A n \in ids : display[u][n] = v
          BY <3>5, <1>3, <1>10
        <4>2. DOMAIN feed[u] = {} /\ DOMAIN feed'[u] = {}
          BY <4>1
        <4>3. CASE m \in ids
          BY <4>1, <4>2, <4>3, <2>2, <1>3 DEF Shown
        <4>4. CASE m \notin ids
          <5>1. Updated(m)' <=> Updated(m)
            BY <4>4, <2>3
          <5>2. Toggled(u, m) => Toggled(u, m)'
            BY <4>4, <1>1, <1>4 DEF Toggled
          <5>3. ~Unheard(u, m)
            BY <4>2 DEF Unheard
          <5> QED
            BY <5>1, <5>2, <5>3, <4>2, <3>1, <1>3 DEF Shown
        <4> QED
          BY <4>3, <4>4
      <3> SUFFICES ASSUME u \in reached
                   PROVE  Shown(u, m)'
        BY <3>5
      <3>0. PICK n \in Nat : n = Len(feed[u])
        BY <1>5
      <3>2. \A i \in 1 .. n : LastOf(u, i, m)' => LastOf(u, i, m) /\ m \notin ids
        <4> SUFFICES ASSUME NEW i \in 1 .. n, LastOf(u, i, m)'
                     PROVE  LastOf(u, i, m) /\ m \notin ids
          OBVIOUS
        <4>1. n + 1 \in DOMAIN feed'[u] /\ n + 1 > i
          BY <3>0, <1>5
        <4>2. m \notin ids
          BY <4>1, <3>0, <1>2, <1>5 DEF LastOf
        <4>3. \A j \in 1 .. n : j > i => m \notin feed[u][j].ids
          BY <3>0, <1>5 DEF LastOf
        <4> QED
          BY <4>2, <4>3, <3>0, <1>5 DEF LastOf
      <3>3. CASE m \in ids
        <4>1. \A i \in DOMAIN feed'[u] : LastOf(u, i, m)' => i = n + 1
          <5>1. DOMAIN feed'[u] = 1 .. n + 1
            BY <3>0, <1>5
          <5>2. \A i \in 1 .. n + 1 : i \in 1 .. n \/ i = n + 1
            OBVIOUS
          <5> QED
            BY <5>1, <5>2, <3>2, <3>3
        <4>2. feed'[u][n + 1].value = isRead'[m] /\ Unheard(u, m)'
          BY <3>0, <3>3, <2>2, <1>2, <1>3, <1>5 DEF Unheard
        <4> QED
          BY <4>1, <4>2 DEF Shown
      <3>4. CASE m \notin ids
        <4>1. Updated(m)' <=> Updated(m)
          BY <3>4, <2>3
        <4>2. \A i \in DOMAIN feed'[u] : LastOf(u, i, m)' => i \in 1 .. n
          BY <3>0, <3>4, <1>2, <1>5 DEF LastOf
        <4>3. Unheard(u, m) => Unheard(u, m)'
          BY <3>0, <1>5 DEF Unheard
        <4>4. Toggled(u, m) => Toggled(u, m)'
          BY <1>1, <1>4, <3>4 DEF Toggled
        <4>5. \A i \in DOMAIN feed'[u] : LastOf(u, i, m)' => feed'[u][i].value = isRead'[m] \/ Updated(m)
          BY <4>2, <3>0, <3>1, <3>2, <1>3, <1>5 DEF Shown
        <4> QED
          BY <4>1, <4>3, <4>4, <4>5, <3>1, <1>3 DEF Shown
      <3> QED
        BY <3>3, <3>4
    <2>6. ASSUME NEW u \in Viewers
          PROVE  BadgeFollows(u)'
      <3> SUFFICES ASSUME u \notin miscounted'
                   PROVE  Counted(u)'
        BY DEF BadgeFollows
      <3>0. u \in reached /\ u \notin miscounted
        BY <1>3
      <3>1. PICK h \in [1 .. Len(feed[u]) + 1 -> Flags] :
               /\ badge[u] = Cardinality(UnreadIn(h[1]))
               /\ Passes(u, h) /\ Ends(h[Len(feed[u]) + 1])
        BY <3>0 DEF ReadInv, BadgeFollows, Counted
      <3>2. PICK n \in Nat : n = Len(feed[u])
        BY <3>0, <1>5
      <3>3. PICK f \in Flags : f = h[n + 1]
        BY <3>1, <3>2
      <3>4. PICK g \in Flags : /\ g = Changed(f, ids, v)
                               /\ \A m \in Letters : g[m] = IF m \in ids THEN v ELSE f[m]
        BY FlagsChange
      <3>5. PICK k \in [1 .. n + 2 -> Flags] :
               /\ \A i \in 1 .. n + 1 : k[i] = h[i]
               /\ k[n + 2] = g
        <4> DEFINE k == [i \in 1 .. n + 2 |-> IF i <= n + 1 THEN h[i] ELSE g]
        <4>1. k \in [1 .. n + 2 -> Flags]
          BY <3>1, <3>2
        <4>2. /\ \A i \in 1 .. n + 1 : k[i] = h[i]
              /\ k[n + 2] = g
          BY <3>2
        <4> QED
          BY <4>1, <4>2
      <3>6. ASSUME NEW i \in 1 .. n + 1
            PROVE  /\ k[i + 1] = Changed(k[i], feed'[u][i].ids, feed'[u][i].value)
                   /\ feed'[u][i].all \/ \A m \in feed'[u][i].ids : k[i][m] # feed'[u][i].value
        <4>1. CASE i \in 1 .. n
          <5>1. i + 1 \in 1 .. n + 1 /\ i \in DOMAIN feed[u] /\ feed'[u][i] = feed[u][i]
            BY <4>1, <3>2, <3>0, <1>5
          <5>2. k[i] = h[i] /\ k[i + 1] = h[i + 1]
            BY <5>1, <3>5
          <5> QED
            BY <5>1, <5>2, <3>1 DEF Passes
        <4>2. CASE i = n + 1
          <5>1. k[i] = f /\ i + 1 = n + 2 /\ k[i + 1] = g
            BY <4>2, <3>3, <3>5
          <5>2. feed'[u][i] = e
            BY <4>2, <3>2, <3>0, <1>5
          <5>3. all \/ \A m \in ids : f[m] # v
            BY <3>1, <3>2, <3>3, <2>2, <1>1 DEF Ends
          <5> QED
            BY <5>1, <5>2, <5>3, <3>4, <1>2
        <4> QED
          BY <4>1, <4>2
      <3>7. Passes(u, k)'
        BY <3>6, <3>2, <3>0, <1>5 DEF Passes
      <3>8. Ends(f)
        BY <3>1, <3>2, <3>3
      <3>9. Ends(g)'
        <4>1. \A m \in Letters : Updated(m)' \/ g[m] = isRead'[m]
          BY <3>4, <3>8, <2>2, <2>3, <1>3 DEF Ends
        <4>2. \A w \in Viewers, m \in Letters :
                 Updates(w, m)' /\ ask'[w].kind # "all" => g[m] # ask'[w].value
          <5> SUFFICES ASSUME NEW w \in Viewers, NEW m \in Letters, Updates(w, m)',
                              ask'[w].kind # "all"
                       PROVE  g[m] # ask'[w].value
            OBVIOUS
          <5>1. w # t /\ Updates(w, m) /\ ask'[w] = ask[w]
            BY <2>1, <1>4
          <5>2. m \notin ids
            BY <5>1, <2>2, <1>8 DEF Written
          <5> QED
            BY <5>1, <5>2, <3>4, <3>8 DEF Ends
        <4> QED
          BY <4>1, <4>2 DEF Ends
      <3>10. k[1] = h[1] /\ Len(feed'[u]) = n + 1 /\ n + 1 + 1 = n + 2
        BY <3>2, <3>5, <3>0, <1>5
      <3>11. /\ k \in [1 .. Len(feed'[u]) + 1 -> Flags]
             /\ badge'[u] = Cardinality(UnreadIn(k[1]))
             /\ k[Len(feed'[u]) + 1] = g
        BY <3>1, <3>5, <3>10, <1>3
      <3> QED
        BY <3>7, <3>9, <3>11 DEF Counted
    <2> QED
      BY <1>6, <2>4, <2>5, <2>6 DEF ReadInv
  <1> QED
    BY <1>0, <1>7, <1>8

(* What a request, an answer or a reload leaves as it is.                  *)
LEMMA RoutesStay ==
    ASSUME ReadInv, isRead' = isRead, muddled \subseteq muddled', miscounted \subseteq miscounted',
           \A u \in Viewers : /\ ask'[u].at = "updated" <=> ask[u].at = "updated"
                              /\ ask[u].at = "updated" => ask'[u] = ask[u]
    PROVE  (Muddle \/ Written)'
  <1>1. \A u \in Viewers, m \in Letters : Updates(u, m)' <=> Updates(u, m)
    BY DEF Updates
  <1>2. CASE Muddle
    BY <1>2 DEF Muddle
  <1>3. CASE Written
    <2>1. \A u \in Viewers, m \in Letters : Updates(u, m) => ask[u].at = "updated"
      BY DEF Updates
    <2> QED
      BY <1>1, <1>3, <2>1 DEF Written
  <1> QED
    BY <1>2, <1>3 DEF ReadInv

(* A request fails.                                                        *)
LEMMA FailSettles ==
    ASSUME ReadInv, NEW t \in Viewers, MarkFails(t)
    PROVE  ReadInv'
  <1>0. ReadShapes /\ AllMarked
    BY DEF ReadInv
  <1>1. /\ ask[t].at \in {"sent", "done"}
        /\ ask' = [ask EXCEPT ![t] = [@ EXCEPT !.at = "failed"]]
        /\ UNCHANGED <<isRead, feed, display, badge, reload, muddled, miscounted>>
    BY DEF MarkFails
  <1>2. /\ \A u \in Viewers : u # t => ask'[u] = ask[u]
        /\ ask'[t].at = "failed" /\ ask'[t].ids = ask[t].ids /\ ask'[t].value = ask[t].value
        /\ ask'[t].kind = ask[t].kind /\ ask'[t] \in Marking
    BY <1>0, <1>1 DEF ReadShapes, Marking
  <1>3. \A u \in Viewers : /\ ask'[u].at = "updated" <=> ask[u].at = "updated"
                           /\ ask[u].at = "updated" => ask'[u] = ask[u]
    BY <1>1, <1>2
  <1>4. ReadShapes'
    <2>1. ask' \in [Viewers -> Marking]
      BY <1>0, <1>1, <1>2 DEF ReadShapes
    <2> QED
      BY <2>1, <1>0, <1>1 DEF ReadShapes
  <1>5. AllMarked'
    BY <1>0, <1>1, <1>2 DEF AllMarked
  <1>6. (Muddle \/ Written)'
    BY <1>1, <1>3, RoutesStay
  <1>7. ASSUME NEW u \in Viewers
        PROVE  ListFollows(u)' /\ BadgeFollows(u)'
    <2>1. ListFollows(u) /\ BadgeFollows(u)
      BY DEF ReadInv
    <2>2. \A m \in Letters : Toggled(u, m) => Toggled(u, m)'
      BY <1>2 DEF Toggled
    <2>3. \A m \in Letters : Toggled(u, m)' \/ (display'[u][m] = display[u][m] /\ ~Toggled(u, m))
      BY <2>2, <1>1
    <2> QED
      BY <2>1, <2>3, <1>1, <1>3, ListStays, BadgeStays
  <1> QED
    BY <1>4, <1>5, <1>6, <1>7 DEF ReadInv

(* A list that is told flags shows those of the database or is muddled.    *)
LEMMA DisplayMuddles ==
    ASSUME NEW t \in Viewers, NEW flags \in Flags, Displays(t, flags),
           display \in [Viewers -> Flags]
    PROVE  /\ display' \in [Viewers -> Flags]
           /\ muddled \subseteq muddled'
           /\ t \in muddled' \/ display'[t] = isRead
           /\ \A u \in Viewers : u # t => display'[u] = display[u]
  BY DEF Displays

(* A request is answered.                                                  *)
LEMMA AnswerSettles ==
    ASSUME ReadInv, NEW t \in Viewers, MarkAnswered(t)
    PROVE  ReadInv'
  <1>0. ReadShapes /\ AllMarked
    BY DEF ReadInv
  <1>1. /\ ask[t].at \in {"done", "failed"} /\ ask' = [ask EXCEPT ![t] = NoAsk]
        /\ UNCHANGED <<isRead, feed, badge, reload, miscounted>>
    BY DEF MarkAnswered
  <1>2. /\ \A u \in Viewers : u # t => ask'[u] = ask[u]
        /\ ask'[t] = NoAsk /\ NoAsk \in Marking /\ NoAsk.at = "none" /\ NoAsk.kind = "none"
    BY <1>0, <1>1 DEF ReadShapes, Marking, NoAsk
  <1>3. \A u \in Viewers : /\ ask'[u].at = "updated" <=> ask[u].at = "updated"
                           /\ ask[u].at = "updated" => ask'[u] = ask[u]
    BY <1>1, <1>2
  <1>4. /\ display' \in [Viewers -> Flags] /\ muddled \subseteq muddled'
        /\ \A u \in Viewers : u # t => display'[u] = display[u]
        /\ \/ t \in muddled' \/ display'[t] = isRead
           \/ display'[t] = display[t] /\ \A m \in Letters : ~Toggled(t, m)
    <2>1. display \in [Viewers -> Flags] /\ display[t] \in Flags
      BY <1>0 DEF ReadShapes
    <2>2. ask[t].ids \in SUBSET Letters /\ ask[t].value \in BOOLEAN
      BY <1>0 DEF ReadShapes, Marking
    <2>3. CASE UNCHANGED <<display, muddled>> /\ (ask[t].kind # "one" \/ ask[t].at = "done")
      BY <2>1, <2>3 DEF Toggled
    <2>4. CASE Displays(t, Changed(display[t], ask[t].ids, ~ask[t].value))
      <3>1. PICK w \in BOOLEAN : w = (~ask[t].value)
        BY <2>2
      <3>2. Changed(display[t], ask[t].ids, w) \in Flags
        BY <2>1, <2>2, FlagsChange
      <3> QED
        BY <2>1, <2>4, <3>1, <3>2, DisplayMuddles
    <2>5. CASE \E shown \in SUBSET Letters : Displays(t, Changed(display[t], shown, TRUE))
      <3>1. PICK shown \in SUBSET Letters : Displays(t, Changed(display[t], shown, TRUE))
        BY <2>5
      <3>2. Changed(display[t], shown, TRUE) \in Flags
        BY <2>1, FlagsChange
      <3> QED
        BY <2>1, <3>1, <3>2, DisplayMuddles
    <2> QED
      BY <1>1, <2>3, <2>4, <2>5 DEF MarkAnswered
  <1>5. ReadShapes' /\ AllMarked'
    <2>1. ask' \in [Viewers -> Marking]
      BY <1>0, <1>1, <1>2 DEF ReadShapes
    <2>2. ReadShapes'
      BY <2>1, <1>0, <1>1, <1>4 DEF ReadShapes
    <2>3. AllMarked'
      BY <1>0, <1>1, <1>2 DEF AllMarked
    <2> QED
      BY <2>2, <2>3
  <1>6. (Muddle \/ Written)'
    BY <1>1, <1>3, <1>4, RoutesStay
  <1>7. ASSUME NEW u \in Viewers
        PROVE  ListFollows(u)' /\ BadgeFollows(u)'
    <2>1. ListFollows(u) /\ BadgeFollows(u)
      BY DEF ReadInv
    <2>2. \A m \in Letters : u \in muddled' \/ Toggled(u, m)' \/ display'[u][m] = isRead'[m]
                             \/ (display'[u][m] = display[u][m] /\ ~Toggled(u, m))
      <3>1. CASE u = t
        BY <3>1, <1>1, <1>4
      <3>2. CASE u # t
        <4>1. display'[u] = display[u] /\ \A m \in Letters : Toggled(u, m)' <=> Toggled(u, m)
          BY <3>2, <1>2, <1>4 DEF Toggled
        <4> QED
          BY <4>1
      <3> QED
        BY <3>1, <3>2
    <2> QED
      BY <2>1, <2>2, <1>1, <1>3, <1>4, ListStays, BadgeStays
  <1> QED
    BY <1>5, <1>6, <1>7 DEF ReadInv

(* The badge takes an event that changes all the messages it names.        *)
LEMMA BadgeCounts ==
    ASSUME NEW f \in Flags, NEW ids \in SUBSET Letters, NEW v \in BOOLEAN,
           \A m \in ids : f[m] # v
    PROVE  LET n == Cardinality(ids)
               c == Cardinality(UnreadIn(f))
           IN Cardinality(UnreadIn(Changed(f, ids, v)))
                = IF ~v THEN c + n ELSE IF c < n THEN 0 ELSE c - n
  <1>1. PICK g \in Flags : /\ g = Changed(f, ids, v)
                           /\ \A m \in Letters : g[m] = IF m \in ids THEN v ELSE f[m]
    BY FlagsChange
  <1>2. /\ UnreadIn(f) = {m \in Letters : ~f[m]} /\ UnreadIn(g) = {m \in Letters : ~g[m]}
        /\ IsFiniteSet(UnreadIn(f)) /\ Cardinality(UnreadIn(f)) \in Nat
    BY UnreadCounts
  <1>3. IsFiniteSet(ids) /\ Cardinality(ids) \in Nat
    BY ReadStateAssumption, FS_Subset, FS_CardinalityType
  <1>4. CASE v
    <2>1. \A m \in ids : ~f[m]
      BY <1>4
    <2>2. ids \subseteq UnreadIn(f)
      BY <2>1, <1>2
    <2>3. UnreadIn(g) = UnreadIn(f) \ ids
      <3>1. \A m \in Letters : ~g[m] <=> m \notin ids /\ ~f[m]
        BY <1>1, <1>4
      <3> QED
        BY <3>1, <1>2
    <2>4. UnreadIn(f) \cap ids = ids
      BY <2>2
    <2>5. Cardinality(UnreadIn(g)) = Cardinality(UnreadIn(f)) - Cardinality(ids)
      BY <2>3, <2>4, <1>2, FS_Difference
    <2>6. Cardinality(ids) <= Cardinality(UnreadIn(f))
      BY <2>2, <1>2, FS_Subset
    <2> QED
      BY <2>5, <2>6, <1>1, <1>2, <1>3, <1>4
  <1>5. CASE ~v
    <2>1. \A m \in ids : f[m]
      BY <1>5 DEF Flags
    <2>2. UnreadIn(f) \cap ids = {}
      BY <2>1, <1>2
    <2>3. UnreadIn(g) = UnreadIn(f) \cup ids
      <3>1. \A m \in Letters : ~g[m] <=> m \in ids \/ ~f[m]
        BY <1>1, <1>5
      <3> QED
        BY <3>1, <1>2
    <2>4. Cardinality(UnreadIn(g)) = Cardinality(UnreadIn(f)) + Cardinality(ids)
      <3>1. Cardinality(UnreadIn(f) \cup ids)
              = Cardinality(UnreadIn(f)) + Cardinality(ids) - Cardinality(UnreadIn(f) \cap ids)
        BY <1>2, <1>3, FS_Union
      <3>2. Cardinality(UnreadIn(f) \cap ids) = 0
        BY <2>2, FS_EmptySet
      <3> QED
        BY <2>3, <3>1, <3>2, <1>2, <1>3
    <2> QED
      BY <2>4, <1>1, <1>5
  <1> QED
    BY <1>4, <1>5

(* An event arrives: list and badge take what it changes.                  *)
LEMMA HearSettles ==
    ASSUME ReadInv, NEW t \in Viewers, HearRead(t)
    PROVE  ReadInv'
  <1>0. ReadShapes /\ AllMarked
    BY DEF ReadInv
  <1>1. PICK e \in Flagged, n \in Nat :
           /\ feed[t] # <<>> /\ feed[t] \in Seq(Flagged)
           /\ e = Head(feed[t]) /\ e = feed[t][1] /\ Len(feed[t]) = n + 1
           /\ 1 \in DOMAIN feed[t]
    <2>1. feed[t] \in Seq(Flagged) /\ feed[t] # <<>>
      BY <1>0 DEF ReadShapes, HearRead
    <2>2. Len(feed[t]) \in Nat /\ Len(feed[t]) # 0
      BY <2>1, EmptySeq
    <2>3. 1 \in 1 .. Len(feed[t])
      BY <2>2
    <2>6. 1 \in DOMAIN feed[t]
      BY <2>1, <2>3, LenProperties
    <2>4. feed[t][1] \in Flagged /\ Head(feed[t]) = feed[t][1]
      BY <2>1, <2>3, ElementOfSeq
    <2>5. Len(feed[t]) - 1 \in Nat /\ Len(feed[t]) = (Len(feed[t]) - 1) + 1
      BY <2>2
    <2> QED
      BY <2>1, <2>4, <2>5, <2>6
  <1>2. PICK ids \in SUBSET Letters, v \in BOOLEAN, all \in BOOLEAN :
           ids = e.ids /\ v = e.value /\ all = e.all
    BY DEF Flagged
  <1>3. all => ids = Letters /\ v
    <2>1. ASSUME feed[t][1].all
          PROVE  feed[t][1].ids = Letters /\ feed[t][1].value
      BY <2>1, <1>0, <1>1 DEF AllMarked
    <2>2. e.all => e.ids = Letters /\ e.value
      BY <2>1, <1>1
    <2> QED
      BY <2>2, <1>2
  <1>4. /\ feed' = [feed EXCEPT ![t] = Tail(@)]
        /\ display' = [display EXCEPT ![t] = Changed(@, ids, v)]
        /\ badge' = [badge EXCEPT ![t] = IF all THEN 0
                                         ELSE IF ~v THEN @ + Cardinality(ids)
                                         ELSE IF @ < Cardinality(ids) THEN 0 ELSE @ - Cardinality(ids)]
        /\ UNCHANGED <<isRead, ask, reload, muddled, miscounted>>
    BY <1>1, <1>2 DEF HearRead
  <1>5. /\ \A u \in Viewers : u # t => /\ feed'[u] = feed[u] /\ display'[u] = display[u]
                                       /\ badge'[u] = badge[u]
        /\ badge'[t] = IF all THEN 0
                       ELSE IF ~v THEN badge[t] + Cardinality(ids)
                       ELSE IF badge[t] < Cardinality(ids) THEN 0 ELSE badge[t] - Cardinality(ids)
        /\ display'[t] = Changed(display[t], ids, v)
    BY <1>0, <1>4 DEF ReadShapes
  <1>6. /\ feed'[t] \in Seq(Flagged) /\ Len(feed'[t]) = n
        /\ DOMAIN feed'[t] = 1 .. n /\ DOMAIN feed[t] = 1 .. n + 1
        /\ \A i \in 1 .. n : feed'[t][i] = feed[t][i + 1]
    <2>1. feed'[t] = Tail(feed[t])
      BY <1>0, <1>4 DEF ReadShapes
    <2> QED
      BY <2>1, <1>1, HeadTailProperties
  <1>7. display[t] \in Flags /\ display'[t] \in Flags
        /\ \A m \in Letters : display'[t][m] = IF m \in ids THEN v ELSE display[t][m]
    <2>1. display[t] \in Flags
      BY <1>0 DEF ReadShapes
    <2> QED
      BY <2>1, <1>5, FlagsChange
  <1>8. Cardinality(ids) \in Nat
    BY ReadStateAssumption, FS_Subset, FS_CardinalityType
  <1>9. ReadShapes'
    <2>1. badge[t] \in Nat
      BY <1>0 DEF ReadShapes
    <2>2. badge'[t] \in Nat
      BY <2>1, <1>5, <1>8
    <2>3. badge' \in [Viewers -> Nat] /\ feed' \in [Viewers -> Seq(Flagged)]
          /\ display' \in [Viewers -> Flags]
      BY <2>2, <1>0, <1>4, <1>5, <1>6, <1>7 DEF ReadShapes
    <2> QED
      BY <2>3, <1>0, <1>4 DEF ReadShapes
  <1>10. AllMarked'
    <2>1. ASSUME NEW u \in Viewers, NEW i \in DOMAIN feed'[u], feed'[u][i].all
          PROVE  feed'[u][i].ids = Letters /\ feed'[u][i].value
      <3>1. CASE u = t
        <4>1. i + 1 \in DOMAIN feed[t] /\ feed'[u][i] = feed[t][i + 1]
          BY <3>1, <1>6
        <4> QED
          BY <4>1, <2>1, <1>0 DEF AllMarked
      <3>2. CASE u # t
        BY <3>2, <2>1, <1>0, <1>5 DEF AllMarked
      <3> QED
        BY <3>1, <3>2
    <2> QED
      BY <2>1, <1>0, <1>4 DEF AllMarked
  <1>11. (Muddle \/ Written)'
    BY <1>4, RoutesStay
  <1>12. /\ \A m \in Letters, u \in Viewers : Updates(u, m)' <=> Updates(u, m)
         /\ \A m \in Letters : Updated(m)' <=> Updated(m)
    BY <1>4 DEF Updates, Updated
  <1>13. ASSUME NEW u \in Viewers
         PROVE  ListFollows(u)'
    <2>0. ListFollows(u)
      BY DEF ReadInv
    <2>1. CASE u # t
      <3>1. \A m \in Letters : Toggled(u, m)' <=> Toggled(u, m)
        BY <1>4 DEF Toggled
      <3> QED
        BY <3>1, <2>0, <2>1, <1>4, <1>5, ListStays
    <2>2. CASE u = t
      <3> SUFFICES ASSUME t \notin muddled, NEW m \in Letters
                   PROVE  Shown(t, m)'
        BY <2>2, <1>4 DEF ListFollows
      <3>1. Shown(t, m)
        BY <2>0, <2>2 DEF ListFollows
      <3>2. \A i \in 1 .. n : i + 1 \in 1 .. n + 1 /\ (LastOf(t, i, m)' => LastOf(t, i + 1, m))
        <4> SUFFICES ASSUME NEW i \in 1 .. n
                     PROVE  i + 1 \in 1 .. n + 1 /\ (LastOf(t, i, m)' => LastOf(t, i + 1, m))
          OBVIOUS
        <4>1. i + 1 \in 1 .. n + 1
          OBVIOUS
        <4>2. ASSUME LastOf(t, i, m)'
              PROVE  LastOf(t, i + 1, m)
          <5>1. ASSUME NEW j \in 1 .. n + 1, j > i + 1
                PROVE  m \notin feed[t][j].ids
            <6>1. j - 1 \in 1 .. n /\ j - 1 > i /\ (j - 1) + 1 = j
              BY <5>1
            <6> QED
              BY <6>1, <4>2, <1>6 DEF LastOf
          <5>2. m \in feed[t][i + 1].ids
            BY <4>2, <1>6 DEF LastOf
          <5> QED
            BY <5>1, <5>2, <1>6 DEF LastOf
        <4> QED
          BY <4>1, <4>2
      <3>3. CASE Updated(m)
        BY <3>3, <1>12 DEF Shown
      <3>4. CASE ~Updated(m)
        <4>1. \A i \in DOMAIN feed'[t] : LastOf(t, i, m)' => feed'[t][i].value = isRead'[m]
          <5> SUFFICES ASSUME NEW i \in 1 .. n, LastOf(t, i, m)'
                       PROVE  feed'[t][i].value = isRead'[m]
            BY <1>6
          <5>1. i + 1 \in DOMAIN feed[t] /\ LastOf(t, i + 1, m)
            BY <3>2, <1>6
          <5>2. feed[t][i + 1].value = isRead[m]
            BY <5>1, <3>1, <3>4 DEF Shown
          <5> QED
            BY <5>2, <1>4, <1>6
        <4>2. Unheard(t, m)' \/ Toggled(t, m)' \/ display'[t][m] = isRead'[m]
          <5>1. CASE m \in ids /\ ~Unheard(t, m)'
            <6>1. \A j \in 2 .. n + 1 : m \notin feed[t][j].ids
              <7> SUFFICES ASSUME NEW j \in 2 .. n + 1
                           PROVE  m \notin feed[t][j].ids
                OBVIOUS
              <7>1. j - 1 \in 1 .. n /\ (j - 1) + 1 = j
                OBVIOUS
              <7> QED
                BY <7>1, <5>1, <1>6 DEF Unheard
            <6>2. 1 \in 1 .. n + 1 /\ \A j \in 1 .. n + 1 : j > 1 => j \in 2 .. n + 1
              OBVIOUS
            <6>3. LastOf(t, 1, m)
              BY <5>1, <6>1, <6>2, <1>1, <1>2, <1>6 DEF LastOf
            <6>4. v = isRead[m]
              BY <6>2, <6>3, <3>1, <3>4, <1>1, <1>2, <1>6 DEF Shown
            <6> QED
              BY <5>1, <6>4, <1>4, <1>7
          <5>2. CASE m \notin ids
            <6>1. Unheard(t, m) => Unheard(t, m)'
              <7> SUFFICES ASSUME NEW j \in 1 .. n + 1, m \in feed[t][j].ids
                           PROVE  Unheard(t, m)'
                BY <1>6 DEF Unheard
              <7>1. j # 1
                BY <5>2, <1>1, <1>2
              <7>2. j - 1 \in 1 .. n /\ (j - 1) + 1 = j
                BY <7>1
              <7> QED
                BY <7>2, <1>6 DEF Unheard
            <6>2. Toggled(t, m)' <=> Toggled(t, m)
              BY <1>4 DEF Toggled
            <6> QED
              BY <5>2, <6>1, <6>2, <3>1, <3>4, <1>4, <1>7 DEF Shown
          <5> QED
            BY <5>1, <5>2
        <4> QED
          BY <4>1, <4>2 DEF Shown
      <3> QED
        BY <3>3, <3>4
    <2> QED
      BY <2>1, <2>2
  <1>14. ASSUME NEW u \in Viewers
         PROVE  BadgeFollows(u)'
    <2>0. BadgeFollows(u)
      BY DEF ReadInv
    <2>1. CASE u # t
      BY <2>0, <2>1, <1>4, <1>5, BadgeStays
    <2>2. CASE u = t
      <3> SUFFICES ASSUME t \notin miscounted
                   PROVE  Counted(t)'
        BY <2>2, <1>4 DEF BadgeFollows
      <3>1. PICK h \in [1 .. n + 2 -> Flags] :
               /\ badge[t] = Cardinality(UnreadIn(h[1]))
               /\ Passes(t, h) /\ Ends(h[n + 2])
        <4>1. Len(feed[t]) + 1 = n + 2
          BY <1>1
        <4> QED
          BY <4>1, <2>0, <2>2 DEF BadgeFollows, Counted
      <3>2. PICK k \in [1 .. n + 1 -> Flags] : \A i \in 1 .. n + 1 : k[i] = h[i + 1]
        <4> DEFINE k == [i \in 1 .. n + 1 |-> h[i + 1]]
        <4>1. \A i \in 1 .. n + 1 : i + 1 \in 1 .. n + 2
          OBVIOUS
        <4>2. k \in [1 .. n + 1 -> Flags]
          BY <4>1
        <4> QED
          BY <4>2
      <3>3. PICK f \in Flags : f = h[1]
        OBVIOUS
      <3>4. 1 \in 1 .. n + 1 /\ n + 1 \in 1 .. n + 1 /\ (n + 1) + 1 = n + 2 /\ 1 + 1 = 2
        OBVIOUS
      <3>5. /\ k[1] = Changed(f, ids, v)
            /\ all \/ \A m \in ids : f[m] # v
        <4>1. h[1 + 1] = Changed(h[1], ids, v) /\ (all \/ \A m \in ids : h[1][m] # v)
          BY <3>1, <3>4, <1>1, <1>2, <1>6 DEF Passes
        <4> QED
          BY <4>1, <3>2, <3>3, <3>4
      <3>6. badge'[t] = Cardinality(UnreadIn(k[1]))
        <4>1. CASE all
          <5>1. UnreadIn(Changed(f, ids, v)) = {}
            <6>1. PICK g \in Flags : /\ g = Changed(f, ids, v)
                                     /\ \A m \in Letters : g[m] = IF m \in ids THEN v ELSE f[m]
              BY FlagsChange
            <6>2. UnreadIn(g) = {m \in Letters : ~g[m]}
              BY UnreadCounts
            <6> QED
              BY <4>1, <6>1, <6>2, <1>3
          <5> QED
            BY <4>1, <5>1, <3>5, <1>5, FS_EmptySet
        <4>2. CASE ~all
          <5>1. \A m \in ids : f[m] # v
            BY <4>2, <3>5
          <5>2. Cardinality(UnreadIn(Changed(f, ids, v)))
                  = IF ~v THEN badge[t] + Cardinality(ids)
                    ELSE IF badge[t] < Cardinality(ids) THEN 0 ELSE badge[t] - Cardinality(ids)
            BY <5>1, <3>1, <3>3, BadgeCounts
          <5> QED
            BY <4>2, <5>2, <3>5, <1>5
        <4> QED
          BY <4>1, <4>2
      <3>7. ASSUME NEW i \in DOMAIN feed'[t]
            PROVE  /\ k[i + 1] = Changed(k[i], feed'[t][i].ids, feed'[t][i].value)
                   /\ feed'[t][i].all \/ \A m \in feed'[t][i].ids : k[i][m] # feed'[t][i].value
        <4>1. i \in 1 .. n /\ i \in 1 .. n + 1 /\ i + 1 \in 1 .. n + 1
          BY <1>6
        <4>2. /\ h[(i + 1) + 1] = Changed(h[i + 1], feed[t][i + 1].ids, feed[t][i + 1].value)
              /\ \/ feed[t][i + 1].all
                 \/ \A m \in feed[t][i + 1].ids : h[i + 1][m] # feed[t][i + 1].value
          BY <4>1, <3>1, <1>6 DEF Passes
        <4>3. k[i] = h[i + 1] /\ k[i + 1] = h[(i + 1) + 1] /\ feed'[t][i] = feed[t][i + 1]
          BY <4>1, <3>2, <1>6
        <4> QED
          BY <4>2, <4>3
      <3>8. Passes(t, k)'
        BY <3>7 DEF Passes
      <3>9. k[n + 1] = h[n + 2]
        BY <3>2, <3>4
      <3>10. Ends(k[n + 1])'
        BY <3>1, <3>9, <1>4, <1>12 DEF Ends
      <3> QED
        BY <3>6, <3>8, <3>10, <1>6 DEF Counted
    <2> QED
      BY <2>1, <2>2
  <1> QED
    BY <1>9, <1>10, <1>11, <1>13, <1>14 DEF ReadInv

(* The list or the sidebar is asked for again.                             *)
LEMMA AskSettles ==
    ASSUME ReadInv, NEW t \in Viewers, NEW of \in {"list", "sidebar"}, StartReload(t, of)
    PROVE  ReadInv'
  <1>0. ReadShapes /\ AllMarked
    BY DEF ReadInv
  <1>1. /\ reload' = [reload EXCEPT ![t] = [of |-> of, flags |-> UnreadIn(isRead)]]
        /\ UNCHANGED <<isRead, feed, display, badge, ask, muddled, miscounted>>
    BY DEF StartReload
  <1>2. UnreadIn(isRead) \in SUBSET Letters
    BY <1>0, UnreadCounts DEF ReadShapes
  <1>3. ReadShapes'
    <2>1. reload' \in [Viewers -> [of : {"none", "list", "sidebar"}, flags : SUBSET Letters]]
      BY <1>0, <1>1, <1>2 DEF ReadShapes
    <2> QED
      BY <2>1, <1>0, <1>1 DEF ReadShapes
  <1>4. AllMarked'
    BY <1>0, <1>1 DEF AllMarked
  <1>5. (Muddle \/ Written)'
    BY <1>1, RoutesStay
  <1>6. ASSUME NEW u \in Viewers
        PROVE  ListFollows(u)' /\ BadgeFollows(u)'
    <2>1. ListFollows(u) /\ BadgeFollows(u)
      BY DEF ReadInv
    <2>2. \A m \in Letters : Toggled(u, m)' <=> Toggled(u, m)
      BY <1>1 DEF Toggled
    <2> QED
      BY <2>1, <2>2, <1>1, ListStays, BadgeStays
  <1> QED
    BY <1>3, <1>4, <1>5, <1>6 DEF ReadInv

(* What was asked for is shown.                                            *)
LEMMA ShowSettles ==
    ASSUME ReadInv, NEW t \in Viewers, ShowReload(t)
    PROVE  ReadInv'
  <1> DEFINE flags == reload[t].flags
             Late == \/ feed[t] # <<>> \/ flags # UnreadIn(isRead)
                     \/ \E u \in Viewers : ask[u].at = "updated"
  <1>0. ReadShapes /\ AllMarked
    BY DEF ReadInv
  <1>1. /\ reload' = [reload EXCEPT ![t] = NoReload]
        /\ UNCHANGED <<isRead, feed, ask>>
        /\ \/ /\ display' = [display EXCEPT ![t] = [m \in Letters |-> m \notin flags]]
              /\ muddled' = IF ~Late THEN muddled \ {t}
                            ELSE IF flags # UnreadIn(isRead) THEN muddled \cup {t} ELSE muddled
              /\ UNCHANGED <<badge, miscounted>>
           \/ /\ badge' = [badge EXCEPT ![t] = Cardinality(flags)]
              /\ miscounted' = IF Late THEN miscounted \cup {t} ELSE miscounted \ {t}
              /\ UNCHANGED <<display, muddled>>
    BY DEF ShowReload
  <1>2. flags \in SUBSET Letters
    BY <1>0 DEF ReadShapes
  <1>3. Cardinality(flags) \in Nat
    BY <1>2, ReadStateAssumption, FS_Subset, FS_CardinalityType
  <1>4. /\ display' \in [Viewers -> Flags]
        /\ \A u \in Viewers : u # t => /\ display'[u] = display[u]
                                       /\ u \in muddled => u \in muddled'
        /\ \/ muddled \subseteq muddled'
              /\ (display'[t] = display[t] \/ t \in muddled' \/ display'[t] = isRead)
           \/ ~Late /\ display'[t] = isRead
    <2>1. display \in [Viewers -> Flags] /\ isRead \in Flags
      BY <1>0 DEF ReadShapes
    <2>2. PICK f \in Flags : f = [m \in Letters |-> m \notin flags]
      BY DEF Flags
    <2>3. CASE UNCHANGED <<display, muddled>>
      BY <2>1, <2>3
    <2>4. CASE /\ display' = [display EXCEPT ![t] = f]
               /\ muddled' = IF ~Late THEN muddled \ {t}
                             ELSE IF flags # UnreadIn(isRead) THEN muddled \cup {t} ELSE muddled
      <3>1. /\ display' \in [Viewers -> Flags] /\ display'[t] = f
            /\ \A u \in Viewers : u # t => display'[u] = display[u]
        BY <2>1, <2>4
      <3>2. ASSUME flags = UnreadIn(isRead)
            PROVE  f = isRead
        <4>1. UnreadIn(isRead) = {m \in Letters : ~isRead[m]}
          BY <2>1, UnreadCounts
        <4>2. \A m \in Letters : f[m] = isRead[m]
          BY <4>1, <3>2, <2>1, <2>2 DEF Flags
        <4> QED
          BY <4>2, <2>1 DEF Flags
      <3>3. CASE Late
        <4> HIDE DEF Late, flags
        <4> QED
          BY <3>1, <3>2, <3>3, <2>4
      <3>4. CASE ~Late
        <4>1. flags = UnreadIn(isRead)
          BY <3>4
        <4> HIDE DEF Late, flags
        <4> QED
          BY <4>1, <3>1, <3>2, <3>4, <2>4
      <3> QED
        BY <3>3, <3>4
    <2> QED
      BY <2>2, <2>3, <2>4, <1>1
  <1>5. /\ badge' \in [Viewers -> Nat]
        /\ \A u \in Viewers : u # t => /\ badge'[u] = badge[u]
                                       /\ u \in miscounted => u \in miscounted'
        /\ \/ badge'[t] = badge[t] /\ miscounted' = miscounted
           \/ t \in miscounted' /\ miscounted \subseteq miscounted'
           \/ badge'[t] = Cardinality(flags) /\ ~Late
        /\ Late => miscounted \subseteq miscounted' /\ muddled \subseteq muddled'
    <2>1. badge \in [Viewers -> Nat]
      BY <1>0 DEF ReadShapes
    <2> HIDE DEF Late, flags
    <2> QED
      BY <2>1, <1>1, <1>3
  <1>6. ReadShapes'
    <2>1. NoReload \in [of : {"none", "list", "sidebar"}, flags : SUBSET Letters]
      BY DEF NoReload
    <2>2. reload' \in [Viewers -> [of : {"none", "list", "sidebar"}, flags : SUBSET Letters]]
      BY <2>1, <1>0, <1>1 DEF ReadShapes
    <2> QED
      BY <2>2, <1>0, <1>1, <1>4, <1>5 DEF ReadShapes
  <1>7. AllMarked'
    BY <1>0, <1>1 DEF AllMarked
  <1>8. (Muddle \/ Written)'
    <2>1. CASE Late
      BY <2>1, <1>1, <1>5, RoutesStay
    <2>2. CASE ~Late
      <3>1. \A u \in Viewers, m \in Letters : ~Updates(u, m)'
        BY <2>2, <1>1 DEF Updates
      <3> QED
        BY <3>1 DEF Written
    <2> QED
      BY <2>1, <2>2
  <1>9. ASSUME NEW u \in Viewers
        PROVE  ListFollows(u)'
    <2>1. ListFollows(u)
      BY DEF ReadInv
    <2>2. \A m \in Letters : Toggled(u, m)' <=> Toggled(u, m)
      BY <1>1 DEF Toggled
    <2>3. CASE \/ u # t
               \/ /\ muddled \subseteq muddled'
                  /\ display'[t] = display[t] \/ t \in muddled' \/ display'[t] = isRead
      <3>1. \A m \in Letters : u \in muddled' \/ Toggled(u, m)' \/ display'[u][m] = isRead'[m]
                               \/ (display'[u][m] = display[u][m] /\ ~Toggled(u, m))
        BY <2>2, <2>3, <1>1, <1>4
      <3>2. u \in muddled => u \in muddled'
        BY <2>3, <1>4
      <3> QED
        BY <3>1, <3>2, <2>1, <1>1, ListStays
    <2>4. CASE u = t /\ ~Late /\ display'[t] = isRead
      <3>1. feed'[t] = <<>> /\ DOMAIN feed'[t] = {}
        BY <2>4, <1>1
      <3>2. \A m \in Letters : Shown(t, m)'
        BY <3>1, <2>4, <1>1 DEF Shown
      <3> QED
        BY <3>2, <2>4 DEF ListFollows
    <2> HIDE DEF Late
    <2> QED
      BY <2>3, <2>4, <1>4
  <1>10. ASSUME NEW u \in Viewers
         PROVE  BadgeFollows(u)'
    <2>1. BadgeFollows(u)
      BY DEF ReadInv
    <2>2. CASE badge'[u] = badge[u] /\ (u \in miscounted => u \in miscounted')
      BY <2>1, <2>2, <1>1, BadgeStays
    <2>3. CASE u \in miscounted'
      BY <2>3 DEF BadgeFollows
    <2>4. CASE u = t /\ badge'[t] = Cardinality(flags) /\ ~Late
      <3>1. PICK h \in [1 .. 1 -> Flags] : h[1] = isRead
        <4>1. isRead \in Flags
          BY <1>0 DEF ReadShapes
        <4>2. [i \in 1 .. 1 |-> isRead] \in [1 .. 1 -> Flags]
              /\ [i \in 1 .. 1 |-> isRead][1] = isRead
          BY <4>1
        <4> QED
          BY <4>2
      <3>2. feed'[t] = <<>> /\ Len(feed'[t]) = 0 /\ DOMAIN feed'[t] = {} /\ 0 + 1 = 1
        BY <2>4, <1>1
      <3>3. Passes(t, h)'
        BY <3>2 DEF Passes
      <3>4. \A w \in Viewers, m \in Letters : ~Updates(w, m)'
        BY <2>4, <1>1 DEF Updates
      <3>5. Ends(h[1])'
        BY <3>1, <3>4, <1>1 DEF Ends
      <3>6. badge'[t] = Cardinality(UnreadIn(h[1]))
        BY <2>4, <3>1
      <3>7. Counted(t)'
        BY <3>2, <3>3, <3>5, <3>6 DEF Counted
      <3> QED
        BY <2>4, <3>7 DEF BadgeFollows
    <2> HIDE DEF Late, flags
    <2> QED
      BY <2>2, <2>3, <2>4, <1>5
  <1> QED
    BY <1>6, <1>7, <1>8, <1>9, <1>10 DEF ReadInv

(* All flags start as in the database.                                     *)
LEMMA ReadStarts == ReadInit => ReadInv
  <1> SUFFICES ASSUME ReadInit
               PROVE  ReadInv
    OBVIOUS
  <1>1. /\ isRead = [m \in Letters |-> FALSE] /\ feed = [t \in Viewers |-> <<>>]
        /\ display = [t \in Viewers |-> isRead] /\ badge = [t \in Viewers |-> Cardinality(Letters)]
        /\ ask = [t \in Viewers |-> NoAsk] /\ reload = [t \in Viewers |-> NoReload]
    BY DEF ReadInit
  <1>2. isRead \in Flags
    BY <1>1 DEF Flags
  <1>3. Cardinality(Letters) \in Nat
    BY ReadStateAssumption, FS_CardinalityType
  <1>4. NoAsk \in Marking /\ NoAsk.at = "none" /\ NoAsk.kind = "none"
        /\ NoReload \in [of : {"none", "list", "sidebar"}, flags : SUBSET Letters]
    BY DEF NoAsk, NoReload, Marking
  <1>5. ReadShapes
    <2>1. \A t \in Viewers : feed[t] \in Seq(Flagged)
      BY <1>1
    <2> QED
      BY <2>1, <1>1, <1>2, <1>3, <1>4 DEF ReadShapes
  <1>6. \A t \in Viewers : DOMAIN feed[t] = {} /\ Len(feed[t]) = 0 /\ 0 + 1 = 1
    BY <1>1
  <1>7. AllMarked
    BY <1>1, <1>4, <1>6 DEF AllMarked
  <1>8. \A u \in Viewers, m \in Letters : ~Updates(u, m)
    BY <1>1, <1>4 DEF Updates
  <1>9. Written
    BY <1>8 DEF Written
  <1>10. ASSUME NEW t \in Viewers
         PROVE  ListFollows(t) /\ BadgeFollows(t)
    <2>1. ListFollows(t)
      BY <1>1, <1>6 DEF ListFollows, Shown
    <2>2. PICK h \in [1 .. 1 -> Flags] : h[1] = isRead
      <3>1. [i \in 1 .. 1 |-> isRead] \in [1 .. 1 -> Flags]
            /\ [i \in 1 .. 1 |-> isRead][1] = isRead
        BY <1>2
      <3> QED
        BY <3>1
    <2>3. UnreadIn(isRead) = Letters
      <3>1. UnreadIn(isRead) = {m \in Letters : ~isRead[m]}
        BY <1>2, UnreadCounts
      <3> QED
        BY <3>1, <1>1
    <2>4. badge[t] = Cardinality(UnreadIn(h[1]))
      BY <1>1, <2>2, <2>3
    <2>5. Passes(t, h)
      BY <1>6 DEF Passes
    <2>6. Ends(h[1])
      BY <1>8, <2>2 DEF Ends
    <2>7. Counted(t)
      BY <1>6, <2>4, <2>5, <2>6 DEF Counted
    <2> QED
      BY <2>1, <2>7 DEF BadgeFollows
  <1> QED
    BY <1>5, <1>7, <1>9, <1>10 DEF ReadInv

(* Where nothing is on its way any more, list and badge have settled.      *)
LEMMA RestSettles == ReadInv => ReadStateSettles
  <1> SUFFICES ASSUME ReadInv, NEW t \in Viewers, AtRest(t)
               PROVE  /\ t \notin muddled => display[t] = isRead
                      /\ t \notin miscounted => badge[t] = Cardinality(UnreadIn(isRead))
    BY DEF ReadStateSettles
  <1>0. isRead \in Flags /\ display[t] \in Flags /\ ListFollows(t) /\ BadgeFollows(t)
    BY DEF ReadInv, ReadShapes
  <1>1. feed[t] = <<>> /\ \A u \in Viewers : ask[u].at = "none" /\ ask[u].kind = "none"
    BY DEF AtRest, NoAsk
  <1>2. DOMAIN feed[t] = {} /\ Len(feed[t]) = 0 /\ 0 + 1 = 1
    BY <1>1
  <1>3. \A m \in Letters : ~Updated(m) /\ ~Unheard(t, m) /\ ~Toggled(t, m)
    BY <1>1, <1>2 DEF Updated, Updates, Unheard, Toggled
  <1>4. ASSUME t \notin muddled
        PROVE  display[t] = isRead
    <2>1. \A m \in Letters : display[t][m] = isRead[m]
      BY <1>0, <1>3, <1>4 DEF ListFollows, Shown
    <2> QED
      BY <1>0, <2>1 DEF Flags
  <1>5. ASSUME t \notin miscounted
        PROVE  badge[t] = Cardinality(UnreadIn(isRead))
    <2>1. PICK h \in [1 .. 1 -> Flags] : badge[t] = Cardinality(UnreadIn(h[1])) /\ Ends(h[1])
      BY <1>0, <1>2, <1>5 DEF BadgeFollows, Counted
    <2>2. PICK f \in Flags : f = h[1]
      OBVIOUS
    <2>3. \A m \in Letters : f[m] = isRead[m]
      BY <2>1, <2>2, <1>3 DEF Ends
    <2>4. f = isRead
      BY <2>3, <1>0 DEF Flags
    <2> QED
      BY <2>1, <2>2, <2>4
  <1> QED
    BY <1>4, <1>5

(* What the browsers asked for is bounded, and only browsers are muddled.  *)
ReadFlags == marks \in 0 .. MaxMarks /\ muddled \subseteq Viewers /\ miscounted \subseteq Viewers

(* Every step keeps it.                                                    *)
LEMMA ReadFlagsStay ==
    ASSUME ReadFlags, [ReadNext]_readVars
    PROVE  ReadFlags'
  <1> USE DEF ReadFlags
  <1>1. ASSUME marks < MaxMarks, marks' = marks + 1, UNCHANGED <<muddled, miscounted>>
        PROVE  ReadFlags'
    BY <1>1, ReadStateAssumption
  <1>2. ASSUME UNCHANGED marks, muddled' \subseteq Viewers, miscounted' \subseteq Viewers
        PROVE  ReadFlags'
    BY <1>2
  <1>3. ASSUME NEW t \in Viewers, MarkPageRead(t) \/ \E m \in Letters : ToggleRead(t, m)
        PROVE  ReadFlags'
    BY <1>1, <1>3 DEF MarkPageRead, ToggleRead, Mark
  <1>4. ASSUME NEW t \in Viewers, NEW of \in {"list", "sidebar"}, StartReload(t, of)
        PROVE  ReadFlags'
    BY <1>1, <1>4 DEF StartReload
  <1>5. ASSUME NEW t \in Viewers, UpdateRead(t)
        PROVE  ReadFlags'
    BY <1>2, <1>5 DEF UpdateRead
  <1>6. ASSUME NEW t \in Viewers, PublishRead(t) \/ PublishFails(t) \/ MarkFails(t) \/ HearRead(t)
        PROVE  ReadFlags'
    <2>1. UNCHANGED marks /\ muddled' \subseteq Viewers /\ miscounted' \subseteq Viewers
      BY <1>6 DEF PublishRead, PublishFails, Told, MarkFails, HearRead
    <2> QED
      BY <1>2, <2>1
  <1>7. ASSUME NEW t \in Viewers, MarkAnswered(t) \/ ShowReload(t)
        PROVE  ReadFlags'
    <2>1. UNCHANGED marks /\ muddled' \in {muddled, muddled \cup {t}, muddled \ {t}}
          /\ miscounted' \in {miscounted, miscounted \cup {t}, miscounted \ {t}}
      BY <1>7 DEF MarkAnswered, ShowReload, Displays
    <2> QED
      BY <1>2, <2>1
  <1> QED
    BY <1>2, <1>3, <1>4, <1>5, <1>6, <1>7 DEF ReadNext, readVars

(* ReadState.ReadStateSettles: however toggles, "mark page", the routes    *)
(* that set is_read, their events and reloads of several browsers          *)
(* interleave, and whichever browsers an event misses or no event is       *)
(* published, list and badge end as in the database, except where the code *)
(* of useInboxMessages.ts or default.vue took an older value or missed a   *)
(* change that list or badge did not have yet, and only until the next     *)
(* reload that no change crosses.                                          *)
THEOREM ReadFlagsSettle == ReadSpec => [](ReadTypeOK /\ ReadStateSettles)
  <1>1. ReadInv /\ [ReadNext]_readVars => ReadInv'
    <2> SUFFICES ASSUME ReadInv, [ReadNext]_readVars
                 PROVE  ReadInv'
      OBVIOUS
    <2>1. ASSUME NEW t \in Viewers,
                 MarkPageRead(t) \/ \E m \in Letters : ToggleRead(t, m)
          PROVE  ReadInv'
      BY <2>1, MarkSettles
    <2>2. CASE \E t \in Viewers : UpdateRead(t)
      BY <2>2, UpdateSettles
    <2>3. ASSUME NEW t \in Viewers, PublishRead(t) \/ PublishFails(t)
          PROVE  ReadInv'
      <3>1. PICK reached \in SUBSET Viewers, end \in {"done", "failed"} :
               Told(t, reached) /\ ask' = [ask EXCEPT ![t].at = end]
        BY <2>3 DEF PublishRead, PublishFails
      <3> QED
        BY <3>1, PublishSettles
    <2>4. CASE \E t \in Viewers : MarkFails(t)
      BY <2>4, FailSettles
    <2>5. CASE \E t \in Viewers : MarkAnswered(t)
      BY <2>5, AnswerSettles
    <2>6. CASE \E t \in Viewers : HearRead(t)
      BY <2>6, HearSettles
    <2>7. CASE \E t \in Viewers : \E of \in {"list", "sidebar"} : StartReload(t, of)
      BY <2>7, AskSettles
    <2>8. CASE \E t \in Viewers : ShowReload(t)
      BY <2>8, ShowSettles
    <2>9. CASE UNCHANGED readVars
      <3>1. UNCHANGED <<isRead, feed, display, badge, ask, reload, muddled, miscounted>>
        BY <2>9 DEF readVars
      <3>2. ReadShapes' /\ AllMarked'
        BY <3>1 DEF ReadInv, ReadShapes, AllMarked
      <3>3. (Muddle \/ Written)'
        BY <3>1, RoutesStay
      <3>4. ASSUME NEW u \in Viewers
            PROVE  ListFollows(u)' /\ BadgeFollows(u)'
        <4>1. ListFollows(u) /\ BadgeFollows(u)
          BY DEF ReadInv
        <4>2. \A m \in Letters : Toggled(u, m)' <=> Toggled(u, m)
          BY <3>1 DEF Toggled
        <4> QED
          BY <4>1, <4>2, <3>1, ListStays, BadgeStays
      <3> QED
        BY <3>2, <3>3, <3>4 DEF ReadInv
    <2> QED
      BY <2>1, <2>2, <2>3, <2>4, <2>5, <2>6, <2>7, <2>8, <2>9 DEF ReadNext
  <1>2. ReadInit => ReadFlags
    BY ReadStateAssumption DEF ReadInit, ReadFlags
  <1>3. ReadFlags /\ [ReadNext]_readVars => ReadFlags'
    BY ReadFlagsStay
  <1>4. ReadInv /\ ReadFlags => ReadTypeOK
    BY DEF ReadInv, ReadShapes, ReadFlags, ReadTypeOK, Flagged, Marking
  <1> QED
    BY <1>1, <1>2, <1>3, <1>4, ReadStarts, RestSettles, PTL DEF ReadSpec

(***************************************************************************)
(* Stepping through an inbox.  A page that is not in its list is asking    *)
(* for it, and no other page asks in its name.                             *)
(***************************************************************************)
NavShapes ==
    /\ view \in Nat /\ DOMAIN at = {"id", "filter", "page"}
    /\ \A r \in fetches : /\ {"op", "view", "id", "page", "tried"} \subseteq DOMAIN r
                          /\ r.view \in Nat /\ r.view <= view
OwnRequests == \A r \in fetches :
    r.op = "restore" /\ r.view = view /\ at.id # 0 => r.id = at.id
Restoring == \E r \in fetches : r.op = "restore" /\ r.view = view /\ r.id = at.id
NavInv ==
    /\ NavShapes /\ OwnRequests
    /\ at.id # 0 /\ ~missed /\ ~pulled => Contains(nav.ids, at.id) \/ Restoring

(* A message is opened: a page of its own, which is in the list or asks.   *)
LEMMA OpeningKeeps ==
    ASSUME NavInv, NEW m, NEW f, NEW p, NEW known, NEW rest \in SUBSET fetches,
           OpenAt(m, f, p, known, rest)
    PROVE  NavInv'
  <1>1. view \in Nat /\ view' = view + 1
    BY DEF NavInv, NavShapes, OpenAt
  <1>2. \A r \in rest : /\ {"op", "view", "id", "page", "tried"} \subseteq DOMAIN r
                        /\ r.view \in Nat /\ r.view <= view /\ r.view # view'
    BY <1>1 DEF NavInv, NavShapes
  <1>3. PICK q : at' = [id |-> m, filter |-> f, page |-> q]
    BY DEF OpenAt
  <1>4. at'.id = m /\ DOMAIN at' = {"id", "filter", "page"} /\ nav' = known
    BY <1>3 DEF OpenAt
  <1>5. PICK e : e = Restore(view', m, f, at'.page)
    OBVIOUS
  <1>6. /\ {"op", "view", "id", "page", "tried"} \subseteq DOMAIN e
        /\ e.op = "restore" /\ e.view = view' /\ e.id = m
    BY <1>5 DEF Restore
  <1>7. IF Contains(known.ids, m) THEN fetches' = rest ELSE fetches' = rest \cup {e}
    BY <1>5 DEF OpenAt
  <1>8. NavShapes'
    BY <1>1, <1>2, <1>4, <1>6, <1>7 DEF NavShapes
  <1>9. OwnRequests'
    BY <1>2, <1>4, <1>6, <1>7 DEF OwnRequests
  <1>10. Contains(nav'.ids, at'.id) \/ Restoring'
    BY <1>4, <1>6, <1>7 DEF Restoring
  <1> QED
    BY <1>8, <1>9, <1>10 DEF NavInv, Contains

(* A request ends without a list: the page that made it knows.             *)
LEMMA GivingUpKeeps ==
    ASSUME NavInv, NEW r \in fetches, fetches' = fetches \ {r},
           r.op = "restore" /\ r.view = view => missed',
           missed => missed', pulled => pulled', UNCHANGED <<at, view, nav>>
    PROVE  NavInv'
  <1>1. NavShapes' /\ OwnRequests'
    BY DEF NavInv, NavShapes, OwnRequests
  <1>2. at.id # 0 /\ ~missed' /\ ~pulled' /\ Restoring => Restoring'
    BY DEF Restoring
  <1>3. Contains(nav.ids, at.id) => Contains(nav'.ids, at'.id)
    OBVIOUS
  <1> QED
    BY <1>1, <1>2, <1>3 DEF NavInv, Contains

(* The answers to a page that restores its list.                           *)
LEMMA RestoringKeeps ==
    ASSUME NavInv, NEW r \in fetches, ListFound(r) \/ TryNext(r) \/ RestoreFails(r)
    PROVE  NavInv'
  <1>0. NavShapes /\ OwnRequests
    BY DEF NavInv
  <1>1. CASE ListFound(r)
    <2>1. /\ r.op = "restore" /\ Contains(IdsOf(r.filter, r.page), r.id)
          /\ nav' = NavOf(r.filter, r.page) /\ fetches' = fetches \ {r}
          /\ pulled' = (pulled \/ r.view # view \/ at.id = 0)
          /\ UNCHANGED <<at, view, missed>>
      BY <1>1 DEF ListFound
    <2>2. nav'.ids = IdsOf(r.filter, r.page)
      BY <2>1 DEF NavOf
    <2>3. NavShapes' /\ OwnRequests'
      BY <1>0, <2>1 DEF NavShapes, OwnRequests
    <2>4. at'.id # 0 /\ ~pulled' => r.id = at.id
      BY <1>0, <2>1 DEF OwnRequests
    <2>5. at'.id # 0 /\ ~pulled' => Contains(nav'.ids, at'.id)
      BY <2>1, <2>2, <2>4
    <2> QED
      BY <2>3, <2>5 DEF NavInv, Contains
  <1>2. CASE TryNext(r)
    <2>1. r.op = "restore" /\ UNCHANGED <<view, nav>>
      BY <1>2, Zenon DEF TryNext
    <2>2. \/ /\ \E p, t : fetches' = (fetches \ {r}) \cup {[r EXCEPT !.page = p, !.tried = t]}
             /\ UNCHANGED <<at, missed, pulled>>
          \/ /\ r.view = view /\ at.id # 0 /\ at' = [at EXCEPT !.filter = FALSE, !.page = 1]
             /\ fetches' = (fetches \ {r}) \cup {Restore(view, r.id, FALSE, 1)}
             /\ UNCHANGED <<missed, pulled>>
          \/ /\ fetches' = fetches \ {r} /\ UNCHANGED at
             /\ missed' = (missed \/ r.view = view) /\ pulled' = (pulled \/ r.filter)
      BY <1>2, Zenon DEF TryNext
    <2>3. ASSUME NEW e, fetches' = (fetches \ {r}) \cup {e}, at'.id = at.id,
                 DOMAIN at' = DOMAIN at, UNCHANGED <<missed, pulled>>,
                 {"op", "view", "id", "page", "tried"} \subseteq DOMAIN e,
                 e.op = "restore", e.view = r.view, e.id = r.id
          PROVE  NavInv'
      <3>1. NavShapes'
        BY <1>0, <2>1, <2>3 DEF NavShapes
      <3>2. OwnRequests'
        BY <1>0, <2>1, <2>3 DEF OwnRequests
      <3>3. Restoring => Restoring'
        BY <2>1, <2>3 DEF Restoring
      <3>4. at'.id # 0 /\ ~missed' /\ ~pulled' => Contains(nav.ids, at.id) \/ Restoring'
        BY <2>3, <3>3 DEF NavInv
      <3>5. Contains(nav.ids, at.id) => Contains(nav'.ids, at'.id)
        BY <2>1, <2>3
      <3> QED
        BY <3>1, <3>2, <3>4, <3>5 DEF NavInv, Contains
    <2>4. ASSUME NEW p, NEW t, fetches' = (fetches \ {r}) \cup {[r EXCEPT !.page = p, !.tried = t]},
                 UNCHANGED <<at, missed, pulled>>
          PROVE  NavInv'
      <3>1. PICK e : e = [r EXCEPT !.page = p, !.tried = t]
        OBVIOUS
      <3>2. {"op", "view", "id", "page", "tried"} \subseteq DOMAIN r
        BY <1>0 DEF NavShapes
      <3>3. /\ {"op", "view", "id", "page", "tried"} \subseteq DOMAIN e
            /\ e.op = r.op /\ e.view = r.view /\ e.id = r.id
        BY <3>1, <3>2
      <3> QED
        BY <2>1, <2>3, <2>4, <3>1, <3>3
    <2>5. ASSUME r.view = view, at' = [at EXCEPT !.filter = FALSE, !.page = 1],
                 fetches' = (fetches \ {r}) \cup {Restore(view, r.id, FALSE, 1)},
                 UNCHANGED <<missed, pulled>>
          PROVE  NavInv'
      <3>1. PICK e : e = Restore(view, r.id, FALSE, 1)
        OBVIOUS
      <3>2. /\ {"op", "view", "id", "page", "tried"} \subseteq DOMAIN e
            /\ e.op = "restore" /\ e.view = r.view /\ e.id = r.id
        BY <2>5, <3>1 DEF Restore
      <3>3. at'.id = at.id /\ DOMAIN at' = DOMAIN at
        BY <1>0, <2>5 DEF NavShapes
      <3> QED
        BY <2>3, <2>5, <3>1, <3>2, <3>3
    <2>6. ASSUME fetches' = fetches \ {r}, UNCHANGED at,
                 missed' = (missed \/ r.view = view), pulled' = (pulled \/ r.filter)
          PROVE  NavInv'
      BY <2>1, <2>6, GivingUpKeeps
    <2> QED
      BY <2>2, <2>4, <2>5, <2>6
  <1>3. CASE RestoreFails(r)
    BY <1>3, GivingUpKeeps DEF RestoreFails
  <1> QED
    BY <1>1, <1>2, <1>3

(* What the user does besides opening a message.                           *)
LEMMA BrowsingKeeps ==
    ASSUME NavInv, \/ \E f, p : ShowList(f, p)
                   \/ BackToList \/ MailListed \/ UNCHANGED navVars
                   \/ \E step : StepPastEdge(step)
    PROVE  NavInv'
  <1>0. NavShapes /\ OwnRequests
    BY DEF NavInv
  <1>1. CASE (\E f, p : ShowList(f, p)) \/ BackToList
    <2>1. at'.id = 0 /\ DOMAIN at' = {"id", "filter", "page"} /\ UNCHANGED <<view, fetches>>
      <3>1. CASE BackToList
        BY <1>0, <3>1 DEF BackToList, NavShapes
      <3>2. CASE \E f, p : ShowList(f, p)
        BY <3>2 DEF ShowList
      <3> QED
        BY <1>1, <3>1, <3>2
    <2>2. NavShapes' /\ OwnRequests'
      BY <1>0, <2>1 DEF NavShapes, OwnRequests
    <2> QED
      BY <2>1, <2>2 DEF NavInv
  <1>2. CASE MailListed \/ UNCHANGED navVars
    <2>1. UNCHANGED <<at, view, nav, fetches, missed, pulled>>
      BY <1>2 DEF MailListed, navVars
    <2> QED
      BY <2>1 DEF NavInv, NavShapes, OwnRequests, Restoring, Contains
  <1>3. ASSUME NEW step, StepPastEdge(step)
        PROVE  NavInv'
    <2>1. PICK e : /\ fetches' = fetches \cup {e} /\ e.op = "go" /\ e.view = view
                   /\ {"op", "view", "id", "page", "tried"} \subseteq DOMAIN e
      <3>1. PICK l : fetches' = fetches \cup
                       {[op |-> "go", view |-> view, id |-> at.id, filter |-> at.filter,
                         page |-> nav.page + step, step |-> step, tried |-> {}, list |-> l]}
        BY <1>3 DEF StepPastEdge
      <3>2. PICK e : e = [op |-> "go", view |-> view, id |-> at.id, filter |-> at.filter,
                          page |-> nav.page + step, step |-> step, tried |-> {}, list |-> l]
        OBVIOUS
      <3>3. /\ e.op = "go" /\ e.view = view
            /\ {"op", "view", "id", "page", "tried"} \subseteq DOMAIN e
        BY <3>2
      <3>4. fetches' = fetches \cup {e}
        BY <3>1, <3>2
      <3> QED
        BY <3>3, <3>4
    <2>2. UNCHANGED <<at, view, nav, missed, pulled>>
      BY <1>3 DEF StepPastEdge
    <2>3. NavShapes' /\ OwnRequests'
      BY <1>0, <2>1, <2>2 DEF NavShapes, OwnRequests
    <2>4. Restoring => Restoring'
      BY <2>1, <2>2 DEF Restoring
    <2>5. Contains(nav.ids, at.id) => Contains(nav'.ids, at'.id)
      BY <2>2
    <2> QED
      BY <2>2, <2>3, <2>4, <2>5 DEF NavInv, Contains
  <1> QED
    BY <1>1, <1>2, <1>3

(* When no request of a message page is under way, the message on screen   *)
(* is in the list the page steps through, unless its list could not be     *)
(* restored or the answer to a page left earlier was applied.              *)
THEOREM MessagesStayInTheirList == NavSpec => []ListIsKnown
  <1>1. NavInit => NavInv
    BY DEF NavInit, NavInv, NavShapes, OwnRequests
  <1>2. ASSUME NavInv, [NavNext]_navVars
        PROVE  NavInv'
    <2>1. ASSUME NEW m, OpenRow(m) \/ \E f, p : OpenLink(m, f, p)
          PROVE  NavInv'
      <3>1. fetches \in SUBSET fetches /\ {} \in SUBSET fetches
        OBVIOUS
      <3> QED
        BY <1>2, <2>1, <3>1, OpeningKeeps DEF OpenRow, OpenLink
    <2>2. ASSUME NEW step, StepInPage(step)
          PROVE  NavInv'
      BY <1>2, <2>2, OpeningKeeps DEF StepInPage
    <2>3. ASSUME NEW r \in fetches, StepAnswered(r) \/ StepNowhere(r)
          PROVE  NavInv'
      <3>1. CASE StepAnswered(r)
        BY <1>2, <3>1, OpeningKeeps DEF StepAnswered
      <3>2. CASE StepNowhere(r)
        BY <1>2, <3>2, GivingUpKeeps DEF StepNowhere
      <3> QED
        BY <2>3, <3>1, <3>2
    <2> QED
      BY <1>2, <2>1, <2>2, <2>3, RestoringKeeps, BrowsingKeeps DEF NavNext
  <1>3. NavInv => ListIsKnown
    BY DEF NavInv, ListIsKnown, Restoring
  <1> QED
    BY <1>1, <1>2, <1>3, PTL DEF NavSpec

(* The members of a finite set of numbers have the places 1 to its size,   *)
(* each its own, and the members after one are those before its place.     *)
LEMMA PlacesAreTaken ==
    ASSUME NEW S \in SUBSET Int, IsFiniteSet(S)
    PROVE  /\ Cardinality(S) \in Nat
           /\ \A m \in S : Place(S, m) \in 1..Cardinality(S)
           /\ \A m, n \in S : Place(S, m) = Place(S, n) => m = n
           /\ \A i \in 1..Cardinality(S) : \E m \in S : Place(S, m) = i
  <1>1. Cardinality(S) \in Nat
    BY FS_CardinalityType
  <1>2. ASSUME NEW m \in S
        PROVE  Place(S, m) \in 1..Cardinality(S)
    <2>1. PICK T \in SUBSET S : T = {n \in S : m <= n}
      OBVIOUS
    <2>2. m \in T
      BY <2>1
    <2>3. IsFiniteSet(T) /\ Cardinality(T) <= Cardinality(S) /\ Cardinality(T) \in Nat
      BY FS_Subset, FS_CardinalityType
    <2>4. Cardinality(T) # 0
      BY <2>2, <2>3, FS_EmptySet
    <2> QED
      BY <1>1, <2>1, <2>3, <2>4 DEF Place
  <1>3. ASSUME NEW m \in S, NEW n \in S, m < n
        PROVE  Place(S, n) < Place(S, m)
    <2>1. PICK T \in SUBSET S : T = {k \in S : m <= k}
      OBVIOUS
    <2>2. PICK U \in SUBSET S : U = {k \in S : n <= k}
      OBVIOUS
    <2>3. m \in T /\ m \notin U
      BY <1>3, <2>1, <2>2
    <2>4. U \in SUBSET T
      <3>1. \A k \in S : n <= k => m <= k
        BY <1>3
      <3> QED
        BY <2>1, <2>2, <3>1
    <2>5. IsFiniteSet(T) /\ IsFiniteSet(U)
      BY FS_Subset
    <2>6. Cardinality(U) <= Cardinality(T) /\ (Cardinality(T) = Cardinality(U) => T = U)
      BY <2>4, <2>5, FS_Subset
    <2>7. Cardinality(U) \in Nat /\ Cardinality(T) \in Nat
      BY <2>5, FS_CardinalityType
    <2>8. Cardinality(U) < Cardinality(T)
      BY <2>3, <2>6, <2>7
    <2> QED
      BY <2>1, <2>2, <2>8 DEF Place
  <1>4. ASSUME NEW m \in S, NEW n \in S, Place(S, m) = Place(S, n)
        PROVE  m = n
    <2>1. Place(S, m) \in Int /\ Place(S, n) \in Int /\ m \in Int /\ n \in Int
      BY <1>1, <1>2
    <2>2. ~(m < n) /\ ~(n < m)
      BY <1>3, <1>4, <2>1
    <2> QED
      BY <2>1, <2>2
  <1>5. ASSUME NEW i \in 1..Cardinality(S)
        PROVE  \E m \in S : Place(S, m) = i
    <2>1. PICK f : f = [m \in S |-> Place(S, m)]
      OBVIOUS
    <2>2. f \in Injection(S, 1..Cardinality(S))
      BY <1>2, <1>4, <2>1 DEF Injection, IsInjective
    <2>3. IsFiniteSet(1..Cardinality(S)) /\ Cardinality(1..Cardinality(S)) = Cardinality(S)
      BY <1>1, FS_Interval
    <2>4. f \in Surjection(S, 1..Cardinality(S))
      BY <2>2, <2>3, FS_Injection
    <2> QED
      BY <2>1, <2>4 DEF Surjection
  <1> QED
    BY <1>1, <1>2, <1>4, <1>5

(* What is selected, and its listing: each member once, in its place.      *)
LEMMA ListingIsRanked ==
    ASSUME folder \subseteq 1..Latest, NEW f
    PROVE  /\ Selected(f) \subseteq 1..Latest /\ Cardinality(Selected(f)) \in 0..Latest
           /\ Listing(f) \in Seq(Selected(f)) /\ Len(Listing(f)) = Cardinality(Selected(f))
           /\ \A i, j \in 1..Len(Listing(f)) : Listing(f)[i] = Listing(f)[j] => i = j
  <1>1. PICK S \in SUBSET (1..Latest) : S = Selected(f)
    BY DEF Selected
  <1>2. S \in SUBSET Int /\ IsFiniteSet(S) /\ Cardinality(S) <= Latest
    <2>1. IsFiniteSet(1..Latest) /\ Cardinality(1..Latest) = Latest
      BY FS_Interval, ListNavAssumption
    <2>2. IsFiniteSet(S) /\ Cardinality(S) <= Latest
      BY <2>1, FS_Subset
    <2>3. \A m \in S : m \in Int
      BY ListNavAssumption
    <2> QED
      BY <2>2, <2>3
  <1>3. /\ Cardinality(S) \in Nat
        /\ \A i \in 1..Cardinality(S) : \E m \in S : Place(S, m) = i
    BY <1>2, PlacesAreTaken
  <1>4. PICK l : l = Listing(f)
    OBVIOUS
  <1>5. l = [i \in 1..Cardinality(S) |-> CHOOSE m \in S : Place(S, m) = i]
    BY <1>1, <1>4 DEF Listing
  <1>6. \A i \in 1..Cardinality(S) : l[i] \in S /\ Place(S, l[i]) = i
    BY <1>3, <1>5
  <1>7. l \in Seq(S) /\ Len(l) = Cardinality(S)
    BY <1>3, <1>5, <1>6
  <1>8. \A i, j \in 1..Len(l) : l[i] = l[j] => i = j
    BY <1>6, <1>7
  <1>9. Cardinality(S) \in 0..Latest
    BY <1>2, <1>3, ListNavAssumption
  <1> QED
    BY <1>1, <1>4, <1>7, <1>8, <1>9

(* Where page p of the list starts.                                        *)
Skipped(p) == (IF p < 1 THEN 0 ELSE p - 1) * ListSize

(* A page of the list: a slice of the listing.                             *)
LEMMA PageIsSlice ==
    ASSUME folder \subseteq 1..Latest, NEW f, NEW p \in Int
    PROVE  /\ IdsOf(f, p) \in Seq(Selected(f)) /\ Skipped(p) \in Nat
           /\ Len(IdsOf(f, p)) \in Nat
           /\ Len(IdsOf(f, p)) = IF Skipped(p) + ListSize < Len(Listing(f)) THEN ListSize
                                 ELSE IF Skipped(p) < Len(Listing(f)) THEN Len(Listing(f)) - Skipped(p)
                                 ELSE 0
           /\ \A i \in 1..Len(IdsOf(f, p)) : /\ IdsOf(f, p)[i] = Listing(f)[Skipped(p) + i]
                                             /\ Skipped(p) + i \in 1..Len(Listing(f))
  <1>1. PICK l : l = Listing(f)
    OBVIOUS
  <1>2. PICK s : s = IdsOf(f, p)
    OBVIOUS
  <1>3. l \in Seq(Selected(f)) /\ Len(l) \in Nat /\ ListSize \in Nat \ {0}
    BY <1>1, ListingIsRanked, LenProperties, ListNavAssumption
  <1>4. PICK q \in Nat : q = IF p < 1 THEN 0 ELSE p - 1
    OBVIOUS
  <1>5. PICK from \in Nat : from = q * ListSize
    BY <1>3, <1>4
  <1>6. from = Skipped(p)
    BY <1>4, <1>5 DEF Skipped
  <1>7. PICK to \in Nat : to = IF from + ListSize < Len(l) THEN from + ListSize ELSE Len(l)
    BY <1>3, <1>5
  <1>8. s = SubSeq(l, from + 1, to)
    BY <1>1, <1>2, <1>4, <1>5, <1>7 DEF IdsOf
  <1>9. \A i \in (from + 1)..to : l[i] \in Selected(f)
    <2>1. to <= Len(l)
      BY <1>3, <1>5, <1>7
    <2>2. \A i \in 1..Len(l) : l[i] \in Selected(f)
      BY <1>3, ElementOfSeq
    <2> QED
      BY <1>5, <1>7, <2>1, <2>2, <1>3
  <1>10. /\ s \in Seq(Selected(f))
         /\ Len(s) = IF from + 1 <= to THEN to - (from + 1) + 1 ELSE 0
         /\ \A i \in 1..(to - (from + 1) + 1) : s[i] = l[(from + 1) + i - 1]
    BY <1>5, <1>7, <1>8, <1>9, SubSeqProperties
  <1>11. Len(s) = IF from + ListSize < Len(l) THEN ListSize
                  ELSE IF from < Len(l) THEN Len(l) - from ELSE 0
    BY <1>3, <1>5, <1>7, <1>10
  <1>12. ASSUME NEW i \in 1..Len(s)
         PROVE  s[i] = l[from + i] /\ from + i \in 1..Len(l)
    <2>1. i \in 1..(to - (from + 1) + 1) /\ from + i = (from + 1) + i - 1
      BY <1>5, <1>7, <1>10
    <2>2. from + i \in 1..Len(l)
      BY <1>3, <1>5, <1>11
    <2> QED
      BY <2>1, <2>2, <1>10
  <1> QED
    BY <1>1, <1>2, <1>5, <1>6, <1>10, <1>11, <1>12, LenProperties

(* An answer with messages is a page of the list; there are as many pages  *)
(* as it takes to show every message.                                      *)
LEMMA PagesAreListed ==
    ASSUME folder \subseteq 1..Latest, NEW f
    PROVE  /\ TotalPages(f) \in ListPages /\ 1 \in ListPages
           /\ \A p \in Int : IdsOf(f, p) # <<>> => p <= 1 \/ p \in ListPages
  <1>1. Len(Listing(f)) \in 0..Latest
    BY ListingIsRanked
  <1>2. ListSize \in Nat \ {0} /\ Latest \in Nat \ {0}
    BY ListNavAssumption
  <1>3. ASSUME NEW a \in Nat, NEW b \in Nat, a <= b
        PROVE  /\ a \div ListSize \in Nat /\ a \div ListSize <= b \div ListSize
               /\ b \div ListSize \in Nat
    BY <1>2, <1>3
  <1>4. ASSUME NEW a \in Nat, NEW q \in Nat, q * ListSize <= a
        PROVE  q <= a \div ListSize
    BY <1>2, <1>4
  <1>5. 1 <= (Latest + ListSize - 1) \div ListSize
    BY <1>2, <1>4
  <1>6. TotalPages(f) \in ListPages
    <2>1. Len(Listing(f)) + ListSize - 1 \in Nat /\ Latest + ListSize - 1 \in Nat
          /\ Len(Listing(f)) + ListSize - 1 <= Latest + ListSize - 1
      BY <1>1, <1>2
    <2> QED
      BY <1>3, <1>5, <2>1 DEF TotalPages, ListPages
  <1>7. ASSUME NEW p \in Int, IdsOf(f, p) # <<>>, p > 1
        PROVE  p \in ListPages
    <2>1. Len(IdsOf(f, p)) # 0
      BY <1>7, PageIsSlice, EmptySeq
    <2>2. Skipped(p) < Len(Listing(f)) /\ Skipped(p) \in Nat
      BY <1>1, <1>2, <2>1, PageIsSlice
    <2>3. Skipped(p) = (p - 1) * ListSize
      BY <1>7 DEF Skipped
    <2>4. p * ListSize = (p - 1) * ListSize + ListSize
      BY <1>2
    <2>5. p * ListSize <= Latest + ListSize - 1
      BY <1>1, <1>2, <2>2, <2>3, <2>4
    <2>6. p <= (Latest + ListSize - 1) \div ListSize
      BY <1>2, <1>4, <1>7, <2>5
    <2> QED
      BY <1>2, <1>3, <1>7, <2>6 DEF ListPages
  <1> QED
    BY <1>2, <1>3, <1>5, <1>6, <1>7 DEF ListPages

(* Every request knows the message it was made for; one past the edge of a *)
(* page that has not changed was made by the last message of the page      *)
(* before the one it asks for, or by the first of the page after.          *)
NavRequest == [op : {"go", "restore"}, view : 1..MaxViews, id : 1..Latest, filter : BOOLEAN,
               page : Int, step : {-1, 0, 1}, tried : SUBSET Int, list : SUBSET (1..Latest)]
AtEdge(r) ==
    LET l == Listing(r.filter) IN
    \A i \in 1..Len(l) : l[i] = r.id =>
        /\ 1 <= r.page
        /\ r.step = 1 => i = Skipped(r.page) \/ Len(l) <= Skipped(r.page)
        /\ r.step = -1 => i = Skipped(r.page) + ListSize + 1
NavTyped ==
    /\ folder \subseteq 1..Latest /\ view \in 0..MaxViews
    /\ at \in [id : 0..Latest, filter : BOOLEAN, page : ListPages] /\ (at.id # 0 => view # 0)
    /\ nav \in [ids : Seq(1..Latest), page : Int, total : ListPages]
    /\ nav.page <= 1 \/ nav.page \in ListPages
    /\ fetches \subseteq NavRequest /\ \A r \in fetches : r.view <= view
    /\ missed \in BOOLEAN /\ pulled \in BOOLEAN
NavStepped ==
    /\ \A r \in fetches : r.op = "go" => /\ r.step \in {-1, 1} /\ r.list \subseteq folder
                                         /\ r.list = folder => AtEdge(r)
    /\ mislaid = FALSE

(* What an answer of the list leaves in shared state.                      *)
LEMMA AnswersTyped ==
    ASSUME folder \subseteq 1..Latest, NEW f \in BOOLEAN, NEW p \in Int
    PROVE  /\ NavOf(f, p) \in [ids : Seq(1..Latest), page : Int, total : ListPages]
           /\ NavOf(f, p).ids = IdsOf(f, p) /\ NavOf(f, p).page = p
           /\ IdsOf(f, p) # <<>> => p <= 1 \/ p \in ListPages
           /\ NoNav \in [ids : Seq(1..Latest), page : Int, total : ListPages]
           /\ NoNav.page = 1
  <1>1. IdsOf(f, p) \in Seq(1..Latest)
    <2>1. IdsOf(f, p) \in Seq(Selected(f)) /\ Selected(f) \subseteq 1..Latest
      BY PageIsSlice, ListingIsRanked
    <2> QED
      BY <2>1, SeqMonotonic
  <1>2. TotalPages(f) \in ListPages /\ 1 \in ListPages
    BY PagesAreListed
  <1>3. NavOf(f, p) \in [ids : Seq(1..Latest), page : Int, total : ListPages]
        /\ NavOf(f, p).ids = IdsOf(f, p) /\ NavOf(f, p).page = p
    BY <1>1, <1>2 DEF NavOf
  <1>4. NoNav \in [ids : Seq(1..Latest), page : Int, total : ListPages] /\ NoNav.page = 1
    <2>1. <<>> \in Seq(1..Latest)
      OBVIOUS
    <2> QED
      BY <1>2, <2>1 DEF NoNav
  <1>5. IdsOf(f, p) # <<>> => p <= 1 \/ p \in ListPages
    BY PagesAreListed
  <1> QED
    BY <1>3, <1>4, <1>5

(* A message is opened: a page of its own, whose request has its shape.    *)
LEMMA OpeningTyped ==
    ASSUME NavTyped, NEW m \in 1..Latest, NEW f \in BOOLEAN, NEW p \in Int,
           p <= 1 \/ p \in ListPages, NEW rest \in SUBSET fetches,
           NEW known \in [ids : Seq(1..Latest), page : Int, total : ListPages],
           known.page <= 1 \/ known.page \in ListPages,
           OpenAt(m, f, p, known, rest), UNCHANGED folder, pulled' \in BOOLEAN
    PROVE  /\ NavTyped'
           /\ NavStepped /\ mislaid' = FALSE => NavStepped'
  <1>1. view' = view + 1 /\ view' \in 1..MaxViews /\ missed' = FALSE /\ nav' = known
        /\ view \in 0..MaxViews
    BY ListNavAssumption DEF NavTyped, OpenAt
  <1>2. PICK q : q = IF p > 1 THEN p ELSE 1
    OBVIOUS
  <1>3. q \in ListPages /\ q \in Int
    <2>1. 1 \in ListPages
      BY PagesAreListed DEF NavTyped
    <2> QED
      BY <1>2, <2>1 DEF ListPages
  <1>4. at' = [id |-> m, filter |-> f, page |-> q]
    BY <1>2 DEF OpenAt
  <1>5. /\ at' \in [id : 0..Latest, filter : BOOLEAN, page : ListPages]
        /\ at'.page = q /\ view' # 0
    BY <1>1, <1>3, <1>4
  <1>6. PICK e : e = Restore(view', m, f, at'.page)
    OBVIOUS
  <1>7. e \in NavRequest /\ e.op = "restore" /\ e.view = view'
    BY <1>1, <1>3, <1>5, <1>6 DEF Restore, NavRequest
  <1>8. fetches' = rest \/ fetches' = rest \cup {e}
    BY <1>6 DEF OpenAt
  <1>9. fetches' \subseteq NavRequest
    BY <1>7, <1>8 DEF NavTyped
  <1>10. \A r \in fetches' : r.view <= view'
    <2>1. \A r \in fetches : r.view <= view /\ r.view \in Int
      BY DEF NavTyped, NavRequest
    <2> QED
      BY <1>1, <1>7, <1>8, <2>1
  <1>11. NavTyped'
    <2>1. folder' \subseteq 1..Latest /\ view' \in 0..MaxViews
      BY <1>1 DEF NavTyped
    <2>2. /\ nav' \in [ids : Seq(1..Latest), page : Int, total : ListPages]
          /\ nav'.page <= 1 \/ nav'.page \in ListPages
      BY <1>1
    <2>3. missed' \in BOOLEAN
      BY <1>1
    <2> QED
      BY <1>5, <1>9, <1>10, <2>1, <2>2, <2>3 DEF NavTyped
  <1>12. ASSUME NavStepped, mislaid' = FALSE
         PROVE  NavStepped'
    <2>1. \A r \in fetches' : r.op = "go" => r \in fetches
      BY <1>7, <1>8
    <2>2. \A r : AtEdge(r)' <=> AtEdge(r)
      BY DEF AtEdge, Listing, Selected
    <2> QED
      BY <1>12, <2>1, <2>2 DEF NavStepped
  <1> QED
    BY <1>11, <1>12

(* Among finitely many numbers there is a smallest.                        *)
LEMMA SmallestIsThere ==
    ASSUME NEW S \in SUBSET Int, IsFiniteSet(S), S # {}
    PROVE  \E m \in S : \A n \in S : m <= n
  <1>1. Cardinality(S) \in 1..Cardinality(S)
    BY FS_CardinalityType, FS_EmptySet
  <1>2. PICK m \in S : Place(S, m) = Cardinality(S)
    BY <1>1, PlacesAreTaken
  <1>3. PICK T \in SUBSET S : T = {n \in S : m <= n}
    OBVIOUS
  <1>4. Cardinality(T) = Cardinality(S)
    BY <1>2, <1>3 DEF Place
  <1>5. T = S
    BY <1>4, FS_Subset
  <1> QED
    BY <1>3, <1>5

(* The next page starts where this one, if it is full, ends.               *)
LEMMA PagesFollow ==
    ASSUME NEW p \in Int, 1 <= p
    PROVE  Skipped(p + 1) = Skipped(p) + ListSize /\ Skipped(p) \in Nat
  <1>1. Skipped(p + 1) = p * ListSize /\ Skipped(p) = (p - 1) * ListSize
    BY DEF Skipped
  <1>2. p * ListSize = (p - 1) * ListSize + ListSize /\ (p - 1) * ListSize \in Nat
    BY ListNavAssumption
  <1> QED
    BY <1>1, <1>2

(* A step past the edge of a page of the list is made at its edge.         *)
LEMMA EdgeIsKnown ==
    ASSUME NavTyped, NEW step \in {-1, 1}, StepPastEdge(step),
           nav = NavOf(at.filter, nav.page), 1 <= nav.page, 1 <= nav.page + step,
           NEW i \in 1..Len(Listing(at.filter)), Listing(at.filter)[i] = at.id
    PROVE  /\ step = 1 => \/ i = Skipped(nav.page + step)
                          \/ Len(Listing(at.filter)) <= Skipped(nav.page + step)
           /\ step = -1 => i = Skipped(nav.page + step) + ListSize + 1
  <1>1. folder \subseteq 1..Latest /\ nav.page \in Int /\ at.filter \in BOOLEAN
    BY DEF NavTyped
  <1>2. PICK p \in Int : p = nav.page
    BY <1>1
  <1>3. PICK l : l = Listing(at.filter)
    OBVIOUS
  <1>4. PICK s : s = IdsOf(at.filter, p)
    OBVIOUS
  <1>5. nav.ids = s
    BY <1>2, <1>4 DEF NavOf
  <1>6. /\ Len(s) \in Nat /\ Skipped(p) \in Nat
        /\ Len(s) = IF Skipped(p) + ListSize < Len(l) THEN ListSize
                    ELSE IF Skipped(p) < Len(l) THEN Len(l) - Skipped(p) ELSE 0
        /\ \A k \in 1..Len(s) : s[k] = l[Skipped(p) + k] /\ Skipped(p) + k \in 1..Len(l)
        /\ DOMAIN s = 1..Len(s)
    BY <1>1, <1>2, <1>3, <1>4, PageIsSlice, LenProperties
  <1>7. PICK k \in 1..Len(s) : s[k] = at.id /\ k + step \notin 1..Len(s)
    <2>1. NavIndex(at.id) # 0 /\ NavIndex(at.id) + step \notin DOMAIN nav.ids
      BY DEF StepPastEdge, MayStep
    <2>2. Contains(s, at.id)
      BY <1>5, <2>1 DEF NavIndex
    <2>3. \E j \in DOMAIN s : s[j] = at.id
      BY <1>6, <2>2 DEF Contains
    <2>4. PICK k : k = CHOOSE j \in DOMAIN s : s[j] = at.id
      OBVIOUS
    <2>5. k \in DOMAIN s /\ s[k] = at.id
      BY <2>3, <2>4
    <2>6. NavIndex(at.id) = k
      BY <1>5, <2>2, <2>4 DEF NavIndex
    <2> QED
      BY <1>5, <1>6, <2>1, <2>5, <2>6
  <1>8. i = Skipped(p) + k
    <2>1. \A a, b \in 1..Len(l) : l[a] = l[b] => a = b
      BY <1>1, <1>3, ListingIsRanked
    <2>2. l[Skipped(p) + k] = l[i] /\ Skipped(p) + k \in 1..Len(l) /\ i \in 1..Len(l)
      BY <1>3, <1>6, <1>7
    <2> QED
      BY <2>1, <2>2
  <1>9. Len(l) \in Nat /\ ListSize \in Nat \ {0}
    BY <1>1, <1>3, ListingIsRanked, ListNavAssumption
  <1>10. CASE step = 1
    <2>1. k = Len(s)
      BY <1>6, <1>7, <1>10
    <2>2. Skipped(p + 1) = Skipped(p) + ListSize
      BY <1>2, PagesFollow
    <2>3. i = Skipped(p + 1) \/ Len(l) <= Skipped(p + 1)
      BY <1>6, <1>8, <1>9, <2>1, <2>2
    <2> QED
      BY <1>2, <1>3, <1>10, <2>3
  <1>11. CASE step = -1
    <2>1. k = 1
      BY <1>6, <1>7, <1>11
    <2>2. PICK q \in Int : q = p + step
      BY <1>2
    <2>3. q + 1 = p /\ 1 <= q
      BY <1>2, <1>11, <2>2
    <2>4. Skipped(p) = Skipped(q) + ListSize /\ Skipped(q) \in Nat
      BY <2>3, PagesFollow
    <2>5. i = Skipped(q) + ListSize + 1
      BY <1>8, <1>9, <2>1, <2>4
    <2> QED
      BY <1>2, <1>11, <2>2, <2>5
  <1> QED
    BY <1>10, <1>11

(* And its answer opens the neighbour, while the list is as it was.        *)
LEMMA NeighbourIsOpened ==
    ASSUME NavTyped, NEW r \in fetches, r.op = "go", r.step \in {-1, 1}, AtEdge(r),
           IdsOf(r.filter, r.page) # <<>>
    PROVE  LedToNeighbour(r, IF r.step = 1 THEN Head(IdsOf(r.filter, r.page))
                             ELSE Last(IdsOf(r.filter, r.page)))
  <1>1. folder \subseteq 1..Latest /\ r.page \in Int /\ r.step \in Int
    BY DEF NavTyped, NavRequest
  <1>2. PICK p \in Int : p = r.page
    BY <1>1
  <1>3. PICK l : l = Listing(r.filter)
    OBVIOUS
  <1>4. PICK s : s = IdsOf(r.filter, p)
    OBVIOUS
  <1>5. /\ s \in Seq(Selected(r.filter)) /\ Len(s) \in Nat /\ Skipped(p) \in Nat
        /\ Len(s) = IF Skipped(p) + ListSize < Len(l) THEN ListSize
                    ELSE IF Skipped(p) < Len(l) THEN Len(l) - Skipped(p) ELSE 0
        /\ \A k \in 1..Len(s) : s[k] = l[Skipped(p) + k] /\ Skipped(p) + k \in 1..Len(l)
    BY <1>1, <1>3, <1>4, PageIsSlice
  <1>6. Len(s) # 0
    BY <1>2, <1>4, <1>5, EmptySeq
  <1>7. /\ l \in Seq(Selected(r.filter)) /\ Len(l) \in Nat
        /\ \A a, b \in 1..Len(l) : l[a] = l[b] => a = b
    BY <1>1, <1>3, ListingIsRanked, LenProperties
  <1>8. DOMAIN l = 1..Len(l) /\ ListSize \in Nat \ {0}
    BY <1>7, LenProperties, ListNavAssumption
  <1>9. ASSUME NEW i \in 1..Len(l), NEW j \in 1..Len(l), l[i] = r.id,
               l[j] = IF r.step = 1 THEN Head(s) ELSE Last(s)
        PROVE  j = i + r.step
    <2>1. /\ 1 <= p
          /\ r.step = 1 => i = Skipped(p) \/ Len(l) <= Skipped(p)
          /\ r.step = -1 => i = Skipped(p) + ListSize + 1
      BY <1>2, <1>3, <1>9 DEF AtEdge
    <2>2. Skipped(p) < Len(l)
      BY <1>5, <1>6, <1>7, <1>8
    <2>3. CASE r.step = 1
      <3>1. l[j] = s[1] /\ s[1] = l[Skipped(p) + 1] /\ Skipped(p) + 1 \in 1..Len(l)
        BY <1>5, <1>6, <1>9, <2>3
      <3>2. j = Skipped(p) + 1
        BY <1>7, <1>9, <3>1
      <3> QED
        BY <1>5, <1>7, <2>1, <2>2, <2>3, <3>2
    <2>4. CASE r.step = -1
      <3>1. l[j] = s[Len(s)]
        BY <1>5, <1>6, <1>9, <2>4 DEF Last
      <3>2. Len(s) = ListSize
        BY <1>5, <1>7, <1>8, <1>9, <2>1, <2>4
      <3>3. l[j] = l[Skipped(p) + ListSize] /\ Skipped(p) + ListSize \in 1..Len(l)
        BY <1>5, <1>6, <3>1, <3>2
      <3>4. j = Skipped(p) + ListSize
        BY <1>7, <1>9, <3>3
      <3> QED
        BY <1>5, <1>8, <2>1, <2>4, <3>4
    <2> QED
      BY <2>3, <2>4
  <1> QED
    BY <1>2, <1>3, <1>4, <1>8, <1>9 DEF LedToNeighbour

(* A request ends, and its answer may be shared.                           *)
LEMMA EndingTyped ==
    ASSUME NavTyped, NavStepped, NEW r \in fetches, fetches' = fetches \ {r},
           UNCHANGED <<folder, at, view, mislaid>>, missed' \in BOOLEAN, pulled' \in BOOLEAN,
           \/ nav' = nav
           \/ nav' = NavOf(r.filter, r.page) /\ IdsOf(r.filter, r.page) # <<>>
    PROVE  NavTyped' /\ NavStepped'
  <1>1. /\ nav' \in [ids : Seq(1..Latest), page : Int, total : ListPages]
        /\ nav'.page <= 1 \/ nav'.page \in ListPages
    <2>1. r.filter \in BOOLEAN /\ r.page \in Int /\ folder \subseteq 1..Latest
      BY DEF NavTyped, NavRequest
    <2>2. CASE nav' = nav
      BY <2>2 DEF NavTyped
    <2>3. CASE nav' = NavOf(r.filter, r.page) /\ IdsOf(r.filter, r.page) # <<>>
      BY <2>1, <2>3, AnswersTyped
    <2> QED
      BY <2>2, <2>3
  <1>2. NavTyped'
    BY <1>1 DEF NavTyped
  <1>3. \A q : AtEdge(q)' <=> AtEdge(q)
    BY DEF AtEdge, Listing, Selected
  <1>4. NavStepped'
    BY <1>3 DEF NavStepped
  <1> QED
    BY <1>2, <1>4

(* A page's answer leads to another request of the page.                   *)
LEMMA AskingAgainTyped ==
    ASSUME NavTyped, NavStepped, NEW r \in fetches, NEW e \in NavRequest, e.op = "restore",
           e.view = r.view, fetches' = (fetches \ {r}) \cup {e},
           at' \in [id : 0..Latest, filter : BOOLEAN, page : ListPages], at'.id = at.id,
           UNCHANGED <<folder, view, nav, missed, pulled, mislaid>>
    PROVE  NavTyped' /\ NavStepped'
  <1>1. NavTyped'
    BY DEF NavTyped
  <1>2. \A q : AtEdge(q)' <=> AtEdge(q)
    BY DEF AtEdge, Listing, Selected
  <1>3. NavStepped'
    BY <1>2 DEF NavStepped
  <1> QED
    BY <1>1, <1>3

(* The pages of a list tried in turn.                                      *)
LEMMA TryingTyped ==
    ASSUME NavTyped, NavStepped, NEW r \in fetches, TryNext(r)
    PROVE  NavTyped' /\ NavStepped'
  <1>1. r \in NavRequest /\ folder \subseteq 1..Latest /\ r.view <= view /\ view \in 0..MaxViews
    BY DEF NavTyped
  <1>2. PICK tried \in SUBSET Int : tried = r.tried \cup {r.page}
    BY <1>1 DEF NavRequest
  <1>3. PICK left \in SUBSET Int : /\ left = Untried(r.filter, tried)
                                   /\ left \subseteq 1..TotalPages(r.filter)
    <2>1. TotalPages(r.filter) \in Int
      BY <1>1, PagesAreListed DEF ListPages
    <2>2. PICK n \in Int : n = TotalPages(r.filter)
      BY <2>1
    <2>3. Untried(r.filter, tried) \subseteq 1..n
      BY <2>2 DEF Untried
    <2>4. Untried(r.filter, tried) \in SUBSET Int
      BY <2>3
    <2> QED
      BY <2>2, <2>3, <2>4
  <1>4. PICK next : next = CHOOSE p \in left : \A q \in left : p <= q
    OBVIOUS
  <1>5. r.op = "restore" /\ UNCHANGED <<folder, view, nav, mislaid>>
    BY Zenon DEF TryNext
  <1>6. \/ /\ left # {} /\ UNCHANGED <<at, missed, pulled>>
           /\ fetches' = (fetches \ {r}) \cup {[r EXCEPT !.page = next, !.tried = tried]}
        \/ /\ at' = [at EXCEPT !.filter = FALSE, !.page = 1] /\ r.view = view
           /\ fetches' = (fetches \ {r}) \cup {Restore(view, r.id, FALSE, 1)}
           /\ UNCHANGED <<missed, pulled>>
        \/ /\ fetches' = fetches \ {r} /\ UNCHANGED at
           /\ missed' = (missed \/ r.view = view) /\ pulled' = (pulled \/ r.filter)
    BY <1>2, <1>3, <1>4, Zenon DEF TryNext
  <1>7. ASSUME left # {}, UNCHANGED <<at, missed, pulled>>,
               fetches' = (fetches \ {r}) \cup {[r EXCEPT !.page = next, !.tried = tried]}
        PROVE  NavTyped' /\ NavStepped'
    <2>1. IsFiniteSet(left)
      <3>1. TotalPages(r.filter) \in Int
        BY <1>1, PagesAreListed DEF ListPages
      <3>2. IsFiniteSet(1..TotalPages(r.filter)) /\ left \in SUBSET (1..TotalPages(r.filter))
        BY <1>3, <3>1, FS_Interval
      <3> QED
        BY <3>2, FS_Subset
    <2>2. \E p \in left : \A q \in left : p <= q
      BY <1>7, <2>1, SmallestIsThere
    <2>3. next \in Int
      BY <1>4, <2>2
    <2>4. PICK e : e = [r EXCEPT !.page = next, !.tried = tried]
      OBVIOUS
    <2>5. e \in NavRequest /\ e.op = r.op /\ e.view = r.view
      BY <1>1, <2>3, <2>4 DEF NavRequest
    <2>6. at \in [id : 0..Latest, filter : BOOLEAN, page : ListPages]
      BY DEF NavTyped
    <2> QED
      BY <1>5, <1>7, <2>4, <2>5, <2>6, AskingAgainTyped
  <1>8. ASSUME at' = [at EXCEPT !.filter = FALSE, !.page = 1], r.view = view,
               fetches' = (fetches \ {r}) \cup {Restore(view, r.id, FALSE, 1)},
               UNCHANGED <<missed, pulled>>
        PROVE  NavTyped' /\ NavStepped'
    <2>1. PICK e : e = Restore(view, r.id, FALSE, 1)
      OBVIOUS
    <2>2. e \in NavRequest /\ e.op = "restore" /\ e.view = r.view
      BY <1>1, <1>8, <2>1 DEF NavRequest, Restore
    <2>3. at' \in [id : 0..Latest, filter : BOOLEAN, page : ListPages] /\ at'.id = at.id
      BY <1>1, <1>8, PagesAreListed DEF NavTyped
    <2> QED
      BY <1>5, <1>8, <2>1, <2>2, <2>3, AskingAgainTyped
  <1>9. ASSUME fetches' = fetches \ {r}, UNCHANGED at,
               missed' = (missed \/ r.view = view), pulled' = (pulled \/ r.filter)
        PROVE  NavTyped' /\ NavStepped'
    <2>1. missed' \in BOOLEAN /\ pulled' \in BOOLEAN
      BY <1>9
    <2> QED
      BY <1>5, <1>9, <2>1, EndingTyped
  <1> QED
    BY <1>6, <1>7, <1>8, <1>9

(* What the user does in the list, and mail that arrives.                  *)
LEMMA ListTyped ==
    ASSUME NavTyped, NavStepped,
           \/ \E f \in BOOLEAN, p \in ListPages : ShowList(f, p)
           \/ BackToList \/ MailListed \/ UNCHANGED navVars
    PROVE  NavTyped' /\ NavStepped'
  <1>1. ASSUME NEW f \in BOOLEAN, NEW p \in ListPages, nav' = NavOf(f, p),
               at' \in [id : 0..Latest, filter : BOOLEAN, page : ListPages], at'.id = 0,
               UNCHANGED <<folder, view, fetches, missed, pulled, mislaid>>
        PROVE  NavTyped' /\ NavStepped'
    <2>1. p \in Int
      BY DEF ListPages
    <2>2. /\ nav' \in [ids : Seq(1..Latest), page : Int, total : ListPages]
          /\ nav'.page \in ListPages
      BY <1>1, <2>1, AnswersTyped DEF NavTyped
    <2>3. NavTyped'
      BY <1>1, <2>2 DEF NavTyped
    <2>4. \A q : AtEdge(q)' <=> AtEdge(q)
      BY <1>1 DEF AtEdge, Listing, Selected
    <2>5. NavStepped'
      BY <1>1, <2>4 DEF NavStepped
    <2> QED
      BY <2>3, <2>5
  <1>2. ASSUME NEW f \in BOOLEAN, NEW p \in ListPages, ShowList(f, p)
        PROVE  NavTyped' /\ NavStepped'
    <2>1. at' = [id |-> 0, filter |-> f, page |-> p] /\ nav' = NavOf(f, p)
          /\ UNCHANGED <<folder, view, fetches, missed, pulled, mislaid>>
      BY <1>2 DEF ShowList
    <2>2. at' \in [id : 0..Latest, filter : BOOLEAN, page : ListPages] /\ at'.id = 0
      BY <2>1, ListNavAssumption
    <2> QED
      BY <1>1, <2>1, <2>2
  <1>3. CASE BackToList
    <2>1. at' = [at EXCEPT !.id = 0] /\ nav' = NavOf(at.filter, at.page)
          /\ UNCHANGED <<folder, view, fetches, missed, pulled, mislaid>>
      BY <1>3 DEF BackToList
    <2>2. at \in [id : 0..Latest, filter : BOOLEAN, page : ListPages]
      BY DEF NavTyped
    <2>3. at' \in [id : 0..Latest, filter : BOOLEAN, page : ListPages] /\ at'.id = 0
          /\ at.filter \in BOOLEAN /\ at.page \in ListPages
      BY <2>1, <2>2, ListNavAssumption
    <2> QED
      BY <1>1, <2>1, <2>3
  <1>4. CASE MailListed
    <2>1. Latest \notin folder /\ folder' = folder \cup {Latest}
          /\ UNCHANGED <<at, view, nav, fetches, missed, pulled, mislaid>>
      BY <1>4 DEF MailListed
    <2>2. folder' \subseteq 1..Latest
      BY <2>1, ListNavAssumption DEF NavTyped
    <2>3. NavTyped'
      BY <2>1, <2>2 DEF NavTyped
    <2>4. NavStepped'
      BY <2>1 DEF NavStepped
    <2> QED
      BY <2>3, <2>4
  <1>5. CASE UNCHANGED navVars
    <2>1. NavTyped'
      BY <1>5 DEF NavTyped, navVars
    <2>2. \A q : AtEdge(q)' <=> AtEdge(q)
      BY <1>5 DEF AtEdge, Listing, Selected, navVars
    <2>3. NavStepped'
      BY <1>5, <2>2 DEF NavStepped, navVars
    <2> QED
      BY <2>1, <2>3
  <1> QED
    BY <1>2, <1>3, <1>4, <1>5

(* A step past the edge of the page.                                       *)
LEMMA PastEdgeTyped ==
    ASSUME NavTyped, NavStepped, NEW step \in {-1, 1}, StepPastEdge(step)
    PROVE  NavTyped' /\ NavStepped'
  <1>1. PICK b \in BOOLEAN :
           b = (nav = NavOf(at.filter, nav.page) /\ 1 <= nav.page /\ 1 <= nav.page + step)
    OBVIOUS
  <1>2. PICK l : l = IF b THEN folder ELSE {}
    OBVIOUS
  <1>3. PICK e : e = [op |-> "go", view |-> view, id |-> at.id, filter |-> at.filter,
                      page |-> nav.page + step, step |-> step, tried |-> {}, list |-> l]
    OBVIOUS
  <1>4. fetches' = fetches \cup {e} /\ UNCHANGED <<folder, at, view, nav, missed, pulled, mislaid>>
        /\ at.id # 0
    BY <1>1, <1>2, <1>3 DEF StepPastEdge, MayStep
  <1>5. l \subseteq folder /\ folder \subseteq 1..Latest
    BY <1>2 DEF NavTyped
  <1>6. view \in 1..MaxViews
    BY <1>4 DEF NavTyped
  <1>7. e \in NavRequest /\ e.op = "go" /\ e.view = view /\ e.list = l /\ e.step = step
        /\ e.filter = at.filter /\ e.page = nav.page + step /\ e.id = at.id
    BY <1>3, <1>4, <1>5, <1>6 DEF NavTyped, NavRequest
  <1>8. NavTyped'
    BY <1>4, <1>6, <1>7 DEF NavTyped
  <1>9. ASSUME l = folder
        PROVE  AtEdge(e)
    <2>1. CASE b
      BY <1>1, <1>7, <2>1, EdgeIsKnown DEF AtEdge
    <2>2. CASE ~b
      <3>1. Selected(at.filter) = {}
        BY <1>2, <1>9, <2>2 DEF Selected
      <3>2. Len(Listing(at.filter)) = 0
        BY <1>5, <3>1, ListingIsRanked, FS_EmptySet
      <3> QED
        BY <1>7, <3>2 DEF AtEdge
    <2> QED
      BY <2>1, <2>2
  <1>10. \A q : AtEdge(q)' <=> AtEdge(q)
    BY <1>4 DEF AtEdge, Listing, Selected
  <1>11. NavStepped'
    BY <1>4, <1>5, <1>7, <1>9, <1>10 DEF NavStepped
  <1> QED
    BY <1>8, <1>11

(* A message on screen is in the list its page steps through, once no      *)
(* request is under way, unless the list could not be restored or an       *)
(* answer to a page left earlier was applied; and a step past the edge of  *)
(* a page leads to the neighbour in the list, if that has not changed.     *)
THEOREM StepsLeadToNeighbours == NavSpec => [](NavTypeOK /\ NavFollowsList)
  <1>1. NavInit => NavTyped /\ NavStepped
    <2> SUFFICES ASSUME NavInit
                 PROVE  NavTyped /\ NavStepped
      OBVIOUS
    <2>1. folder \subseteq 1..Latest /\ view \in 0..MaxViews
      BY ListNavAssumption DEF NavInit
    <2>2. at = [id |-> 0, filter |-> FALSE, page |-> 1] /\ nav = NavOf(FALSE, 1)
          /\ fetches = {} /\ missed = FALSE /\ pulled = FALSE /\ mislaid = FALSE
      BY DEF NavInit
    <2>3. at \in [id : 0..Latest, filter : BOOLEAN, page : ListPages] /\ at.id = 0
      BY <2>1, <2>2, PagesAreListed, ListNavAssumption
    <2>4. /\ nav \in [ids : Seq(1..Latest), page : Int, total : ListPages]
          /\ nav.page <= 1
      <3>1. FALSE \in BOOLEAN /\ 1 \in Int
        OBVIOUS
      <3>2. PICK n : n = NavOf(FALSE, 1)
        OBVIOUS
      <3>3. n \in [ids : Seq(1..Latest), page : Int, total : ListPages] /\ n.page = 1
        BY <2>1, <3>1, <3>2, AnswersTyped
      <3>4. nav = n
        BY <2>2, <3>2
      <3> QED
        BY <3>3, <3>4
    <2> QED
      BY <2>1, <2>2, <2>3, <2>4 DEF NavTyped, NavStepped
  <1>2. ASSUME NavTyped, NavStepped, [NavNext]_navVars
        PROVE  NavTyped' /\ NavStepped'
    <2>0. /\ folder \subseteq 1..Latest /\ fetches \in SUBSET fetches /\ {} \in SUBSET fetches
          /\ pulled \in BOOLEAN /\ mislaid = FALSE
          /\ at.filter \in BOOLEAN /\ at.page \in ListPages /\ at.page \in Int
          /\ nav \in [ids : Seq(1..Latest), page : Int, total : ListPages]
          /\ nav.page <= 1 \/ nav.page \in ListPages
      BY <1>2 DEF NavTyped, NavStepped, ListPages
    <2>1. ASSUME NEW m \in 1..Latest, OpenRow(m)
          PROVE  NavTyped' /\ NavStepped'
      <3>1. OpenAt(m, at.filter, at.page, nav, fetches) /\ UNCHANGED <<folder, pulled, mislaid>>
        BY <2>1 DEF OpenRow
      <3> QED
        BY <1>2, <2>0, <3>1, OpeningTyped
    <2>2. ASSUME NEW f \in BOOLEAN, NEW p \in ListPages, NEW m \in 1..Latest, OpenLink(m, f, p)
          PROVE  NavTyped' /\ NavStepped'
      <3>1. OpenAt(m, f, p, NoNav, {}) /\ pulled' = FALSE /\ UNCHANGED <<folder, mislaid>>
        BY <2>2 DEF OpenLink
      <3>2. /\ NoNav \in [ids : Seq(1..Latest), page : Int, total : ListPages] /\ NoNav.page <= 1
            /\ p \in Int
        <4>1. p \in Int
          BY DEF ListPages
        <4>2. NoNav \in [ids : Seq(1..Latest), page : Int, total : ListPages] /\ NoNav.page = 1
          BY <2>0, <4>1, AnswersTyped
        <4> QED
          BY <4>1, <4>2
      <3>3. pulled' \in BOOLEAN /\ UNCHANGED folder /\ mislaid' = FALSE
        BY <2>0, <3>1
      <3>4. OpenAt(m, f, p, NoNav, {})
        BY <3>1
      <3> QED
        BY <1>2, <2>0, <2>2, <3>2, <3>3, <3>4, OpeningTyped
    <2>3. ASSUME NEW step \in {-1, 1}, StepInPage(step)
          PROVE  NavTyped' /\ NavStepped'
      <3>1. PICK i \in DOMAIN nav.ids : OpenAt(nav.ids[i], at.filter, nav.page, nav, fetches)
        BY <2>3 DEF StepInPage
      <3>2. nav.ids[i] \in 1..Latest /\ nav.page \in Int
        <4>1. PICK s \in Seq(1..Latest) : s = nav.ids
          BY <2>0
        <4>2. s[i] \in 1..Latest
          BY <4>1, ElementOfSeq, LenProperties
        <4> QED
          BY <2>0, <4>1, <4>2
      <3>3. UNCHANGED <<folder, pulled, mislaid>>
        BY <2>3 DEF StepInPage
      <3> QED
        BY <1>2, <2>0, <3>1, <3>2, <3>3, OpeningTyped
    <2>4. ASSUME NEW r \in fetches, StepAnswered(r)
          PROVE  NavTyped' /\ NavStepped'
      <3>1. PICK known : known = NavOf(r.filter, r.page)
        OBVIOUS
      <3>2. r.filter \in BOOLEAN /\ r.page \in Int
        BY <1>2 DEF NavTyped, NavRequest
      <3>3. /\ known \in [ids : Seq(1..Latest), page : Int, total : ListPages]
            /\ known.ids = IdsOf(r.filter, r.page) /\ known.page = r.page
            /\ IdsOf(r.filter, r.page) # <<>> => r.page <= 1 \/ r.page \in ListPages
        BY <2>0, <3>1, <3>2, AnswersTyped
      <3>4. PICK m : m = IF r.step = 1 THEN Head(known.ids) ELSE Last(known.ids)
        OBVIOUS
      <3>5. /\ r.op = "go" /\ known.ids # <<>>
            /\ OpenAt(m, r.filter, r.page, known, fetches \ {r})
            /\ pulled' = (pulled \/ r.view # view \/ at.id = 0)
            /\ mislaid' = (mislaid \/ (r.list = folder /\ ~LedToNeighbour(r, m)))
            /\ UNCHANGED folder
        BY <2>4, <3>1, <3>4 DEF StepAnswered, Landing
      <3>6. m \in 1..Latest
        <4>1. Len(known.ids) \in Nat /\ Len(known.ids) # 0
          BY <3>3, <3>5, EmptySeq, LenProperties
        <4>2. Head(known.ids) \in 1..Latest
          BY <3>3, <3>5, HeadTailProperties
        <4>3. Last(known.ids) \in 1..Latest
          <5>1. PICK s \in Seq(1..Latest) : s = known.ids
            BY <3>3
          <5>2. Len(s) \in 1..Len(s)
            BY <4>1, <5>1
          <5>3. s[Len(s)] \in 1..Latest
            BY <5>2, ElementOfSeq
          <5> QED
            BY <5>1, <5>3 DEF Last
        <4> QED
          BY <3>4, <4>2, <4>3
      <3>7. r.list = folder => LedToNeighbour(r, m)
        <4>1. r.step \in {-1, 1} /\ (r.list = folder => AtEdge(r))
          BY <1>2, <3>5 DEF NavStepped
        <4> QED
          BY <1>2, <3>3, <3>4, <3>5, <4>1, NeighbourIsOpened
      <3>8. mislaid' = FALSE /\ pulled' \in BOOLEAN
        BY <2>0, <3>5, <3>7
      <3>9. fetches \ {r} \in SUBSET fetches
        OBVIOUS
      <3> QED
        BY <1>2, <3>2, <3>3, <3>5, <3>6, <3>8, <3>9, OpeningTyped
    <2>5. ASSUME NEW r \in fetches, StepNowhere(r) \/ ListFound(r) \/ RestoreFails(r)
          PROVE  NavTyped' /\ NavStepped'
      <3>1. missed' \in BOOLEAN /\ pulled' \in BOOLEAN /\ fetches' = fetches \ {r}
            /\ UNCHANGED <<folder, at, view, mislaid>>
        BY <1>2, <2>5 DEF NavTyped, StepNowhere, ListFound, RestoreFails
      <3>2. \/ nav' = nav
            \/ nav' = NavOf(r.filter, r.page) /\ IdsOf(r.filter, r.page) # <<>>
        <4>1. ListFound(r) => IdsOf(r.filter, r.page) # <<>>
          BY EmptySeq DEF ListFound, Contains
        <4> QED
          BY <2>5, <4>1 DEF StepNowhere, ListFound, RestoreFails
      <3> QED
        BY <1>2, <3>1, <3>2, EndingTyped
    <2>6. ASSUME NEW r \in fetches, TryNext(r)
          PROVE  NavTyped' /\ NavStepped'
      BY <1>2, <2>6, TryingTyped
    <2>7. ASSUME NEW step \in {-1, 1}, StepPastEdge(step)
          PROVE  NavTyped' /\ NavStepped'
      BY <1>2, <2>7, PastEdgeTyped
    <2>8. CASE \/ \E f \in BOOLEAN, p \in ListPages : ShowList(f, p)
               \/ BackToList \/ MailListed \/ UNCHANGED navVars
      BY <1>2, <2>8, ListTyped
    <2> QED
      BY <1>2, <2>1, <2>2, <2>3, <2>4, <2>5, <2>6, <2>7, <2>8 DEF NavNext
  <1>3. NavTyped /\ NavStepped => NavTypeOK
    <2> SUFFICES ASSUME NavTyped, NavStepped
                 PROVE  NavTypeOK
      OBVIOUS
    <2>1. \A r \in fetches : r.op \in {"go", "restore"} /\ r.view \in 1..view /\ r.id \in 1..Latest
      BY DEF NavTyped, NavRequest
    <2>2. {missed, pulled, mislaid} \subseteq BOOLEAN
      BY DEF NavTyped, NavStepped
    <2>3. folder \subseteq 1..Latest /\ view \in 0..MaxViews
          /\ at \in [id : 0..Latest, filter : BOOLEAN, page : ListPages]
          /\ nav \in [ids : Seq(1..Latest), page : Int, total : ListPages]
      BY DEF NavTyped
    <2> QED
      BY <2>1, <2>2, <2>3 DEF NavTypeOK
  <1>4. ListIsKnown /\ NavStepped => NavFollowsList
    BY DEF NavStepped, NavFollowsList
  <1> QED
    BY <1>1, <1>2, <1>3, <1>4, MessagesStayInTheirList, PTL DEF NavSpec

(***************************************************************************)
(* A message page.  Requests answered in order tell of the server in       *)
(* order: once a poll of the last resend was told a settled status, so is  *)
(* every later one, and what an earlier one would show is late.            *)
(***************************************************************************)
Fates == {"queued", "sending", "delivered", "bounced", "gone"}
Inquiry == [of : 0 .. MaxResends, at : Steps, told : Statuses \cup {"none"},
            log : Statuses \cup {"none"}, late : BOOLEAN]
Calling == [op : PageCalls \cup {"none"}, at : {"none", "sent", "done", "refused"}]
MsgShapes ==
    /\ status \in Statuses /\ onPage \in [status : Statuses, isRead : BOOLEAN]
    /\ resends \in 0 .. MaxResends /\ timer \in {0, resends}
    /\ asks \in Seq(Inquiry) /\ asking \in Calling
    /\ \A i \in DOMAIN asks : /\ asks[i].of <= resends
                              /\ asks[i].at \in {"get", "got"} => asks[i].of # 0
                              /\ asks[i].at = "got" => asks[i].told \in Statuses \ {"gone"}
    /\ onPage.status = "gone" => (asks = <<>> /\ timer = 0)
    /\ asking.op = "none" => asking.at = "none"
    /\ asking.op = "resend" => resends < MaxResends

(* A message shown as read is read, or the request that says so is under   *)
(* way.                                                                    *)
ReadIsTold == /\ marking = "done" => readAt
              /\ marking = "none" /\ onPage.isRead => readAt

(* What the server made of the page's requests.                            *)
Done(op) == asking.op = op /\ asking.at = "done"
FateIsKnown ==
    /\ (resends > 0 \/ Done("resend")) => status \in Fates
    /\ Done("resend") => status # "gone"
    /\ Done("cancel") => status = "cancelled"
    /\ Done("remove") => status = "gone"
    /\ status = "gone" => (cutShort \/ onPage.status = "gone" \/ Done("remove"))

(* The page knows of all its resends.                                      *)
Informed == resends > 0 /\ ~Done("resend") /\ ~cutShort /\ status # "gone"
Knows(i) == asks[i].of = resends /\ asks[i].at # "get" /\ IsFinal(asks[i].told)
Outruns(a, b) ==
    a.of # 0 /\ \/ a.at \in {"logs", "logged"} /\ b.at \in {"get", "got"}
                \/ a.at # "get" /\ b.at = "get"
Overtaken == \A i, k \in DOMAIN asks : k < i /\ Outruns(asks[i], asks[k]) => asks[k].late
TellsTruth == \A i \in DOMAIN asks :
    Knows(i) => /\ asks[i].told = status
                /\ asks[i].at = "logged" => asks[i].log = status
LaterKnow == \A i, k \in DOMAIN asks :
    i < k /\ Knows(i) /\ ~asks[i].late /\ asks[k].of = resends /\ asks[k].at # "get"
      => Knows(k)
PollIsShown == \A i \in DOMAIN asks :
    Knows(i) /\ asks[i].at # "got" /\ ~asks[i].late => onPage.status = status
Ended ==
    timer = 0 =>
        /\ IsFinal(status) /\ onPage.status = status
        /\ logLost \/ entry = status
        /\ \A i \in DOMAIN asks :
              asks[i].at = "logged" /\ ~asks[i].late /\ asks[i].of \in {0, resends}
                => asks[i].log = status
MsgInv ==
    /\ MsgShapes /\ ReadIsTold /\ FateIsKnown /\ Overtaken
    /\ Informed => TellsTruth /\ LaterKnow
    /\ Informed /\ ~straggled => PollIsShown /\ Ended

(* A request is served or answered: others only become late.               *)
LEMMA OvertakingMarks ==
    ASSUME asks \in Seq(Inquiry), NEW S \in SUBSET Steps, NEW i \in DOMAIN asks
    PROVE  /\ Overtaking(i, S) \in Seq(Inquiry) /\ Len(Overtaking(i, S)) = Len(asks)
           /\ DOMAIN asks = 1 .. Len(asks) /\ Len(asks) \in Nat
           /\ \A k \in DOMAIN asks :
                 /\ asks[k] \in Inquiry /\ Overtaking(i, S)[k] \in Inquiry
                 /\ Overtaking(i, S)[k].of = asks[k].of /\ Overtaking(i, S)[k].at = asks[k].at
                 /\ Overtaking(i, S)[k].told = asks[k].told /\ Overtaking(i, S)[k].log = asks[k].log
                 /\ asks[k].late => Overtaking(i, S)[k].late
                 /\ k < i /\ asks[k].at \in S => Overtaking(i, S)[k].late
                 /\ k > i /\ asks[k].of = 0 /\ asks[k].at = "logged" => Overtaking(i, S)[k].late
                 /\ k = i => Overtaking(i, S)[k].late = asks[k].late
  <1>1. DOMAIN asks = 1 .. Len(asks) /\ Len(asks) \in Nat /\ \A k \in DOMAIN asks : asks[k] \in Inquiry
    BY LenProperties, ElementOfSeq
  <1>2. PICK s : s = Overtaking(i, S)
    OBVIOUS
  <1>3. ASSUME NEW k \in DOMAIN asks
        PROVE  /\ s[k] \in Inquiry
               /\ s[k].of = asks[k].of /\ s[k].at = asks[k].at
               /\ s[k].told = asks[k].told /\ s[k].log = asks[k].log
               /\ asks[k].late => s[k].late
               /\ k < i /\ asks[k].at \in S => s[k].late
               /\ k > i /\ asks[k].of = 0 /\ asks[k].at = "logged" => s[k].late
               /\ k = i => s[k].late = asks[k].late
    <2>1. PICK b \in BOOLEAN :
             b = \/ asks[k].late
                 \/ k < i /\ asks[k].at \in S
                 \/ k > i /\ asks[k].of = 0 /\ asks[k].at = "logged"
      OBVIOUS
    <2>2. s[k] = [asks[k] EXCEPT !.late = b]
      BY <1>2, <2>1 DEF Overtaking
    <2>3. asks[k] \in Inquiry
      BY <1>1
    <2>4. /\ s[k] \in Inquiry /\ s[k].late = b
          /\ s[k].of = asks[k].of /\ s[k].at = asks[k].at
          /\ s[k].told = asks[k].told /\ s[k].log = asks[k].log
      BY <2>2, <2>3 DEF Inquiry
    <2>5. asks[k].late \in BOOLEAN /\ (k = i => ~(k < i) /\ ~(k > i))
      BY <2>3, <1>1 DEF Inquiry
    <2> QED
      BY <2>1, <2>4, <2>5
  <1>4. s \in [1 .. Len(asks) -> Inquiry]
    <2>1. s = [k \in DOMAIN asks |-> s[k]]
      BY <1>2 DEF Overtaking
    <2> QED
      BY <2>1, <1>1, <1>3
  <1>5. s \in Seq(Inquiry) /\ Len(s) = Len(asks)
    BY <1>1, <1>4
  <1> QED
    BY <1>1, <1>2, <1>3, <1>5

(* Requests that are dropped, or become late, leave the others in order.   *)
LEMMA OrderStays ==
    ASSUME Overtaken, NEW f \in [DOMAIN asks' -> DOMAIN asks], asks' \in Seq(Inquiry),
           \A k, l \in DOMAIN asks' : k < l => f[k] < f[l],
           \A k \in DOMAIN asks' :
              /\ asks'[k].of = asks[f[k]].of /\ asks'[k].at = asks[f[k]].at
              /\ asks'[k].told = asks[f[k]].told /\ asks'[k].log = asks[f[k]].log
              /\ asks[f[k]].late => asks'[k].late,
           resends' = resends
    PROVE  /\ Overtaken'
           /\ \A k \in DOMAIN asks' : Knows(k)' <=> Knows(f[k])
           /\ TellsTruth /\ status' = status => TellsTruth'
           /\ LaterKnow => LaterKnow'
           /\ PollIsShown /\ status' = status /\ onPage'.status = onPage.status => PollIsShown'
  <1>1. \A k \in DOMAIN asks' : asks'[k] \in Inquiry /\ f[k] \in DOMAIN asks
    BY ElementOfSeq, LenProperties
  <1>2. \A k, l \in DOMAIN asks' : Outruns(asks'[k], asks'[l]) <=> Outruns(asks[f[k]], asks[f[l]])
    BY DEF Outruns
  <1>3. ASSUME NEW k \in DOMAIN asks'
        PROVE  Knows(k)' <=> Knows(f[k])
    BY DEF Knows, IsFinal
  <1>4. Overtaken'
    <2> SUFFICES ASSUME NEW i \in DOMAIN asks', NEW k \in DOMAIN asks', k < i,
                        Outruns(asks'[i], asks'[k])
                 PROVE  asks'[k].late
      BY DEF Overtaken, Outruns
    <2>1. f[k] < f[i] /\ Outruns(asks[f[i]], asks[f[k]])
      BY <1>2
    <2>2. asks[f[k]].late
      BY <2>1, <1>1 DEF Overtaken
    <2> QED
      BY <2>2
  <1>5. ASSUME TellsTruth, status' = status
        PROVE  TellsTruth'
    <2> SUFFICES ASSUME NEW i \in DOMAIN asks', Knows(i)'
                 PROVE  asks'[i].told = status /\ (asks'[i].at = "logged" => asks'[i].log = status)
      BY <1>5 DEF TellsTruth
    <2>1. Knows(f[i]) /\ f[i] \in DOMAIN asks
      BY <1>1, <1>3
    <2>2. asks'[i].told = asks[f[i]].told /\ asks'[i].log = asks[f[i]].log
          /\ asks'[i].at = asks[f[i]].at
      OBVIOUS
    <2>3. asks[f[i]].told = status /\ (asks[f[i]].at = "logged" => asks[f[i]].log = status)
      BY <2>1, <1>5 DEF TellsTruth
    <2> QED
      BY <2>2, <2>3
  <1>6. ASSUME LaterKnow
        PROVE  LaterKnow'
    <2> SUFFICES ASSUME NEW i \in DOMAIN asks', NEW k \in DOMAIN asks', i < k, Knows(i)',
                        ~asks'[i].late, asks'[k].of = resends, asks'[k].at # "get"
                 PROVE  Knows(k)'
      BY DEF LaterKnow
    <2>1. /\ Knows(f[i]) /\ f[i] < f[k] /\ ~asks[f[i]].late
          /\ f[i] \in DOMAIN asks /\ f[k] \in DOMAIN asks
          /\ asks[f[k]].of = resends /\ asks[f[k]].at # "get"
      BY <1>1, <1>3
    <2>2. Knows(f[k])
      BY <2>1, <1>6 DEF LaterKnow
    <2> QED
      BY <2>2, <1>3
  <1>7. ASSUME PollIsShown, status' = status, onPage'.status = onPage.status
        PROVE  PollIsShown'
    <2> SUFFICES ASSUME NEW i \in DOMAIN asks', Knows(i)', asks'[i].at # "got", ~asks'[i].late
                 PROVE  onPage'.status = status'
      BY DEF PollIsShown
    <2>1. Knows(f[i]) /\ f[i] \in DOMAIN asks /\ asks[f[i]].at # "got" /\ ~asks[f[i]].late
      BY <1>1, <1>3
    <2> QED
      BY <2>1, <1>7 DEF PollIsShown
  <1> QED
    BY <1>3, <1>4, <1>5, <1>6, <1>7

(* Steps that leave the requests, and what the page knows, as they are.    *)
LEMMA NothingHeard ==
    ASSUME MsgInv, MsgShapes', ReadIsTold', FateIsKnown', asks' = asks, resends' = resends,
           Informed' => /\ Informed /\ status' = status /\ onPage'.status = onPage.status
                        /\ UNCHANGED <<timer, entry, logLost, straggled>>
    PROVE  MsgInv'
  <1>1. Overtaken'
    BY DEF MsgInv, Overtaken, Outruns
  <1>2. ASSUME Informed'
        PROVE  (TellsTruth /\ LaterKnow)'
    BY <1>2 DEF MsgInv, TellsTruth, LaterKnow, Knows
  <1>3. ASSUME Informed', ~straggled'
        PROVE  (PollIsShown /\ Ended)'
    <2>1. PollIsShown /\ Ended /\ status' = status /\ onPage'.status = onPage.status
          /\ UNCHANGED <<timer, entry, logLost>>
      BY <1>3 DEF MsgInv
    <2> QED
      BY <2>1 DEF PollIsShown, Ended, Knows
  <1> QED
    BY <1>1, <1>2, <1>3 DEF MsgInv

(* The server and the page's own requests.                                 *)
LEMMA CallsKeep ==
    ASSUME MsgInv, \/ ServeCall \/ LoseCall \/ ServeRead \/ MarkedRead
                   \/ \E op \in PageCalls : AskFor(op)
                   \/ ScheduleCancelled \/ CallRefused \/ UNCHANGED msgVars
    PROVE  MsgInv'
  <1>0. MsgShapes /\ ReadIsTold /\ FateIsKnown
    BY DEF MsgInv
  <1>1. CASE ServeCall
    <2>0. /\ asking.at = "sent"
          /\ UNCHANGED <<readAt, onPage, entry, resends, timer, polls, asks, marking, straggled, cutShort, logLost>>
      BY <1>1 DEF ServeCall, pollVars, pollHistory
    <2>1. \/ /\ asking.op = "resend" /\ status = "bounced" /\ status' = "queued"
             /\ asking' = [asking EXCEPT !.at = "done"]
          \/ /\ asking.op = "cancel" /\ status = "scheduled" /\ status' = "cancelled"
             /\ asking' = [asking EXCEPT !.at = "done"]
          \/ /\ asking.op \notin {"resend", "cancel"} /\ status # "gone" /\ status' = "gone"
             /\ asking' = [asking EXCEPT !.at = "done"]
          \/ asking' = [asking EXCEPT !.at = "refused"] /\ status' = status
      BY <1>1 DEF ServeCall, Takes
    <2>2. asking.op = "none" => asking.at = "none"
      BY <1>0 DEF MsgShapes
    <2>3. /\ asking' \in Calling /\ asking'.op = asking.op
          /\ asking'.at = "done" \/ (asking'.at = "refused" /\ status' = status)
      BY <2>1, <1>0 DEF MsgShapes, Calling
    <2>4. MsgShapes'
      BY <2>0, <2>1, <2>3, <1>0 DEF MsgShapes, Statuses
    <2>5. ReadIsTold'
      BY <2>0, <1>0 DEF ReadIsTold
    <2>6. FateIsKnown'
      BY <2>0, <2>1, <2>2, <2>3, <1>0 DEF FateIsKnown, Done, Fates, MsgShapes, Calling, PageCalls
    <2>7. Informed' => Informed /\ status' = status
      BY <2>0, <2>1, <2>3, <1>0 DEF Informed, Done, FateIsKnown, Fates
    <2> QED
      BY <2>0, <2>4, <2>5, <2>6, <2>7, NothingHeard
  <1>2. CASE LoseCall
    <2>0. /\ asking.at = "done" /\ asking' = [asking EXCEPT !.at = "refused"] /\ cutShort'
          /\ UNCHANGED <<status, readAt, onPage, entry, resends, timer, polls, asks, marking>>
      BY <1>2 DEF LoseCall, pollVars, msgServer
    <2>1. asking' \in Calling /\ asking'.at = "refused" /\ asking'.op = asking.op
      BY <2>0, <1>0 DEF MsgShapes, Calling
    <2>2. MsgShapes'
      BY <2>0, <2>1, <1>0 DEF MsgShapes
    <2>3. ReadIsTold' /\ FateIsKnown' /\ ~Informed'
      BY <2>0, <2>1, <1>0 DEF ReadIsTold, FateIsKnown, Informed, Done
    <2> QED
      BY <2>0, <2>2, <2>3, NothingHeard
  <1>3. CASE ServeRead
    <2>0. /\ readAt' /\ UNCHANGED <<status, onPage, entry, resends, timer, polls, asks, asking,
                                    straggled, cutShort, logLost>>
      BY <1>3 DEF ServeRead, pollVars, pollHistory
    <2>1. MsgShapes' /\ ReadIsTold' /\ FateIsKnown'
      BY <2>0, <1>0 DEF MsgShapes, ReadIsTold, FateIsKnown, Done
    <2> QED
      BY <2>0, <2>1, NothingHeard DEF Informed, Done
  <1>4. CASE MarkedRead
    <2>0. /\ marking # "none" /\ marking' = "none"
          /\ \/ marking = "done" /\ UNCHANGED onPage
             \/ onPage' = [onPage EXCEPT !.isRead = FALSE]
          /\ UNCHANGED <<status, readAt, entry, resends, timer, polls, asks, asking,
                         straggled, cutShort, logLost>>
      BY <1>4 DEF MarkedRead, pollVars, pollHistory, msgServer
    <2>1. /\ onPage' \in [status : Statuses, isRead : BOOLEAN] /\ onPage'.status = onPage.status
          /\ marking = "done" \/ ~onPage'.isRead
      BY <2>0, <1>0 DEF MsgShapes
    <2>2. MsgShapes'
      BY <2>0, <2>1, <1>0 DEF MsgShapes
    <2>3. ReadIsTold' /\ FateIsKnown'
      BY <2>0, <2>1, <1>0 DEF ReadIsTold, FateIsKnown, Done
    <2> QED
      BY <2>0, <2>1, <2>2, <2>3, NothingHeard DEF Informed, Done
  <1>5. CASE \/ \E op \in PageCalls : AskFor(op)
             \/ CallRefused
    <2>0. /\ asking.at \in {"none", "refused"}
          /\ \/ asking' = NotAsking
             \/ \E op \in PageCalls : /\ asking' = [op |-> op, at |-> "sent"]
                                      /\ op = "resend" => resends < MaxResends
          /\ UNCHANGED <<status, readAt, onPage, entry, resends, timer, polls, asks, marking,
                         straggled, cutShort, logLost>>
      BY <1>5 DEF AskFor, Offered, CallRefused, NotAsking, pollVars, pollHistory, msgServer
    <2>1. /\ asking' \in Calling /\ asking'.at # "done"
          /\ asking'.op = "none" => asking'.at = "none"
          /\ asking'.op = "resend" => resends < MaxResends
      <3>1. CASE asking' = NotAsking
        BY <3>1 DEF NotAsking, Calling
      <3>2. CASE ~(asking' = NotAsking)
        <4>1. PICK c \in PageCalls : /\ asking' = [op |-> c, at |-> "sent"]
                                     /\ c = "resend" => resends < MaxResends
          BY <2>0, <3>2
        <4>2. c \in PageCalls \cup {"none"} /\ c # "none"
          BY DEF PageCalls
        <4>3. asking' \in Calling
          BY <4>1, <4>2 DEF Calling
        <4>4. asking'.at = "sent" /\ asking'.op = c
          BY <4>1
        <4> QED
          BY <4>1, <4>2, <4>3, <4>4
      <3> QED
        BY <3>1, <3>2
    <2>2. MsgShapes'
      BY <2>0, <2>1, <1>0 DEF MsgShapes
    <2>3. ReadIsTold' /\ FateIsKnown'
      BY <2>0, <2>1, <1>0 DEF ReadIsTold, FateIsKnown, Done
    <2> QED
      BY <2>0, <2>1, <2>2, <2>3, NothingHeard DEF Informed, Done
  <1>6. CASE ScheduleCancelled
    <2>0. /\ Done("cancel") /\ asking' = NotAsking
          /\ onPage' = [onPage EXCEPT !.status = "cancelled"]
          /\ UNCHANGED <<status, readAt, entry, resends, timer, polls, asks, marking,
                         straggled, cutShort, logLost>>
      BY <1>6 DEF ScheduleCancelled, Done, pollVars, pollHistory, msgServer
    <2>1. /\ asking' \in Calling /\ asking'.at = "none" /\ asking'.op = "none"
          /\ onPage' \in [status : Statuses, isRead : BOOLEAN]
          /\ onPage'.status = "cancelled" /\ onPage'.isRead = onPage.isRead
      BY <2>0, <1>0 DEF NotAsking, Calling, MsgShapes, Statuses
    <2>2. MsgShapes'
      BY <2>0, <2>1, <1>0 DEF MsgShapes
    <2>3. status = "cancelled" /\ ~(resends > 0)
      BY <2>0, <1>0 DEF FateIsKnown, Fates
    <2>4. ReadIsTold' /\ FateIsKnown' /\ ~Informed'
      BY <2>0, <2>1, <2>3, <1>0 DEF ReadIsTold, FateIsKnown, Informed, Done
    <2> QED
      BY <2>0, <2>2, <2>4, NothingHeard
  <1>7. CASE UNCHANGED msgVars
    <2>0. UNCHANGED <<status, readAt, onPage, entry, resends, timer, polls, asks, asking, marking,
                      straggled, cutShort, logLost>>
      BY <1>7 DEF msgVars, pollVars, pollHistory, msgServer
    <2>1. MsgShapes' /\ ReadIsTold' /\ FateIsKnown'
      BY <2>0, <1>0 DEF MsgShapes, ReadIsTold, FateIsKnown, Done
    <2> QED
      BY <2>0, <2>1, NothingHeard DEF Informed, Done
  <1> QED
    BY <1>1, <1>2, <1>3, <1>4, <1>5, <1>6, <1>7

(* The worker: while it has not ended the job, no poll knows its end.      *)
LEMMA AttemptKeeps ==
    ASSUME MsgInv, Attempt
    PROVE  MsgInv'
  <1>0. MsgShapes /\ ReadIsTold /\ FateIsKnown /\ Overtaken
    BY DEF MsgInv
  <1>1. /\ status \in {"scheduled", "queued", "sending"}
        /\ status' \in {"sending", "delivered", "bounced"}
        /\ UNCHANGED <<readAt, onPage, entry, resends, timer, polls, asks, asking, marking,
                       straggled, cutShort, logLost>>
    BY DEF Attempt, pollVars, pollHistory
  <1>2. MsgShapes'
    BY <1>0, <1>1 DEF MsgShapes, Statuses
  <1>3. ReadIsTold' /\ FateIsKnown' /\ Overtaken'
    BY <1>0, <1>1 DEF ReadIsTold, FateIsKnown, Done, Fates, Overtaken, Outruns
  <1>4. Informed' => Informed /\ ~IsFinal(status)
    BY <1>0, <1>1 DEF Informed, FateIsKnown, Done, Fates, IsFinal
  <1>5. ASSUME Informed'
        PROVE  \A i \in DOMAIN asks' : ~Knows(i)'
    BY <1>1, <1>4, <1>5 DEF MsgInv, TellsTruth, Knows
  <1>6. ASSUME Informed', ~straggled'
        PROVE  Ended'
    BY <1>1, <1>4, <1>6 DEF MsgInv, Ended
  <1> QED
    BY <1>2, <1>3, <1>5, <1>6 DEF MsgInv, TellsTruth, LaterKnow, PollIsShown

(* A resend starts over: no poll knows of it yet, and the interval runs.   *)
LEMMA StartKeeps ==
    ASSUME MsgInv, StartPolling
    PROVE  MsgInv'
  <1>0. MsgShapes /\ ReadIsTold /\ FateIsKnown /\ Overtaken
    BY DEF MsgInv
  <1>1. /\ Done("resend") /\ asking' = NotAsking
        /\ onPage' = [onPage EXCEPT !.status = "queued"]
        /\ resends' = resends + 1 /\ timer' = resends'
        /\ UNCHANGED <<status, readAt, entry, polls, asks, marking>>
    BY DEF StartPolling, Done, msgServer
  <1>2. /\ asking' \in Calling /\ asking'.op = "none" /\ asking'.at = "none"
        /\ onPage' \in [status : Statuses, isRead : BOOLEAN]
        /\ onPage'.status = "queued" /\ onPage'.isRead = onPage.isRead
    BY <1>0, <1>1 DEF MsgShapes, NotAsking, Calling, Statuses
  <1>3. resends \in Nat /\ resends' \in 0 .. MaxResends /\ resends' > 0 /\ timer' # 0
    BY <1>0, <1>1, MessagePageAssumption DEF MsgShapes, Done
  <1>4. \A i \in DOMAIN asks : asks[i] \in Inquiry /\ asks[i].of \in Nat /\ asks[i].of < resends'
    <2>1. \A i \in DOMAIN asks : asks[i] \in Inquiry /\ asks[i].of <= resends
      BY <1>0, ElementOfSeq, LenProperties DEF MsgShapes
    <2> QED
      BY <2>1, <1>1, <1>3 DEF Inquiry
  <1>5. MsgShapes'
    <2>1. \A i \in DOMAIN asks' : asks'[i].of <= resends'
      BY <1>1, <1>3, <1>4
    <2> QED
      BY <1>0, <1>1, <1>2, <1>3, <2>1 DEF MsgShapes
  <1>6. ReadIsTold' /\ FateIsKnown' /\ Overtaken'
    BY <1>0, <1>1, <1>2 DEF ReadIsTold, FateIsKnown, Done, Overtaken, Outruns
  <1>7. \A i \in DOMAIN asks' : ~Knows(i)'
    BY <1>1, <1>3, <1>4 DEF Knows
  <1> QED
    BY <1>3, <1>5, <1>6, <1>7 DEF MsgInv, TellsTruth, LaterKnow, PollIsShown, Ended

(* One more poll, or one more look at the delivery log, knows nothing yet. *)
LEMMA AskingKeeps ==
    ASSUME MsgInv, NEW e \in Inquiry, asks' = Append(asks, e),
           \/ e.of = resends /\ resends # 0 /\ e.at = "get"
           \/ e.of = 0 /\ e.at = "logs",
           onPage.status # "gone",
           UNCHANGED <<status, readAt, onPage, entry, resends, timer, asking, marking,
                       straggled, cutShort, logLost>>
    PROVE  MsgInv'
  <1>0. MsgShapes /\ ReadIsTold /\ FateIsKnown /\ Overtaken
    BY DEF MsgInv
  <1>1. asks \in Seq(Inquiry) /\ Len(asks) \in Nat /\ resends \in Nat
    BY <1>0, LenProperties, MessagePageAssumption DEF MsgShapes
  <1>2. /\ asks' \in Seq(Inquiry) /\ DOMAIN asks' = 1 .. Len(asks) + 1
        /\ DOMAIN asks = 1 .. Len(asks)
        /\ \A i \in 1 .. Len(asks) : asks'[i] = asks[i]
        /\ asks'[Len(asks) + 1] = e
    BY <1>1, AppendProperties, LenProperties
  <1>3. \A i \in DOMAIN asks' : i = Len(asks) + 1 \/ i \in DOMAIN asks
    BY <1>1, <1>2
  <1>4. MsgShapes'
    <2>1. \A i \in DOMAIN asks' : /\ asks'[i].of <= resends'
                                  /\ asks'[i].at \in {"get", "got"} => asks'[i].of # 0
                                  /\ asks'[i].at = "got" => asks'[i].told \in Statuses \ {"gone"}
      BY <1>0, <1>1, <1>2, <1>3 DEF MsgShapes
    <2> QED
      BY <1>0, <1>2, <2>1 DEF MsgShapes
  <1>5. ReadIsTold' /\ FateIsKnown'
    BY <1>0 DEF ReadIsTold, FateIsKnown, Done
  <1>6. Overtaken'
    <2> SUFFICES ASSUME NEW i \in DOMAIN asks', NEW k \in DOMAIN asks', k < i,
                        Outruns(asks'[i], asks'[k])
                 PROVE  asks'[k].late
      BY DEF Overtaken, Outruns
    <2>1. i # Len(asks) + 1
      BY <1>2 DEF Outruns
    <2>2. i \in DOMAIN asks /\ k \in DOMAIN asks
      BY <2>1, <1>1, <1>2
    <2>3. asks'[i] = asks[i] /\ asks'[k] = asks[k]
      BY <2>2, <1>2
    <2> QED
      BY <2>2, <2>3, <1>0 DEF Overtaken
  <1>7. Informed' => Informed /\ resends # 0
    BY <1>1 DEF Informed, Done
  <1>8. ASSUME NEW n \in DOMAIN asks', n = Len(asks) + 1, resends # 0
        PROVE  ~Knows(n)'
    BY <1>2, <1>8 DEF Knows
  <1>9. \A i \in DOMAIN asks : Knows(i)' <=> Knows(i)
    BY <1>2 DEF Knows
  <1>10. ASSUME Informed'
         PROVE  (TellsTruth /\ LaterKnow)'
    <2>1. TellsTruth /\ LaterKnow
      BY <1>7, <1>10 DEF MsgInv
    <2>2. TellsTruth'
      BY <2>1, <1>2, <1>3, <1>7, <1>8, <1>9, <1>10 DEF TellsTruth
    <2>3. ASSUME NEW i \in DOMAIN asks', NEW k \in DOMAIN asks', i < k, Knows(i)',
                 ~asks'[i].late, asks'[k].of = resends, asks'[k].at # "get"
          PROVE  Knows(k)'
      <3>1. k # Len(asks) + 1
        BY <2>3, <1>2, <1>7, <1>10
      <3>2. k \in DOMAIN asks /\ i \in DOMAIN asks
        BY <3>1, <2>3, <1>1, <1>2
      <3>3. asks'[k] = asks[k] /\ asks'[i] = asks[i]
        BY <3>2, <1>2
      <3>4. Knows(k)
        BY <3>2, <3>3, <2>1, <2>3, <1>9 DEF LaterKnow
      <3> QED
        BY <3>2, <3>4, <1>9
    <2> QED
      BY <2>2, <2>3 DEF LaterKnow
  <1>11. ASSUME Informed', ~straggled'
         PROVE  (PollIsShown /\ Ended)'
    <2>1. PollIsShown /\ Ended
      BY <1>7, <1>11 DEF MsgInv
    <2>2. PollIsShown'
      BY <2>1, <1>2, <1>3, <1>7, <1>8, <1>9, <1>11 DEF PollIsShown
    <2>3. Ended'
      BY <2>1, <1>2, <1>3 DEF Ended
    <2> QED
      BY <2>2, <2>3
  <1> QED
    BY <1>4, <1>5, <1>6, <1>10, <1>11 DEF MsgInv

(* The interval fires, or the user asks for the log.                       *)
LEMMA AsksKeep ==
    ASSUME MsgInv, Poll \/ RefreshLog
    PROVE  MsgInv'
  <1>0. MsgShapes /\ resends \in Nat
    BY MessagePageAssumption DEF MsgInv, MsgShapes
  <1>1. CASE Poll
    <2> DEFINE e == [LogsAsked(timer) EXCEPT !.at = "get"]
    <2>1. /\ timer = resends /\ resends # 0 /\ onPage.status # "gone"
          /\ asks' = Append(asks, e)
          /\ UNCHANGED <<status, readAt, onPage, entry, resends, timer, asking, marking,
                         straggled, cutShort, logLost>>
      BY <1>0, <1>1 DEF Poll, MsgShapes, msgServer, pollHistory
    <2>2. e \in Inquiry /\ e.of = resends /\ e.at = "get"
      BY <2>1, <1>0 DEF LogsAsked, Inquiry, MsgShapes, Steps
    <2> HIDE DEF e
    <2> QED
      BY <2>1, <2>2, AskingKeeps
  <1>2. CASE RefreshLog
    <2> DEFINE e == LogsAsked(0)
    <2>1. /\ onPage.status # "gone" /\ asks' = Append(asks, e)
          /\ UNCHANGED <<status, readAt, onPage, entry, resends, timer, asking, marking,
                         straggled, cutShort, logLost>>
      BY <1>2 DEF RefreshLog, msgServer, pollHistory
    <2>2. e \in Inquiry /\ e.of = 0 /\ e.at = "logs"
      BY MessagePageAssumption DEF LogsAsked, Inquiry, Steps
    <2> HIDE DEF e
    <2> QED
      BY <2>1, <2>2, AskingKeeps
  <1> QED
    BY <1>1, <1>2

(* The server answers a request of the page.                               *)
LEMMA ServeKeeps ==
    ASSUME MsgInv, NEW i \in DOMAIN asks, ServeAsk(i)
    PROVE  MsgInv'
  <1>0. MsgShapes /\ ReadIsTold /\ FateIsKnown /\ Overtaken /\ asks \in Seq(Inquiry)
    BY DEF MsgInv, MsgShapes
  <1>1. UNCHANGED <<status, readAt, onPage, entry, resends, timer, asking, marking,
                    straggled, cutShort, logLost>>
    BY DEF ServeAsk, msgServer, pollHistory
  <1>2. status # "gone" /\ status \in Statuses /\ asks[i].at \in {"get", "logs"}
    BY <1>0 DEF ServeAsk, MsgShapes
  <1>3. /\ ReadIsTold' /\ FateIsKnown' /\ (Informed' <=> Informed)
        /\ Informed => TellsTruth /\ LaterKnow
        /\ Informed /\ ~straggled => PollIsShown /\ Ended
    BY <1>0, <1>1 DEF ReadIsTold, FateIsKnown, Informed, Done, MsgInv
  <1>4. CASE asks[i].at = "get"
    <2>1. PICK s : s = Overtaking(i, {"get"})
      OBVIOUS
    <2>2. /\ s \in Seq(Inquiry) /\ Len(s) = Len(asks)
          /\ DOMAIN asks = 1 .. Len(asks) /\ Len(asks) \in Nat
          /\ \A k \in DOMAIN asks :
                /\ asks[k] \in Inquiry /\ s[k] \in Inquiry
                /\ s[k].of = asks[k].of /\ s[k].at = asks[k].at
                /\ s[k].told = asks[k].told /\ s[k].log = asks[k].log
                /\ asks[k].late => s[k].late
                /\ k < i /\ asks[k].at \in {"get"} => s[k].late
                /\ k = i => s[k].late = asks[k].late
      <3>1. {"get"} \in SUBSET Steps
        BY DEF Steps
      <3> QED
        BY <1>0, <2>1, <3>1, OvertakingMarks
    <2>3. asks' = [s EXCEPT ![i] = [s[i] EXCEPT !.at = "got", !.told = status]]
      BY <1>4, <2>1 DEF ServeAsk
    <2>4. /\ asks' \in Seq(Inquiry) /\ DOMAIN asks' = DOMAIN asks
          /\ \A k \in DOMAIN asks : k # i => asks'[k] = s[k]
          /\ asks'[i].of = asks[i].of /\ asks'[i].at = "got" /\ asks'[i].told = status
          /\ asks'[i].late = asks[i].late
      <3>1. s[i] \in Inquiry /\ i \in 1 .. Len(s) /\ Len(s) \in Nat
        BY <2>2
      <3>2. PICK e : e = [s[i] EXCEPT !.at = "got", !.told = status]
        OBVIOUS
      <3>3. e \in Inquiry /\ e.of = s[i].of /\ e.at = "got" /\ e.told = status /\ e.late = s[i].late
        BY <1>2, <3>1, <3>2 DEF Inquiry, Steps
      <3>4. asks' = [s EXCEPT ![i] = e]
        BY <2>3, <3>2
      <3> QED
        BY <2>2, <3>1, <3>3, <3>4
    <2>5. MsgShapes'
      <3>1. \A k \in DOMAIN asks' : /\ asks'[k].of <= resends'
                                    /\ asks'[k].at \in {"get", "got"} => asks'[k].of # 0
                                    /\ asks'[k].at = "got" => asks'[k].told \in Statuses \ {"gone"}
        BY <1>0, <1>1, <1>2, <1>4, <2>2, <2>4 DEF MsgShapes
      <3>2. onPage.status # "gone"
        BY <1>0, <2>2 DEF MsgShapes
      <3> QED
        BY <1>0, <1>1, <2>4, <3>1, <3>2 DEF MsgShapes
    <2>6. Overtaken'
      <3> SUFFICES ASSUME NEW a \in DOMAIN asks, NEW b \in DOMAIN asks, b < a,
                          Outruns(asks'[a], asks'[b])
                   PROVE  asks'[b].late
        BY <2>4 DEF Overtaken, Outruns
      <3>1. CASE a = i
        BY <3>1, <1>4, <2>2, <2>4 DEF Outruns
      <3>2. CASE b = i
        <4>1. Outruns(asks[a], asks[b])
          BY <3>2, <1>4, <2>2, <2>4 DEF Outruns
        <4> QED
          BY <3>2, <4>1, <1>0, <2>4 DEF Overtaken
      <3>3. CASE a # i /\ b # i
        <4>1. Outruns(asks[a], asks[b])
          BY <3>3, <2>2, <2>4 DEF Outruns
        <4> QED
          BY <3>3, <4>1, <1>0, <2>2, <2>4 DEF Overtaken
      <3> QED
        BY <3>1, <3>2, <3>3
    <2>7. \A k \in DOMAIN asks : k # i => /\ Knows(k)' <=> Knows(k)
                                          /\ asks[k].late => asks'[k].late
                                          /\ asks'[k].of = asks[k].of /\ asks'[k].at = asks[k].at
                                          /\ asks'[k].told = asks[k].told /\ asks'[k].log = asks[k].log
      BY <1>1, <2>2, <2>4 DEF Knows
    <2>8. ASSUME Informed'
          PROVE  (TellsTruth /\ LaterKnow)'
      <3>1. TellsTruth /\ LaterKnow
        BY <1>3, <2>8
      <3>2. TellsTruth'
        <4> SUFFICES ASSUME NEW k \in DOMAIN asks, Knows(k)'
                     PROVE  /\ asks'[k].told = status
                            /\ asks'[k].at = "logged" => asks'[k].log = status
          BY <1>1, <2>4 DEF TellsTruth
        <4>1. CASE k = i
          BY <4>1, <2>4
        <4>2. CASE k # i
          BY <4>2, <2>7, <3>1 DEF TellsTruth
        <4> QED
          BY <4>1, <4>2
      <3>3. ASSUME NEW a \in DOMAIN asks, NEW b \in DOMAIN asks, a < b, Knows(a)',
                   ~asks'[a].late, asks'[b].of = resends, asks'[b].at # "get"
            PROVE  Knows(b)'
        <4>1. CASE b = i
          <5>1. a # i
            BY <3>3, <4>1, <2>2
          <5>2. IsFinal(asks[a].told) /\ asks[a].told = status
            BY <3>3, <5>1, <2>7, <3>1 DEF TellsTruth, Knows
          <5> QED
            BY <3>3, <4>1, <5>2, <1>1, <2>4 DEF Knows
        <4>2. CASE a = i
          <5>1. b # i
            BY <3>3, <4>2, <2>2
          <5>2. asks[b].of # 0
            <6>1. asks[i].of # 0
              BY <1>0, <1>4 DEF MsgShapes
            <6>2. asks[i].of = resends
              BY <3>3, <4>2, <1>1, <2>4 DEF Knows
            <6>3. asks'[b].of = asks[b].of
              BY <5>1, <2>7
            <6> QED
              BY <6>1, <6>2, <6>3, <3>3
          <5>3. asks[b].at # "get"
            BY <3>3, <5>1, <2>7
          <5>4. Outruns(asks[b], asks[a])
            BY <4>2, <5>2, <5>3, <1>4 DEF Outruns
          <5>5. asks[a].late
            BY <3>3, <5>4, <1>0 DEF Overtaken
          <5> QED
            BY <3>3, <5>5, <4>2, <2>4
        <4>3. CASE a # i /\ b # i
          <5>1. Knows(a) /\ ~asks[a].late /\ asks[b].of = resends /\ asks[b].at # "get"
            BY <3>3, <4>3, <2>7
          <5>2. Knows(b)
            BY <3>3, <5>1, <3>1 DEF LaterKnow
          <5> QED
            BY <4>3, <5>2, <2>7
        <4> QED
          BY <4>1, <4>2, <4>3
      <3> QED
        BY <1>1, <2>4, <3>2, <3>3 DEF LaterKnow
    <2>9. ASSUME Informed', ~straggled'
          PROVE  (PollIsShown /\ Ended)'
      <3>1. PollIsShown /\ Ended
        BY <1>1, <1>3, <2>9
      <3>2. PollIsShown'
        <4> SUFFICES ASSUME NEW k \in DOMAIN asks, Knows(k)', asks'[k].at # "got", ~asks'[k].late
                     PROVE  onPage.status = status
          BY <1>1, <2>4 DEF PollIsShown
        <4>1. k # i
          BY <2>4
        <4> QED
          BY <4>1, <2>7, <3>1 DEF PollIsShown
      <3>3. Ended'
        <4> SUFFICES ASSUME timer = 0
                     PROVE  \A k \in DOMAIN asks :
                               asks'[k].at = "logged" /\ ~asks'[k].late /\ asks'[k].of \in {0, resends}
                                 => asks'[k].log = status
          BY <1>1, <2>4, <3>1 DEF Ended
        <4> SUFFICES ASSUME NEW k \in DOMAIN asks, asks'[k].at = "logged", ~asks'[k].late,
                            asks'[k].of \in {0, resends}
                     PROVE  asks'[k].log = status
          OBVIOUS
        <4>1. k # i
          BY <2>4
        <4> QED
          BY <4>1, <2>7, <3>1 DEF Ended
      <3> QED
        BY <3>2, <3>3
    <2> QED
      BY <1>3, <2>5, <2>6, <2>8, <2>9 DEF MsgInv
  <1>5. CASE asks[i].at = "logs"
    <2>1. PICK s : s = Overtaking(i, {"logs"})
      OBVIOUS
    <2>2. /\ s \in Seq(Inquiry) /\ Len(s) = Len(asks)
          /\ DOMAIN asks = 1 .. Len(asks) /\ Len(asks) \in Nat
          /\ \A k \in DOMAIN asks :
                /\ asks[k] \in Inquiry /\ s[k] \in Inquiry
                /\ s[k].of = asks[k].of /\ s[k].at = asks[k].at
                /\ s[k].told = asks[k].told /\ s[k].log = asks[k].log
                /\ asks[k].late => s[k].late
      <3>1. {"logs"} \in SUBSET Steps
        BY DEF Steps
      <3> QED
        BY <1>0, <2>1, <3>1, OvertakingMarks
    <2>3. asks' = [s EXCEPT ![i] = [s[i] EXCEPT !.at = "logged", !.log = status]]
      BY <1>5, <2>1 DEF ServeAsk
    <2>4. /\ asks' \in Seq(Inquiry) /\ DOMAIN asks' = DOMAIN asks
          /\ \A k \in DOMAIN asks : k # i => asks'[k] = s[k]
          /\ asks'[i].of = asks[i].of /\ asks'[i].at = "logged" /\ asks'[i].told = asks[i].told
          /\ asks'[i].log = status
          /\ asks[i].late => asks'[i].late
      <3>1. s[i] \in Inquiry /\ i \in 1 .. Len(s) /\ Len(s) \in Nat
        BY <2>2
      <3>2. PICK e : e = [s[i] EXCEPT !.at = "logged", !.log = status]
        OBVIOUS
      <3>3. /\ e \in Inquiry /\ e.of = s[i].of /\ e.at = "logged" /\ e.told = s[i].told
            /\ e.log = status /\ e.late = s[i].late
        BY <1>2, <3>1, <3>2 DEF Inquiry, Steps
      <3>4. asks' = [s EXCEPT ![i] = e]
        BY <2>3, <3>2
      <3> QED
        BY <2>2, <3>1, <3>3, <3>4
    <2>5. \A k \in DOMAIN asks :
             /\ Knows(k)' <=> Knows(k)
             /\ asks[k].late => asks'[k].late
             /\ asks'[k].of = asks[k].of /\ asks'[k].told = asks[k].told
             /\ k = i => asks'[k].at = "logged" /\ asks'[k].log = status
             /\ k # i => asks'[k].at = asks[k].at /\ asks'[k].log = asks[k].log
      BY <1>1, <1>5, <2>2, <2>4 DEF Knows
    <2>6. MsgShapes'
      <3>1. \A k \in DOMAIN asks' : /\ asks'[k].of <= resends'
                                    /\ asks'[k].at \in {"get", "got"} => asks'[k].of # 0
                                    /\ asks'[k].at = "got" => asks'[k].told \in Statuses \ {"gone"}
        BY <1>0, <1>1, <2>4, <2>5 DEF MsgShapes
      <3>2. onPage.status # "gone"
        BY <1>0, <2>2 DEF MsgShapes
      <3> QED
        BY <1>0, <1>1, <2>4, <3>1, <3>2 DEF MsgShapes
    <2>7. Overtaken'
      <3> SUFFICES ASSUME NEW a \in DOMAIN asks, NEW b \in DOMAIN asks, b < a,
                          Outruns(asks'[a], asks'[b])
                   PROVE  asks'[b].late
        BY <2>4 DEF Overtaken, Outruns
      <3>1. Outruns(asks[a], asks[b])
        BY <1>5, <2>5 DEF Outruns
      <3> QED
        BY <3>1, <1>0, <2>5 DEF Overtaken
    <2>8. ASSUME Informed'
          PROVE  (TellsTruth /\ LaterKnow)'
      <3>1. TellsTruth /\ LaterKnow
        BY <1>3, <2>8
      <3>2. TellsTruth'
        <4> SUFFICES ASSUME NEW k \in DOMAIN asks, Knows(k)'
                     PROVE  /\ asks'[k].told = status
                            /\ asks'[k].at = "logged" => asks'[k].log = status
          BY <1>1, <2>4 DEF TellsTruth
        <4>1. Knows(k) /\ asks[k].told = status /\ (asks[k].at = "logged" => asks[k].log = status)
          BY <2>5, <3>1 DEF TellsTruth
        <4> QED
          BY <4>1, <2>5
      <3>3. ASSUME NEW a \in DOMAIN asks, NEW b \in DOMAIN asks, a < b, Knows(a)',
                   ~asks'[a].late, asks'[b].of = resends, asks'[b].at # "get"
            PROVE  Knows(b)'
        <4>1. Knows(a) /\ ~asks[a].late /\ asks[b].of = resends /\ asks[b].at # "get"
          BY <3>3, <1>5, <2>5
        <4>2. Knows(b)
          BY <3>3, <4>1, <3>1 DEF LaterKnow
        <4> QED
          BY <4>2, <2>5
      <3> QED
        BY <1>1, <2>4, <3>2, <3>3 DEF LaterKnow
    <2>9. ASSUME Informed', ~straggled'
          PROVE  (PollIsShown /\ Ended)'
      <3>1. PollIsShown /\ Ended
        BY <1>1, <1>3, <2>9
      <3>2. PollIsShown'
        <4> SUFFICES ASSUME NEW k \in DOMAIN asks, Knows(k)', asks'[k].at # "got", ~asks'[k].late
                     PROVE  onPage.status = status
          BY <1>1, <2>4 DEF PollIsShown
        <4>1. Knows(k) /\ asks[k].at # "got" /\ ~asks[k].late
          BY <1>5, <2>5
        <4> QED
          BY <4>1, <3>1 DEF PollIsShown
      <3>3. Ended'
        <4> SUFFICES ASSUME timer = 0
                     PROVE  \A k \in DOMAIN asks :
                               asks'[k].at = "logged" /\ ~asks'[k].late /\ asks'[k].of \in {0, resends}
                                 => asks'[k].log = status
          BY <1>1, <2>4, <3>1 DEF Ended
        <4> SUFFICES ASSUME NEW k \in DOMAIN asks, asks'[k].at = "logged", ~asks'[k].late,
                            asks'[k].of \in {0, resends}
                     PROVE  asks'[k].log = status
          OBVIOUS
        <4>1. CASE k = i
          BY <4>1, <2>5
        <4>2. CASE k # i
          BY <4>2, <2>5, <3>1 DEF Ended
        <4> QED
          BY <4>1, <4>2
      <3> QED
        BY <3>2, <3>3
    <2> QED
      BY <1>3, <2>6, <2>7, <2>8, <2>9 DEF MsgInv
  <1> QED
    BY <1>2, <1>4, <1>5

(* A poll reads the message.                                               *)
LEMMA AnswerKeeps ==
    ASSUME MsgInv, NEW i \in DOMAIN asks, PollAnswered(i)
    PROVE  MsgInv'
  <1>0. MsgShapes /\ ReadIsTold /\ FateIsKnown /\ Overtaken /\ asks \in Seq(Inquiry)
    BY DEF MsgInv, MsgShapes
  <1>1. /\ asks[i].at = "got" /\ onPage' = [onPage EXCEPT !.status = asks[i].told]
        /\ straggled' = (straggled \/ asks[i].late \/ asks[i].of # timer)
        /\ UNCHANGED <<status, readAt, entry, resends, timer, asking, marking, cutShort, logLost>>
    BY DEF PollAnswered, msgServer
  <1>2. asks[i].of # 0 /\ asks[i].told \in Statuses \ {"gone"} /\ onPage.status # "gone"
    <2>1. i \in 1 .. Len(asks) /\ Len(asks) \in Nat
      BY <1>0, LenProperties
    <2>2. asks # << >>
      BY <2>1
    <2> QED
      BY <1>0, <1>1, <2>2 DEF MsgShapes
  <1>3. /\ onPage' \in [status : Statuses, isRead : BOOLEAN]
        /\ onPage'.status = asks[i].told /\ onPage'.isRead = onPage.isRead
    BY <1>0, <1>1, <1>2 DEF MsgShapes
  <1>4. /\ ReadIsTold' /\ FateIsKnown' /\ (Informed' <=> Informed)
        /\ Informed => TellsTruth /\ LaterKnow
        /\ Informed /\ ~straggled => PollIsShown /\ Ended
    BY <1>0, <1>1, <1>2, <1>3 DEF ReadIsTold, FateIsKnown, Informed, Done, MsgInv
  <1>5. PICK s : s = Overtaking(i, {"get", "got"})
    OBVIOUS
  <1>6. /\ s \in Seq(Inquiry) /\ Len(s) = Len(asks)
        /\ DOMAIN asks = 1 .. Len(asks) /\ Len(asks) \in Nat
        /\ \A k \in DOMAIN asks :
              /\ asks[k] \in Inquiry /\ s[k] \in Inquiry
              /\ s[k].of = asks[k].of /\ s[k].at = asks[k].at
              /\ s[k].told = asks[k].told /\ s[k].log = asks[k].log
              /\ asks[k].late => s[k].late
              /\ k < i /\ asks[k].at \in {"get", "got"} => s[k].late
    <2>1. {"get", "got"} \in SUBSET Steps
      BY DEF Steps
    <2> QED
      BY <1>0, <1>5, <2>1, OvertakingMarks
  <1>7. /\ asks' \in Seq(Inquiry) /\ DOMAIN asks' = DOMAIN asks
        /\ \A k \in DOMAIN asks : k # i => asks'[k] = s[k]
        /\ asks'[i].of = asks[i].of /\ asks'[i].at = "logs" /\ asks'[i].told = asks[i].told
        /\ asks[i].late => asks'[i].late
    <2>1. s[i] \in Inquiry /\ i \in 1 .. Len(s) /\ Len(s) \in Nat
      BY <1>6
    <2>2. PICK e : e = [s[i] EXCEPT !.at = "logs"]
      OBVIOUS
    <2>3. /\ e \in Inquiry /\ e.of = s[i].of /\ e.at = "logs" /\ e.told = s[i].told
          /\ e.late = s[i].late
      BY <2>1, <2>2 DEF Inquiry, Steps
    <2>4. asks' = [s EXCEPT ![i] = e]
      BY <1>5, <2>2 DEF PollAnswered
    <2> QED
      BY <1>6, <2>1, <2>3, <2>4
  <1>8. \A k \in DOMAIN asks :
           /\ Knows(k)' <=> Knows(k)
           /\ asks[k].late => asks'[k].late
           /\ asks'[k].of = asks[k].of /\ asks'[k].told = asks[k].told
           /\ k = i => asks'[k].at = "logs"
           /\ k # i => asks'[k].at = asks[k].at /\ asks'[k].log = asks[k].log
    BY <1>1, <1>6, <1>7 DEF Knows
  <1>9. MsgShapes'
    <2>1. \A k \in DOMAIN asks' : /\ asks'[k].of <= resends'
                                  /\ asks'[k].at \in {"get", "got"} => asks'[k].of # 0
                                  /\ asks'[k].at = "got" => asks'[k].told \in Statuses \ {"gone"}
      BY <1>0, <1>1, <1>7, <1>8 DEF MsgShapes
    <2> QED
      BY <1>0, <1>1, <1>2, <1>3, <1>7, <2>1 DEF MsgShapes
  <1>10. Overtaken'
    <2> SUFFICES ASSUME NEW a \in DOMAIN asks, NEW b \in DOMAIN asks, b < a,
                        Outruns(asks'[a], asks'[b])
                 PROVE  asks'[b].late
      BY <1>7 DEF Overtaken, Outruns
    <2>1. CASE b = i
      BY <2>1, <1>8 DEF Outruns
    <2>2. CASE b # i /\ a = i
      BY <2>2, <1>6, <1>7, <1>8 DEF Outruns
    <2>3. CASE b # i /\ a # i
      <3>1. Outruns(asks[a], asks[b])
        BY <2>3, <1>8 DEF Outruns
      <3> QED
        BY <3>1, <1>0, <1>8 DEF Overtaken
    <2> QED
      BY <2>1, <2>2, <2>3
  <1>11. ASSUME Informed'
         PROVE  (TellsTruth /\ LaterKnow)'
    <2>1. TellsTruth /\ LaterKnow
      BY <1>4, <1>11
    <2>2. TellsTruth'
      <3> SUFFICES ASSUME NEW k \in DOMAIN asks, Knows(k)'
                   PROVE  /\ asks'[k].told = status
                          /\ asks'[k].at = "logged" => asks'[k].log = status
        BY <1>1, <1>7 DEF TellsTruth
      <3>1. Knows(k) /\ asks[k].told = status /\ (asks[k].at = "logged" => asks[k].log = status)
        BY <1>8, <2>1 DEF TellsTruth
      <3> QED
        BY <3>1, <1>8
    <2>3. ASSUME NEW a \in DOMAIN asks, NEW b \in DOMAIN asks, a < b, Knows(a)',
                 ~asks'[a].late, asks'[b].of = resends, asks'[b].at # "get"
          PROVE  Knows(b)'
      <3>1. Knows(a) /\ ~asks[a].late /\ asks[b].of = resends /\ asks[b].at # "get"
        BY <2>3, <1>1, <1>8
      <3>2. Knows(b)
        BY <2>3, <3>1, <2>1 DEF LaterKnow
      <3> QED
        BY <3>2, <1>8
    <2> QED
      BY <1>1, <1>7, <2>2, <2>3 DEF LaterKnow
  <1>12. ASSUME Informed', ~straggled'
         PROVE  (PollIsShown /\ Ended)'
    <2>1. /\ TellsTruth /\ LaterKnow /\ ~asks[i].late
          /\ asks[i].of = timer /\ timer # 0 /\ timer = resends
      BY <1>0, <1>1, <1>2, <1>4, <1>12 DEF MsgShapes
    <2>2. ASSUME NEW k \in DOMAIN asks, Knows(k)', asks'[k].at # "got", ~asks'[k].late
          PROVE  onPage'.status = status
      <3>1. Knows(k) /\ ~asks[k].late /\ asks[k].told = status
        BY <2>1, <2>2, <1>8 DEF TellsTruth
      <3>2. CASE k = i
        BY <3>1, <3>2, <1>3
      <3>3. CASE k < i
        <4>1. Knows(i)
          BY <3>1, <3>3, <2>1, <1>1 DEF LaterKnow
        <4> QED
          BY <4>1, <2>1, <1>3 DEF TellsTruth
      <3>4. CASE i < k
        <4>1. asks[k].at # "got" /\ asks[k].at # "get" /\ asks[k].of = resends
          BY <3>1, <3>4, <2>2, <1>6, <1>8 DEF Knows
        <4>2. asks[k].at \in {"logs", "logged"}
          BY <4>1, <1>6 DEF Inquiry, Steps
        <4>3. Outruns(asks[k], asks[i])
          BY <4>1, <4>2, <1>1, <2>1 DEF Outruns
        <4> QED
          BY <3>4, <4>3, <2>1, <1>0 DEF Overtaken
      <3> QED
        BY <3>2, <3>3, <3>4, <1>6
    <2> QED
      BY <1>1, <1>7, <2>1, <2>2 DEF PollIsShown, Ended
  <1> QED
    BY <1>4, <1>9, <1>10, <1>11, <1>12 DEF MsgInv

(* A poll is given up.                                                     *)
LEMMA FailKeeps ==
    ASSUME MsgInv, NEW i \in DOMAIN asks, PollFails(i)
    PROVE  MsgInv'
  <1>0. MsgShapes /\ ReadIsTold /\ FateIsKnown /\ Overtaken /\ asks \in Seq(Inquiry)
    BY DEF MsgInv, MsgShapes
  <1>1. /\ asks' = RemoveAt(asks, i) /\ timer' = 0 /\ cutShort'
        /\ UNCHANGED <<status, readAt, onPage, entry, resends, asking, marking>>
    BY DEF PollFails, msgServer
  <1>2. /\ asks' \in Seq(Inquiry) /\ Len(asks') = Len(asks) - 1
        /\ \A k \in 1 .. Len(asks) - 1 : asks'[k] = IF k < i THEN asks[k] ELSE asks[k + 1]
    BY <1>0, <1>1, Removed
  <1>3. /\ DOMAIN asks = 1 .. Len(asks) /\ Len(asks) \in Nat
        /\ DOMAIN asks' = 1 .. Len(asks) - 1
    BY <1>0, <1>2, LenProperties
  <1>4. PICK f : f = [k \in DOMAIN asks' |-> IF k < i THEN k ELSE k + 1]
    OBVIOUS
  <1>5. /\ f \in [DOMAIN asks' -> DOMAIN asks]
        /\ \A k, l \in DOMAIN asks' : k < l => f[k] < f[l]
        /\ \A k \in DOMAIN asks' : asks'[k] = asks[f[k]] /\ f[k] \in DOMAIN asks
    BY <1>2, <1>3, <1>4
  <1>6. Overtaken'
    BY <1>0, <1>1, <1>2, <1>5, OrderStays
  <1>7. MsgShapes'
    <2>1. \A k \in DOMAIN asks' : /\ asks'[k].of <= resends'
                                  /\ asks'[k].at \in {"get", "got"} => asks'[k].of # 0
                                  /\ asks'[k].at = "got" => asks'[k].told \in Statuses \ {"gone"}
      BY <1>0, <1>1, <1>5 DEF MsgShapes
    <2>2. asks # << >>
      BY <1>3
    <2> QED
      BY <1>0, <1>1, <1>2, <2>1, <2>2 DEF MsgShapes
  <1>8. ReadIsTold' /\ FateIsKnown' /\ ~Informed'
    BY <1>0, <1>1 DEF ReadIsTold, FateIsKnown, Done, Informed
  <1> QED
    BY <1>6, <1>7, <1>8 DEF MsgInv

(* The user leaves the page of a message that is gone.                     *)
LEMMA LeaveKeeps ==
    ASSUME MsgInv, LeavePage
    PROVE  MsgInv'
  <1>0. MsgShapes /\ ReadIsTold /\ FateIsKnown
    BY DEF MsgInv
  <1>1. /\ Done("remove") /\ asking' = NotAsking
        /\ onPage' = [onPage EXCEPT !.status = "gone"] /\ timer' = 0 /\ asks' = << >>
        /\ UNCHANGED <<status, readAt, entry, resends, marking>>
    BY DEF LeavePage, Done, msgServer
  <1>2. /\ asking' \in Calling /\ asking'.op = "none" /\ asking'.at = "none"
        /\ onPage' \in [status : Statuses, isRead : BOOLEAN]
        /\ onPage'.status = "gone" /\ onPage'.isRead = onPage.isRead
    BY <1>0, <1>1 DEF MsgShapes, NotAsking, Calling, Statuses
  <1>3. asks' \in Seq(Inquiry) /\ DOMAIN asks' = {}
    BY <1>1
  <1>4. MsgShapes'
    BY <1>0, <1>1, <1>2, <1>3 DEF MsgShapes
  <1>5. ReadIsTold' /\ FateIsKnown' /\ ~Informed' /\ Overtaken'
    BY <1>0, <1>1, <1>2, <1>3 DEF ReadIsTold, FateIsKnown, Done, Informed, Overtaken
  <1> QED
    BY <1>4, <1>5 DEF MsgInv

(* A poll, or a look at the log, ends: the interval may end with it.       *)
LEMMA EndKeeps ==
    ASSUME MsgInv, NEW i \in DOMAIN asks, PollEnds(i)
    PROVE  MsgInv'
  <1>0. MsgShapes /\ ReadIsTold /\ FateIsKnown /\ Overtaken /\ asks \in Seq(Inquiry)
    BY DEF MsgInv, MsgShapes
  <1>1. /\ asks[i].at \in {"logs", "logged"}
        /\ \/ asks[i].at = "logged" /\ entry' = asks[i].log
           \/ logLost'
        /\ asks' = RemoveAt(Overtaking(i, Steps), i)
        /\ straggled' = (straggled \/ asks[i].late \/ asks[i].of \notin {0, resends})
        /\ UNCHANGED <<status, readAt, onPage, resends, asking, marking>>
    BY DEF PollEnds, msgServer
  <1>2. \/ timer' = timer /\ cutShort' = cutShort
        \/ timer' = timer /\ (cutShort => cutShort')
        \/ /\ asks[i].of # 0 /\ timer' = 0 /\ (cutShort => cutShort')
           /\ IsFinal(asks[i].told) \/ cutShort'
    BY DEF PollEnds
  <1>3. PICK s : s = Overtaking(i, Steps)
    OBVIOUS
  <1>4. /\ s \in Seq(Inquiry) /\ Len(s) = Len(asks)
        /\ DOMAIN asks = 1 .. Len(asks) /\ Len(asks) \in Nat
        /\ \A k \in DOMAIN asks :
              /\ asks[k] \in Inquiry /\ s[k] \in Inquiry
              /\ s[k].of = asks[k].of /\ s[k].at = asks[k].at
              /\ s[k].told = asks[k].told /\ s[k].log = asks[k].log
              /\ asks[k].late => s[k].late
              /\ k < i /\ asks[k].at \in Steps => s[k].late
              /\ k > i /\ asks[k].of = 0 /\ asks[k].at = "logged" => s[k].late
    <2>1. Steps \in SUBSET Steps
      OBVIOUS
    <2> QED
      BY <1>0, <1>3, <2>1, OvertakingMarks
  <1>5. /\ asks' \in Seq(Inquiry) /\ Len(asks') = Len(asks) - 1
        /\ \A k \in 1 .. Len(asks) - 1 : asks'[k] = IF k < i THEN s[k] ELSE s[k + 1]
    <2>1. i \in DOMAIN s /\ asks' = RemoveAt(s, i)
      BY <1>1, <1>3, <1>4, LenProperties
    <2> QED
      BY <1>4, <2>1, Removed
  <1>6. DOMAIN asks' = 1 .. Len(asks) - 1
    BY <1>4, <1>5, LenProperties
  <1>7. PICK f : f = [k \in DOMAIN asks' |-> IF k < i THEN k ELSE k + 1]
    OBVIOUS
  <1>8. /\ f \in [DOMAIN asks' -> DOMAIN asks]
        /\ \A k, l \in DOMAIN asks' : k < l => f[k] < f[l]
        /\ \A k \in DOMAIN asks' : asks'[k] = s[f[k]] /\ f[k] \in DOMAIN asks /\ f[k] # i
    BY <1>4, <1>5, <1>6, <1>7
  <1>9. \A k \in DOMAIN asks' :
           /\ asks'[k].of = asks[f[k]].of /\ asks'[k].at = asks[f[k]].at
           /\ asks'[k].told = asks[f[k]].told /\ asks'[k].log = asks[f[k]].log
           /\ asks[f[k]].late => asks'[k].late
    BY <1>4, <1>8
  <1>10. /\ Overtaken'
         /\ TellsTruth => TellsTruth'
         /\ LaterKnow => LaterKnow'
         /\ PollIsShown => PollIsShown'
    BY <1>0, <1>1, <1>5, <1>8, <1>9, OrderStays
  <1>11. MsgShapes'
    <2>1. \A k \in DOMAIN asks' : /\ asks'[k].of <= resends'
                                  /\ asks'[k].at \in {"get", "got"} => asks'[k].of # 0
                                  /\ asks'[k].at = "got" => asks'[k].told \in Statuses \ {"gone"}
      BY <1>0, <1>1, <1>8, <1>9 DEF MsgShapes
    <2>2. asks # << >>
      BY <1>4
    <2>3. timer' \in {0, resends'}
      BY <1>0, <1>1, <1>2 DEF MsgShapes
    <2> QED
      BY <1>0, <1>1, <1>5, <2>1, <2>2, <2>3 DEF MsgShapes
  <1>12. ReadIsTold' /\ FateIsKnown' /\ (Informed' => Informed)
    BY <1>0, <1>1, <1>2 DEF ReadIsTold, FateIsKnown, Done, Informed
  <1>13. ASSUME Informed', ~straggled'
         PROVE  (PollIsShown /\ Ended)'
    <2>1. /\ TellsTruth /\ LaterKnow /\ PollIsShown /\ Ended
          /\ ~asks[i].late /\ asks[i].of \in {0, resends} /\ ~cutShort'
      BY <1>1, <1>12, <1>13 DEF MsgInv, Informed
    <2>2. ASSUME timer = 0
          PROVE  /\ IsFinal(status) /\ onPage'.status = status
                 /\ logLost' \/ entry' = status
                 /\ \A k \in DOMAIN asks' :
                       asks'[k].at = "logged" /\ ~asks'[k].late /\ asks'[k].of \in {0, resends}
                         => asks'[k].log = status
      <3>1. IsFinal(status) /\ onPage'.status = status
        BY <2>1, <2>2, <1>1 DEF Ended
      <3>2. logLost' \/ entry' = status
        BY <2>1, <2>2, <1>1 DEF Ended
      <3>3. ASSUME NEW k \in DOMAIN asks', asks'[k].at = "logged", ~asks'[k].late,
                   asks'[k].of \in {0, resends}
            PROVE  asks'[k].log = status
        <4>1. f[k] \in DOMAIN asks
          BY <1>8
        <4> QED
          BY <4>1, <3>3, <1>9, <2>1, <2>2 DEF Ended
      <3> QED
        BY <3>1, <3>2, <3>3
    <2>3. ASSUME timer # 0, timer' = 0
          PROVE  /\ IsFinal(status) /\ onPage'.status = status
                 /\ logLost' \/ entry' = status
                 /\ \A k \in DOMAIN asks' :
                       asks'[k].at = "logged" /\ ~asks'[k].late /\ asks'[k].of \in {0, resends}
                         => asks'[k].log = status
      <3>1. asks[i].of = resends /\ asks[i].of # 0 /\ IsFinal(asks[i].told)
        BY <1>2, <2>1, <2>3
      <3>2. Knows(i)
        BY <3>1, <1>1 DEF Knows
      <3>3. /\ asks[i].told = status /\ onPage.status = status
            /\ asks[i].at = "logged" => asks[i].log = status
        BY <3>2, <2>1, <1>1 DEF TellsTruth, PollIsShown
      <3>4. ASSUME NEW k \in DOMAIN asks', asks'[k].at = "logged", ~asks'[k].late,
                   asks'[k].of \in {0, resends}
            PROVE  asks'[k].log = status
        <4>1. PICK m \in DOMAIN asks : m = f[k] /\ m # i /\ asks'[k] = s[m]
          BY <1>8
        <4>2. asks[m].at = "logged" /\ asks[m].of \in {0, resends} /\ asks'[k].log = asks[m].log
          BY <4>1, <3>4, <1>9
        <4>3. ~(m < i)
          BY <4>1, <4>2, <3>4, <1>4 DEF Steps
        <4>4. i < m
          BY <4>1, <4>3, <1>4
        <4>5. asks[m].of = resends
          BY <4>1, <4>2, <4>4, <3>4, <1>4
        <4>6. Knows(m)
          BY <4>2, <4>4, <4>5, <3>2, <2>1 DEF LaterKnow
        <4> QED
          BY <4>2, <4>6, <2>1 DEF TellsTruth
      <3> QED
        BY <3>1, <3>3, <3>4, <1>1
    <2> QED
      BY <1>1, <1>2, <1>10, <2>1, <2>2, <2>3 DEF Ended
  <1> QED
    BY <1>10, <1>11, <1>12, <1>13 DEF MsgInv

(* The page is loaded with the message.                                    *)
LEMMA MessagePageOpens ==
    ASSUME MsgInit
    PROVE  MsgInv
  <1>1. asks = <<LogsAsked(0)>> /\ LogsAsked(0) \in Inquiry
    BY MessagePageAssumption DEF MsgInit, LogsAsked, Inquiry, Steps
  <1>2. /\ asks \in Seq(Inquiry) /\ DOMAIN asks = {1}
        /\ asks[1].of = 0 /\ asks[1].at = "logs"
    BY <1>1 DEF LogsAsked
  <1>3. MsgShapes
    BY <1>2, MessagePageAssumption DEF MsgInit, MsgShapes, Statuses, Calling, NotAsking
  <1>4. ReadIsTold /\ FateIsKnown /\ ~Informed
    BY MessagePageAssumption DEF MsgInit, ReadIsTold, FateIsKnown, Informed, Done, NotAsking
  <1>5. Overtaken
    BY <1>2 DEF Overtaken
  <1> QED
    BY <1>3, <1>4, <1>5 DEF MsgInv

(* What the page and the server keep besides.                              *)
MsgFlags ==
    /\ readAt \in BOOLEAN /\ straggled \in BOOLEAN /\ cutShort \in BOOLEAN /\ logLost \in BOOLEAN
    /\ entry \in Statuses \cup {"none"} /\ marking \in {"none", "sent", "done"}
    /\ polls \in [0..MaxResends -> 0..MaxPolls]

(* Every step keeps it.                                                    *)
LEMMA MsgFlagsStay ==
    ASSUME MsgShapes, MsgFlags, [MsgNext]_msgVars
    PROVE  MsgFlags'
  <1>1. CASE \/ Attempt \/ ServeCall \/ \E op \in PageCalls : AskFor(op)
             \/ ScheduleCancelled \/ LeavePage \/ CallRefused \/ RefreshLog
             \/ \E i \in DOMAIN asks : ServeAsk(i)
             \/ UNCHANGED msgVars
    <2>1. UNCHANGED <<readAt, straggled, cutShort, logLost, entry, marking, polls>>
      BY <1>1 DEF Attempt, ServeCall, AskFor, ScheduleCancelled, LeavePage, CallRefused, RefreshLog,
                  ServeAsk, msgVars, msgServer, pollVars, pollHistory
    <2> QED
      BY <2>1 DEF MsgFlags
  <1>2. CASE LoseCall \/ ServeRead \/ MarkedRead \/ StartPolling
    <2>1. /\ readAt' \in {readAt, TRUE} /\ marking' \in {marking, "done", "none"}
          /\ straggled' \in {straggled, FALSE} /\ cutShort' \in {cutShort, TRUE, FALSE}
          /\ logLost' \in {logLost, FALSE} /\ UNCHANGED <<entry, polls>>
      BY <1>2 DEF LoseCall, ServeRead, MarkedRead, StartPolling, msgServer, pollVars, pollHistory
    <2> QED
      BY <2>1 DEF MsgFlags
  <1>3. CASE Poll
    <2>1. /\ polls' = [polls EXCEPT ![timer] = @ + 1] /\ timer # 0 /\ polls[timer] < MaxPolls
          /\ UNCHANGED <<readAt, straggled, cutShort, logLost, entry, marking>>
      BY <1>3 DEF Poll, msgServer, pollHistory
    <2>2. timer \in 0..MaxResends
      BY MessagePageAssumption DEF MsgShapes
    <2>3. polls[timer] + 1 \in 0..MaxPolls
      BY <2>1, <2>2, MessagePageAssumption DEF MsgFlags
    <2>4. polls' \in [0..MaxResends -> 0..MaxPolls]
      BY <2>1, <2>2, <2>3 DEF MsgFlags
    <2> QED
      BY <2>1, <2>4 DEF MsgFlags
  <1>4. ASSUME NEW i \in DOMAIN asks, PollAnswered(i)
        PROVE  MsgFlags'
    <2>1. /\ straggled' = (straggled \/ asks[i].late \/ asks[i].of # timer)
          /\ UNCHANGED <<readAt, cutShort, logLost, entry, marking, polls>>
      BY <1>4 DEF PollAnswered, msgServer
    <2>2. straggled' \in BOOLEAN
      BY <2>1
    <2> QED
      BY <2>1, <2>2 DEF MsgFlags
  <1>5. ASSUME NEW i \in DOMAIN asks, PollEnds(i)
        PROVE  MsgFlags'
    <2>1. asks[i] \in Inquiry
      BY ElementOfSeq, LenProperties DEF MsgShapes
    <2>2. /\ entry' = asks[i].log \/ entry' = entry
          /\ UNCHANGED <<readAt, marking, polls>>
      BY <1>5 DEF PollEnds, msgServer
    <2>3. entry' \in Statuses \cup {"none"}
      BY <2>1, <2>2 DEF MsgFlags, Inquiry
    <2>4. straggled' \in BOOLEAN /\ logLost' \in BOOLEAN /\ cutShort' \in BOOLEAN
      BY <1>5 DEF PollEnds, MsgFlags
    <2> QED
      BY <2>2, <2>3, <2>4 DEF MsgFlags
  <1>6. ASSUME NEW i \in DOMAIN asks, PollFails(i)
        PROVE  MsgFlags'
    <2>1. cutShort' = TRUE /\ UNCHANGED <<readAt, straggled, logLost, entry, marking, polls>>
      BY <1>6 DEF PollFails, msgServer
    <2> QED
      BY <2>1 DEF MsgFlags
  <1> QED
    BY <1>1, <1>2, <1>3, <1>4, <1>5, <1>6 DEF MsgNext

(* A message page that stopped polling after a resend, with nothing under  *)
(* way, shows how the resend ended, in its badge and its delivery log,     *)
(* unless an answer came late, polling was cut short or an answer lost;    *)
(* and a message it shows as read is read.                                 *)
THEOREM ResendsAreShown == MsgSpec => [](MsgTypeOK /\ PageSettles)
  <1>1. MsgInit => MsgInv
    BY MessagePageOpens
  <1>2. MsgInv /\ [MsgNext]_msgVars => MsgInv'
    BY CallsKeep, AttemptKeeps, StartKeeps, AsksKeep, ServeKeeps, AnswerKeeps, EndKeeps,
       FailKeeps, LeaveKeeps DEF MsgNext
  <1>3. MsgInv => PageSettles
    <2> SUFFICES ASSUME MsgInv, asks = << >>, asking = NotAsking, marking = "none"
                 PROVE  /\ onPage.isRead => readAt
                        /\ resends > 0 /\ timer = 0 /\ ~straggled /\ ~cutShort /\ onPage.status # "gone" =>
                               /\ IsFinal(status) /\ onPage.status = status
                               /\ logLost \/ entry = status
      BY DEF PageSettles
    <2>1. onPage.isRead => readAt
      BY DEF MsgInv, ReadIsTold
    <2>2. ~Done("resend") /\ ~Done("remove")
      BY DEF Done, NotAsking
    <2>3. resends > 0 /\ ~cutShort /\ onPage.status # "gone" => Informed
      BY <2>2 DEF MsgInv, FateIsKnown, Informed
    <2> QED
      BY <2>1, <2>3 DEF MsgInv, Ended
  <1>4. MsgInit => MsgFlags
    <2> SUFFICES ASSUME MsgInit
                 PROVE  MsgFlags
      OBVIOUS
    <2>1. 0 \in 0..MaxPolls
      BY MessagePageAssumption
    <2>2. polls \in [0..MaxResends -> 0..MaxPolls]
      BY <2>1 DEF MsgInit
    <2>3. marking \in {"none", "sent", "done"}
      BY DEF MsgInit
    <2> QED
      BY <2>2, <2>3 DEF MsgInit, MsgFlags
  <1>5. MsgInv /\ MsgFlags /\ [MsgNext]_msgVars => MsgFlags'
    BY MsgFlagsStay DEF MsgInv
  <1>6. MsgInv /\ MsgFlags => MsgTypeOK
    <2> SUFFICES ASSUME MsgShapes, MsgFlags
                 PROVE  MsgTypeOK
      BY DEF MsgInv
    <2>1. timer \in 0..MaxResends
      BY MessagePageAssumption DEF MsgShapes
    <2> QED
      BY <2>1 DEF MsgShapes, MsgFlags, MsgTypeOK, Inquiry, Calling
  <1> QED
    BY <1>1, <1>2, <1>3, <1>4, <1>5, <1>6, PTL DEF MsgSpec

(***************************************************************************)
(* The other lists.  What the user was told is in the table, and in the    *)
(* rows of every request answered with it or made after it.  A page that   *)
(* catches a failed reload keeps its last request good: for the query on   *)
(* screen, and no older than what was told.  One that reports it as a      *)
(* failed write keeps what is on screen good, and each request not late.   *)
(***************************************************************************)
PageRequest == [for : Queries, rows : [Rows -> Nat] \cup {NoRow}, late : BOOLEAN,
                ack : [row : Rows \cup {NoRow}, version : Nat]]
Writing == [op : Ops \cup {"none"}, row : Rows \cup {NoRow}, version : Nat, good : BOOLEAN,
            left : BOOLEAN, at : {"none", "sent", "done", "failed"}]
WebShapes ==
    /\ open \in DOMAIN PageTraits
    /\ table \in [Rows -> Nat] /\ screen \in [Rows -> Nat] /\ told \in [Rows -> Nat]
    /\ asked \in Queries /\ loads \in Seq(PageRequest)
    /\ dialog \in [op : Ops \cup {"none"}, row : Rows \cup {NoRow}]
    /\ (dialog # NoDialog => dialog.row \in Rows)
    /\ write \in Writing /\ (write.at # "none" => write.row \in Rows)

(* Nothing is told that the server does not have.                          *)
Upto(a, held) == a.row \in Rows => a.version <= held[a.row]
OnlyWritten ==
    /\ \A r \in Rows : told[r] <= table[r]
    /\ (write.at = "done" => Upto(Ack, table))
    /\ (Page.refetch = "thrown" => ~typing)
    /\ \A i \in DOMAIN loads :
          /\ Upto(loads[i].ack, table)
          /\ Page.refetch # "thrown" => loads[i].ack = NoAck
          /\ \A k \in DOMAIN loads : k >= i /\ loads[k].rows # NoRow => Upto(loads[i].ack, loads[k].rows)

HasTold(held) == \A r \in Rows : told[r] <= held[r]
Good(i) == loads[i].for = asked /\ ~loads[i].late /\ (loads[i].rows = NoRow \/ HasTold(loads[i].rows))
Reloads ==
    /\ loads = <<>> => typing \/ loadError \/ (answered = asked /\ HasTold(screen))
    /\ loads # <<>> => typing \/ Good(Len(loads)) \/ \A i \in DOMAIN loads : loads[i].late
Keeps ==
    /\ answered = asked /\ HasTold(screen)
    /\ \A i \in DOMAIN loads : /\ loads[i].for = asked
                               /\ loads[i].late \/ Good(i)
WebInv == /\ WebShapes /\ OnlyWritten
          /\ overtook \/ strayed \/ (IF Page.refetch = "thrown" THEN Keeps ELSE Reloads)

(* What the pages that report a failed reload as a failed write share.     *)
LEMMA ThrowingPages ==
    ASSUME open \in DOMAIN PageTraits, Page.refetch = "thrown"
    PROVE  ~Page.searches /\ Page.patches = {} /\ open # "suppressions"
  <1>1. open \in {"users", "inboxes", "teams", "suppressions", "keys", "templates", "domains",
                  "inboxMembers", "webhooks", "team", "teamInvites", "teamInboxes", "filters",
                  "invitations"}
    BY DEF PageTraits
  <1>2. /\ AdminUsers.refetch = "caught" /\ AdminInboxes.refetch = "caught"
        /\ AdminTeams.refetch = "caught" /\ Suppressions.refetch = "caught"
        /\ ApiKeys.refetch = "caught" /\ Domains.refetch = "caught"
        /\ InboxMembers.refetch = "caught" /\ InboxWebhooks.refetch = "caught"
        /\ SavedFilters.refetch = "blank" /\ MyInvitations.refetch = "blank"
    BY DEF Plain, AdminUsers, AdminInboxes, AdminTeams, Suppressions,
           ApiKeys, Domains, InboxMembers, InboxWebhooks, SavedFilters, MyInvitations
  <1>3. /\ PageTraits.users = AdminUsers /\ PageTraits.inboxes = AdminInboxes
        /\ PageTraits.teams = AdminTeams /\ PageTraits.suppressions = Suppressions
        /\ PageTraits.keys = ApiKeys /\ PageTraits.domains = Domains
        /\ PageTraits.inboxMembers = InboxMembers /\ PageTraits.webhooks = InboxWebhooks
        /\ PageTraits.filters = SavedFilters /\ PageTraits.invitations = MyInvitations
        /\ PageTraits.templates = Templates /\ PageTraits.team = TeamMembers
        /\ PageTraits.teamInvites = TeamInvites /\ PageTraits.teamInboxes = TeamInboxes
    BY DEF PageTraits
  <1>4. open \in {"templates", "team", "teamInvites", "teamInboxes"}
    BY <1>1, <1>2, <1>3 DEF Page
  <1>5. /\ ~Templates.searches /\ ~TeamMembers.searches
        /\ ~TeamInvites.searches /\ ~TeamInboxes.searches
        /\ Templates.patches = {} /\ TeamMembers.patches = {}
        /\ TeamInvites.patches = {} /\ TeamInboxes.patches = {}
    BY DEF Plain, Templates, TeamMembers, TeamInvites, TeamInboxes
  <1> QED
    BY <1>3, <1>4, <1>5 DEF Page

(* A request is appended.                                                  *)
LEMMA FetchAppends ==
    ASSUME loads \in Seq(PageRequest), NEW q \in Queries, NEW ack \in [row : Rows \cup {NoRow}, version : Nat],
           FetchRows(q, ack)
    PROVE  \E e \in PageRequest :
             /\ e.for = q /\ e.rows = NoRow /\ ~e.late /\ e.ack = ack
             /\ loads' \in Seq(PageRequest) /\ Len(loads') = Len(loads) + 1
             /\ DOMAIN loads = 1 .. Len(loads) /\ Len(loads) \in Nat
             /\ DOMAIN loads' = 1 .. Len(loads) + 1
             /\ \A k \in 1 .. Len(loads) : loads'[k] = loads[k]
             /\ loads'[Len(loads) + 1] = e
  <1>1. PICK e \in PageRequest : e = [for |-> q, rows |-> NoRow, late |-> FALSE, ack |-> ack]
    BY DEF PageRequest
  <1>2. loads' = Append(loads, e)
    BY <1>1 DEF FetchRows
  <1>3. e.for = q /\ e.rows = NoRow /\ ~e.late /\ e.ack = ack
    BY <1>1
  <1> QED
    BY <1>2, <1>3, AppendProperties

(* A request is answered: those made before it are late from now on.       *)
LEMMA Settles ==
    ASSUME loads \in Seq(PageRequest), NEW i \in DOMAIN loads, Settle(i)
    PROVE  /\ loads' \in Seq(PageRequest) /\ Len(loads') = Len(loads) - 1
           /\ DOMAIN loads = 1 .. Len(loads) /\ Len(loads) \in Nat
           /\ DOMAIN loads' = 1 .. Len(loads) - 1
           /\ \A k \in 1 .. Len(loads) - 1 :
                \E j \in DOMAIN loads \ {i} :
                   /\ j = (IF k < i THEN k ELSE k + 1)
                   /\ loads'[k].for = loads[j].for /\ loads'[k].rows = loads[j].rows
                   /\ loads'[k].ack = loads[j].ack
                   /\ loads'[k].late = (loads[j].late \/ k < i)
  <1>1. PICK s : s = [k \in DOMAIN loads |-> [loads[k] EXCEPT !.late = @ \/ k < i]]
    OBVIOUS
  <1>2. /\ DOMAIN loads = 1 .. Len(loads) /\ Len(loads) \in Nat
        /\ \A k \in DOMAIN loads : loads[k] \in PageRequest
    BY LenProperties, ElementOfSeq
  <1>3. ASSUME NEW k \in DOMAIN loads
        PROVE  /\ s[k] \in PageRequest /\ s[k].for = loads[k].for /\ s[k].rows = loads[k].rows
               /\ s[k].ack = loads[k].ack /\ s[k].late = (loads[k].late \/ k < i)
    <2>1. s[k] = [loads[k] EXCEPT !.late = @ \/ k < i]
      BY <1>1
    <2>2. loads[k] \in PageRequest
      BY <1>2
    <2> QED
      BY <2>1, <2>2 DEF PageRequest
  <1>4. s \in Seq(PageRequest) /\ Len(s) = Len(loads) /\ DOMAIN s = DOMAIN loads
    <2>1. s \in [1 .. Len(loads) -> PageRequest]
      BY <1>1, <1>2, <1>3
    <2> QED
      BY <2>1, <1>2
  <1>5. loads' = RemoveAt(s, i)
    BY <1>1 DEF Settle
  <1>6. /\ loads' \in Seq(PageRequest) /\ Len(loads') = Len(loads) - 1
        /\ \A k \in 1 .. Len(loads) - 1 : loads'[k] = IF k < i THEN s[k] ELSE s[k + 1]
    BY <1>4, <1>5, Removed
  <1>7. DOMAIN loads' = 1 .. Len(loads) - 1
    BY <1>6, LenProperties
  <1>8. ASSUME NEW k \in 1 .. Len(loads) - 1
        PROVE  \E j \in DOMAIN loads \ {i} :
                   /\ j = (IF k < i THEN k ELSE k + 1)
                   /\ loads'[k].for = loads[j].for /\ loads'[k].rows = loads[j].rows
                   /\ loads'[k].ack = loads[j].ack
                   /\ loads'[k].late = (loads[j].late \/ k < i)
    <2>1. PICK j \in DOMAIN loads \ {i} : j = (IF k < i THEN k ELSE k + 1)
      BY <1>2
    <2>2. loads'[k] = s[j]
      BY <2>1, <1>6
    <2>3. s[j].late = (loads[j].late \/ k < i)
      BY <2>1, <1>2, <1>3
    <2> QED
      BY <2>1, <2>2, <2>3, <1>3
  <1> QED
    BY <1>2, <1>6, <1>7, <1>8

(* What the user is told.                                                  *)
LEMMA Tells ==
    ASSUME told \in [Rows -> Nat], NEW a \in [row : Rows \cup {NoRow}, version : Nat], Tell(a)
    PROVE  /\ told' \in [Rows -> Nat]
           /\ a = NoAck => told' = told
           /\ \A held \in [Rows -> Nat] : HasTold(held) /\ Upto(a, held) => HasTold(held)'
  <1>1. \A r \in Rows : told'[r] = told[r] \/ (r = a.row /\ told'[r] = a.version)
    BY DEF Tell
  <1>2. told' \in [Rows -> Nat]
    BY DEF Tell
  <1>3. ASSUME a = NoAck
        PROVE  told' = told
    <2>1. a.row \notin Rows
      BY <1>3, WebPagesAssumption DEF NoAck
    <2> QED
      BY <1>1, <1>2, <2>1
  <1> QED
    BY <1>1, <1>2, <1>3 DEF HasTold, Upto

(* Steps that leave the requests and the list alone.                       *)
LEMMA ListStaysTrue ==
    ASSUME WebInv, WebShapes', UNCHANGED <<open, loads, answered, screen, overtook>>,
           strayed => strayed',
           \A r \in Rows : table[r] <= table'[r], HasTold(table)',
           write'.at = "done" => Upto(Ack, table)',
           strayed' \/ (told' = told /\ (loadError => loadError')),
           (asked' = asked /\ typing' = typing) \/ (typing' /\ Page.searches)
    PROVE  WebInv'
  <1>0. WebShapes /\ OnlyWritten
    BY DEF WebInv
  <1>1. table \in [Rows -> Nat] /\ table' \in [Rows -> Nat] /\ Page' = Page
    BY <1>0 DEF WebShapes, Page
  <1>2. OnlyWritten'
    <2>1. \A i \in DOMAIN loads : Upto(loads[i].ack, table')
      <3> SUFFICES ASSUME NEW i \in DOMAIN loads, loads[i].ack.row \in Rows
                   PROVE  loads[i].ack.version <= table'[loads[i].ack.row]
        BY DEF Upto
      <3>1. PICK r \in Rows : r = loads[i].ack.row
        OBVIOUS
      <3>2. loads[i].ack.version <= table[r] /\ table[r] <= table'[r]
        BY <3>1, <1>0 DEF OnlyWritten, Upto
      <3>3. loads[i] \in PageRequest
        BY <1>0, ElementOfSeq, LenProperties DEF WebShapes
      <3>4. loads[i].ack.version \in Nat /\ table[r] \in Nat /\ table'[r] \in Nat
        BY <1>1, <3>3 DEF PageRequest
      <3> QED
        BY <3>1, <3>2, <3>4
    <2>2. Page.refetch = "thrown" => ~typing'
      BY <1>0, ThrowingPages DEF WebShapes, OnlyWritten
    <2> QED
      BY <2>1, <2>2, <1>0, <1>1 DEF OnlyWritten, HasTold, Upto
  <1>3. CASE overtook' \/ strayed'
    BY <1>2, <1>3 DEF WebInv
  <1>4. CASE ~overtook' /\ ~strayed'
    <2>1. told' = told /\ ~overtook /\ ~strayed /\ (loadError => loadError')
      BY <1>4
    <2>2. \/ asked' = asked /\ typing' = typing
          \/ typing' /\ Page.searches
      OBVIOUS
    <2>3. CASE Page.refetch = "thrown"
      <3>1. asked' = asked /\ typing' = typing
        BY <2>2, <2>3, <1>0, ThrowingPages DEF WebShapes
      <3>2. Keeps
        BY <2>1, <2>3 DEF WebInv
      <3>3. Keeps'
        BY <3>1, <3>2, <2>1 DEF Keeps, Good, HasTold
      <3> QED
        BY <2>3, <3>3, <1>1, <1>2 DEF WebInv
    <2>4. CASE Page.refetch # "thrown"
      <3>1. Reloads
        BY <2>1, <2>4 DEF WebInv
      <3>2. Reloads'
        BY <3>1, <2>1, <2>2 DEF Reloads, Good, HasTold
      <3> QED
        BY <2>4, <3>2, <1>1, <1>2 DEF WebInv
    <2> QED
      BY <2>3, <2>4
  <1> QED
    BY <1>3, <1>4

(* The list is requested again.                                            *)
LEMMA ReloadsTrue ==
    ASSUME WebInv, WebShapes', NEW q \in Queries,
           NEW ack \in [row : Rows \cup {NoRow}, version : Nat],
           FetchRows(q, ack), Upto(ack, table),
           UNCHANGED <<open, table, strayed>>, asked' = q,
           HasTold(table)', write'.at = "done" => Upto(Ack, table)',
           IF Page.refetch = "thrown" THEN q = asked /\ typing' = typing /\ told' = told
                                      ELSE ack = NoAck
    PROVE  WebInv'
  <1>0. WebShapes /\ OnlyWritten
    BY DEF WebInv
  <1>1. Page' = Page /\ UNCHANGED <<screen, answered, overtook>>
    BY DEF Page, FetchRows
  <1>2. PICK n \in Nat : n = Len(loads)
    BY <1>0 DEF WebShapes
  <1>3. PICK e \in PageRequest :
             /\ e.for = q /\ e.rows = NoRow /\ ~e.late /\ e.ack = ack
             /\ loads' \in Seq(PageRequest) /\ Len(loads') = n + 1
             /\ DOMAIN loads = 1 .. n /\ DOMAIN loads' = 1 .. n + 1
             /\ \A k \in 1 .. n : loads'[k] = loads[k]
             /\ loads'[n + 1] = e
    BY <1>0, <1>2, FetchAppends DEF WebShapes
  <1>4. OnlyWritten'
    <2>1. ASSUME NEW i \in 1 .. n + 1
          PROVE  /\ Upto(loads'[i].ack, table')
                 /\ Page'.refetch # "thrown" => loads'[i].ack = NoAck
                 /\ \A k \in 1 .. n + 1 : k >= i /\ loads'[k].rows # NoRow
                                            => Upto(loads'[i].ack, loads'[k].rows)
      <3>1. CASE i \in 1 .. n
        <4>1. /\ Upto(loads'[i].ack, table')
              /\ Page'.refetch # "thrown" => loads'[i].ack = NoAck
          BY <3>1, <1>0, <1>1, <1>3 DEF OnlyWritten
        <4>2. ASSUME NEW k \in 1 .. n + 1, k >= i, loads'[k].rows # NoRow
              PROVE  Upto(loads'[i].ack, loads'[k].rows)
          <5>1. k \in 1 .. n
            BY <4>2, <1>3
          <5> QED
            BY <4>2, <5>1, <3>1, <1>0, <1>3 DEF OnlyWritten
        <4> QED
          BY <4>1, <4>2
      <3>2. CASE i = n + 1
        <4>1. \A k \in 1 .. n + 1 : k >= i => loads'[k].rows = NoRow
          BY <3>2, <1>3
        <4> QED
          BY <4>1, <3>2, <1>1, <1>3
      <3> QED
        BY <3>1, <3>2
    <2>2. Page'.refetch = "thrown" => ~typing'
      BY <1>0, <1>1 DEF OnlyWritten
    <2> QED
      BY <2>1, <2>2, <1>3 DEF OnlyWritten, HasTold
  <1>5. CASE overtook \/ strayed
    BY <1>1, <1>4, <1>5 DEF WebInv
  <1>6. CASE Page.refetch = "thrown" /\ ~overtook /\ ~strayed
    <2>1. Keeps
      BY <1>6 DEF WebInv
    <2>2. ASSUME NEW i \in 1 .. n + 1
          PROVE  loads'[i].for = asked' /\ (loads'[i].late \/ Good(i)')
      <3>1. CASE i \in 1 .. n
        BY <3>1, <2>1, <1>3, <1>6 DEF Keeps, Good, HasTold
      <3>2. CASE i = n + 1
        BY <3>2, <1>3 DEF Good
      <3> QED
        BY <3>1, <3>2
    <2>3. Keeps'
      BY <2>1, <2>2, <1>1, <1>3, <1>6 DEF Keeps, HasTold
    <2> QED
      BY <2>3, <1>1, <1>4, <1>6 DEF WebInv
  <1>7. CASE Page.refetch # "thrown" /\ ~overtook /\ ~strayed
    <2>1. Good(n + 1)'
      BY <1>3 DEF Good
    <2>2. loads' # <<>>
      BY <1>2, <1>3
    <2>3. Reloads'
      BY <2>1, <2>2, <1>3 DEF Reloads
    <2> QED
      BY <2>3, <1>1, <1>4, <1>7 DEF WebInv
  <1> QED
    BY <1>5, <1>6, <1>7

(* The server answers a list request.                                      *)
LEMMA ServingTrue ==
    ASSUME WebInv, NEW i \in DOMAIN loads, ServeRows(i)
    PROVE  WebInv'
  <1>0. WebShapes /\ OnlyWritten /\ table \in [Rows -> Nat] /\ loads \in Seq(PageRequest)
    BY DEF WebInv, WebShapes
  <1>1. /\ loads' = [loads EXCEPT ![i] = [@ EXCEPT !.rows = table]]
        /\ UNCHANGED <<open, table, screen, told, asked, answered, typing, loadError, dialog,
                       write, overtook, strayed>>
    BY DEF ServeRows, queryVars, webListVars
  <1>2. PICK n \in Nat : n = Len(loads) /\ DOMAIN loads = 1 .. n
    BY <1>0, LenProperties
  <1>3. /\ loads' \in Seq(PageRequest) /\ Len(loads') = n /\ DOMAIN loads' = 1 .. n
        /\ \A k \in 1 .. n : /\ loads'[k].for = loads[k].for /\ loads'[k].late = loads[k].late
                             /\ loads'[k].ack = loads[k].ack
                             /\ loads'[k].rows = IF k = i THEN table ELSE loads[k].rows
    <2>1. \A k \in 1 .. n : loads[k] \in PageRequest
      BY <1>0, <1>2, ElementOfSeq
    <2>2. [loads[i] EXCEPT !.rows = table] \in PageRequest
      BY <2>1, <1>0, <1>2 DEF PageRequest
    <2>3. loads' \in [1 .. n -> PageRequest]
      BY <2>1, <2>2, <1>1, <1>2
    <2>4. loads' \in Seq(PageRequest) /\ Len(loads') = n /\ DOMAIN loads' = 1 .. n
      BY <2>3, <1>2
    <2>5. ASSUME NEW k \in 1 .. n
          PROVE  /\ loads'[k].for = loads[k].for /\ loads'[k].late = loads[k].late
                 /\ loads'[k].ack = loads[k].ack
                 /\ loads'[k].rows = IF k = i THEN table ELSE loads[k].rows
      BY <2>1, <1>1, <1>2 DEF PageRequest
    <2> QED
      BY <2>4, <2>5
  <1>4. WebShapes'
    BY <1>0, <1>1, <1>3 DEF WebShapes
  <1>5. OnlyWritten'
    BY <1>0, <1>1, <1>2, <1>3 DEF OnlyWritten, Page, Upto, Ack
  <1>6. Page' = Page
    BY <1>1 DEF Page
  <1>7. \A k \in 1 .. n : Good(k) => Good(k)'
    BY <1>0, <1>1, <1>3 DEF Good, HasTold, OnlyWritten
  <1>8. Keeps => Keeps'
    BY <1>1, <1>2, <1>3, <1>7 DEF Keeps, HasTold
  <1>9. Reloads => Reloads'
    <2>1. loads = <<>> <=> loads' = <<>>
      BY <1>2, <1>3
    <2>2. loads # <<>> => n \in 1 .. n
      BY <1>0, <1>2, EmptySeq
    <2> QED
      BY <2>1, <2>2, <1>1, <1>2, <1>3, <1>7 DEF Reloads, HasTold
  <1> QED
    BY <1>1, <1>4, <1>5, <1>6, <1>8, <1>9 DEF WebInv

(* A list answer arrives.                                                  *)
LEMMA ShowingTrue ==
    ASSUME WebInv, NEW i \in DOMAIN loads, ShowRows(i)
    PROVE  WebInv'
  <1>0. /\ WebShapes /\ OnlyWritten /\ loads \in Seq(PageRequest) /\ table \in [Rows -> Nat]
        /\ told \in [Rows -> Nat]
    BY DEF WebInv, WebShapes
  <1>1. /\ loads[i].rows # NoRow /\ Settle(i)
        /\ screen' = loads[i].rows /\ answered' = loads[i].for
        /\ overtook' = (overtook \/ loads[i].late)
        /\ Tell(loads[i].ack) /\ CloseLate(loads[i].ack)
        /\ UNCHANGED <<open, table, asked, typing, write, strayed>>
    BY DEF ShowRows, queryVars
  <1>2. PICK n \in Nat : n + 1 = Len(loads) /\ DOMAIN loads = 1 .. n + 1
    <2>1. DOMAIN loads = 1 .. Len(loads) /\ Len(loads) \in Nat /\ Len(loads) # 0
      BY <1>0, LenProperties
    <2>2. Len(loads) - 1 \in Nat /\ (Len(loads) - 1) + 1 = Len(loads)
      BY <2>1
    <2> QED
      BY <2>1, <2>2
  <1>3. /\ loads' \in Seq(PageRequest) /\ Len(loads') = n /\ DOMAIN loads' = 1 .. n
        /\ \A k \in 1 .. n : \E j \in (1 .. n + 1) \ {i} :
                   /\ j = (IF k < i THEN k ELSE k + 1)
                   /\ loads'[k].for = loads[j].for /\ loads'[k].rows = loads[j].rows
                   /\ loads'[k].ack = loads[j].ack
                   /\ loads'[k].late = (loads[j].late \/ k < i)
    <2>1. Len(loads) - 1 = n
      BY <1>2
    <2> QED
      BY <2>1, <1>0, <1>1, <1>2, Settles
  <1>4. loads[i] \in PageRequest /\ i \in 1 .. n + 1
    BY <1>0, <1>2, ElementOfSeq
  <1>5. PICK ack \in [row : Rows \cup {NoRow}, version : Nat], held \in [Rows -> Nat] :
           ack = loads[i].ack /\ held = loads[i].rows
    BY <1>1, <1>4 DEF PageRequest
  <1>6. /\ told' \in [Rows -> Nat] /\ (ack = NoAck => told' = told)
        /\ \A x \in [Rows -> Nat] : HasTold(x) /\ Upto(ack, x) => HasTold(x)'
    BY <1>0, <1>1, <1>5, Tells
  <1>7. WebShapes'
    <2>1. dialog' = dialog \/ dialog' = NoDialog
      BY <1>1 DEF CloseLate
    <2>2. /\ dialog' \in [op : Ops \cup {"none"}, row : Rows \cup {NoRow}]
          /\ dialog' # NoDialog => dialog'.row \in Rows
      BY <2>1, <1>0 DEF WebShapes, NoDialog
    <2> QED
      BY <2>2, <1>0, <1>1, <1>3, <1>5, <1>6 DEF WebShapes
  <1>8. OnlyWritten'
    <2>1. HasTold(table)'
      BY <1>0, <1>1, <1>4, <1>5, <1>6, <1>2 DEF OnlyWritten, HasTold
    <2>2. ASSUME NEW k \in 1 .. n
          PROVE  /\ Upto(loads'[k].ack, table)
                 /\ Page.refetch # "thrown" => loads'[k].ack = NoAck
                 /\ \A m \in 1 .. n : m >= k /\ loads'[m].rows # NoRow
                                        => Upto(loads'[k].ack, loads'[m].rows)
      <3>1. PICK j \in 1 .. n + 1 : /\ j = (IF k < i THEN k ELSE k + 1)
                                    /\ loads'[k].ack = loads[j].ack
        BY <1>3
      <3>2. ASSUME NEW m \in 1 .. n, m >= k, loads'[m].rows # NoRow
            PROVE  Upto(loads'[k].ack, loads'[m].rows)
        <4>1. PICK l \in 1 .. n + 1 : /\ l = (IF m < i THEN m ELSE m + 1)
                                      /\ loads'[m].rows = loads[l].rows
          BY <1>3
        <4>2. l >= j
          BY <3>1, <3>2, <4>1, <1>4
        <4> QED
          BY <4>1, <4>2, <3>1, <3>2, <1>0, <1>2 DEF OnlyWritten
      <3> QED
        BY <3>1, <3>2, <1>0, <1>2 DEF OnlyWritten
    <2> QED
      BY <2>1, <2>2, <1>0, <1>1, <1>3 DEF OnlyWritten, HasTold, Page, Upto, Ack
  <1>9. CASE overtook' \/ strayed'
    BY <1>7, <1>8, <1>9 DEF WebInv
  <1>10. CASE ~overtook' /\ ~strayed'
    <2>1. ~overtook /\ ~strayed /\ ~loads[i].late /\ Page' = Page
      BY <1>1, <1>10 DEF Page
    <2>2. Upto(ack, held)
      BY <1>0, <1>1, <1>2, <1>4, <1>5 DEF OnlyWritten
    <2>3. CASE Page.refetch = "thrown"
      <3>1. Keeps
        BY <2>1, <2>3 DEF WebInv
      <3>2. HasTold(held)
        BY <3>1, <2>1, <1>1, <1>5 DEF Keeps, Good
      <3>3. HasTold(held)' /\ screen' = held
        BY <3>2, <2>2, <1>1, <1>5, <1>6
      <3>4. ASSUME NEW k \in 1 .. n
            PROVE  loads'[k].for = asked /\ (loads'[k].late \/ Good(k)')
        <4>1. PICK j \in (1 .. n + 1) \ {i} :
                   /\ j = (IF k < i THEN k ELSE k + 1)
                   /\ loads'[k].for = loads[j].for /\ loads'[k].rows = loads[j].rows
                   /\ loads'[k].late = (loads[j].late \/ k < i)
          BY <1>3
        <4>2. loads'[k].for = asked
          BY <4>1, <3>1, <1>2 DEF Keeps
        <4>3. ASSUME ~loads'[k].late, loads[j].rows # NoRow
              PROVE  \A r \in Rows : told'[r] <= loads[j].rows[r]
          <5>0. ~loads[j].late /\ ~(k < i)
            BY <4>1, <4>3
          <5>1. j > i /\ ~loads[j].late
            BY <4>1, <5>0, <1>4
          <5>2. HasTold(loads[j].rows)
            BY <5>1, <4>3, <3>1, <1>2 DEF Keeps, Good
          <5>3. Upto(ack, loads[j].rows)
            BY <5>1, <4>3, <1>0, <1>2, <1>4, <1>5 DEF OnlyWritten
          <5>4. PICK x \in [Rows -> Nat] : x = loads[j].rows
            <6>1. loads[j] \in PageRequest
              BY <1>0, <1>2, ElementOfSeq
            <6> QED
              BY <6>1, <4>3 DEF PageRequest
          <5>5. HasTold(x)'
            BY <5>2, <5>3, <5>4, <1>6
          <5> QED
            BY <5>4, <5>5 DEF HasTold
        <4>4. ~loads'[k].late => Good(k)'
          BY <4>1, <4>2, <4>3, <1>1 DEF Good, HasTold
        <4> QED
          BY <4>2, <4>4
      <3>5. answered' = asked
        BY <3>1, <1>1, <1>2 DEF Keeps
      <3>6. Keeps'
        BY <3>1, <3>3, <3>4, <3>5, <1>1, <1>3 DEF Keeps, HasTold
      <3> QED
        BY <3>6, <2>1, <2>3, <1>7, <1>8 DEF WebInv
    <2>4. CASE Page.refetch # "thrown"
      <3>0. Reloads' => WebInv'
        BY <2>1, <2>4, <1>7, <1>8 DEF WebInv
      <3>1. Reloads
        BY <2>1, <2>4 DEF WebInv
      <3>2. told' = told
        BY <2>4, <1>0, <1>5, <1>6 DEF OnlyWritten
      <3>3. loads # <<>> /\ ~(\A j \in DOMAIN loads : loads[j].late)
        BY <2>1, <1>0, <1>2
      <3>4. typing \/ Good(n + 1)
        BY <3>1, <3>3, <1>2 DEF Reloads
      <3>5. CASE typing
        <4>1. Reloads'
          BY <3>5, <1>1 DEF Reloads
        <4> QED
          BY <3>0, <4>1
      <3>6. CASE Good(n + 1) /\ i = n + 1
        <4>1. ASSUME NEW k \in 1 .. n
              PROVE  loads'[k].late
          <5>1. k < i
            BY <3>6
          <5> QED
            BY <5>1, <1>3
        <4>2. answered' = asked /\ HasTold(screen)'
          BY <3>2, <3>6, <1>1 DEF Good, HasTold
        <4>3. Reloads'
          BY <4>1, <4>2, <1>1, <1>3 DEF Reloads
        <4> QED
          BY <3>0, <4>3
      <3>7. CASE Good(n + 1) /\ i # n + 1
        <4>1. n \in 1 .. n /\ ~(n < i)
          BY <3>7, <1>4
        <4>2. /\ loads'[n].for = loads[n + 1].for /\ loads'[n].rows = loads[n + 1].rows
              /\ loads'[n].late = (loads[n + 1].late \/ n < i)
          BY <4>1, <1>3
        <4>3. Good(n)'
          BY <4>1, <4>2, <3>2, <3>7, <1>1 DEF Good, HasTold
        <4>4. Reloads'
          <5>1. loads' # <<>>
            BY <4>1, <1>3
          <5> QED
            BY <5>1, <4>3, <1>3 DEF Reloads
        <4> QED
          BY <3>0, <4>4
      <3> QED
        BY <3>4, <3>5, <3>6, <3>7
    <2> QED
      BY <2>3, <2>4
  <1> QED
    BY <1>9, <1>10

(* A list request fails.                                                   *)
LEMMA FailingTrue ==
    ASSUME WebInv, NEW i \in DOMAIN loads, RowsFail(i)
    PROVE  WebInv'
  <1>0. WebShapes /\ OnlyWritten /\ loads \in Seq(PageRequest)
    BY DEF WebInv, WebShapes
  <1>1. /\ Settle(i) /\ CloseLate(loads[i].ack)
        /\ loadError' = (IF Page.refetch = "thrown" THEN loadError ELSE TRUE)
        /\ UNCHANGED <<open, table, asked, typing, screen, answered, overtook, write, told, strayed>>
    BY DEF RowsFail, queryVars
  <1>2. PICK n \in Nat : n + 1 = Len(loads) /\ DOMAIN loads = 1 .. n + 1
    <2>1. DOMAIN loads = 1 .. Len(loads) /\ Len(loads) \in Nat /\ Len(loads) # 0
      BY <1>0, LenProperties
    <2>2. Len(loads) - 1 \in Nat /\ (Len(loads) - 1) + 1 = Len(loads)
      BY <2>1
    <2> QED
      BY <2>1, <2>2
  <1>3. /\ loads' \in Seq(PageRequest) /\ Len(loads') = n /\ DOMAIN loads' = 1 .. n
        /\ \A k \in 1 .. n : \E j \in (1 .. n + 1) \ {i} :
                   /\ j = (IF k < i THEN k ELSE k + 1)
                   /\ loads'[k].for = loads[j].for /\ loads'[k].rows = loads[j].rows
                   /\ loads'[k].ack = loads[j].ack
                   /\ loads'[k].late = (loads[j].late \/ k < i)
    <2>1. Len(loads) - 1 = n
      BY <1>2
    <2> QED
      BY <2>1, <1>0, <1>1, <1>2, Settles
  <1>4. i \in 1 .. n + 1 /\ Page' = Page
    BY <1>1, <1>2 DEF Page
  <1>5. WebShapes'
    <2>1. dialog' = dialog \/ dialog' = NoDialog
      BY <1>1 DEF CloseLate
    <2>2. /\ dialog' \in [op : Ops \cup {"none"}, row : Rows \cup {NoRow}]
          /\ dialog' # NoDialog => dialog'.row \in Rows
      BY <2>1, <1>0 DEF WebShapes, NoDialog
    <2> QED
      BY <2>2, <1>0, <1>1, <1>3 DEF WebShapes
  <1>6. OnlyWritten'
    <2>1. ASSUME NEW k \in 1 .. n
          PROVE  /\ Upto(loads'[k].ack, table)
                 /\ Page.refetch # "thrown" => loads'[k].ack = NoAck
                 /\ \A m \in 1 .. n : m >= k /\ loads'[m].rows # NoRow
                                        => Upto(loads'[k].ack, loads'[m].rows)
      <3>1. PICK j \in 1 .. n + 1 : /\ j = (IF k < i THEN k ELSE k + 1)
                                    /\ loads'[k].ack = loads[j].ack
        BY <1>3
      <3>2. ASSUME NEW m \in 1 .. n, m >= k, loads'[m].rows # NoRow
            PROVE  Upto(loads'[k].ack, loads'[m].rows)
        <4>1. PICK l \in 1 .. n + 1 : /\ l = (IF m < i THEN m ELSE m + 1)
                                      /\ loads'[m].rows = loads[l].rows
          BY <1>3
        <4>2. l >= j
          BY <3>1, <3>2, <4>1, <1>4
        <4> QED
          BY <4>1, <4>2, <3>1, <3>2, <1>0, <1>2 DEF OnlyWritten
      <3> QED
        BY <3>1, <3>2, <1>0, <1>2 DEF OnlyWritten
    <2> QED
      BY <2>1, <1>0, <1>1, <1>3 DEF OnlyWritten, Page, Upto, Ack
  <1>7. ASSUME NEW k \in 1 .. n
        PROVE  \E j \in 1 .. n + 1 : /\ j = (IF k < i THEN k ELSE k + 1)
                                     /\ loads'[k].for = loads[j].for
                                     /\ loads[j].late => loads'[k].late
                                     /\ k < i => loads'[k].late
                                     /\ ~(k < i) /\ Good(j) => Good(k)'
    <2>1. PICK j \in 1 .. n + 1 :
                   /\ j = (IF k < i THEN k ELSE k + 1)
                   /\ loads'[k].for = loads[j].for /\ loads'[k].rows = loads[j].rows
                   /\ loads'[k].late = (loads[j].late \/ k < i)
      BY <1>3
    <2>2. ~(k < i) /\ Good(j) => Good(k)'
      BY <2>1, <1>1 DEF Good, HasTold
    <2> QED
      BY <2>1, <2>2
  <1>8. CASE overtook \/ strayed
    BY <1>1, <1>5, <1>6, <1>8 DEF WebInv
  <1>9. CASE Page.refetch = "thrown" /\ ~overtook /\ ~strayed
    <2>1. Keeps
      BY <1>9 DEF WebInv
    <2>2. \A k \in 1 .. n : loads'[k].for = asked /\ (loads'[k].late \/ Good(k)')
      BY <2>1, <1>2, <1>7 DEF Keeps
    <2>3. Keeps'
      BY <2>1, <2>2, <1>1, <1>3 DEF Keeps, HasTold
    <2> QED
      BY <2>3, <1>1, <1>4, <1>5, <1>6, <1>9 DEF WebInv
  <1>10. CASE Page.refetch # "thrown" /\ ~overtook /\ ~strayed
    <2>0. Reloads' => WebInv'
      BY <1>1, <1>4, <1>5, <1>6, <1>10 DEF WebInv
    <2>1. Reloads /\ loadError'
      BY <1>1, <1>10 DEF WebInv
    <2>2. loads # <<>>
      BY <1>2
    <2>3. CASE typing
      BY <2>0, <2>3, <1>1 DEF Reloads
    <2>4. CASE i = n + 1 \/ \A j \in DOMAIN loads : loads[j].late
      <3>1. \A k \in 1 .. n : loads'[k].late
        BY <2>4, <1>2, <1>7
      <3> QED
        BY <2>0, <2>1, <3>1, <1>3 DEF Reloads
    <2>5. CASE Good(n + 1) /\ i # n + 1
      <3>1. n \in 1 .. n /\ ~(n < i)
        BY <2>5, <1>4
      <3>2. Good(n)'
        BY <3>1, <2>5, <1>7
      <3>3. loads' # <<>>
        BY <3>1, <1>3
      <3> QED
        BY <2>0, <3>2, <3>3, <1>3 DEF Reloads
    <2> QED
      BY <2>1, <2>2, <2>3, <2>4, <2>5, <1>2 DEF Reloads
  <1> QED
    BY <1>8, <1>9, <1>10

(* The answer is put into the list.                                        *)
LEMMA PatchingTrue ==
    ASSUME WebInv, PatchRow
    PROVE  WebInv'
  <1>0. /\ WebShapes /\ OnlyWritten /\ loads \in Seq(PageRequest)
        /\ told \in [Rows -> Nat] /\ screen \in [Rows -> Nat]
    BY DEF WebInv, WebShapes
  <1> DEFINE row == IF write.op = "delete" THEN dialog.row ELSE write.row
  <1>1. /\ write.at = "done" /\ write.op \in Page.patches
        /\ write' = NoWrite /\ dialog' = Closing
        /\ strayed' = (strayed \/ row # write.row)
        /\ IF write.good /\ row = write.row
           THEN screen' = [screen EXCEPT ![row] = IF write.version > @ THEN write.version ELSE @]
                /\ Tell(Ack)
           ELSE UNCHANGED <<screen, told>>
        /\ loads' = [k \in DOMAIN loads |-> [loads[k] EXCEPT !.late = TRUE]]
        /\ UNCHANGED <<open, table, asked, typing, answered, loadError, overtook>>
    BY DEF PatchRow, queryVars
  <1>2. Page' = Page /\ Page.refetch # "thrown"
    BY <1>0, <1>1, ThrowingPages DEF Page, WebShapes
  <1>3. PICK n \in Nat : n = Len(loads) /\ DOMAIN loads = 1 .. n
    BY <1>0, LenProperties
  <1>4. /\ loads' \in Seq(PageRequest) /\ Len(loads') = n /\ DOMAIN loads' = 1 .. n
        /\ \A k \in 1 .. n : /\ loads'[k].late
                             /\ loads'[k].ack = loads[k].ack /\ loads'[k].rows = loads[k].rows
    <2>1. ASSUME NEW k \in 1 .. n
          PROVE  /\ loads'[k] \in PageRequest /\ loads'[k].late
                 /\ loads'[k].ack = loads[k].ack /\ loads'[k].rows = loads[k].rows
      <3>1. loads[k] \in PageRequest
        BY <1>0, <1>3, ElementOfSeq
      <3>2. loads'[k] = [loads[k] EXCEPT !.late = TRUE]
        BY <1>1, <1>3
      <3> QED
        BY <3>1, <3>2 DEF PageRequest
    <2>2. loads' \in [1 .. n -> PageRequest]
      BY <2>1, <1>1, <1>3
    <2> QED
      BY <2>1, <2>2, <1>3
  <1>5. /\ write.row \in Rows /\ write.version \in Nat
        /\ Ack \in [row : Rows \cup {NoRow}, version : Nat]
        /\ Ack.row = write.row /\ Ack.version = write.version
    BY <1>0, <1>1 DEF WebShapes, Writing, Ack
  <1> HIDE DEF row
  <1>6. \/ UNCHANGED <<screen, told>>
        \/ /\ screen' \in [Rows -> Nat] /\ told' \in [Rows -> Nat]
           /\ \A r \in Rows : /\ screen[r] <= screen'[r]
                              /\ told'[r] = told[r] \/ (r = write.row /\ told'[r] = write.version)
                              /\ r = write.row => write.version <= screen'[r]
    <2>1. CASE UNCHANGED <<screen, told>>
      BY <2>1
    <2>2. CASE row = write.row /\ Tell(Ack)
               /\ screen' = [screen EXCEPT ![row] = IF write.version > @ THEN write.version ELSE @]
      <3>1. /\ screen' \in [Rows -> Nat]
            /\ \A r \in Rows : /\ screen[r] <= screen'[r]
                               /\ r = write.row => write.version <= screen'[r]
        BY <2>2, <1>0, <1>5
      <3>2. told' \in [Rows -> Nat]
        BY <2>2, <1>0, <1>5, Tells
      <3>3. \A r \in Rows : told'[r] = told[r] \/ (r = write.row /\ told'[r] = write.version)
        BY <2>2, <1>5 DEF Tell
      <3> QED
        BY <3>1, <3>2, <3>3
    <2> QED
      BY <2>1, <2>2, <1>1
  <1>7. WebShapes'
    <2>1. dialog' = dialog \/ dialog' = NoDialog
      BY <1>1 DEF Closing
    <2>2. /\ dialog' \in [op : Ops \cup {"none"}, row : Rows \cup {NoRow}]
          /\ dialog' # NoDialog => dialog'.row \in Rows
      BY <2>1, <1>0 DEF WebShapes, NoDialog
    <2>3. write' \in Writing /\ write'.at = "none"
      BY <1>1 DEF NoWrite, Writing
    <2> QED
      BY <2>2, <2>3, <1>0, <1>1, <1>4, <1>6 DEF WebShapes
  <1>8. OnlyWritten'
    <2>1. write'.at # "done"
      BY <1>1 DEF NoWrite
    <2>2. Upto(Ack, table)
      BY <1>0, <1>1 DEF OnlyWritten
    <2>3. \A r \in Rows : told'[r] <= table[r]
      BY <2>2, <1>0, <1>5, <1>6 DEF OnlyWritten, Upto
    <2> QED
      <3>1. \A k \in 1 .. n :
               /\ Upto(loads'[k].ack, table)
               /\ loads'[k].ack = NoAck
               /\ \A m \in 1 .. n : m >= k /\ loads'[m].rows # NoRow
                                      => Upto(loads'[k].ack, loads'[m].rows)
        BY <1>0, <1>2, <1>3, <1>4 DEF OnlyWritten
      <3>2. \A r \in Rows : told'[r] <= table'[r]
        BY <2>3, <1>1
      <3>3. table' = table /\ DOMAIN loads' = 1 .. n
        BY <1>1, <1>4
      <3>4. \A k \in DOMAIN loads' :
               /\ Upto(loads'[k].ack, table')
               /\ Page'.refetch # "thrown" => loads'[k].ack = NoAck
               /\ \A m \in DOMAIN loads' : m >= k /\ loads'[m].rows # NoRow
                                               => Upto(loads'[k].ack, loads'[m].rows)
        BY <3>1, <3>3
      <3>5. Page'.refetch # "thrown"
        BY <1>2
      <3> QED
        BY <2>1, <3>2, <3>4, <3>5 DEF OnlyWritten
  <1>9. overtook' \/ strayed' \/ Reloads'
    <2> SUFFICES ASSUME ~overtook, ~strayed
                 PROVE  Reloads'
      BY <1>1
    <2>1. Reloads
      BY <1>2 DEF WebInv
    <2>2. loads' = <<>> <=> loads = <<>>
      BY <1>0, <1>3, <1>4, EmptySeq
    <2>3. HasTold(screen) => HasTold(screen)'
      <3> SUFFICES ASSUME HasTold(screen), NEW r \in Rows
                   PROVE  told'[r] <= screen'[r]
        BY DEF HasTold
      <3>1. told[r] <= screen[r] /\ told[r] \in Nat /\ screen[r] \in Nat
        BY <1>0 DEF HasTold
      <3>2. screen'[r] \in Nat
        BY <1>7 DEF WebShapes
      <3> QED
        BY <3>1, <3>2, <1>5, <1>6
    <2> QED
      BY <2>1, <2>2, <2>3, <1>1, <1>4 DEF Reloads
  <1> QED
    BY <1>2, <1>7, <1>8, <1>9 DEF WebInv

(* What a dialog or a write can be after a step.                           *)
LEMMA WritingTypes ==
    ASSUME WebShapes,
           \/ \E o \in Ops, r \in Rows : OpenDialog(o, r)
           \/ CloseDialog \/ Submit \/ RefuseWrite \/ LoseAnswer
           \/ LoseEvent \/ ReloadList \/ ReportFailure \/ \E good \in BOOLEAN : ServeWrite(good)
    PROVE  /\ dialog' \in [op : Ops \cup {"none"}, row : Rows \cup {NoRow}]
           /\ (dialog' # NoDialog => dialog'.row \in Rows)
           /\ write' \in Writing /\ (write'.at # "none" => write'.row \in Rows)
  <1>0. /\ dialog \in [op : Ops \cup {"none"}, row : Rows \cup {NoRow}]
        /\ (dialog # NoDialog => dialog.row \in Rows)
        /\ write \in Writing /\ (write.at # "none" => write.row \in Rows)
        /\ table \in [Rows -> Nat]
    BY DEF WebShapes
  <1>1. /\ NoDialog \in [op : Ops \cup {"none"}, row : Rows \cup {NoRow}]
        /\ NoWrite \in Writing /\ NoWrite.at = "none"
    BY DEF NoDialog, NoWrite, Writing
  <1>2. CASE \E o \in Ops, r \in Rows : OpenDialog(o, r)
    BY <1>0, <1>1, <1>2 DEF OpenDialog
  <1>3. CASE CloseDialog
    <2>1. PICK b \in BOOLEAN : b = (Page.emits /\ write # NoWrite)
      OBVIOUS
    <2>2. write' = [write EXCEPT !.left = b] /\ dialog' = NoDialog
      BY <2>1, <1>3 DEF CloseDialog
    <2> QED
      BY <2>2, <1>0, <1>1 DEF Writing
  <1>4. CASE Submit
    <2>1. /\ dialog # NoDialog /\ (dialog' = NoDialog \/ dialog' = dialog)
          /\ write' = [NoWrite EXCEPT !.op = dialog.op, !.row = dialog.row, !.at = "sent"]
      BY <1>4 DEF Submit
    <2>2. /\ write' \in Writing /\ write'.row = dialog.row
      BY <2>1, <1>0 DEF NoWrite, Writing
    <2> QED
      BY <2>1, <2>2, <1>0, <1>1
  <1>5. CASE RefuseWrite \/ LoseAnswer
    BY <1>0, <1>1, <1>5 DEF RefuseWrite, LoseAnswer, Writing
  <1>6. CASE LoseEvent
    BY <1>0, <1>1, <1>6 DEF LoseEvent
  <1>7. CASE ReloadList
    BY <1>0, <1>1, <1>7 DEF ReloadList, Closing
  <1>8. CASE ReportFailure
    BY <1>0, <1>1, <1>8 DEF ReportFailure, CloseLate
  <1>9. ASSUME NEW good \in BOOLEAN, ServeWrite(good)
        PROVE  write' \in Writing /\ write'.row \in Rows /\ dialog' = dialog
    <2>1. /\ write.at = "sent" /\ table' = [table EXCEPT ![write.row] = @ + 1]
          /\ write' = [write EXCEPT !.at = "done", !.version = table'[write.row], !.good = good]
          /\ dialog' = dialog
      BY <1>9 DEF ServeWrite
    <2>2. write.row \in Rows /\ table'[write.row] \in Nat
      BY <2>1, <1>0
    <2> QED
      BY <2>1, <2>2, <1>0 DEF Writing
  <1> QED
    BY <1>0, <1>1, <1>2, <1>3, <1>4, <1>5, <1>6, <1>7, <1>8, <1>9

(* The versions a write can raise.                                         *)
LEMMA TablesGrow ==
    ASSUME table \in [Rows -> Nat], NEW r \in Rows, table' = [table EXCEPT ![r] = @ + 1]
    PROVE  table' \in [Rows -> Nat] /\ \A q \in Rows : table[q] <= table'[q]
  OBVIOUS

(* Steps of the user and the server that change neither list nor requests. *)
LEMMA OthersTrue ==
    ASSUME WebInv,
           \/ \E s \in {0, 1} : DebouncedFetch(s)
           \/ \E o \in Ops, r \in Rows : OpenDialog(o, r)
           \/ CloseDialog \/ Submit \/ RefuseWrite \/ LoseAnswer
           \/ \E good \in BOOLEAN : ServeWrite(good)
           \/ \E r \in Rows : OthersWrite(r)
           \/ LoseEvent \/ UNCHANGED webVars
    PROVE  WebInv'
  <1>0. /\ WebShapes /\ OnlyWritten /\ table \in [Rows -> Nat] /\ told \in [Rows -> Nat]
        /\ HasTold(table)
    BY DEF WebInv, WebShapes, OnlyWritten, HasTold
  <1>1. \A q \in Rows : table[q] <= table[q]
    BY <1>0
  <1>2. CASE \E s \in {0, 1} : DebouncedFetch(s)
    <2>1. PICK s \in {0, 1} : DebouncedFetch(s)
      BY <1>2
    <2>2. /\ asked' = [asked EXCEPT !.search = s] /\ typing' /\ Page.searches
          /\ UNCHANGED <<open, table, screen, answered, loadError, overtook, loads, dialog, write,
                         told, strayed>>
      BY <2>1 DEF DebouncedFetch, webListVars
    <2>3. WebShapes'
      BY <2>2, <1>0 DEF WebShapes, Queries
    <2> QED
      BY <2>2, <2>3, <1>0, <1>1, ListStaysTrue DEF OnlyWritten, HasTold, Upto, Ack
  <1>3. CASE \/ \E o \in Ops, r \in Rows : OpenDialog(o, r)
             \/ CloseDialog \/ Submit \/ RefuseWrite \/ LoseAnswer
    <2>1. UNCHANGED <<open, table, asked, typing, screen, answered, loadError, overtook, loads,
                      told, strayed>>
      BY <1>3 DEF OpenDialog, CloseDialog, Submit, RefuseWrite, LoseAnswer, queryVars, webListVars
    <2>2. WebShapes'
      BY <2>1, <1>0, <1>3, WritingTypes DEF WebShapes
    <2>3. write'.at = "done" => write.at = "done" /\ write'.row = write.row
                                /\ write'.version = write.version
      <3>1. write \in Writing
        BY <1>0 DEF WebShapes
      <3>2. CASE CloseDialog
        <4>1. PICK b \in BOOLEAN : b = (Page.emits /\ write # NoWrite)
          OBVIOUS
        <4>2. write' = [write EXCEPT !.left = b]
          BY <3>2, <4>1 DEF CloseDialog
        <4> QED
          BY <4>2, <3>1 DEF Writing
      <3> QED
        BY <1>3, <3>1, <3>2 DEF OpenDialog, Submit, RefuseWrite, LoseAnswer, NoWrite, Writing
    <2>4. write'.at = "done" => Upto(Ack, table)'
      BY <2>1, <2>3, <1>0 DEF OnlyWritten, Upto, Ack
    <2> QED
      BY <2>1, <2>2, <2>4, <1>0, <1>1, ListStaysTrue DEF HasTold
  <1>4. ASSUME NEW good \in BOOLEAN, ServeWrite(good)
        PROVE  WebInv'
    <2>1. /\ write.at = "sent" /\ table' = [table EXCEPT ![write.row] = @ + 1]
          /\ write' = [write EXCEPT !.at = "done", !.version = table'[write.row], !.good = good]
          /\ UNCHANGED <<open, asked, typing, screen, answered, loadError, overtook, loads, dialog,
                         told, strayed>>
      BY <1>4 DEF ServeWrite, queryVars, webListVars
    <2>2. write.row \in Rows /\ write \in Writing
      BY <2>1, <1>0 DEF WebShapes
    <2>3. table' \in [Rows -> Nat] /\ \A q \in Rows : table[q] <= table'[q]
      BY <2>1, <2>2, <1>0, TablesGrow
    <2>4. write'.row = write.row /\ write'.version = table'[write.row]
      BY <2>1, <2>2 DEF Writing
    <2>5. WebShapes'
      BY <2>1, <2>3, <1>0, <1>4, WritingTypes DEF WebShapes
    <2>6. HasTold(table)'
      BY <2>1, <2>3, <1>0 DEF HasTold
    <2>7. Upto(Ack, table)'
      BY <2>2, <2>3, <2>4 DEF Upto, Ack
    <2> QED
      BY <2>1, <2>3, <2>5, <2>6, <2>7, ListStaysTrue
  <1>5. ASSUME NEW r \in Rows, OthersWrite(r)
        PROVE  WebInv'
    <2>1. /\ table' = [table EXCEPT ![r] = @ + 1]
          /\ UNCHANGED <<open, asked, typing, screen, answered, loadError, overtook, loads, dialog,
                         write, told, strayed>>
      BY <1>5 DEF OthersWrite, queryVars, webListVars
    <2>2. table' \in [Rows -> Nat] /\ \A q \in Rows : table[q] <= table'[q]
      BY <2>1, <1>0, TablesGrow
    <2>3. WebShapes'
      BY <2>1, <2>2, <1>0 DEF WebShapes
    <2>4. HasTold(table)'
      BY <2>1, <2>2, <1>0 DEF HasTold
    <2>5. write'.at = "done" => Upto(Ack, table)'
      <3> SUFFICES ASSUME write.at = "done"
                   PROVE  Upto(Ack, table')
        BY <2>1 DEF Ack, Upto
      <3>1. write.row \in Rows /\ write.version <= table[write.row] /\ write.version \in Nat
        BY <1>0 DEF OnlyWritten, Upto, Ack, WebShapes, Writing
      <3>2. write.version <= table'[write.row]
        BY <3>1, <2>2, <1>0
      <3> QED
        BY <3>2 DEF Upto, Ack
    <2> QED
      BY <2>1, <2>2, <2>3, <2>4, <2>5, ListStaysTrue
  <1>6. CASE LoseEvent
    <2>1. /\ write.at = "done" /\ write' = NoWrite
          /\ \/ Tell(Ack) /\ strayed'
             \/ UNCHANGED <<told, strayed>>
          /\ UNCHANGED <<open, table, asked, typing, screen, answered, loadError, overtook, loads,
                         dialog>>
      BY <1>6 DEF LoseEvent, queryVars, webListVars
    <2>2. Ack \in [row : Rows \cup {NoRow}, version : Nat] /\ Upto(Ack, table)
      BY <2>1, <1>0 DEF OnlyWritten, WebShapes, Writing, Ack
    <2>3. told' \in [Rows -> Nat] /\ HasTold(table)'
      <3>1. CASE Tell(Ack)
        <4>1. PICK t \in [Rows -> Nat] : t = table
          BY <1>0
        <4>2. told' \in [Rows -> Nat] /\ HasTold(t)'
          BY <3>1, <4>1, <2>2, <1>0, Tells
        <4> QED
          BY <4>1, <4>2, <2>1 DEF HasTold
      <3>2. CASE UNCHANGED told
        BY <3>2, <2>1, <1>0 DEF HasTold
      <3> QED
        BY <3>1, <3>2, <2>1
    <2>4. WebShapes'
      BY <2>1, <2>3, <1>0, <1>6, WritingTypes DEF WebShapes
    <2>5. write'.at # "done"
      BY <2>1 DEF NoWrite
    <2>6. strayed' \/ told' = told
      BY <2>1
    <2>7. strayed => strayed'
      BY <2>1
    <2> QED
      BY <2>1, <2>3, <2>4, <2>5, <2>6, <2>7, <1>1, ListStaysTrue
  <1>7. CASE UNCHANGED webVars
    <2>1. UNCHANGED <<open, table, asked, typing, screen, answered, loadError, overtook, loads,
                      dialog, write, told, strayed>>
      BY <1>7 DEF webVars, queryVars, webListVars
    <2>2. WebShapes'
      BY <2>1, <1>0 DEF WebShapes
    <2> QED
      BY <2>1, <2>2, <1>0, <1>1, ListStaysTrue DEF OnlyWritten, HasTold, Upto, Ack
  <1> QED
    BY <1>2, <1>3, <1>4, <1>5, <1>6, <1>7

(* Steps that request the list again.                                      *)
LEMMA RequestsTrue ==
    ASSUME WebInv, \/ \E p \in {1, 2} : TurnPage(p)
                   \/ SearchPause \/ Retry \/ ReloadList \/ ReportFailure
    PROVE  WebInv'
  <1>0. /\ WebShapes /\ OnlyWritten /\ table \in [Rows -> Nat] /\ told \in [Rows -> Nat]
        /\ HasTold(table) /\ asked \in Queries /\ loads \in Seq(PageRequest)
        /\ (Page.refetch = "thrown" => ~Page.searches /\ open # "suppressions")
    BY ThrowingPages DEF WebInv, WebShapes, OnlyWritten, HasTold
  <1>1. NoAck \in [row : Rows \cup {NoRow}, version : Nat] /\ Upto(NoAck, table)
    BY WebPagesAssumption DEF NoAck, Upto
  <1>2. ASSUME NEW q \in Queries, NEW ack \in [row : Rows \cup {NoRow}, version : Nat],
               FetchRows(q, ack)
        PROVE  loads' \in Seq(PageRequest) /\ UNCHANGED <<screen, answered, overtook>>
    BY <1>0, <1>2, FetchAppends DEF FetchRows
  <1>3. ASSUME NEW q \in Queries, FetchRows(q, NoAck), asked' = q, ~(Page.refetch = "thrown"),
               UNCHANGED <<open, table, dialog, write, told, strayed>>
        PROVE  WebInv'
    <2>1. WebShapes'
      BY <1>0, <1>1, <1>2, <1>3 DEF WebShapes
    <2>2. HasTold(table)' /\ (write'.at = "done" => Upto(Ack, table)')
      BY <1>0, <1>3 DEF OnlyWritten, HasTold, Upto, Ack
    <2> QED
      BY <2>1, <2>2, <1>1, <1>3, ReloadsTrue
  <1>4. CASE \E p \in {1, 2} : TurnPage(p)
    <2>1. PICK p \in {1, 2} : TurnPage(p)
      BY <1>4
    <2>2. PICK q \in Queries : q = [asked EXCEPT !.page = p]
      BY <1>0 DEF Queries
    <2> QED
      BY <2>1, <2>2, <1>0, <1>3 DEF TurnPage
  <1>5. CASE Retry
    <2>1. Page.refetch = "caught" /\ FetchRows(asked, NoAck)
          /\ UNCHANGED <<open, table, asked, dialog, write, told, strayed>>
      BY <1>5 DEF Retry, queryVars
    <2> QED
      BY <2>1, <1>0, <1>3
  <1>6. CASE SearchPause
    <2>1. PICK q \in Queries : q = [asked EXCEPT !.page = 1]
      BY <1>0 DEF Queries
    <2>2. /\ typing /\ asked' = q /\ FetchRows(q, NoAck)
          /\ UNCHANGED <<open, table, dialog, write, told, strayed>>
      BY <2>1, <1>6 DEF SearchPause
    <2>3. Page.refetch # "thrown"
      BY <2>2, <1>0 DEF OnlyWritten
    <2> QED
      BY <2>2, <2>3, <1>3
  <1>7. CASE ReloadList
    <2>1. PICK q \in Queries : q = IF open = "suppressions" /\ write.op = "create"
                                   THEN [search |-> 0, page |-> 1] ELSE asked
      BY <1>0 DEF Queries
    <2>2. /\ write.at = "done" /\ asked' = q
          /\ write' = NoWrite /\ dialog' = Closing
          /\ IF Page.refetch = "thrown"
             THEN FetchRows(q, Ack) /\ UNCHANGED told
             ELSE FetchRows(q, NoAck) /\ Tell(Ack)
          /\ UNCHANGED <<open, table, typing, strayed>>
      BY <2>1, <1>7 DEF ReloadList
    <2>3. Ack \in [row : Rows \cup {NoRow}, version : Nat] /\ Upto(Ack, table)
      BY <2>2, <1>0 DEF OnlyWritten, WebShapes, Writing, Ack
    <2>4. told' \in [Rows -> Nat] /\ HasTold(table)'
      <3>1. CASE Tell(Ack)
        <4>1. PICK t \in [Rows -> Nat] : t = table
          BY <1>0
        <4>2. told' \in [Rows -> Nat] /\ HasTold(t)'
          BY <3>1, <4>1, <2>3, <1>0, Tells
        <4> QED
          BY <4>1, <4>2, <2>2 DEF HasTold
      <3>2. CASE UNCHANGED told
        BY <3>2, <2>2, <1>0 DEF HasTold
      <3> QED
        BY <3>1, <3>2, <2>2
    <2>5. loads' \in Seq(PageRequest) /\ UNCHANGED <<screen, answered, overtook>>
      BY <2>2, <2>3, <1>1, <1>2
    <2>6. WebShapes'
      BY <2>2, <2>4, <2>5, <1>0, <1>7, WritingTypes DEF WebShapes
    <2>7. write'.at # "done"
      BY <2>2 DEF NoWrite
    <2>8. CASE Page.refetch = "thrown"
      <3>1. q = asked
        BY <2>1, <2>8, <1>0
      <3> QED
        BY <2>2, <2>3, <2>4, <2>6, <2>7, <2>8, <3>1, ReloadsTrue
    <2>9. CASE Page.refetch # "thrown"
      BY <2>2, <2>4, <2>6, <2>7, <2>9, <1>1, ReloadsTrue
    <2> QED
      BY <2>8, <2>9
  <1>8. CASE ReportFailure
    <2>1. /\ write.at # "none" /\ write' = NoWrite
          /\ FetchRows(asked, NoAck) \/ UNCHANGED <<webListVars, loads>>
          /\ UNCHANGED <<open, table, asked, typing, told, strayed>>
      BY <1>8 DEF ReportFailure, queryVars
    <2>2. loads' \in Seq(PageRequest) /\ UNCHANGED <<screen, answered, overtook>>
      BY <2>1, <1>0, <1>1, <1>2 DEF webListVars
    <2>3. WebShapes'
      BY <2>1, <2>2, <1>0, <1>8, WritingTypes DEF WebShapes
    <2>4. write'.at # "done"
      BY <2>1 DEF NoWrite
    <2>5. HasTold(table)'
      BY <2>1, <1>0 DEF HasTold
    <2>6. CASE UNCHANGED <<webListVars, loads>>
      <3>1. UNCHANGED <<loads, answered, screen, overtook, loadError>>
        BY <2>6 DEF webListVars
      <3>2. \A r \in Rows : table[r] <= table'[r]
        BY <2>1, <1>0
      <3> QED
        BY <3>1, <3>2, <2>1, <2>3, <2>4, <2>5, ListStaysTrue
    <2>7. CASE FetchRows(asked, NoAck)
      BY <2>1, <2>3, <2>4, <2>5, <2>7, <1>0, <1>1, ReloadsTrue
    <2> QED
      BY <2>1, <2>6, <2>7
  <1> QED
    BY <1>4, <1>5, <1>6, <1>7, <1>8

(* A page starts with one request under way.                               *)
LEMMA PagesStartTrue == WebInit => WebInv
  <1> SUFFICES ASSUME WebInit
               PROVE  WebInv
    OBVIOUS
  <1>1. /\ open \in DOMAIN PageTraits /\ table = [r \in Rows |-> 0] /\ screen = [r \in Rows |-> 0]
        /\ asked = [search |-> 0, page |-> 1] /\ answered = asked /\ ~typing
        /\ dialog = NoDialog /\ write = NoWrite /\ told = [r \in Rows |-> 0]
    BY DEF WebInit
  <1>2. asked \in Queries
    BY <1>1 DEF Queries
  <1>3. PICK e \in PageRequest : e = [for |-> asked, rows |-> NoRow, late |-> FALSE, ack |-> NoAck]
    BY <1>2 DEF PageRequest, NoAck
  <1>4. e.for = asked /\ e.rows = NoRow /\ ~e.late /\ e.ack = NoAck
    BY <1>3
  <1>5. loads = <<e>>
    BY <1>3 DEF WebInit
  <1>6. /\ loads \in Seq(PageRequest) /\ Len(loads) = 1 /\ loads[1] = e
        /\ \A i \in DOMAIN loads : i = 1 /\ loads[i] = e
    BY <1>5
  <1>7. /\ NoWrite \in Writing /\ NoWrite.at = "none"
        /\ NoDialog \in [op : Ops \cup {"none"}, row : Rows \cup {NoRow}]
    BY DEF NoDialog, NoWrite, Writing
  <1>8. WebShapes
    BY <1>1, <1>2, <1>6, <1>7 DEF WebShapes
  <1>9. Upto(NoAck, table)
    BY WebPagesAssumption DEF NoAck, Upto
  <1>10. OnlyWritten
    BY <1>1, <1>4, <1>6, <1>7, <1>9 DEF OnlyWritten
  <1>11. Good(1) /\ HasTold(screen)
    BY <1>1, <1>4, <1>6 DEF Good, HasTold
  <1>12. Keeps /\ Reloads
    BY <1>1, <1>4, <1>6, <1>11 DEF Keeps, Reloads
  <1> QED
    BY <1>8, <1>10, <1>12 DEF WebInv

(* What the page keeps besides.                                            *)
WebFlags ==
    /\ answered \in Queries /\ typing \in BOOLEAN /\ listed \in BOOLEAN /\ loading \in BOOLEAN
    /\ loadError \in BOOLEAN /\ overtook \in BOOLEAN /\ strayed \in BOOLEAN

(* Every step keeps it.                                                    *)
LEMMA WebFlagsStay ==
    ASSUME WebShapes, WebFlags, [WebNext]_webVars
    PROVE  WebFlags'
  <1>1. ASSUME NEW q, NEW ack, FetchRows(q, ack), typing' \in BOOLEAN, strayed' \in BOOLEAN
        PROVE  WebFlags'
    BY <1>1 DEF FetchRows, WebFlags
  <1>2. ASSUME NEW i \in DOMAIN loads, ShowRows(i)
        PROVE  WebFlags'
    <2>1. loads[i].for \in Queries
      <3>1. loads[i] \in PageRequest
        BY ElementOfSeq, LenProperties DEF WebShapes
      <3> QED
        BY <3>1 DEF PageRequest
    <2>2. answered' = loads[i].for /\ listed' = TRUE /\ loading' = FALSE
          /\ overtook' = (overtook \/ loads[i].late)
          /\ loadError' \in {FALSE, loadError} /\ UNCHANGED <<typing, strayed>>
      BY <1>2 DEF ShowRows, queryVars
    <2>3. overtook' \in BOOLEAN
      BY <2>2
    <2> QED
      BY <2>1, <2>2, <2>3 DEF WebFlags
  <1>3. ASSUME NEW i \in DOMAIN loads, RowsFail(i)
        PROVE  WebFlags'
    BY <1>3 DEF RowsFail, WebFlags, queryVars
  <1>4. CASE PatchRow
    <2>1. strayed' \in BOOLEAN /\ UNCHANGED <<answered, typing, listed, loading, loadError, overtook>>
      BY <1>4 DEF PatchRow, queryVars
    <2> QED
      BY <2>1 DEF WebFlags
  <1>5. CASE LoseEvent
    <2>1. strayed' \in BOOLEAN /\ UNCHANGED <<answered, typing, listed, loading, loadError, overtook>>
      BY <1>5 DEF LoseEvent, WebFlags, queryVars, webListVars
    <2> QED
      BY <2>1 DEF WebFlags
  <1>6. CASE ReportFailure
    <2>1. UNCHANGED <<typing, strayed>>
      BY <1>6 DEF ReportFailure, queryVars
    <2>2. CASE FetchRows(asked, NoAck)
      BY <1>1, <2>1, <2>2 DEF WebFlags
    <2>3. CASE UNCHANGED <<webListVars, loads>>
      BY <2>1, <2>3 DEF WebFlags, webListVars
    <2> QED
      BY <1>6, <2>2, <2>3 DEF ReportFailure
  <1>7. CASE SearchPause \/ Retry \/ ReloadList \/ \E p \in {1, 2} : TurnPage(p)
    <2>1. PICK q, ack : FetchRows(q, ack)
      BY <1>7 DEF SearchPause, Retry, ReloadList, TurnPage
    <2>2. typing' \in BOOLEAN /\ strayed' = strayed
      BY <1>7 DEF SearchPause, Retry, ReloadList, TurnPage, queryVars, WebFlags
    <2> QED
      BY <1>1, <2>1, <2>2 DEF WebFlags
  <1>8. ASSUME NEW s \in {0, 1}, DebouncedFetch(s)
        PROVE  WebFlags'
    BY <1>8 DEF DebouncedFetch, WebFlags, webListVars
  <1>9. CASE \/ \E i \in DOMAIN loads : ServeRows(i)
             \/ \E o \in Ops, r \in Rows : OpenDialog(o, r)
             \/ CloseDialog \/ Submit \/ RefuseWrite \/ LoseAnswer
             \/ \E good \in BOOLEAN : ServeWrite(good)
             \/ \E r \in Rows : OthersWrite(r)
    <2>1. UNCHANGED <<queryVars, webListVars, strayed>>
      BY <1>9 DEF ServeRows, OpenDialog, CloseDialog, Submit, RefuseWrite, LoseAnswer, ServeWrite,
                  OthersWrite
    <2> QED
      BY <2>1 DEF queryVars, webListVars, WebFlags
  <1>10. CASE UNCHANGED webVars
    BY <1>10 DEF webVars, queryVars, webListVars, WebFlags
  <1> QED
    BY <1>2, <1>3, <1>4, <1>5, <1>6, <1>7, <1>8, <1>9, <1>10 DEF WebNext

(* WebPages.ToldIsShown: on each of the pages of the web application, the  *)
(* list ends with every change its handlers reported as done and with the  *)
(* answer to the query on screen, whatever searches, turned pages, failed  *)
(* or reordered list requests the change was mixed with, unless an answer  *)
(* came after a later one or one of the two known handlers strayed.        *)
THEOREM PagesShowWhatTheyTold == WebSpec => [](WebTypeOK /\ ToldIsShown)
  <1>1. WebInv /\ [WebNext]_webVars => WebInv'
    <2> SUFFICES ASSUME WebInv, [WebNext]_webVars
                 PROVE  WebInv'
      OBVIOUS
    <2>1. CASE \/ \E s \in {0, 1} : DebouncedFetch(s)
               \/ \E o \in Ops, r \in Rows : OpenDialog(o, r)
               \/ CloseDialog \/ Submit \/ RefuseWrite \/ LoseAnswer
               \/ \E good \in BOOLEAN : ServeWrite(good)
               \/ \E r \in Rows : OthersWrite(r)
               \/ LoseEvent \/ UNCHANGED webVars
      BY <2>1, OthersTrue
    <2>2. CASE \/ \E p \in {1, 2} : TurnPage(p)
               \/ SearchPause \/ Retry \/ ReloadList \/ ReportFailure
      BY <2>2, RequestsTrue
    <2>3. CASE \E i \in DOMAIN loads : ServeRows(i)
      BY <2>3, ServingTrue
    <2>4. CASE \E i \in DOMAIN loads : ShowRows(i)
      BY <2>4, ShowingTrue
    <2>5. CASE \E i \in DOMAIN loads : RowsFail(i)
      BY <2>5, FailingTrue
    <2>6. CASE PatchRow
      BY <2>6, PatchingTrue
    <2> QED
      BY <2>1, <2>2, <2>3, <2>4, <2>5, <2>6 DEF WebNext
  <1>2. WebInv => ToldIsShown
    <2> SUFFICES ASSUME WebInv, Quiet, ~overtook, ~strayed
                 PROVE  answered = asked /\ \A r \in Rows : told[r] <= screen[r]
      BY DEF ToldIsShown
    <2> QED
      BY DEF WebInv, Quiet, Keeps, Reloads, HasTold
  <1>3. WebInit => WebFlags
    <2> SUFFICES ASSUME WebInit
                 PROVE  WebFlags
      OBVIOUS
    <2>1. answered \in Queries
      BY DEF WebInit, Queries
    <2> QED
      BY <2>1 DEF WebInit, WebFlags
  <1>4. WebInv /\ WebFlags /\ [WebNext]_webVars => WebFlags'
    BY WebFlagsStay DEF WebInv
  <1>5. WebInv /\ WebFlags => WebTypeOK
    BY DEF WebInv, WebShapes, WebFlags, WebTypeOK, PageRequest, Writing
  <1> QED
    BY <1>1, <1>2, <1>3, <1>4, <1>5, PagesStartTrue, PTL DEF WebSpec

(* The first of a sequence.                                                *)
LEMMA AppendEmpty == \A e : Append(<<>>, e) = <<e>>
  OBVIOUS

(***************************************************************************)
(* Analytics.  As long as no request was made with another under way, all  *)
(* requests under way are for the choice made now, so that it does not     *)
(* matter in which order they are answered and labelled, and the           *)
(* administrator's page has one at most.  What is not on screen yet is     *)
(* under way, or its request failed.                                       *)
(***************************************************************************)
Coming(kinds) == \E i \in DOMAIN sent : sent[i].kind \in kinds
Labels ==
    /\ Len(sent) <= 1 /\ \A i \in DOMAIN sent : sent[i].kind \in {"load", "metric"}
    /\ overview # NoFigures => labelled.period = overview
    /\ series # Unset => /\ labelled.metric = series.metric
                         /\ "load" \in refused \/ labelled.period = series.period
    /\ labelled.period = chosen.period \/ "load" \in refused \/ Coming({"load"})
Figures ==
    /\ \A i \in DOMAIN sent : sent[i].for = chosen
    /\ admin => Labels
    /\ refused \subseteq {"metric", "refresh"} =>
          overview = chosen.period \/ Coming({"load", "period"})
    /\ refused \subseteq {"refresh"} => series = chosen \/ Coming({"load", "period", "metric"})
FiguresInv == AnaTypeOK /\ (stale \/ Figures)

(* A choice is made, or the first load tried again, with nothing under way *)
(* unless that is remembered.                                              *)
LEMMA PicksFigured ==
    ASSUME FiguresInv, \/ \E p \in Periods : PickPeriod(p)
                       \/ \E m \in Metrics : PickMetric(m)
                       \/ LoadAgain
    PROVE  FiguresInv'
  <1> USE DEF FiguresInv, AnaTypeOK, Selections, Kinds
  <1>1. ASSUME NEW p \in Periods, PickPeriod(p)
        PROVE  FiguresInv'
    <2> USE <1>1 DEF PickPeriod, Fetched
    <2>1. chosen' = [period |-> p, metric |-> chosen.metric]
      OBVIOUS
    <2>2. PICK e \in [kind : Kinds, for : Selections] :
             /\ sent' = Append(sent, e) /\ e.for = chosen'
             /\ e.kind \in {"load", "period"} /\ (admin => e.kind = "load")
      BY <2>1
    <2>3. AnaTypeOK'
      BY <2>1, <2>2
    <2>4. ASSUME ~stale', Figures
          PROVE  Figures'
      <3>1. sent = <<>>
        BY <2>4
      <3>2. sent' = <<e>>
        BY <3>1, <2>2, AppendEmpty
      <3>3. UNCHANGED <<admin, overview, labelled, series, refused>>
        OBVIOUS
      <3>4. DOMAIN sent' = {1} /\ sent'[1] = e /\ Len(sent') = 1
        BY <3>2
      <3>5. Coming({"load", "period"})' /\ Coming({"load", "period", "metric"})'
            /\ (admin => Coming({"load"})')
        BY <3>4, <2>2 DEF Coming
      <3>6. admin => Labels'
        BY <3>3, <3>4, <3>5, <2>2, <2>4 DEF Labels, Figures
      <3> QED
        BY <3>3, <3>4, <3>5, <3>6, <2>2 DEF Figures
    <2>5. stale => stale'
      OBVIOUS
    <2> QED
      BY <2>3, <2>4, <2>5
  <1>2. ASSUME NEW m \in Metrics, PickMetric(m)
        PROVE  FiguresInv'
    <2> USE <1>2 DEF PickMetric, Fetched
    <2>1. chosen' = [period |-> chosen.period, metric |-> m]
      OBVIOUS
    <2>2. PICK e \in [kind : Kinds, for : Selections] :
             sent' = Append(sent, e) /\ e.for = chosen' /\ e.kind = "metric"
      BY <2>1
    <2>3. AnaTypeOK'
      BY <2>1, <2>2
    <2>4. ASSUME ~stale', Figures
          PROVE  Figures'
      <3>7. sent = <<>>
        BY <2>4
      <3>0. DOMAIN sent = {}
        BY <3>7
      <3>1. sent = <<>> /\ ~Coming({"load"}) /\ ~Coming({"load", "period"})
        BY <3>0, <3>7 DEF Coming
      <3>2. sent' = <<e>>
        BY <3>1, <2>2, AppendEmpty
      <3>3. UNCHANGED <<admin, overview, labelled, series, refused>> /\ chosen'.period = chosen.period
        BY <2>1
      <3>4. DOMAIN sent' = {1} /\ sent'[1] = e /\ Len(sent') = 1
        BY <3>2
      <3>5. Coming({"load", "period", "metric"})'
        BY <3>4, <2>2 DEF Coming
      <3>6. admin => Labels'
        BY <3>1, <3>3, <3>4, <2>2, <2>4 DEF Labels, Figures
      <3> QED
        BY <3>1, <3>3, <3>4, <3>5, <3>6, <2>2, <2>4 DEF Figures
    <2>5. stale => stale'
      OBVIOUS
    <2> QED
      BY <2>3, <2>4, <2>5
  <1>3. ASSUME LoadAgain
        PROVE  FiguresInv'
    <2> USE <1>3 DEF LoadAgain, Fetched
    <2>1. PICK e \in [kind : Kinds, for : Selections] :
             sent' = Append(sent, e) /\ e.for = chosen /\ e.kind = "load"
      OBVIOUS
    <2>2. AnaTypeOK'
      <3>1. sent' \in Seq([kind : Kinds, for : Selections])
        BY <2>1
      <3>2. stale' \in BOOLEAN /\ busy' \in BOOLEAN /\ broken' \in BOOLEAN
        OBVIOUS
      <3>3. UNCHANGED <<admin, chosen, labelled, overview, series, refused>>
        OBVIOUS
      <3> HIDE DEF LoadAgain, Fetched, Kinds, Selections
      <3> QED
        BY <3>1, <3>2, <3>3
    <2>3. ASSUME ~stale', Figures
          PROVE  Figures'
      <3>7. stale' = (stale \/ sent # <<>>)
        OBVIOUS
      <3>8. ~(stale \/ sent # <<>>)
        BY <2>3, <3>7
      <3>1. sent = <<>>
        BY <3>8
      <3>2. sent' = <<e>>
        BY <3>1, <2>1, AppendEmpty
      <3>3. UNCHANGED <<admin, overview, labelled, series, refused, chosen>>
        OBVIOUS
      <3>4. DOMAIN sent' = {1} /\ sent'[1] = e /\ Len(sent') = 1
        BY <3>2
      <3>5. Coming({"load", "period"})' /\ Coming({"load", "period", "metric"})' /\ Coming({"load"})'
        BY <3>4, <2>1 DEF Coming
      <3>6. admin => Labels'
        BY <3>3, <3>4, <3>5, <2>1, <2>3 DEF Labels, Figures
      <3> QED
        BY <3>3, <3>4, <3>5, <3>6, <2>1 DEF Figures
    <2>4. stale => stale'
      OBVIOUS
    <2> QED
      BY <2>2, <2>3, <2>4
  <1> QED
    BY <1>1, <1>2, <1>3

(* The dashboard asks again for what is chosen.                            *)
LEMMA RefreshFigured ==
    ASSUME FiguresInv, RefreshAnalytics
    PROVE  FiguresInv'
  <1> USE DEF FiguresInv, AnaTypeOK, Selections, Kinds, RefreshAnalytics, Fetched
  <1>1. PICK e \in [kind : Kinds, for : Selections] :
           sent' = Append(sent, e) /\ e.for = chosen
    OBVIOUS
  <1>2. /\ sent' \in Seq([kind : Kinds, for : Selections]) /\ Len(sent') = Len(sent) + 1
        /\ \A i \in DOMAIN sent : sent'[i] = sent[i]
        /\ sent'[Len(sent) + 1] = e
    BY <1>1
  <1>3. UNCHANGED <<admin, chosen, labelled, overview, series, stale, refused>>
    OBVIOUS
  <1>4. AnaTypeOK'
    BY <1>2
  <1>5. ASSUME Figures
        PROVE  Figures'
    <2>1. DOMAIN sent' = DOMAIN sent \cup {Len(sent) + 1} /\ sent' # <<>>
      BY <1>2
    <2>2. ~admin
      OBVIOUS
    <2>3. \A i \in DOMAIN sent' : sent'[i].for = chosen'
      BY <2>1, <1>1, <1>2, <1>3, <1>5 DEF Figures
    <2>4. \A kinds : Coming(kinds) => Coming(kinds)'
      BY <2>1, <1>2 DEF Coming
    <2> HIDE DEF RefreshAnalytics, Fetched, AnaTypeOK
    <2> QED
      BY <2>2, <2>3, <2>4, <1>3, <1>5 DEF Figures
  <1> QED
    BY <1>3, <1>4, <1>5

(* An answer, good or bad, leaves the others.                              *)
LEMMA AnswersLeft ==
    ASSUME AnaTypeOK, NEW i \in DOMAIN sent
    PROVE  /\ RemoveAt(sent, i) \in Seq([kind : Kinds, for : Selections])
           /\ \A k \in DOMAIN RemoveAt(sent, i) :
                 \E j \in DOMAIN sent : RemoveAt(sent, i)[k] = sent[j]
           /\ \A j \in DOMAIN sent \ {i} :
                 \E k \in DOMAIN RemoveAt(sent, i) : RemoveAt(sent, i)[k] = sent[j]
           /\ Len(RemoveAt(sent, i)) = Len(sent) - 1 /\ Len(sent) \in Nat
  <1>1. sent \in Seq([kind : Kinds, for : Selections])
    BY DEF AnaTypeOK
  <1> DEFINE s == RemoveAt(sent, i)
  <1>2. /\ s \in Seq([kind : Kinds, for : Selections]) /\ DOMAIN s = 1 .. Len(sent) - 1
        /\ \A k \in 1 .. Len(sent) - 1 : s[k] = IF k < i THEN sent[k] ELSE sent[k + 1]
    BY <1>1, Removed
  <1>3. DOMAIN sent = 1 .. Len(sent) /\ Len(sent) \in Nat
    BY <1>1
  <1>6. Len(s) = Len(sent) - 1
    <2>1. Len(sent) - 1 \in Nat
      BY <1>3
    <2> HIDE DEF s
    <2> QED
      BY <2>1, <1>2, LenProperties
  <1> HIDE DEF s
  <1>4. \A k \in DOMAIN s : \E j \in DOMAIN sent : s[k] = sent[j]
    <2> SUFFICES ASSUME NEW k \in DOMAIN s PROVE \E j \in DOMAIN sent : s[k] = sent[j]
      OBVIOUS
    <2>1. k \in DOMAIN sent /\ k + 1 \in DOMAIN sent
      BY <1>2, <1>3
    <2> QED
      BY <2>1, <1>2
  <1>5. \A j \in DOMAIN sent \ {i} : \E k \in DOMAIN s : s[k] = sent[j]
    <2> SUFFICES ASSUME NEW j \in DOMAIN sent \ {i} PROVE \E k \in DOMAIN s : s[k] = sent[j]
      OBVIOUS
    <2>1. CASE j < i
      <3>1. j \in 1 .. Len(sent) - 1
        BY <2>1, <1>3
      <3> QED
        BY <3>1, <2>1, <1>2
    <2>2. CASE ~(j < i)
      <3>1. i \in 1 .. Len(sent) /\ j \in 1 .. Len(sent) /\ j # i
        BY <1>3
      <3>2. PICK k \in 1 .. Len(sent) - 1 : k + 1 = j /\ ~(k < i)
        <4>1. j - 1 \in 1 .. Len(sent) - 1 /\ (j - 1) + 1 = j /\ ~(j - 1 < i)
          BY <3>1, <2>2, <1>3
        <4> QED
          BY <4>1
      <3> QED
        BY <3>2, <1>2
    <2> QED
      BY <2>1, <2>2
  <1> QED
    BY <1>2, <1>3, <1>4, <1>5, <1>6 DEF s

(* An answer is shown and labelled, or a request fails.                    *)
LEMMA AnswersFigured ==
    ASSUME FiguresInv, NEW i \in DOMAIN sent, ShowAnswer(i) \/ FailAnswer(i)
    PROVE  FiguresInv'
  <1>1. AnaTypeOK /\ sent' = RemoveAt(sent, i) /\ UNCHANGED <<admin, chosen>>
    BY DEF ShowAnswer, FailAnswer, FetchFails, FiguresInv
  <1>2. /\ sent' \in Seq([kind : Kinds, for : Selections])
        /\ \A k \in DOMAIN sent' : \E j \in DOMAIN sent : sent'[k] = sent[j]
        /\ \A j \in DOMAIN sent \ {i} : \E k \in DOMAIN sent' : sent'[k] = sent[j]
        /\ Len(sent') = Len(sent) - 1 /\ Len(sent) \in Nat
    BY <1>1, AnswersLeft
  <1>3. sent[i] \in [kind : Kinds, for : Selections]
    <2>1. sent \in Seq([kind : Kinds, for : Selections])
      BY <1>1 DEF AnaTypeOK
    <2>2. DOMAIN sent = 1 .. Len(sent)
      BY <2>1
    <2> QED
      BY <2>1, <2>2, ElementOfSeq
  <1>4. AnaTypeOK'
    <2>1. CASE ShowAnswer(i)
      <3>1. labelled' \in Selections /\ series' \in Selections
        BY <2>1, <1>1, <1>3 DEF ShowAnswer, AnaTypeOK, Selections
      <3>2. overview' \in Periods \cup {NoFigures} /\ chosen' \in Selections
        BY <2>1, <1>1, <1>3 DEF ShowAnswer, AnaTypeOK, Selections
      <3>3. stale' \in BOOLEAN /\ refused' \subseteq Kinds
        BY <2>1, <1>1 DEF ShowAnswer, AnaTypeOK
      <3>4. {admin', busy', broken'} \subseteq BOOLEAN
        BY <2>1, <1>1 DEF ShowAnswer, AnaTypeOK
      <3> QED
        BY <3>1, <3>2, <3>3, <3>4, <1>2 DEF AnaTypeOK
    <2>2. CASE FailAnswer(i)
      <3>1. refused' \subseteq Kinds
        BY <2>2, <1>1, <1>3 DEF FailAnswer, FetchFails, AnaTypeOK
      <3> QED
        BY <2>2, <3>1, <1>1, <1>2 DEF FailAnswer, FetchFails, AnaTypeOK
    <2> QED
      BY <2>1, <2>2
  <1>5. \A kinds : Coming(kinds) /\ sent[i].kind \notin kinds => Coming(kinds)'
    <2> SUFFICES ASSUME NEW kinds, NEW j \in DOMAIN sent, sent[j].kind \in kinds,
                        sent[i].kind \notin kinds
                 PROVE  Coming(kinds)'
      BY DEF Coming
    <2>1. j \in DOMAIN sent \ {i}
      OBVIOUS
    <2>2. PICK k \in DOMAIN sent' : sent'[k] = sent[j]
      BY <2>1, <1>2
    <2> QED
      BY <2>2 DEF Coming
  <1>6. CASE ShowAnswer(i) /\ sent[i].kind # "metric" /\ Len(sent) = 1 /\ sent[i].for = chosen
    <2>1. Len(sent') = 0 /\ DOMAIN sent' = {}
      <3>1. Len(sent') = 0
        BY <1>2, <1>6
      <3> QED
        BY <3>1, <1>2, LenProperties
    <2>2. /\ overview' = chosen'.period /\ series' = chosen' /\ (admin => labelled' = chosen')
          /\ admin' = admin
      BY <1>1, <1>6 DEF ShowAnswer
    <2>3. admin' => Labels'
      BY <2>1, <2>2 DEF Labels
    <2> QED
      BY <2>1, <2>2, <2>3, <1>4 DEF FiguresInv, Figures
  <1>7. CASE ShowAnswer(i) /\ ~(sent[i].kind # "metric" /\ Len(sent) = 1 /\ sent[i].for = chosen)
    <2>0. UNCHANGED <<stale, refused>>
      BY <1>7 DEF ShowAnswer
    <2> SUFFICES ASSUME Figures
                 PROVE  Figures'
      BY <2>0, <1>4 DEF FiguresInv
    <2>1. \A k \in DOMAIN sent' : sent'[k].for = chosen'
      BY <1>1, <1>2 DEF Figures
    <2>2. series' = chosen' /\ sent[i].for = chosen
      BY <1>1, <1>7 DEF ShowAnswer, Figures
    <2>3. overview' = IF sent[i].kind = "metric" THEN overview ELSE chosen'.period
      BY <2>2, <1>1, <1>7 DEF ShowAnswer
    <2>4. overview' = chosen'.period \/ ~(refused' \subseteq {"metric", "refresh"})
          \/ Coming({"load", "period"})'
      BY <2>0, <2>3, <1>1, <1>5 DEF Figures
    <2>5. ASSUME admin'
          PROVE  Labels'
      <3>1. Labels /\ admin
        BY <2>5, <1>1 DEF Figures
      <3>2. sent[i].kind = "metric"
        <4>1. Len(sent) # 0
          BY <1>1, LenProperties DEF AnaTypeOK
        <4>2. Len(sent) = 1
          BY <4>1, <3>1, <1>2 DEF Labels
        <4> QED
          BY <4>2, <2>2, <1>7
      <3>3. ~Coming({"load"})
        <4>1. DOMAIN sent = 1 .. Len(sent)
          BY <1>1, LenProperties DEF AnaTypeOK
        <4>2. \A j \in DOMAIN sent : j = i
          BY <4>1, <3>1, <1>2 DEF Labels
        <4> QED
          BY <4>2, <3>2 DEF Coming
      <3>4. labelled' = [labelled EXCEPT !.metric = chosen.metric]
        BY <3>1, <3>2, <1>7 DEF ShowAnswer
      <3>5. labelled'.period = labelled.period /\ labelled'.metric = chosen.metric
        BY <3>4, <1>1 DEF AnaTypeOK, Selections
      <3>6. overview' = overview
        BY <3>2, <2>3
      <3>7. labelled.period = chosen.period \/ "load" \in refused
        BY <3>1, <3>3 DEF Labels
      <3>8. Len(sent') <= 1 /\ \A k \in DOMAIN sent' : sent'[k].kind \in {"load", "metric"}
        BY <3>1, <1>2 DEF Labels
      <3> QED
        BY <3>1, <3>5, <3>6, <3>7, <3>8, <2>0, <2>2, <1>1 DEF Labels
    <2> QED
      BY <2>1, <2>2, <2>4, <2>5 DEF Figures
  <1>8. CASE FailAnswer(i)
    <2>0. /\ UNCHANGED <<stale, labelled, overview, series>>
          /\ refused' = refused \cup {sent[i].kind}
      BY <1>8 DEF FailAnswer, FetchFails
    <2> SUFFICES ASSUME Figures
                 PROVE  Figures'
      BY <2>0, <1>4 DEF FiguresInv
    <2>1. \A k \in DOMAIN sent' : sent'[k].for = chosen'
      BY <1>1, <1>2 DEF Figures
    <2>2. refused' \subseteq {"metric", "refresh"} =>
             overview' = chosen'.period \/ Coming({"load", "period"})'
      BY <2>0, <1>1, <1>5 DEF Figures
    <2>3. refused' \subseteq {"refresh"} =>
             series' = chosen' \/ Coming({"load", "period", "metric"})'
      BY <2>0, <1>1, <1>5 DEF Figures
    <2>4. ASSUME admin'
          PROVE  Labels'
      <3>1. Labels
        BY <2>4, <1>1 DEF Figures
      <3>2. labelled'.period = chosen'.period \/ "load" \in refused' \/ Coming({"load"})'
        BY <3>1, <2>0, <1>1, <1>5 DEF Labels
      <3>3. Len(sent') <= 1 /\ \A k \in DOMAIN sent' : sent'[k].kind \in {"load", "metric"}
        BY <3>1, <1>2 DEF Labels
      <3> QED
        BY <3>1, <3>2, <3>3, <2>0 DEF Labels
    <2> QED
      BY <2>1, <2>2, <2>3, <2>4 DEF Figures
  <1> QED
    BY <1>6, <1>7, <1>8

(* AnalyticsPages.LabelsAreTrue: however many choices are made, answered   *)
(* in any order or refused, the administrator's pills name the period and  *)
(* the metric on screen, and what is on screen is what was chosen, unless  *)
(* a choice was made before the last was answered or its request failed,   *)
(* and then only until everything was loaded again (pages/index.vue,       *)
(* admin/analytics.vue).                                                   *)
THEOREM PillsAreTrue == AnaSpec => [](AnaTypeOK /\ LabelsAreTrue)
  <1>1. AnaInit => FiguresInv
    <2> SUFFICES ASSUME AnaInit PROVE FiguresInv
      OBVIOUS
    <2>1. sent = <<[kind |-> "load", for |-> chosen]>> /\ chosen \in Selections
      BY DEF AnaInit
    <2>2. /\ sent \in Seq([kind : Kinds, for : Selections]) /\ DOMAIN sent = {1}
          /\ sent[1] = [kind |-> "load", for |-> chosen]
      BY <2>1 DEF Kinds
    <2>3. AnaTypeOK
      BY <2>1, <2>2 DEF AnaInit, AnaTypeOK, Unset
    <2>4. Coming({"load"}) /\ Coming({"load", "period"}) /\ Coming({"load", "period", "metric"})
      BY <2>2 DEF Coming
    <2>5. Len(sent) = 1 /\ Labels
      BY <2>1, <2>2, <2>4 DEF AnaInit, Labels, Unset
    <2>6. Figures
      BY <2>1, <2>2, <2>4, <2>5 DEF Figures
    <2> QED
      BY <2>3, <2>6 DEF FiguresInv
  <1>2. FiguresInv /\ [AnaNext]_anaVars => FiguresInv'
    <2> SUFFICES ASSUME FiguresInv, [AnaNext]_anaVars PROVE FiguresInv'
      OBVIOUS
    <2>1. CASE UNCHANGED anaVars
      BY <2>1 DEF anaVars, FiguresInv, AnaTypeOK, Figures, Labels, Coming, Unset
    <2> QED
      BY <2>1, PicksFigured, RefreshFigured, AnswersFigured DEF AnaNext
  <1>3. FiguresInv => LabelsAreTrue
    <2>1. sent = <<>> => \A kinds : ~Coming(kinds)
      BY DEF Coming
    <2> QED
      BY <2>1 DEF FiguresInv, Figures, Labels, LabelsAreTrue
  <1>4. FiguresInv => AnaTypeOK
    BY DEF FiguresInv
  <1> QED
    BY <1>1, <1>2, <1>3, <1>4, PTL DEF AnaSpec
=============================================================================
