------------------------------ MODULE ReadState ------------------------------
(***************************************************************************)
(* Read and unread messages: the routes that set the flags                 *)
(* (src/apps/api/src/routes/messages.ts), the optimistic list of the       *)
(* browser (src/apps/web/composables/useInboxMessages.ts) and the unread   *)
(* badge of the sidebar (src/apps/web/layouts/default.vue).  A route       *)
(* updates the rows, publishes the change and answers.  A browser hears of *)
(* it on its event stream, the one that asked included, unless the stream  *)
(* is down at that moment: what it misses is not repeated.  The answer,    *)
(* the events and reloads reach a browser in any order.                    *)
(***************************************************************************)
EXTENDS Integers, FiniteSets, SequencesExt

CONSTANTS Viewers,  \* browsers that show the inbox
          Letters,  \* its messages
          MaxMarks  \* bound: requests and reloads made

ASSUME ReadStateAssumption == MaxMarks \in Nat /\ IsFiniteSet(Letters)

VARIABLES isRead,     \* column is_read
          feed,       \* per browser: events on the way, in order
          display,    \* per browser: the flags of the list
          badge,      \* per browser: unreadCount of the sidebar
          ask,        \* per browser: its request
          reload,     \* per browser: its reload of the list or the sidebar
          marks,      \* how many requests and reloads were made
          muddled,    \* history: browsers whose list took an older flag, or missed
                      \* a change, and was not loaded again since
          miscounted  \* history: the same of the badge

readVars == <<isRead, feed, display, badge, ask, reload, marks, muddled, miscounted>>

Flags == [Letters -> BOOLEAN]
NoAsk == [kind |-> "none", ids |-> {}, value |-> FALSE, at |-> "none"]
NoReload == [of |-> "none", flags |-> {}]
UnreadIn(flags) == {m \in DOMAIN flags : ~flags[m]}
Changed(flags, ids, v) == [m \in Letters |-> IF m \in ids THEN v ELSE flags[m]]

ReadInit ==
    /\ isRead = [m \in Letters |-> FALSE]
    /\ feed = [t \in Viewers |-> <<>>]
    /\ display = [t \in Viewers |-> isRead]
    /\ badge = [t \in Viewers |-> Cardinality(Letters)]
    /\ ask = [t \in Viewers |-> NoAsk] /\ reload = [t \in Viewers |-> NoReload]
    /\ marks = 0 /\ muddled = {} /\ miscounted = {}

(* A request is made.                                                      *)
Mark(t, kind, ids, v) ==
    /\ ask[t] = NoAsk /\ marks < MaxMarks
    /\ ask' = [ask EXCEPT ![t] = [kind |-> kind, ids |-> ids, value |-> v, at |-> "sent"]]
    /\ marks' = marks + 1
    /\ UNCHANGED <<isRead, feed, badge, reload, muddled, miscounted>>

(* One message is toggled: the list shows the new flag at once.            *)
ToggleRead(t, m) ==
    /\ Mark(t, "one", {m}, ~display[t][m])
    /\ display' = [display EXCEPT ![t][m] = ~@]

(* "Mark page as read": the whole inbox, or the unread rows under a filter. *)
MarkPageRead(t) ==
    /\ \/ Mark(t, "all", Letters, TRUE)
       \/ \E shown \in SUBSET Letters :
             /\ UnreadIn(display[t]) \cap shown # {}
             /\ Mark(t, "page", UnreadIn(display[t]) \cap shown, TRUE)
    /\ UNCHANGED display

(* The route changes the rows, ...                                         *)
UpdateRead(t) ==
    /\ ask[t].at = "sent"
    /\ isRead' = Changed(isRead, ask[t].ids, ask[t].value)
    /\ ask' = [ask EXCEPT ![t].at = "updated"]
    /\ LET a == ask[t]
           crossing == \E u \in Viewers \ {t} : /\ ask[u].at = "updated"
                                                /\ ask[u].ids \cap a.ids # {}
           idle == a.kind # "all" /\ \E m \in a.ids : isRead[m] = a.value
       IN /\ muddled' = IF crossing THEN Viewers ELSE muddled
          /\ miscounted' = IF crossing \/ idle THEN Viewers ELSE miscounted
    /\ UNCHANGED <<feed, display, badge, reload, marks>>

(* ... publishes to the browsers whose stream is up (the loss of an event   *)
(* on its way is the same as a stream that was down), ...                  *)
Told(t, reached) ==
    /\ ask[t].at = "updated"
    /\ feed' = [u \in Viewers |->
                   IF u \in reached
                   THEN Append(feed[u], [ids |-> ask[t].ids, value |-> ask[t].value,
                                         all |-> ask[t].kind = "all"])
                   ELSE feed[u]]
    /\ muddled' = muddled \cup
          {u \in Viewers \ reached : \/ feed[u] # <<>>
                                  \/ \E m \in ask[t].ids : display[u][m] # ask[t].value}
    /\ miscounted' = miscounted \cup (Viewers \ reached)
    /\ UNCHANGED <<isRead, display, badge, reload, marks>>

(* ... and answers; ...                                                    *)
PublishRead(t) ==
    \E reached \in SUBSET Viewers :
        Told(t, reached) /\ ask' = [ask EXCEPT ![t].at = "done"]

(* ... or the publish throws: the rows are changed, nobody hears of it and *)
(* the request is answered with an error.                                  *)
PublishFails(t) == Told(t, {}) /\ ask' = [ask EXCEPT ![t].at = "failed"]

(* The request is refused or fails before it changes a row, or the answer  *)
(* is lost.                                                                *)
MarkFails(t) ==
    /\ ask[t].at \in {"sent", "done"}
    /\ ask' = [ask EXCEPT ![t].at = "failed"]
    /\ UNCHANGED <<isRead, feed, display, badge, reload, marks, muddled, miscounted>>

(* The list now shows these flags: with an older one among them, only an   *)
(* event that is still on its way can correct it.                          *)
Displays(t, flags) ==
    /\ display' = [display EXCEPT ![t] = flags]
    /\ muddled' = IF flags # isRead THEN muddled \cup {t} ELSE muddled

(* Mutant: a toggle that failed stays on screen.                           *)
MarkAnsweredBlindly(t) ==
    /\ ask[t].at \in {"done", "failed"} /\ ask' = [ask EXCEPT ![t] = NoAsk]
    /\ UNCHANGED <<isRead, feed, display, badge, reload, marks, muddled, miscounted>>

(* The answer arrives: all rows on screen become read, or a toggle that    *)
(* failed is taken back.                                                   *)
MarkAnswered(t) ==
    /\ ask[t].at \in {"done", "failed"} /\ ask' = [ask EXCEPT ![t] = NoAsk]
    /\ IF ask[t].kind = "one"
       THEN IF ask[t].at = "failed"
            THEN Displays(t, Changed(display[t], ask[t].ids, ~ask[t].value))
            ELSE UNCHANGED <<display, muddled>>
       ELSE IF ask[t].at = "done"
            THEN \E shown \in SUBSET Letters : Displays(t, Changed(display[t], shown, TRUE))
            ELSE UNCHANGED <<display, muddled>>
    /\ UNCHANGED <<isRead, feed, badge, reload, marks, miscounted>>

(* An event arrives: the list takes its flags, the badge counts its ids.   *)
HearRead(t) ==
    /\ feed[t] # <<>> /\ feed' = [feed EXCEPT ![t] = Tail(@)]
    /\ LET e == Head(feed[t])
           n == Cardinality(e.ids)
       IN /\ display' = [display EXCEPT ![t] = Changed(@, e.ids, e.value)]
          /\ badge' = [badge EXCEPT ![t] = IF e.all THEN 0
                                           ELSE IF ~e.value THEN @ + n
                                           ELSE IF @ < n THEN 0 ELSE @ - n]
    /\ UNCHANGED <<isRead, ask, reload, marks, muddled, miscounted>>

(* The list, or the sidebar, is loaded again: asked for and read, ...      *)
StartReload(t, of) ==
    /\ reload[t] = NoReload /\ marks < MaxMarks
    /\ reload' = [reload EXCEPT ![t] = [of |-> of, flags |-> UnreadIn(isRead)]]
    /\ marks' = marks + 1
    /\ UNCHANGED <<isRead, feed, display, badge, ask, muddled, miscounted>>

(* ... and shown when the answer arrives, whatever happened since.  With   *)
(* no change on its way the list, or the badge, is right again.            *)
ShowReload(t) ==
    /\ reload[t].of # "none" /\ reload' = [reload EXCEPT ![t] = NoReload]
    /\ LET overtaken == \/ feed[t] # <<>> \/ reload[t].flags # UnreadIn(isRead)
                        \/ \E u \in Viewers : ask[u].at = "updated"
       IN IF reload[t].of = "list"
          THEN /\ display' = [display EXCEPT ![t] = [m \in Letters |-> m \notin reload[t].flags]]
               /\ muddled' = IF ~overtaken THEN muddled \ {t}
                             ELSE IF reload[t].flags # UnreadIn(isRead) THEN muddled \cup {t}
                             ELSE muddled
               /\ UNCHANGED <<badge, miscounted>>
          ELSE /\ badge' = [badge EXCEPT ![t] = Cardinality(reload[t].flags)]
               /\ miscounted' = IF overtaken THEN miscounted \cup {t} ELSE miscounted \ {t}
               /\ UNCHANGED <<display, muddled>>
    /\ UNCHANGED <<isRead, feed, ask, marks>>

ReadNext ==
    \E t \in Viewers :
        \/ \E m \in Letters : ToggleRead(t, m)
        \/ MarkPageRead(t)
        \/ UpdateRead(t) \/ PublishRead(t) \/ PublishFails(t)
        \/ MarkFails(t) \/ MarkAnswered(t)
        \/ HearRead(t)
        \/ \E of \in {"list", "sidebar"} : StartReload(t, of)
        \/ ShowReload(t)
ReadSpec == ReadInit /\ [][ReadNext]_readVars

-----------------------------------------------------------------------------
(* Type invariant.                                                         *)
ReadTypeOK ==
    /\ isRead \in Flags /\ display \in [Viewers -> Flags] /\ badge \in [Viewers -> Nat]
    /\ feed \in [Viewers -> Seq([ids : SUBSET Letters, value : BOOLEAN, all : BOOLEAN])]
    /\ ask \in [Viewers -> [kind : {"none", "one", "page", "all"}, ids : SUBSET Letters,
                            value : BOOLEAN,
                            at : {"none", "sent", "updated", "done", "failed"}]]
    /\ reload \in [Viewers -> [of : {"none", "list", "sidebar"}, flags : SUBSET Letters]]
    /\ marks \in 0 .. MaxMarks
    /\ muddled \subseteq Viewers /\ miscounted \subseteq Viewers

AtRest(t) == /\ feed[t] = <<>> /\ reload[t] = NoReload
              /\ \A u \in Viewers : ask[u] = NoAsk

(* However requests, answers and events of several browsers interleave, a  *)
(* list ends with the flags of the database and the sidebar with the count *)
(* of what is unread.  Except, until the next reload that no change        *)
(* crosses: where the list was made to show an older flag (a reload, a     *)
(* rollback or "mark page" that a change overtook), where two routes       *)
(* updated the same message before either published, where a change was    *)
(* published to nobody or while the stream was down, and, for the sidebar, *)
(* where a request set a flag that was set already.                        *)
ReadStateSettles ==
    \A t \in Viewers : AtRest(t) =>
        /\ t \notin muddled => display[t] = isRead
        /\ t \notin miscounted => badge[t] = Cardinality(UnreadIn(isRead))
=============================================================================
