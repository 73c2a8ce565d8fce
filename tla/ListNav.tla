------------------------------- MODULE ListNav -------------------------------
(***************************************************************************)
(* Stepping through an inbox from the page of one message                  *)
(* (src/apps/web/pages/inbox/[inboxId]/message, composables/inboxList):    *)
(* the list leaves the ids of its page in shared state; the message page   *)
(* steps through them, loads the neighbouring page of the list at an edge, *)
(* and after a reload or a shared link rebuilds them from the URL's query. *)
(* Every message opened is a page of its own, whose requests outlive it.   *)
(***************************************************************************)
EXTENDS Integers, FiniteSets, SequencesExt

CONSTANTS Latest,   \* the messages are 1..Latest, the latest first in the list
          Hits,     \* those a filter of the list selects
          ListSize, \* messages per page of the list
          MaxTries, \* pages of a list that are tried for a message (10 in the code)
          MaxViews  \* bound: message pages opened

ASSUME ListNavAssumption ==
    Latest \in Nat \ {0} /\ Hits \subseteq 1..Latest /\ ListSize \in Nat \ {0}
    /\ MaxTries \in Nat \ {0} /\ MaxViews \in Nat

VARIABLES folder,   \* the messages of the inbox, at the server
          at,      \* the URL: message (0 is the list), filter and page of the list
          view,    \* number of the page on screen
          nav,     \* useListNav: ids and page (a page below 1 can be asked for)
          fetches, \* requests under way of go and restoreListNav
          missed,  \* history: the page on screen could not restore its list
          pulled,  \* history: an answer moved or relisted a page that had not asked
          mislaid  \* history: a step led elsewhere than to the neighbour

navVars == <<folder, at, view, nav, fetches, missed, pulled, mislaid>>

(* What the list holds, the latest message first.                          *)
Selected(filter) == {m \in folder : filter => m \in Hits}
Place(S, m) == Cardinality({n \in S : m <= n})
Listing(filter) ==
    LET S == Selected(filter) IN
    [i \in 1..Cardinality(S) |-> CHOOSE m \in S : Place(S, m) = i]
TotalPages(filter) ==
    LET n == (Len(Listing(filter)) + ListSize - 1) \div ListSize IN IF n = 0 THEN 1 ELSE n

(* The API's page p of the list; a page below 1 is page 1.                 *)
IdsOf(filter, p) ==
    LET from == (IF p < 1 THEN 0 ELSE p - 1) * ListSize
        l == Listing(filter)
    IN SubSeq(l, from + 1, IF from + ListSize < Len(l) THEN from + ListSize ELSE Len(l))

NavOf(filter, p) == [ids |-> IdsOf(filter, p), page |-> p, total |-> TotalPages(filter)]
NoNav == [ids |-> <<>>, page |-> 1, total |-> 1]
NavIndex(m) == IF Contains(nav.ids, m) THEN CHOOSE i \in DOMAIN nav.ids : nav.ids[i] = m ELSE 0

(* restoreListNav, of page v that shows message m.                         *)
Restore(v, m, filter, page) ==
    [op |-> "restore", view |-> v, id |-> m, filter |-> filter, page |-> page, step |-> 0,
     tried |-> {}, list |-> {}]

NavInit ==
    /\ folder = 1..(Latest - 1)
    /\ at = [id |-> 0, filter |-> FALSE, page |-> 1] /\ view = 0 /\ nav = NavOf(FALSE, 1)
    /\ fetches = {} /\ missed = FALSE /\ pulled = FALSE /\ mislaid = FALSE

(* The list shows a page of its rows and shares their ids.                 *)
ShowList(filter, page) ==
    /\ at.id = 0 /\ page \in 1..TotalPages(filter)
    /\ at' = [id |-> 0, filter |-> filter, page |-> page] /\ nav' = NavOf(filter, page)
    /\ UNCHANGED <<folder, view, fetches, missed, pulled, mislaid>>

(* A message is opened: its page asks for its list unless it is in it.     *)
OpenAt(m, filter, page, known, rest) ==
    /\ view < MaxViews /\ view' = view + 1 /\ missed' = FALSE
    /\ at' = [id |-> m, filter |-> filter, page |-> IF page > 1 THEN page ELSE 1]
    /\ nav' = known
    /\ fetches' = IF Contains(known.ids, m) THEN rest
                  ELSE rest \cup {Restore(view', m, filter, at'.page)}

OpenRow(m) ==
    /\ at.id = 0 /\ NavIndex(m) # 0 /\ OpenAt(m, at.filter, at.page, nav, fetches)
    /\ UNCHANGED <<folder, pulled, mislaid>>

(* A shared link, or a reload: nothing is in memory.                       *)
OpenLink(m, filter, page) ==
    /\ m \in folder /\ OpenAt(m, filter, page, NoNav, {}) /\ pulled' = FALSE
    /\ UNCHANGED <<folder, mislaid>>

BackToList ==
    /\ at.id # 0 /\ at' = [at EXCEPT !.id = 0] /\ nav' = NavOf(at.filter, at.page)
    /\ UNCHANGED <<folder, view, fetches, missed, pulled, mislaid>>

(* Mail arrives.                                                           *)
MailListed ==
    /\ Latest \notin folder /\ folder' = folder \cup {Latest}
    /\ UNCHANGED <<at, view, nav, fetches, missed, pulled, mislaid>>

Navigating == \E r \in fetches : r.op = "go" /\ r.view = view
MayStep == at.id # 0 /\ ~Navigating /\ NavIndex(at.id) # 0

(* go, within the loaded page of the list ...                              *)
StepInPage(step) ==
    LET i == NavIndex(at.id) + step IN
    /\ MayStep /\ i \in DOMAIN nav.ids
    /\ OpenAt(nav.ids[i], at.filter, nav.page, nav, fetches)
    /\ UNCHANGED <<folder, pulled, mislaid>>

(* ... and past its edge, where the neighbouring page is asked for.        *)
StepPastEdge(step) ==
    /\ MayStep /\ NavIndex(at.id) + step \notin DOMAIN nav.ids
    /\ fetches' = fetches \cup {[op |-> "go", view |-> view, id |-> at.id, filter |-> at.filter,
                                 page |-> nav.page + step, step |-> step, tried |-> {},
                                 list |-> IF /\ nav = NavOf(at.filter, nav.page)
                                             /\ 1 <= nav.page /\ 1 <= nav.page + step
                                          THEN folder ELSE {}]}
    /\ UNCHANGED <<folder, at, view, nav, missed, pulled, mislaid>>

(* The step led to the neighbour, in the list it started from.             *)
LedToNeighbour(r, m) ==
    LET l == Listing(r.filter) IN
    \A i, j \in DOMAIN l : l[i] = r.id /\ l[j] = m => j = i + r.step

(* Mutant: the first message of the page, whichever way the step went.     *)
LandingFirst(r, ids) == Head(ids)
Landing(r, ids) == IF r.step = 1 THEN Head(ids) ELSE Last(ids)

(* Its answer is shared and its first or last message opened, even when    *)
(* the user has left the page that asked.                                  *)
StepAnswered(r) ==
    LET known == NavOf(r.filter, r.page)
        m == Landing(r, known.ids)
    IN /\ r.op = "go" /\ known.ids # <<>>
       /\ OpenAt(m, r.filter, r.page, known, fetches \ {r})
       /\ pulled' = (pulled \/ r.view # view \/ at.id = 0)
       /\ mislaid' = (mislaid \/ (r.list = folder /\ ~LedToNeighbour(r, m)))
       /\ UNCHANGED folder
StepNowhere(r) ==
    /\ r.op = "go" /\ fetches' = fetches \ {r}
    /\ UNCHANGED <<folder, at, view, nav, missed, pulled, mislaid>>

(* restoreListNav, a page answered: it has the message, ...                *)
ListFound(r) ==
    /\ r.op = "restore" /\ Contains(IdsOf(r.filter, r.page), r.id)
    /\ nav' = NavOf(r.filter, r.page) /\ fetches' = fetches \ {r}
    /\ pulled' = (pulled \/ r.view # view \/ at.id = 0)
    /\ UNCHANGED <<folder, at, view, missed, mislaid>>

(* ... or up to MaxTries pages are tried in turn, and at last the whole    *)
(* inbox, which changes the URL; a request that fails gives up.            *)
Untried(filter, tried) ==
    {p \in 1..TotalPages(filter) : p \notin tried /\ Cardinality(tried) < MaxTries}
TryNext(r) ==
    LET tried == r.tried \cup {r.page}
        left == Untried(r.filter, tried)
        next == CHOOSE p \in left : \A q \in left : p <= q
    IN /\ r.op = "restore" /\ ~Contains(IdsOf(r.filter, r.page), r.id)
       /\ IF left # {}
          THEN fetches' = (fetches \ {r}) \cup {[r EXCEPT !.page = next, !.tried = tried]}
               /\ UNCHANGED <<at, missed, pulled>>
          ELSE IF r.filter /\ r.view = view /\ at.id # 0
          THEN /\ at' = [at EXCEPT !.filter = FALSE, !.page = 1]
               /\ fetches' = (fetches \ {r}) \cup {Restore(view, r.id, FALSE, 1)}
               /\ UNCHANGED <<missed, pulled>>
          ELSE /\ fetches' = fetches \ {r} /\ UNCHANGED at
               /\ missed' = (missed \/ r.view = view) /\ pulled' = (pulled \/ r.filter)
       /\ UNCHANGED <<folder, view, nav, mislaid>>
RestoreFails(r) ==
    /\ r.op = "restore" /\ fetches' = fetches \ {r}
    /\ missed' = (missed \/ r.view = view)
    /\ UNCHANGED <<folder, at, view, nav, pulled, mislaid>>

ListPages == 1..((Latest + ListSize - 1) \div ListSize)
NavNext ==
    \/ \E filter \in BOOLEAN, page \in ListPages :
          \/ ShowList(filter, page)
          \/ \E m \in 1..Latest : OpenLink(m, filter, page)
    \/ \E m \in 1..Latest : OpenRow(m)
    \/ BackToList \/ MailListed
    \/ \E step \in {-1, 1} : StepInPage(step) \/ StepPastEdge(step)
    \/ \E r \in fetches : StepAnswered(r) \/ StepNowhere(r) \/ ListFound(r) \/ TryNext(r)
                          \/ RestoreFails(r)
NavSpec == NavInit /\ [][NavNext]_navVars

-----------------------------------------------------------------------------
(* Type invariant.                                                         *)
NavTypeOK ==
    /\ folder \subseteq 1..Latest /\ view \in 0..MaxViews
    /\ at \in [id : 0..Latest, filter : BOOLEAN, page : ListPages]
    /\ nav \in [ids : Seq(1..Latest), page : Int, total : ListPages]
    /\ \A r \in fetches : r.op \in {"go", "restore"} /\ r.view \in 1..view /\ r.id \in 1..Latest
    /\ {missed, pulled, mislaid} \subseteq BOOLEAN

(* Stepping through a list: when no request is under way, the message on   *)
(* screen is in the list the page steps through, unless its list could not *)
(* be restored or the answer to a page left earlier was applied.           *)
ListIsKnown ==
    fetches = {} /\ at.id # 0 /\ ~missed /\ ~pulled => Contains(nav.ids, at.id)

(* And a step leads to the neighbour in a list that has not changed,       *)
(* unless the list was left at its front by the key for the previous       *)
(* message, which opens the last message of page 1.                        *)
NavFollowsList == ListIsKnown /\ ~mislaid
=============================================================================
