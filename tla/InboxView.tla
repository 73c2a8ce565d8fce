----------------------------- MODULE InboxView -----------------------------
(***************************************************************************)
(* The message list of an inbox in the browser: filters, paging, loading,  *)
(* selection and bulk actions (src/apps/web/composables/                   *)
(* useInboxMessages.ts).  The user, two timers, live events and answers    *)
(* take turns; a superseded request may still be answered.  Messages are   *)
(* numbered by age and shown newest first; the read flags are the subject  *)
(* of ReadState.                                                           *)
(***************************************************************************)
EXTENDS Integers, FiniteSets

CONSTANTS MaxMessages, \* bound: messages that ever arrive
          Found,       \* those the filter finds
          PageSize     \* INBOX_PAGE_SIZE

ASSUME InboxViewAssumption ==
    MaxMessages \in Nat /\ Found \subseteq 1 .. MaxMessages /\ PageSize \in Nat \ {0}

VARIABLES mails,       \* messages of the inbox, as the API has them
          newest,      \* how many have arrived
          filter,      \* searchQuery and the other filters
          page,        \* currentPage
          searchTimer, refreshTimer,
          rows, total, \* messages, totalMessages
          pending, fetchError,
          fetch,       \* the request whose answer counts (seq = fetchSeq)
          late,        \* a superseded one that is still on its way
          selected, allMatching,
          selectAll,   \* selectAllMatching awaits the ids of this filter
          bulk,        \* the bulk action in progress
          shownFor,    \* history: what the rows on screen were asked for
          overtaken    \* history: "select all" answered for an older filter

filterVars == <<filter, page, searchTimer>>
listVars == <<rows, total, pending, fetchError, fetch, late, shownFor>>
selVars == <<selected, allMatching, overtaken>>
workVars == <<selectAll, bulk>>
viewVars == <<mails, newest, refreshTimer, filterVars, listVars, selVars, workVars>>

AllMail == 1 .. MaxMessages
FilterNames == {"none", "filter"}
NoFetch == [filter |-> "none", page |-> 0, stepBack |-> FALSE]
NoBulk == [kind |-> "none", ids |-> {}]

Matching(f) == IF f = "none" THEN AllMail ELSE Found
Listed(f) == mails \cap Matching(f)
PageOf(f, p) ==
    {m \in Listed(f) : Cardinality({n \in Listed(f) : n > m}) \div PageSize = p - 1}
Pages(n) == IF n = 0 THEN 1 ELSE (n + PageSize - 1) \div PageSize

ViewInit ==
    /\ newest \in 0 .. MaxMessages /\ mails = 1 .. newest
    /\ filter \in FilterNames /\ page \in {1, 2}       \* from the URL
    /\ searchTimer = FALSE /\ refreshTimer = FALSE
    /\ rows = {} /\ total = 0
    /\ pending = TRUE /\ fetchError = FALSE
    /\ fetch = [filter |-> filter, page |-> page, stepBack |-> FALSE] /\ late = NoFetch
    /\ selected = {} /\ allMatching = FALSE
    /\ selectAll = "no" /\ bulk = NoBulk
    /\ shownFor = NoFetch /\ overtaken = FALSE

(***************************************************************************)
(* loadMessages: the newest request supersedes the one before it.          *)
(***************************************************************************)
Load(f, p, silent, stepBack) ==
    /\ fetch' = [filter |-> f, page |-> p, stepBack |-> stepBack]
    /\ late' = IF fetch # NoFetch THEN fetch ELSE late
    /\ pending' = (pending \/ ~silent)
    /\ fetchError' = (fetchError /\ silent)
    /\ UNCHANGED <<rows, total, shownFor>>

ClearSelection == selected' = {} /\ allMatching' = FALSE /\ overtaken' = FALSE

(* Mutant: stepping back from the first page too.                          *)
StepBackAlways(f, left) == f.stepBack /\ left = {}

(* Deleting the last rows of a page steps back a page, which loads it.     *)
StepBack(f, left) == f.stepBack /\ left = {} /\ page > 1

(* messages, totalMessages, and the selection that stays on screen.        *)
Show(f) ==
    LET found == PageOf(f.filter, f.page) IN
    /\ rows' = found
    /\ total' = Cardinality(Listed(f.filter))
    /\ shownFor' = [f EXCEPT !.stepBack = FALSE]
    /\ selected' = IF allMatching THEN selected ELSE selected \cap found
    /\ overtaken' = (overtaken /\ allMatching)
    /\ UNCHANGED allMatching

Loaded ==
    /\ fetch # NoFetch
    /\ Show(fetch)
    /\ fetchError' = FALSE
    /\ IF StepBack(fetch, PageOf(fetch.filter, fetch.page))
       THEN /\ page' = page - 1
            /\ fetch' = [filter |-> filter, page |-> page - 1, stepBack |-> FALSE]
            /\ pending' = TRUE
       ELSE page' = page /\ fetch' = NoFetch /\ pending' = FALSE
    /\ UNCHANGED <<mails, newest, refreshTimer, filter, searchTimer, late, workVars>>

LoadFailed ==
    /\ fetch # NoFetch
    /\ IF StepBack(fetch, rows)
       THEN /\ page' = page - 1
            /\ fetch' = [filter |-> filter, page |-> page - 1, stepBack |-> FALSE]
            /\ pending' = TRUE /\ fetchError' = FALSE
       ELSE page' = page /\ fetch' = NoFetch /\ pending' = FALSE /\ fetchError' = TRUE
    /\ UNCHANGED <<mails, newest, refreshTimer, filter, searchTimer, rows, total, late,
                   shownFor, selVars, workVars>>

(* Mutant: the answer of a superseded request is shown.                    *)
LateAnswerShown ==
    /\ late # NoFetch /\ late' = NoFetch /\ Show(late)
    /\ UNCHANGED <<mails, newest, refreshTimer, filterVars, pending, fetchError, fetch, workVars>>

(* The answer of a superseded request is dropped.                          *)
LateAnswer ==
    /\ late # NoFetch
    /\ IF StepBack(late, rows)
       THEN /\ page' = page - 1
            /\ Load(filter, page - 1, FALSE, FALSE)
       ELSE /\ late' = NoFetch
            /\ UNCHANGED <<page, rows, total, pending, fetchError, fetch, shownFor>>
    /\ UNCHANGED <<mails, newest, refreshTimer, filter, searchTimer, selVars, workVars>>

(***************************************************************************)
(* Filters and pages.                                                      *)
(***************************************************************************)
ApplyFilters(f) == ClearSelection /\ page' = 1 /\ Load(f, 1, FALSE, FALSE)

(* Typing in the search box, or clearing it, waits 300 ms.                 *)
TypeSearch(f) ==
    /\ f # filter
    /\ filter' = f
    /\ searchTimer' = TRUE
    /\ UNCHANGED <<mails, newest, refreshTimer, page, listVars, selVars, workVars>>

SearchTimerFires ==
    /\ searchTimer
    /\ searchTimer' = FALSE
    /\ ApplyFilters(filter)
    /\ UNCHANGED <<mails, newest, refreshTimer, filter, workVars>>

(* Status, dates and rules apply at once.                                  *)
PickFilter(f) ==
    /\ f # filter
    /\ filter' = f
    /\ ApplyFilters(f)
    /\ UNCHANGED <<mails, newest, refreshTimer, searchTimer, workVars>>

GoToPage(p) ==
    /\ p # page /\ p \in 1 .. Pages(total)
    /\ page' = p
    /\ Load(filter, p, FALSE, FALSE)
    /\ UNCHANGED <<mails, newest, refreshTimer, filter, searchTimer, selVars, workVars>>

(* Retry, offered while the last load failed.                              *)
RetryList ==
    /\ fetchError
    /\ Load(filter, page, FALSE, FALSE)
    /\ UNCHANGED <<mails, newest, refreshTimer, filterVars, selVars, workVars>>

(***************************************************************************)
(* Live events: new mail arms the refresh timer.  Another client deletes   *)
(* without an event.                                                       *)
(***************************************************************************)
MailArrives ==
    /\ newest < MaxMessages
    /\ newest' = newest + 1
    /\ mails' = mails \cup {newest + 1}
    /\ refreshTimer' = TRUE
    /\ UNCHANGED <<filterVars, listVars, selVars, workVars>>

RefreshTimerFires ==
    /\ refreshTimer
    /\ refreshTimer' = FALSE
    /\ Load(filter, page, TRUE, FALSE)
    /\ UNCHANGED <<mails, newest, filterVars, selVars, workVars>>

(***************************************************************************)
(* Selection.                                                              *)
(***************************************************************************)
(* One row, or with shift the rows up to the one checked before.           *)
ToggleSelected ==
    /\ \E m \in rows, range \in SUBSET rows :
         /\ m \in range
         /\ selected' = IF m \in selected THEN selected \ range ELSE selected \cup range
    /\ allMatching' = FALSE
    /\ UNCHANGED <<mails, newest, refreshTimer, filterVars, listVars, overtaken, workVars>>

SelectPage ==
    /\ rows # {}
    /\ selected' = rows /\ allMatching' = FALSE /\ overtaken' = FALSE
    /\ UNCHANGED <<mails, newest, refreshTimer, filterVars, listVars, workVars>>

Escape ==
    /\ selected # {}
    /\ ClearSelection
    /\ UNCHANGED <<mails, newest, refreshTimer, filterVars, listVars, workVars>>

SelectAllMatching ==
    /\ ~allMatching /\ rows # {} /\ Cardinality(selected) = Cardinality(rows)
    /\ total > Cardinality(rows) /\ selectAll = "no"
    /\ selectAll' = filter
    /\ UNCHANGED <<mails, newest, refreshTimer, filterVars, listVars, selVars, bulk>>

(* The ids arrive whatever the filters are by then.                        *)
AllSelected ==
    /\ selectAll # "no"
    /\ selectAll' = "no"
    /\ \/ /\ selected' = mails \cap Matching(selectAll)
          /\ allMatching' = TRUE
          /\ overtaken' = (selectAll # filter)
       \/ UNCHANGED selVars
    /\ UNCHANGED <<mails, newest, refreshTimer, filterVars, listVars, bulk>>

(***************************************************************************)
(* Bulk actions: the ids are taken when the user asks; a deletion waits    *)
(* for the dialog.                                                         *)
(***************************************************************************)
StartBulk ==
    /\ bulk = NoBulk /\ selected # {}
    /\ \E kind \in {"mark", "delete"} : bulk' = [kind |-> kind, ids |-> selected]
    /\ UNCHANGED <<mails, newest, refreshTimer, filterVars, listVars, selVars, selectAll>>

BulkDone ==
    /\ bulk # NoBulk
    /\ bulk' = NoBulk
    /\ \/ /\ mails' = IF bulk.kind = "delete" THEN mails \ bulk.ids ELSE mails
          /\ ClearSelection
          /\ Load(filter, page, bulk.kind = "mark", bulk.kind = "delete")
       \/ UNCHANGED <<mails, listVars, selVars>>     \* declined, or refused
    /\ UNCHANGED <<newest, refreshTimer, filterVars, selectAll>>

ViewNext ==
    \/ Loaded \/ LoadFailed \/ LateAnswer
    \/ \E f \in FilterNames : TypeSearch(f) \/ PickFilter(f)
    \/ SearchTimerFires \/ RefreshTimerFires \/ RetryList \/ MailArrives
    \/ \E p \in 1 .. Pages(MaxMessages) : GoToPage(p)
    \/ ToggleSelected \/ SelectPage \/ Escape \/ SelectAllMatching \/ AllSelected
    \/ StartBulk \/ BulkDone

ViewSpec == ViewInit /\ [][ViewNext]_viewVars

(***************************************************************************)
(* Properties.                                                             *)
(***************************************************************************)
(* The list and the selection are well typed.                              *)
ViewTypeOK ==
    /\ newest \in 0 .. MaxMessages /\ mails \subseteq 1 .. newest
    /\ filter \in FilterNames /\ page \in Nat \ {0} /\ total \in 0 .. MaxMessages
    /\ rows \subseteq AllMail /\ selected \subseteq AllMail /\ bulk.ids \subseteq AllMail
    /\ {searchTimer, refreshTimer, pending, fetchError, allMatching, overtaken} \subseteq BOOLEAN
    /\ selectAll \in FilterNames \cup {"no"}

Settled == ~pending /\ ~fetchError /\ ~searchTimer

(* What a bulk action is about to touch is what the user asked to see: a   *)
(* list that is not loading shows the page the filters ask for, whichever  *)
(* answers came late (useInboxMessages.ts:78), and every selected message  *)
(* matches them, unless "select all" was answered after they changed       *)
(* (useInboxMessages.ts:98,121,248).                                       *)
SelectionIsShown ==
    Settled => /\ shownFor.filter = filter /\ shownFor.page = page
               /\ overtaken \/ selected \subseteq Matching(filter)
=============================================================================
