------------------------------ MODULE WebPages ------------------------------
(***************************************************************************)
(* The pages of the web application that list rows, change them through    *)
(* the API and refresh the list afterwards (src/apps/web/pages and         *)
(* components/inbox).  The user, a search timer, the server and the        *)
(* answers take turns; what a page's handler reads after an await may have *)
(* changed.  The pages share their control, and each is given by the       *)
(* traits in which it differs.  The content of the table is told apart by  *)
(* a version per row, raised by every write of the row: a list answer is a *)
(* copy of all versions, of which the page shows those its query selects.  *)
(***************************************************************************)
EXTENDS Integers, FiniteSets, SequencesExt

CONSTANTS Rows,      \* rows of the table
          MaxWrites, \* bound: writes of the table
          MaxLoads,  \* bound: list requests under way
          NoRow

ASSUME WebPagesAssumption == NoRow \notin Rows /\ MaxWrites \in Nat /\ MaxLoads \in Nat \ {0}

VARIABLES open,      \* the page that is open
          table,     \* version of each row, at the server
          screen,    \* version of each row, as last shown
          listed,    \* a list has been shown
          asked, answered, \* the query, and the one the list was loaded for
          typing,    \* the debounce timer of the search box
          loads,     \* list requests under way, in the order they were made
          loading, loadError,
          dialog,    \* the open dialog or question
          write,     \* the write under way
          told,      \* history: per row, the last version the user was told of
          overtook,  \* history: a list answer arrived after a later one
          strayed    \* history: an answer changed another row of the list, or none

queryVars == <<asked, typing>>
webListVars == <<screen, listed, answered, loading, loadError, overtook>>
webVars == <<open, table, queryVars, webListVars, loads, dialog, write, told, strayed>>

Ops == {"create", "edit", "delete"}
NoDialog == [op |-> "none", row |-> NoRow]
NoWrite == [op |-> "none", row |-> NoRow, at |-> "none", version |-> 0, good |-> TRUE,
            left |-> FALSE]
NoAck == [row |-> NoRow, version |-> 0]
Queries == [search : {0, 1}, page : {1, 2}]

(* Traits of a page: ops it offers; those started from a question whose row *)
(* is an argument (confirmed); those that read the dialog again after the   *)
(* answer (rereads); whether create and edit share one form; whether it has *)
(* a search box and pages; the ops after which it patches its list instead  *)
(* of loading it; how a failed load is treated: "caught" shows an error     *)
(* with Retry, "blank" empties the list, "thrown" reports the write as      *)
(* failed; whether a question stays until its handler ends; and whether the *)
(* dialog is a component whose last event is lost once it is closed.        *)
Plain == [ops |-> Ops, confirmed |-> {}, rereads |-> {}, oneForm |-> FALSE, searches |-> FALSE,
          patches |-> {}, refetch |-> "caught", always |-> {}, hides |-> TRUE,
          staysOpen |-> FALSE, emits |-> FALSE]

(* The users page: edit and delete close the dialog they find.             *)
AdminUsers == [Plain EXCEPT !.rereads = {"edit", "delete"}, !.searches = TRUE]
AdminInboxes == [Plain EXCEPT !.ops = {"edit", "delete"}, !.confirmed = {"delete"},
                              !.searches = TRUE]
AdminTeams == [Plain EXCEPT !.rereads = {"delete"}, !.searches = TRUE]
Suppressions == [Plain EXCEPT !.ops = {"create", "delete"}, !.rereads = {"delete"},
                              !.searches = TRUE]
ApiKeys == [Plain EXCEPT !.confirmed = {"delete"}, !.oneForm = TRUE]
Templates == [Plain EXCEPT !.confirmed = {"delete"}, !.oneForm = TRUE, !.refetch = "thrown"]
(* The domains page: "edit" is the DNS check.                              *)
Domains == [Plain EXCEPT !.confirmed = {"edit"}, !.rereads = {"delete"}, !.patches = Ops]
(* The members of an inbox: "edit" is a role chosen in the list.           *)
InboxMembers == [Plain EXCEPT !.confirmed = {"edit", "delete"}, !.rereads = {"create"},
                              !.always = {"edit"}]
InboxWebhooks == [Plain EXCEPT !.ops = {"create", "delete"}, !.confirmed = {"delete"}]
(* The members of a team, its invitations, and its inboxes: "delete"       *)
(* revokes an invitation or unassigns an inbox.                            *)
TeamMembers == [Plain EXCEPT !.refetch = "thrown", !.hides = FALSE, !.staysOpen = TRUE]
TeamInvites == [TeamMembers EXCEPT !.ops = {"create", "delete"}]
TeamInboxes == [Plain EXCEPT !.ops = {"delete"}, !.confirmed = {"delete"},
                             !.refetch = "thrown", !.hides = FALSE]
(* The saved filters of an inbox, edited in one modal component.           *)
SavedFilters == [Plain EXCEPT !.oneForm = TRUE, !.patches = {"delete"}, !.refetch = "blank",
                              !.hides = FALSE, !.emits = TRUE]
(* My invitations: "edit" accepts and "delete" declines one.               *)
MyInvitations == [Plain EXCEPT !.ops = {"edit", "delete"}, !.confirmed = {"edit", "delete"},
                               !.refetch = "blank", !.hides = FALSE]

PageTraits == [users |-> AdminUsers, inboxes |-> AdminInboxes, teams |-> AdminTeams,
               suppressions |-> Suppressions, keys |-> ApiKeys, templates |-> Templates,
               domains |-> Domains, inboxMembers |-> InboxMembers,
               webhooks |-> InboxWebhooks, team |-> TeamMembers,
               teamInvites |-> TeamInvites, teamInboxes |-> TeamInboxes,
               filters |-> SavedFilters,
               invitations |-> MyInvitations]
Page == PageTraits[open]

WebInit ==
    /\ open \in DOMAIN PageTraits
    /\ table = [r \in Rows |-> 0] /\ screen = [r \in Rows |-> 0] /\ listed = FALSE
    /\ asked = [search |-> 0, page |-> 1] /\ answered = asked /\ typing = FALSE
    /\ loads = <<[for |-> asked, rows |-> NoRow, late |-> FALSE, ack |-> NoAck]>>
    /\ loading = TRUE /\ loadError = FALSE
    /\ dialog = NoDialog /\ write = NoWrite
    /\ told = [r \in Rows |-> 0] /\ overtook = FALSE /\ strayed = FALSE

(***************************************************************************)
(* The list.                                                               *)
(***************************************************************************)

(* The list is requested for query q; ack is the write whose handler waits *)
(* for it.                                                                 *)
FetchRows(q, ack) ==
    /\ Len(loads) < MaxLoads
    /\ loads' = Append(loads, [for |-> q, rows |-> NoRow, late |-> FALSE, ack |-> ack])
    /\ loading' = TRUE /\ loadError' = FALSE
    /\ UNCHANGED <<screen, listed, answered, overtook>>

(* The user types in the search box, ...                                   *)
DebouncedFetch(s) ==
    /\ Page.searches /\ s # asked.search
    /\ asked' = [asked EXCEPT !.search = s] /\ typing' = TRUE
    /\ UNCHANGED <<open, table, webListVars, loads, dialog, write, told, strayed>>

(* ... pauses, ...                                                         *)
SearchPause ==
    /\ typing /\ typing' = FALSE
    /\ asked' = [asked EXCEPT !.page = 1]
    /\ FetchRows(asked', NoAck)
    /\ UNCHANGED <<open, table, dialog, write, told, strayed>>

(* ... turns the page, or presses Retry.                                   *)
TurnPage(p) ==
    /\ Page.searches /\ ~loading /\ ~loadError /\ p # asked.page
    /\ asked' = [asked EXCEPT !.page = p]
    /\ FetchRows(asked', NoAck)
    /\ UNCHANGED <<open, table, typing, dialog, write, told, strayed>>
Retry ==
    /\ Page.refetch = "caught" /\ loadError
    /\ FetchRows(asked, NoAck)
    /\ UNCHANGED <<open, table, queryVars, dialog, write, told, strayed>>

(* The server answers a list request.                                      *)
ServeRows(i) ==
    /\ loads[i].rows = NoRow
    /\ loads' = [loads EXCEPT ![i].rows = table]
    /\ UNCHANGED <<open, table, queryVars, webListVars, dialog, write, told, strayed>>

(* Request i has been answered: what was asked before it is late.          *)
Settle(i) ==
    loads' = RemoveAt([k \in DOMAIN loads |-> [loads[k] EXCEPT !.late = @ \/ k < i]], i)

Tell(a) == told' = [r \in Rows |-> IF r = a.row /\ a.version > told[r] THEN a.version ELSE told[r]]

(* A question that stays goes away when its handler ends.                  *)
CloseLate(a) ==
    dialog' = IF Page.staysOpen /\ a.version > 0 /\ dialog.op \in {"edit", "delete"}
              THEN NoDialog ELSE dialog

(* A list answer arrives.                                                  *)
ShowRows(i) ==
    /\ loads[i].rows # NoRow /\ Settle(i)
    /\ screen' = loads[i].rows /\ answered' = loads[i].for /\ listed' = TRUE
    /\ overtook' = (overtook \/ loads[i].late)
    /\ loading' = FALSE
    /\ loadError' = IF Page.refetch = "blank" THEN FALSE ELSE loadError
    /\ Tell(loads[i].ack) /\ CloseLate(loads[i].ack)
    /\ UNCHANGED <<open, table, queryVars, write, strayed>>

(* A list request fails.                                                   *)
RowsFail(i) ==
    /\ Settle(i) /\ loading' = FALSE
    /\ loadError' = IF Page.refetch = "thrown" THEN loadError ELSE TRUE
    /\ CloseLate(loads[i].ack)
    /\ UNCHANGED <<open, table, queryVars, screen, listed, answered, overtook, write, told,
                   strayed>>

(***************************************************************************)
(* Writes.                                                                 *)
(***************************************************************************)

(* A dialog or question is opened, from a row of the list or for a new one. *)
OpenDialog(o, r) ==
    /\ dialog = NoDialog /\ o \in Page.ops
    /\ o # "create" => listed /\ ~loadError /\ (Page.hides => ~loading)
    /\ dialog' = [op |-> o, row |-> r]
    /\ UNCHANGED <<open, table, queryVars, webListVars, loads, write, told, strayed>>
CloseDialog ==
    /\ dialog # NoDialog /\ dialog' = NoDialog
    /\ write' = [write EXCEPT !.left = Page.emits /\ write # NoWrite]
    /\ UNCHANGED <<open, table, queryVars, webListVars, loads, told, strayed>>

(* It is confirmed: a question goes away, a form waits for the answer.     *)
Submit ==
    /\ dialog # NoDialog /\ write = NoWrite
    /\ write' = [NoWrite EXCEPT !.op = dialog.op, !.row = dialog.row, !.at = "sent"]
    /\ dialog' = IF dialog.op \in Page.confirmed THEN NoDialog ELSE dialog
    /\ UNCHANGED <<open, table, queryVars, webListVars, loads, told, strayed>>

Writes == FoldSet(LAMBDA r, n : n + table[r], 0, Rows)

(* The server carries it out (a DNS check finds the records or not) or     *)
(* refuses it; another user writes a row.                                  *)
ServeWrite(good) ==
    /\ write.at = "sent" /\ Writes < MaxWrites
    /\ good \/ (open = "domains" /\ write.op = "edit")
    /\ table' = [table EXCEPT ![write.row] = @ + 1]
    /\ write' = [write EXCEPT !.at = "done", !.version = table'[write.row], !.good = good]
    /\ UNCHANGED <<open, queryVars, webListVars, loads, dialog, told, strayed>>
RefuseWrite ==
    /\ write.at = "sent" /\ write' = [write EXCEPT !.at = "failed"]
    /\ UNCHANGED <<open, table, queryVars, webListVars, loads, dialog, told, strayed>>
LoseAnswer ==
    /\ write.at = "done" /\ write' = [write EXCEPT !.at = "failed"]
    /\ UNCHANGED <<open, table, queryVars, webListVars, loads, dialog, told, strayed>>
OthersWrite(r) ==
    /\ Writes < MaxWrites /\ table' = [table EXCEPT ![r] = @ + 1]
    /\ UNCHANGED <<open, queryVars, webListVars, loads, dialog, write, told, strayed>>

Ack == [row |-> write.row, version |-> write.version]

(* The dialog has been closed: what it would have told the page is lost.   *)
LoseEvent ==
    /\ write.at = "done" /\ write.left /\ write' = NoWrite
    /\ IF write.op = "delete" THEN Tell(Ack) /\ strayed' = TRUE ELSE UNCHANGED <<told, strayed>>
    /\ UNCHANGED <<open, table, queryVars, webListVars, loads, dialog>>

(* The handler goes on with what the user has open now.                    *)
TargetGone == write.op \in Page.rereads /\ dialog.op # write.op
Closing ==
    LET sameForm == Page.oneForm /\ {dialog.op, write.op} \subseteq {"create", "edit"}
        stays == write.op \in Page.confirmed \/ (Page.staysOpen /\ write.op # "create")
    IN IF (dialog.op = write.op \/ sameForm) /\ ~stays THEN NoDialog ELSE dialog

(* Mutant: the list is not loaded again while it is loading.               *)
ReloadUnlessLoading ==
    /\ write.at = "done" /\ write.op \notin Page.patches /\ ~TargetGone /\ ~write.left
    /\ write' = NoWrite /\ dialog' = Closing
    /\ IF loading THEN UNCHANGED <<loads, webListVars>> ELSE FetchRows(asked, NoAck)
    /\ Tell(Ack)
    /\ UNCHANGED <<open, table, queryVars, strayed>>

(* The answer says yes: the dialog is closed, the list loaded again.       *)
ReloadList ==
    /\ write.at = "done" /\ write.op \notin Page.patches /\ ~TargetGone /\ ~write.left
    /\ write' = NoWrite /\ dialog' = Closing
    /\ asked' = IF open = "suppressions" /\ write.op = "create"
                THEN [search |-> 0, page |-> 1] ELSE asked
    /\ IF Page.refetch = "thrown"
       THEN FetchRows(asked', Ack) /\ UNCHANGED told
       ELSE FetchRows(asked', NoAck) /\ Tell(Ack)
    /\ UNCHANGED <<open, table, typing, strayed>>

(* The answer is put into the list.  A DNS check that found nothing leaves *)
(* the list alone; a deletion drops the row of the dialog.                 *)
PatchRow ==
    /\ write.at = "done" /\ write.op \in Page.patches /\ ~TargetGone /\ ~write.left
    /\ write' = NoWrite /\ dialog' = Closing
    /\ LET row == IF write.op = "delete" THEN dialog.row ELSE write.row
       IN /\ strayed' = (strayed \/ row # write.row)
          /\ IF write.good /\ row = write.row
             THEN screen' = [screen EXCEPT ![row] = IF write.version > @ THEN write.version
                                                    ELSE @] /\ Tell(Ack)
             ELSE UNCHANGED <<screen, told>>
    /\ loads' = [k \in DOMAIN loads |-> [loads[k] EXCEPT !.late = TRUE]]
    /\ UNCHANGED <<open, table, queryVars, listed, answered, loading, loadError, overtook>>

(* The answer says no, or the handler trips over a dialog that is gone: an *)
(* error is shown.  A role chosen in a list is read again all the same.    *)
ReportFailure ==
    /\ write.at = "failed" \/ (write.at = "done" /\ TargetGone)
    /\ write' = NoWrite /\ CloseLate([version |-> IF write.op = "create" THEN 0 ELSE 1])
    /\ IF write.op \in Page.always
       THEN FetchRows(asked, NoAck)
       ELSE UNCHANGED <<webListVars, loads>>
    /\ UNCHANGED <<open, table, queryVars, told, strayed>>

WebNext ==
    \/ \E s \in {0, 1} : DebouncedFetch(s)
    \/ \E p \in {1, 2} : TurnPage(p)
    \/ SearchPause \/ Retry
    \/ \E i \in DOMAIN loads : ServeRows(i) \/ ShowRows(i) \/ RowsFail(i)
    \/ \E o \in Ops, r \in Rows : OpenDialog(o, r)
    \/ CloseDialog \/ Submit
    \/ \E good \in BOOLEAN : ServeWrite(good)
    \/ RefuseWrite \/ LoseAnswer
    \/ \E r \in Rows : OthersWrite(r)
    \/ ReloadList \/ PatchRow \/ LoseEvent \/ ReportFailure
WebSpec == WebInit /\ [][WebNext]_webVars

-----------------------------------------------------------------------------
(* Type invariant.                                                         *)
WebTypeOK ==
    /\ open \in DOMAIN PageTraits
    /\ table \in [Rows -> Nat] /\ screen \in [Rows -> Nat] /\ told \in [Rows -> Nat]
    /\ asked \in Queries /\ answered \in Queries
    /\ {typing, listed, loading, loadError, overtook, strayed} \subseteq BOOLEAN
    /\ loads \in Seq([for : Queries, rows : [Rows -> Nat] \cup {NoRow}, late : BOOLEAN,
                      ack : [row : Rows \cup {NoRow}, version : Nat]])
    /\ dialog \in [op : Ops \cup {"none"}, row : Rows \cup {NoRow}]
    /\ write \in [op : Ops \cup {"none"}, row : Rows \cup {NoRow}, version : Nat, good : BOOLEAN,
                  left : BOOLEAN, at : {"none", "sent", "done", "failed"}]

Quiet == loads = <<>> /\ write = NoWrite /\ ~typing /\ ~loadError

(* When a page is at rest, its list is the answer to the query the user    *)
(* sees and contains every change the user was told had succeeded, on each *)
(* of the pages, unless a list answer arrived out of order, a domain was   *)
(* deleted while the dialog had moved on to another, or a filter while its *)
(* dialog was closed.                                                      *)
ToldIsShown ==
    Quiet /\ ~overtook /\ ~strayed =>
        answered = asked /\ \A r \in Rows : told[r] <= screen[r]
=============================================================================
