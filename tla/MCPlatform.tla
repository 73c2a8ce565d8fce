----------------------------- MODULE MCPlatform -----------------------------
(***************************************************************************)
(* One instance of the parts of the platform that share no state with one  *)
(* another: a behaviour takes one part and leaves the others as they are   *)
(* at the start.                                                           *)
(***************************************************************************)
EXTENDS Accounts, TeamAccess, SenderDomains, EventStreams, WebSession, InboxView,
        WebPages, ReadState, SmtpLogin, MessagePage, ListNav, AnalyticsPages, TLC

CONSTANTS x1, x2, y1, y2, adam, eve, ann, bob, leo

VARIABLE part

Parts == {"accounts", "teams", "domains", "streams", "session", "view", "pages",
          "read", "login", "message", "nav", "analytics"}
Symmetry == Permutations({x1, x2})

(* Requests that touch the same tables are taken together.                 *)
TeamMenus == {
    {"create", "createBox", "addMember", "deleteTeam"}, {"addMember", "changeRole", "removeMember"},
    {"invite", "accept", "revoke", "decline"}, {"invite", "accept", "deleteTeam", "account"},
    {"read", "addGrant", "changeGrant"}, {"read", "removeGrant"}, {"read", "removeMember"},
    {"read", "deleteBox", "account"}, {"send", "moveBox", "look"}, {"send", "adminMove"},
    {"rename", "look"}, {"giveBox", "adminMove", "adminDelete"}}

ToCome(R) == {r \in R : edit[r] = NotStarted}

AccStart == AccInit /\ keys[adam] # None
TeamStart ==
    /\ TeamInit /\ teams[Team] = ann
    /\ IF menu \cap {"read", "send"} = {}
       THEN boxes[Box].team = Team /\ \A u \in People : grants[<<Box, u>>] = Nobody
       ELSE /\ "addGrant" \in menu => boxes[Box].team = Nobody /\ members[<<Team, bob>>] = Nobody
            /\ accounts[bob].verified \/ "addGrant" \in menu
TeamAtRest ==
    /\ teams[Team] = ann /\ boxes[Box].team = Team /\ "revoke" \in menu
    /\ \A u \in People : /\ accounts[u] = [role |-> "user", verified |-> TRUE]
                         /\ members[<<Team, u>>] = IF u = ann THEN "admin" ELSE Nobody
                         /\ grants[<<Box, u>>] = Nobody
DomStart ==
    /\ DomInit
    /\ \/ keyConfig = "second" /\ ToCome(Adds \cup Edits) = Adds \cup Edits
       \/ keyConfig = "off" /\ Cardinality(ToCome(Adds)) + Cardinality(ToCome(Edits)) = 2
DomAtRest == keyConfig = "off" /\ ToCome(Adds) = Adds
ViewStart == ViewInit /\ newest = 1 /\ page = 1 /\ filter = "none"

PlatformInit ==
    /\ part \in Parts
    /\ AccStart
    /\ TeamStart /\ (part # "teams" => TeamAtRest)
    /\ DomStart /\ (part # "domains" => DomAtRest)
    /\ StrInit /\ SessInit /\ ViewStart /\ ReadInit /\ LoginInit /\ NavInit
    /\ WebInit /\ (part # "pages" => open = "users")
    /\ MsgInit /\ (part # "message" => status = "bounced" /\ readAt)
    /\ AnaInit /\ (IF part = "analytics" THEN TRUE ELSE admin)
    /\ chosen = CHOOSE c \in Selections : TRUE

PlatformNext ==
    /\ UNCHANGED part
    /\ \/ /\ part = "accounts" /\ AccNext
          /\ UNCHANGED <<teamVars, domVars, strVars, sessVars, viewVars, webVars,
                         readVars, loginVars, msgVars, navVars, anaVars>>
       \/ /\ part = "teams" /\ TeamNext
          /\ UNCHANGED <<accVars, domVars, strVars, sessVars, viewVars, webVars,
                         readVars, loginVars, msgVars, navVars, anaVars>>
       \/ /\ part = "domains" /\ DomNext
          /\ UNCHANGED <<accVars, teamVars, strVars, sessVars, viewVars, webVars,
                         readVars, loginVars, msgVars, navVars, anaVars>>
       \/ /\ part = "streams" /\ StrNext
          /\ UNCHANGED <<accVars, teamVars, domVars, sessVars, viewVars, webVars,
                         readVars, loginVars, msgVars, navVars, anaVars>>
       \/ /\ part = "session" /\ SessNext
          /\ UNCHANGED <<accVars, teamVars, domVars, strVars, viewVars, webVars,
                         readVars, loginVars, msgVars, navVars, anaVars>>
       \/ /\ part = "view" /\ ViewNext
          /\ UNCHANGED <<accVars, teamVars, domVars, strVars, sessVars, webVars,
                         readVars, loginVars, msgVars, navVars, anaVars>>
       \/ /\ part = "pages" /\ WebNext
          /\ UNCHANGED <<accVars, teamVars, domVars, strVars, sessVars, viewVars,
                         readVars, loginVars, msgVars, navVars, anaVars>>
       \/ /\ part = "read" /\ ReadNext
          /\ UNCHANGED <<accVars, teamVars, domVars, strVars, sessVars, viewVars,
                         webVars, loginVars, msgVars, navVars, anaVars>>
       \/ /\ part = "login" /\ LoginNext
          /\ UNCHANGED <<accVars, teamVars, domVars, strVars, sessVars, viewVars,
                         webVars, readVars, msgVars, navVars, anaVars>>
       \/ /\ part = "message" /\ MsgNext
          /\ UNCHANGED <<accVars, teamVars, domVars, strVars, sessVars, viewVars,
                         webVars, readVars, loginVars, navVars, anaVars>>
       \/ /\ part = "nav" /\ NavNext
          /\ UNCHANGED <<accVars, teamVars, domVars, strVars, sessVars, viewVars,
                         webVars, readVars, loginVars, msgVars, anaVars>>
       \/ /\ part = "analytics" /\ AnaNext
          /\ UNCHANGED <<accVars, teamVars, domVars, strVars, sessVars, viewVars,
                         webVars, readVars, loginVars, msgVars, navVars>>

PlatformSpec ==
    PlatformInit /\ [][PlatformNext]_<<part, accVars, teamVars, domVars, strVars,
                                       sessVars, viewVars, webVars, readVars, loginVars,
                                       msgVars, navVars, anaVars>>

(* The other parts stay as they start, and their start is settled by the    *)
(* part in motion: states are told apart by that part alone.               *)
Moving ==
    CASE part = "accounts" -> accVars [] part = "teams" -> teamVars
      [] part = "domains" -> domVars  [] part = "streams" -> strVars
      [] part = "session" -> sessVars [] part = "view" -> viewVars
      [] part = "pages" -> webVars    [] part = "read" -> readVars
      [] part = "login" -> loginVars  [] part = "message" -> msgVars
      [] part = "nav" -> navVars      [] OTHER -> anaVars
MovingView == <<part, Moving>>

(* Bounds: tabs hear of a change before they make the next one; a list has *)
(* one thing going on at a time besides its requests; a page whose list    *)
(* was overtaken, or whose dialog had moved on, goes no further.           *)
Calm ==
    /\ ~crossed
    /\ bulk = NoBulk \/ selectAll = "no"
    /\ ~(searchTimer /\ refreshTimer)
    /\ late # NoFetch => ~searchTimer /\ ~refreshTimer
    /\ ~overtook /\ ~strayed
    /\ typing => loads = <<>> /\ write = NoWrite
    /\ asked.page = 2 => dialog = NoDialog /\ write = NoWrite
    /\ ~straggled /\ ~cutShort
    /\ resends > 0 => marking = "none" /\ (Len(asks) = 2 => asks[1].of # 0)
    /\ resends = 2 => polls[1] = 1 /\ polls[2] <= 1 /\ asks # <<>> /\ entry # "none"
    /\ Len(asks) = 2 /\ asks[2].of = 0 => timer = 1 /\ asking = NotAsking
    /\ marking = "none" \/ asking = NotAsking
    /\ ~pulled /\ ~missed

(* The part in motion is well typed; the others stay as they start.        *)
PlatformTypeOK ==
    CASE part = "accounts" -> AccTypeOK [] part = "teams" -> TeamTypeOK
      [] part = "domains" -> DomTypeOK  [] part = "streams" -> StrTypeOK
      [] part = "session" -> SessTypeOK [] part = "view" -> ViewTypeOK
      [] part = "pages" -> WebTypeOK    [] part = "read" -> ReadTypeOK
      [] part = "login" -> LoginTypeOK  [] part = "message" -> MsgTypeOK
      [] part = "nav" -> NavTypeOK      [] OTHER -> AnaTypeOK

(* What a browser shows is what it was last told: the list of an inbox is  *)
(* the answer to the filter on screen and its selection is visible, every  *)
(* other page's list holds the changes reported as done, read flags settle *)
(* on those of the database, a message page on how its resend ended and on *)
(* a place in its list, and analytics are labelled with what they show.    *)
ScreensAreTrue ==
    /\ SelectionIsShown /\ ToldIsShown /\ ReadStateSettles
    /\ PageSettles /\ NavFollowsList /\ LabelsAreTrue
=============================================================================
