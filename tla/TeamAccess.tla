---------------------------- MODULE TeamAccess ----------------------------
(***************************************************************************)
(* Who may do what with teams and inboxes: routes/teams.ts,                *)
(* routes/inbox-members.ts, the inbox half of routes/admin.ts and of       *)
(* routes/inboxes.ts, and the checks of middleware/access.ts (all under    *)
(* src/apps/api/src).                                                      *)
(*                                                                         *)
(* A check is several statements, and the write it guards is one more:     *)
(* every statement is a step, and rows change in between.  A row of        *)
(* team_members or inbox_members is named by its unique pair, an address   *)
(* by the person it belongs to, a row of another table by the request that *)
(* inserts it.  The activity log is left out.                              *)
(***************************************************************************)
EXTENDS Integers, FiniteSets

CONSTANTS People,    \* accounts, and the addresses they belong to
          Calls,     \* HTTP requests, each made once
          Team, Box, \* a team and an inbox that exist at the start
          Menus,     \* bound: the requests of a behaviour are of one of these sets
          Nobody     \* NULL, no row

ASSUME TeamAccessAssumption ==
    /\ Nobody \notin People \cup Calls \cup {Team, Box, "admin", "member", "owner", "editor",
                                            "viewer"}
    /\ Nobody \notin [role : {"admin", "user"}, verified : BOOLEAN]
    /\ Team \notin Calls /\ Box \notin Calls

VARIABLES accounts,  \* table users: global role and whether the address is verified
          teams,     \* table teams: the owner
          members,   \* table team_members
          invites,   \* table team_invitations, named by the call that sent one
          boxes,     \* table inboxes: owner and team
          grants,    \* table inbox_members
          menu,      \* the operations in use
          call,      \* what each request is doing
          best,      \* the highest role its user had on its inbox so far
          writes     \* how often the tables changed since it began (0, 1, 2 = more)

Teams == Calls \cup {Team}
Boxes == Calls \cup {Box}
teamTables == <<accounts, teams, members, invites, boxes, grants>>
teamVars == <<teamTables, menu, call, best, writes>>

TeamRoles == {"admin", "member"}
BoxRoles == {"viewer", "editor"}
Weight(role) == CASE role = "owner" -> 3 [] role = "editor" -> 2
                  [] role = "viewer" -> 1 [] OTHER -> 0

NoCall == [pc |-> "idle", op |-> "none", by |-> Nobody, team |-> Nobody, box |-> Nobody,
           who |-> Nobody, role |-> Nobody, seen |-> Nobody, granted |-> 0, ok |-> FALSE]

(* What a request needs before its own statements.                         *)
ManageOps == {"rename", "addMember", "changeRole", "removeMember", "invite", "revoke"}
ViewOps == {"look", "createBox", "moveBox"}
AdminOps == {"giveBox", "adminMove", "adminDelete"}
BoxOps == {"read", "send", "addGrant", "changeGrant", "removeGrant", "moveBox", "deleteBox"}
MinRole(op) == IF op = "read" THEN "viewer" ELSE IF op = "send" THEN "editor" ELSE "owner"
FirstStep(op) ==
    CASE op \in {"addMember", "addGrant", "giveBox"} -> "readTarget"
      [] op \in {"changeRole", "removeMember"} -> "readOwner"
      [] op = "invite" -> "readInvitee" [] op = "adminMove" -> "readTeam"
      [] op \in {"read", "send", "look"} -> "answer"
      [] OTHER -> op

IsAdmin(u) == u \in People /\ accounts[u] # Nobody /\ accounts[u].role = "admin"
Member(t, u) == IF t \in Teams THEN members[<<t, u>>] ELSE Nobody

(* The role a user has on an inbox, read in one instant: what the checks   *)
(* of middleware/access.ts are meant to find.                              *)
Effective(u, b) ==
    IF IsAdmin(u) THEN "owner"
    ELSE IF b \notin Boxes THEN Nobody
    ELSE IF boxes[b] = Nobody THEN Nobody
    ELSE IF boxes[b].owner = u THEN "owner"
    ELSE IF grants[<<b, u>>] # Nobody THEN grants[<<b, u>>]
    ELSE CASE Member(boxes[b].team, u) = "admin" -> "editor"
           [] Member(boxes[b].team, u) = "member" -> "viewer"
           [] OTHER -> Nobody

TeamInit ==
    \E a \in People, shared \in BOOLEAN :
      /\ accounts \in {f \in [People -> [role : {"admin", "user"}, verified : BOOLEAN]] :
                         f[a].verified /\ Cardinality({u \in People : f[u].role = "admin"}) < 2
                         /\ f[a].role = "user"}
      /\ teams = [x \in Teams |-> IF x = Team THEN a ELSE Nobody]
      /\ members \in {m \in [Teams \X People -> TeamRoles \cup {Nobody}] :
                        /\ m[<<Team, a>>] = "admin"
                        /\ \A x \in Teams, u \in People : m[<<x, u>>] # Nobody =>
                             x = Team /\ (u = a \/ accounts[u].verified)}
      /\ invites = [c \in Calls |-> Nobody]
      /\ boxes = [x \in Boxes |-> IF x = Box
                                  THEN [owner |-> a, team |-> IF shared THEN Team ELSE Nobody]
                                  ELSE Nobody]
      /\ grants \in {g \in [Boxes \X People -> BoxRoles \cup {Nobody}] :
                       \A x \in Boxes, u \in People :
                         g[<<x, u>>] # Nobody => x = Box /\ u # a /\ accounts[u].verified}
      /\ menu \in Menus
      /\ call = [c \in Calls |-> NoCall]
      /\ best = [c \in Calls |-> 0]
      /\ writes = [c \in Calls |-> 0]

Advance(c, pc) == call' = [call EXCEPT ![c].pc = pc]
Answer(c, ok) == call' = [call EXCEPT ![c] = [NoCall EXCEPT !.pc = "done", !.ok = ok]]
Arrive(c, op, pc, u, t, b, w, role) ==
    /\ op \in menu /\ call[c] = NoCall /\ accounts[u] # Nobody
    /\ call' = [call EXCEPT ![c] = [NoCall EXCEPT !.pc = pc, !.op = op, !.by = u, !.team = t,
                                       !.box = b, !.who = w, !.role = role]]

(* A statement fails or the process ends: the handler goes no further.     *)
GiveUp(c) == call[c].pc \notin {"idle", "done"} /\ Answer(c, FALSE) /\ UNCHANGED teamTables

(***************************************************************************)
(* Checks: isGlobalAdmin, then the team's owner, then membership.          *)
(***************************************************************************)
Pass(c) == Advance(c, FirstStep(call[c].op))

ReadAdmin(c) ==
    /\ call[c].pc = "teamAdmin"
    /\ IF IsAdmin(call[c].by) THEN Pass(c)
       ELSE IF call[c].op \in AdminOps THEN Answer(c, FALSE)   \* requireAdmin
       ELSE Advance(c, "teamOwner")
    /\ UNCHANGED teamTables

ReadTeamOwner(c) ==
    /\ call[c].pc = "teamOwner"
    /\ IF teams[call[c].team] = Nobody THEN Answer(c, FALSE)
       ELSE IF teams[call[c].team] = call[c].by THEN Pass(c)
       ELSE Advance(c, "teamMember")
    /\ UNCHANGED teamTables

ReadTeamMember(c) ==
    LET role == Member(call[c].team, call[c].by) IN
    /\ call[c].pc = "teamMember"
    /\ IF role = "admin" \/ (call[c].op \in ViewOps /\ role # Nobody) THEN Pass(c)
       ELSE Answer(c, FALSE)
    /\ UNCHANGED teamTables

(* resolveInboxRole, statement by statement, and hasMinRole.               *)
Resolved(c, role) ==
    IF Weight(role) < Weight(MinRole(call[c].op)) THEN Answer(c, FALSE)
    ELSE call' = [call EXCEPT ![c] =
             [@ EXCEPT !.granted = Weight(role),
                       !.pc = IF call[c].op = "moveBox" /\ call[c].team # Nobody
                              THEN "teamAdmin" ELSE FirstStep(call[c].op)]]

ReadGlobalRole(c) ==
    /\ call[c].pc = "globalRole"
    /\ IF IsAdmin(call[c].by) THEN Resolved(c, "owner") ELSE Advance(c, "inbox")
    /\ UNCHANGED teamTables

ReadInbox(c) ==
    LET b == boxes[call[c].box] IN
    /\ call[c].pc = "inbox"
    /\ IF b = Nobody THEN Answer(c, FALSE)
       ELSE IF b.owner = call[c].by THEN Resolved(c, "owner")
       ELSE call' = [call EXCEPT ![c] = [@ EXCEPT !.pc = "grant", !.seen = b.team]]
    /\ UNCHANGED teamTables

(* Mutant: the role in the team is looked up before the user's own grant.  *)
ReadGrantTeamFirst(c) ==
    LET role == grants[<<call[c].box, call[c].by>>] IN
    /\ call[c].pc = "grant"
    /\ IF call[c].seen # Nobody THEN Advance(c, "boxTeam")
       ELSE IF role # Nobody THEN Resolved(c, role)
       ELSE Answer(c, FALSE)
    /\ UNCHANGED teamTables

ReadGrant(c) ==
    LET role == grants[<<call[c].box, call[c].by>>] IN
    /\ call[c].pc = "grant"
    /\ IF role # Nobody THEN Resolved(c, role)
       ELSE IF call[c].seen # Nobody THEN Advance(c, "boxTeam")
       ELSE Answer(c, FALSE)
    /\ UNCHANGED teamTables

ReadBoxTeam(c) ==
    LET role == Member(call[c].seen, call[c].by) IN
    /\ call[c].pc = "boxTeam"
    /\ Resolved(c, IF role = "admin" THEN "editor" ELSE IF role = "member" THEN "viewer"
                   ELSE Nobody)
    /\ UNCHANGED teamTables

Check(c) == \/ ReadAdmin(c) \/ ReadTeamOwner(c) \/ ReadTeamMember(c)
            \/ ReadGlobalRole(c) \/ ReadInbox(c) \/ ReadGrant(c) \/ ReadBoxTeam(c)

(***************************************************************************)
(* Reads of the handlers themselves.                                       *)
(***************************************************************************)
(* The person to be added must exist and have proved the address; an inbox *)
(* member must not own the inbox.                                          *)
ReadTarget(c) ==
    LET u == accounts[call[c].who]  op == call[c].op IN
    /\ call[c].pc = "readTarget"
    /\ IF u = Nobody THEN Answer(c, FALSE)
       ELSE IF op = "giveBox" THEN Advance(c, op)
       ELSE IF ~u.verified THEN Answer(c, FALSE)
       ELSE Advance(c, IF op = "addGrant" THEN "readBoxOwner" ELSE op)
    /\ UNCHANGED teamTables

ReadBoxOwner(c) ==
    LET b == boxes[call[c].box] IN
    /\ call[c].pc = "readBoxOwner"
    /\ IF b # Nobody /\ b.owner = call[c].who THEN Answer(c, FALSE) ELSE Advance(c, "addGrant")
    /\ UNCHANGED teamTables

ReadTeam(c) ==
    /\ call[c].pc = "readTeam"
    /\ IF call[c].team # Nobody /\ teams[call[c].team] = Nobody THEN Answer(c, FALSE)
       ELSE Advance(c, "adminMove")
    /\ UNCHANGED teamTables

(* Mutant: only a removal looks whether the member is the owner.           *)
ReadOwnerOnRemoval(c) ==
    /\ call[c].pc = "readOwner"
    /\ IF call[c].op = "removeMember" /\ teams[call[c].team] = call[c].who
       THEN Answer(c, FALSE) ELSE Advance(c, call[c].op)
    /\ UNCHANGED teamTables

(* isTeamOwner: the owner's membership is not changed or removed.          *)
ReadOwner(c) ==
    /\ call[c].pc = "readOwner"
    /\ IF teams[call[c].team] = call[c].who THEN Answer(c, FALSE) ELSE Advance(c, call[c].op)
    /\ UNCHANGED teamTables

ReadInvitee(c) ==
    /\ call[c].pc = "readInvitee"
    /\ IF accounts[call[c].who] # Nobody /\ Member(call[c].team, call[c].who) # Nobody
       THEN Answer(c, FALSE) ELSE Advance(c, "readPending")
    /\ UNCHANGED teamTables

(* An invitation that has expired does not count as pending.               *)
ReadPending(c) ==
    /\ call[c].pc = "readPending"
    /\ \/ /\ \E i \in Calls : /\ invites[i] # Nobody /\ invites[i].team = call[c].team
                              /\ invites[i].who = call[c].who
          /\ Answer(c, FALSE)
       \/ Advance(c, "invite")
    /\ UNCHANGED teamTables

(* Accepting: the user's own verified address, then the invitation to it,  *)
(* then whether the seat is taken.                                         *)
ReadSelf(c) ==
    LET u == accounts[call[c].by] IN
    /\ call[c].pc = "readSelf"
    /\ IF u = Nobody \/ (call[c].op = "accept" /\ ~u.verified) THEN Answer(c, FALSE)
       ELSE Advance(c, IF call[c].op = "accept" THEN "readInvite" ELSE "decline")
    /\ UNCHANGED teamTables

ReadInvite(c) ==
    LET i == invites[call[c].seen] IN
    /\ call[c].pc = "readInvite"
    /\ \/ /\ i # Nobody /\ i.who = call[c].by
          /\ call' = [call EXCEPT ![c] = [@ EXCEPT !.pc = "readSeat", !.team = i.team,
                                                  !.role = i.role]]
       \/ Answer(c, FALSE)
    /\ UNCHANGED teamTables

ReadSeat(c) ==
    /\ call[c].pc = "readSeat"
    /\ Advance(c, IF Member(call[c].team, call[c].by) # Nobody THEN "dropInvite" ELSE "accept")
    /\ UNCHANGED teamTables

AnswerRead(c) == call[c].pc = "answer" /\ Answer(c, TRUE) /\ UNCHANGED teamTables

(* Deleting a team: its owner, or whoever isGlobalAdmin finds; a team that *)
(* is not there passes, and the delete finds nothing.                      *)
ReadTeamToDelete(c) ==
    LET owner == teams[call[c].team] IN
    /\ call[c].pc = "readTeamToDelete"
    /\ Advance(c, IF owner \in {Nobody, call[c].by} THEN "deleteTeam" ELSE "deleteAsAdmin")
    /\ UNCHANGED teamTables

ReadDeleter(c) ==
    /\ call[c].pc = "deleteAsAdmin"
    /\ IF IsAdmin(call[c].by) THEN Advance(c, "deleteTeam") ELSE Answer(c, FALSE)
    /\ UNCHANGED teamTables

Read(c) == \/ ReadTarget(c) \/ ReadBoxOwner(c) \/ ReadTeam(c) \/ ReadOwner(c) \/ ReadInvitee(c)
           \/ ReadPending(c) \/ ReadSelf(c) \/ ReadInvite(c) \/ ReadSeat(c) \/ AnswerRead(c)
           \/ ReadTeamToDelete(c) \/ ReadDeleter(c)

(***************************************************************************)
(* Writes.  Foreign keys and unique pairs are the database's: an insert    *)
(* that breaks one changes nothing and the request fails.                  *)
(***************************************************************************)
InsertTeam(c) ==
    /\ call[c].pc = "insertTeam"
    /\ IF accounts[call[c].by] # Nobody
       THEN teams' = [teams EXCEPT ![c] = call[c].by] /\ Advance(c, "insertOwner")
       ELSE Answer(c, FALSE) /\ UNCHANGED teams
    /\ UNCHANGED <<accounts, members, invites, boxes, grants>>

CanSeat(t, u) == teams[t] # Nobody /\ accounts[u] # Nobody /\ members[<<t, u>>] = Nobody

(* A new row of team_members, or none.                                     *)
Seat(c, t, u, role) ==
    /\ members' = IF CanSeat(t, u) THEN [members EXCEPT ![<<t, u>>] = role] ELSE members
    /\ UNCHANGED <<accounts, teams, invites, boxes, grants>>

InsertOwner(c) ==
    /\ call[c].pc = "insertOwner"
    /\ Seat(c, c, call[c].by, "admin") /\ Answer(c, CanSeat(c, call[c].by))

AddMember(c) ==
    LET t == call[c].team  u == call[c].who IN
    /\ call[c].pc = "addMember"
    /\ Seat(c, t, u, call[c].role) /\ Answer(c, CanSeat(t, u))

Accept(c) ==
    LET t == call[c].team  u == call[c].by IN
    /\ call[c].pc = "accept"
    /\ Seat(c, t, u, call[c].role)
    /\ IF CanSeat(t, u) THEN Advance(c, "dropAccepted") ELSE Answer(c, FALSE)

ChangeMember(c) ==
    LET t == call[c].team  u == call[c].who
        role == IF call[c].op = "changeRole" THEN call[c].role ELSE Nobody IN
    /\ call[c].pc \in {"changeRole", "removeMember"}
    /\ members' = IF members[<<t, u>>] # Nobody THEN [members EXCEPT ![<<t, u>>] = role]
                  ELSE members
    /\ Answer(c, members[<<t, u>>] # Nobody)
    /\ UNCHANGED <<accounts, teams, invites, boxes, grants>>

Rename(c) ==
    call[c].pc = "rename" /\ Answer(c, teams[call[c].team] # Nobody) /\ UNCHANGED teamTables

Invite(c) ==
    LET fits == teams[call[c].team] # Nobody /\ accounts[call[c].by] # Nobody IN
    /\ call[c].pc = "invite"
    /\ invites' = IF fits THEN [invites EXCEPT ![c] = [team |-> call[c].team, who |-> call[c].who,
                                                      role |-> call[c].role, from |-> call[c].by]]
                  ELSE invites
    /\ Answer(c, fits)
    /\ UNCHANGED <<accounts, teams, members, boxes, grants>>

(* Revoking names the team, declining the address; after an acceptance the *)
(* invitation goes by its id alone.                                        *)
Revokes(c, i) == call[c].pc = "revoke" => i.team = call[c].team
Declines(c, i) == call[c].pc = "decline" => i.who = call[c].by
DropInvite(c) ==
    LET i == invites[call[c].seen]
        mine == i # Nobody /\ Revokes(c, i) /\ Declines(c, i)
    IN  /\ call[c].pc \in {"revoke", "decline", "dropInvite", "dropAccepted"}
        /\ invites' = IF mine THEN [invites EXCEPT ![call[c].seen] = Nobody] ELSE invites
        /\ Answer(c, IF call[c].op = "accept" THEN call[c].pc = "dropAccepted" ELSE mine)
        /\ UNCHANGED <<accounts, teams, members, boxes, grants>>

(* A team takes its members and invitations along, and its inboxes are     *)
(* detached.                                                               *)
DeleteTeam(c) ==
    LET t == call[c].team IN
    /\ call[c].pc = "deleteTeam"
    /\ teams' = [teams EXCEPT ![t] = Nobody]
    /\ invites' = [i \in Calls |-> IF invites[i] # Nobody /\ invites[i].team = t
                                   THEN Nobody ELSE invites[i]]
    /\ members' = [x \in Teams \X People |-> IF x[1] = t THEN Nobody ELSE members[x]]
    /\ boxes' = [b \in Boxes |-> IF boxes[b] # Nobody /\ boxes[b].team = t
                                 THEN [boxes[b] EXCEPT !.team = Nobody] ELSE boxes[b]]
    /\ Answer(c, teams[t] # Nobody)
    /\ UNCHANGED <<accounts, grants>>

(* inbox_members: adding is an upsert of the role.                         *)
WriteGrant(c) ==
    LET b == call[c].box  u == call[c].who
        fits == IF call[c].pc = "addGrant" THEN boxes[b] # Nobody /\ accounts[u] # Nobody
                ELSE grants[<<b, u>>] # Nobody
        role == IF call[c].pc = "removeGrant" THEN Nobody ELSE call[c].role
    IN  /\ call[c].pc \in {"addGrant", "changeGrant", "removeGrant"}
        /\ grants' = IF fits THEN [grants EXCEPT ![<<b, u>>] = role] ELSE grants
        /\ Answer(c, fits)
        /\ UNCHANGED <<accounts, teams, members, invites, boxes>>

CreateBox(c) ==
    LET fits == /\ accounts[call[c].by] # Nobody
                /\ call[c].team # Nobody => teams[call[c].team] # Nobody IN
    /\ call[c].pc = "createBox"
    /\ boxes' = IF fits THEN [boxes EXCEPT ![c] = [owner |-> call[c].by, team |-> call[c].team]]
                ELSE boxes
    /\ Answer(c, fits)
    /\ UNCHANGED <<accounts, teams, members, invites, grants>>

MoveBox(c) ==
    LET b == call[c].box  t == call[c].team
        fits == boxes[b] # Nobody /\ (t # Nobody => teams[t] # Nobody) IN
    /\ call[c].pc \in {"moveBox", "adminMove"}
    /\ boxes' = IF fits THEN [boxes EXCEPT ![b].team = t] ELSE boxes
    /\ Answer(c, fits)
    /\ UNCHANGED <<accounts, teams, members, invites, grants>>

GiveBox(c) ==
    LET b == call[c].box  fits == boxes[b] # Nobody /\ accounts[call[c].who] # Nobody IN
    /\ call[c].pc = "giveBox"
    /\ boxes' = IF fits THEN [boxes EXCEPT ![b].owner = call[c].who] ELSE boxes
    /\ Answer(c, fits)
    /\ UNCHANGED <<accounts, teams, members, invites, grants>>

DeleteBox(c) ==
    LET b == call[c].box IN
    /\ call[c].pc \in {"deleteBox", "adminDelete"}
    /\ boxes' = [boxes EXCEPT ![b] = Nobody]
    /\ grants' = [x \in Boxes \X People |-> IF x[1] = b THEN Nobody ELSE grants[x]]
    /\ Answer(c, boxes[b] # Nobody)
    /\ UNCHANGED <<accounts, teams, members, invites>>

Write(c) == \/ InsertTeam(c) \/ InsertOwner(c) \/ AddMember(c) \/ Accept(c) \/ ChangeMember(c)
            \/ Rename(c) \/ Invite(c) \/ DropInvite(c) \/ DeleteTeam(c) \/ WriteGrant(c)
            \/ CreateBox(c) \/ MoveBox(c) \/ GiveBox(c) \/ DeleteBox(c)

(***************************************************************************)
(* What the account routes do to these tables, each in one statement.      *)
(***************************************************************************)
SetGlobalRole(u) ==
    /\ \E role \in {"admin", "user"} : accounts' = [accounts EXCEPT ![u].role = role]
    /\ UNCHANGED <<teams, members, invites, boxes, grants>>

Verify(u) ==
    /\ accounts' = [accounts EXCEPT ![u].verified = TRUE]
    /\ UNCHANGED <<teams, members, invites, boxes, grants>>

DeleteAccount(u) ==
    LET gone == {t \in Teams : teams[t] = u}
        emptied == {b \in Boxes : boxes[b] # Nobody /\ boxes[b].owner = u} IN
    /\ accounts' = [accounts EXCEPT ![u] = Nobody]
    /\ teams' = [t \in Teams |-> IF t \in gone THEN Nobody ELSE teams[t]]
    /\ members' = [x \in Teams \X People |-> IF x[1] \in gone \/ x[2] = u THEN Nobody
                                            ELSE members[x]]
    /\ invites' = [i \in Calls |-> IF /\ invites[i] # Nobody
                                      /\ invites[i].team \in gone \/ invites[i].from = u
                                   THEN Nobody ELSE invites[i]]
    /\ boxes' = [b \in Boxes |-> IF b \in emptied THEN Nobody
                                 ELSE IF boxes[b] # Nobody /\ boxes[b].team \in gone
                                 THEN [boxes[b] EXCEPT !.team = Nobody] ELSE boxes[b]]
    /\ grants' = [x \in Boxes \X People |-> IF x[1] \in emptied \/ x[2] = u THEN Nobody
                                           ELSE grants[x]]

AccountWrite(c) ==
    /\ "account" \in menu /\ call[c] = NoCall /\ Answer(c, TRUE)
    /\ \E u \in People : /\ accounts[u] # Nobody
                         /\ SetGlobalRole(u) \/ Verify(u) \/ DeleteAccount(u)

(***************************************************************************)
(* Requests as they arrive.                                                *)
(***************************************************************************)
OnTeam(c, u) ==
    \E t \in Teams, w \in People, role \in TeamRoles :
      /\ teams[t] # Nobody
      /\ \/ \E op \in ManageOps \ {"rename", "removeMember", "revoke"} :
              Arrive(c, op, "teamAdmin", u, t, Nobody, w, role)
         \/ Arrive(c, "removeMember", "teamAdmin", u, t, Nobody, w, Nobody)
         \/ \E op \in {"rename", "look"} : Arrive(c, op, "teamAdmin", u, t, Nobody, Nobody, Nobody)
         \/ Arrive(c, "deleteTeam", "readTeamToDelete", u, t, Nobody, Nobody, Nobody)
         \/ Arrive(c, "createBox", "teamAdmin", u, t, Nobody, Nobody, Nobody)

OnInvite(c, u) ==
    \E i \in Calls :
      /\ invites[i] # Nobody /\ call[c] = NoCall /\ accounts[u] # Nobody
      /\ \E op \in {"revoke", "accept", "decline"} \cap menu :
           call' = [call EXCEPT ![c] =
               [NoCall EXCEPT !.op = op, !.by = u, !.seen = i, !.team = invites[i].team,
                              !.pc = IF op = "revoke" THEN "teamAdmin" ELSE "readSelf"]]

OnBox(c, u) ==
    \E b \in Boxes :
      /\ boxes[b] # Nobody
      /\ \/ \E op \in {"read", "send", "deleteBox"} :
              Arrive(c, op, "globalRole", u, Nobody, b, Nobody, Nobody)
         \/ \E w \in People, role \in BoxRoles, op \in {"addGrant", "changeGrant"} :
              Arrive(c, op, "globalRole", u, Nobody, b, w, role)
         \/ \E w \in People : Arrive(c, "removeGrant", "globalRole", u, Nobody, b, w, Nobody)
         \/ \E t \in {x \in Teams : teams[x] # Nobody} \cup {Nobody} :
              Arrive(c, "moveBox", "globalRole", u, t, b, Nobody, Nobody)
         \/ \E t \in {x \in Teams : teams[x] # Nobody} \cup {Nobody} :
              Arrive(c, "adminMove", "teamAdmin", u, t, b, Nobody, Nobody)
         \/ \E w \in People : Arrive(c, "giveBox", "teamAdmin", u, Nobody, b, w, Nobody)
         \/ Arrive(c, "adminDelete", "teamAdmin", u, Nobody, b, Nobody, Nobody)

OnNothing(c, u) ==
    \/ Arrive(c, "create", "insertTeam", u, Nobody, Nobody, Nobody, Nobody)
    \/ Arrive(c, "createBox", "createBox", u, Nobody, Nobody, Nobody, Nobody)

Request(c) ==
    /\ call[c] = NoCall
    /\ \E u \in People : OnTeam(c, u) \/ OnInvite(c, u) \/ OnBox(c, u) \/ OnNothing(c, u)
    /\ UNCHANGED teamTables

(* History: what the user of a request held on its inbox while the role    *)
(* was being read, and how many writes fell in between.                    *)
Resolving(c) == call[c].pc \in {"globalRole", "inbox", "grant", "boxTeam"}
Larger(m, n) == IF m > n THEN m ELSE n
Remember ==
    /\ best' = [c \in Calls |->
                  IF Resolving(c)'
                  THEN Larger(best[c], Weight(Effective(call[c].by, call[c].box))')
                  ELSE IF call'[c].granted > 0 THEN best[c] ELSE 0]
    /\ writes' = [c \in Calls |->
                    IF ~Resolving(c)' THEN IF call'[c].granted > 0 THEN writes[c] ELSE 0
                    ELSE IF Resolving(c) /\ teamTables' # teamTables /\ writes[c] < 2 THEN writes[c] + 1
                    ELSE writes[c]]

TeamNext ==
    \E c \in Calls :
      /\ Request(c) \/ Check(c) \/ Read(c) \/ Write(c) \/ AccountWrite(c) \/ GiveUp(c)
      /\ Remember /\ UNCHANGED menu

TeamSpec == TeamInit /\ [][TeamNext]_teamVars

(***************************************************************************)
(* Properties.                                                             *)
(***************************************************************************)
(* Every table and every request is well typed.                            *)
TeamTypeOK ==
    /\ accounts \in [People -> [role : {"admin", "user"}, verified : BOOLEAN] \cup {Nobody}]
    /\ teams \in [Teams -> People \cup {Nobody}]
    /\ members \in [Teams \X People -> TeamRoles \cup {Nobody}]
    /\ invites \in [Calls -> [team : Teams, who : People, role : TeamRoles, from : People]
                               \cup {Nobody}]
    /\ boxes \in [Boxes -> [owner : People, team : Teams \cup {Nobody}] \cup {Nobody}]
    /\ grants \in [Boxes \X People -> BoxRoles \cup {Nobody}]
    /\ best \in [Calls -> 0..3] /\ writes \in [Calls -> 0..2]

(* Whatever members are added, invited, accepted, changed or removed, and  *)
(* by whom, the owner of a team that was created in full stays one of its  *)
(* administrators (routes/teams.ts:79,320,376,791).                        *)
OwnerStaysAdmin ==
    \A t \in Teams : teams[t] # Nobody /\ (t = Team \/ call[t].ok)
        => members[<<t, teams[t]>>] = "admin"

(* resolveInboxRole reads four tables one after the other, yet a role it   *)
(* grants on an inbox that is still there was really held at one moment    *)
(* while it read, unless the tables changed twice meanwhile                *)
(* (middleware/access.ts:49).                                              *)
GrantWasHeld ==
    \A c \in Calls : call[c].granted > 0 =>
        call[c].granted <= best[c] \/ writes[c] = 2 \/ boxes[call[c].box] = Nobody

(* Nobody is a member of somebody else's team, or shares somebody else's   *)
(* inbox, without having proved the address they were added by             *)
(* (teams.ts:275,760, inbox-members.ts:109).                               *)
MembersAreProven ==
    /\ \A t \in Teams, u \in People : members[<<t, u>>] # Nobody /\ teams[t] # u
         => accounts[u] # Nobody /\ accounts[u].verified
    /\ \A b \in Boxes, u \in People : grants[<<b, u>>] # Nobody
         => accounts[u] # Nobody /\ accounts[u].verified

(* The two facts about memberships, of which the owner's rests on the      *)
(* routes of teams.ts and the members' on the add and accept routes.       *)
MembershipHolds == OwnerStaysAdmin /\ MembersAreProven
=============================================================================
