------------------------- MODULE TeamAccess_proofs -------------------------
(***************************************************************************)
(* Memberships, for any number of people and requests: the owner of a team *)
(* stays one of its administrators, and everybody else in it has proved    *)
(* the address they were added by.  And roles on inboxes: one that is      *)
(* granted was held while it was looked for.                               *)
(***************************************************************************)
EXTENDS TeamAccess, TLAPS

(***************************************************************************)
(* The invariant.  Tables and requests need their shape, not their types.  *)
(***************************************************************************)
Account == [role : {"admin", "user"}, verified : BOOLEAN]
Shaped(x) == DOMAIN x = {"pc", "op", "by", "team", "box", "who", "role", "seen", "granted", "ok"}
Shapes ==
    /\ accounts \in [People -> Account \cup {Nobody}]
    /\ teams \in [Teams -> People \cup {Nobody}]
    /\ members = [x \in Teams \X People |-> members[x]]
    /\ invites = [i \in Calls |-> invites[i]]
    /\ grants = [x \in Boxes \X People |-> grants[x]]
    /\ call = [c \in Calls |-> call[c]]
    /\ \A c \in Calls : Shaped(call[c])

Proven(u) == u \in People => accounts[u] = Nobody \/ accounts[u].verified
Created == {"insertOwner", "done"}
(* A team is known to others only once its creation has inserted it.       *)
Born(t) == t \in Teams /\ (t \in Calls => call[t].pc \in Created)

Checks == {"teamAdmin", "teamOwner", "teamMember", "globalRole", "inbox", "grant", "boxTeam"}
Guarded == ManageOps \cup ViewOps \cup AdminOps \cup BoxOps

(* What a request has established by the time it writes: the member it     *)
(* changes is not the owner, the person it adds has proved the address,    *)
(* and the membership of a team's owner follows the team.                  *)
Ready(c) ==
    /\ call[c].ok => call[c].pc = "done"
    /\ call[c].team # Nobody => Born(call[c].team)
    /\ teams[c] # Nobody => call[c].pc \in Created
    /\ call[c].pc = "insertTeam" => call[c].by \in People
    /\ call[c].pc = "insertOwner" => teams[c] \in {call[c].by, Nobody}
    /\ call[c].pc \in Checks => call[c].op \in Guarded
    /\ call[c].pc = "readTarget" => call[c].op \in {"addMember", "addGrant", "giveBox"}
    /\ call[c].pc = "readOwner" => call[c].op \in {"changeRole", "removeMember"}
    /\ call[c].pc \in {"changeRole", "removeMember"} /\ call[c].team \in Teams =>
         teams[call[c].team] = Nobody \/ teams[call[c].team] # call[c].who
    /\ call[c].pc \in {"addMember", "addGrant", "readBoxOwner"} => Proven(call[c].who)
    /\ call[c].pc \in {"readInvite", "readSeat", "accept"} => Proven(call[c].by)
    /\ call[c].pc \in {"readSelf", "readInvite"} => call[c].seen \in Calls

InvitesBorn == \A i \in Calls : invites[i] # Nobody =>
                 invites[i].team = Nobody \/ Born(invites[i].team)
TeamInv == /\ Shapes /\ InvitesBorn /\ OwnerStaysAdmin /\ MembersAreProven
           /\ \A c \in Calls : Ready(c)

(***************************************************************************)
(* How a request moves.                                                    *)
(***************************************************************************)
Onward(c, pc) ==
    /\ call' = [d \in Calls |-> call'[d]] /\ \A d \in Calls : Shaped(call'[d])
    /\ call'[c].pc = pc /\ call'[c].op = call[c].op /\ call'[c].by = call[c].by
    /\ call'[c].team = call[c].team /\ call'[c].who = call[c].who
    /\ call'[c].ok = call[c].ok /\ \A d \in Calls : d # c => call'[d] = call[d]

(* On: its record but for pc is as it was.                                 *)
LEMMA AdvanceIs ==
    ASSUME Shapes, NEW c \in Calls, NEW pc, Advance(c, pc)
    PROVE  Onward(c, pc) /\ call'[c].seen = call[c].seen
  <1>1. call'[c] = [call[c] EXCEPT !.pc = pc] /\ \A d \in Calls : d # c => call'[d] = call[d]
    BY DEF Advance, Shapes
  <1>2. call' = [d \in Calls |-> call'[d]]
    BY DEF Advance, Shapes
  <1>3. Shaped(call[c])
    BY DEF Shapes
  <1>4. \A x : x = [call[c] EXCEPT !.pc = pc] =>
          /\ Shaped(x) /\ x.pc = pc /\ x.op = call[c].op /\ x.by = call[c].by
          /\ x.team = call[c].team /\ x.who = call[c].who /\ x.seen = call[c].seen
          /\ x.ok = call[c].ok
    BY <1>3 DEF Shaped
  <1> QED
    BY <1>1, <1>2, <1>4 DEF Shapes, Onward

(* To its answer.                                                          *)
LEMMA AnswerIs ==
    ASSUME Shapes, NEW c \in Calls, NEW ok, Answer(c, ok)
    PROVE  /\ call' = [d \in Calls |-> call'[d]] /\ \A d \in Calls : Shaped(call'[d])
           /\ call'[c].pc = "done" /\ call'[c].team = Nobody /\ call'[c].ok = ok
           /\ \A d \in Calls : d # c => call'[d] = call[d]
  <1>1. call'[c] = [NoCall EXCEPT !.pc = "done", !.ok = ok]
        /\ \A d \in Calls : d # c => call'[d] = call[d]
    BY DEF Answer, Shapes
  <1>2. call' = [d \in Calls |-> call'[d]]
    BY DEF Answer, Shapes
  <1>3. \A x : x = [NoCall EXCEPT !.pc = "done", !.ok = ok] =>
          Shaped(x) /\ x.pc = "done" /\ x.team = Nobody /\ x.ok = ok
    BY DEF NoCall, Shaped
  <1> QED
    BY <1>1, <1>2, <1>3 DEF Shapes

Turn(c) == /\ call' = [d \in Calls |-> call'[d]] /\ \A d \in Calls : Shaped(call'[d])
           /\ \A d \in Calls : d # c => call'[d] = call[d]
           /\ call[c].pc \in Created => call'[c].pc \in Created

(* An answer leaves nothing to be ready for.                               *)
LEMMA AnswerTurns ==
    ASSUME Shapes, NEW c \in Calls, NEW ok, Answer(c, ok)
    PROVE  Turn(c) /\ Ready(c)' /\ call'[c].ok = ok
  <1>1. /\ call' = [d \in Calls |-> call'[d]] /\ \A d \in Calls : Shaped(call'[d])
        /\ call'[c].pc = "done" /\ call'[c].team = Nobody /\ call'[c].ok = ok
        /\ \A d \in Calls : d # c => call'[d] = call[d]
    BY AnswerIs
  <1> QED
    BY <1>1 DEF Turn, Created, Ready, Checks

(* What others have established outlives a step of somebody else.          *)
KeepsOthers(c) ==
    /\ \A t \in Teams : t # c \/ call[c].pc # "insertTeam" => teams'[t] \in {teams[t], Nobody}
    /\ \A u \in People : Proven(u) => Proven(u)'

(* A team known to others stays so.                                        *)
LEMMA BornStays ==
    ASSUME NEW c \in Calls, Turn(c), NEW t, Born(t)
    PROVE  Born(t)'
  BY DEF Turn, Born

(* No step takes from another request what it has established.             *)
LEMMA OthersReady ==
    ASSUME TeamInv, NEW c \in Calls, Turn(c), KeepsOthers(c), NEW d \in Calls, d # c
    PROVE  Ready(d)'
  <1>0. Ready(d) /\ Ready(c) /\ call'[d] = call[d] /\ d \in Teams
    BY DEF TeamInv, Turn, Teams
  <1> DEFINE x == call[d]
  <1>1. x.team # Nobody => Born(x.team)'
    BY <1>0, BornStays DEF Ready
  <1>2. teams'[d] \in {teams[d], Nobody}
    BY <1>0 DEF KeepsOthers
  <1>3. x.team \in Teams => teams'[x.team] \in {teams[x.team], Nobody}
    <2>1. CASE x.team = c
      <3>1. Born(c) => call[c].pc # "insertTeam"
        BY DEF Born, Created
      <3>2. c # Nobody
        BY TeamAccessAssumption
      <3> QED
        BY <1>0, <2>1, <3>1, <3>2 DEF KeepsOthers, Ready
    <2> QED
      BY <2>1 DEF KeepsOthers
  <1>4. \A u : Proven(u) => Proven(u)'
    BY DEF KeepsOthers, Proven
  <1> QED
    BY <1>0, <1>1, <1>2, <1>3, <1>4 DEF Ready

(* Steps that only read keep the invariant if the request stays ready.     *)
LEMMA ReadKeeps ==
    ASSUME TeamInv, NEW c \in Calls, UNCHANGED teamTables, Turn(c), Ready(c)',
           call'[c].ok => call[c].ok \/ teams[c] = Nobody
    PROVE  TeamInv'
  <1>0. UNCHANGED accounts /\ UNCHANGED teams /\ UNCHANGED members /\ UNCHANGED invites
        /\ UNCHANGED boxes /\ UNCHANGED grants
    BY DEF teamTables
  <1>1. KeepsOthers(c)
    BY <1>0 DEF KeepsOthers, Proven
  <1>2. \A d \in Calls : Ready(d)'
    BY <1>1, OthersReady
  <1>3. Shapes'
    BY <1>0 DEF TeamInv, Shapes, Turn
  <1>4. InvitesBorn'
    BY <1>0, BornStays DEF TeamInv, InvitesBorn
  <1>5. OwnerStaysAdmin'
    <2> SUFFICES ASSUME NEW t \in Teams, teams[t] # Nobody, t = Team \/ call'[t].ok
                 PROVE  members[<<t, teams[t]>>] = "admin"
      BY <1>0 DEF OwnerStaysAdmin
    <2>1. t = Team \/ call[t].ok
      BY DEF Turn, Teams
    <2> QED
      BY <2>1 DEF TeamInv, OwnerStaysAdmin
  <1>6. MembersAreProven'
    BY <1>0 DEF TeamInv, MembersAreProven
  <1> QED
    BY <1>2, <1>3, <1>4, <1>5, <1>6 DEF TeamInv

(* So does every answer given while reading, or when giving up.            *)
LEMMA AnswerIsSound ==
    ASSUME TeamInv, NEW c \in Calls, UNCHANGED teamTables, NEW ok, Answer(c, ok),
           ok => teams[c] = Nobody
    PROVE  TeamInv'
  <1>1. Turn(c) /\ Ready(c)' /\ call'[c].ok = ok
    BY AnswerTurns DEF TeamInv
  <1> QED
    BY <1>1, ReadKeeps

(* And every step forward to something the request is ready for.           *)
LEMMA OnwardKeeps ==
    ASSUME TeamInv, NEW c \in Calls, UNCHANGED teamTables, NEW pc, Onward(c, pc),
           call[c].pc \notin Created,
           pc \notin {"readSelf", "insertTeam", "insertOwner"},
           pc \in Checks => call[c].op \in Guarded,
           pc = "readTarget" => call[c].op \in {"addMember", "addGrant", "giveBox"},
           pc = "readOwner" => call[c].op \in {"changeRole", "removeMember"},
           pc \in {"changeRole", "removeMember"} =>
             teams[call[c].team] = Nobody \/ teams[call[c].team] # call[c].who,
           pc \in {"addMember", "addGrant", "readBoxOwner"} => Proven(call[c].who),
           pc \in {"readInvite", "readSeat", "accept"} => Proven(call[c].by),
           pc = "readInvite" => call'[c].seen \in Calls
    PROVE  TeamInv'
  <1>0. Shapes /\ Ready(c)
    BY DEF TeamInv
  <1>1. /\ call' = [d \in Calls |-> call'[d]] /\ \A d \in Calls : Shaped(call'[d])
        /\ call'[c].pc = pc /\ call'[c].op = call[c].op /\ call'[c].by = call[c].by
        /\ call'[c].team = call[c].team /\ call'[c].who = call[c].who
        /\ call'[c].ok = call[c].ok
        /\ \A d \in Calls : d # c => call'[d] = call[d]
    BY DEF Onward
  <1>2. Turn(c)
    BY <1>1 DEF Turn
  <1>3. UNCHANGED teams /\ UNCHANGED accounts
    BY DEF teamTables
  <1>4. ASSUME call[c].team # Nobody
        PROVE  Born(call[c].team)'
    <2>1. Born(call[c].team) /\ call'[c].team = call[c].team
      BY <1>0, <1>1, <1>4 DEF Ready
    <2>2. \A d \in Calls : call[d].pc \in Created => call'[d].pc \in Created
      BY <1>2 DEF Turn
    <2> QED
      BY <2>1, <2>2 DEF Born
  <1>5. \A u : Proven(u) => Proven(u)'
    BY <1>3 DEF Proven
  <1>6. ~call[c].ok /\ teams[c] = Nobody
    BY <1>0 DEF Ready, Created
  <1>7. Ready(c)'
    BY <1>0, <1>1, <1>3, <1>4, <1>5, <1>6 DEF Ready
  <1> QED
    BY <1>1, <1>2, <1>7, ReadKeeps

(***************************************************************************)
(* Requests arrive.                                                        *)
(***************************************************************************)
Arriving(x) ==
    /\ Shaped(x) /\ ~x.ok
    /\ x.team = Nobody \/ Born(x.team)
    /\ \/ x.pc \in {"readTeamToDelete", "createBox"}
       \/ x.pc = "insertTeam" /\ x.by \in People
       \/ x.pc = "readSelf" /\ x.seen \in Calls
       \/ x.pc \in Checks /\ x.op \in Guarded

(* A request that has only arrived has nothing yet that could be wrong.    *)
LEMMA ArriveKeeps ==
    ASSUME TeamInv, NEW c \in Calls, UNCHANGED teamTables, call[c] = NoCall,
           NEW x, call' = [call EXCEPT ![c] = x], Arriving(x)
    PROVE  TeamInv'
  <1> USE DEF Arriving
  <1>0. Shapes /\ Ready(c)
    BY DEF TeamInv
  <1>1. /\ call' = [d \in Calls |-> call'[d]] /\ call'[c] = x
        /\ \A d \in Calls : d # c => call'[d] = call[d]
    BY <1>0 DEF Shapes
  <1>2. call[c].pc = "idle"
    BY DEF NoCall
  <1>3. Turn(c)
    BY <1>0, <1>1, <1>2 DEF Turn, Shapes, Created
  <1>4. teams[c] = Nobody /\ UNCHANGED teams
    BY <1>0, <1>2 DEF Ready, Created, teamTables
  <1>5. x.team # Nobody => Born(x.team)'
    BY <1>3, BornStays
  <1>6. Ready(c)'
    BY <1>1, <1>4, <1>5 DEF Ready, Checks
  <1> QED
    BY <1>1, <1>3, <1>6, ReadKeeps

(* Whatever is asked for, a request arrives with nothing that could be     *)
(* wrong.                                                                  *)
LEMMA RequestKeeps ==
    ASSUME TeamInv, NEW c \in Calls, Request(c)
    PROVE  TeamInv'
  <1>0. /\ Shapes /\ call[c] = NoCall /\ UNCHANGED teamTables
        /\ \A t \in Teams : teams[t] # Nobody => Born(t)
    BY DEF TeamInv, Request, Ready, Born, Teams, Created
  <1>1. ASSUME NEW op, NEW pc, NEW u \in People, NEW t, NEW b, NEW w, NEW role,
               Arrive(c, op, pc, u, t, b, w, role),
               pc \in {"readTeamToDelete", "createBox"} \/ pc = "insertTeam"
                 \/ (pc \in Checks /\ op \in Guarded),
               t = Nobody \/ Born(t)
        PROVE  TeamInv'
    <2> PICK x : x = [NoCall EXCEPT !.pc = pc, !.op = op, !.by = u, !.team = t, !.box = b,
                                    !.who = w, !.role = role]
      OBVIOUS
    <2>2. call' = [call EXCEPT ![c] = x]
      BY <1>1 DEF Arrive
    <2>3. Shaped(x) /\ x.pc = pc /\ x.op = op /\ x.by = u /\ x.team = t /\ ~x.ok
      BY DEF Shaped, NoCall
    <2>4. Arriving(x)
      BY <1>1, <2>3 DEF Arriving
    <2> QED
      BY <1>0, <2>2, <2>4, ArriveKeeps
  <1>2. ASSUME NEW u \in People, OnTeam(c, u)
        PROVE  TeamInv'
    <2>1. "teamAdmin" \in Checks /\ ManageOps \cup ViewOps \subseteq Guarded
          /\ {"rename", "look", "removeMember", "createBox"} \subseteq Guarded
      BY DEF Checks, Guarded, ManageOps, ViewOps
    <2> HIDE DEF ManageOps
    <2> QED
      BY <1>0, <1>1, <1>2, <2>1 DEF OnTeam
  <1>3. ASSUME NEW u \in People, OnInvite(c, u)
        PROVE  TeamInv'
    <2>1. PICK i \in Calls, op \in {"revoke", "accept", "decline"} :
            /\ invites[i] # Nobody
            /\ call' = [call EXCEPT ![c] =
                 [NoCall EXCEPT !.op = op, !.by = u, !.seen = i, !.team = invites[i].team,
                                !.pc = IF op = "revoke" THEN "teamAdmin" ELSE "readSelf"]]
      BY <1>3, Zenon DEF OnInvite
    <2>2. PICK pc \in {"teamAdmin", "readSelf"} :
            pc = IF op = "revoke" THEN "teamAdmin" ELSE "readSelf"
      OBVIOUS
    <2> PICK t : t = invites[i].team
      OBVIOUS
    <2> PICK x : x = [NoCall EXCEPT !.op = op, !.by = u, !.seen = i, !.team = t, !.pc = pc]
      OBVIOUS
    <2>4. call' = [call EXCEPT ![c] = x]
      BY <2>1, <2>2
    <2>5. Shaped(x) /\ x.pc = pc /\ x.op = op /\ x.seen = i /\ x.team = t /\ ~x.ok
      BY DEF Shaped, NoCall
    <2>6. t = Nobody \/ Born(t)
      BY <2>1 DEF TeamInv, InvitesBorn
    <2>7. (pc = "readSelf" /\ i \in Calls) \/ (pc \in Checks /\ op \in Guarded)
      BY <2>2 DEF Checks, Guarded, ManageOps
    <2>8. Arriving(x)
      BY <2>5, <2>6, <2>7 DEF Arriving
    <2> QED
      BY <1>0, <2>4, <2>8, ArriveKeeps
  <1>4. ASSUME NEW u \in People, OnBox(c, u)
        PROVE  TeamInv'
    <2>1. {"teamAdmin", "globalRole"} \subseteq Checks
          /\ {"read", "send", "deleteBox", "addGrant", "changeGrant", "removeGrant", "moveBox",
              "adminMove", "giveBox", "adminDelete"} \subseteq Guarded
      BY DEF Checks, Guarded, BoxOps, AdminOps
    <2> QED
      BY <1>0, <1>1, <1>4, <2>1 DEF OnBox
  <1>5. ASSUME NEW u \in People, OnNothing(c, u)
        PROVE  TeamInv'
    BY <1>1, <1>5 DEF OnNothing
  <1> QED
    BY <1>2, <1>3, <1>4, <1>5 DEF Request

(***************************************************************************)
(* Checks and reads.                                                       *)
(***************************************************************************)
(* What a check that passes leads to is read or written by a later step.   *)
LEMMA PassKeeps ==
    ASSUME TeamInv, NEW c \in Calls, UNCHANGED teamTables, call[c].pc \in Checks,
           Onward(c, FirstStep(call[c].op))
    PROVE  TeamInv'
  <1> DEFINE op == call[c].op
             pc == FirstStep(op)
  <1>0. op \in Guarded /\ call[c].pc \notin Created
    BY DEF TeamInv, Ready, Checks, Created
  <1>1. op \in {"rename", "addMember", "changeRole", "removeMember", "invite", "revoke", "look",
                "createBox", "moveBox", "giveBox", "adminMove", "adminDelete", "read", "send",
                "addGrant", "changeGrant", "removeGrant", "deleteBox"}
    BY <1>0 DEF Guarded, ManageOps, ViewOps, AdminOps, BoxOps
  <1>2. /\ pc \notin {"readInvite", "readSelf", "insertTeam", "insertOwner", "changeRole",
                      "removeMember", "addMember", "addGrant", "readBoxOwner", "readSeat",
                      "accept"}
        /\ pc \notin Checks
        /\ pc = "readTarget" => op \in {"addMember", "addGrant", "giveBox"}
        /\ pc = "readOwner" => op \in {"changeRole", "removeMember"}
    BY <1>1 DEF FirstStep, Checks
  <1> HIDE DEF pc
  <1>3. Onward(c, pc)
    BY DEF pc
  <1> QED
    BY <1>0, <1>2, <1>3, OnwardKeeps

(* A role on an inbox that is found leads to what the check was for, or to *)
(* a refusal.                                                              *)
LEMMA ResolvedKeeps ==
    ASSUME TeamInv, NEW c \in Calls, UNCHANGED teamTables, call[c].pc \in Checks,
           NEW role, Resolved(c, role)
    PROVE  TeamInv'
  <1>0. Shapes /\ ~call[c].ok /\ teams[c] = Nobody /\ call[c].op \in Guarded
        /\ Shaped(call[c])
    BY DEF TeamInv, Ready, Checks, Created, Shapes
  <1>1. CASE Answer(c, FALSE)
    BY <1>1, AnswerIsSound
  <1>2. CASE ~Answer(c, FALSE)
    <2> PICK pc : pc = IF call[c].op = "moveBox" /\ call[c].team # Nobody
                       THEN "teamAdmin" ELSE FirstStep(call[c].op)
      OBVIOUS
    <2> PICK x : x = [call[c] EXCEPT !.granted = Weight(role), !.pc = pc]
      OBVIOUS
    <2>1. call' = [call EXCEPT ![c] = x]
      BY <1>2 DEF Resolved
    <2>2. /\ Shaped(x) /\ x.pc = pc /\ x.op = call[c].op /\ x.by = call[c].by
          /\ x.team = call[c].team /\ x.who = call[c].who /\ x.ok = call[c].ok
      BY <1>0 DEF Shaped
    <2>3. Onward(c, pc)
      BY <1>0, <2>1, <2>2 DEF Onward, Shapes
    <2>4. CASE pc = FirstStep(call[c].op)
      BY <2>3, <2>4, PassKeeps
    <2>5. CASE pc = "teamAdmin"
      BY <1>0, <2>3, <2>5, OnwardKeeps DEF Checks, Created, TeamInv, Ready
    <2> QED
      BY <2>4, <2>5
  <1> QED
    BY <1>1, <1>2

(* A check passes, asks further or refuses.                                *)
LEMMA CheckKeeps ==
    ASSUME TeamInv, NEW c \in Calls, Check(c)
    PROVE  TeamInv'
  <1>0. /\ UNCHANGED teamTables /\ call[c].pc \in Checks /\ Shapes /\ Shaped(call[c])
        /\ call[c].op \in Guarded /\ call[c].pc \notin Created
    BY DEF TeamInv, Check, Ready, Shapes, Checks, Created, ReadAdmin, ReadTeamOwner,
           ReadTeamMember, ReadGlobalRole, ReadInbox, ReadGrant, ReadBoxTeam
  <1>1. CASE Answer(c, FALSE)
    BY <1>0, <1>1, AnswerIsSound
  <1>2. CASE Pass(c)
    BY <1>0, <1>2, AdvanceIs, PassKeeps DEF Pass
  <1>3. ASSUME NEW pc \in {"teamOwner", "teamMember", "inbox", "boxTeam"}, Advance(c, pc)
        PROVE  TeamInv'
    <2>1. Onward(c, pc) /\ pc \in Checks
      BY <1>0, <1>3, AdvanceIs DEF Checks
    <2> QED
      BY <1>0, <2>1, OnwardKeeps DEF Checks
  <1>4. ASSUME NEW role, Resolved(c, role)
        PROVE  TeamInv'
    BY <1>0, <1>4, ResolvedKeeps
  <1>5. ASSUME NEW seen, call' = [call EXCEPT ![c] = [@ EXCEPT !.pc = "grant", !.seen = seen]]
        PROVE  TeamInv'
    <2> PICK x : x = [call[c] EXCEPT !.pc = "grant", !.seen = seen]
      OBVIOUS
    <2>1. call' = [call EXCEPT ![c] = x]
      BY <1>5
    <2>2. /\ Shaped(x) /\ x.pc = "grant" /\ x.op = call[c].op /\ x.by = call[c].by
          /\ x.team = call[c].team /\ x.who = call[c].who /\ x.ok = call[c].ok
      BY <1>0 DEF Shaped
    <2>3. Onward(c, "grant")
      BY <1>0, <2>1, <2>2 DEF Onward, Shapes
    <2> QED
      BY <1>0, <2>3, OnwardKeeps DEF Checks
  <1>6. CASE ReadAdmin(c) \/ ReadTeamOwner(c) \/ ReadTeamMember(c)
    BY <1>1, <1>2, <1>3, <1>6, Zenon DEF ReadAdmin, ReadTeamOwner, ReadTeamMember
  <1>7. CASE ReadGlobalRole(c) \/ ReadGrant(c) \/ ReadBoxTeam(c)
    BY <1>1, <1>3, <1>4, <1>7, Zenon DEF ReadGlobalRole, ReadGrant, ReadBoxTeam
  <1>8. CASE ReadInbox(c)
    BY <1>1, <1>4, <1>5, <1>8, Zenon DEF ReadInbox
  <1> QED
    BY <1>6, <1>7, <1>8 DEF Check

(* The reads of the handlers are what makes a request ready to write.      *)
LEMMA HandlerKeeps ==
    ASSUME TeamInv, NEW c \in Calls, Read(c) \/ GiveUp(c)
    PROVE  TeamInv'
  <1>0. /\ UNCHANGED teamTables /\ Shapes /\ Shaped(call[c]) /\ Ready(c)
    BY DEF TeamInv, Shapes, Read, ReadTarget, ReadBoxOwner, ReadTeam, ReadOwner, ReadInvitee,
           ReadPending, ReadSelf, ReadInvite, ReadSeat, AnswerRead, ReadTeamToDelete, ReadDeleter,
           GiveUp
  <1>1. CASE Answer(c, FALSE)
    BY <1>0, <1>1, AnswerIsSound
  <1>2. ASSUME NEW pc \in {"giveBox", "adminMove", "decline", "readPending", "invite",
                           "dropInvite", "deleteTeam", "deleteAsAdmin"},
               Advance(c, pc), call[c].pc \notin Created
        PROVE  TeamInv'
    <2>1. Onward(c, pc)
      BY <1>0, <1>2, AdvanceIs
    <2> QED
      BY <1>0, <1>2, <2>1, OnwardKeeps DEF Checks
  <1>3. CASE ReadTarget(c)
    <2>1. call[c].pc \notin Created /\ call[c].op \in {"addMember", "addGrant", "giveBox"}
      BY <1>0, <1>3 DEF ReadTarget, Ready, Created
    <2>2. ASSUME NEW pc \in {"addMember", "readBoxOwner"}, Advance(c, pc), Proven(call[c].who)
          PROVE  TeamInv'
      <3>1. Onward(c, pc)
        BY <1>0, <2>2, AdvanceIs
      <3> QED
        BY <1>0, <2>1, <2>2, <3>1, OnwardKeeps DEF Checks
    <2>3. Answer(c, FALSE) \/ Advance(c, "giveBox")
          \/ (Proven(call[c].who) /\ \E pc \in {"addMember", "readBoxOwner"} : Advance(c, pc))
      BY <1>3, <2>1 DEF ReadTarget, Proven
    <2> QED
      BY <1>1, <1>2, <2>1, <2>2, <2>3
  <1>4. CASE ReadBoxOwner(c)
    <2>1. CASE Advance(c, "addGrant")
      <3>1. Onward(c, "addGrant")
        BY <1>0, <2>1, AdvanceIs
      <3> QED
        BY <1>0, <1>4, <3>1, OnwardKeeps DEF ReadBoxOwner, Ready, Created, Checks
    <2> QED
      BY <1>1, <1>4, <2>1 DEF ReadBoxOwner
  <1>5. CASE ReadOwner(c)
    <2>1. CASE Advance(c, call[c].op) /\ teams[call[c].team] # call[c].who
      <3> PICK pc : pc = call[c].op
        OBVIOUS
      <3>1. Onward(c, pc)
        BY <1>0, <2>1, AdvanceIs
      <3>2. pc \in {"changeRole", "removeMember"}
        BY <1>0, <1>5 DEF ReadOwner, Ready
      <3> QED
        BY <1>0, <1>5, <2>1, <3>1, <3>2, OnwardKeeps DEF ReadOwner, Created, Checks
    <2> QED
      BY <1>1, <1>5, <2>1 DEF ReadOwner
  <1>6. CASE ReadSelf(c)
    <2>1. CASE Advance(c, "readInvite") /\ Proven(call[c].by)
      <3>1. Onward(c, "readInvite") /\ call'[c].seen = call[c].seen
        BY <1>0, <2>1, AdvanceIs
      <3> QED
        BY <1>0, <1>6, <2>1, <3>1, OnwardKeeps DEF ReadSelf, Ready, Created, Checks
    <2>2. call[c].pc \notin Created
      BY <1>6 DEF ReadSelf, Created
    <2>3. Answer(c, FALSE) \/ Advance(c, "decline")
          \/ (Advance(c, "readInvite") /\ Proven(call[c].by))
      BY <1>6 DEF ReadSelf, Proven
    <2> QED
      BY <1>1, <1>2, <2>1, <2>2, <2>3
  <1>7. CASE ReadInvite(c)
    <2>1. ASSUME NEW i, i = invites[call[c].seen], i # Nobody,
                 call' = [call EXCEPT ![c] = [@ EXCEPT !.pc = "readSeat", !.team = i.team,
                                                      !.role = i.role]]
          PROVE  TeamInv'
      <3> PICK x : x = [call[c] EXCEPT !.pc = "readSeat", !.team = i.team, !.role = i.role]
        OBVIOUS
      <3>1. call' = [call EXCEPT ![c] = x]
        BY <2>1
      <3>2. Shaped(x) /\ x.pc = "readSeat" /\ x.by = call[c].by /\ x.team = i.team
            /\ x.ok = call[c].ok
        BY <1>0 DEF Shaped
      <3>3. Turn(c) /\ call'[c] = x
        BY <1>0, <1>7, <3>1, <3>2 DEF Turn, Shapes, ReadInvite, Created
      <3>4. i.team # Nobody => Born(i.team)'
        <4>1. i.team # Nobody => Born(i.team)
          BY <1>0, <1>7, <2>1 DEF TeamInv, InvitesBorn, Ready, ReadInvite
        <4> PICK t : t = i.team
          OBVIOUS
        <4> QED
          BY <3>3, <4>1, BornStays
      <3>5. Ready(c)'
        BY <1>0, <1>7, <3>2, <3>3, <3>4
           DEF Ready, ReadInvite, Created, Checks, Proven, teamTables
      <3> QED
        BY <1>0, <3>2, <3>3, <3>5, ReadKeeps
    <2> QED
      BY <1>1, <1>7, <2>1, Zenon DEF ReadInvite
  <1>8. CASE ReadSeat(c)
    <2>1. CASE Advance(c, "accept")
      <3>1. Onward(c, "accept")
        BY <1>0, <2>1, AdvanceIs
      <3> QED
        BY <1>0, <1>8, <3>1, OnwardKeeps DEF ReadSeat, Ready, Created, Checks
    <2>2. call[c].pc \notin Created
      BY <1>8 DEF ReadSeat, Created
    <2> QED
      BY <1>2, <1>8, <2>1, <2>2 DEF ReadSeat
  <1>9. CASE AnswerRead(c)
    BY <1>0, <1>9, AnswerIsSound DEF AnswerRead, Ready, Created
  <1>10. CASE ReadTeam(c) \/ ReadInvitee(c) \/ ReadPending(c)
    <2>1. call[c].pc \notin Created
      BY <1>10 DEF ReadTeam, ReadInvitee, ReadPending, Created
    <2> QED
      BY <1>1, <1>2, <1>10, <2>1 DEF ReadTeam, ReadInvitee, ReadPending
  <1>11. CASE ReadTeamToDelete(c) \/ ReadDeleter(c)
    <2>1. call[c].pc \notin Created
      BY <1>11 DEF ReadTeamToDelete, ReadDeleter, Created
    <2>2. Answer(c, FALSE) \/ \E pc \in {"deleteTeam", "deleteAsAdmin"} : Advance(c, pc)
      <3> PICK pc \in {"deleteTeam", "deleteAsAdmin"} :
            pc = IF teams[call[c].team] \in {Nobody, call[c].by}
                 THEN "deleteTeam" ELSE "deleteAsAdmin"
        OBVIOUS
      <3>1. ReadTeamToDelete(c) => Advance(c, pc)
        BY Zenon DEF ReadTeamToDelete
      <3>2. ReadDeleter(c) => Answer(c, FALSE) \/ Advance(c, "deleteTeam")
        BY Zenon DEF ReadDeleter
      <3> QED
        BY <1>11, <3>1, <3>2
    <2> QED
      BY <1>1, <1>2, <2>1, <2>2
  <1> QED
    BY <1>1, <1>3, <1>4, <1>5, <1>6, <1>7, <1>8, <1>9, <1>10, <1>11 DEF Read, GiveUp

(***************************************************************************)
(* Writes.                                                                 *)
(***************************************************************************)
LEMMA WriteKeeps ==
    ASSUME TeamInv, NEW c \in Calls, Turn(c), Ready(c)', KeepsOthers(c), Shapes', InvitesBorn',
           OwnerStaysAdmin', MembersAreProven'
    PROVE  TeamInv'
  BY OthersReady DEF TeamInv

(* Invitations that were there, or fewer, are still to teams others know.  *)
LEMMA InvitesStayBorn ==
    ASSUME TeamInv, NEW c \in Calls, Turn(c),
           \A i \in Calls : invites'[i] \in {invites[i], Nobody}
    PROVE  InvitesBorn'
  BY BornStays DEF TeamInv, InvitesBorn

(* An owner whose own membership is left alone stays an administrator.     *)
LEMMA OwnersStay ==
    ASSUME TeamInv, NEW c \in Calls, Turn(c),
           \A t \in Teams : teams'[t] \in {teams[t], Nobody},
           call'[c].ok => teams'[c] = Nobody,
           \A t \in Teams : teams'[t] # Nobody /\ members[<<t, teams[t]>>] # Nobody
             => members'[<<t, teams[t]>>] = members[<<t, teams[t]>>]
    PROVE  OwnerStaysAdmin'
  <1> SUFFICES ASSUME NEW t \in Teams, teams'[t] # Nobody, t = Team \/ call'[t].ok
               PROVE  members'[<<t, teams'[t]>>] = "admin"
    BY DEF OwnerStaysAdmin
  <1>1. teams'[t] = teams[t] /\ (t = Team \/ call[t].ok)
    BY DEF Turn, Teams
  <1>2. members[<<t, teams[t]>>] = "admin" /\ "admin" # Nobody
    BY <1>1, TeamAccessAssumption DEF TeamInv, OwnerStaysAdmin
  <1> QED
    BY <1>1, <1>2

(* Writes that leave accounts, teams and memberships alone.                *)
LEMMA AsideKeeps ==
    ASSUME TeamInv, NEW c \in Calls, UNCHANGED <<accounts, teams, members>>, NEW ok,
           Answer(c, ok), call[c].pc \notin Created, Shapes', InvitesBorn',
           \A b \in Boxes, u \in People : grants'[<<b, u>>] # Nobody /\ grants[<<b, u>>] = Nobody
             => accounts[u] # Nobody /\ accounts[u].verified
    PROVE  TeamInv'
  <1>1. Shapes /\ teams[c] = Nobody
    BY DEF TeamInv, Ready
  <1>2. Turn(c) /\ Ready(c)'
    BY <1>1, AnswerTurns
  <1>3. KeepsOthers(c)
    BY DEF KeepsOthers, Proven
  <1>4. OwnerStaysAdmin'
    BY <1>1, <1>2, OwnersStay
  <1>5. MembersAreProven'
    BY DEF TeamInv, MembersAreProven
  <1> QED
    BY <1>2, <1>3, <1>4, <1>5, WriteKeeps

(* Invitations, grants and inboxes are written beside the memberships.     *)
LEMMA AsideWritesKeep ==
    ASSUME TeamInv, NEW c \in Calls,
           \/ Rename(c) \/ Invite(c) \/ DropInvite(c) \/ WriteGrant(c)
           \/ CreateBox(c) \/ MoveBox(c) \/ GiveBox(c) \/ DeleteBox(c)
    PROVE  TeamInv'
  <1>0. Shapes /\ Ready(c) /\ InvitesBorn
    BY DEF TeamInv
  <1>1. CASE Rename(c)
    BY <1>0, <1>1, AnswerIsSound DEF Rename, Ready, Created
  <1>2. CASE Invite(c)
    <2> PICK t : t = call[c].team
      OBVIOUS
    <2>1. call[c].pc \notin Created /\ UNCHANGED <<accounts, teams, members>> /\ UNCHANGED grants
      BY <1>2 DEF Invite, Created
    <2>2. PICK ok : Answer(c, ok)
      BY <1>2 DEF Invite
    <2>3. Turn(c)
      BY <1>0, <2>2, AnswerTurns
    <2>4. Shapes'
      BY <1>0, <1>2, <2>1, <2>3 DEF Shapes, Invite, Turn
    <2>5. \A i \in Calls : invites'[i] # invites[i] => invites'[i].team = t
      BY <1>0, <1>2 DEF Shapes, Invite
    <2>6. t # Nobody => Born(t)'
      BY <1>0, <2>3, BornStays DEF Ready
    <2>7. InvitesBorn'
      BY <1>0, <2>3, <2>5, <2>6, BornStays DEF InvitesBorn
    <2> QED
      BY <2>1, <2>2, <2>4, <2>7, AsideKeeps
  <1>3. CASE DropInvite(c)
    <2>1. call[c].pc \notin Created /\ UNCHANGED <<accounts, teams, members>> /\ UNCHANGED grants
      BY <1>3 DEF DropInvite, Created
    <2>2. PICK ok : Answer(c, ok)
      BY <1>3 DEF DropInvite
    <2>3. Turn(c)
      BY <1>0, <2>2, AnswerTurns
    <2>4. Shapes'
      BY <1>0, <1>3, <2>1, <2>3 DEF Shapes, DropInvite, Turn
    <2>5. \A i \in Calls : invites'[i] \in {invites[i], Nobody}
      BY <1>0, <1>3 DEF Shapes, DropInvite
    <2>7. InvitesBorn'
      BY <2>3, <2>5, InvitesStayBorn
    <2> QED
      BY <2>1, <2>2, <2>4, <2>7, AsideKeeps
  <1>4. CASE WriteGrant(c)
    <2>1. call[c].pc \notin Created /\ UNCHANGED <<accounts, teams, members>>
          /\ UNCHANGED invites
      BY <1>4 DEF WriteGrant, Created
    <2>2. PICK ok : Answer(c, ok)
      BY <1>4 DEF WriteGrant
    <2>3. Turn(c)
      BY <1>0, <2>2, AnswerTurns
    <2>4. Shapes'
      BY <1>0, <1>4, <2>1, <2>3 DEF Shapes, WriteGrant, Turn
    <2>5. ASSUME NEW b \in Boxes, NEW u \in People, grants'[<<b, u>>] # Nobody,
                 grants[<<b, u>>] = Nobody
          PROVE  accounts[u] # Nobody /\ accounts[u].verified
      <3>1. call[c].pc = "addGrant" /\ u = call[c].who /\ accounts[u] # Nobody
        BY <1>0, <1>4, <2>5 DEF Shapes, WriteGrant
      <3> QED
        BY <1>0, <3>1 DEF Ready, Proven
    <2>7. InvitesBorn'
      BY <2>1, <2>3, InvitesStayBorn
    <2> QED
      BY <2>1, <2>2, <2>4, <2>5, <2>7, AsideKeeps
  <1>5. CASE CreateBox(c) \/ MoveBox(c) \/ GiveBox(c) \/ DeleteBox(c)
    <2>1. call[c].pc \notin Created /\ UNCHANGED <<accounts, teams, members>>
          /\ UNCHANGED invites
      BY <1>5 DEF CreateBox, MoveBox, GiveBox, DeleteBox, Created
    <2>2. PICK ok : Answer(c, ok)
      BY <1>5 DEF CreateBox, MoveBox, GiveBox, DeleteBox
    <2>3. Turn(c)
      BY <1>0, <2>2, AnswerTurns
    <2>4. grants' = [x \in Boxes \X People |-> grants'[x]]
          /\ \A x \in Boxes \X People : grants'[x] \in {grants[x], Nobody}
      BY <1>0, <1>5 DEF Shapes, CreateBox, MoveBox, GiveBox, DeleteBox
    <2>5. Shapes'
      BY <1>0, <2>1, <2>3, <2>4 DEF Shapes, Turn
    <2>7. InvitesBorn'
      BY <2>1, <2>3, InvitesStayBorn
    <2> QED
      BY <2>1, <2>2, <2>4, <2>5, <2>7, AsideKeeps
  <1> QED
    BY <1>1, <1>2, <1>3, <1>4, <1>5

(* A new team, its owner not yet a member and its creator not yet told.    *)
LEMMA InsertTeamKeeps ==
    ASSUME TeamInv, NEW c \in Calls, InsertTeam(c)
    PROVE  TeamInv'
  <1>0. /\ Shapes /\ Ready(c) /\ call[c].pc = "insertTeam" /\ call[c].by \in People
        /\ UNCHANGED accounts /\ UNCHANGED members /\ UNCHANGED invites /\ UNCHANGED boxes
        /\ UNCHANGED grants /\ ~call[c].ok /\ teams[c] = Nobody /\ c \in Teams
        /\ c # Team
    BY TeamAccessAssumption DEF TeamInv, InsertTeam, Ready, Created, Teams
  <1>1. CASE UNCHANGED teams /\ Answer(c, FALSE)
    BY <1>0, <1>1, AnswerIsSound DEF teamTables
  <1>2. CASE teams' = [teams EXCEPT ![c] = call[c].by] /\ Advance(c, "insertOwner")
    <2>1. Onward(c, "insertOwner")
      BY <1>0, <1>2, AdvanceIs
    <2>2. Turn(c)
      BY <1>0, <2>1 DEF Turn, Onward, Created
    <2>3. /\ teams' \in [Teams -> People \cup {Nobody}] /\ teams'[c] = call[c].by
          /\ \A t \in Teams : t # c => teams'[t] = teams[t]
      BY <1>0, <1>2 DEF Shapes
    <2>4. KeepsOthers(c)
      BY <1>0, <2>3 DEF KeepsOthers, Proven
    <2>5. call[c].team # Nobody => Born(call[c].team)'
      <3> PICK t : t = call[c].team
        OBVIOUS
      <3>1. t # Nobody => Born(t)'
        BY <1>0, <2>2, BornStays DEF Ready
      <3> QED
        BY <2>1, <3>1 DEF Onward
    <2>6. Ready(c)'
      BY <1>0, <2>1, <2>3, <2>5 DEF Ready, Onward, Created, Checks
    <2>7. Shapes'
      BY <1>0, <2>2, <2>3 DEF Shapes, Turn
    <2>8. InvitesBorn'
      BY <1>0, <2>2, InvitesStayBorn
    <2>9. OwnerStaysAdmin'
      BY <1>0, <2>1, <2>2, <2>3 DEF OwnerStaysAdmin, TeamInv, Onward, Turn, Teams
    <2>10. MembersAreProven'
      <3>1. \A t \in Teams, u \in People : teams'[t] # u => teams[t] # u
        BY <1>0, <2>3, TeamAccessAssumption
      <3> QED
        BY <1>0, <3>1 DEF MembersAreProven, TeamInv
    <2> QED
      BY <2>2, <2>4, <2>6, <2>7, <2>8, <2>9, <2>10, WriteKeeps
  <1> QED
    BY <1>1, <1>2 DEF InsertTeam

(* A row of team_members is new or as it was, and new only for the team's  *)
(* owner or for somebody who has proved the address.                       *)
LEMMA SeatKeeps ==
    ASSUME TeamInv, NEW c \in Calls, Turn(c), Ready(c)', NEW t, NEW u, NEW role,
           Seat(c, t, u, role), CanSeat(t, u) => teams[t] = u \/ Proven(u),
           call[c].pc # "insertTeam", OwnerStaysAdmin'
    PROVE  TeamInv'
  <1>0. /\ Shapes /\ UNCHANGED accounts /\ UNCHANGED teams /\ UNCHANGED invites
        /\ UNCHANGED boxes /\ UNCHANGED grants
    BY DEF TeamInv, Seat
  <1>1. KeepsOthers(c)
    BY <1>0 DEF KeepsOthers, Proven
  <1>2. Shapes'
    BY <1>0 DEF Shapes, Turn, Seat
  <1>3. InvitesBorn'
    BY <1>0, InvitesStayBorn
  <1>4. MembersAreProven'
    <2>1. ASSUME NEW v \in Teams, NEW w \in People, members'[<<v, w>>] # Nobody, teams[v] # w
          PROVE  accounts[w] # Nobody /\ accounts[w].verified
      <3>1. CASE members[<<v, w>>] # Nobody
        BY <2>1, <3>1 DEF MembersAreProven, TeamInv
      <3>2. CASE members[<<v, w>>] = Nobody
        <4>1. <<v, w>> \in Teams \X People
          OBVIOUS
        <4>2. v = t /\ w = u /\ CanSeat(t, u)
          BY <1>0, <2>1, <3>2, <4>1 DEF Shapes, Seat
        <4> QED
          BY <2>1, <4>2 DEF CanSeat, Proven
      <3> QED
        BY <3>1, <3>2
    <2> QED
      BY <1>0, <2>1 DEF MembersAreProven, TeamInv
  <1> QED
    BY <1>1, <1>2, <1>3, <1>4, WriteKeeps

(* An insert never replaces a membership, the owner's least of all.        *)
LEMMA SeatKeepsOwners ==
    ASSUME TeamInv, NEW c \in Calls, Turn(c), NEW t, NEW u, NEW role, Seat(c, t, u, role),
           call'[c].ok => teams[c] = Nobody
    PROVE  OwnerStaysAdmin'
  <1>1. /\ UNCHANGED teams
        /\ \A x \in Teams \X People : members[x] # Nobody => members'[x] = members[x]
    BY DEF TeamInv, Shapes, Seat, CanSeat
  <1>2. ASSUME NEW v \in Teams, teams'[v] # Nobody, members[<<v, teams[v]>>] # Nobody
        PROVE  members'[<<v, teams[v]>>] = members[<<v, teams[v]>>]
    <2>1. <<v, teams[v]>> \in Teams \X People
      BY <1>1, <1>2 DEF TeamInv, Shapes
    <2> QED
      BY <1>1, <1>2, <2>1
  <1> QED
    BY <1>1, <1>2, OwnersStay

(* The owner takes the first seat, so the answer tells of an administrator.*)
LEMMA InsertOwnerKeeps ==
    ASSUME TeamInv, NEW c \in Calls, InsertOwner(c)
    PROVE  TeamInv'
  <1> PICK u : u = call[c].by
    OBVIOUS
  <1>0. /\ Shapes /\ Ready(c) /\ call[c].pc = "insertOwner" /\ Seat(c, c, u, "admin")
        /\ Answer(c, CanSeat(c, u)) /\ teams[c] \in {u, Nobody} /\ "admin" # Nobody
        /\ c \in Teams
    BY TeamAccessAssumption DEF TeamInv, InsertOwner, Ready, Teams
  <1>1. PICK ok : Answer(c, ok) /\ (ok <=> CanSeat(c, u))
    BY <1>0
  <1>2. Turn(c) /\ Ready(c)' /\ call'[c].ok = ok
    BY <1>0, <1>1, AnswerTurns
  <1>3. CanSeat(c, u) => teams[c] = u
    BY <1>0 DEF CanSeat
  <1>4. OwnerStaysAdmin'
    <2>1. CASE ~CanSeat(c, u)
      <3>1. ~call'[c].ok
        BY <1>1, <1>2, <2>1
      <3> QED
        BY <1>0, <1>2, <3>1, SeatKeepsOwners
    <2>2. CASE CanSeat(c, u)
      <3>1. UNCHANGED teams /\ teams[c] = u /\ u \in People
            /\ members' = [members EXCEPT ![<<c, u>>] = "admin"]
        BY <1>0, <1>3, <2>2 DEF Seat, CanSeat, Shapes
      <3>2. members'[<<c, u>>] = "admin"
            /\ \A x \in Teams \X People : x # <<c, u>> => members'[x] = members[x]
        BY <1>0, <3>1 DEF Shapes
      <3> SUFFICES ASSUME NEW t \in Teams, teams[t] # Nobody, t = Team \/ call'[t].ok
                   PROVE  members'[<<t, teams[t]>>] = "admin"
        BY <3>1 DEF OwnerStaysAdmin
      <3>3. CASE t = c
        BY <3>1, <3>2, <3>3
      <3>4. CASE t # c
        <4>1. t = Team \/ call[t].ok
          BY <1>2, <3>4 DEF Turn, Teams
        <4>2. members[<<t, teams[t]>>] = "admin" /\ <<t, teams[t]>> \in Teams \X People
          BY <1>0, <4>1 DEF TeamInv, OwnerStaysAdmin, Shapes
        <4> QED
          BY <3>2, <3>4, <4>2
      <3> QED
        BY <3>3, <3>4
    <2> QED
      BY <2>1, <2>2
  <1> QED
    BY <1>0, <1>2, <1>3, <1>4, SeatKeeps

(* Whoever is added has proved the address, whoever accepts too.           *)
LEMMA AddKeeps ==
    ASSUME TeamInv, NEW c \in Calls, AddMember(c) \/ Accept(c)
    PROVE  TeamInv'
  <1>0. Shapes /\ Ready(c) /\ call[c].pc \in {"addMember", "accept"} /\ teams[c] = Nobody
        /\ call[c].pc \notin Created
    BY DEF TeamInv, AddMember, Accept, Ready, Created
  <1>1. PICK t, u, role : t = call[c].team /\ u \in {call[c].who, call[c].by} /\ Proven(u)
                          /\ Seat(c, t, u, role)
    BY <1>0, Zenon DEF AddMember, Accept, Ready
  <1>2. CASE \E ok : Answer(c, ok)
    <2>1. Turn(c) /\ Ready(c)'
      BY <1>0, <1>2, AnswerTurns
    <2>2. OwnerStaysAdmin'
      BY <1>0, <1>1, <2>1, SeatKeepsOwners
    <2> QED
      BY <1>0, <1>1, <2>1, <2>2, SeatKeeps
  <1>3. CASE Advance(c, "dropAccepted")
    <2>1. Onward(c, "dropAccepted")
      BY <1>0, <1>3, AdvanceIs
    <2>2. Turn(c)
      BY <1>0, <2>1 DEF Turn, Onward
    <2>3. t # Nobody => Born(t)'
      BY <1>0, <1>1, <2>2, BornStays DEF Ready
    <2>4. Ready(c)'
      BY <1>0, <1>1, <2>1, <2>3 DEF Ready, Onward, Created, Checks, Seat
    <2>5. OwnerStaysAdmin'
      BY <1>0, <1>1, <2>2, SeatKeepsOwners
    <2> QED
      BY <1>0, <1>1, <2>2, <2>4, <2>5, SeatKeeps
  <1> QED
    BY <1>2, <1>3 DEF AddMember, Accept

(* The membership changed or removed is not that of the team's owner.      *)
LEMMA ChangeKeeps ==
    ASSUME TeamInv, NEW c \in Calls, ChangeMember(c)
    PROVE  TeamInv'
  <1>0. /\ Shapes /\ Ready(c) /\ call[c].pc \in {"changeRole", "removeMember"}
        /\ teams[c] = Nobody /\ call[c].pc \notin Created /\ UNCHANGED accounts
        /\ UNCHANGED teams /\ UNCHANGED invites /\ UNCHANGED boxes /\ UNCHANGED grants
    BY DEF TeamInv, ChangeMember, Ready, Created
  <1> PICK t, u : t = call[c].team /\ u = call[c].who
    OBVIOUS
  <1>1. t \in Teams => teams[t] = Nobody \/ teams[t] # u
    BY <1>0 DEF Ready
  <1>2. PICK ok : Answer(c, ok)
    BY DEF ChangeMember
  <1>3. Turn(c) /\ Ready(c)'
    BY <1>0, <1>2, AnswerTurns
  <1>4. KeepsOthers(c)
    BY <1>0 DEF KeepsOthers, Proven
  <1>5. /\ members' = [x \in Teams \X People |-> members'[x]]
        /\ \A x \in Teams \X People : members'[x] # members[x] => x = <<t, u>>
        /\ \A x \in Teams \X People : members'[x] # Nobody => members[x] # Nobody
    BY <1>0 DEF Shapes, ChangeMember
  <1>6. Shapes'
    BY <1>0, <1>3, <1>5 DEF Shapes, Turn
  <1>7. InvitesBorn'
    BY <1>0, <1>3, InvitesStayBorn
  <1>8. ASSUME NEW v \in Teams, teams'[v] # Nobody
        PROVE  members'[<<v, teams[v]>>] = members[<<v, teams[v]>>]
    <2>1. <<v, teams[v]>> \in Teams \X People /\ teams[v] # Nobody
      BY <1>0, <1>8 DEF Shapes
    <2>2. <<v, teams[v]>> # <<t, u>>
      BY <1>1, <2>1
    <2> QED
      BY <1>5, <2>1, <2>2
  <1>9. OwnerStaysAdmin'
    BY <1>0, <1>3, <1>8, OwnersStay
  <1>10. MembersAreProven'
    BY <1>0, <1>5 DEF MembersAreProven, TeamInv
  <1> QED
    BY <1>3, <1>4, <1>6, <1>7, <1>9, <1>10, WriteKeeps

(* A deleted team leaves no members and no invitations.                    *)
LEMMA DeleteTeamKeeps ==
    ASSUME TeamInv, NEW c \in Calls, DeleteTeam(c)
    PROVE  TeamInv'
  <1>0. /\ Shapes /\ Ready(c) /\ call[c].pc = "deleteTeam" /\ teams[c] = Nobody
        /\ UNCHANGED accounts /\ UNCHANGED grants /\ c \in Teams
    BY DEF TeamInv, DeleteTeam, Ready, Created, Teams
  <1> PICK t : t = call[c].team
    OBVIOUS
  <1>1. PICK ok : Answer(c, ok)
    BY DEF DeleteTeam
  <1>2. Turn(c) /\ Ready(c)'
    BY <1>0, <1>1, AnswerTurns
  <1>3. /\ teams' \in [Teams -> People \cup {Nobody}]
        /\ \A v \in Teams : teams'[v] = IF v = t THEN Nobody ELSE teams[v]
        /\ members' = [x \in Teams \X People |-> members'[x]]
        /\ \A v \in Teams, u \in People :
             members'[<<v, u>>] = IF v = t THEN Nobody ELSE members[<<v, u>>]
        /\ invites' = [i \in Calls |-> invites'[i]]
        /\ \A i \in Calls : invites'[i] \in {invites[i], Nobody}
    BY <1>0 DEF Shapes, DeleteTeam
  <1>4. KeepsOthers(c)
    BY <1>0, <1>3 DEF KeepsOthers, Proven
  <1>5. Shapes'
    BY <1>0, <1>2, <1>3 DEF Shapes, Turn
  <1>6. InvitesBorn'
    BY <1>2, <1>3, InvitesStayBorn
  <1>7. ASSUME NEW v \in Teams, teams'[v] # Nobody
        PROVE  members'[<<v, teams[v]>>] = members[<<v, teams[v]>>]
    <2>1. v # t /\ teams[v] \in People
      BY <1>0, <1>3, <1>7 DEF Shapes
    <2> QED
      BY <1>3, <2>1
  <1>8. OwnerStaysAdmin'
    BY <1>0, <1>2, <1>3, <1>7, OwnersStay
  <1>9. MembersAreProven'
    <2>1. \A v \in Teams, u \in People : members'[<<v, u>>] # Nobody =>
            members'[<<v, u>>] = members[<<v, u>>] /\ teams'[v] = teams[v]
      BY <1>3
    <2> QED
      BY <1>0, <2>1 DEF MembersAreProven, TeamInv
  <1> QED
    BY <1>2, <1>4, <1>5, <1>6, <1>8, <1>9, WriteKeeps

(***************************************************************************)
(* Accounts.                                                               *)
(***************************************************************************)
(* A proof of an address is not taken back, except with the account.       *)
LEMMA AccountsKeep ==
    ASSUME Shapes, NEW u \in People, accounts[u] # Nobody,
           SetGlobalRole(u) \/ Verify(u) \/ DeleteAccount(u)
    PROVE  /\ accounts' \in [People -> Account \cup {Nobody}]
           /\ \A v \in People : Proven(v) => Proven(v)'
           /\ ~DeleteAccount(u) => \A v \in People : accounts'[v] = Nobody <=> accounts[v] = Nobody
           /\ \A v \in People : v # u => accounts'[v] = accounts[v]
  <1>1. accounts[u] \in Account /\ Nobody \notin Account
    BY TeamAccessAssumption DEF Shapes, Account
  <1>2. CASE SetGlobalRole(u)
    <2>1. PICK role \in {"admin", "user"} : accounts' = [accounts EXCEPT ![u].role = role]
      BY <1>2 DEF SetGlobalRole
    <2>2. accounts'[u] \in Account /\ accounts'[u].verified = accounts[u].verified
      BY <1>1, <2>1 DEF Shapes, Account
    <2> QED
      BY <1>1, <2>1, <2>2 DEF Shapes, Proven
  <1>3. CASE Verify(u)
    <2>1. accounts'[u] \in Account /\ accounts'[u].verified
      BY <1>1, <1>3 DEF Shapes, Account, Verify
    <2> QED
      BY <1>1, <1>3, <2>1 DEF Shapes, Proven, Verify
  <1>4. CASE DeleteAccount(u)
    BY <1>4 DEF Shapes, Proven, DeleteAccount
  <1> QED
    BY <1>2, <1>3, <1>4

(* The account routes take no proof back, and take the memberships of an   *)
(* account along.                                                          *)
LEMMA AccountWriteKeeps ==
    ASSUME TeamInv, NEW c \in Calls, AccountWrite(c)
    PROVE  TeamInv'
  <1>0. /\ Shapes /\ Ready(c) /\ call[c].pc = "idle" /\ teams[c] = Nobody /\ c \in Teams
    BY DEF TeamInv, AccountWrite, NoCall, Ready, Created, Teams
  <1>1. Answer(c, TRUE)
    BY DEF AccountWrite
  <1>2. Turn(c) /\ Ready(c)'
    BY <1>0, <1>1, AnswerTurns
  <1>3. PICK u \in People : /\ accounts[u] # Nobody
                            /\ SetGlobalRole(u) \/ Verify(u) \/ DeleteAccount(u)
    BY DEF AccountWrite
  <1>4. /\ accounts' \in [People -> Account \cup {Nobody}]
        /\ \A v \in People : Proven(v) => Proven(v)'
        /\ ~DeleteAccount(u) => \A v \in People : accounts'[v] = Nobody <=> accounts[v] = Nobody
        /\ \A v \in People : v # u => accounts'[v] = accounts[v]
    BY <1>0, <1>3, AccountsKeep
  <1>5. CASE ~DeleteAccount(u)
    <2>1. /\ UNCHANGED teams /\ UNCHANGED members /\ UNCHANGED invites /\ UNCHANGED boxes
          /\ UNCHANGED grants
      BY <1>3, <1>5 DEF SetGlobalRole, Verify
    <2>2. KeepsOthers(c)
      BY <1>4, <2>1 DEF KeepsOthers
    <2>3. Shapes'
      BY <1>0, <1>2, <1>4, <2>1 DEF Shapes, Turn
    <2>4. InvitesBorn'
      BY <1>2, <2>1, InvitesStayBorn
    <2>5. OwnerStaysAdmin'
      BY <1>0, <1>2, <2>1, OwnersStay
    <2>6. MembersAreProven'
      BY <1>4, <1>5, <2>1 DEF MembersAreProven, TeamInv, Proven
    <2> QED
      BY <1>2, <2>2, <2>3, <2>4, <2>5, <2>6, WriteKeeps
  <1>6. CASE DeleteAccount(u)
    <2>1. /\ teams' \in [Teams -> People \cup {Nobody}]
          /\ \A v \in Teams : teams'[v] = IF teams[v] = u THEN Nobody ELSE teams[v]
          /\ members' = [x \in Teams \X People |-> members'[x]]
          /\ \A v \in Teams, w \in People : members'[<<v, w>>] =
               IF teams[v] = u \/ w = u THEN Nobody ELSE members[<<v, w>>]
      BY <1>0, <1>6 DEF Shapes, DeleteAccount
    <2>2. /\ invites' = [i \in Calls |-> invites'[i]]
          /\ \A i \in Calls : invites'[i] \in {invites[i], Nobody}
          /\ grants' = [x \in Boxes \X People |-> grants'[x]]
          /\ \A b \in Boxes, w \in People : grants'[<<b, w>>] # Nobody =>
               grants'[<<b, w>>] = grants[<<b, w>>] /\ w # u
      BY <1>0, <1>6 DEF Shapes, DeleteAccount
    <2>3. KeepsOthers(c)
      BY <1>4, <2>1 DEF KeepsOthers
    <2>4. Shapes'
      BY <1>0, <1>2, <1>4, <2>1, <2>2 DEF Shapes, Turn
    <2>5. InvitesBorn'
      BY <1>2, <2>2, InvitesStayBorn
    <2>6. ASSUME NEW v \in Teams, teams'[v] # Nobody
          PROVE  members'[<<v, teams[v]>>] = members[<<v, teams[v]>>]
      <3>1. teams[v] # u /\ teams[v] \in People
        BY <1>0, <2>1, <2>6 DEF Shapes
      <3> QED
        BY <2>1, <3>1
    <2>7. OwnerStaysAdmin'
      BY <1>0, <1>2, <2>1, <2>6, OwnersStay
    <2>8. \A v \in Teams, w \in People : members'[<<v, w>>] # Nobody =>
            members'[<<v, w>>] = members[<<v, w>>] /\ teams'[v] = teams[v] /\ w # u
      BY <2>1
    <2>9. MembersAreProven'
      BY <1>4, <2>2, <2>8 DEF MembersAreProven, TeamInv
    <2> QED
      BY <1>2, <2>3, <2>4, <2>5, <2>7, <2>9, WriteKeeps
  <1> QED
    BY <1>5, <1>6

(***************************************************************************)
(* The theorem.                                                            *)
(***************************************************************************)
LEMMA TeamInvHolds == TeamSpec => []TeamInv
  <1>1. TeamInit => TeamInv
    <2> SUFFICES ASSUME TeamInit
                 PROVE  TeamInv
      OBVIOUS
    <2>1. /\ accounts \in [People -> Account] /\ call = [c \in Calls |-> NoCall]
          /\ invites = [c \in Calls |-> Nobody]
      BY DEF TeamInit, Account
    <2>2. PICK a \in People : /\ teams = [x \in Teams |-> IF x = Team THEN a ELSE Nobody]
                              /\ members = [x \in Teams \X People |-> members[x]]
                              /\ members[<<Team, a>>] = "admin"
                              /\ \A x \in Teams, u \in People : members[<<x, u>>] # Nobody =>
                                   x = Team /\ (u = a \/ accounts[u].verified)
      BY DEF TeamInit
    <2>3. /\ grants = [x \in Boxes \X People |-> grants[x]]
          /\ \A x \in Boxes, u \in People : grants[<<x, u>>] # Nobody => accounts[u].verified
      BY DEF TeamInit
    <2>4. Shaped(NoCall) /\ NoCall.pc = "idle" /\ ~NoCall.ok /\ NoCall.team = Nobody
      BY DEF Shaped, NoCall
    <2>5. \A t \in Calls : t # Team
      BY TeamAccessAssumption
    <2>6. Shapes
      BY <2>1, <2>2, <2>3, <2>4 DEF Shapes
    <2>7. \A c \in Calls : Ready(c)
      BY <2>1, <2>2, <2>4, <2>5 DEF Ready, Created, Checks, Teams
    <2>8. OwnerStaysAdmin
      BY <2>1, <2>2, <2>4, <2>5 DEF OwnerStaysAdmin, Teams
    <2>9. \A u \in People : accounts[u] # Nobody
      BY <2>1, TeamAccessAssumption DEF Account
    <2>10. MembersAreProven
      BY <2>2, <2>3, <2>9 DEF MembersAreProven, Teams
    <2> QED
      BY <2>1, <2>6, <2>7, <2>8, <2>10 DEF TeamInv, InvitesBorn
  <1>2. TeamInv /\ [TeamNext]_teamVars => TeamInv'
    <2> SUFFICES ASSUME TeamInv, [TeamNext]_teamVars
                 PROVE  TeamInv'
      OBVIOUS
    <2>1. CASE UNCHANGED teamVars
      <3>1. /\ UNCHANGED accounts /\ UNCHANGED teams /\ UNCHANGED members /\ UNCHANGED invites
            /\ UNCHANGED boxes /\ UNCHANGED grants /\ UNCHANGED call
        BY <2>1 DEF teamVars, teamTables
      <3>2. Shapes' /\ InvitesBorn'
        BY <3>1 DEF TeamInv, Shapes, InvitesBorn, Born
      <3>3. OwnerStaysAdmin' /\ MembersAreProven'
        BY <3>1 DEF TeamInv, OwnerStaysAdmin, MembersAreProven
      <3>4. ASSUME NEW c \in Calls
            PROVE  Ready(c)'
        <4>1. Ready(c)
          BY DEF TeamInv
        <4>2. \A u : Proven(u) => Proven(u)'
          BY <3>1 DEF Proven
        <4> QED
          BY <3>1, <4>1, <4>2 DEF Ready, Born
      <3> QED
        BY <3>2, <3>3, <3>4 DEF TeamInv
    <2>2. CASE TeamNext
      <3>1. PICK c \in Calls : \/ Request(c) \/ Check(c) \/ Read(c) \/ Write(c)
                               \/ AccountWrite(c) \/ GiveUp(c)
        BY <2>2 DEF TeamNext
      <3>2. CASE Write(c)
        BY <3>2, InsertTeamKeeps, InsertOwnerKeeps, AddKeeps, ChangeKeeps, DeleteTeamKeeps,
           AsideWritesKeep DEF Write
      <3> QED
        BY <3>1, <3>2, RequestKeeps, CheckKeeps, HandlerKeeps, AccountWriteKeeps
    <2> QED
      BY <2>1, <2>2
  <1> QED
    BY <1>1, <1>2, PTL DEF TeamSpec

(* Whatever is added, invited, accepted, changed, removed or deleted, in   *)
(* any order and by anybody, the owner of a team stays one of its          *)
(* administrators, and nobody else is in a team or shares an inbox without *)
(* having proved the address (routes/teams.ts, inbox-members.ts).          *)
THEOREM MembershipsAreSound == TeamSpec => []MembershipHolds
  <1>1. TeamInv => MembershipHolds
    BY DEF TeamInv, MembershipHolds
  <1> QED
    BY <1>1, TeamInvHolds, PTL

(***************************************************************************)
(* Roles on inboxes.  A request that finds its role in a row it reads last *)
(* holds it at that moment.  One that finds it through the team holds it   *)
(* then too, if the inbox is still in the team that was read and no grant  *)
(* has come in between; otherwise it was the one write that there was      *)
(* meanwhile which moved the inbox or added the grant, and since no such   *)
(* write gives a role in the team, the role was held before it.  A change  *)
(* of the tables is counted, so a second one ends what there is to show.   *)
(***************************************************************************)
(* The role that a membership of a team gives on its inboxes.              *)
ThroughTeam(t, u) == IF Member(t, u) = "admin" THEN "editor"
                     ELSE IF Member(t, u) = "member" THEN "viewer" ELSE Nobody

(* An inbox that others can name is not created any more.                  *)
BoxBorn(b) == b \in Boxes /\ (b \in Calls => call[b].pc = "done")
BoxShapes == /\ boxes = [b \in Boxes |-> boxes[b]]
             /\ \A b \in Boxes : boxes[b] # Nobody => DOMAIN boxes[b] = {"owner", "team"}
             /\ \A b \in Boxes : boxes[b] # Nobody => BoxBorn(b)

(* What a request that asks for a role on an inbox is about.               *)
Asked(c) ==
    /\ call[c].granted \in Nat
    /\ Resolving(c) => call[c].granted = 0 /\ call[c].op \in BoxOps
    /\ Resolving(c) \/ call[c].granted > 0 => call[c].by \in People /\ BoxBorn(call[c].box)

(* The one write there was took the inbox out of the team that was read.   *)
MovedOnce(c) ==
    /\ writes[c] = 1
    /\ Weight(ThroughTeam(call[c].seen, call[c].by)) <= best[c]

(* What a request has found so far still gives the role, or gave it.       *)
FoundTeam(c) ==
    LET b == call[c].box  own == grants[<<b, call[c].by>>] IN
    /\ call[c].pc = "grant" => \/ writes[c] = 2 \/ boxes[b] = Nobody
                               \/ boxes[b].team = call[c].seen
                               \/ writes[c] = 1 /\ own # Nobody
                               \/ MovedOnce(c)
    /\ call[c].pc = "boxTeam" => \/ writes[c] = 2 \/ boxes[b] = Nobody
                                 \/ boxes[b].team = call[c].seen /\ own = Nobody
                                 \/ MovedOnce(c)

Remembered(c) ==
    /\ best[c] \in Nat /\ writes[c] \in 0 .. 2
    /\ Resolving(c) => Weight(Effective(call[c].by, call[c].box)) <= best[c]

GrantInv == /\ BoxShapes /\ GrantWasHeld
            /\ \A c \in Calls : Asked(c) /\ FoundTeam(c) /\ Remembered(c)

(* How roles compare.                                                      *)
LEMMA Weights ==
  /\ Weight("owner") = 3 /\ Weight("editor") = 2 /\ Weight("viewer") = 1 /\ Weight(Nobody) = 0
  /\ \A role : Weight(role) \in 0 .. 3
  BY TeamAccessAssumption DEF Weight

(* What a user holds on an inbox is at least what each row gives.          *)
LEMMA HeldThrough ==
    ASSUME NEW u \in People, NEW b \in Boxes, boxes[b] # Nobody
    PROVE  /\ IsAdmin(u) \/ boxes[b].owner = u => Weight(Effective(u, b)) = 3
           /\ grants[<<b, u>>] # Nobody => Weight(grants[<<b, u>>]) <= Weight(Effective(u, b))
           /\ grants[<<b, u>>] = Nobody =>
                Weight(ThroughTeam(boxes[b].team, u)) <= Weight(Effective(u, b))
  <1>1. CASE IsAdmin(u) \/ boxes[b].owner = u
    <2>1. Effective(u, b) = "owner"
      BY <1>1 DEF Effective
    <2>2. \A role : 0 <= Weight(role) /\ Weight(role) <= 3
      BY Weights
    <2> QED
      BY <2>1, <2>2, Weights
  <1>2. CASE ~(IsAdmin(u) \/ boxes[b].owner = u) /\ grants[<<b, u>>] # Nobody
    <2>1. Effective(u, b) = grants[<<b, u>>]
      BY <1>2 DEF Effective
    <2> QED
      BY <1>2, <2>1, Weights
  <1>3. CASE ~(IsAdmin(u) \/ boxes[b].owner = u) /\ grants[<<b, u>>] = Nobody
    <2>1. Effective(u, b) = ThroughTeam(boxes[b].team, u)
      BY <1>3 DEF Effective, ThroughTeam
    <2> QED
      BY <1>3, <2>1, Weights
  <1> QED
    BY <1>1, <1>2, <1>3

(* A step is of one request, which was not done with.                      *)
LEMMA Alone ==
    ASSUME Shapes, NEW d \in Calls,
           Request(d) \/ Check(d) \/ Read(d) \/ Write(d) \/ AccountWrite(d) \/ GiveUp(d)
    PROVE  call[d].pc # "done" /\ \A c \in Calls : c # d => call'[c] = call[c]
  <1> USE DEF Answer, Advance
  <1>0. call = [c \in Calls |-> call[c]]
    BY DEF Shapes
  <1>1. CASE Request(d)
    <2>1. call[d].pc = "idle"
      BY <1>1 DEF Request, NoCall
    <2>2. \A op, pc, u, t, b, w, role : Arrive(d, op, pc, u, t, b, w, role) =>
            \A c \in Calls : c # d => call'[c] = call[c]
      BY <1>0 DEF Arrive
    <2>3. ASSUME NEW u, OnInvite(d, u)
          PROVE  \A c \in Calls : c # d => call'[c] = call[c]
      BY <1>0, <2>3 DEF OnInvite
    <2>4. ASSUME NEW u, OnTeam(d, u) \/ OnBox(d, u) \/ OnNothing(d, u)
          PROVE  \A c \in Calls : c # d => call'[c] = call[c]
      BY <2>2, <2>4 DEF OnTeam, OnBox, OnNothing
    <2> QED
      BY <1>1, <2>1, <2>3, <2>4 DEF Request
  <1>2. CASE Check(d)
    <2>1. call[d].pc # "done"
      BY <1>2 DEF Check, ReadAdmin, ReadTeamOwner, ReadTeamMember, ReadGlobalRole, ReadInbox,
                  ReadGrant, ReadBoxTeam
    <2>2. \A c \in Calls : c # d => call'[c] = call[c]
      BY <1>0, <1>2 DEF Check, ReadAdmin, ReadTeamOwner, ReadTeamMember, ReadGlobalRole,
                        ReadInbox, ReadGrant, ReadBoxTeam, Pass, Resolved
    <2> QED
      BY <2>1, <2>2
  <1>3. CASE Read(d)
    <2>1. call[d].pc # "done"
      BY <1>3 DEF Read, ReadTarget, ReadBoxOwner, ReadTeam, ReadOwner, ReadInvitee,
                  ReadPending, ReadSelf, ReadInvite, ReadSeat, AnswerRead, ReadTeamToDelete,
                  ReadDeleter
    <2>2. \A c \in Calls : c # d => call'[c] = call[c]
      BY <1>0, <1>3 DEF Read, ReadTarget, ReadBoxOwner, ReadTeam, ReadOwner, ReadInvitee,
                        ReadPending, ReadSelf, ReadInvite, ReadSeat, AnswerRead,
                        ReadTeamToDelete, ReadDeleter
    <2> QED
      BY <2>1, <2>2
  <1>4. CASE Write(d)
    <2>1. call[d].pc # "done"
      BY <1>4 DEF Write, InsertTeam, InsertOwner, AddMember, Accept, ChangeMember, Rename,
                  Invite, DropInvite, DeleteTeam, WriteGrant, CreateBox, MoveBox, GiveBox,
                  DeleteBox
    <2>2. (\E ok : Answer(d, ok)) \/ \E pc : Advance(d, pc)
      BY <1>4, Zenon DEF Write, InsertTeam, InsertOwner, AddMember, Accept, ChangeMember, Rename,
                  Invite, DropInvite, DeleteTeam, WriteGrant, CreateBox, MoveBox, GiveBox,
                  DeleteBox
    <2>3. \A c \in Calls : c # d => call'[c] = call[c]
      BY <1>0, <2>2
    <2> QED
      BY <2>1, <2>3
  <1>5. CASE AccountWrite(d) \/ GiveUp(d)
    BY <1>0, <1>5 DEF AccountWrite, GiveUp, NoCall
  <1> QED
    BY <1>1, <1>2, <1>3, <1>4, <1>5

(* What the history of a request remembers.                                *)
LEMMA Remembering ==
    ASSUME NEW c \in Calls, Remembered(c), Remember
    PROVE  /\ Remembered(c)'
           /\ Resolving(c)' => best[c] <= best'[c]
           /\ ~Resolving(c)' /\ call'[c].granted > 0 =>
                best'[c] = best[c] /\ writes'[c] = writes[c]
           /\ Resolving(c)' /\ UNCHANGED teamTables => writes'[c] = writes[c]
           /\ Resolving(c) /\ Resolving(c)' =>
                \/ UNCHANGED teamTables /\ writes'[c] = writes[c]
                \/ writes[c] = 0 /\ writes'[c] = 1
                \/ writes[c] # 0 /\ writes'[c] = 2
  <1> PICK w : w = Weight(Effective(call[c].by, call[c].box))'
    OBVIOUS
  <1>1. w \in Nat
    BY Weights
  <1>2. best[c] \in Nat /\ writes[c] \in 0 .. 2
    BY DEF Remembered
  <1>3. best'[c] = IF Resolving(c)' THEN Larger(best[c], w)
                   ELSE IF call'[c].granted > 0 THEN best[c] ELSE 0
    BY DEF Remember
  <1>4. writes'[c] = IF ~Resolving(c)' THEN IF call'[c].granted > 0 THEN writes[c] ELSE 0
                     ELSE IF Resolving(c) /\ teamTables' # teamTables /\ writes[c] < 2
                     THEN writes[c] + 1 ELSE writes[c]
    BY DEF Remember
  <1>5. /\ best'[c] \in Nat /\ writes'[c] \in 0 .. 2
        /\ Resolving(c)' => w <= best'[c] /\ best[c] <= best'[c]
    BY <1>1, <1>2, <1>3, <1>4 DEF Larger
  <1>6. Remembered(c)'
    BY <1>5 DEF Remembered
  <1>7. ~Resolving(c)' /\ call'[c].granted > 0 =>
          best'[c] = best[c] /\ writes'[c] = writes[c]
    BY <1>3, <1>4
  <1>8. Resolving(c) /\ Resolving(c)' =>
          \/ UNCHANGED teamTables /\ writes'[c] = writes[c]
          \/ writes[c] = 0 /\ writes'[c] = 1
          \/ writes[c] # 0 /\ writes'[c] = 2
    BY <1>2, <1>4
  <1>9. Resolving(c)' /\ UNCHANGED teamTables => writes'[c] = writes[c]
    BY <1>4
  <1> QED
    BY <1>5, <1>6, <1>7, <1>8, <1>9

(* What a write may do to a user's role on an inbox: it leaves the inbox   *)
(* in its team and gives no grant, or it moves the inbox, or it gives a    *)
(* grant, or the role in the team is gone.                                 *)
Stays(b, u) ==
    \/ boxes'[b].team = boxes[b].team /\ grants'[<<b, u>>] \in {grants[<<b, u>>], Nobody}
    \/ UNCHANGED members /\ grants'[<<b, u>>] = grants[<<b, u>>]
    \/ UNCHANGED members /\ boxes'[b].team = boxes[b].team
    \/ \A t : t = boxes[b].team => ThroughTeam(t, u)' = Nobody

Reshaped(d) ==
    /\ boxes' = [b \in Boxes |-> boxes'[b]]
    /\ \A b \in Boxes : boxes'[b] # Nobody => DOMAIN boxes'[b] = {"owner", "team"}
    /\ \A b \in Boxes : boxes'[b] # Nobody /\ boxes[b] = Nobody => b = d /\ call'[d].pc = "done"
    /\ \A b \in Boxes, u \in People : boxes[b] # Nobody /\ boxes'[b] # Nobody => Stays(b, u)

(* Most writes touch neither an inbox nor a grant.                         *)
LEMMA BoxesRest ==
    ASSUME BoxShapes, NEW d \in Calls, UNCHANGED boxes, UNCHANGED grants
    PROVE  Reshaped(d)
  BY DEF BoxShapes, Reshaped, Stays

(* A team that is deleted gives no role any more.                          *)
LEMMA TeamGone ==
    ASSUME NEW t, NEW u \in People, t \in Teams => members'[<<t, u>>] = Nobody
    PROVE  ThroughTeam(t, u)' = Nobody
  BY TeamAccessAssumption DEF ThroughTeam, Member

(* The writes of the routes.                                               *)
LEMMA WriteReshapes ==
    ASSUME Shapes, BoxShapes, NEW d \in Calls, Write(d)
    PROVE  Reshaped(d)
  <1>0. grants = [x \in Boxes \X People |-> grants[x]]
    BY DEF Shapes
  <1>1. CASE InsertTeam(d) \/ InsertOwner(d) \/ AddMember(d) \/ Accept(d) \/ ChangeMember(d)
             \/ Rename(d) \/ Invite(d) \/ DropInvite(d)
    <2>1. UNCHANGED boxes /\ UNCHANGED grants
      BY <1>1 DEF InsertTeam, InsertOwner, AddMember, Accept, ChangeMember, Rename, Invite,
                  DropInvite, Seat, teamTables
    <2> QED
      BY <2>1, BoxesRest
  <1>2. CASE DeleteTeam(d)
    <2> PICK t : t = call[d].team
      OBVIOUS
    <2>1. /\ boxes' = [b \in Boxes |-> IF boxes[b] # Nobody /\ boxes[b].team = t
                                       THEN [boxes[b] EXCEPT !.team = Nobody] ELSE boxes[b]]
          /\ members' = [x \in Teams \X People |-> IF x[1] = t THEN Nobody ELSE members[x]]
          /\ UNCHANGED grants
      BY <1>2 DEF DeleteTeam
    <2>2. /\ boxes' = [b \in Boxes |-> boxes'[b]]
          /\ \A b \in Boxes : boxes'[b] # Nobody => DOMAIN boxes'[b] = {"owner", "team"}
          /\ \A b \in Boxes : boxes'[b] # Nobody => boxes[b] # Nobody
          /\ \A b \in Boxes : boxes[b].team # t => boxes'[b] = boxes[b]
      BY <2>1 DEF BoxShapes
    <2>3. ASSUME NEW b \in Boxes, NEW u \in People PROVE Stays(b, u)
      <3>1. CASE boxes[b].team = t
        <4>1. t \in Teams => members'[<<t, u>>] = Nobody
          BY <2>1
        <4>2. ThroughTeam(t, u)' = Nobody
          BY <4>1, TeamGone
        <4> QED
          BY <3>1, <4>2 DEF Stays
      <3>2. CASE boxes[b].team # t
        BY <2>1, <2>2, <3>2 DEF Stays
      <3> QED
        BY <3>1, <3>2
    <2> QED
      BY <2>2, <2>3 DEF Reshaped
  <1>3. CASE WriteGrant(d)
    <2>1. UNCHANGED boxes /\ UNCHANGED members
      BY <1>3 DEF WriteGrant
    <2> QED
      BY <2>1 DEF BoxShapes, Reshaped, Stays
  <1>4. CASE CreateBox(d)
    <2>1. /\ \/ UNCHANGED boxes
             \/ boxes' = [boxes EXCEPT ![d] = [owner |-> call[d].by, team |-> call[d].team]]
          /\ UNCHANGED grants /\ UNCHANGED members
          /\ \E ok : Answer(d, ok)
      BY <1>4 DEF CreateBox
    <2>2. call'[d].pc = "done"
      BY <2>1, AnswerIs
    <2>3. /\ boxes' = [b \in Boxes |-> boxes'[b]]
          /\ \A b \in Boxes : boxes'[b] # Nobody => DOMAIN boxes'[b] = {"owner", "team"}
          /\ \A b \in Boxes : b # d => boxes'[b] = boxes[b]
      BY <2>1 DEF BoxShapes
    <2> QED
      BY <2>1, <2>2, <2>3 DEF Reshaped, Stays
  <1>5. CASE MoveBox(d) \/ GiveBox(d)
    <2> PICK n : n = call[d].box
      OBVIOUS
    <2>1. /\ \/ UNCHANGED boxes
             \/ /\ boxes[n] # Nobody
                /\ \/ \E t : boxes' = [boxes EXCEPT ![n].team = t]
                   \/ \E w : boxes' = [boxes EXCEPT ![n].owner = w]
          /\ UNCHANGED grants /\ UNCHANGED members
      BY <1>5 DEF MoveBox, GiveBox
    <2>2. /\ boxes' = [b \in Boxes |-> boxes'[b]]
          /\ \A b \in Boxes : boxes'[b] # Nobody => DOMAIN boxes'[b] = {"owner", "team"}
          /\ \A b \in Boxes : boxes'[b] # Nobody => boxes[b] # Nobody
      BY <2>1 DEF BoxShapes
    <2> QED
      BY <2>1, <2>2 DEF Reshaped, Stays
  <1>6. CASE DeleteBox(d)
    <2> PICK n : n = call[d].box
      OBVIOUS
    <2>1. /\ boxes' = [boxes EXCEPT ![n] = Nobody]
          /\ grants' = [x \in Boxes \X People |-> IF x[1] = n THEN Nobody ELSE grants[x]]
      BY <1>6 DEF DeleteBox
    <2>2. /\ boxes' = [b \in Boxes |-> boxes'[b]]
          /\ \A b \in Boxes : boxes'[b] # Nobody => boxes'[b] = boxes[b]
          /\ \A b \in Boxes, u \in People : grants'[<<b, u>>] \in {grants[<<b, u>>], Nobody}
      BY <2>1 DEF BoxShapes
    <2> QED
      BY <2>2 DEF BoxShapes, Reshaped, Stays
  <1> QED
    BY <1>1, <1>2, <1>3, <1>4, <1>5, <1>6 DEF Write

(* The writes of the account routes.                                       *)
LEMMA AccountReshapes ==
    ASSUME Shapes, BoxShapes, NEW d \in Calls, AccountWrite(d)
    PROVE  Reshaped(d)
  <1>1. PICK v \in People : SetGlobalRole(v) \/ Verify(v) \/ DeleteAccount(v)
    BY DEF AccountWrite
  <1>2. CASE SetGlobalRole(v) \/ Verify(v)
    BY <1>2, BoxesRest DEF SetGlobalRole, Verify
  <1>3. CASE DeleteAccount(v)
    <2> PICK gone \in SUBSET Teams, emptied \in SUBSET Boxes :
          /\ members' = [x \in Teams \X People |-> IF x[1] \in gone \/ x[2] = v THEN Nobody
                                                  ELSE members[x]]
          /\ boxes' = [b \in Boxes |-> IF b \in emptied THEN Nobody
                                       ELSE IF boxes[b] # Nobody /\ boxes[b].team \in gone
                                       THEN [boxes[b] EXCEPT !.team = Nobody] ELSE boxes[b]]
          /\ grants' = [x \in Boxes \X People |-> IF x[1] \in emptied \/ x[2] = v THEN Nobody
                                                 ELSE grants[x]]
      BY <1>3, Zenon DEF DeleteAccount
    <2>1. /\ boxes' = [b \in Boxes |-> boxes'[b]]
          /\ \A b \in Boxes : boxes'[b] # Nobody => DOMAIN boxes'[b] = {"owner", "team"}
          /\ \A b \in Boxes : boxes'[b] # Nobody => boxes[b] # Nobody
          /\ \A b \in Boxes : boxes'[b] # Nobody /\ boxes[b].team \notin gone => boxes'[b] = boxes[b]
          /\ \A b \in Boxes, u \in People : grants'[<<b, u>>] \in {grants[<<b, u>>], Nobody}
      BY DEF BoxShapes
    <2>2. ASSUME NEW b \in Boxes, NEW u \in People, boxes'[b] # Nobody PROVE Stays(b, u)
      <3>1. CASE boxes[b].team \in gone
        <4>1. \A t \in gone : members'[<<t, u>>] = Nobody
          OBVIOUS
        <4>2. \A t \in gone : ThroughTeam(t, u)' = Nobody
          BY <4>1, TeamGone
        <4> QED
          BY <3>1, <4>2 DEF Stays
      <3>2. CASE boxes[b].team \notin gone
        BY <2>1, <2>2, <3>2 DEF Stays
      <3> QED
        BY <3>1, <3>2
    <2> QED
      BY <2>1, <2>2 DEF Reshaped
  <1> QED
    BY <1>1, <1>2, <1>3

WasHeld(c) == call[c].granted > 0 =>
    call[c].granted <= best[c] \/ writes[c] = 2 \/ boxes[call[c].box] = Nobody

(* An inbox that others can name stays so, and does not come back.         *)
LEMMA BoxStays ==
    ASSUME NEW d \in Calls, call[d].pc # "done", \A c \in Calls : c # d => call'[c] = call[c],
           UNCHANGED teamTables \/ Reshaped(d), NEW b, BoxBorn(b)
    PROVE  BoxBorn(b)' /\ (boxes[b] = Nobody => boxes'[b] = Nobody)
  <1>1. b # d /\ BoxBorn(b)'
    BY DEF BoxBorn
  <1> QED
    BY <1>1 DEF BoxBorn, Reshaped, teamTables

(* A step of another request leaves a request with what it has found: the  *)
(* first write that takes it away is remembered.                           *)
LEMMA OthersFind ==
    ASSUME TeamInv, BoxShapes, NEW d \in Calls, call[d].pc # "done",
           \A i \in Calls : i # d => call'[i] = call[i],
           UNCHANGED teamTables \/ Reshaped(d), Remember,
           NEW c \in Calls, c # d, Asked(c), FoundTeam(c), Remembered(c), WasHeld(c)
    PROVE  Asked(c)' /\ FoundTeam(c)' /\ Remembered(c)' /\ WasHeld(c)'
  <1> PICK b, u, seen : b = call[c].box /\ u = call[c].by /\ seen = call[c].seen
    OBVIOUS
  <1>1. call'[c] = call[c] /\ (Resolving(c)' <=> Resolving(c))
    BY DEF Resolving
  <1>2. /\ Remembered(c)' /\ best[c] \in Nat /\ best'[c] \in Nat
        /\ Resolving(c) => best[c] <= best'[c]
        /\ ~Resolving(c) /\ call[c].granted > 0 =>
             best'[c] = best[c] /\ writes'[c] = writes[c]
        /\ Resolving(c) /\ UNCHANGED teamTables => writes'[c] = writes[c]
        /\ Resolving(c) => \/ UNCHANGED teamTables /\ writes'[c] = writes[c]
                           \/ writes[c] = 0 /\ writes'[c] = 1
                           \/ writes[c] # 0 /\ writes'[c] = 2
    BY <1>1, Remembering DEF Remembered
  <1>3. Resolving(c) \/ call[c].granted > 0 =>
          /\ u \in People /\ BoxBorn(b) /\ BoxBorn(b)'
          /\ boxes[b] = Nobody => boxes'[b] = Nobody
    BY BoxStays DEF Asked
  <1>4. Asked(c)'
    BY <1>1, <1>3 DEF Asked
  <1>5. WasHeld(c)'
    BY <1>1, <1>2, <1>3 DEF WasHeld, Asked
  <1>6. ASSUME Resolving(c)
        PROVE  FoundTeam(c)'
    <2>1. CASE UNCHANGED teamTables /\ writes'[c] = writes[c]
      <3>1. UNCHANGED boxes /\ UNCHANGED members /\ UNCHANGED grants
        BY <2>1 DEF teamTables
      <3>2. ThroughTeam(seen, u)' = ThroughTeam(seen, u)
        BY <3>1 DEF ThroughTeam, Member
      <3>3. Weight(ThroughTeam(seen, u)) \in Nat
        BY Weights
      <3>4. MovedOnce(c) => MovedOnce(c)'
        BY <1>1, <1>2, <1>6, <2>1, <3>2, <3>3 DEF MovedOnce
      <3> QED
        BY <1>1, <2>1, <3>1, <3>4 DEF FoundTeam
    <2>2. CASE writes'[c] = 2
      BY <2>2 DEF FoundTeam
    <2>3. CASE writes[c] = 0 /\ writes'[c] = 1 /\ ~UNCHANGED teamTables
      <3>0. u \in People /\ b \in Boxes
        BY <1>3, <1>6 DEF BoxBorn
      <3>1. CASE boxes'[b] = Nobody
        BY <1>1, <3>1 DEF FoundTeam
      <3>2. CASE boxes'[b] # Nobody
        <4>1. Stays(b, u) /\ boxes[b] # Nobody
          BY <1>3, <1>6, <2>3, <3>0, <3>2 DEF Reshaped
        <4>2. /\ call[c].pc = "grant" => boxes[b].team = seen
              /\ call[c].pc = "boxTeam" => boxes[b].team = seen /\ grants[<<b, u>>] = Nobody
          BY <2>3, <4>1 DEF FoundTeam, MovedOnce
        <4>3. ASSUME boxes[b].team = seen, grants[<<b, u>>] = Nobody, UNCHANGED members
              PROVE  MovedOnce(c)'
          <5>1. Weight(ThroughTeam(seen, u)) <= Weight(Effective(u, b))
            BY <3>0, <4>1, <4>3, HeldThrough
          <5>2. Weight(Effective(u, b)) <= best[c]
            BY <1>6 DEF Remembered
          <5>3. ThroughTeam(seen, u)' = ThroughTeam(seen, u)
            BY <4>3 DEF ThroughTeam, Member
          <5>4. Weight(ThroughTeam(seen, u)) \in Nat /\ Weight(Effective(u, b)) \in Nat
            BY Weights
          <5>5. Weight(ThroughTeam(seen, u)) <= best'[c]
            BY <1>2, <1>6, <5>1, <5>2, <5>4
          <5> QED
            BY <1>1, <2>3, <5>3, <5>5 DEF MovedOnce
        <4>4. ASSUME ThroughTeam(seen, u)' = Nobody
              PROVE  MovedOnce(c)'
          <5>1. Weight(ThroughTeam(seen, u)') = 0
            BY <4>4, Weights
          <5> QED
            BY <1>1, <1>2, <2>3, <5>1 DEF MovedOnce
        <4>5. CASE call[c].pc = "grant"
          BY <1>1, <2>3, <4>1, <4>2, <4>3, <4>4, <4>5 DEF FoundTeam, Stays
        <4>6. CASE call[c].pc = "boxTeam"
          BY <1>1, <2>3, <4>1, <4>2, <4>3, <4>4, <4>6 DEF FoundTeam, Stays
        <4> QED
          BY <1>1, <4>5, <4>6 DEF FoundTeam
      <3> QED
        BY <3>1, <3>2
    <2> QED
      BY <1>2, <1>6, <2>1, <2>2, <2>3
  <1>7. ASSUME ~Resolving(c)
        PROVE  FoundTeam(c)'
    <2>1. call'[c].pc \notin {"grant", "boxTeam"}
      BY <1>1, <1>7 DEF Resolving
    <2> QED
      BY <2>1 DEF FoundTeam
  <1>8. FoundTeam(c)'
    BY <1>6, <1>7
  <1>9. Remembered(c)'
    BY <1>2
  <1> QED
    BY <1>4, <1>5, <1>8, <1>9

(* A request that is done resolving keeps the role it was granted.         *)
SettledRole(d) ==
    /\ ~Resolving(d)'
    /\ call'[d].granted \in {0, call[d].granted}
    /\ call'[d].granted > 0 => call'[d].by = call[d].by /\ call'[d].box = call[d].box

(* A request that goes on with the role that it was granted has held it.   *)
LEMMA SettledHeld ==
    ASSUME TeamInv, BoxShapes, NEW d \in Calls, call[d].pc # "done",
           \A i \in Calls : i # d => call'[i] = call[i],
           UNCHANGED teamTables \/ Reshaped(d), Remember,
           Asked(d), Remembered(d), WasHeld(d), SettledRole(d)
    PROVE  Asked(d)' /\ FoundTeam(d)' /\ Remembered(d)' /\ WasHeld(d)'
  <1>1. /\ Remembered(d)'
        /\ call'[d].granted > 0 => best'[d] = best[d] /\ writes'[d] = writes[d]
    BY Remembering DEF SettledRole
  <1>2. call'[d].granted > 0 =>
          /\ call[d].by \in People /\ BoxBorn(call[d].box)' /\ call'[d].granted = call[d].granted
          /\ boxes[call[d].box] = Nobody => boxes'[call[d].box] = Nobody
    BY BoxStays DEF Asked, SettledRole
  <1>3. Asked(d)'
    BY <1>2 DEF Asked, SettledRole
  <1>4. FoundTeam(d)'
    BY DEF SettledRole, FoundTeam, Resolving
  <1>5. WasHeld(d)'
    BY <1>1, <1>2 DEF WasHeld, SettledRole
  <1> QED
    BY <1>1, <1>3, <1>4, <1>5

(* Answering and going on settle a request.                                *)
LEMMA CallSettles ==
    ASSUME Shapes, NEW d \in Calls,
           \/ \E ok : Answer(d, ok)
           \/ \E pc : Advance(d, pc) /\ pc \notin {"globalRole", "inbox", "grant", "boxTeam"}
    PROVE  SettledRole(d)
  <1>1. CASE \E ok : Answer(d, ok)
    <2> PICK ok : Answer(d, ok)
      BY <1>1
    <2> PICK x : x = [NoCall EXCEPT !.pc = "done", !.ok = ok]
      OBVIOUS
    <2>1. call'[d] = x
      BY DEF Answer, Shapes
    <2>2. x.pc = "done" /\ x.granted = 0
      BY DEF NoCall
    <2> QED
      BY <2>1, <2>2 DEF SettledRole, Resolving
  <1>2. ASSUME NEW pc, Advance(d, pc), pc \notin {"globalRole", "inbox", "grant", "boxTeam"}
        PROVE  SettledRole(d)
    <2>1. call'[d] = [call[d] EXCEPT !.pc = pc] /\ Shaped(call[d])
      BY <1>2 DEF Advance, Shapes
    <2>2. \A x : x = [call[d] EXCEPT !.pc = pc] =>
            /\ x.pc = pc /\ x.granted = call[d].granted
            /\ x.by = call[d].by /\ x.box = call[d].box
      BY <2>1 DEF Shaped
    <2> QED
      BY <1>2, <2>1, <2>2 DEF SettledRole, Resolving
  <1> QED
    BY <1>1, <1>2

(* A role that is found decides: the request is refused, or goes on with   *)
(* the weight of that role.                                                *)
LEMMA Resolutions ==
    ASSUME Shapes, NEW d \in Calls, Asked(d), Resolving(d), NEW role, Resolved(d, role)
    PROVE  /\ ~Resolving(d)'
           /\ call'[d].granted \in {0, Weight(role)}
           /\ call'[d].granted > 0 => call'[d].by = call[d].by /\ call'[d].box = call[d].box
  <1>0. call[d].op \in BoxOps /\ Shaped(call[d])
    BY DEF Asked, Shapes
  <1>1. CASE Answer(d, FALSE)
    <2>1. SettledRole(d)
      BY <1>1, CallSettles
    <2>2. call[d].granted = 0
      BY DEF Asked
    <2> QED
      BY <2>1, <2>2 DEF SettledRole
  <1>2. CASE ~Answer(d, FALSE)
    <2> PICK pc : pc = IF call[d].op = "moveBox" /\ call[d].team # Nobody
                       THEN "teamAdmin" ELSE FirstStep(call[d].op)
      OBVIOUS
    <2> PICK x : x = [call[d] EXCEPT !.granted = Weight(role), !.pc = pc]
      OBVIOUS
    <2>1. call'[d] = x
      BY <1>2 DEF Resolved, Shapes
    <2>2. x.pc = pc /\ x.granted = Weight(role) /\ x.by = call[d].by /\ x.box = call[d].box
      BY <1>0 DEF Shaped
    <2>3. pc \notin {"globalRole", "inbox", "grant", "boxTeam"}
      BY <1>0 DEF BoxOps, FirstStep
    <2> QED
      BY <2>1, <2>2, <2>3 DEF Resolving
  <1> QED
    BY <1>1, <1>2

(* What holds of each request.                                             *)
RoleHeld(c) == Asked(c) /\ FoundTeam(c) /\ Remembered(c) /\ WasHeld(c)

(* A role that is granted is one that was held.                            *)
LEMMA ResolvedHeld ==
    ASSUME TeamInv, BoxShapes, NEW d \in Calls, RoleHeld(d), Resolving(d),
           \A i \in Calls : i # d => call'[i] = call[i], UNCHANGED teamTables, Remember,
           NEW role, Resolved(d, role),
           Weight(role) <= best[d] \/ writes[d] = 2 \/ boxes[call[d].box] = Nobody
    PROVE  RoleHeld(d)'
  <1> USE DEF RoleHeld
  <1>1. /\ ~Resolving(d)'
        /\ call'[d].granted \in {0, Weight(role)} /\ Weight(role) \in Nat
        /\ call'[d].granted > 0 => call'[d].by = call[d].by /\ call'[d].box = call[d].box
    BY Resolutions, Weights DEF TeamInv
  <1>2. /\ Remembered(d)'
        /\ call'[d].granted > 0 => best'[d] = best[d] /\ writes'[d] = writes[d]
    BY <1>1, Remembering
  <1>3. call[d].pc # "done"
    BY DEF Resolving
  <1>4. call[d].by \in People /\ BoxBorn(call[d].box)
    BY DEF Asked
  <1> PICK b : b = call[d].box
    OBVIOUS
  <1>8. BoxBorn(b)'
    BY <1>3, <1>4, BoxStays
  <1>9. UNCHANGED boxes
    BY DEF teamTables
  <1>5. Asked(d)'
    BY <1>1, <1>4, <1>8 DEF Asked
  <1>6. FoundTeam(d)'
    BY <1>1 DEF FoundTeam, Resolving
  <1>7. WasHeld(d)'
    BY <1>1, <1>2, <1>9 DEF WasHeld
  <1> QED
    BY <1>2, <1>5, <1>6, <1>7

(* A request that asks on keeps what it asked for.                         *)
LEMMA AskingOn ==
    ASSUME TeamInv, BoxShapes, NEW d \in Calls, RoleHeld(d), Resolving(d),
           \A i \in Calls : i # d => call'[i] = call[i], UNCHANGED teamTables, Remember,
           Resolving(d)', call'[d].granted = call[d].granted, call'[d].op = call[d].op,
           call'[d].by = call[d].by, call'[d].box = call[d].box
    PROVE  /\ Asked(d)' /\ Remembered(d)' /\ WasHeld(d)'
           /\ writes'[d] = writes[d] /\ best[d] <= best'[d]
           /\ best[d] \in Nat /\ best'[d] \in Nat
  <1>1. /\ Remembered(d)' /\ Remembered(d) /\ writes'[d] = writes[d] /\ best[d] <= best'[d]
    BY Remembering DEF RoleHeld
  <1>2. call[d].pc # "done"
    BY DEF Resolving
  <1>3. call[d].by \in People /\ BoxBorn(call[d].box)'
    BY <1>2, BoxStays DEF Asked, RoleHeld
  <1>4. Asked(d)'
    BY <1>3 DEF Asked, RoleHeld
  <1>5. WasHeld(d)'
    BY <1>4 DEF Asked, WasHeld
  <1> QED
    BY <1>1, <1>4, <1>5 DEF Remembered

(* The four statements that look for a role.                               *)
LEMMA LookingHeld ==
    ASSUME TeamInv, BoxShapes, NEW d \in Calls, RoleHeld(d),
           \A i \in Calls : i # d => call'[i] = call[i], Remember,
           ReadGlobalRole(d) \/ ReadInbox(d) \/ ReadGrant(d) \/ ReadBoxTeam(d)
    PROVE  RoleHeld(d)'
  <1> PICK b, u, seen, own : b = call[d].box /\ u = call[d].by /\ seen = call[d].seen
                             /\ own = grants[<<b, u>>]
    OBVIOUS
  <1>0. /\ UNCHANGED teamTables /\ Resolving(d) /\ Shapes /\ Shaped(call[d])
        /\ call[d].pc # "done"
    BY DEF ReadGlobalRole, ReadInbox, ReadGrant, ReadBoxTeam, Resolving, TeamInv, Shapes
  <1>1. /\ u \in People /\ b \in Boxes
        /\ Weight(Effective(u, b)) <= best[d] /\ best[d] \in Nat
        /\ Weight(Effective(u, b)) \in Nat
    BY <1>0, Weights DEF RoleHeld, Asked, BoxBorn, Remembered
  <1>2. UNCHANGED boxes /\ UNCHANGED grants /\ UNCHANGED members
    BY <1>0 DEF teamTables
  <1>3. CASE Answer(d, FALSE)
    <2>1. SettledRole(d)
      BY <1>0, <1>3, CallSettles
    <2> QED
      BY <1>0, <2>1, SettledHeld DEF RoleHeld
  <1>4. ASSUME NEW role, Resolved(d, role),
               Weight(role) <= Weight(Effective(u, b)) \/ boxes[b] = Nobody
        PROVE  RoleHeld(d)'
    <2>1. Weight(role) <= best[d] \/ boxes[b] = Nobody
      BY <1>1, <1>4, Weights
    <2> QED
      BY <1>0, <1>4, <2>1, ResolvedHeld
  <1>5. CASE ReadGlobalRole(d)
    <2>1. CASE IsAdmin(u)
      <3>1. Effective(u, b) = "owner" /\ Resolved(d, "owner")
        BY <1>5, <2>1 DEF ReadGlobalRole, Effective
      <3> QED
        BY <1>1, <1>4, <3>1
    <2>2. CASE ~IsAdmin(u)
      <3> PICK x : x = [call[d] EXCEPT !.pc = "inbox"]
        OBVIOUS
      <3>1. call'[d] = x
        BY <1>0, <1>5, <2>2 DEF ReadGlobalRole, Advance, Shapes
      <3>2. /\ x.pc = "inbox" /\ x.granted = call[d].granted /\ x.op = call[d].op
            /\ x.by = call[d].by /\ x.box = call[d].box
        BY <1>0 DEF Shaped
      <3>3. Asked(d)' /\ Remembered(d)' /\ WasHeld(d)'
        BY <1>0, <3>1, <3>2, AskingOn DEF Resolving
      <3>4. FoundTeam(d)'
        BY <3>1, <3>2 DEF FoundTeam
      <3> QED
        BY <3>3, <3>4 DEF RoleHeld
    <2> QED
      BY <2>1, <2>2
  <1>6. CASE ReadInbox(d)
    <2>1. CASE boxes[b] = Nobody
      BY <1>3, <1>6, <2>1 DEF ReadInbox
    <2>2. CASE boxes[b] # Nobody /\ boxes[b].owner = u
      <3>1. Weight(Effective(u, b)) = 3 /\ Weight("owner") = 3 /\ Resolved(d, "owner")
        BY <1>1, <1>6, <2>2, HeldThrough, Weights DEF ReadInbox
      <3> QED
        BY <1>4, <3>1
    <2>3. CASE boxes[b] # Nobody /\ boxes[b].owner # u
      <3> PICK t : t = boxes[b].team
        OBVIOUS
      <3> PICK x : x = [call[d] EXCEPT !.pc = "grant", !.seen = t]
        OBVIOUS
      <3>1. call'[d] = x
        BY <1>0, <1>6, <2>3 DEF ReadInbox, Shapes
      <3>2. /\ x.pc = "grant" /\ x.granted = call[d].granted /\ x.op = call[d].op
            /\ x.by = call[d].by /\ x.box = call[d].box /\ x.seen = t
        BY <1>0 DEF Shaped
      <3>3. Asked(d)' /\ Remembered(d)' /\ WasHeld(d)'
        BY <1>0, <3>1, <3>2, AskingOn DEF Resolving
      <3>4. FoundTeam(d)'
        BY <1>2, <3>1, <3>2 DEF FoundTeam
      <3> QED
        BY <3>3, <3>4 DEF RoleHeld
    <2> QED
      BY <2>1, <2>2, <2>3
  <1>7. CASE ReadGrant(d)
    <2>1. CASE own # Nobody
      <3>1. Resolved(d, own)
        BY <1>7, <2>1 DEF ReadGrant
      <3>2. Weight(own) <= Weight(Effective(u, b)) \/ boxes[b] = Nobody
        BY <1>1, <2>1, HeldThrough
      <3> QED
        BY <1>4, <3>1, <3>2
    <2>2. CASE own = Nobody /\ seen = Nobody
      BY <1>3, <1>7, <2>2 DEF ReadGrant
    <2>3. CASE own = Nobody /\ seen # Nobody
      <3> PICK x : x = [call[d] EXCEPT !.pc = "boxTeam"]
        OBVIOUS
      <3>1. call'[d] = x
        BY <1>0, <1>7, <2>3 DEF ReadGrant, Advance, Shapes
      <3>2. /\ x.pc = "boxTeam" /\ x.granted = call[d].granted /\ x.op = call[d].op
            /\ x.by = call[d].by /\ x.box = call[d].box /\ x.seen = call[d].seen
        BY <1>0 DEF Shaped
      <3>3. /\ Asked(d)' /\ Remembered(d)' /\ WasHeld(d)' /\ writes'[d] = writes[d]
            /\ best[d] <= best'[d] /\ best'[d] \in Nat
        BY <1>0, <3>1, <3>2, AskingOn DEF Resolving
      <3>4. \/ writes[d] = 2 \/ boxes[b] = Nobody \/ boxes[b].team = seen
            \/ MovedOnce(d)
        BY <1>7, <2>3 DEF RoleHeld, FoundTeam, ReadGrant
      <3>5. ThroughTeam(seen, u)' = ThroughTeam(seen, u) /\ Weight(ThroughTeam(seen, u)) \in Nat
        BY <1>2, Weights DEF ThroughTeam, Member
      <3>6. MovedOnce(d) => MovedOnce(d)'
        BY <1>1, <3>1, <3>2, <3>3, <3>5 DEF MovedOnce
      <3>7. FoundTeam(d)'
        BY <1>2, <2>3, <3>1, <3>2, <3>3, <3>4, <3>6 DEF FoundTeam
      <3> QED
        BY <3>3, <3>7 DEF RoleHeld
    <2> QED
      BY <2>1, <2>2, <2>3
  <1>8. CASE ReadBoxTeam(d)
    <2>1. Resolved(d, ThroughTeam(seen, u)) /\ call[d].pc = "boxTeam"
      BY <1>8 DEF ReadBoxTeam, ThroughTeam
    <2>2. \/ writes[d] = 2 \/ boxes[b] = Nobody
          \/ boxes[b].team = seen /\ own = Nobody
          \/ MovedOnce(d)
      BY <2>1 DEF RoleHeld, FoundTeam
    <2>3. CASE boxes[b] # Nobody /\ boxes[b].team = seen /\ own = Nobody
      <3>1. Weight(ThroughTeam(seen, u)) <= Weight(Effective(u, b))
        BY <1>1, <2>3, HeldThrough
      <3> QED
        BY <1>4, <2>1, <3>1
    <2>4. CASE writes[d] = 2 \/ boxes[b] = Nobody \/ MovedOnce(d)
      <3>1. Weight(ThroughTeam(seen, u)) <= best[d] \/ writes[d] = 2 \/ boxes[b] = Nobody
        BY <2>4 DEF MovedOnce
      <3> QED
        BY <1>0, <2>1, <3>1, ResolvedHeld
    <2> QED
      BY <2>2, <2>3, <2>4
  <1> QED
    BY <1>5, <1>6, <1>7, <1>8

(* The checks of teams and the reads of the handlers do not look for a     *)
(* role on an inbox.                                                       *)
LEMMA ChecksSettle ==
    ASSUME TeamInv, NEW d \in Calls, ReadAdmin(d) \/ ReadTeamOwner(d) \/ ReadTeamMember(d)
    PROVE  SettledRole(d)
  <1>0. /\ Shapes /\ call[d].op \in Guarded
    BY DEF TeamInv, Ready, Checks, ReadAdmin, ReadTeamOwner, ReadTeamMember
  <1>1. CASE Answer(d, FALSE)
    BY <1>0, <1>1, CallSettles
  <1>2. CASE Pass(d)
    <2> PICK pc : pc = FirstStep(call[d].op)
      OBVIOUS
    <2>1. pc \notin {"globalRole", "inbox", "grant", "boxTeam"}
      BY <1>0 DEF Guarded, ManageOps, ViewOps, AdminOps, BoxOps, FirstStep
    <2>2. Advance(d, pc)
      BY <1>2 DEF Pass
    <2> QED
      BY <1>0, <2>1, <2>2, CallSettles
  <1>3. ASSUME NEW pc \in {"teamOwner", "teamMember"}, Advance(d, pc)
        PROVE  SettledRole(d)
    BY <1>0, <1>3, CallSettles
  <1> QED
    BY <1>1, <1>2, <1>3, Zenon DEF ReadAdmin, ReadTeamOwner, ReadTeamMember

(* A handler reads towards a write of its own.                             *)
LEMMA ReadsSettle ==
    ASSUME TeamInv, NEW d \in Calls, Read(d)
    PROVE  SettledRole(d)
  <1>0. Shapes /\ Shaped(call[d]) /\ Ready(d)
    BY DEF TeamInv, Shapes
  <1>1. ASSUME \E ok : Answer(d, ok)
        PROVE  SettledRole(d)
    BY <1>0, <1>1, CallSettles
  <1>2. ASSUME NEW pc, Advance(d, pc), pc \notin {"globalRole", "inbox", "grant", "boxTeam"}
        PROVE  SettledRole(d)
    BY <1>0, <1>2, CallSettles
  <1>3. CASE ReadTarget(d)
    <2> PICK op : op = call[d].op
      OBVIOUS
    <2>1. op \in {"addMember", "addGrant", "giveBox"}
      BY <1>0, <1>3 DEF ReadTarget, Ready
    <2>2. Answer(d, FALSE) \/ Advance(d, op) \/ Advance(d, "readBoxOwner")
      BY <1>3, Zenon DEF ReadTarget
    <2> QED
      BY <1>1, <1>2, <2>1, <2>2
  <1>4. CASE ReadOwner(d)
    <2> PICK op : op = call[d].op
      OBVIOUS
    <2>1. op \in {"changeRole", "removeMember"}
      BY <1>0, <1>4 DEF ReadOwner, Ready
    <2>2. Answer(d, FALSE) \/ Advance(d, op)
      BY <1>4, Zenon DEF ReadOwner
    <2> QED
      BY <1>1, <1>2, <2>1, <2>2
  <1>5. CASE ReadInvite(d)
    <2>1. CASE Answer(d, FALSE)
      BY <1>1, <2>1
    <2>2. CASE ~Answer(d, FALSE)
      <3> PICK i : i = invites[call[d].seen]
        OBVIOUS
      <3> PICK x : x = [call[d] EXCEPT !.pc = "readSeat", !.team = i.team, !.role = i.role]
        OBVIOUS
      <3>1. call'[d] = x
        BY <1>0, <1>5, <2>2 DEF ReadInvite, Shapes
      <3>2. /\ x.pc = "readSeat" /\ x.granted = call[d].granted
            /\ x.by = call[d].by /\ x.box = call[d].box
        BY <1>0 DEF Shaped
      <3> QED
        BY <3>1, <3>2 DEF SettledRole, Resolving
    <2> QED
      BY <2>1, <2>2
  <1>6. CASE \/ ReadBoxOwner(d) \/ ReadTeam(d) \/ ReadInvitee(d) \/ ReadPending(d)
             \/ ReadSelf(d) \/ ReadSeat(d) \/ ReadTeamToDelete(d) \/ ReadDeleter(d)
    <2>1. \/ \E ok : Answer(d, ok)
          \/ \E pc \in {"addGrant", "adminMove", "readPending", "invite", "readInvite", "decline",
                        "dropInvite", "accept", "deleteTeam", "deleteAsAdmin"} : Advance(d, pc)
      BY <1>6 DEF ReadBoxOwner, ReadTeam, ReadInvitee, ReadPending, ReadSelf, ReadSeat,
                  ReadTeamToDelete, ReadDeleter
    <2> QED
      BY <1>1, <1>2, <2>1
  <1>7. CASE AnswerRead(d)
    BY <1>1, <1>7 DEF AnswerRead
  <1> QED
    BY <1>3, <1>4, <1>5, <1>6, <1>7 DEF Read

(* A write answers, or is one of two.                                      *)
LEMMA WritesSettle ==
    ASSUME Shapes, NEW d \in Calls, Write(d) \/ AccountWrite(d) \/ GiveUp(d)
    PROVE  SettledRole(d)
  <1>1. (\E ok : Answer(d, ok)) \/ \E pc \in {"insertOwner", "dropAccepted"} : Advance(d, pc)
    <2>1. CASE AccountWrite(d) \/ GiveUp(d)
      BY <2>1 DEF AccountWrite, GiveUp
    <2>2. CASE InsertTeam(d) \/ Accept(d)
      BY <2>2 DEF InsertTeam, Accept
    <2>3. CASE \/ InsertOwner(d) \/ AddMember(d) \/ ChangeMember(d) \/ Rename(d) \/ Invite(d)
               \/ DropInvite(d) \/ DeleteTeam(d) \/ WriteGrant(d) \/ CreateBox(d)
               \/ MoveBox(d) \/ GiveBox(d) \/ DeleteBox(d)
      BY <2>3, Zenon DEF InsertOwner, AddMember, ChangeMember, Rename, Invite, DropInvite,
                  DeleteTeam, WriteGrant, CreateBox, MoveBox, GiveBox, DeleteBox
    <2> QED
      BY <2>1, <2>2, <2>3 DEF Write
  <1> QED
    BY <1>1, CallSettles

(* A request that asks for a role asks about an inbox it was shown.        *)
LEMMA RequestAsks ==
    ASSUME Shapes, NEW d \in Calls, Request(d)
    PROVE  /\ call'[d].granted = 0
           /\ \/ ~Resolving(d)'
              \/ /\ call'[d].pc = "globalRole" /\ call'[d].op \in BoxOps
                 /\ call'[d].by \in People /\ call'[d].box \in Boxes
                 /\ boxes[call'[d].box] # Nobody
  <1> USE DEF Resolving
  <1> DEFINE Fine == /\ call'[d].granted = 0
                     /\ \/ ~Resolving(d)'
                        \/ /\ call'[d].pc = "globalRole" /\ call'[d].op \in BoxOps
                           /\ call'[d].by \in People /\ call'[d].box \in Boxes
                           /\ boxes[call'[d].box] # Nobody
  <1>1. ASSUME NEW op, NEW pc, NEW u \in People, NEW t, NEW b, NEW w, NEW role,
               Arrive(d, op, pc, u, t, b, w, role),
               \/ pc \in {"teamAdmin", "readTeamToDelete", "insertTeam", "createBox"}
               \/ pc = "globalRole" /\ op \in BoxOps /\ b \in Boxes /\ boxes[b] # Nobody
        PROVE  Fine
    <2> PICK x : x = [NoCall EXCEPT !.pc = pc, !.op = op, !.by = u, !.team = t, !.box = b,
                                    !.who = w, !.role = role]
      OBVIOUS
    <2>1. call'[d] = x
      BY <1>1 DEF Arrive, Shapes
    <2>2. x.granted = 0 /\ x.pc = pc /\ x.op = op /\ x.by = u /\ x.box = b
      BY DEF NoCall
    <2> QED
      BY <1>1, <2>1, <2>2
  <1>2. ASSUME NEW u \in People, OnInvite(d, u)
        PROVE  Fine
    <2> PICK i, op : call' = [call EXCEPT ![d] =
               [NoCall EXCEPT !.op = op, !.by = u, !.seen = i, !.team = invites[i].team,
                              !.pc = IF op = "revoke" THEN "teamAdmin" ELSE "readSelf"]]
      BY <1>2, Zenon DEF OnInvite
    <2> PICK pc : pc = IF op = "revoke" THEN "teamAdmin" ELSE "readSelf"
      OBVIOUS
    <2> PICK t : t = invites[i].team
      OBVIOUS
    <2> PICK x : x = [NoCall EXCEPT !.op = op, !.by = u, !.seen = i, !.team = t, !.pc = pc]
      OBVIOUS
    <2>1. call'[d] = x
      BY DEF Shapes
    <2>2. x.granted = 0 /\ x.pc = pc
      BY DEF NoCall
    <2> QED
      BY <2>1, <2>2
  <1>3. ASSUME NEW u \in People, OnTeam(d, u)
        PROVE  Fine
    <2> HIDE DEF Fine
    <2> QED
      BY <1>1, <1>3, Zenon DEF OnTeam
  <1>4. ASSUME NEW u \in People, OnBox(d, u)
        PROVE  Fine
    <2>1. {"read", "send", "deleteBox", "addGrant", "changeGrant", "removeGrant", "moveBox"}
            \subseteq BoxOps
      BY DEF BoxOps
    <2> HIDE DEF Fine
    <2> QED
      BY <1>1, <1>4, <2>1 DEF OnBox
  <1>5. ASSUME NEW u \in People, OnNothing(d, u)
        PROVE  Fine
    <2> HIDE DEF Fine
    <2> QED
      BY <1>1, <1>5, Zenon DEF OnNothing
  <1>6. PICK u \in People : OnTeam(d, u) \/ OnInvite(d, u) \/ OnBox(d, u) \/ OnNothing(d, u)
    BY DEF Request
  <1> QED
    BY <1>2, <1>3, <1>4, <1>5, <1>6

(* So nothing has been found yet that could be out of date.                *)
LEMMA RequestHeld ==
    ASSUME TeamInv, GrantInv, NEW d \in Calls, Request(d), Remember
    PROVE  RoleHeld(d)'
  <1>0. /\ Shapes /\ UNCHANGED teamTables /\ Remembered(d) /\ BoxShapes
        /\ call[d].pc # "done" /\ \A c \in Calls : c # d => call'[c] = call[c]
    BY Alone DEF TeamInv, GrantInv, Request
  <1>1. /\ call'[d].granted = 0
        /\ \/ ~Resolving(d)'
           \/ /\ call'[d].pc = "globalRole" /\ call'[d].op \in BoxOps
              /\ call'[d].by \in People /\ call'[d].box \in Boxes
              /\ boxes[call'[d].box] # Nobody
    BY <1>0, RequestAsks
  <1>2. Remembered(d)'
    BY <1>0, Remembering
  <1> PICK b : b = call'[d].box
    OBVIOUS
  <1>3. Resolving(d)' => BoxBorn(b)'
    <2>1. Resolving(d)' => BoxBorn(b)
      BY <1>0, <1>1 DEF BoxShapes
    <2> QED
      BY <1>0, <2>1, BoxStays
  <1>4. Asked(d)'
    BY <1>1, <1>3 DEF Asked
  <1>5. FoundTeam(d)'
    BY <1>1 DEF FoundTeam, Resolving
  <1>6. WasHeld(d)'
    BY <1>1 DEF WasHeld
  <1> QED
    BY <1>2, <1>4, <1>5, <1>6 DEF RoleHeld

(* At the start nobody has asked for anything.                             *)
LEMMA GrantInit == TeamInit => GrantInv
  <1> SUFFICES ASSUME TeamInit
               PROVE  GrantInv
    OBVIOUS
  <1>1. /\ call = [c \in Calls |-> NoCall] /\ best = [c \in Calls |-> 0]
        /\ writes = [c \in Calls |-> 0] /\ NoCall.pc = "idle" /\ NoCall.granted = 0
    BY DEF TeamInit, NoCall
  <1> PICK a \in People, shared \in BOOLEAN :
        boxes = [x \in Boxes |-> IF x = Box
                                 THEN [owner |-> a, team |-> IF shared THEN Team ELSE Nobody]
                                 ELSE Nobody]
    BY Zenon DEF TeamInit
  <1>2. Box \notin Calls
    BY TeamAccessAssumption
  <1>3. BoxShapes
    BY <1>2 DEF BoxShapes, BoxBorn
  <1>4. GrantWasHeld
    BY <1>1 DEF GrantWasHeld
  <1>5. ASSUME NEW c \in Calls
        PROVE  Asked(c) /\ FoundTeam(c) /\ Remembered(c)
    BY <1>1 DEF Asked, FoundTeam, Remembered, Resolving
  <1> QED
    BY <1>3, <1>4, <1>5 DEF GrantInv

(* Every step of a request, of any kind, keeps it.                         *)
LEMMA GrantNext ==
    ASSUME TeamInv, GrantInv, TeamNext
    PROVE  GrantInv'
  <1> PICK d \in Calls : /\ \/ Request(d) \/ Check(d) \/ Read(d) \/ Write(d)
                            \/ AccountWrite(d) \/ GiveUp(d)
                         /\ Remember
    BY DEF TeamNext
  <1>1. /\ Shapes /\ BoxShapes /\ \A c \in Calls : RoleHeld(c)
    BY DEF TeamInv, GrantInv, GrantWasHeld, WasHeld, RoleHeld
  <1>2. /\ call[d].pc # "done" /\ \A c \in Calls : c # d => call'[c] = call[c]
    BY <1>1, Alone
  <1>3. UNCHANGED teamTables \/ Reshaped(d)
    <2>1. CASE Request(d) \/ GiveUp(d)
      BY <2>1 DEF Request, GiveUp
    <2>2. CASE Check(d)
      BY <2>2, Zenon DEF Check, ReadAdmin, ReadTeamOwner, ReadTeamMember, ReadGlobalRole,
                         ReadInbox, ReadGrant, ReadBoxTeam
    <2>3. CASE Read(d)
      BY <2>3, Zenon DEF Read, ReadTarget, ReadBoxOwner, ReadTeam, ReadOwner, ReadInvitee,
                         ReadPending, ReadSelf, ReadInvite, ReadSeat, AnswerRead,
                         ReadTeamToDelete, ReadDeleter
    <2> QED
      BY <1>1, <2>1, <2>2, <2>3, WriteReshapes, AccountReshapes
  <1>4. ASSUME NEW c \in Calls, c # d
        PROVE  RoleHeld(c)'
    <2>1. Asked(c) /\ FoundTeam(c) /\ Remembered(c) /\ WasHeld(c)
      BY <1>1 DEF RoleHeld
    <2>2. Asked(c)' /\ FoundTeam(c)' /\ Remembered(c)' /\ WasHeld(c)'
      BY <1>1, <1>2, <1>3, <1>4, <2>1, OthersFind
    <2> QED
      BY <2>2 DEF RoleHeld
  <1>5. RoleHeld(d)'
    <2>1. ASSUME SettledRole(d)
          PROVE  RoleHeld(d)'
      <3>1. Asked(d) /\ Remembered(d) /\ WasHeld(d)
        BY <1>1 DEF RoleHeld
      <3>2. Asked(d)' /\ FoundTeam(d)' /\ Remembered(d)' /\ WasHeld(d)'
        BY <1>1, <1>2, <1>3, <2>1, <3>1, SettledHeld
      <3> QED
        BY <3>2 DEF RoleHeld
    <2>2. CASE Request(d)
      BY <2>2, RequestHeld
    <2>3. CASE ReadAdmin(d) \/ ReadTeamOwner(d) \/ ReadTeamMember(d)
      BY <2>1, <2>3, ChecksSettle
    <2>4. CASE ReadGlobalRole(d) \/ ReadInbox(d) \/ ReadGrant(d) \/ ReadBoxTeam(d)
      BY <1>1, <1>2, <2>4, LookingHeld
    <2>5. CASE Read(d)
      BY <2>1, <2>5, ReadsSettle
    <2>6. CASE Write(d) \/ AccountWrite(d) \/ GiveUp(d)
      BY <1>1, <2>1, <2>6, WritesSettle
    <2> QED
      BY <2>2, <2>3, <2>4, <2>5, <2>6 DEF Check
  <1>6. BoxShapes'
    <2>1. \A b \in Boxes : boxes[b] # Nobody => BoxBorn(b)'
      BY <1>1, <1>2, <1>3, BoxStays DEF BoxShapes
    <2>2. CASE UNCHANGED teamTables
      BY <1>1, <2>1, <2>2 DEF BoxShapes, teamTables
    <2>3. CASE Reshaped(d)
      <3>1. ASSUME NEW b \in Boxes, boxes'[b] # Nobody
            PROVE  BoxBorn(b)'
        <4>1. CASE boxes[b] = Nobody
          BY <2>3, <3>1, <4>1 DEF Reshaped, BoxBorn
        <4> QED
          BY <2>1, <4>1
      <3>2. /\ boxes' = [b \in Boxes |-> boxes'[b]]
            /\ \A b \in Boxes : boxes'[b] # Nobody => DOMAIN boxes'[b] = {"owner", "team"}
        BY <2>3 DEF Reshaped
      <3> QED
        BY <3>1, <3>2 DEF BoxShapes
    <2> QED
      BY <1>3, <2>2, <2>3
  <1>7. \A c \in Calls : RoleHeld(c)'
    BY <1>4, <1>5
  <1>8. GrantWasHeld'
    BY <1>7 DEF RoleHeld, WasHeld, GrantWasHeld
  <1> QED
    BY <1>6, <1>7, <1>8 DEF GrantInv, RoleHeld

(* A request that reads its user's role on an inbox from four tables, one  *)
(* after the other, while others move the inbox, change its members and    *)
(* delete teams and accounts, is never granted more than the user held at  *)
(* one moment while it read, as long as the inbox is there and the tables  *)
(* changed at most once meanwhile (resolveInboxRole, middleware/access.ts: *)
(* 49).                                                                    *)
THEOREM GrantsWereHeld == TeamSpec => []GrantWasHeld
  <1>1. TeamInit => GrantInv
    BY GrantInit
  <1>2. TeamInv /\ GrantInv /\ [TeamNext]_teamVars => GrantInv'
    <2> SUFFICES ASSUME TeamInv, GrantInv, [TeamNext]_teamVars
                 PROVE  GrantInv'
      OBVIOUS
    <2>1. CASE UNCHANGED teamVars
      <3>1. /\ UNCHANGED accounts /\ UNCHANGED members /\ UNCHANGED boxes /\ UNCHANGED grants
            /\ UNCHANGED call /\ UNCHANGED best /\ UNCHANGED writes
        BY <2>1 DEF teamVars, teamTables
      <3>2. BoxShapes' /\ GrantWasHeld'
        BY <3>1 DEF GrantInv, BoxShapes, BoxBorn, GrantWasHeld
      <3>3. ASSUME NEW c \in Calls
            PROVE  Asked(c)' /\ FoundTeam(c)' /\ Remembered(c)'
        <4>1. /\ Effective(call[c].by, call[c].box)' = Effective(call[c].by, call[c].box)
              /\ ThroughTeam(call[c].seen, call[c].by)' = ThroughTeam(call[c].seen, call[c].by)
          BY <3>1 DEF Effective, IsAdmin, ThroughTeam, Member
        <4>2. Asked(c)'
          BY <3>1 DEF GrantInv, Asked, Resolving, BoxBorn
        <4>3. FoundTeam(c)'
          BY <3>1, <4>1 DEF GrantInv, FoundTeam, MovedOnce
        <4>4. Remembered(c)'
          BY <3>1, <4>1 DEF GrantInv, Remembered, Resolving
        <4> QED
          BY <4>2, <4>3, <4>4
      <3> QED
        BY <3>2, <3>3 DEF GrantInv
    <2>2. CASE TeamNext
      BY <2>2, GrantNext
    <2> QED
      BY <2>1, <2>2
  <1>3. GrantInv => GrantWasHeld
    BY DEF GrantInv
  <1> QED
    BY <1>1, <1>2, <1>3, TeamInvHolds, PTL DEF TeamSpec

(***************************************************************************)
(* Types.  A row gets its values from the request that writes it, so the   *)
(* requests carry what the rows are typed by.                              *)
(***************************************************************************)
RowOps == {"addMember", "invite", "addGrant", "changeGrant", "giveBox"}
(* What leads to a statement that needs a value leads there with it.       *)
Leads(x, pc) ==
    /\ pc \in {"readSeat", "accept"} => x.role \in TeamRoles
    /\ pc \in RowOps => x.op = pc
    /\ pc \in {"readInvitee", "readPending"} => x.op = "invite"
    /\ pc = "readBoxOwner" => x.op = "addGrant"
    /\ pc = "readInvite" => x.op = "accept"
Carries(x) ==
    /\ x.pc \notin {"idle", "done"} => x.by \in People
    /\ x.team \in Teams \cup {Nobody}
    /\ x.op \in {"addMember", "changeRole", "invite"} =>
         x.team \in Teams /\ x.who \in People /\ x.role \in TeamRoles
    /\ x.op \in {"addGrant", "changeGrant"} => x.role \in BoxRoles
    /\ x.op = "giveBox" => x.who \in People
    /\ Leads(x, x.pc)
Invitation == [team : Teams, who : People, role : TeamRoles, from : People]
BoxRow == [owner : People, team : Teams \cup {Nobody}]
RowsTyped ==
    /\ accounts \in [People -> Account \cup {Nobody}]
    /\ teams \in [Teams -> People \cup {Nobody}]
    /\ members \in [Teams \X People -> TeamRoles \cup {Nobody}]
    /\ invites \in [Calls -> Invitation \cup {Nobody}]
    /\ boxes \in [Boxes -> BoxRow \cup {Nobody}]
    /\ grants \in [Boxes \X People -> BoxRoles \cup {Nobody}]
TypedCalls == \A c \in Calls : Carries(call[c])
TeamTyped == RowsTyped /\ TypedCalls /\ best \in [Calls -> 0..3] /\ writes \in [Calls -> 0..2]

(* Only the record of the request that moves changes.                      *)
LEMMA CallsStayTyped ==
    ASSUME Shapes, TypedCalls, NEW c \in Calls, NEW x, call' = [call EXCEPT ![c] = x],
           Carries(x)
    PROVE  TypedCalls'
  <1>1. call'[c] = x /\ \A d \in Calls : d # c => call'[d] = call[d]
    BY DEF Shapes
  <1> QED
    BY <1>1 DEF TypedCalls

(* A request that goes on to a statement carries what it did.              *)
LEMMA OnwardTyped ==
    ASSUME Shapes, TypedCalls, NEW c \in Calls, call[c].pc \notin {"idle", "done"}, NEW pc,
           Leads(call[c], pc), Advance(c, pc)
    PROVE  TypedCalls'
  <1> PICK x : x = [call[c] EXCEPT !.pc = pc]
    OBVIOUS
  <1>1. call' = [call EXCEPT ![c] = x]
    BY DEF Advance
  <1>2. /\ x.pc = pc /\ x.op = call[c].op /\ x.by = call[c].by /\ x.team = call[c].team
        /\ x.who = call[c].who /\ x.role = call[c].role
    BY DEF Shapes, Shaped
  <1>3. Carries(x)
    BY <1>2 DEF TypedCalls, Carries, Leads
  <1> QED
    BY <1>1, <1>3, CallsStayTyped

(* One that has been answered carries nothing.                             *)
LEMMA AnswerTyped ==
    ASSUME Shapes, TypedCalls, NEW c \in Calls, NEW ok, Answer(c, ok)
    PROVE  TypedCalls'
  <1> PICK x : x = [NoCall EXCEPT !.pc = "done", !.ok = ok]
    OBVIOUS
  <1>1. x.pc = "done" /\ x.op = "none" /\ x.team = Nobody
    BY DEF NoCall
  <1>2. Carries(x)
    BY <1>1 DEF Carries, Leads, RowOps
  <1> QED
    BY <1>2, CallsStayTyped DEF Answer

(* What a check was for is the first statement after it.                   *)
LEMMA FirstStepLeads ==
    ASSUME NEW x, x.op \in Guarded
    PROVE  Leads(x, FirstStep(x.op))
  <1>1. x.op \in {"rename", "addMember", "changeRole", "removeMember", "invite", "revoke", "look",
                  "createBox", "moveBox", "giveBox", "adminMove", "adminDelete", "read", "send",
                  "addGrant", "changeGrant", "removeGrant", "deleteBox"}
    BY DEF Guarded, ManageOps, ViewOps, AdminOps, BoxOps
  <1> QED
    BY <1>1 DEF FirstStep, Leads, RowOps

(* A role that was found leads there too, or to the team.                  *)
LEMMA ResolvedTyped ==
    ASSUME Shapes, TypedCalls, NEW c \in Calls, call[c].pc \in Checks, call[c].op \in Guarded,
           NEW role, Resolved(c, role)
    PROVE  TypedCalls'
  <1>1. CASE Answer(c, FALSE)
    BY <1>1, AnswerTyped
  <1>2. CASE ~Answer(c, FALSE)
    <2> PICK pc : pc = IF call[c].op = "moveBox" /\ call[c].team # Nobody
                       THEN "teamAdmin" ELSE FirstStep(call[c].op)
      OBVIOUS
    <2> PICK x : x = [call[c] EXCEPT !.granted = Weight(role), !.pc = pc]
      OBVIOUS
    <2>1. call' = [call EXCEPT ![c] = x]
      BY <1>2 DEF Resolved
    <2>2. /\ x.pc = pc /\ x.op = call[c].op /\ x.by = call[c].by /\ x.team = call[c].team
          /\ x.who = call[c].who /\ x.role = call[c].role
      BY DEF Shapes, Shaped
    <2>3. Leads(call[c], "teamAdmin")
      BY DEF Leads, RowOps
    <2>4. Leads(call[c], pc)
      BY <2>3, FirstStepLeads
    <2>5. call[c].pc \notin {"idle", "done"} /\ Carries(call[c])
      BY DEF Checks, TypedCalls
    <2>6. Carries(x)
      BY <2>2, <2>4, <2>5 DEF Carries, Leads
    <2> QED
      BY <2>1, <2>6, CallsStayTyped
  <1> QED
    BY <1>1, <1>2

(* A check asks on, passes or refuses.                                     *)
LEMMA CheckTyped ==
    ASSUME TeamInv, TypedCalls, NEW c \in Calls, Check(c)
    PROVE  TypedCalls' /\ UNCHANGED teamTables
  <1>0. /\ UNCHANGED teamTables /\ call[c].pc \in Checks /\ Shapes /\ call[c].op \in Guarded
        /\ call[c].pc \notin {"idle", "done"}
    BY DEF TeamInv, Check, Ready, Shapes, Checks, ReadAdmin, ReadTeamOwner,
           ReadTeamMember, ReadGlobalRole, ReadInbox, ReadGrant, ReadBoxTeam
  <1>1. CASE Answer(c, FALSE)
    BY <1>0, <1>1, AnswerTyped
  <1>2. CASE Pass(c)
    BY <1>0, <1>2, FirstStepLeads, OnwardTyped DEF Pass
  <1>3. ASSUME NEW pc \in {"teamOwner", "teamMember", "inbox", "boxTeam"}, Advance(c, pc)
        PROVE  TypedCalls'
    <2>1. Leads(call[c], pc)
      BY DEF Leads, RowOps
    <2> QED
      BY <1>0, <1>3, <2>1, OnwardTyped
  <1>4. ASSUME NEW role, Resolved(c, role)
        PROVE  TypedCalls'
    BY <1>0, <1>4, ResolvedTyped
  <1>5. ASSUME NEW seen, call' = [call EXCEPT ![c] = [@ EXCEPT !.pc = "grant", !.seen = seen]]
        PROVE  TypedCalls'
    <2> PICK x : x = [call[c] EXCEPT !.pc = "grant", !.seen = seen]
      OBVIOUS
    <2>1. call' = [call EXCEPT ![c] = x]
      BY <1>5
    <2>2. /\ x.pc = "grant" /\ x.op = call[c].op /\ x.by = call[c].by /\ x.team = call[c].team
          /\ x.who = call[c].who /\ x.role = call[c].role
      BY <1>0 DEF Shapes, Shaped
    <2>3. Carries(x)
      BY <1>0, <2>2 DEF TypedCalls, Carries, Leads, RowOps
    <2> QED
      BY <1>0, <2>1, <2>3, CallsStayTyped
  <1>6. CASE ReadAdmin(c) \/ ReadTeamOwner(c) \/ ReadTeamMember(c)
    BY <1>0, <1>1, <1>2, <1>3, <1>6, Zenon DEF ReadAdmin, ReadTeamOwner, ReadTeamMember
  <1>7. CASE ReadGlobalRole(c) \/ ReadGrant(c) \/ ReadBoxTeam(c)
    BY <1>0, <1>1, <1>3, <1>4, <1>7, Zenon DEF ReadGlobalRole, ReadGrant, ReadBoxTeam
  <1>8. CASE ReadInbox(c)
    BY <1>0, <1>1, <1>4, <1>5, <1>8, Zenon DEF ReadInbox
  <1> QED
    BY <1>6, <1>7, <1>8 DEF Check

(* An invitation hands its team and its role to the request that accepts.  *)
LEMMA InviteReadTyped ==
    ASSUME TeamInv, TypedCalls, RowsTyped, NEW c \in Calls, ReadInvite(c)
    PROVE  TypedCalls'
  <1>0. Shapes /\ call[c].pc = "readInvite" /\ call[c].seen \in Calls
    BY DEF TeamInv, Ready, ReadInvite
  <1> PICK i : i = invites[call[c].seen]
    OBVIOUS
  <1>1. CASE Answer(c, FALSE)
    BY <1>0, <1>1, AnswerTyped
  <1>2. CASE ~Answer(c, FALSE)
    <2> PICK x : x = [call[c] EXCEPT !.pc = "readSeat", !.team = i.team, !.role = i.role]
      OBVIOUS
    <2>1. i # Nobody /\ call' = [call EXCEPT ![c] = x]
      BY <1>2, Zenon DEF ReadInvite
    <2>2. i.team \in Teams /\ i.role \in TeamRoles
      BY <1>0, <2>1 DEF RowsTyped, Invitation
    <2>3. /\ x.pc = "readSeat" /\ x.op = call[c].op /\ x.by = call[c].by /\ x.team = i.team
          /\ x.who = call[c].who /\ x.role = i.role
      BY <1>0 DEF Shapes, Shaped
    <2>4. Carries(call[c])
      BY DEF TypedCalls
    <2>5. Carries(x)
      BY <1>0, <2>2, <2>3, <2>4 DEF Carries, Leads, RowOps
    <2> QED
      BY <1>0, <2>1, <2>5, CallsStayTyped
  <1> QED
    BY <1>1, <1>2

(* The reads of the handlers.                                              *)
LEMMA HandlerTyped ==
    ASSUME TeamInv, TypedCalls, RowsTyped, NEW c \in Calls, Read(c) \/ GiveUp(c)
    PROVE  TypedCalls' /\ UNCHANGED teamTables
  <1>0. /\ UNCHANGED teamTables /\ Shapes /\ call[c].pc \notin {"idle", "done"}
        /\ Carries(call[c])
    BY DEF TeamInv, TypedCalls, Read, GiveUp, ReadTarget, ReadBoxOwner, ReadTeam, ReadOwner,
           ReadInvitee, ReadPending, ReadSelf, ReadInvite, ReadSeat, AnswerRead,
           ReadTeamToDelete, ReadDeleter
  <1>1. ASSUME NEW ok, Answer(c, ok)
        PROVE  TypedCalls'
    BY <1>0, <1>1, AnswerTyped
  <1>2. ASSUME NEW pc, Leads(call[c], pc), Advance(c, pc)
        PROVE  TypedCalls'
    BY <1>0, <1>2, OnwardTyped
  <1>3. \A pc \in {"adminMove", "decline", "dropInvite", "deleteTeam",
                   "deleteAsAdmin", "changeRole", "removeMember"} : Leads(call[c], pc)
    BY DEF Leads, RowOps
  <1>4. CASE ReadTarget(c)
    <2>1. call[c].op \in {"addMember", "addGrant", "giveBox"} /\ call[c].pc = "readTarget"
      BY <1>4 DEF TeamInv, Ready, ReadTarget
    <2>2. /\ call[c].op \in {"addMember", "giveBox"} => Leads(call[c], call[c].op)
          /\ call[c].op = "addGrant" => Leads(call[c], "readBoxOwner")
      BY <2>1 DEF Leads, RowOps
    <2>3. \/ Answer(c, FALSE)
          \/ Advance(c, call[c].op) /\ call[c].op \in {"addMember", "giveBox"}
          \/ Advance(c, "readBoxOwner") /\ call[c].op = "addGrant"
      BY <1>4, <2>1 DEF ReadTarget
    <2> QED
      BY <1>0, <1>1, <1>2, <2>2, <2>3
  <1>5. CASE ReadBoxOwner(c)
    <2>1. Leads(call[c], "addGrant")
      BY <1>0, <1>5 DEF ReadBoxOwner, Carries, Leads, RowOps
    <2> QED
      BY <1>0, <1>1, <1>2, <1>5, <2>1, Zenon DEF ReadBoxOwner
  <1>6. CASE ReadOwner(c)
    <2>1. call[c].op \in {"changeRole", "removeMember"}
      BY <1>6 DEF TeamInv, Ready, ReadOwner
    <2>2. Answer(c, FALSE) \/ Advance(c, call[c].op)
      BY <1>6, Zenon DEF ReadOwner
    <2>3. Leads(call[c], call[c].op)
      BY <1>3, <2>1
    <2> QED
      BY <1>0, <1>1, <1>2, <2>2, <2>3
  <1>7. CASE ReadInvitee(c)
    <2>1. Leads(call[c], "readPending")
      BY <1>0, <1>7 DEF ReadInvitee, Carries, Leads, RowOps
    <2> QED
      BY <1>0, <1>1, <1>2, <1>7, <2>1, Zenon DEF ReadInvitee
  <1>8. CASE ReadPending(c)
    <2>1. Leads(call[c], "invite")
      BY <1>0, <1>8 DEF ReadPending, Carries, Leads, RowOps
    <2> QED
      BY <1>0, <1>1, <1>2, <1>8, <2>1, Zenon DEF ReadPending
  <1>9. CASE ReadSeat(c)
    <2>1. Leads(call[c], "accept")
      BY <1>0, <1>9 DEF ReadSeat, Carries, Leads, RowOps
    <2>2. Advance(c, "accept") \/ Advance(c, "dropInvite")
      BY <1>9, Zenon DEF ReadSeat
    <2> QED
      BY <1>0, <1>2, <1>3, <2>1, <2>2
  <1>10. CASE ReadSelf(c)
    <2>1. \/ Answer(c, FALSE) \/ Advance(c, "decline")
          \/ Advance(c, "readInvite") /\ call[c].op = "accept"
      BY <1>10, Zenon DEF ReadSelf
    <2>2. call[c].op = "accept" => Leads(call[c], "readInvite")
      BY DEF Leads, RowOps
    <2> QED
      BY <1>0, <1>1, <1>2, <1>3, <2>1, <2>2
  <1>11. CASE ReadTeamToDelete(c) \/ ReadDeleter(c) \/ ReadTeam(c)
    <2>1. Answer(c, FALSE) \/ Advance(c, "deleteTeam") \/ Advance(c, "deleteAsAdmin")
            \/ Advance(c, "adminMove")
      BY <1>11, Zenon DEF ReadTeamToDelete, ReadDeleter, ReadTeam
    <2> QED
      BY <1>0, <1>1, <1>2, <1>3, <2>1
  <1>12. CASE AnswerRead(c) \/ GiveUp(c)
    BY <1>0, <1>1, <1>12 DEF AnswerRead, GiveUp
  <1>13. CASE ReadInvite(c)
    BY <1>0, <1>13, InviteReadTyped
  <1> QED
    BY <1>0, <1>4, <1>5, <1>6, <1>7, <1>8, <1>9, <1>10, <1>11, <1>12, <1>13 DEF Read

(* A request arrives with what it will write.                              *)
LEMMA RequestTyped ==
    ASSUME TeamInv, TypedCalls, RowsTyped, NEW c \in Calls, Request(c)
    PROVE  TypedCalls' /\ UNCHANGED teamTables
  <1>0. Shapes /\ UNCHANGED teamTables
    BY DEF TeamInv, Request
  <1> DEFINE Fit(op, pc, t, w, role) ==
        /\ t \in Teams \cup {Nobody}
        /\ op \in {"addMember", "changeRole", "invite"} =>
             t \in Teams /\ w \in People /\ role \in TeamRoles
        /\ op \in {"addGrant", "changeGrant"} => role \in BoxRoles
        /\ op = "giveBox" => w \in People
        /\ pc \in {"teamAdmin", "globalRole", "readTeamToDelete", "insertTeam", "createBox"}
  <1>1. ASSUME NEW op, NEW pc, NEW u \in People, NEW t, NEW b, NEW w, NEW role,
               Arrive(c, op, pc, u, t, b, w, role), Fit(op, pc, t, w, role)
        PROVE  TypedCalls'
    <2> PICK x : x = [NoCall EXCEPT !.pc = pc, !.op = op, !.by = u, !.team = t, !.box = b,
                                    !.who = w, !.role = role]
      OBVIOUS
    <2>1. call' = [call EXCEPT ![c] = x]
      BY <1>1 DEF Arrive
    <2>2. x.pc = pc /\ x.op = op /\ x.by = u /\ x.team = t /\ x.who = w /\ x.role = role
      BY DEF NoCall
    <2>3. Carries(x)
      BY <1>1, <2>2 DEF Carries, Leads, RowOps
    <2> QED
      BY <1>0, <2>1, <2>3, CallsStayTyped
  <1>2. ASSUME NEW u \in People, OnTeam(c, u)
        PROVE  TypedCalls'
    <2>1. PICK t \in Teams, w \in People, role \in TeamRoles :
            \/ \E op \in ManageOps \ {"rename", "removeMember", "revoke"} :
                 Arrive(c, op, "teamAdmin", u, t, Nobody, w, role)
            \/ Arrive(c, "removeMember", "teamAdmin", u, t, Nobody, w, Nobody)
            \/ \E op \in {"rename", "look"} :
                 Arrive(c, op, "teamAdmin", u, t, Nobody, Nobody, Nobody)
            \/ Arrive(c, "deleteTeam", "readTeamToDelete", u, t, Nobody, Nobody, Nobody)
            \/ Arrive(c, "createBox", "teamAdmin", u, t, Nobody, Nobody, Nobody)
      BY <1>2, Zenon DEF OnTeam
    <2>2. \A op \in ManageOps \ {"rename", "removeMember", "revoke"} :
            Fit(op, "teamAdmin", t, w, role)
      BY DEF ManageOps
    <2>3. /\ Fit("removeMember", "teamAdmin", t, w, Nobody)
          /\ \A op \in {"rename", "look", "createBox"} : Fit(op, "teamAdmin", t, Nobody, Nobody)
          /\ Fit("deleteTeam", "readTeamToDelete", t, Nobody, Nobody)
      OBVIOUS
    <2> HIDE DEF Fit
    <2> QED
      BY <1>1, <2>1, <2>2, <2>3
  <1>3. ASSUME NEW u \in People, OnInvite(c, u)
        PROVE  TypedCalls'
    <2>1. PICK i \in Calls, op \in {"revoke", "accept", "decline"} :
            /\ invites[i] # Nobody
            /\ call' = [call EXCEPT ![c] =
                 [NoCall EXCEPT !.op = op, !.by = u, !.seen = i, !.team = invites[i].team,
                                !.pc = IF op = "revoke" THEN "teamAdmin" ELSE "readSelf"]]
      BY <1>3, Zenon DEF OnInvite
    <2>2. PICK pc \in {"teamAdmin", "readSelf"} :
            pc = IF op = "revoke" THEN "teamAdmin" ELSE "readSelf"
      OBVIOUS
    <2> PICK t : t = invites[i].team
      OBVIOUS
    <2> PICK x : x = [NoCall EXCEPT !.op = op, !.by = u, !.seen = i, !.team = t, !.pc = pc]
      OBVIOUS
    <2>3. call' = [call EXCEPT ![c] = x]
      BY <2>1, <2>2
    <2>4. t \in Teams
      BY <2>1 DEF RowsTyped, Invitation
    <2>5. x.pc = pc /\ x.op = op /\ x.by = u /\ x.team = t
      BY DEF NoCall
    <2>6. Carries(x)
      BY <2>4, <2>5 DEF Carries, Leads, RowOps
    <2> QED
      BY <1>0, <2>3, <2>6, CallsStayTyped
  <1>4. ASSUME NEW u \in People, OnBox(c, u)
        PROVE  TypedCalls'
    <2>1. PICK b \in Boxes :
         \/ \E op \in {"read", "send", "deleteBox"} :
              Arrive(c, op, "globalRole", u, Nobody, b, Nobody, Nobody)
         \/ \E w \in People, role \in BoxRoles, op \in {"addGrant", "changeGrant"} :
              Arrive(c, op, "globalRole", u, Nobody, b, w, role)
         \/ \E w \in People : Arrive(c, "removeGrant", "globalRole", u, Nobody, b, w, Nobody)
         \/ \E t \in Teams \cup {Nobody} :
              \/ Arrive(c, "moveBox", "globalRole", u, t, b, Nobody, Nobody)
              \/ Arrive(c, "adminMove", "teamAdmin", u, t, b, Nobody, Nobody)
         \/ \E w \in People : Arrive(c, "giveBox", "teamAdmin", u, Nobody, b, w, Nobody)
         \/ Arrive(c, "adminDelete", "teamAdmin", u, Nobody, b, Nobody, Nobody)
      BY <1>4 DEF OnBox
    <2>2. /\ \A op \in {"read", "send", "deleteBox"} :
               Fit(op, "globalRole", Nobody, Nobody, Nobody)
          /\ \A w \in People, role \in BoxRoles, op \in {"addGrant", "changeGrant"} :
               Fit(op, "globalRole", Nobody, w, role)
          /\ \A w \in People : Fit("removeGrant", "globalRole", Nobody, w, Nobody)
          /\ \A w \in People : Fit("giveBox", "teamAdmin", Nobody, w, Nobody)
          /\ Fit("adminDelete", "teamAdmin", Nobody, Nobody, Nobody)
      OBVIOUS
    <2>3. \A t \in Teams \cup {Nobody} : Fit("moveBox", "globalRole", t, Nobody, Nobody)
                                         /\ Fit("adminMove", "teamAdmin", t, Nobody, Nobody)
      OBVIOUS
    <2> HIDE DEF Fit
    <2> QED
      BY <1>1, <2>1, <2>2, <2>3
  <1>5. ASSUME NEW u \in People, OnNothing(c, u)
        PROVE  TypedCalls'
    BY <1>1, <1>5 DEF OnNothing
  <1> QED
    BY <1>0, <1>2, <1>3, <1>4, <1>5 DEF Request

(* Nobody is not one of the rows.                                          *)
LEMMA NobodyIsNoRow == Nobody \notin Calls /\ Nobody \notin Teams /\ Nobody \notin Boxes
  BY TeamAccessAssumption DEF Teams, Boxes

(* Teams, memberships and invitations.                                     *)
LEMMA TeamWritesTyped ==
    ASSUME TeamInv, TypedCalls, RowsTyped, NEW c \in Calls,
           \/ InsertTeam(c) \/ InsertOwner(c) \/ AddMember(c) \/ Accept(c) \/ ChangeMember(c)
           \/ Rename(c) \/ Invite(c) \/ DropInvite(c) \/ DeleteTeam(c)
    PROVE  RowsTyped' /\ TypedCalls'
  <1>0. Shapes /\ Carries(call[c]) /\ c \in Teams
    BY DEF TeamInv, TypedCalls, Teams
  <1>1. ASSUME NEW ok, Answer(c, ok)
        PROVE  TypedCalls'
    BY <1>0, <1>1, AnswerTyped
  <1>2. ASSUME NEW t, NEW u, NEW role \in TeamRoles, Seat(c, t, u, role)
        PROVE  RowsTyped'
    BY <1>2 DEF Seat, RowsTyped
  <1>3. CASE InsertTeam(c)
    <2>1. call[c].by \in People /\ Leads(call[c], "insertOwner")
          /\ call[c].pc \notin {"idle", "done"}
      BY <1>0, <1>3 DEF InsertTeam, Carries, Leads, RowOps
    <2>2. TypedCalls'
      BY <1>0, <1>1, <1>3, <2>1, OnwardTyped DEF InsertTeam
    <2> QED
      BY <1>0, <1>3, <2>1, <2>2 DEF InsertTeam, RowsTyped
  <1>4. CASE InsertOwner(c)
    BY <1>1, <1>2, <1>4 DEF InsertOwner, TeamRoles
  <1>5. CASE AddMember(c)
    <2>1. call[c].role \in TeamRoles
      BY <1>0, <1>5 DEF AddMember, Carries, Leads, RowOps
    <2> QED
      BY <1>1, <1>2, <1>5, <2>1 DEF AddMember
  <1>6. CASE Accept(c)
    <2>1. call[c].role \in TeamRoles /\ Leads(call[c], "dropAccepted")
          /\ call[c].pc \notin {"idle", "done"}
      BY <1>0, <1>6 DEF Accept, Carries, Leads, RowOps
    <2>2. TypedCalls'
      BY <1>0, <1>1, <1>6, <2>1, OnwardTyped DEF Accept
    <2> QED
      BY <1>2, <1>6, <2>1, <2>2 DEF Accept
  <1>7. CASE ChangeMember(c)
    <2> PICK role : role = IF call[c].op = "changeRole" THEN call[c].role ELSE Nobody
      OBVIOUS
    <2>1. role \in TeamRoles \cup {Nobody}
      BY <1>0 DEF Carries
    <2>2. \/ members' = [members EXCEPT ![<<call[c].team, call[c].who>>] = role]
          \/ members' = members
      BY <1>7, Zenon DEF ChangeMember
    <2>3. TypedCalls' /\ UNCHANGED <<accounts, teams, invites, boxes, grants>>
      BY <1>1, <1>7 DEF ChangeMember
    <2> QED
      BY <2>1, <2>2, <2>3 DEF RowsTyped
  <1>8. CASE Rename(c)
    BY <1>1, <1>8 DEF Rename, teamTables, RowsTyped
  <1>9. CASE Invite(c)
    <2> PICK row : row = [team |-> call[c].team, who |-> call[c].who, role |-> call[c].role,
                          from |-> call[c].by]
      OBVIOUS
    <2>1. row \in Invitation
      BY <1>0, <1>9 DEF Invite, Carries, Leads, RowOps, Invitation
    <2>2. invites' = [invites EXCEPT ![c] = row] \/ invites' = invites
      BY <1>9, Zenon DEF Invite
    <2>3. TypedCalls' /\ UNCHANGED <<accounts, teams, members, boxes, grants>>
      BY <1>1, <1>9 DEF Invite
    <2> QED
      BY <2>1, <2>2, <2>3 DEF RowsTyped
  <1>10. CASE DropInvite(c)
    <2>1. TypedCalls' /\ UNCHANGED <<accounts, teams, members, boxes, grants>>
      BY <1>1, <1>10 DEF DropInvite
    <2>2. invites' = [invites EXCEPT ![call[c].seen] = Nobody] \/ invites' = invites
      BY <1>10, Zenon DEF DropInvite
    <2> QED
      BY <2>1, <2>2 DEF RowsTyped
  <1>11. CASE DeleteTeam(c)
    <2>1. TypedCalls' /\ UNCHANGED <<accounts, grants>>
      BY <1>1, <1>11 DEF DeleteTeam
    <2>2. teams' \in [Teams -> People \cup {Nobody}]
      BY <1>11 DEF DeleteTeam, RowsTyped
    <2>3. invites' \in [Calls -> Invitation \cup {Nobody}]
          /\ members' \in [Teams \X People -> TeamRoles \cup {Nobody}]
      BY <1>11 DEF DeleteTeam, RowsTyped
    <2>4. \A b \in Boxes : boxes[b] # Nobody => [boxes[b] EXCEPT !.team = Nobody] \in BoxRow
      BY DEF RowsTyped, BoxRow
    <2>5. boxes' \in [Boxes -> BoxRow \cup {Nobody}]
      BY <1>11, <2>4 DEF DeleteTeam, RowsTyped
    <2> QED
      BY <2>1, <2>2, <2>3, <2>5 DEF RowsTyped
  <1> QED
    BY <1>3, <1>4, <1>5, <1>6, <1>7, <1>8, <1>9, <1>10, <1>11

(* Inboxes and their grants.                                               *)
LEMMA BoxWritesTyped ==
    ASSUME TeamInv, TypedCalls, RowsTyped, NEW c \in Calls,
           WriteGrant(c) \/ CreateBox(c) \/ MoveBox(c) \/ GiveBox(c) \/ DeleteBox(c)
    PROVE  RowsTyped' /\ TypedCalls'
  <1>0. Shapes /\ Carries(call[c]) /\ c \in Boxes
    BY DEF TeamInv, TypedCalls, Boxes
  <1>1. TypedCalls' /\ UNCHANGED <<accounts, teams, members, invites>>
    <2>1. ASSUME NEW ok, Answer(c, ok)
          PROVE  TypedCalls'
      BY <1>0, <2>1, AnswerTyped
    <2> QED
      BY <2>1 DEF WriteGrant, CreateBox, MoveBox, GiveBox, DeleteBox
  <1>2. CASE WriteGrant(c)
    <2> PICK role : role = IF call[c].pc = "removeGrant" THEN Nobody ELSE call[c].role
      OBVIOUS
    <2>1. role \in BoxRoles \cup {Nobody}
      BY <1>0, <1>2 DEF WriteGrant, Carries, Leads, RowOps
    <2>2. \/ grants' = [grants EXCEPT ![<<call[c].box, call[c].who>>] = role]
          \/ grants' = grants
      BY <1>2, Zenon DEF WriteGrant
    <2>3. UNCHANGED boxes
      BY <1>2 DEF WriteGrant
    <2> QED
      BY <1>1, <2>1, <2>2, <2>3 DEF RowsTyped
  <1>3. CASE CreateBox(c)
    <2> PICK row : row = [owner |-> call[c].by, team |-> call[c].team]
      OBVIOUS
    <2>1. row \in BoxRow
      BY <1>0, <1>3 DEF CreateBox, Carries, BoxRow
    <2>2. boxes' = [boxes EXCEPT ![c] = row] \/ boxes' = boxes
      BY <1>3, Zenon DEF CreateBox
    <2>3. UNCHANGED grants
      BY <1>3 DEF CreateBox
    <2> QED
      BY <1>1, <2>1, <2>2, <2>3 DEF RowsTyped
  <1>4. CASE MoveBox(c) \/ GiveBox(c)
    <2> PICK b : b = call[c].box
      OBVIOUS
    <2> PICK t \in Teams \cup {Nobody} : t = call[c].team
      BY <1>0 DEF Carries
    <2>1. GiveBox(c) => call[c].who \in People
      BY <1>0 DEF GiveBox, Carries, Leads, RowOps
    <2>2. \/ boxes' = boxes
          \/ boxes[b] # Nobody /\ boxes' = [boxes EXCEPT ![b].team = t]
          \/ \E u \in People : boxes[b] # Nobody /\ boxes' = [boxes EXCEPT ![b].owner = u]
      BY <1>4, <2>1 DEF MoveBox, GiveBox
    <2>3. ASSUME b \in Boxes, boxes[b] # Nobody
          PROVE  /\ [boxes[b] EXCEPT !.team = t] \in BoxRow
                 /\ \A u \in People : [boxes[b] EXCEPT !.owner = u] \in BoxRow
      <3>1. boxes[b] \in BoxRow
        BY <2>3 DEF RowsTyped
      <3> QED
        BY <3>1 DEF BoxRow
    <2>4. boxes' \in [Boxes -> BoxRow \cup {Nobody}]
      BY <2>2, <2>3 DEF RowsTyped
    <2>5. UNCHANGED grants
      BY <1>4 DEF MoveBox, GiveBox
    <2> QED
      BY <1>1, <2>4, <2>5 DEF RowsTyped
  <1>5. CASE DeleteBox(c)
    <2>1. boxes' \in [Boxes -> BoxRow \cup {Nobody}]
      BY <1>5 DEF DeleteBox, RowsTyped
    <2>2. grants' \in [Boxes \X People -> BoxRoles \cup {Nobody}]
      BY <1>5 DEF DeleteBox, RowsTyped
    <2> QED
      BY <1>1, <2>1, <2>2 DEF RowsTyped
  <1> QED
    BY <1>2, <1>3, <1>4, <1>5

(* What the account routes leave of the rows.                              *)
LEMMA AccountWriteTyped ==
    ASSUME TeamInv, TypedCalls, RowsTyped, NEW c \in Calls, AccountWrite(c)
    PROVE  RowsTyped' /\ TypedCalls'
  <1>0. Shapes
    BY DEF TeamInv
  <1>1. TypedCalls'
    BY <1>0, AnswerTyped DEF AccountWrite
  <1>2. PICK u \in People : /\ accounts[u] # Nobody
                            /\ SetGlobalRole(u) \/ Verify(u) \/ DeleteAccount(u)
    BY Zenon DEF AccountWrite
  <1>3. CASE SetGlobalRole(u) \/ Verify(u)
    <2>1. accounts[u] \in Account
      BY <1>2 DEF RowsTyped
    <2>2. /\ [accounts[u] EXCEPT !.verified = TRUE] \in Account
          /\ \A role \in {"admin", "user"} : [accounts[u] EXCEPT !.role = role] \in Account
      BY <2>1 DEF Account
    <2>3. accounts' \in [People -> Account \cup {Nobody}]
      BY <1>3, <2>2 DEF SetGlobalRole, Verify, RowsTyped
    <2>4. UNCHANGED <<teams, members, invites, boxes, grants>>
      BY <1>3 DEF SetGlobalRole, Verify
    <2> QED
      BY <1>1, <2>3, <2>4 DEF RowsTyped
  <1>4. CASE DeleteAccount(u)
    <2>1. accounts' \in [People -> Account \cup {Nobody}]
          /\ teams' \in [Teams -> People \cup {Nobody}]
      BY <1>4 DEF DeleteAccount, RowsTyped
    <2>2. members' \in [Teams \X People -> TeamRoles \cup {Nobody}]
      BY <1>4 DEF DeleteAccount, RowsTyped
    <2>3. invites' \in [Calls -> Invitation \cup {Nobody}]
      BY <1>4 DEF DeleteAccount, RowsTyped
    <2>4. \A b \in Boxes : boxes[b] # Nobody => [boxes[b] EXCEPT !.team = Nobody] \in BoxRow
      BY DEF RowsTyped, BoxRow
    <2>5. boxes' \in [Boxes -> BoxRow \cup {Nobody}]
      BY <1>4, <2>4 DEF DeleteAccount, RowsTyped
    <2>6. grants' \in [Boxes \X People -> BoxRoles \cup {Nobody}]
      BY <1>4 DEF DeleteAccount, RowsTyped
    <2> QED
      BY <1>1, <2>1, <2>2, <2>3, <2>5, <2>6 DEF RowsTyped
  <1> QED
    BY <1>2, <1>3, <1>4

(* The history of a request counts no further than two writes and no       *)
(* higher than an owner's role.                                            *)
LEMMA HistoryTyped ==
    ASSUME best \in [Calls -> 0..3], writes \in [Calls -> 0..2], Remember
    PROVE  best' \in [Calls -> 0..3] /\ writes' \in [Calls -> 0..2]
  <1>1. \A m, n \in 0 .. 3 : Larger(m, n) \in 0 .. 3
    BY DEF Larger
  <1>2. ASSUME NEW c \in Calls
        PROVE  Weight(Effective(call[c].by, call[c].box))' \in 0 .. 3
    BY Weights
  <1>3. best' \in [Calls -> 0..3]
    BY <1>1, <1>2 DEF Remember
  <1>4. writes' \in [Calls -> 0..2]
    BY DEF Remember
  <1> QED
    BY <1>3, <1>4

(* At the start every request is idle and every row is one of the setup's. *)
LEMMA TeamStartsTyped == TeamInit => TeamTyped
  <1> SUFFICES ASSUME TeamInit
               PROVE  TeamTyped
    OBVIOUS
  <1>1. /\ accounts \in [People -> Account] /\ call = [c \in Calls |-> NoCall]
        /\ invites = [c \in Calls |-> Nobody] /\ best = [c \in Calls |-> 0]
        /\ writes = [c \in Calls |-> 0]
        /\ members \in [Teams \X People -> TeamRoles \cup {Nobody}]
        /\ grants \in [Boxes \X People -> BoxRoles \cup {Nobody}]
    BY DEF TeamInit, Account
  <1>2. PICK a \in People, shared \in BOOLEAN :
          /\ teams = [x \in Teams |-> IF x = Team THEN a ELSE Nobody]
          /\ boxes = [x \in Boxes |-> IF x = Box
                                      THEN [owner |-> a, team |-> IF shared THEN Team ELSE Nobody]
                                      ELSE Nobody]
    BY DEF TeamInit
  <1>3. [owner |-> a, team |-> IF shared THEN Team ELSE Nobody] \in BoxRow
    BY DEF BoxRow, Teams
  <1>4. boxes \in [Boxes -> BoxRow \cup {Nobody}] /\ teams \in [Teams -> People \cup {Nobody}]
    BY <1>2, <1>3
  <1>5. NoCall.pc = "idle" /\ NoCall.op = "none" /\ NoCall.team = Nobody
    BY DEF NoCall
  <1>6. Carries(NoCall)
    BY <1>5 DEF Carries, Leads, RowOps
  <1> QED
    BY <1>1, <1>4, <1>6 DEF TeamTyped, RowsTyped, TypedCalls

(* Whatever is asked for, in any order and at once, the rows of accounts,  *)
(* teams, memberships, invitations, inboxes and grants are well formed,    *)
(* and a request writes only roles and people it was given                 *)
(* (routes/teams.ts, inbox-members.ts, inboxes.ts and admin.ts).           *)
THEOREM TeamsStayTyped == TeamSpec => []TeamTypeOK
  <1>1. TeamTyped => TeamTypeOK
    BY DEF TeamTyped, RowsTyped, TeamTypeOK, Account, Invitation, BoxRow
  <1>2. TeamInv /\ TeamTyped /\ [TeamNext]_teamVars => TeamTyped'
    <2> SUFFICES ASSUME TeamInv, TeamTyped, [TeamNext]_teamVars
                 PROVE  TeamTyped'
      OBVIOUS
    <2>0. RowsTyped /\ TypedCalls
      BY DEF TeamTyped
    <2>1. ASSUME UNCHANGED teamTables
          PROVE  RowsTyped'
      BY <2>0, <2>1 DEF teamTables, RowsTyped
    <2>2. CASE UNCHANGED teamVars
      <3>1. UNCHANGED teamTables /\ UNCHANGED call /\ UNCHANGED best /\ UNCHANGED writes
        BY <2>2 DEF teamVars
      <3> QED
        BY <2>1, <3>1 DEF TeamTyped, TypedCalls
    <2>3. CASE TeamNext
      <3>1. PICK c \in Calls :
              /\ \/ Request(c) \/ Check(c) \/ Read(c) \/ Write(c) \/ AccountWrite(c)
                 \/ GiveUp(c)
              /\ Remember
        BY <2>3 DEF TeamNext
      <3>2. Write(c) => RowsTyped' /\ TypedCalls'
        BY <2>0, TeamWritesTyped, BoxWritesTyped DEF Write
      <3>3. RowsTyped' /\ TypedCalls'
        BY <2>0, <2>1, <3>1, <3>2, RequestTyped, CheckTyped, HandlerTyped, AccountWriteTyped
      <3> QED
        BY <3>1, <3>3, HistoryTyped DEF TeamTyped
    <2> QED
      BY <2>2, <2>3
  <1> QED
    BY <1>1, <1>2, TeamStartsTyped, TeamInvHolds, PTL DEF TeamSpec
=============================================================================
