---------------------------- MODULE Accounts_proofs ----------------------------
(***************************************************************************)
(* What holds of accounts, sessions and keys for any number of requests    *)
(* and administrators: nobody signs in through a provider to an account    *)
(* that has not proved its address, keys end with the password, an ended   *)
(* session stays ended unless password changes overlap, and no             *)
(* administrator locks everybody out alone.                                *)
(* And who may send: by how much parallel logins overshoot the throttle of *)
(* the SMTP server, for any limit and window, and that the domain that     *)
(* signs is proven, for any number of requests and starts.                 *)
(***************************************************************************)
EXTENDS Accounts, SmtpLogin, SenderDomains, FiniteSetTheorems, TLAPS

(***************************************************************************)
(* Types: what the tables hold, as far as the proofs need it, and the      *)
(* requests.                                                               *)
(***************************************************************************)
AccOps == {"none", "register", "forgot", "login", "sso", "bearer", "change", "reset", "verify",
        "resend", "logout", "createKey", "editKey", "rotateKey", "deleteKey", "use",
        "adminCreate", "update", "setpw", "delete"}
Args == Ids \cup Names \cup Passwords \cup {Old, None, "admin", "user"}
Req == [pc : Pcs, op : AccOps, uid : Ids \cup Names \cup {None},
        arg : Args,
        row : Ids \cup {None}, seen : SUBSET (Ids \cup Scopes), at : Nat, ok : BOOLEAN]
UserRow == [mail : Args, pw : Args, verified : BOOLEAN,
            changed : Nat, role : Args]
KeyRow == [user : Ids, secret : Ids \cup {None}, legacy : BOOLEAN, scope : Scopes]
TablesTyped ==
    /\ now \in Nat
    /\ users \in [Ids -> UserRow \cup {None}]
    /\ sessions \in [Ids -> Session \cup {None}]
    /\ keys \in [Ids -> KeyRow \cup {None}]
    /\ links \in [Ids -> Link \cup {None}]
    /\ sysInbox \in Inbox \cup {None}
    /\ lastGuard \subseteq Requests
Typed == TablesTyped /\ req \in [Requests -> Req]

(* A request is known by its rows only once it has passed the steps that   *)
(* insert a user, and never goes back to them.                             *)
Unplaced == {"idle", "checkMail", "insertUser", "ssoFind", "ssoInsert"}
Placed(u) == u \in Ids /\ (u \in Requests => req[u].pc \notin Unplaced)
Closed(i) == i \in Ids /\ (i \in Requests => req[i].pc = "done")

Moves(r) == \E x \in Req : /\ req' = [req EXCEPT ![r] = x]
                           /\ x.pc \in Unplaced => req[r].pc \in Unplaced
                           /\ req[r].pc # "done"

(* The ways a request moves: on, to its reply, into its first step.        *)
LEMMA GotoMoves ==
    ASSUME Typed, NEW r \in Requests, NEW pc \in Pcs, Goto(r, pc), req[r].pc # "done",
           pc \in Unplaced => req[r].pc \in Unplaced
    PROVE  Moves(r)
  <1>1. [req[r] EXCEPT !.pc = pc] \in Req /\ [req[r] EXCEPT !.pc = pc].pc = pc
    BY DEF Typed, Req
  <1>2. req' = [req EXCEPT ![r] = [req[r] EXCEPT !.pc = pc]]
    BY DEF Goto
  <1> QED
    BY <1>1, <1>2 DEF Moves

(* An answer moves a request to its end.                                   *)
LEMMA ReplyMoves ==
    ASSUME Typed, NEW r \in Requests, NEW ok \in BOOLEAN, Reply(r, ok), req[r].pc # "done"
    PROVE  Moves(r)
  <1> DEFINE x == [Idle EXCEPT !.pc = "done", !.op = req[r].op, !.seen = req[r].seen,
                               !.ok = ok]
  <1>1. x \in Req /\ x.pc = "done"
    BY DEF Typed, Req, Pcs, Idle, Args
  <1>2. req' = [req EXCEPT ![r] = x]
    BY DEF Reply
  <1> QED
    BY <1>1, <1>2 DEF Moves, Unplaced

(* A request that begins is well typed, if its arguments are.              *)
LEMMA BeginMoves ==
    ASSUME Typed, NEW r \in Requests, NEW op \in AccOps, NEW pc \in Pcs,
           NEW uid \in Ids \cup Names \cup {None},
           NEW arg \in Args,
           Begin(r, op, pc, uid, arg)
    PROVE  Moves(r)
  <1> DEFINE x == [Idle EXCEPT !.pc = pc, !.op = op, !.uid = uid, !.arg = arg]
  <1>1. x \in Req
    BY DEF Req, Idle
  <1>2. req' = [req EXCEPT ![r] = x]
    BY DEF Begin
  <1>3. req[r].pc = "idle"
    BY DEF Begin, Idle
  <1> QED
    BY <1>1, <1>2, <1>3 DEF Moves, Unplaced

(* A request refused at the door is answered at once.                      *)
LEMMA RefuseMoves ==
    ASSUME Typed, NEW r \in Requests, Refuse(r)
    PROVE  Moves(r)
  <1> DEFINE x == [Idle EXCEPT !.pc = "done"]
  <1>1. x \in Req
    BY DEF Req, Pcs, Idle, AccOps, Args
  <1>2. req' = [req EXCEPT ![r] = x]
    BY DEF Refuse
  <1>3. req[r].pc = "idle" /\ x.pc = "done"
    BY DEF Refuse, Idle
  <1> QED
    BY <1>1, <1>2, <1>3 DEF Moves, Unplaced

(* A session belongs to a user's id.                                       *)
LEMMA SessionUser ==
    ASSUME Typed, NEW s \in Active
    PROVE  s \in Ids /\ sessions[s] # None /\ sessions[s].user \in Ids
  BY DEF Typed, TablesTyped, Active, Session

(* Every first step is one.                                                *)
LEMMA StartMoves ==
    ASSUME Typed, NEW r \in Requests, Start(r)
    PROVE  Moves(r)
  <1> USE BeginMoves, RefuseMoves DEF AccOps, Pcs, Args
  <1>1. ASSUME NEW m \in Names, ForgotPassword(r, m)
        PROVE  Moves(r)
    BY <1>1 DEF ForgotPassword, Owner
  <1>2. ASSUME NEW m \in Names, LdapLogin(r, m)
        PROVE  Moves(r)
    BY <1>2 DEF LdapLogin
  <1>3. ASSUME NEW m \in Names, OAuthCallback(r, m)
        PROVE  Moves(r)
    BY <1>3 DEF OAuthCallback
  <1>4. ASSUME NEW m \in Names, VerifyOAuth2Token(r, m)
        PROVE  Moves(r)
    BY <1>4 DEF VerifyOAuth2Token
  <1>5. ASSUME NEW m \in Names, NEW p \in Passwords, Register(r, m, p)
        PROVE  Moves(r)
    BY <1>5 DEF Register
  <1>6. ASSUME NEW m \in Names, NEW p \in Passwords \cup {Old}, Login(r, m, p)
        PROVE  Moves(r)
    BY <1>6 DEF Login, Owner
  <1>7. ASSUME NEW s \in Ids, NEW op \in AccOps, NEW pc \in Pcs,
               NEW arg \in Args,
               AuthGuard(r, s, op, pc, arg)
        PROVE  Moves(r)
    BY <1>7, SessionUser DEF AuthGuard
  <1>8. ASSUME NEW s \in Ids, NEW p \in Passwords, ChangePassword(r, s, p)
        PROVE  Moves(r)
    BY <1>7, <1>8 DEF ChangePassword
  <1>9. ASSUME NEW s \in Ids, ResendVerification(r, s) \/ Logout(r, s)
        PROVE  Moves(r)
    BY <1>7, <1>9 DEF ResendVerification, Logout
  <1>10. ASSUME NEW s \in Ids, NEW op \in {"createKey", "editKey", "rotateKey", "deleteKey"},
                NEW k \in Ids \cup {None}, KeyRequest(r, s, op, k)
         PROVE  Moves(r)
    BY <1>7, <1>10 DEF KeyRequest
  <1>11. ASSUME NEW k \in Ids, UseKey(r, k)
         PROVE  Moves(r)
    <2>1. CASE Refuse(r)
      BY <2>1
    <2>2. ASSUME NEW j \in Ids, keys[j] # None, req[r] = Idle,
                 req' = [req EXCEPT ![r] =
                   [Idle EXCEPT !.pc = IF keys[j].legacy THEN "upgradeKey" ELSE "useKey",
                                !.op = "use", !.uid = keys[j].user, !.arg = j,
                                !.row = k, !.seen = {keys[j].scope}]]
          PROVE  Moves(r)
      <3> DEFINE x == [Idle EXCEPT !.pc = IF keys[j].legacy THEN "upgradeKey" ELSE "useKey",
                                   !.op = "use", !.uid = keys[j].user, !.arg = j,
                                   !.row = k, !.seen = {keys[j].scope}]
      <3>1. keys[j].user \in Ids /\ keys[j].scope \in Scopes
        BY <2>2 DEF Typed, TablesTyped, KeyRow
      <3>2. x \in Req
        BY <3>1 DEF Req, Idle
      <3>3. req[r].pc = "idle"
        BY <2>2 DEF Idle
      <3> QED
        BY <2>2, <3>2, <3>3 DEF Moves, Unplaced
    <2> QED
      BY <1>11, <2>1, <2>2 DEF UseKey
  <1>12. ASSUME NEW l \in Ids, NEW kind \in {"reset", "verify"},
                NEW pc \in {"datePassword", "setVerified"},
                NEW arg \in Passwords \cup {None}, ClaimLink(r, l, kind, pc, arg)
         PROVE  Moves(r)
    <2>1. links[l].user \in Ids
      BY <1>12 DEF ClaimLink, Typed, TablesTyped, Link
    <2> QED
      BY <1>12, <2>1 DEF ClaimLink
  <1>13. ASSUME NEW s \in Ids, NEW op \in {"adminCreate", "update", "setpw", "delete"},
                NEW pc \in {"checkMail", "setRole", "datePassword", "deleteUser"},
                NEW uid \in Ids \cup Names,
                NEW arg \in Passwords \cup {None, "admin", "user"},
                RequireAdmin(r, s, op, pc, uid, arg)
         PROVE  Moves(r)
    <2>1. CASE Refuse(r)
      BY <2>1
    <2>2. CASE /\ req[r] = Idle
               /\ req' = [req EXCEPT ![r] = [Idle EXCEPT !.pc = pc, !.op = op, !.uid = uid,
                                                !.arg = arg, !.row = sessions[s].user]]
      <3> DEFINE x == [Idle EXCEPT !.pc = pc, !.op = op, !.uid = uid, !.arg = arg,
                                   !.row = sessions[s].user]
      <3>1. sessions[s].user \in Ids
        BY <1>13, SessionUser DEF RequireAdmin
      <3>2. x \in Req
        BY <3>1 DEF Req, Idle
      <3>3. req[r].pc = "idle"
        BY <2>2 DEF Idle
      <3> QED
        BY <2>2, <3>2, <3>3 DEF Moves, Unplaced
    <2> QED
      BY <1>13, <2>1, <2>2 DEF RequireAdmin
  <1> QED
    BY <1>1, <1>2, <1>3, <1>4, <1>5, <1>6, <1>8, <1>9, <1>10, <1>11, <1>12, <1>13
    DEF Start, VerifyEmail, ResetPassword, AdminCreateUser, AdminUpdateUser,
        AdminSetPassword, AdminDeleteUser, Names

(* So is every later one.                                                  *)
LEMMA WorkMoves ==
    ASSUME Typed, NEW r \in Requests, Work(r)
    PROVE  Moves(r)
  <1> USE GotoMoves, ReplyMoves DEF Pcs, Unplaced
  <1>1. ASSUME NEW x \in Req, req' = [req EXCEPT ![r] = x], x.pc \notin Unplaced,
               req[r].pc # "done"
        PROVE  Moves(r)
    BY <1>1 DEF Moves
  <1>2. CASE Sign(r)
    BY <1>2 DEF Sign
  <1>3. CASE req[r].pc # "done" /\ AfterMail(r)
    BY <1>3 DEF AfterMail
  <1>4. CASE FindInbox(r)
    <2>1. CASE sysInbox # None
               /\ req' = [req EXCEPT ![r] = [req[r] EXCEPT !.pc = "send",
                                                           !.row = sysInbox.id]]
      <3> DEFINE x == [req[r] EXCEPT !.pc = "send", !.row = sysInbox.id]
      <3>0. sysInbox.id \in Ids
        BY <2>1 DEF Typed, TablesTyped, Inbox
      <3>1. x \in Req /\ x.pc = "send"
        <4>1. req[r] \in Req /\ "send" \in Pcs
          BY DEF Typed
        <4> HIDE DEF Pcs, Unplaced
        <4> QED
          BY <3>0, <4>1 DEF Req
      <3>2. req' = [req EXCEPT ![r] = x]
        BY <2>1
      <3> QED
        BY <1>1, <1>4, <3>1, <3>2 DEF FindInbox
    <2> QED
      BY <1>3, <1>4, <2>1 DEF FindInbox
  <1>5. CASE CreateInbox(r)
    <2>1. CASE req' = [req EXCEPT ![r] = [req[r] EXCEPT !.pc = "send", !.row = r]]
      <3> DEFINE x == [req[r] EXCEPT !.pc = "send", !.row = r]
      <3>0. r \in Ids
        BY DEF Ids
      <3>1. x \in Req /\ x.pc = "send"
        BY <3>0 DEF Typed, Req
      <3>2. req' = [req EXCEPT ![r] = x]
        BY <2>1
      <3> QED
        BY <1>1, <1>5, <3>1, <3>2 DEF CreateInbox
    <2> QED
      BY <1>3, <1>5, <2>1 DEF CreateInbox
  <1>6. CASE SendSystemEmail(r)
    BY <1>3, <1>6 DEF SendSystemEmail
  <1>7. CASE InsertLink(r)
    BY <1>7 DEF InsertLink
  <1>8. CASE InsertUser(r)
    <2>1. ASSUME NEW next \in {"verify", "sign"},
                 req' = [req EXCEPT ![r] = [req[r] EXCEPT !.uid = r, !.pc = next]]
          PROVE  Moves(r)
      <3> DEFINE x == [req[r] EXCEPT !.uid = r, !.pc = next]
      <3>0. r \in Ids
        BY DEF Ids
      <3>1. x \in Req /\ x.pc \notin Unplaced
        <4>1. req[r] \in Req /\ r \in Ids \cup Names \cup {None} /\ next \in Pcs
          BY <3>0 DEF Typed
        <4> HIDE DEF Pcs, Unplaced
        <4>2. x \in Req /\ x.pc = next
          BY <4>1 DEF Req
        <4> QED
          BY <4>2 DEF Unplaced
      <3>2. req' = [req EXCEPT ![r] = x]
        BY <2>1
      <3> QED
        BY <1>1, <1>8, <3>1, <3>2 DEF InsertUser
    <2> QED
      BY <1>8, <2>1 DEF InsertUser
  <1>9. CASE ResolveSsoUser(r)
    <2>1. ASSUME NEW u \in Owner(req[r].arg),
                 req' = [req EXCEPT ![r] = [req[r] EXCEPT !.pc = "sign", !.uid = u]]
          PROVE  Moves(r)
      <3> DEFINE x == [req[r] EXCEPT !.pc = "sign", !.uid = u]
      <3>1. x \in Req /\ x.pc = "sign"
        <4>1. req[r] \in Req /\ u \in Ids /\ "sign" \in Pcs
          BY <2>1 DEF Typed, Owner
        <4> HIDE DEF Pcs, Unplaced
        <4> QED
          BY <4>1 DEF Req
      <3>2. req' = [req EXCEPT ![r] = x]
        BY <2>1
      <3> QED
        BY <1>1, <1>9, <3>1, <3>2 DEF ResolveSsoUser
    <2> QED
      BY <1>9, <2>1 DEF ResolveSsoUser
  <1>10. CASE SsoInsert(r)
    BY <1>10 DEF SsoInsert
  <1>11. CASE CompareHash(r)
    BY <1>11 DEF CompareHash
  <1>21. CASE DateChange(r)
    <2> DEFINE x == [req[r] EXCEPT !.pc = "setPassword", !.at = now]
    <2>1. now \in Nat /\ req[r] \in Req
      BY DEF Typed, TablesTyped
    <2>2. x \in Req /\ x.pc = "setPassword"
      BY <2>1 DEF Req
    <2>3. req' = [req EXCEPT ![r] = x]
      BY <1>21 DEF DateChange
    <2> QED
      BY <1>1, <1>21, <2>2, <2>3 DEF DateChange
  <1>12. CASE SetPassword(r)
    <2>1. CASE req' = [req EXCEPT ![r] = [req[r] EXCEPT !.pc = "deleteKeys",
                                                        !.seen = KeysOf(req[r].uid)]]
      <3> DEFINE x == [req[r] EXCEPT !.pc = "deleteKeys", !.seen = KeysOf(req[r].uid)]
      <3>1. x \in Req /\ x.pc = "deleteKeys"
        BY <2>1 DEF Typed, Req, KeysOf
      <3>2. req' = [req EXCEPT ![r] = x]
        BY <2>1
      <3> QED
        BY <1>1, <1>12, <3>1, <3>2 DEF SetPassword
    <2> QED
      BY <1>12, <2>1 DEF SetPassword
  <1>13. CASE DeleteKeys(r)
    BY <1>13 DEF DeleteKeys
  <1>14. CASE VoidLinks(r) \/ SetVerified(r) \/ RevokeToken(r)
    BY <1>14 DEF VoidLinks, SetVerified, RevokeToken
  <1>20. CASE DeleteUser(r) \/ SetRole(r)
    <2>1. Exists(req[r].uid) \in BOOLEAN
      BY DEF Exists
    <2>2. req[r].pc # "done" /\ \E ok \in BOOLEAN : Reply(r, ok)
      BY <1>20, <2>1, Zenon DEF DeleteUser, SetRole
    <2> QED
      BY <2>2
  <1>15. CASE ReadVerified(r)
    BY <1>15 DEF ReadVerified
  <1>16. CASE CreateKey(r) \/ EditKey(r) \/ RotateKey(r) \/ DeleteKey(r)
    <2>1. CASE CreateKey(r)
      BY <2>1 DEF CreateKey
    <2>2. CASE EditKey(r) \/ RotateKey(r) \/ DeleteKey(r)
      <3>1. OwnKey(r) \in BOOLEAN
        BY DEF OwnKey
      <3>2. req[r].pc # "done" /\ \E ok \in BOOLEAN : Reply(r, ok)
        BY <2>2, <3>1, Zenon DEF EditKey, RotateKey, DeleteKey
      <3> QED
        BY <3>2
    <2> QED
      BY <1>16, <2>1, <2>2
  <1>17. CASE UpgradeKey(r)
    BY <1>17 DEF UpgradeKey
  <1>18. CASE AcceptKey(r)
    BY <1>18 DEF AcceptKey
  <1>19. CASE CheckMail(r)
    BY <1>19 DEF CheckMail
  <1> QED
    BY <1>2, <1>4, <1>5, <1>6, <1>7, <1>8, <1>9, <1>10, <1>11, <1>12, <1>13, <1>14, <1>15,
       <1>16, <1>17, <1>18, <1>19, <1>20, <1>21
    DEF Work

(***************************************************************************)
(* What each table may undergo in a step.                                  *)
(***************************************************************************)
(* First steps write no table but links and lastGuard.                     *)
LEMMA StartFrame ==
    ASSUME Typed, NEW r \in Requests, Start(r)
    PROVE  /\ UNCHANGED <<now, users, sessions, loggedOut, keys, sysInbox, retired>>
           /\ \/ UNCHANGED links
              \/ \E l \in Ids : /\ links[l] # None
                                /\ links' = [links EXCEPT ![l].state = "used"]
           /\ lastGuard' \in {lastGuard, lastGuard \cup {r}}
  <1> DEFINE Frame == /\ UNCHANGED <<now, users, sessions, loggedOut, keys, sysInbox, retired>>
                      /\ \/ UNCHANGED links
                         \/ \E l \in Ids : /\ links[l] # None
                                           /\ links' = [links EXCEPT ![l].state = "used"]
                      /\ lastGuard' \in {lastGuard, lastGuard \cup {r}}
  <1>1. ASSUME UNCHANGED <<now, tables>>
        PROVE  Frame
    BY <1>1 DEF tables
  <1>2. ASSUME NEW l \in Ids, NEW kind, NEW pc, NEW arg, ClaimLink(r, l, kind, pc, arg)
        PROVE  Frame
    BY <1>2 DEF ClaimLink
  <1>3. ASSUME NEW s \in Ids, NEW op, NEW pc, NEW uid, NEW arg,
               RequireAdmin(r, s, op, pc, uid, arg)
        PROVE  Frame
    BY <1>3 DEF RequireAdmin
  <1> HIDE DEF Frame
  <1>4. Frame
    BY <1>1, <1>2, <1>3
    DEF Start, ForgotPassword, LdapLogin, OAuthCallback, VerifyOAuth2Token, Register, Login,
        ChangePassword, ResendVerification, Logout, KeyRequest, UseKey, VerifyEmail,
        ResetPassword, AdminCreateUser, AdminUpdateUser, AdminSetPassword, AdminDeleteUser
  <1> QED
    BY <1>4 DEF Frame

(* Which later steps write which table.                                    *)
LEMMA WorkFrame ==
    ASSUME NEW r \in Requests, Work(r)
    PROVE  /\ now' = now
           /\ \/ users' = users
              \/ InsertUser(r) \/ SsoInsert(r) \/ SetPassword(r) \/ SetVerified(r)
              \/ SetRole(r) \/ DeleteUser(r)
           /\ sessions' = sessions \/ Sign(r)
           /\ loggedOut' = loggedOut \/ RevokeToken(r)
           /\ \/ keys' = keys
              \/ DeleteKeys(r) \/ CreateKey(r) \/ EditKey(r) \/ RotateKey(r) \/ DeleteKey(r)
              \/ UpgradeKey(r) \/ DeleteUser(r)
           /\ \/ links' = links
              \/ SendSystemEmail(r) \/ InsertLink(r) \/ VoidLinks(r) \/ DeleteUser(r)
           /\ sysInbox' = sysInbox \/ CreateInbox(r) \/ DeleteUser(r)
           /\ retired' = retired \/ RotateKey(r)
           /\ lastGuard' = lastGuard \/ lastGuard' = {}
  BY DEF Work, Sign, FindInbox, CreateInbox, SendSystemEmail, InsertLink, InsertUser,
         ResolveSsoUser, SsoInsert, CompareHash, DateChange, SetPassword, DeleteKeys,
         VoidLinks, SetVerified, ReadVerified, RevokeToken, CreateKey, EditKey, RotateKey, DeleteKey,
         UpgradeKey, AcceptKey, CheckMail, SetRole, DeleteUser, tables

(* A row of users is the one there was, verified no less and dated as it   *)
(* was or by a request that sets the password, or one inserted by the      *)
(* request it is named after.                                              *)
UserKept(u) ==
    /\ users[u] # None
    /\ users[u].verified => users'[u].verified
    /\ \/ users'[u].changed = users[u].changed
       \/ \E r \in Requests : /\ req[r].pc = "setPassword" /\ req[r].uid = u
                              /\ users'[u].changed = req[r].at
UserInserted(u) ==
    /\ u \in Requests /\ req[u].pc \in {"insertUser", "ssoInsert"}
    /\ req'[u].pc \notin Unplaced
    /\ users'[u].changed = 0

UsersEvolve ==
    /\ users' \in [Ids -> UserRow \cup {None}]
    /\ \A u \in Ids : users'[u] # None => UserKept(u) \/ UserInserted(u)

(* What a moved request is.                                                *)
LEMMA ReplyIs ==
    ASSUME Typed, NEW r \in Requests, NEW ok \in BOOLEAN, Reply(r, ok)
    PROVE  /\ req'[r].pc = "done" /\ req'[r].op = req[r].op
           /\ req'[r].seen = req[r].seen /\ req'[r].ok = ok
  BY DEF Reply, Typed, Idle

(* Going on changes nothing of a request but the statement it is at.       *)
LEMMA GotoIs ==
    ASSUME Typed, NEW r \in Requests, NEW pc, Goto(r, pc)
    PROVE  /\ req'[r].pc = pc /\ req'[r].op = req[r].op /\ req'[r].uid = req[r].uid
           /\ req'[r].arg = req[r].arg /\ req'[r].row = req[r].row
           /\ req'[r].seen = req[r].seen /\ req'[r].ok = req[r].ok
  <1>1. req[r] \in Req
    BY DEF Typed
  <1>2. req'[r] = [req[r] EXCEPT !.pc = pc]
    BY DEF Goto, Typed
  <1> QED
    BY <1>1, <1>2 DEF Req

(* Dating a change is going on as well.                                    *)
LEMMA DateIs ==
    ASSUME Typed, NEW r \in Requests, DateChange(r)
    PROVE  /\ req[r].pc = "datePassword" /\ req'[r].pc = "setPassword"
           /\ req'[r].op = req[r].op /\ req'[r].uid = req[r].uid
           /\ req'[r].arg = req[r].arg /\ req'[r].row = req[r].row
           /\ req'[r].seen = req[r].seen /\ req'[r].ok = req[r].ok
  <1>1. req[r] \in Req
    BY DEF Typed
  <1>2. req'[r] = [req[r] EXCEPT !.pc = "setPassword", !.at = now]
    BY DEF DateChange, Typed
  <1>3. req[r].pc = "datePassword"
    BY DEF DateChange
  <1> QED
    BY <1>1, <1>2, <1>3 DEF Req

(* The row a request inserts.                                              *)
LEMMA NewRowEvolves ==
    ASSUME Typed, NEW r \in Requests, NEW x \in UserRow, x.changed = 0,
           req[r].pc \in {"insertUser", "ssoInsert"}, req'[r].pc \notin Unplaced,
           users' = [users EXCEPT ![r] = x]
    PROVE  UsersEvolve
  <1>1. r \in Ids
    BY DEF Ids
  <1>2. users' \in [Ids -> UserRow \cup {None}]
    BY DEF Typed, TablesTyped
  <1>3. ASSUME NEW u \in Ids, users'[u] # None
        PROVE  UserKept(u) \/ UserInserted(u)
    <2>1. CASE u = r
      BY <1>1, <2>1 DEF UserInserted, Typed, TablesTyped
    <2>2. CASE u # r
      BY <1>3, <2>2 DEF UserKept, Typed, TablesTyped
    <2> QED
      BY <2>1, <2>2
  <1> QED
    BY <1>2, <1>3 DEF UsersEvolve

(* The row a registration or a sign-in builds is a user row, with the      *)
(* password of instant 0.                                                  *)
LEMMA NewUserIsRow ==
    ASSUME NEW m \in Args, NEW p \in Args, NEW v \in BOOLEAN, NEW role \in {"admin", "user"}
    PROVE  /\ NewUser(m, p, v) \in UserRow /\ NewUser(m, p, v).changed = 0
           /\ [NewUser(m, p, v) EXCEPT !.role = role] \in UserRow
           /\ [NewUser(m, p, v) EXCEPT !.role = role].changed = 0
  <1>1. role \in Args /\ "user" \in Args
    BY DEF Args
  <1> QED
    BY <1>1 DEF NewUser, UserRow

(* A registration inserts a row under its own id, or finds the address     *)
(* taken.                                                                  *)
LEMMA InsertUserEvolves ==
    ASSUME Typed, NEW r \in Requests, InsertUser(r)
    PROVE  UsersEvolve
  <1>1. CASE users' = users
    BY <1>1 DEF UsersEvolve, UserKept, Typed, TablesTyped
  <1>2. CASE users' # users
    <2>1. PICK role \in {"admin", "user"} :
            users' = [users EXCEPT ![r] =
                        [NewUser(req[r].uid, req[r].arg, req[r].op = "adminCreate" \/ ~Production)
                           EXCEPT !.role = role]]
      BY <1>2 DEF InsertUser
    <2>2. req[r].uid \in Args /\ req[r].arg \in Args
      BY DEF Typed, Req, Args
    <2>3. (req[r].op = "adminCreate" \/ ~Production) \in BOOLEAN
      OBVIOUS
    <2>4. PICK v \in BOOLEAN : v = (req[r].op = "adminCreate" \/ ~Production)
      BY <2>3
    <2>5. users' = [users EXCEPT ![r] = [NewUser(req[r].uid, req[r].arg, v) EXCEPT !.role = role]]
      BY <2>1, <2>4
    <2>6. /\ [NewUser(req[r].uid, req[r].arg, v) EXCEPT !.role = role] \in UserRow
          /\ [NewUser(req[r].uid, req[r].arg, v) EXCEPT !.role = role].changed = 0
      BY <2>2, NewUserIsRow
    <2>7. CASE Reply(r, TRUE)
      BY <2>5, <2>6, <2>7, ReplyIs, NewRowEvolves DEF InsertUser, Unplaced
    <2>8. CASE req' = [req EXCEPT ![r] = [@ EXCEPT !.uid = r,
                                            !.pc = IF Production THEN "verify" ELSE "sign"]]
      <3>1. req'[r].pc = IF Production THEN "verify" ELSE "sign"
        BY <2>8 DEF Typed, Req
      <3> QED
        BY <2>5, <2>6, <3>1, NewRowEvolves DEF InsertUser, Unplaced
    <2> QED
      BY <1>2, <2>7, <2>8 DEF InsertUser
  <1> QED
    BY <1>1, <1>2

(* So does the first sign-in by an identity provider.                      *)
LEMMA SsoInsertEvolves ==
    ASSUME Typed, NEW r \in Requests, SsoInsert(r)
    PROVE  UsersEvolve
  <1>1. CASE users' = users
    BY <1>1 DEF UsersEvolve, UserKept, Typed, TablesTyped
  <1>2. CASE users' = [users EXCEPT ![r] = NewUser(req[r].arg, None, TRUE)]
    <2>1. req[r].arg \in Args /\ None \in Args
      BY DEF Typed, Req, Args
    <2>2. req'[r].pc \notin Unplaced
      BY GotoIs DEF SsoInsert, Unplaced
    <2>3. NewUser(req[r].arg, None, TRUE) \in UserRow
          /\ NewUser(req[r].arg, None, TRUE).changed = 0
      BY <2>1, NewUserIsRow
    <2> QED
      BY <1>2, <2>2, <2>3, NewRowEvolves DEF SsoInsert
  <1> QED
    BY <1>1, <1>2 DEF SsoInsert

(* A change of one row that takes nothing back.                            *)
LEMMA ChangedRowEvolves ==
    ASSUME Typed, NEW u \in Ids, users[u] # None, NEW x \in UserRow,
           users[u].verified => x.verified,
           \/ x.changed = users[u].changed
           \/ \E r \in Requests : /\ req[r].pc = "setPassword" /\ req[r].uid = u
                                  /\ x.changed = req[r].at,
           users' = [users EXCEPT ![u] = x]
    PROVE  UsersEvolve
  <1>1. users' \in [Ids -> UserRow \cup {None}]
    BY DEF Typed, TablesTyped
  <1>2. ASSUME NEW v \in Ids, users'[v] # None
        PROVE  UserKept(v)
    <2>1. CASE v = u
      BY <2>1 DEF UserKept, Typed, TablesTyped
    <2>2. CASE v # u
      BY <1>2, <2>2 DEF UserKept, Typed, TablesTyped
    <2> QED
      BY <2>1, <2>2
  <1> QED
    BY <1>1, <1>2 DEF UsersEvolve

(* Every step takes the users on in one of these ways.                     *)
LEMMA UsersStep ==
    ASSUME Typed, NEW r \in Requests, Work(r)
    PROVE  UsersEvolve
  <1> DEFINE u == req[r].uid
  <1>0. Exists(u) => u \in Ids /\ users[u] \in UserRow /\ users[u] # None
    BY DEF Exists, Typed, TablesTyped
  <1>1. CASE users' = users
    BY <1>1 DEF UsersEvolve, UserKept, Typed, TablesTyped
  <1>2. ASSUME Exists(u), req[r].pc = "setPassword",
               users' = [users EXCEPT ![u].pw = req[r].arg, ![u].changed = req[r].at]
        PROVE  UsersEvolve
    <2> DEFINE x == [users[u] EXCEPT !.pw = req[r].arg, !.changed = req[r].at]
    <2>1. req[r].arg \in Args /\ req[r].at \in Nat
      BY DEF Typed, TablesTyped, Req
    <2>2. x \in UserRow /\ x.verified = users[u].verified /\ x.changed = req[r].at
      BY <1>0, <1>2, <2>1 DEF UserRow
    <2>3. users' = [users EXCEPT ![u] = x]
      BY <1>0, <1>2 DEF Typed, TablesTyped, UserRow
    <2> QED
      BY <1>0, <1>2, <2>2, <2>3, ChangedRowEvolves
  <1>3. ASSUME Exists(u), users' = [users EXCEPT ![u].verified = TRUE]
        PROVE  UsersEvolve
    <2> DEFINE x == [users[u] EXCEPT !.verified = TRUE]
    <2>1. x \in UserRow /\ x.verified = TRUE /\ x.changed = users[u].changed
      BY <1>0, <1>3 DEF UserRow
    <2>2. users' = [users EXCEPT ![u] = x]
      BY <1>0, <1>3 DEF Typed, TablesTyped
    <2> QED
      BY <1>0, <1>3, <2>1, <2>2, ChangedRowEvolves
  <1>4. ASSUME Exists(u), users' = [users EXCEPT ![u].role = req[r].arg]
        PROVE  UsersEvolve
    <2> DEFINE x == [users[u] EXCEPT !.role = req[r].arg]
    <2>1. req[r].arg \in Args
      BY DEF Typed, TablesTyped, Req
    <2>2. x \in UserRow /\ x.verified = users[u].verified /\ x.changed = users[u].changed
      BY <1>0, <1>4, <2>1 DEF UserRow
    <2>3. users' = [users EXCEPT ![u] = x]
      BY <1>0, <1>4 DEF Typed, TablesTyped
    <2> QED
      BY <1>0, <1>4, <2>2, <2>3, ChangedRowEvolves
  <1>5. CASE users' = [users EXCEPT ![u] = None]
    BY <1>5 DEF UsersEvolve, UserKept, Typed, TablesTyped
  <1>6. CASE SetPassword(r)
    BY <1>1, <1>2, <1>6 DEF SetPassword
  <1>7. CASE SetVerified(r)
    BY <1>1, <1>3, <1>7 DEF SetVerified
  <1>8. CASE SetRole(r)
    BY <1>1, <1>4, <1>8 DEF SetRole
  <1>9. CASE DeleteUser(r)
    BY <1>5, <1>9 DEF DeleteUser
  <1> QED
    BY <1>1, <1>6, <1>7, <1>8, <1>9, WorkFrame, InsertUserEvolves, SsoInsertEvolves

(***************************************************************************)
(* Everything is named after requests that have got far enough.            *)
(***************************************************************************)
UserPcs == {"reset", "verify", "inbox", "createInbox", "send", "sign", "readHash",
            "datePassword", "setPassword", "deleteKeys", "voidLinks", "setVerified",
            "readVerified"}

UsersSettled == \A u \in Ids : users[u] # None => Placed(u)
SessionsSettled == \A s \in Ids : sessions[s] # None => Closed(s) /\ Placed(sessions[s].user)
LinksSettled == \A l \in Ids : links[l] # None => Placed(links[l].user)
KeysClosed == \A k \in Ids : keys[k] # None => Closed(k)
RequestsSettled == \A r \in Requests : req[r].pc \in UserPcs => Placed(req[r].uid)
NamesInv == /\ Typed /\ UsersSettled /\ SessionsSettled /\ LinksSettled /\ KeysClosed
            /\ RequestsSettled

SettledNext(u) == u \in Ids /\ (u \in Requests => req'[u].pc \notin Unplaced)

(* What is settled or closed stays so.                                     *)
LEMMA MovesForward ==
    ASSUME Typed, NEW r \in Requests, Moves(r)
    PROVE  /\ req' \in [Requests -> Req]
           /\ \A q \in Requests : q # r => req'[q] = req[q]
           /\ \A u : Placed(u) => SettledNext(u)
           /\ \A i : Closed(i) => Closed(i)'
           /\ req[r].pc # "done"
  <1>1. PICK x \in Req : /\ req' = [req EXCEPT ![r] = x]
                         /\ x.pc \in Unplaced => req[r].pc \in Unplaced
                         /\ req[r].pc # "done"
    BY DEF Moves
  <1>2. req' \in [Requests -> Req] /\ req'[r] = x
    BY <1>1 DEF Typed
  <1>3. \A q \in Requests : q # r => req'[q] = req[q]
    BY <1>1 DEF Typed
  <1>4. \A u : Placed(u) => SettledNext(u)
    BY <1>1, <1>2, <1>3 DEF Placed, SettledNext
  <1>5. \A i : Closed(i) => Closed(i)'
    BY <1>1, <1>3 DEF Closed
  <1> QED
    BY <1>1, <1>2, <1>3, <1>4, <1>5

(* A token is signed once, by a request that ends with it.                 *)
SessionSigned(s) ==
    /\ s \in Requests /\ req[s].pc = "sign" /\ req'[s].pc = "done"
    /\ sessions'[s].user = req[s].uid /\ sessions'[s].iat = now
    /\ sessions'[s].by = (IF req[s].op = "sso" THEN "sso" ELSE "password")
SessionsEvolve ==
    /\ sessions' \in [Ids -> Session \cup {None}]
    /\ \A s \in Ids : sessions'[s] # None => sessions'[s] = sessions[s] \/ SessionSigned(s)
    /\ \A s \in Ids : sessions[s] # None /\ ~SessionSigned(s) => sessions'[s] = sessions[s]

(* A token is signed for a settled user, at the present instant, under an  *)
(* id of its own.                                                          *)
LEMMA SessionsStep ==
    ASSUME NamesInv, NEW r \in Requests, Work(r)
    PROVE  SessionsEvolve
  <1> USE DEF NamesInv, Typed, TablesTyped
  <1>1. CASE sessions' = sessions
    BY <1>1 DEF SessionsEvolve
  <1>2. CASE Sign(r)
    <2> DEFINE how == IF req[r].op = "sso" THEN "sso" ELSE "password"
               x == [user |-> req[r].uid, iat |-> now, by |-> how]
    <2>1. sessions' = [sessions EXCEPT ![r] = x] /\ req[r].pc = "sign" /\ Reply(r, TRUE)
      BY <1>2 DEF Sign, SignToken
    <2>2. req'[r].pc = "done"
      BY <2>1, ReplyIs
    <2>3. req[r].uid \in Ids /\ r \in Ids
      BY <2>1 DEF RequestsSettled, UserPcs, Placed, Ids
    <2>4. x \in Session
      BY <2>3 DEF Session
    <2>5. SessionSigned(r)
      BY <2>1, <2>2, <2>3 DEF SessionSigned
    <2> HIDE DEF x
    <2>6. \A s \in Ids : s # r => sessions'[s] = sessions[s]
      BY <2>1
    <2>7. sessions' \in [Ids -> Session \cup {None}]
      BY <2>1, <2>4
    <2> QED
      BY <2>5, <2>6, <2>7 DEF SessionsEvolve
  <1> QED
    BY <1>1, <1>2, WorkFrame

(* A key is inserted once, by a request that ends with it, and keeps its   *)
(* owner.                                                                  *)
KeyInserted(k) == k \in Requests /\ req[k].pc = "createKey" /\ req'[k].pc = "done"
KeysEvolve ==
    /\ keys' \in [Ids -> KeyRow \cup {None}]
    /\ \A k \in Ids : keys'[k] # None =>
         (keys[k] # None /\ keys'[k].user = keys[k].user) \/ KeyInserted(k)

(* A key that is changed stays its user's.                                 *)
LEMMA ChangedKeyEvolves ==
    ASSUME Typed, NEW k \in Ids, keys[k] # None, NEW x \in KeyRow,
           x.user = keys[k].user, keys' = [keys EXCEPT ![k] = x]
    PROVE  KeysEvolve
  BY DEF KeysEvolve, Typed, TablesTyped

(* Keys are inserted by their request, changed or deleted, and never       *)
(* handed to another user.                                                 *)
LEMMA KeysStep ==
    ASSUME NamesInv, NEW r \in Requests, Work(r)
    PROVE  KeysEvolve
  <1> DEFINE k == req[r].arg
  <1> USE DEF NamesInv, Typed, TablesTyped
  <1>1. CASE keys' = keys
    BY <1>1 DEF KeysEvolve
  <1>2. ASSUME NEW u, keys' = [j \in Ids |-> IF j \in KeysOf(u) THEN None ELSE keys[j]]
        PROVE  KeysEvolve
    BY <1>2 DEF KeysEvolve
  <1>3. CASE DeleteKeys(r) \/ DeleteUser(r)
    BY <1>2, <1>3 DEF DeleteKeys, DeleteUser
  <1>4. CASE CreateKey(r)
    <2>1. ASSUME NEW scope \in Scopes, Exists(req[r].uid), Reply(r, TRUE),
                 keys' = [keys EXCEPT ![r] = [user |-> req[r].uid, secret |-> r,
                                              legacy |-> FALSE, scope |-> scope]]
          PROVE  KeysEvolve
      <3>1. r \in Ids /\ req[r].uid \in Ids
        BY <2>1 DEF Ids, Exists
      <3>2. keys' \in [Ids -> KeyRow \cup {None}]
        BY <2>1, <3>1 DEF KeyRow
      <3>3. KeyInserted(r)
        BY <1>4, <2>1, ReplyIs DEF KeyInserted, CreateKey
      <3>4. \A j \in Ids : j # r => keys'[j] = keys[j]
        BY <2>1
      <3> QED
        BY <3>2, <3>3, <3>4 DEF KeysEvolve
    <2> QED
      BY <1>1, <1>4, <2>1 DEF CreateKey
  <1>5. CASE EditKey(r)
    <2>1. ASSUME OwnKey(r), NEW scope \in Scopes, keys' = [keys EXCEPT ![k].scope = scope]
          PROVE  KeysEvolve
      <3> DEFINE x == [keys[k] EXCEPT !.scope = scope]
      <3>1. k \in Ids /\ keys[k] # None /\ keys[k] \in KeyRow
        BY <2>1 DEF OwnKey, KeysOf
      <3>2. x \in KeyRow /\ x.user = keys[k].user
        BY <3>1 DEF KeyRow
      <3>3. keys' = [keys EXCEPT ![k] = x]
        BY <2>1, <3>1
      <3> QED
        BY <3>1, <3>2, <3>3, ChangedKeyEvolves
    <2> QED
      BY <1>1, <1>5, <2>1 DEF EditKey
  <1>6. ASSUME NEW secret \in Ids \cup {None}, k \in Ids, keys[k] # None,
               keys' = [keys EXCEPT ![k].secret = secret, ![k].legacy = FALSE]
        PROVE  KeysEvolve
    <2> DEFINE x == [keys[k] EXCEPT !.secret = secret, !.legacy = FALSE]
    <2>1. x \in KeyRow /\ x.user = keys[k].user
      BY <1>6 DEF KeyRow
    <2>2. keys' = [keys EXCEPT ![k] = x]
      BY <1>6 DEF KeyRow
    <2> QED
      BY <1>6, <2>1, <2>2, ChangedKeyEvolves
  <1>7. CASE RotateKey(r)
    <2>1. OwnKey(r) => k \in Ids /\ keys[k] # None
      BY DEF OwnKey, KeysOf
    <2>2. r \in Ids \cup {None}
      BY DEF Ids
    <2> QED
      BY <1>1, <1>6, <1>7, <2>1, <2>2 DEF RotateKey
  <1>8. CASE DeleteKey(r)
    <2>1. CASE keys' = [keys EXCEPT ![k] = None]
      BY <2>1 DEF KeysEvolve
    <2> QED
      BY <1>1, <1>8, <2>1 DEF DeleteKey
  <1>9. CASE UpgradeKey(r)
    <2>1. CASE keys[k] # None /\ k \in Ids
      <3>1. req[r].row \in Ids \cup {None}
        BY DEF Req
      <3> QED
        BY <1>6, <1>9, <2>1, <3>1 DEF UpgradeKey
    <2>2. CASE keys[k] = None
      BY <1>1, <1>9, <2>2 DEF UpgradeKey
    <2>3. CASE k \notin Ids /\ keys[k] # None
      BY <1>9, <2>3 DEF UpgradeKey, KeysEvolve
    <2> QED
      BY <2>1, <2>2, <2>3
  <1> QED
    BY <1>1, <1>3, <1>4, <1>5, <1>7, <1>8, <1>9, WorkFrame

(* A link is a user's for good, or inserted for the user of the request.   *)
LinkInserted(l) ==
    l \in Requests /\ req[l].pc \in {"reset", "verify"} /\ links'[l].user = req[l].uid
LinksEvolve ==
    /\ links' \in [Ids -> Link \cup {None}]
    /\ \A l \in Ids : links'[l] # None =>
         (links[l] # None /\ links'[l].user = links[l].user) \/ LinkInserted(l)

(* A link that is changed stays its user's.                                *)
LEMMA ChangedLinkEvolves ==
    ASSUME Typed, NEW l \in Ids, links[l] # None, NEW x \in Link,
           x.user = links[l].user, links' = [links EXCEPT ![l] = x]
    PROVE  LinksEvolve
  BY DEF LinksEvolve, Typed, TablesTyped

(* Links are inserted for a settled user, used up or deleted.              *)
LEMMA LinksStep ==
    ASSUME NamesInv, NEW r \in Requests, Work(r)
    PROVE  LinksEvolve
  <1> USE DEF NamesInv, Typed, TablesTyped
  <1>0. r \in Ids
    BY DEF Ids
  <1>1. CASE links' = links
    BY <1>1 DEF LinksEvolve
  <1>2. CASE SendSystemEmail(r)
    <2>1. CASE links[r] # None /\ links' = [links EXCEPT ![r].mailed = TRUE]
      <3> DEFINE x == [links[r] EXCEPT !.mailed = TRUE]
      <3>1. links[r] \in Link
        BY <1>0, <2>1
      <3>2. x \in Link /\ x.user = links[r].user
        BY <3>1 DEF Link
      <3>3. links' = [links EXCEPT ![r] = x]
        BY <2>1
      <3> QED
        BY <1>0, <2>1, <3>2, <3>3, ChangedLinkEvolves
    <2> QED
      BY <1>1, <1>2, <2>1 DEF SendSystemEmail
  <1>3. CASE InsertLink(r)
    <2>1. CASE /\ Exists(req[r].uid)
               /\ links' = [links EXCEPT ![r] = [kind |-> req[r].pc, user |-> req[r].uid,
                                                 state |-> "open", mailed |-> FALSE]]
      <3> DEFINE x == [kind |-> req[r].pc, user |-> req[r].uid,
                       state |-> "open", mailed |-> FALSE]
      <3>1. x \in Link /\ x.user = req[r].uid /\ req[r].pc \in {"reset", "verify"}
        BY <1>3, <2>1 DEF InsertLink, Exists, Link
      <3>2. links' \in [Ids -> Link \cup {None}]
        BY <2>1, <3>1
      <3>3. LinkInserted(r)
        BY <1>0, <2>1, <3>1 DEF LinkInserted
      <3>4. \A l \in Ids : l # r => links'[l] = links[l]
        BY <2>1
      <3> QED
        BY <3>2, <3>3, <3>4 DEF LinksEvolve
    <2> QED
      BY <1>1, <1>3, <2>1 DEF InsertLink
  <1>4. CASE VoidLinks(r)
    <2>1. ASSUME NEW l \in Ids
          PROVE  /\ links'[l] \in Link \cup {None}
                 /\ links'[l] # None => links[l] # None /\ links'[l].user = links[l].user
      <3>1. CASE links'[l] = links[l]
        BY <3>1
      <3>2. CASE links[l] # None /\ links'[l] = [links[l] EXCEPT !.state = "used"]
        <4>1. links[l] \in Link
          BY <3>2
        <4> QED
          BY <3>2, <4>1 DEF Link
      <3> QED
        BY <1>4, <3>1, <3>2 DEF VoidLinks
    <2>2. links' = [l \in Ids |-> links'[l]]
      BY <1>4 DEF VoidLinks
    <2> QED
      BY <2>1, <2>2 DEF LinksEvolve
  <1>5. CASE DeleteUser(r)
    BY <1>5 DEF DeleteUser, LinksEvolve
  <1> QED
    BY <1>1, <1>2, <1>3, <1>4, <1>5, WorkFrame

(***************************************************************************)
(* How a request begins and goes on.                                       *)
(***************************************************************************)
PwOps == {"change", "reset", "setpw"}
PwPcs == {"readHash", "datePassword", "setPassword", "deleteKeys", "voidLinks", "sign", "done"}
SsoPcs == {"ssoFind", "ssoInsert", "ssoFindAgain", "sign", "done"}

(* What its first step leaves a request with.                              *)
Begun(x) ==
    /\ x.ok = FALSE
    /\ x.pc \in UserPcs => Placed(x.uid)
    /\ x.op = "sso" => x.pc = "ssoFind"
    /\ x.op \in PwOps => x.pc \in {"readHash", "datePassword"} /\ x.seen = {}

(* The record of a request that begins.                                    *)
LEMMA BeginIs ==
    ASSUME Typed, NEW r \in Requests, NEW op, NEW pc, NEW uid, NEW arg,
           Begin(r, op, pc, uid, arg)
    PROVE  /\ req'[r].pc = pc /\ req'[r].op = op /\ req'[r].uid = uid /\ req'[r].arg = arg
           /\ req'[r].row = None /\ req'[r].seen = {} /\ req'[r].ok = FALSE
  <1>1. req'[r] = [Idle EXCEPT !.pc = pc, !.op = op, !.uid = uid, !.arg = arg]
    BY DEF Begin, Typed
  <1> QED
    BY <1>1 DEF Idle

(* A refused request has nothing left to establish.                        *)
LEMMA RefuseBegun ==
    ASSUME Typed, NEW r \in Requests, Refuse(r)
    PROVE  Begun(req'[r]) /\ req'[r].pc = "done"
  <1>1. req'[r] = [Idle EXCEPT !.pc = "done"]
    BY DEF Refuse, Typed
  <1> QED
    BY <1>1 DEF Idle, Begun, UserPcs, PwOps

(* The user of a session or a row is settled.                              *)
LEMMA OwnersSettled ==
    ASSUME NamesInv
    PROVE  /\ \A m : \A u \in Owner(m) : Placed(u)
           /\ \A s \in Active : Placed(sessions[s].user)
           /\ \A l \in Ids : links[l] # None => Placed(links[l].user)
  BY DEF NamesInv, UsersSettled, SessionsSettled, LinksSettled, Owner, Active

(* What a request of an administrator is checked for.                      *)
GuardPasses(x) ==
    /\ x.row \in Admins
    /\ x.uid # x.row \/ (x.pc = "setRole" /\ x.arg = "admin")

(* A request of an administrator has been checked for what it will change. *)
LEMMA AdminBegun ==
    ASSUME NamesInv, NEW r \in Requests, NEW s \in Ids,
           NEW op \in {"adminCreate", "update", "setpw", "delete"}, NEW pc, NEW uid, NEW arg,
           RequireAdmin(r, s, op, pc, uid, arg),
           pc = "datePassword" => Placed(uid),
           pc \in {"checkMail", "setRole", "datePassword", "deleteUser"},
           op = "setpw" <=> pc = "datePassword",
           pc \in {"setRole", "deleteUser"} => \/ uid # sessions[s].user
                                               \/ pc = "setRole" /\ arg = "admin"
    PROVE  /\ Begun(req'[r])
           /\ req'[r].pc \in {"setRole", "deleteUser"} => GuardPasses(req'[r])
  <1>1. CASE Refuse(r)
    BY <1>1, RefuseBegun DEF NamesInv
  <1>2. CASE /\ sessions[s].user \in Admins
             /\ req' = [req EXCEPT ![r] = [Idle EXCEPT !.pc = pc, !.op = op, !.uid = uid,
                                              !.arg = arg, !.row = sessions[s].user]]
    <2>1. req'[r] = [Idle EXCEPT !.pc = pc, !.op = op, !.uid = uid, !.arg = arg,
                                 !.row = sessions[s].user]
      BY <1>2 DEF NamesInv, Typed
    <2>2. /\ req'[r].pc = pc /\ req'[r].op = op /\ req'[r].uid = uid /\ req'[r].arg = arg
          /\ req'[r].row = sessions[s].user /\ req'[r].seen = {} /\ req'[r].ok = FALSE
      BY <2>1 DEF Idle
    <2> QED
      BY <1>2, <2>2 DEF Begun, UserPcs, PwOps, GuardPasses
  <1> QED
    BY <1>1, <1>2 DEF RequireAdmin

(* Every first step.                                                       *)
LEMMA StartBegins ==
    ASSUME NamesInv, NEW r \in Requests, Start(r)
    PROVE  /\ Begun(req'[r])
           /\ req'[r].pc \in {"setRole", "deleteUser"} => GuardPasses(req'[r])
  <1> DEFINE Good == /\ Begun(req'[r])
                     /\ req'[r].pc \in {"setRole", "deleteUser"} => GuardPasses(req'[r])
  <1>0. Typed
    BY DEF NamesInv
  <1>1. ASSUME Refuse(r)
        PROVE  Good
    BY <1>0, <1>1, RefuseBegun
  <1>2. ASSUME NEW op, NEW pc, NEW uid, NEW arg, Begin(r, op, pc, uid, arg),
               pc \in UserPcs => Placed(uid), pc \notin {"setRole", "deleteUser"},
               op = "sso" => pc = "ssoFind",
               op \in PwOps => pc \in {"readHash", "datePassword"}
        PROVE  Good
    BY <1>0, <1>2, BeginIs DEF Begun
  <1> HIDE DEF Good
  <1>3. ASSUME NEW m \in Names, ForgotPassword(r, m)
        PROVE  Good
    BY <1>1, <1>2, <1>3, OwnersSettled DEF ForgotPassword, PwOps, UserPcs
  <1>4. ASSUME NEW m \in Names, LdapLogin(r, m) \/ OAuthCallback(r, m) \/ VerifyOAuth2Token(r, m)
        PROVE  Good
    <2>1. CASE Begin(r, "sso", "ssoFind", None, m) \/ Begin(r, "bearer", "ssoFind", None, m)
      BY <1>2, <2>1 DEF PwOps, UserPcs
    <2> QED
      BY <1>1, <1>4, <2>1 DEF LdapLogin, OAuthCallback, VerifyOAuth2Token
  <1>5. ASSUME NEW m \in Names, NEW p \in Passwords, Register(r, m, p)
        PROVE  Good
    BY <1>1, <1>2, <1>5 DEF Register, PwOps, UserPcs
  <1>6. ASSUME NEW m \in Names, NEW p \in Passwords \cup {Old}, Login(r, m, p)
        PROVE  Good
    BY <1>1, <1>2, <1>6, OwnersSettled DEF Login, PwOps, UserPcs
  <1>7. ASSUME NEW s \in Ids, NEW p \in Passwords, ChangePassword(r, s, p)
        PROVE  Good
    BY <1>2, <1>7, OwnersSettled DEF ChangePassword, AuthGuard, PwOps, UserPcs
  <1>8. ASSUME NEW s \in Ids, ResendVerification(r, s) \/ Logout(r, s)
        PROVE  Good
    <2>1. CASE ResendVerification(r, s)
      BY <1>2, <2>1, OwnersSettled DEF ResendVerification, AuthGuard, PwOps, UserPcs
    <2>2. CASE Logout(r, s)
      BY <1>2, <2>2, OwnersSettled DEF Logout, AuthGuard, PwOps, UserPcs
    <2> QED
      BY <1>8, <2>1, <2>2
  <1>9. ASSUME NEW s \in Ids, NEW op \in {"createKey", "editKey", "rotateKey", "deleteKey"},
               NEW k, KeyRequest(r, s, op, k)
        PROVE  Good
    BY <1>2, <1>9, OwnersSettled DEF KeyRequest, AuthGuard, PwOps, UserPcs
  <1>10. ASSUME NEW k \in Ids, UseKey(r, k)
         PROVE  Good
    <2>1. ASSUME NEW j \in Ids,
                 req' = [req EXCEPT ![r] =
                   [Idle EXCEPT !.pc = IF keys[j].legacy THEN "upgradeKey" ELSE "useKey",
                                !.op = "use", !.uid = keys[j].user, !.arg = j,
                                !.row = k, !.seen = {keys[j].scope}]]
          PROVE  Good
      <3>1. req'[r] = [Idle EXCEPT !.pc = IF keys[j].legacy THEN "upgradeKey" ELSE "useKey",
                                   !.op = "use", !.uid = keys[j].user, !.arg = j,
                                   !.row = k, !.seen = {keys[j].scope}]
        BY <1>0, <2>1 DEF Typed
      <3>2. req'[r].op = "use" /\ req'[r].pc \in {"upgradeKey", "useKey"} /\ req'[r].ok = FALSE
        BY <3>1 DEF Idle
      <3> QED
        BY <3>2 DEF Good, Begun, UserPcs, PwOps
    <2> QED
      BY <1>1, <1>10, <2>1 DEF UseKey
  <1>11. ASSUME NEW l \in Ids, VerifyEmail(r, l)
         PROVE  Good
    BY <1>1, <1>2, <1>11, OwnersSettled DEF VerifyEmail, ClaimLink, PwOps, UserPcs
  <1>12. ASSUME NEW l \in Ids, NEW p \in Passwords, ResetPassword(r, l, p)
         PROVE  Good
    BY <1>1, <1>2, <1>12, OwnersSettled DEF ResetPassword, ClaimLink, PwOps, UserPcs
  <1>13. ASSUME NEW s \in Ids, NEW m \in Mails, NEW p \in Passwords, AdminCreateUser(r, s, m, p)
         PROVE  Good
    BY <1>13, AdminBegun DEF AdminCreateUser, Good
  <1>14. ASSUME NEW s \in Ids, NEW u \in Ids, users[u] # None, NEW role \in {"admin", "user"},
                AdminUpdateUser(r, s, u, role)
         PROVE  Good
    BY <1>14, AdminBegun DEF AdminUpdateUser, Good
  <1>15. ASSUME NEW s \in Ids, NEW u \in Ids, users[u] # None, NEW p \in Passwords,
                AdminSetPassword(r, s, u, p)
         PROVE  Good
    <2>1. Placed(u)
      BY <1>15 DEF NamesInv, UsersSettled
    <2> QED
      BY <1>15, <2>1, AdminBegun DEF AdminSetPassword, Good
  <1>16. ASSUME NEW s \in Ids, NEW u \in Ids, users[u] # None, AdminDeleteUser(r, s, u)
         PROVE  Good
    BY <1>16, AdminBegun DEF AdminDeleteUser, Good
  <1>17. Good
    BY <1>3, <1>4, <1>5, <1>6, <1>7, <1>8, <1>9, <1>10, <1>11, <1>12, <1>13, <1>14, <1>15,
       <1>16 DEF Start
  <1> QED
    BY <1>17 DEF Good

(* Going on, a request keeps its purpose; it names the user it had, one it *)
(* has found, or itself; and signs for one of them.                        *)
WentOn(r) ==
    /\ req'[r].op = req[r].op
    /\ req'[r].pc \in UserPcs =>
         \/ req[r].pc \in UserPcs /\ req'[r].uid = req[r].uid
         \/ Exists(req'[r].uid)
         \/ req'[r].uid = r /\ req'[r].pc \notin Unplaced
    /\ req'[r].pc \notin {"setRole", "deleteUser"}
    /\ req'[r].pc # "done" => req'[r].ok = req[r].ok
    /\ req'[r].pc = "done" => req'[r].seen = req[r].seen
    /\ req'[r].pc = "sign" =>
         \/ Exists(req'[r].uid) /\ users[req'[r].uid].verified
         \/ req[r].pc \in {"insertUser", "inbox", "createInbox", "send", "deleteKeys"}

(* Replying, or taking a further step for the same user, is going on.      *)
LEMMA ReplyGoesOn ==
    ASSUME Typed, NEW r \in Requests, NEW ok \in BOOLEAN, Reply(r, ok)
    PROVE  WentOn(r)
  BY ReplyIs DEF WentOn, UserPcs

(* Going on keeps what the request stands for.                             *)
LEMMA GotoGoesOn ==
    ASSUME Typed, NEW r \in Requests, NEW pc, Goto(r, pc),
           pc \notin {"setRole", "deleteUser", "done"},
           pc \in UserPcs => req[r].pc \in UserPcs,
           pc = "sign" => req[r].pc \in {"inbox", "createInbox", "send", "deleteKeys"}
    PROVE  WentOn(r)
  BY GotoIs DEF WentOn

(* So is every later step.                                                 *)
LEMMA WorkGoesOn ==
    ASSUME Typed, NEW r \in Requests, Work(r)
    PROVE  WentOn(r)
  <1>0. req[r] \in Req
    BY DEF Typed
  <1>1. ASSUME Reply(r, TRUE) \/ Reply(r, FALSE)
        PROVE  WentOn(r)
    BY <1>1, ReplyGoesOn
  <1>2. CASE Sign(r)
    BY <1>1, <1>2 DEF Sign
  <1>3. CASE req[r].pc \in {"inbox", "createInbox", "send"} /\ AfterMail(r)
    BY <1>1, <1>3, GotoGoesOn DEF AfterMail, UserPcs
  <1>5. CASE FindInbox(r)
    <2>1. CASE req' = [req EXCEPT ![r] = [@ EXCEPT !.pc = "send", !.row = sysInbox.id]]
      <3>1. req'[r] = [req[r] EXCEPT !.pc = "send", !.row = sysInbox.id]
        BY <2>1 DEF Typed
      <3> QED
        BY <1>0, <1>5, <3>1 DEF WentOn, UserPcs, Req, FindInbox
    <2> QED
      BY <1>3, <1>5, <2>1, GotoGoesOn DEF FindInbox, UserPcs
  <1>6. CASE CreateInbox(r)
    <2>1. CASE req' = [req EXCEPT ![r] = [@ EXCEPT !.pc = "send", !.row = r]]
      <3>1. req'[r] = [req[r] EXCEPT !.pc = "send", !.row = r]
        BY <2>1 DEF Typed
      <3> QED
        BY <1>0, <1>6, <3>1 DEF WentOn, UserPcs, Req, CreateInbox
    <2> QED
      BY <1>3, <1>6, <2>1 DEF CreateInbox
  <1>7. CASE SendSystemEmail(r)
    BY <1>3, <1>7 DEF SendSystemEmail
  <1>8. CASE InsertLink(r)
    BY <1>1, <1>8, GotoGoesOn DEF InsertLink, UserPcs
  <1>9. CASE InsertUser(r)
    <2>1. ASSUME NEW next \in {"verify", "sign"},
                 req' = [req EXCEPT ![r] = [@ EXCEPT !.uid = r, !.pc = next]]
          PROVE  WentOn(r)
      <3>1. req'[r] = [req[r] EXCEPT !.uid = r, !.pc = next]
        BY <2>1 DEF Typed
      <3>2. /\ req'[r].op = req[r].op /\ req'[r].uid = r /\ req'[r].pc = next
            /\ req'[r].ok = req[r].ok /\ next \notin Unplaced
        BY <1>0, <3>1 DEF Req, Unplaced
      <3> QED
        BY <1>9, <3>2 DEF WentOn, InsertUser
    <2> QED
      BY <1>1, <1>9, <2>1 DEF InsertUser
  <1>10. CASE ResolveSsoUser(r)
    <2>1. ASSUME NEW u \in Owner(req[r].arg), users[u].verified,
                 req' = [req EXCEPT ![r] = [@ EXCEPT !.pc = "sign", !.uid = u]]
          PROVE  WentOn(r)
      <3>1. req'[r] = [req[r] EXCEPT !.pc = "sign", !.uid = u]
        BY <2>1 DEF Typed
      <3>2. /\ req'[r].op = req[r].op /\ req'[r].uid = u /\ req'[r].pc = "sign"
            /\ req'[r].ok = req[r].ok
        BY <1>0, <3>1 DEF Req
      <3>3. Exists(u)
        BY DEF Owner, Exists
      <3> QED
        BY <2>1, <3>2, <3>3 DEF WentOn
    <2>2. CASE Goto(r, "ssoInsert")
      BY <2>2, GotoGoesOn DEF UserPcs
    <2> QED
      BY <1>1, <1>10, <2>1, <2>2 DEF ResolveSsoUser
  <1>11. CASE SsoInsert(r)
    BY <1>11, GotoGoesOn DEF SsoInsert, UserPcs
  <1>12. CASE CompareHash(r)
    BY <1>1, <1>12, GotoGoesOn DEF CompareHash, UserPcs
  <1>21. CASE DateChange(r)
    BY <1>21, DateIs DEF WentOn, UserPcs
  <1>13. CASE SetPassword(r)
    <2>1. CASE req' = [req EXCEPT ![r] = [@ EXCEPT !.pc = "deleteKeys",
                                                   !.seen = KeysOf(req[r].uid)]]
      <3>1. req'[r] = [req[r] EXCEPT !.pc = "deleteKeys", !.seen = KeysOf(req[r].uid)]
        BY <2>1 DEF Typed
      <3>2. /\ req'[r].op = req[r].op /\ req'[r].uid = req[r].uid
            /\ req'[r].pc = "deleteKeys" /\ req'[r].ok = req[r].ok
        BY <1>0, <3>1 DEF Req
      <3> QED
        BY <1>13, <3>2 DEF WentOn, SetPassword, UserPcs
    <2> QED
      BY <1>1, <1>13, <2>1, GotoGoesOn DEF SetPassword, UserPcs
  <1>14. CASE DeleteKeys(r)
    BY <1>1, <1>14, GotoGoesOn DEF DeleteKeys, UserPcs
  <1>15. CASE VoidLinks(r) \/ SetVerified(r) \/ RevokeToken(r) \/ AcceptKey(r)
    BY <1>15, ReplyGoesOn DEF VoidLinks, SetVerified, RevokeToken, AcceptKey
  <1>16. CASE ReadVerified(r)
    BY <1>1, <1>16, GotoGoesOn DEF ReadVerified, UserPcs
  <1>17. CASE CreateKey(r)
    BY <1>1, <1>17 DEF CreateKey
  <1>18. CASE EditKey(r) \/ RotateKey(r) \/ DeleteKey(r) \/ SetRole(r) \/ DeleteUser(r)
    <2>1. OwnKey(r) \in BOOLEAN /\ Exists(req[r].uid) \in BOOLEAN
      BY DEF OwnKey, Exists
    <2>2. \E ok \in BOOLEAN : Reply(r, ok)
      BY <1>18, <2>1, Zenon DEF EditKey, RotateKey, DeleteKey, SetRole, DeleteUser
    <2> QED
      BY <2>2, ReplyGoesOn
  <1>19. CASE UpgradeKey(r)
    BY <1>19, GotoGoesOn DEF UpgradeKey, UserPcs
  <1>20. CASE CheckMail(r)
    BY <1>1, <1>20, GotoGoesOn DEF CheckMail, UserPcs
  <1> QED
    BY <1>2, <1>5, <1>6, <1>7, <1>8, <1>9, <1>10, <1>11, <1>12, <1>13, <1>14, <1>15, <1>16,
       <1>17, <1>18, <1>19, <1>20, <1>21 DEF Work

(***************************************************************************)
(* Names stay settled.                                                     *)
(***************************************************************************)
(* The rest of the tables is typed.                                        *)
LEMMA WorkTyped ==
    ASSUME NamesInv, NEW r \in Requests, Work(r)
    PROVE  Typed'
  <1>0. Typed
    BY DEF NamesInv
  <1>1. req' \in [Requests -> Req]
    BY <1>0, WorkMoves, MovesForward
  <1>2. /\ users' \in [Ids -> UserRow \cup {None}] /\ sessions' \in [Ids -> Session \cup {None}]
        /\ keys' \in [Ids -> KeyRow \cup {None}] /\ links' \in [Ids -> Link \cup {None}]
    BY <1>0, UsersStep, SessionsStep, KeysStep, LinksStep
    DEF UsersEvolve, SessionsEvolve, KeysEvolve, LinksEvolve
  <1>3. sysInbox' \in Inbox \cup {None}
    <2>1. CASE CreateInbox(r)
      BY <1>0, <2>1 DEF CreateInbox, Admins, Inbox, Ids, Typed, TablesTyped
    <2>2. CASE DeleteUser(r)
      BY <1>0, <2>2 DEF DeleteUser, Typed, TablesTyped
    <2> QED
      BY <1>0, <2>1, <2>2, WorkFrame DEF Typed, TablesTyped
  <1>4. now' \in Nat /\ lastGuard' \subseteq Requests
    BY <1>0, WorkFrame DEF Typed, TablesTyped
  <1> QED
    BY <1>1, <1>2, <1>3, <1>4 DEF Typed, TablesTyped

(* The statements of requests keep it.                                     *)
LEMMA WorkKeepsNames ==
    ASSUME NamesInv, NEW r \in Requests, Work(r)
    PROVE  NamesInv'
  <1>0. Typed
    BY DEF NamesInv
  <1>1. Moves(r) /\ WentOn(r) /\ Typed'
    BY <1>0, WorkMoves, WorkGoesOn, WorkTyped
  <1>2. /\ \A u : Placed(u) => SettledNext(u)
        /\ \A i : Closed(i) => Closed(i)'
        /\ \A q \in Requests : q # r => req'[q] = req[q]
    BY <1>0, <1>1, MovesForward
  <1>3. UsersSettled'
    <2> SUFFICES ASSUME NEW u \in Ids, users'[u] # None
                 PROVE  SettledNext(u)
      BY DEF UsersSettled, Placed, SettledNext
    <2>1. CASE UserKept(u)
      BY <1>2, <2>1 DEF UserKept, NamesInv, UsersSettled
    <2>2. CASE UserInserted(u)
      BY <2>2 DEF UserInserted, SettledNext
    <2> QED
      BY <1>0, <2>1, <2>2, UsersStep DEF UsersEvolve
  <1>4. SessionsSettled'
    <2> SUFFICES ASSUME NEW s \in Ids, sessions'[s] # None
                 PROVE  Closed(s)' /\ SettledNext(sessions'[s].user)
      BY DEF SessionsSettled, Placed, SettledNext
    <2>1. CASE sessions'[s] = sessions[s]
      BY <1>2, <2>1 DEF NamesInv, SessionsSettled
    <2>2. CASE SessionSigned(s)
      <3>1. Placed(req[s].uid)
        BY <2>2 DEF SessionSigned, NamesInv, RequestsSettled, UserPcs
      <3> QED
        BY <1>2, <2>2, <3>1 DEF SessionSigned, Closed
    <2> QED
      BY <2>1, <2>2, SessionsStep DEF SessionsEvolve
  <1>5. LinksSettled'
    <2> SUFFICES ASSUME NEW l \in Ids, links'[l] # None
                 PROVE  SettledNext(links'[l].user)
      BY DEF LinksSettled, Placed, SettledNext
    <2>1. CASE links[l] # None /\ links'[l].user = links[l].user
      BY <1>2, <2>1 DEF NamesInv, LinksSettled
    <2>2. CASE LinkInserted(l)
      BY <1>2, <2>2 DEF LinkInserted, NamesInv, RequestsSettled, UserPcs
    <2> QED
      BY <2>1, <2>2, LinksStep DEF LinksEvolve
  <1>6. KeysClosed'
    <2> SUFFICES ASSUME NEW k \in Ids, keys'[k] # None
                 PROVE  Closed(k)'
      BY DEF KeysClosed
    <2>1. CASE keys[k] # None
      BY <1>2, <2>1 DEF NamesInv, KeysClosed
    <2>2. CASE KeyInserted(k)
      BY <2>2 DEF KeyInserted, Closed
    <2> QED
      BY <2>1, <2>2, KeysStep DEF KeysEvolve
  <1>7. RequestsSettled'
    <2> SUFFICES ASSUME NEW q \in Requests, req'[q].pc \in UserPcs
                 PROVE  SettledNext(req'[q].uid)
      BY DEF RequestsSettled, Placed, SettledNext
    <2>1. CASE q # r
      BY <1>2, <2>1 DEF NamesInv, RequestsSettled
    <2>2. CASE q = r /\ req[r].pc \in UserPcs /\ req'[r].uid = req[r].uid
      BY <1>2, <2>2 DEF NamesInv, RequestsSettled
    <2>3. CASE q = r /\ Exists(req'[r].uid)
      BY <1>2, <2>3 DEF NamesInv, UsersSettled, Exists
    <2>4. CASE q = r /\ req'[r].uid = r /\ req'[r].pc \notin Unplaced
      BY <2>4 DEF SettledNext, Ids
    <2> QED
      BY <1>1, <2>1, <2>2, <2>3, <2>4 DEF WentOn
  <1> QED
    BY <1>1, <1>3, <1>4, <1>5, <1>6, <1>7 DEF NamesInv

(* The first steps of requests keep it.                                    *)
LEMMA StartKeepsNames ==
    ASSUME NamesInv, NEW r \in Requests, Start(r)
    PROVE  NamesInv'
  <1>0. Typed
    BY DEF NamesInv
  <1>1. /\ UNCHANGED <<now, users, sessions, loggedOut, keys, sysInbox, retired>>
        /\ lastGuard' \in {lastGuard, lastGuard \cup {r}}
    BY <1>0, StartFrame
  <1>2. LinksEvolve
    <2>1. CASE links' = links
      BY <1>0, <2>1 DEF LinksEvolve, Typed, TablesTyped
    <2>2. ASSUME NEW l \in Ids, links[l] # None, links' = [links EXCEPT ![l].state = "used"]
          PROVE  LinksEvolve
      <3> DEFINE x == [links[l] EXCEPT !.state = "used"]
      <3>1. x \in Link /\ x.user = links[l].user
        BY <1>0, <2>2 DEF Typed, TablesTyped, Link
      <3>2. links' = [links EXCEPT ![l] = x]
        BY <2>2
      <3> QED
        BY <1>0, <2>2, <3>1, <3>2, ChangedLinkEvolves
    <2> QED
      BY <1>0, <2>1, <2>2, StartFrame
  <1>3. /\ req' \in [Requests -> Req]
        /\ \A u : Placed(u) => SettledNext(u)
        /\ \A i : Closed(i) => Closed(i)'
        /\ \A q \in Requests : q # r => req'[q] = req[q]
    BY <1>0, StartMoves, MovesForward
  <1>4. Typed'
    BY <1>0, <1>1, <1>2, <1>3 DEF Typed, TablesTyped, LinksEvolve
  <1>5. UsersSettled' /\ SessionsSettled' /\ KeysClosed'
    BY <1>1, <1>3
    DEF NamesInv, UsersSettled, SessionsSettled, KeysClosed, Placed, SettledNext
  <1>6. LinksSettled'
    <2> SUFFICES ASSUME NEW l \in Ids, links'[l] # None
                 PROVE  SettledNext(links'[l].user)
      BY DEF LinksSettled, Placed, SettledNext
    <2>1. CASE links[l] # None /\ links'[l].user = links[l].user
      BY <1>3, <2>1 DEF NamesInv, LinksSettled
    <2>2. CASE LinkInserted(l)
      BY <1>3, <2>2 DEF LinkInserted, NamesInv, RequestsSettled, UserPcs
    <2> QED
      BY <1>2, <2>1, <2>2 DEF LinksEvolve
  <1>7. RequestsSettled'
    BY <1>3, StartBegins DEF NamesInv, RequestsSettled, Begun, Placed, SettledNext
  <1> QED
    BY <1>4, <1>5, <1>6, <1>7 DEF NamesInv

(* So do the clock and the requests that end early.                        *)
LEMMA RestKeepsNames ==
    ASSUME NamesInv,
           \/ Tick \/ UNCHANGED accVars
           \/ \E r \in Requests : Abort(r)
    PROVE  NamesInv'
  <1>0. Typed
    BY DEF NamesInv
  <1>1. CASE Tick \/ UNCHANGED accVars
    BY <1>0, <1>1
    DEF Tick, accVars, tables, NamesInv, Typed, TablesTyped, UsersSettled, SessionsSettled,
        LinksSettled, KeysClosed, RequestsSettled, Placed, Closed
  <1>2. ASSUME NEW r \in Requests, Abort(r)
        PROVE  NamesInv'
    <2>1. /\ req' \in [Requests -> Req]
          /\ \A u : Placed(u) => SettledNext(u)
          /\ \A i : Closed(i) => Closed(i)'
          /\ \A q \in Requests : q # r => req'[q] = req[q]
      BY <1>0, <1>2, ReplyMoves, MovesForward DEF Abort
    <2>2. req'[r].pc = "done"
      BY <1>0, <1>2, ReplyIs DEF Abort
    <2>3. RequestsSettled'
      BY <2>1, <2>2 DEF NamesInv, RequestsSettled, UserPcs, Placed, SettledNext
    <2>4. UNCHANGED <<now, tables>>
      BY <1>2 DEF Abort
    <2> QED
      BY <1>0, <2>1, <2>3, <2>4
      DEF tables, NamesInv, Typed, TablesTyped, UsersSettled, SessionsSettled, LinksSettled,
          KeysClosed, Placed, SettledNext
  <1> QED
    BY <1>1, <1>2

(* Names are settled at the start and stay so.                             *)
LEMMA NamesInit == AccInit => NamesInv
  <1> SUFFICES ASSUME AccInit
               PROVE  NamesInv
    OBVIOUS
  <1>1. req \in [Requests -> Req] /\ \A r \in Requests : req[r].pc = "idle"
    BY DEF AccInit, Idle, Req, Pcs, AccOps, Args
  <1>2. users \in [Ids -> UserRow \cup {None}] /\ \A u \in Ids : users[u] # None => u \in Seeds
    BY DEF AccInit, UserRow, Args, Ids, Names
  <1>3. /\ sessions \in [Ids -> Session \cup {None}]
        /\ \A s \in Ids : sessions[s] # None => s \in Seeds /\ sessions[s].user = s
    BY DEF AccInit, Session, Ids
  <1>4. /\ keys \in [Ids -> KeyRow \cup {None}] /\ links \in [Ids -> Link \cup {None}]
        /\ \A k \in Ids : keys[k] # None => k \in Seeds
        /\ \A l \in Ids : links[l] # None => links[l].user \in Seeds
    BY DEF AccInit, KeyRow, Link, Ids, Scopes
  <1>5. now \in Nat /\ sysInbox = None /\ lastGuard = {}
    BY DEF AccInit
  <1>6. Typed
    BY <1>1, <1>2, <1>3, <1>4, <1>5 DEF Typed, TablesTyped
  <1>7. \A u \in Seeds : Placed(u) /\ Closed(u)
    BY AccountsAssumption DEF Placed, Closed, Ids
  <1> QED
    BY <1>1, <1>2, <1>3, <1>4, <1>6, <1>7
    DEF NamesInv, UsersSettled, SessionsSettled, LinksSettled, KeysClosed, RequestsSettled, UserPcs

(* All of them together.                                                   *)
LEMMA NamesStep ==
    ASSUME NamesInv, [AccNext]_accVars
    PROVE  NamesInv'
  BY WorkKeepsNames, StartKeepsNames, RestKeepsNames DEF AccNext

(***************************************************************************)
(* Every table holds rows of its type, because each request carries what   *)
(* its next statements will write.                                         *)
(***************************************************************************)
FitPcs == {"checkMail", "insertUser", "ssoFind", "ssoInsert", "readHash", "datePassword",
           "setPassword", "setRole", "revoke", "upgradeKey"}
Fits(x) ==
    /\ x.pc \in {"checkMail", "insertUser"} => x.uid \in Names /\ x.arg \in Passwords
    /\ x.pc \in {"ssoFind", "ssoInsert"} => x.arg \in Names
    /\ x.pc \in {"readHash", "datePassword", "setPassword"} => x.arg \in Passwords
    /\ x.pc = "setRole" => x.arg \in {"admin", "user"}
    /\ x.pc = "revoke" => x.arg \in Ids
    /\ x.pc = "upgradeKey" => x.row \in Ids
TablesFit ==
    /\ users \in [Ids -> User \cup {None}] /\ keys \in [Ids -> Key \cup {None}]
    /\ loggedOut \subseteq Ids /\ retired \subseteq Ids
AccFit == TablesFit /\ \A r \in Requests : Fits(req[r])

(* A request begins with arguments of the kind its operation takes.        *)
LEMMA StartFits ==
    ASSUME Typed, NEW r \in Requests, Start(r)
    PROVE  Fits(req'[r])
  <1>1. ASSUME Refuse(r)
        PROVE  Fits(req'[r])
    <2>1. req'[r] = [Idle EXCEPT !.pc = "done"]
      BY <1>1 DEF Refuse, Typed
    <2> QED
      BY <2>1 DEF Idle, Fits
  <1>2. ASSUME NEW op, NEW pc, NEW uid, NEW arg, Begin(r, op, pc, uid, arg),
               pc \in {"checkMail", "insertUser"} => uid \in Names /\ arg \in Passwords,
               pc \in {"ssoFind", "ssoInsert"} => arg \in Names,
               pc \in {"readHash", "datePassword"} => arg \in Passwords, pc # "setPassword",
               pc = "revoke" => arg \in Ids, pc \notin {"setRole", "upgradeKey"}
        PROVE  Fits(req'[r])
    BY <1>2, BeginIs DEF Fits
  <1>3. ASSUME NEW s \in Ids, NEW op, NEW pc \in {"checkMail", "setRole", "datePassword", "deleteUser"},
               NEW uid, NEW arg, RequireAdmin(r, s, op, pc, uid, arg),
               pc = "checkMail" => uid \in Names /\ arg \in Passwords,
               pc = "datePassword" => arg \in Passwords,
               pc = "setRole" => arg \in {"admin", "user"}
        PROVE  Fits(req'[r])
    <2>1. CASE req' = [req EXCEPT ![r] = [Idle EXCEPT !.pc = pc, !.op = op, !.uid = uid,
                                             !.arg = arg, !.row = sessions[s].user]]
      <3>1. req'[r] = [Idle EXCEPT !.pc = pc, !.op = op, !.uid = uid, !.arg = arg,
                                   !.row = sessions[s].user]
        BY <2>1 DEF Typed
      <3>2. req'[r].pc = pc /\ req'[r].uid = uid /\ req'[r].arg = arg
        BY <3>1 DEF Idle
      <3> QED
        BY <1>3, <3>2 DEF Fits
    <2> QED
      BY <1>1, <1>3, <2>1 DEF RequireAdmin
  <1>4. ASSUME NEW m \in Names, \/ ForgotPassword(r, m) \/ LdapLogin(r, m) \/ OAuthCallback(r, m)
                                \/ VerifyOAuth2Token(r, m)
        PROVE  Fits(req'[r])
    BY <1>1, <1>2, <1>4 DEF ForgotPassword, LdapLogin, OAuthCallback, VerifyOAuth2Token
  <1>5. ASSUME NEW m \in Names, NEW p \in Passwords, Register(r, m, p)
        PROVE  Fits(req'[r])
    BY <1>1, <1>2, <1>5 DEF Register
  <1>6. ASSUME NEW m \in Names, NEW p \in Passwords \cup {Old}, Login(r, m, p)
        PROVE  Fits(req'[r])
    BY <1>1, <1>2, <1>6 DEF Login
  <1>7. ASSUME NEW s \in Ids, \/ \E p \in Passwords : ChangePassword(r, s, p)
                              \/ ResendVerification(r, s) \/ Logout(r, s)
        PROVE  Fits(req'[r])
    BY <1>2, <1>7 DEF ChangePassword, ResendVerification, Logout, AuthGuard
  <1>8. ASSUME NEW s \in Ids, NEW op \in {"createKey", "editKey", "rotateKey", "deleteKey"}, NEW k,
               KeyRequest(r, s, op, k)
        PROVE  Fits(req'[r])
    BY <1>2, <1>8 DEF KeyRequest, AuthGuard
  <1>9. ASSUME NEW l \in Ids, VerifyEmail(r, l) \/ \E p \in Passwords : ResetPassword(r, l, p)
        PROVE  Fits(req'[r])
    BY <1>1, <1>2, <1>9 DEF VerifyEmail, ResetPassword, ClaimLink
  <1>10. ASSUME NEW k \in Ids, UseKey(r, k)
         PROVE  Fits(req'[r])
    <2>1. ASSUME NEW j \in Ids,
                 req' = [req EXCEPT ![r] =
                   [Idle EXCEPT !.pc = IF keys[j].legacy THEN "upgradeKey" ELSE "useKey",
                                !.op = "use", !.uid = keys[j].user, !.arg = j,
                                !.row = k, !.seen = {keys[j].scope}]]
          PROVE  Fits(req'[r])
      <3>1. req'[r] = [Idle EXCEPT !.pc = IF keys[j].legacy THEN "upgradeKey" ELSE "useKey",
                                   !.op = "use", !.uid = keys[j].user, !.arg = j,
                                   !.row = k, !.seen = {keys[j].scope}]
        BY <2>1 DEF Typed
      <3>2. req'[r].pc \in {"upgradeKey", "useKey"} /\ req'[r].row = k
        BY <3>1 DEF Idle
      <3> QED
        BY <3>2 DEF Fits
    <2> QED
      BY <1>1, <1>10, <2>1 DEF UseKey
  <1>11. ASSUME NEW s \in Ids, NEW m \in Mails, NEW p \in Passwords, AdminCreateUser(r, s, m, p)
         PROVE  Fits(req'[r])
    <2>1. m \in Names
      BY DEF Names
    <2> QED
      BY <1>3, <1>11, <2>1 DEF AdminCreateUser
  <1>12. ASSUME NEW s \in Ids, NEW u \in Ids,
                \/ \E role \in {"admin", "user"} : AdminUpdateUser(r, s, u, role)
                \/ \E p \in Passwords : AdminSetPassword(r, s, u, p)
                \/ AdminDeleteUser(r, s, u)
         PROVE  Fits(req'[r])
    BY <1>3, <1>12 DEF AdminUpdateUser, AdminSetPassword, AdminDeleteUser
  <1> QED
    BY <1>4, <1>5, <1>6, <1>7, <1>8, <1>9, <1>10, <1>11, <1>12 DEF Start

(* A request hands its arguments on to the statements that need them.      *)
LEMMA WorkFits ==
    ASSUME Typed, NEW r \in Requests, Fits(req[r]), Work(r)
    PROVE  Fits(req'[r])
  <1>1. ASSUME req'[r].pc \notin FitPcs
        PROVE  Fits(req'[r])
    BY <1>1 DEF Fits, FitPcs
  <1>2. ASSUME NEW ok \in BOOLEAN, Reply(r, ok)
        PROVE  Fits(req'[r])
    BY <1>1, <1>2, ReplyIs DEF FitPcs
  <1>3. ASSUME NEW pc, Goto(r, pc), pc \notin FitPcs
        PROVE  Fits(req'[r])
    BY <1>1, <1>3, GotoIs
  <1>4. ASSUME AfterMail(r)
        PROVE  Fits(req'[r])
    BY <1>2, <1>3, <1>4 DEF AfterMail, FitPcs
  <1>5. CASE Sign(r) \/ VoidLinks(r) \/ SetVerified(r) \/ RevokeToken(r) \/ CreateKey(r) \/ AcceptKey(r)
    BY <1>2, <1>5 DEF Sign, VoidLinks, SetVerified, RevokeToken, CreateKey, AcceptKey
  <1>6. CASE EditKey(r) \/ RotateKey(r) \/ DeleteKey(r) \/ SetRole(r) \/ DeleteUser(r)
    <2>1. OwnKey(r) \in BOOLEAN /\ Exists(req[r].uid) \in BOOLEAN
      BY DEF OwnKey, Exists
    <2>2. \E ok \in BOOLEAN : Reply(r, ok)
      BY <1>6, <2>1, Zenon DEF EditKey, RotateKey, DeleteKey, SetRole, DeleteUser
    <2> QED
      BY <1>2, <2>2
  <1>7. ASSUME NEW row, NEW pc \in {"send"}, req' = [req EXCEPT ![r] = [@ EXCEPT !.pc = pc, !.row = row]]
        PROVE  Fits(req'[r])
    <2>1. req'[r] = [req[r] EXCEPT !.pc = pc, !.row = row] /\ req[r] \in Req
      BY <1>7 DEF Typed
    <2>2. req'[r].pc = pc
      BY <2>1 DEF Req
    <2> QED
      BY <1>1, <2>2 DEF FitPcs
  <1>8. CASE FindInbox(r) \/ CreateInbox(r) \/ SendSystemEmail(r)
    BY <1>3, <1>4, <1>7, <1>8 DEF FindInbox, CreateInbox, SendSystemEmail, FitPcs
  <1>9. CASE InsertLink(r) \/ DeleteKeys(r) \/ ReadVerified(r) \/ UpgradeKey(r)
    BY <1>2, <1>3, <1>9 DEF InsertLink, DeleteKeys, ReadVerified, UpgradeKey, FitPcs
  <1>10. ASSUME NEW u, NEW pc \in {"verify", "sign"},
                req' = [req EXCEPT ![r] = [@ EXCEPT !.uid = u, !.pc = pc]]
         PROVE  Fits(req'[r])
    <2>1. req'[r] = [req[r] EXCEPT !.uid = u, !.pc = pc] /\ req[r] \in Req
      BY <1>10 DEF Typed
    <2>2. req'[r].pc = pc
      BY <2>1 DEF Req
    <2> QED
      BY <1>1, <2>2 DEF FitPcs
  <1>11. CASE InsertUser(r)
    <2>1. (IF Production THEN "verify" ELSE "sign") \in {"verify", "sign"}
      OBVIOUS
    <2> QED
      BY <1>2, <1>10, <1>11, <2>1 DEF InsertUser
  <1>12. CASE ResolveSsoUser(r)
    <2>1. CASE Goto(r, "ssoInsert") /\ req[r].pc = "ssoFind"
      BY <2>1, GotoIs DEF Fits
    <2>2. ASSUME NEW u, req' = [req EXCEPT ![r] = [@ EXCEPT !.pc = "sign", !.uid = u]]
          PROVE  Fits(req'[r])
      <3>1. req'[r] = [req[r] EXCEPT !.pc = "sign", !.uid = u] /\ req[r] \in Req
        BY <2>2 DEF Typed
      <3>2. req'[r].pc = "sign"
        BY <3>1 DEF Req
      <3> QED
        BY <1>1, <3>2 DEF FitPcs
    <2> QED
      BY <1>2, <1>12, <2>1, <2>2 DEF ResolveSsoUser
  <1>13. CASE SsoInsert(r)
    BY <1>3, <1>13 DEF SsoInsert, FitPcs
  <1>14. CASE CompareHash(r)
    <2>1. CASE Goto(r, "datePassword")
      BY <1>14, <2>1, GotoIs DEF Fits, CompareHash
    <2> QED
      BY <1>2, <1>14, <2>1 DEF CompareHash
  <1>17. CASE DateChange(r)
    BY <1>17, DateIs DEF Fits
  <1>15. CASE SetPassword(r)
    <2>1. ASSUME req' = [req EXCEPT ![r] = [@ EXCEPT !.pc = "deleteKeys", !.seen = KeysOf(req[r].uid)]]
          PROVE  Fits(req'[r])
      <3>1. req'[r] = [req[r] EXCEPT !.pc = "deleteKeys", !.seen = KeysOf(req[r].uid)] /\ req[r] \in Req
        BY <2>1 DEF Typed
      <3>2. req'[r].pc = "deleteKeys"
        BY <3>1 DEF Req
      <3> QED
        BY <1>1, <3>2 DEF FitPcs
    <2> QED
      BY <1>2, <1>3, <1>15, <2>1 DEF SetPassword, FitPcs
  <1>16. CASE CheckMail(r)
    <2>1. CASE Goto(r, "insertUser")
      BY <1>16, <2>1, GotoIs DEF Fits, CheckMail
    <2> QED
      BY <1>2, <1>16, <2>1 DEF CheckMail
  <1> QED
    BY <1>5, <1>6, <1>8, <1>9, <1>11, <1>12, <1>13, <1>14, <1>15, <1>16, <1>17 DEF Work

(* What is written to the table of users fits.                             *)
LEMMA UsersFit ==
    ASSUME Typed, TablesFit, NEW r \in Requests, Fits(req[r]), Work(r)
    PROVE  users' \in [Ids -> User \cup {None}]
  <1> DEFINE u == req[r].uid
  <1> USE DEF TablesFit
  <1>0. r \in Ids /\ req[r].at \in Nat /\ (Exists(u) => u \in Ids /\ users[u] \in User)
    BY DEF Ids, Exists, Typed, TablesTyped, Req
  <1>1. CASE users' = users
    BY <1>1
  <1>2. ASSUME NEW j \in Ids, NEW x \in User \cup {None}, users' = [users EXCEPT ![j] = x]
        PROVE  users' \in [Ids -> User \cup {None}]
    BY <1>2
  <1>3. ASSUME NEW m \in Names, NEW p \in Passwords \cup {None}, NEW v \in BOOLEAN,
               NEW role \in {"admin", "user"}
        PROVE  NewUser(m, p, v) \in User /\ [NewUser(m, p, v) EXCEPT !.role = role] \in User
    BY DEF NewUser, User
  <1>4. CASE InsertUser(r)
    <2> PICK v \in BOOLEAN : v = (req[r].op = "adminCreate" \/ ~Production)
      OBVIOUS
    <2>1. CASE users' # users
      <3>1. PICK role \in {"admin", "user"} :
               users' = [users EXCEPT ![r] = [NewUser(req[r].uid, req[r].arg, v) EXCEPT !.role = role]]
        BY <1>4, <2>1 DEF InsertUser
      <3>2. req[r].uid \in Names /\ req[r].arg \in Passwords
        BY <1>4 DEF InsertUser, Fits
      <3> QED
        BY <1>0, <1>2, <1>3, <3>1, <3>2
    <2> QED
      BY <1>1, <2>1
  <1>5. CASE SsoInsert(r)
    <2>1. req[r].arg \in Names /\ TRUE \in BOOLEAN
      BY <1>5 DEF SsoInsert, Fits
    <2>2. NewUser(req[r].arg, None, TRUE) \in User
      BY <1>3, <2>1
    <2> QED
      BY <1>0, <1>1, <1>2, <1>5, <2>2 DEF SsoInsert
  <1>6. CASE SetPassword(r)
    <2>1. CASE Exists(u) /\ users' = [users EXCEPT ![u].pw = req[r].arg, ![u].changed = req[r].at]
      <3> DEFINE x == [users[u] EXCEPT !.pw = req[r].arg, !.changed = req[r].at]
      <3>1. x \in User
        BY <1>0, <1>6, <2>1 DEF User, Fits, SetPassword
      <3>2. users' = [users EXCEPT ![u] = x]
        BY <1>0, <2>1 DEF User
      <3> QED
        BY <1>0, <1>2, <2>1, <3>1, <3>2
    <2> QED
      BY <1>1, <1>6, <2>1 DEF SetPassword
  <1>7. CASE SetVerified(r)
    <2>1. CASE Exists(u) /\ users' = [users EXCEPT ![u].verified = TRUE]
      <3> DEFINE x == [users[u] EXCEPT !.verified = TRUE]
      <3>1. x \in User
        BY <1>0, <2>1 DEF User
      <3>2. users' = [users EXCEPT ![u] = x]
        BY <1>0, <2>1
      <3> QED
        BY <1>0, <1>2, <2>1, <3>1, <3>2
    <2> QED
      BY <1>1, <1>7, <2>1 DEF SetVerified
  <1>8. CASE SetRole(r)
    <2>1. CASE Exists(u) /\ users' = [users EXCEPT ![u].role = req[r].arg]
      <3> DEFINE x == [users[u] EXCEPT !.role = req[r].arg]
      <3>1. x \in User
        BY <1>0, <1>8, <2>1 DEF User, Fits, SetRole
      <3>2. users' = [users EXCEPT ![u] = x]
        BY <1>0, <2>1
      <3> QED
        BY <1>0, <1>2, <2>1, <3>1, <3>2
    <2> QED
      BY <1>1, <1>8, <2>1 DEF SetRole
  <1>9. CASE DeleteUser(r)
    BY <1>9 DEF DeleteUser
  <1> QED
    BY <1>1, <1>4, <1>5, <1>6, <1>7, <1>8, <1>9, WorkFrame

(* And what is written to the table of keys, and kept of ended tokens.     *)
LEMMA KeysFit ==
    ASSUME Typed, TablesFit, NEW r \in Requests, Fits(req[r]), Work(r)
    PROVE  /\ keys' \in [Ids -> Key \cup {None}]
           /\ loggedOut' \subseteq Ids /\ retired' \subseteq Ids
  <1> DEFINE k == req[r].arg
  <1> USE DEF TablesFit
  <1>0. r \in Ids /\ (OwnKey(r) => k \in Ids /\ keys[k] \in Key)
    BY DEF Ids, OwnKey, KeysOf
  <1>1. ASSUME NEW j \in Ids, NEW x \in Key \cup {None}, keys' = [keys EXCEPT ![j] = x]
        PROVE  keys' \in [Ids -> Key \cup {None}]
    BY <1>1
  <1>2. CASE DeleteKeys(r) \/ DeleteUser(r)
    BY <1>2, WorkFrame DEF DeleteKeys, DeleteUser
  <1>3. ASSUME NEW secret \in Ids, k \in Ids, keys[k] # None,
               keys' = [keys EXCEPT ![k].secret = secret, ![k].legacy = FALSE]
        PROVE  keys' \in [Ids -> Key \cup {None}]
    <2> DEFINE x == [keys[k] EXCEPT !.secret = secret, !.legacy = FALSE]
    <2>0. keys[k] \in Key
      BY <1>3
    <2>1. x \in Key /\ keys' = [keys EXCEPT ![k] = x]
      BY <1>3, <2>0 DEF Key
    <2> HIDE DEF x
    <2> QED
      BY <1>1, <1>3, <2>1
  <1>4. keys' \in [Ids -> Key \cup {None}]
    <2>1. CASE keys' = keys
      BY <2>1
    <2>2. CASE CreateKey(r)
      <3>1. ASSUME NEW scope \in Scopes, Exists(req[r].uid),
                   keys' = [keys EXCEPT ![r] = [user |-> req[r].uid, secret |-> r,
                                                legacy |-> FALSE, scope |-> scope]]
            PROVE  keys' \in [Ids -> Key \cup {None}]
        <4>1. [user |-> req[r].uid, secret |-> r, legacy |-> FALSE, scope |-> scope] \in Key
          BY <1>0, <3>1 DEF Key, Exists
        <4> QED
          BY <1>0, <1>1, <3>1, <4>1
      <3> QED
        BY <2>1, <2>2, <3>1 DEF CreateKey
    <2>3. CASE EditKey(r)
      <3>1. ASSUME NEW scope \in Scopes, OwnKey(r), keys' = [keys EXCEPT ![k].scope = scope]
            PROVE  keys' \in [Ids -> Key \cup {None}]
        <4> DEFINE x == [keys[k] EXCEPT !.scope = scope]
        <4>1. x \in Key /\ keys' = [keys EXCEPT ![k] = x]
          BY <1>0, <3>1 DEF Key
        <4> QED
          BY <1>0, <1>1, <3>1, <4>1
      <3> QED
        BY <2>1, <2>3, <3>1 DEF EditKey
    <2>4. CASE RotateKey(r)
      <3>1. OwnKey(r) => keys[k] # None
        BY DEF OwnKey, KeysOf
      <3> QED
        BY <1>0, <1>3, <2>1, <2>4, <3>1 DEF RotateKey
    <2>5. CASE DeleteKey(r)
      BY <2>1, <2>5 DEF DeleteKey
    <2>6. CASE UpgradeKey(r)
      <3>1. req[r].row \in Ids
        BY <2>6 DEF UpgradeKey, Fits
      <3>2. CASE k \in Ids
        BY <1>3, <2>1, <2>6, <3>1, <3>2 DEF UpgradeKey
      <3>3. CASE k \notin Ids
        BY <2>1, <2>6, <3>3 DEF UpgradeKey
      <3> QED
        BY <3>2, <3>3
    <2> QED
      BY <1>2, <2>1, <2>2, <2>3, <2>4, <2>5, <2>6, WorkFrame
  <1>5. loggedOut' \subseteq Ids
    <2>1. CASE RevokeToken(r)
      BY <2>1 DEF RevokeToken, Fits
    <2> QED
      BY <2>1, WorkFrame
  <1>6. retired' \subseteq Ids
    <2>1. CASE RotateKey(r)
      BY <1>0, <2>1 DEF RotateKey, Key
    <2> QED
      BY <2>1, WorkFrame
  <1> QED
    BY <1>4, <1>5, <1>6

(* The tables of accounts, sessions, keys and links hold rows of their     *)
(* types, whatever the requests do and wherever they stop.                 *)
THEOREM AccountsStayTyped == AccSpec => []AccTypeOK
  <1>1. AccInit => AccFit
    <2> SUFFICES ASSUME AccInit
                 PROVE  AccFit
      OBVIOUS
    <2>1. users \in [Ids -> User \cup {None}]
      BY DEF AccInit, User, Ids, Names
    <2>2. keys \in [Ids -> Key \cup {None}]
      BY DEF AccInit, Key, Ids, Scopes
    <2>3. loggedOut = {} /\ retired = {} /\ \A r \in Requests : req[r].pc = "idle"
      BY DEF AccInit, Idle
    <2> QED
      BY <2>1, <2>2, <2>3 DEF AccFit, TablesFit, Fits
  <1>2. NamesInv /\ AccFit /\ [AccNext]_accVars => AccFit'
    <2> SUFFICES ASSUME NamesInv, AccFit, [AccNext]_accVars
                 PROVE  AccFit'
      OBVIOUS
    <2>0. Typed
      BY DEF NamesInv
    <2>1. CASE Tick \/ UNCHANGED accVars
      BY <2>1 DEF Tick, tables, accVars, AccFit, TablesFit
    <2>2. ASSUME NEW r \in Requests, Start(r) \/ Work(r) \/ Abort(r)
          PROVE  AccFit'
      <3>1. \A q \in Requests : q # r => req'[q] = req[q]
        <4>1. CASE Start(r)
          BY <2>0, <4>1, StartMoves, MovesForward
        <4>2. CASE Work(r)
          BY <2>0, <4>2, WorkMoves, MovesForward
        <4>3. CASE Abort(r)
          BY <2>0, <4>3 DEF Abort, Reply, Typed
        <4> QED
          BY <2>2, <4>1, <4>2, <4>3
      <3>2. Fits(req[r])
        BY DEF AccFit
      <3>3. Fits(req'[r])
        <4>1. CASE Abort(r)
          BY <2>0, <4>1, ReplyIs DEF Abort, Fits
        <4> QED
          BY <2>0, <2>2, <3>2, <4>1, StartFits, WorkFits
      <3>4. TablesFit'
        <4>1. CASE Start(r)
          BY <2>0, <4>1, StartFrame DEF AccFit, TablesFit
        <4>2. CASE Work(r)
          BY <2>0, <3>2, <4>2, UsersFit, KeysFit DEF AccFit, TablesFit
        <4>3. CASE Abort(r)
          BY <4>3 DEF Abort, tables, AccFit, TablesFit
        <4> QED
          BY <2>2, <4>1, <4>2, <4>3
      <3> QED
        BY <3>1, <3>3, <3>4 DEF AccFit
    <2> QED
      BY <2>1, <2>2 DEF AccNext
  <1>3. NamesInv /\ AccFit => AccTypeOK
    BY DEF NamesInv, Typed, TablesTyped, AccFit, TablesFit, AccTypeOK, Req
  <1> QED
    BY <1>1, <1>2, <1>3, NamesInit, NamesStep, PTL DEF AccSpec

(* A user whose id is settled is not inserted any more.                    *)
ExistsNext(u) == u \in Ids /\ users'[u] # None

(* The row of a settled user that is still there after a step was there    *)
(* before it.                                                              *)
LEMMA SettledKept ==
    ASSUME NamesInv, NEW r \in Requests, Work(r), NEW u, Placed(u), ExistsNext(u)
    PROVE  Exists(u) /\ UserKept(u)
  <1>1. u \in Ids /\ users'[u] # None
    BY DEF ExistsNext
  <1>2. ~UserInserted(u)
    BY DEF UserInserted, Placed, Unplaced
  <1>3. UserKept(u)
    BY <1>1, <1>2, UsersStep DEF UsersEvolve, NamesInv
  <1> QED
    BY <1>1, <1>3 DEF Exists, UserKept

(***************************************************************************)
(* Signing in through a provider.                                          *)
(***************************************************************************)
(* A provider's request that is about to sign has found a proven account.  *)
ProvenFound(r) ==
    req[r].op = "sso" =>
      /\ req[r].pc \in SsoPcs
      /\ req[r].pc = "sign" /\ Exists(req[r].uid) => users[req[r].uid].verified
SsoInv == NamesInv /\ SsoSignsProven /\ \A r \in Requests : ProvenFound(r)

(* A sign-in by a provider stays among its own statements.                 *)
LEMMA SsoGoesOn ==
    ASSUME Typed, NEW r \in Requests, Work(r), req[r].op = "sso", req[r].pc \in SsoPcs
    PROVE  req'[r].pc \in SsoPcs
  <1>1. Sign(r) \/ ResolveSsoUser(r) \/ SsoInsert(r)
    BY DEF Work, SsoPcs, FindInbox, CreateInbox, SendSystemEmail, InsertLink, InsertUser,
           CompareHash, DateChange, SetPassword, DeleteKeys, VoidLinks, SetVerified,
           ReadVerified, RevokeToken, CreateKey, EditKey, RotateKey, DeleteKey, UpgradeKey, AcceptKey,
           CheckMail, SetRole, DeleteUser
  <1>2. CASE Reply(r, TRUE) \/ Reply(r, FALSE)
    BY <1>2, ReplyIs DEF SsoPcs
  <1>3. CASE Sign(r)
    BY <1>2, <1>3 DEF Sign
  <1>4. CASE SsoInsert(r)
    BY <1>4, GotoIs DEF SsoInsert, SsoPcs
  <1>5. CASE ResolveSsoUser(r)
    <2>1. CASE Goto(r, "ssoInsert")
      BY <2>1, GotoIs DEF SsoPcs
    <2>2. ASSUME NEW u, req' = [req EXCEPT ![r] = [@ EXCEPT !.pc = "sign", !.uid = u]]
          PROVE  req'[r].pc = "sign"
      <3>1. req'[r] = [req[r] EXCEPT !.pc = "sign", !.uid = u] /\ req[r] \in Req
        BY <2>2 DEF Typed
      <3> QED
        BY <3>1 DEF Req
    <2> QED
      BY <1>2, <1>5, <2>1, <2>2 DEF ResolveSsoUser, SsoPcs
  <1> QED
    BY <1>1, <1>3, <1>4, <1>5

(* A sign-in finds, links or inserts a proven user, and proof is never     *)
(* taken back.                                                             *)
LEMMA SsoWorkStep ==
    ASSUME SsoInv, NEW r \in Requests, Work(r)
    PROVE  SsoSignsProven' /\ \A q \in Requests : ProvenFound(q)'
  <1>0. Typed /\ NamesInv
    BY DEF SsoInv, NamesInv
  <1>1. WentOn(r) /\ \A q \in Requests : q # r => req'[q] = req[q]
    BY <1>0, WorkGoesOn, WorkMoves, MovesForward
  <1>2. ASSUME NEW q \in Requests, req[q].op = "sso", req[q].pc = "sign",
               ExistsNext(req[q].uid)
        PROVE  users'[req[q].uid].verified
    <2>1. Placed(req[q].uid)
      BY <1>0, <1>2 DEF NamesInv, RequestsSettled, UserPcs
    <2>2. Exists(req[q].uid) /\ UserKept(req[q].uid)
      BY <1>0, <1>2, <2>1, SettledKept
    <2> QED
      BY <1>2, <2>2 DEF SsoInv, ProvenFound, UserKept
  <1>3. SsoSignsProven'
    <2> SUFFICES ASSUME NEW s \in Ids, sessions'[s] # None, sessions'[s].by = "sso",
                        ExistsNext(sessions'[s].user)
                 PROVE  users'[sessions'[s].user].verified
      BY DEF SsoSignsProven, Exists, ExistsNext
    <2>1. CASE sessions'[s] = sessions[s]
      <3>1. Placed(sessions[s].user)
        BY <1>0, <2>1 DEF NamesInv, SessionsSettled
      <3>2. Exists(sessions[s].user) /\ UserKept(sessions[s].user)
        BY <1>0, <2>1, <3>1, SettledKept
      <3> QED
        BY <2>1, <3>2 DEF SsoInv, SsoSignsProven, UserKept
    <2>2. CASE SessionSigned(s)
      <3>1. /\ s \in Requests /\ req[s].op = "sso" /\ req[s].pc = "sign"
            /\ sessions'[s].user = req[s].uid
        BY <2>2 DEF SessionSigned
      <3> QED
        BY <1>2, <3>1
    <2> QED
      BY <1>0, <2>1, <2>2, SessionsStep DEF SessionsEvolve
  <1>4. ASSUME NEW q \in Requests, q # r
        PROVE  ProvenFound(q)'
    <2>1. req'[q] = req[q]
      BY <1>1, <1>4
    <2>2. req[q].op = "sso" /\ req[q].pc = "sign" /\ ExistsNext(req[q].uid)
            => users'[req[q].uid].verified
      BY <1>2
    <2> QED
      BY <2>1, <2>2 DEF SsoInv, ProvenFound, Exists, ExistsNext
  <1>5. ProvenFound(r)'
    <2> SUFFICES ASSUME req[r].op = "sso"
                 PROVE  /\ req'[r].pc \in SsoPcs
                        /\ req'[r].pc = "sign" /\ ExistsNext(req'[r].uid)
                             => users'[req'[r].uid].verified
      BY <1>1 DEF ProvenFound, WentOn, Exists, ExistsNext
    <2>1. req[r].pc \in SsoPcs
      BY DEF SsoInv, ProvenFound
    <2>2. req'[r].pc \in SsoPcs
      BY <1>0, <2>1, SsoGoesOn
    <2>3. ASSUME req'[r].pc = "sign", ExistsNext(req'[r].uid)
          PROVE  users'[req'[r].uid].verified
      <3>1. Exists(req'[r].uid) /\ users[req'[r].uid].verified
        BY <1>1, <2>1, <2>3 DEF WentOn, SsoPcs
      <3>2. Placed(req'[r].uid)
        BY <1>0, <3>1 DEF NamesInv, UsersSettled, Exists
      <3>3. UserKept(req'[r].uid)
        BY <1>0, <2>3, <3>2, SettledKept
      <3> QED
        BY <3>1, <3>3 DEF UserKept
    <2> QED
      BY <2>2, <2>3
  <1> QED
    BY <1>3, <1>4, <1>5

(* Nobody gets into an account through a provider unless it has proved its *)
(* address (lib/sso-user.ts).                                              *)
THEOREM ProvidersSignProven == AccSpec => []SsoSignsProven
  <1>1. AccInit => SsoInv
    <2> SUFFICES ASSUME AccInit
                 PROVE  SsoInv
      OBVIOUS
    <2>1. SsoSignsProven
      BY DEF AccInit, SsoSignsProven
    <2>2. \A r \in Requests : ProvenFound(r)
      BY DEF AccInit, Idle, ProvenFound
    <2> QED
      BY <2>1, <2>2, NamesInit DEF SsoInv
  <1>2. SsoInv /\ [AccNext]_accVars => SsoInv'
    <2> SUFFICES ASSUME SsoInv, [AccNext]_accVars
                 PROVE  SsoSignsProven' /\ \A q \in Requests : ProvenFound(q)'
      BY NamesStep DEF SsoInv
    <2>0. Typed /\ NamesInv
      BY DEF SsoInv, NamesInv
    <2>1. ASSUME NEW r \in Requests, Work(r)
          PROVE  SsoSignsProven' /\ \A q \in Requests : ProvenFound(q)'
      BY <2>1, SsoWorkStep
    <2>2. ASSUME NEW r \in Requests, UNCHANGED <<users, sessions>>,
                 \A q \in Requests : q # r => req'[q] = req[q],
                 req'[r].op = "sso" => req'[r].pc \in {"ssoFind", "done"}
          PROVE  SsoSignsProven' /\ \A q \in Requests : ProvenFound(q)'
      <3>1. SsoSignsProven'
        BY <2>2 DEF SsoInv, SsoSignsProven, Exists
      <3>2. \A q \in Requests : ProvenFound(q)'
        BY <2>2 DEF SsoInv, ProvenFound, Exists, SsoPcs
      <3> QED
        BY <3>1, <3>2
    <2>3. ASSUME NEW r \in Requests, Start(r)
          PROVE  SsoSignsProven' /\ \A q \in Requests : ProvenFound(q)'
      <3>1. \A q \in Requests : q # r => req'[q] = req[q]
        BY <2>0, <2>3, StartMoves, MovesForward
      <3>2. UNCHANGED <<users, sessions>>
        BY <2>0, <2>3, StartFrame
      <3>3. req'[r].op = "sso" => req'[r].pc = "ssoFind"
        BY <2>0, <2>3, StartBegins DEF Begun
      <3> QED
        BY <2>2, <3>1, <3>2, <3>3
    <2>4. ASSUME NEW r \in Requests, Abort(r)
          PROVE  SsoSignsProven' /\ \A q \in Requests : ProvenFound(q)'
      <3>1. (\A q \in Requests : q # r => req'[q] = req[q]) /\ req'[r].pc = "done"
        BY <2>0, <2>4, ReplyIs, ReplyMoves, MovesForward DEF Abort
      <3>2. UNCHANGED <<users, sessions>>
        BY <2>4 DEF Abort, tables
      <3> QED
        BY <2>2, <3>1, <3>2
    <2>5. CASE Tick \/ UNCHANGED accVars
      <3>1. UNCHANGED <<users, sessions, req>>
        BY <2>5 DEF Tick, accVars, tables
      <3> QED
        BY <3>1 DEF SsoInv, SsoSignsProven, ProvenFound, Exists
    <2> QED
      BY <2>1, <2>3, <2>4, <2>5 DEF AccNext
  <1>3. SsoInv => SsoSignsProven
    BY DEF SsoInv
  <1> QED
    BY <1>1, <1>2, <1>3, PTL DEF AccSpec

(***************************************************************************)
(* Keys end with the password.                                             *)
(***************************************************************************)
(* What a request that sets a password has seen and deleted so far.        *)
KeysGone(r) ==
    /\ req[r].ok => req[r].pc = "done"
    /\ req[r].op \in PwOps =>
         /\ req[r].pc \in PwPcs
         /\ req[r].pc \in {"readHash", "datePassword", "setPassword"} => req[r].seen = {}
         /\ \A k \in req[r].seen : Closed(k)
         /\ req[r].pc = "deleteKeys" =>
              \A k \in req[r].seen : keys[k] = None \/ keys[k].user = req[r].uid
         /\ req[r].pc \in {"voidLinks", "sign"} \/ req[r].ok =>
              \A k \in req[r].seen : keys[k] = None
KeysInv == NamesInv /\ \A r \in Requests : KeysGone(r)

(* A key that was inserted before is the owner's still, or gone.           *)
LEMMA ClosedKeyKept ==
    ASSUME NamesInv, NEW r \in Requests, Work(r), NEW k, Closed(k)
    PROVE  /\ keys[k] = None => keys'[k] = None
           /\ keys'[k] = None \/ (keys[k] # None /\ keys'[k].user = keys[k].user)
  <1>1. k \in Ids /\ ~KeyInserted(k)
    BY DEF Closed, KeyInserted
  <1> QED
    BY <1>1, KeysStep DEF KeysEvolve

(* The other requests keep what they have.                                 *)
LEMMA OthersKeysGone ==
    ASSUME KeysInv, NEW r \in Requests, Work(r), NEW q \in Requests, q # r
    PROVE  KeysGone(q)'
  <1>0. NamesInv /\ Typed /\ KeysGone(q)
    BY DEF KeysInv, NamesInv
  <1>1. req'[q] = req[q] /\ \A i : Closed(i) => Closed(i)'
    BY <1>0, WorkMoves, MovesForward
  <1>2. ASSUME NEW k \in req[q].seen, req[q].op \in PwOps
        PROVE  /\ keys[k] = None => keys'[k] = None
               /\ keys'[k] = None \/ (keys[k] # None /\ keys'[k].user = keys[k].user)
    BY <1>0, <1>2, ClosedKeyKept DEF KeysGone
  <1> QED
    BY <1>0, <1>1, <1>2 DEF KeysGone

(* Only these steps are taken for a password.                              *)
LEMMA PasswordSteps ==
    ASSUME NEW r \in Requests, Work(r), req[r].pc \in PwPcs
    PROVE  \/ CompareHash(r) \/ DateChange(r) \/ SetPassword(r) \/ DeleteKeys(r)
           \/ VoidLinks(r) \/ Sign(r)
  <1>1. ~FindInbox(r) /\ ~CreateInbox(r) /\ ~SendSystemEmail(r)
    BY DEF PwPcs, FindInbox, CreateInbox, SendSystemEmail
  <1>2. ~InsertLink(r) /\ ~InsertUser(r) /\ ~ResolveSsoUser(r) /\ ~SsoInsert(r)
    <2>1. InsertUser(r) => req[r].pc = "insertUser"
      BY Zenon DEF InsertUser
    <2>2. ResolveSsoUser(r) => req[r].pc \in {"ssoFind", "ssoFindAgain"}
      BY Zenon DEF ResolveSsoUser
    <2>3. ~InsertLink(r) /\ ~SsoInsert(r)
      BY DEF PwPcs, InsertLink, SsoInsert
    <2>4. req[r].pc \notin {"insertUser", "ssoFind", "ssoFindAgain"}
      BY DEF PwPcs
    <2> QED
      BY <2>1, <2>2, <2>3, <2>4
  <1>3. ~SetVerified(r) /\ ~ReadVerified(r) /\ ~RevokeToken(r) /\ ~CheckMail(r)
    BY DEF PwPcs, SetVerified, ReadVerified, RevokeToken, CheckMail
  <1>4. ~CreateKey(r) /\ ~EditKey(r) /\ ~RotateKey(r) /\ ~DeleteKey(r)
    BY DEF PwPcs, CreateKey, EditKey, RotateKey, DeleteKey
  <1>5. ~UpgradeKey(r) /\ ~AcceptKey(r) /\ ~SetRole(r) /\ ~DeleteUser(r)
    BY DEF PwPcs, UpgradeKey, AcceptKey, SetRole, DeleteUser
  <1> QED
    BY <1>1, <1>2, <1>3, <1>4, <1>5, Zenon DEF Work

(* And the request that steps deletes what it has seen before it goes on.  *)
LEMMA OwnKeysGone ==
    ASSUME KeysInv, NEW r \in Requests, Work(r)
    PROVE  KeysGone(r)'
  <1>0. NamesInv /\ Typed /\ KeysGone(r) /\ req[r] \in Req
    BY DEF KeysInv, NamesInv, Typed
  <1>1. WentOn(r) /\ req[r].pc # "done" /\ \A i : Closed(i) => Closed(i)'
    BY <1>0, WorkGoesOn, WorkMoves, MovesForward
  <1>2. CASE req[r].op \notin PwOps
    BY <1>0, <1>1, <1>2 DEF WentOn, KeysGone
  <1>3. CASE req[r].op \in PwOps
    <2> DEFINE seen == req[r].seen
    <2>0. req[r].pc \in PwPcs /\ ~req[r].ok /\ \A k \in seen : Closed(k) /\ Closed(k)'
      BY <1>0, <1>1, <1>3 DEF KeysGone
    <2>1. ASSUME Reply(r, FALSE)
          PROVE  KeysGone(r)'
      BY <1>0, <2>0, <2>1, ReplyIs DEF KeysGone, PwPcs
    <2>2. ASSUME Reply(r, TRUE), \A k \in seen : keys'[k] = None
          PROVE  KeysGone(r)'
      BY <1>0, <2>0, <2>2, ReplyIs DEF KeysGone, PwPcs
    <2>3. ASSUME NEW pc \in PwPcs, Goto(r, pc),
                 pc \in {"readHash", "datePassword", "setPassword", "deleteKeys"} => seen = {},
                 pc \in {"voidLinks", "sign"} => \A k \in seen : keys'[k] = None
          PROVE  KeysGone(r)'
      BY <1>0, <2>0, <2>3, GotoIs DEF KeysGone
    <2>4. CASE CompareHash(r)
      BY <1>0, <1>3, <2>1, <2>3, <2>4 DEF CompareHash, PwPcs, KeysGone
    <2>8. CASE DateChange(r)
      <3>1. seen = {}
        BY <1>0, <1>3, <2>8 DEF DateChange, KeysGone
      <3> QED
        BY <1>0, <2>0, <2>8, <3>1, DateIs DEF KeysGone, PwPcs
    <2>5. CASE SetPassword(r)
      <3>1. CASE /\ keys' = keys
                 /\ req' = [req EXCEPT ![r] = [@ EXCEPT !.pc = "deleteKeys",
                                                        !.seen = KeysOf(req[r].uid)]]
        <4>1. req'[r] = [req[r] EXCEPT !.pc = "deleteKeys", !.seen = KeysOf(req[r].uid)]
          BY <1>0, <3>1 DEF Typed
        <4>2. /\ req'[r].pc = "deleteKeys" /\ req'[r].seen = KeysOf(req[r].uid)
              /\ req'[r].uid = req[r].uid /\ req'[r].ok = req[r].ok
          BY <1>0, <4>1 DEF Req
        <4>3. \A k \in KeysOf(req[r].uid) : Closed(k)' /\ keys[k].user = req[r].uid
          BY <1>0, <1>1 DEF KeysOf, NamesInv, KeysClosed
        <4> QED
          BY <2>0, <3>1, <4>2, <4>3 DEF KeysGone, PwPcs
      <3>2. seen = {}
        BY <1>0, <1>3, <2>5 DEF SetPassword, KeysGone
      <3> QED
        BY <2>1, <2>3, <2>5, <3>1, <3>2 DEF SetPassword, PwPcs
    <2>6. CASE DeleteKeys(r)
      <3>1. ASSUME NEW k \in seen
            PROVE  keys'[k] = None
        <4>1. k \in Ids /\ (keys[k] = None \/ keys[k].user = req[r].uid)
          BY <1>0, <1>3, <2>0, <2>6 DEF DeleteKeys, KeysGone, Closed
        <4> QED
          BY <2>6, <4>1 DEF DeleteKeys, KeysOf
      <3> QED
        BY <2>2, <2>3, <2>6, <3>1 DEF DeleteKeys, PwPcs
    <2>7. CASE VoidLinks(r) \/ Sign(r)
      <3>1. keys' = keys /\ Reply(r, TRUE) /\ req[r].pc \in {"voidLinks", "sign"}
        BY <2>7 DEF VoidLinks, Sign
      <3> QED
        BY <1>0, <1>3, <2>2, <3>1 DEF KeysGone
    <2> QED
      BY <2>0, <2>4, <2>5, <2>6, <2>7, <2>8, PasswordSteps
  <1> QED
    BY <1>2, <1>3

(* Once a request that set a password has answered, no key is left that    *)
(* its user had when it was written (routes/auth.ts, admin.ts).            *)
THEOREM KeysGoWithPassword == AccSpec => []KeysEndWithPassword
  <1>1. AccInit => KeysInv
    <2> SUFFICES ASSUME AccInit
                 PROVE  \A r \in Requests : KeysGone(r)
      BY NamesInit DEF KeysInv
    <2> QED
      BY DEF AccInit, Idle, KeysGone, PwOps
  <1>2. KeysInv /\ [AccNext]_accVars => KeysInv'
    <2> SUFFICES ASSUME KeysInv, [AccNext]_accVars
                 PROVE  \A q \in Requests : KeysGone(q)'
      BY NamesStep DEF KeysInv
    <2>0. Typed /\ NamesInv
      BY DEF KeysInv, NamesInv
    <2>1. ASSUME NEW r \in Requests, Work(r)
          PROVE  \A q \in Requests : KeysGone(q)'
      BY <2>1, OthersKeysGone, OwnKeysGone
    <2>2. ASSUME NEW r \in Requests, keys' = keys,
                 \A q \in Requests : q # r => req'[q] = req[q],
                 \A i : Closed(i) => Closed(i)', KeysGone(r)'
          PROVE  \A q \in Requests : KeysGone(q)'
      BY <2>2 DEF KeysInv, KeysGone
    <2>3. ASSUME NEW r \in Requests, Start(r)
          PROVE  \A q \in Requests : KeysGone(q)'
      <3>1. /\ \A q \in Requests : q # r => req'[q] = req[q]
            /\ \A i : Closed(i) => Closed(i)'
        BY <2>0, <2>3, StartMoves, MovesForward
      <3>2. keys' = keys
        BY <2>0, <2>3, StartFrame
      <3>3. Begun(req'[r])
        BY <2>0, <2>3, StartBegins
      <3>4. KeysGone(r)'
        BY <3>3 DEF Begun, KeysGone, PwPcs
      <3> QED
        BY <2>2, <3>1, <3>2, <3>4
    <2>4. ASSUME NEW r \in Requests, Abort(r)
          PROVE  \A q \in Requests : KeysGone(q)'
      <3>1. /\ \A q \in Requests : q # r => req'[q] = req[q]
            /\ \A i : Closed(i) => Closed(i)'
        BY <2>0, <2>4, ReplyMoves, MovesForward DEF Abort
      <3>2. keys' = keys
        BY <2>4 DEF Abort, tables
      <3>3. /\ req'[r].pc = "done" /\ req'[r].op = req[r].op
            /\ req'[r].seen = req[r].seen /\ req'[r].ok = FALSE
        BY <2>0, <2>4, ReplyIs DEF Abort
      <3>4. KeysGone(r)'
        BY <3>1, <3>3 DEF KeysInv, KeysGone, PwPcs
      <3> QED
        BY <2>2, <3>1, <3>2, <3>4
    <2>5. CASE Tick \/ UNCHANGED accVars
      <3>1. UNCHANGED <<keys, req>>
        BY <2>5 DEF Tick, accVars, tables
      <3> QED
        BY <3>1 DEF KeysInv, KeysGone, Closed
    <2> QED
      BY <2>1, <2>3, <2>4, <2>5 DEF AccNext
  <1>3. KeysInv => KeysEndWithPassword
    BY DEF KeysInv, KeysGone, KeysEndWithPassword, PwOps
  <1> QED
    BY <1>1, <1>2, <1>3, PTL DEF AccSpec

(***************************************************************************)
(* Ended sessions.                                                         *)
(***************************************************************************)
(* A request that writes an earlier date over a later one.                 *)
TakesBack(r, u) == req[r].pc = "setPassword" /\ req[r].uid = u /\ req[r].at < users[u].changed

(* A session whose user is gone, whose user's password is newer, or that   *)
(* was logged out, is not honoured after a later step either, unless that  *)
(* step takes the user's date back.                                        *)
LEMMA DeadStaysDead ==
    ASSUME NamesInv, NEW r \in Requests, Work(r), NEW s \in Ids, sessions[s] # None,
           s \notin Active, s \in Active'
    PROVE  \E q \in Requests : TakesBack(q, sessions[s].user)
  <1>0. Typed /\ sessions[s] \in Session
    BY DEF NamesInv, Typed, TablesTyped
  <1>1. Closed(s) /\ Placed(sessions[s].user)
    BY DEF NamesInv, SessionsSettled
  <1>2. sessions'[s] = sessions[s]
    BY <1>0, <1>1, SessionsStep DEF SessionsEvolve, SessionSigned, Closed
  <1> DEFINE u == sessions[s].user
  <1>3. s \notin loggedOut
    BY WorkFrame DEF RevokeToken, Active, IsSessionActive
  <1>4. ExistsNext(u) /\ sessions[s].iat >= users'[u].changed
    BY <1>2 DEF Active, IsSessionActive, Exists, ExistsNext
  <1>5. Exists(u) /\ UserKept(u)
    BY <1>1, <1>4, SettledKept
  <1>6. u \in Ids /\ users[u] \in UserRow /\ sessions[s].iat \in Nat
    BY <1>0, <1>5 DEF Exists, Typed, TablesTyped, Session
  <1>7. ~(sessions[s].iat >= users[u].changed)
    BY <1>3, <1>5 DEF Active, IsSessionActive
  <1>8. users'[u].changed # users[u].changed
    BY <1>4, <1>7
  <1>9. PICK q \in Requests : /\ req[q].pc = "setPassword" /\ req[q].uid = u
                              /\ users'[u].changed = req[q].at
    BY <1>5, <1>8 DEF UserKept
  <1>10. req[q].at \in Nat /\ users[u].changed \in Nat
    BY <1>0, <1>6 DEF Typed, Req, UserRow
  <1>11. TakesBack(q, u)
    BY <1>4, <1>6, <1>7, <1>9, <1>10 DEF TakesBack
  <1> QED
    BY <1>11

(* A session token that stopped being honoured is honoured again only when *)
(* an overlapping, earlier dated password change is written last           *)
(* (middleware/auth.ts, routes/auth.ts).                                   *)
THEOREM EndedSessionsStayEnded == AccSpec => DeadSessionsStayDead
  <1>1. NamesInv /\ [AccNext]_accVars =>
          \A s \in Ids : sessions[s] # None /\ s \notin Active /\ s \in Active'
            => \E r \in Requests : /\ req[r].pc = "setPassword" /\ req[r].uid = sessions[s].user
                                   /\ req[r].at < users[req[r].uid].changed
    <2> SUFFICES ASSUME NamesInv, [AccNext]_accVars, NEW s \in Ids, sessions[s] # None,
                        s \notin Active, s \in Active'
                 PROVE  \E r \in Requests : TakesBack(r, sessions[s].user)
      BY DEF TakesBack
    <2>1. ASSUME NEW r \in Requests, Work(r)
          PROVE  \E q \in Requests : TakesBack(q, sessions[s].user)
      BY <2>1, DeadStaysDead
    <2>2. ASSUME UNCHANGED <<users, sessions, loggedOut>>
          PROVE  FALSE
      BY <2>2 DEF Active, IsSessionActive, Exists
    <2>3. ASSUME NEW r \in Requests, Start(r) \/ Abort(r)
          PROVE  FALSE
      <3>1. Typed
        BY DEF NamesInv
      <3> QED
        BY <2>2, <2>3, <3>1, StartFrame DEF Abort, tables
    <2>4. CASE Tick \/ UNCHANGED accVars
      BY <2>2, <2>4 DEF Tick, accVars, tables
    <2> QED
      BY <2>1, <2>3, <2>4 DEF AccNext
  <1> QED
    BY <1>1, NamesInit, NamesStep, PTL DEF AccSpec, DeadSessionsStayDead

(***************************************************************************)
(* The last administrator.                                                 *)
(***************************************************************************)
(* A request whose check was the last to pass before any write would pass  *)
(* it now.                                                                 *)
GuardHolds(r) ==
    r \in lastGuard /\ req[r].pc \in {"setRole", "deleteUser"} => GuardPasses(req[r])
GuardInv == NamesInv /\ \A r \in Requests : GuardHolds(r)

(* Nobody else takes the role of an administrator away.                    *)
LEMMA AdminsKept ==
    ASSUME NamesInv, NEW r \in Requests, Work(r), ~SetRole(r), ~DeleteUser(r),
           NEW a \in Admins
    PROVE  a \in Admins'
  <1>0. /\ Typed /\ a \in Ids /\ users[a] # None /\ users[a].role = "admin"
        /\ users \in [Ids -> UserRow \cup {None}]
    BY DEF NamesInv, Typed, TablesTyped, Admins
  <1>1. ASSUME users'[a] = users[a]
        PROVE  a \in Admins'
    BY <1>0, <1>1 DEF Admins
  <1>2. CASE InsertUser(r) \/ SsoInsert(r)
    <2>1. req[r].pc \in {"insertUser", "ssoInsert"}
      BY <1>2, Zenon DEF InsertUser, SsoInsert
    <2>2. a # r
      BY <1>0, <2>1 DEF NamesInv, UsersSettled, Placed, Unplaced
    <2>3. users' = users \/ \E x : users' = [users EXCEPT ![r] = x]
      BY <1>2, Zenon DEF InsertUser, SsoInsert
    <2>4. users'[a] = users[a]
      BY <1>0, <2>2, <2>3
    <2> QED
      BY <1>1, <2>4
  <1>3. ASSUME NEW x \in UserRow, x.role = "admin", users'[a] = x
        PROVE  a \in Admins'
    <2>1. None \notin UserRow
      BY NoneIsNoUser DEF UserRow, Args
    <2> QED
      BY <1>0, <1>3, <2>1 DEF Admins
  <1>4. CASE users' = users
    BY <1>1, <1>4
  <1>5. CASE SetPassword(r)
    <2>1. CASE users'[a] = users[a]
      BY <1>1, <2>1
    <2>2. CASE /\ a = req[r].uid
               /\ users' = [users EXCEPT ![a].pw = req[r].arg, ![a].changed = req[r].at]
      <3> DEFINE x == [users[a] EXCEPT !.pw = req[r].arg, !.changed = req[r].at]
      <3>1. users[a] \in UserRow /\ req[r].arg \in Args /\ req[r].at \in Nat
        BY <1>0 DEF Typed, TablesTyped, Req
      <3>2. x \in UserRow /\ x.role = "admin"
        BY <1>0, <3>1 DEF UserRow
      <3>3. users'[a] = x
        BY <1>0, <2>2, <3>1 DEF UserRow
      <3> QED
        BY <1>3, <3>2, <3>3
    <2>3. CASE /\ a # req[r].uid
               /\ users' = [users EXCEPT ![req[r].uid].pw = req[r].arg,
                                         ![req[r].uid].changed = req[r].at]
      BY <1>0, <2>1, <2>3
    <2> QED
      BY <1>4, <1>5, <2>2, <2>3 DEF SetPassword
  <1>6. CASE SetVerified(r)
    <2>1. CASE users'[a] = users[a]
      BY <1>1, <2>1
    <2>2. CASE a = req[r].uid /\ users' = [users EXCEPT ![a].verified = TRUE]
      <3> DEFINE x == [users[a] EXCEPT !.verified = TRUE]
      <3>1. users[a] \in UserRow
        BY <1>0
      <3>2. x \in UserRow /\ x.role = "admin"
        BY <1>0, <3>1 DEF UserRow
      <3>3. users'[a] = x
        BY <1>0, <2>2
      <3> QED
        BY <1>3, <3>2, <3>3
    <2>3. CASE a # req[r].uid /\ users' = [users EXCEPT ![req[r].uid].verified = TRUE]
      BY <1>0, <2>1, <2>3
    <2> QED
      BY <1>4, <1>6, <2>2, <2>3 DEF SetVerified
  <1> QED
    BY <1>2, <1>4, <1>5, <1>6, WorkFrame

(* An administrator's write is a step of its own.                          *)
LEMMA GuardedSteps ==
    ASSUME NEW r \in Requests, Work(r), req[r].pc \in {"setRole", "deleteUser"}
    PROVE  SetRole(r) \/ DeleteUser(r)
  <1>1. ~FindInbox(r) /\ ~CreateInbox(r) /\ ~SendSystemEmail(r) /\ ~Sign(r)
    BY DEF FindInbox, CreateInbox, SendSystemEmail, Sign
  <1>2. ~InsertLink(r) /\ ~InsertUser(r) /\ ~ResolveSsoUser(r) /\ ~SsoInsert(r)
    <2>1. InsertUser(r) => req[r].pc = "insertUser"
      BY Zenon DEF InsertUser
    <2>2. ResolveSsoUser(r) => req[r].pc \in {"ssoFind", "ssoFindAgain"}
      BY Zenon DEF ResolveSsoUser
    <2>3. ~InsertLink(r) /\ ~SsoInsert(r)
      BY DEF InsertLink, SsoInsert
    <2>4. req[r].pc \notin {"insertUser", "ssoFind", "ssoFindAgain"}
      OBVIOUS
    <2> QED
      BY <2>1, <2>2, <2>3, <2>4
  <1>3. ~SetVerified(r) /\ ~ReadVerified(r) /\ ~RevokeToken(r) /\ ~CheckMail(r)
    BY DEF SetVerified, ReadVerified, RevokeToken, CheckMail
  <1>4. ~CreateKey(r) /\ ~EditKey(r) /\ ~RotateKey(r) /\ ~DeleteKey(r)
    BY DEF CreateKey, EditKey, RotateKey, DeleteKey
  <1>5. /\ ~UpgradeKey(r) /\ ~AcceptKey(r) /\ ~CompareHash(r) /\ ~DateChange(r)
        /\ ~SetPassword(r) /\ ~DeleteKeys(r) /\ ~VoidLinks(r)
    BY DEF UpgradeKey, AcceptKey, CompareHash, DateChange, SetPassword, DeleteKeys, VoidLinks
  <1> QED
    BY <1>1, <1>2, <1>3, <1>4, <1>5, Zenon DEF Work

(* It leaves the administrator who asked for it.                           *)
LEMMA GuardedWriteKeepsAdmin ==
    ASSUME NamesInv, NEW r \in Requests, SetRole(r) \/ DeleteUser(r), GuardPasses(req[r])
    PROVE  Admins' # {}
  <1> DEFINE a == req[r].row
             u == req[r].uid
  <1>0. /\ Typed /\ a \in Ids /\ users[a] \in UserRow /\ users[a] # None
        /\ users[a].role = "admin" /\ users \in [Ids -> UserRow \cup {None}]
    BY DEF NamesInv, Typed, TablesTyped, GuardPasses, Admins
  <1>1. CASE users'[a] = users[a]
    BY <1>0, <1>1 DEF Admins
  <1>2. CASE users' = [users EXCEPT ![a].role = "admin"]
    <2> DEFINE x == [users[a] EXCEPT !.role = "admin"]
    <2>1. x \in UserRow /\ x.role = "admin"
      BY <1>0 DEF UserRow, Args
    <2>2. users'[a] = x
      BY <1>0, <1>2
    <2>3. None \notin UserRow
      BY NoneIsNoUser DEF UserRow, Args
    <2> HIDE DEF x
    <2> QED
      BY <1>0, <2>1, <2>2, <2>3 DEF Admins
  <1>3. CASE u # a
    BY <1>0, <1>1, <1>3 DEF SetRole, DeleteUser
  <1>4. CASE u = a
    <2>1. SetRole(r) /\ req[r].arg = "admin"
      BY <1>4 DEF GuardPasses, SetRole, DeleteUser
    <2> QED
      BY <1>0, <1>2, <1>4, <2>1 DEF SetRole, Exists
  <1> QED
    BY <1>3, <1>4

(* Administrators cannot lock everyone out one request at a time: a role   *)
(* change or deletion leaves an administrator unless another one was       *)
(* written after its own check (routes/admin.ts).                          *)
THEOREM LastAdminStays == AccSpec => LastAdminNeedsRace
  <1>1. AccInit => GuardInv
    BY NamesInit DEF AccInit, GuardInv, GuardHolds
  <1>2. GuardInv /\ [AccNext]_accVars => GuardInv'
    <2> SUFFICES ASSUME GuardInv, [AccNext]_accVars
                 PROVE  \A q \in Requests : GuardHolds(q)'
      BY NamesStep DEF GuardInv
    <2>0. Typed /\ NamesInv
      BY DEF GuardInv, NamesInv
    <2>1. ASSUME NEW q \in Requests, req'[q] = req[q], q \in lastGuard' => q \in lastGuard,
                 \A a \in Admins : a \in Admins'
          PROVE  GuardHolds(q)'
      BY <2>1 DEF GuardInv, GuardHolds, GuardPasses
    <2>2. ASSUME NEW r \in Requests, Work(r)
          PROVE  \A q \in Requests : GuardHolds(q)'
      <3>1. WentOn(r) /\ \A q \in Requests : q # r => req'[q] = req[q]
        BY <2>0, <2>2, WorkGoesOn, WorkMoves, MovesForward
      <3>2. GuardHolds(r)'
        BY <3>1 DEF WentOn, GuardHolds
      <3>3. CASE SetRole(r) \/ DeleteUser(r)
        <4>1. lastGuard' = {}
          BY <3>3 DEF SetRole, DeleteUser
        <4> QED
          BY <4>1 DEF GuardHolds
      <3>4. CASE ~SetRole(r) /\ ~DeleteUser(r)
        <4>1. \A a \in Admins : a \in Admins'
          BY <2>0, <2>2, <3>4, AdminsKept
        <4>2. lastGuard' = lastGuard \/ lastGuard' = {}
          BY <2>2, WorkFrame
        <4> QED
          BY <2>1, <3>1, <3>2, <4>1, <4>2
      <3> QED
        BY <3>3, <3>4
    <2>3. ASSUME users' = users
          PROVE  \A a \in Admins : a \in Admins'
      BY <2>3 DEF Admins
    <2>4. ASSUME NEW r \in Requests, Start(r)
          PROVE  \A q \in Requests : GuardHolds(q)'
      <3>1. \A q \in Requests : q # r => req'[q] = req[q]
        BY <2>0, <2>4, StartMoves, MovesForward
      <3>2. users' = users /\ lastGuard' \in {lastGuard, lastGuard \cup {r}}
        BY <2>0, <2>4, StartFrame
      <3>3. req'[r].pc \in {"setRole", "deleteUser"} => GuardPasses(req'[r])
        BY <2>0, <2>4, StartBegins
      <3>4. GuardHolds(r)'
        BY <3>2, <3>3 DEF GuardHolds, GuardPasses, Admins
      <3> QED
        BY <2>1, <2>3, <3>1, <3>2, <3>4
    <2>5. ASSUME NEW r \in Requests, Abort(r)
          PROVE  \A q \in Requests : GuardHolds(q)'
      <3>1. (\A q \in Requests : q # r => req'[q] = req[q]) /\ req'[r].pc = "done"
        BY <2>0, <2>5, ReplyIs, ReplyMoves, MovesForward DEF Abort
      <3>2. users' = users /\ lastGuard' = lastGuard
        BY <2>5 DEF Abort, tables
      <3>3. GuardHolds(r)'
        BY <3>1 DEF GuardHolds
      <3> QED
        BY <2>1, <2>3, <3>1, <3>2, <3>3
    <2>6. CASE Tick \/ UNCHANGED accVars
      <3>1. UNCHANGED <<users, lastGuard, req>>
        BY <2>6 DEF Tick, accVars, tables
      <3> QED
        BY <2>1, <2>3, <3>1
    <2> QED
      BY <2>2, <2>4, <2>5, <2>6 DEF AccNext
  <1>3. GuardInv /\ [AccNext]_accVars =>
          \A r \in lastGuard : req[r].pc \in {"setRole", "deleteUser"} /\ req'[r].pc = "done"
            => Admins' # {}
    <2> SUFFICES ASSUME GuardInv, [AccNext]_accVars, NEW r \in lastGuard,
                        req[r].pc \in {"setRole", "deleteUser"}, req'[r].pc = "done"
                 PROVE  Admins' # {}
      OBVIOUS
    <2>0. Typed /\ NamesInv /\ r \in Requests /\ GuardPasses(req[r])
      BY DEF GuardInv, GuardHolds, NamesInv, Typed, TablesTyped
    <2>1. ASSUME users' = users
          PROVE  Admins' # {}
      BY <2>0, <2>1 DEF Admins, GuardPasses
    <2>2. ASSUME NEW q \in Requests, Work(q)
          PROVE  Admins' # {}
      <3>1. q = r
        BY <2>0, <2>2, WorkMoves, MovesForward
      <3> QED
        BY <2>0, <2>2, <3>1, GuardedSteps, GuardedWriteKeepsAdmin
    <2>3. ASSUME NEW q \in Requests, Start(q) \/ Abort(q)
          PROVE  Admins' # {}
      BY <2>0, <2>1, <2>3, StartFrame DEF Abort, tables
    <2>4. CASE Tick \/ UNCHANGED accVars
      BY <2>1, <2>4 DEF Tick, accVars, tables
    <2> QED
      BY <2>2, <2>3, <2>4 DEF AccNext
  <1> QED
    BY <1>1, <1>2, <1>3, PTL DEF AccSpec, LastAdminNeedsRace

(***************************************************************************)
(* Who may send: the logins of the SMTP server, and the sender domains.    *)
(***************************************************************************)
Lookups == {c \in Logins : auth[c] = "lookup"}

(* A login that passed the check is a failure that may still be recorded.  *)
Reserved == failedAuth.count + Cardinality(Lookups) <= MaxFailedAuth - 1 + Cardinality(Logins)
LoginInv == LoginTypeOK /\ Reserved

(* The logins under comparison are at most the logins there are.           *)
LEMMA LookupsBound ==
    ASSUME LoginTypeOK
    PROVE  /\ IsFiniteSet(Lookups) /\ Cardinality(Lookups) \in Nat
           /\ Cardinality(Logins) \in Nat \ {0}
           /\ Cardinality(Lookups) <= Cardinality(Logins)
  <1>1. IsFiniteSet(Logins) /\ Logins # {}
    BY SmtpLoginAssumption
  <1>2. Lookups \subseteq Logins
    BY DEF Lookups
  <1>3. IsFiniteSet(Lookups) /\ Cardinality(Lookups) <= Cardinality(Logins)
    BY <1>1, <1>2, FS_Subset
  <1>4. Cardinality(Lookups) \in Nat /\ Cardinality(Logins) \in Nat
    BY <1>1, <1>3, FS_CardinalityType
  <1>5. Cardinality(Logins) # 0
    BY <1>1, FS_EmptySet
  <1> QED
    BY <1>3, <1>4, <1>5

(* Every step keeps the types.                                             *)
LEMMA LoginTypeStep ==
    ASSUME LoginTypeOK, [LoginNext]_loginVars
    PROVE  LoginTypeOK'
  <1> USE SmtpLoginAssumption DEF LoginTypeOK, NoEntry
  <1>1. ASSUME NEW c \in Logins, CheckBlocked(c)
        PROVE  LoginTypeOK'
    BY <1>1 DEF CheckBlocked
  <1>2. ASSUME NEW c \in Logins, RecordFailedAuth(c)
        PROVE  LoginTypeOK'
    BY <1>2 DEF RecordFailedAuth
  <1>3. ASSUME NEW c \in Logins,
               AnswerFailed(c) \/ Authenticated(c) \/ LookupFails(c) \/ Reconnect(c)
        PROVE  LoginTypeOK'
    BY <1>3 DEF AnswerFailed, Authenticated, LookupFails, Reconnect
  <1>4. CASE PassTime
    BY <1>4 DEF PassTime
  <1>5. CASE UNCHANGED loginVars
    BY <1>5 DEF loginVars
  <1> QED
    BY <1>1, <1>2, <1>3, <1>4, <1>5 DEF LoginNext

(* A step that ends the comparison of a login frees what it had reserved.  *)
LEMMA OneLookupLess ==
    ASSUME LoginTypeOK, NEW c \in Logins, auth[c] = "lookup",
           NEW step, step # "lookup", auth' = [auth EXCEPT ![c] = step]
    PROVE  Cardinality(Lookups') = Cardinality(Lookups) - 1
  <1>1. Lookups' = Lookups \ {c}
    BY DEF Lookups, LoginTypeOK
  <1>2. c \in Lookups
    BY DEF Lookups
  <1>3. Cardinality(Lookups \ {c}) = Cardinality(Lookups) - 1
    BY <1>2, LookupsBound, FS_RemoveElement
  <1> QED
    BY <1>1, <1>3

(* A login passes only below the limit or after the window, and is then    *)
(* one of those in progress.                                               *)
LEMMA CheckReserves ==
    ASSUME LoginInv, LoginTypeOK', NEW c \in Logins, CheckBlocked(c)
    PROVE  Reserved'
  <1>1. /\ Cardinality(Lookups') \in Nat /\ Cardinality(Lookups') <= Cardinality(Logins)
        /\ Cardinality(Logins) \in Nat
    <2>1. /\ IsFiniteSet(Logins)
          /\ Lookups' \subseteq Logins
      BY SmtpLoginAssumption DEF Lookups
    <2>2. IsFiniteSet(Lookups') /\ Cardinality(Lookups') <= Cardinality(Logins)
      BY <2>1, FS_Subset
    <2> QED
      BY <2>1, <2>2, FS_CardinalityType
  <1>2. CASE ~Expired /\ failedAuth.count >= MaxFailedAuth
    <2>1. failedAuth' = failedAuth /\ auth' = auth
      BY <1>2 DEF CheckBlocked, LoginInv, LoginTypeOK
    <2> QED
      BY <2>1 DEF LoginInv, Reserved, Lookups
  <1>3. CASE Expired \/ failedAuth.count < MaxFailedAuth
    <2>1. failedAuth'.count \in Nat /\ failedAuth'.count <= MaxFailedAuth - 1
      BY <1>3, SmtpLoginAssumption DEF CheckBlocked, NoEntry, LoginInv, LoginTypeOK
    <2> QED
      BY <1>1, <2>1, SmtpLoginAssumption DEF Reserved
  <1> QED
    BY <1>2, <1>3, SmtpLoginAssumption DEF LoginInv, LoginTypeOK

(* Every step keeps the bound on what is recorded and reserved.            *)
LEMMA LoginInvStep ==
    ASSUME LoginInv, [LoginNext]_loginVars
    PROVE  LoginInv'
  <1> USE DEF LoginInv
  <1>0. LoginTypeOK'
    BY LoginTypeStep
  <1>a. /\ Cardinality(Lookups) \in Nat /\ Cardinality(Lookups) <= Cardinality(Logins)
        /\ Cardinality(Logins) \in Nat
        /\ MaxFailedAuth \in Nat \ {0} /\ failedAuth.count \in Nat
    BY LookupsBound, SmtpLoginAssumption DEF LoginTypeOK
  <1>1. ASSUME NEW c \in Logins, CheckBlocked(c)
        PROVE  Reserved'
    BY <1>0, <1>1, CheckReserves
  <1>2. ASSUME NEW c \in Logins, RecordFailedAuth(c)
        PROVE  Reserved'
    <2>1. Cardinality(Lookups') = Cardinality(Lookups) - 1
      BY <1>2, OneLookupLess DEF RecordFailedAuth
    <2>2. failedAuth'.count = 1 \/ failedAuth'.count = failedAuth.count + 1
      BY <1>2 DEF RecordFailedAuth, LoginTypeOK
    <2> QED
      BY <1>a, <2>1, <2>2 DEF Reserved
  <1>3. ASSUME NEW c \in Logins, Authenticated(c) \/ LookupFails(c)
        PROVE  Reserved'
    <2>1. Cardinality(Lookups') = Cardinality(Lookups) - 1
      BY <1>3, OneLookupLess DEF Authenticated, LookupFails
    <2>2. failedAuth' = failedAuth
      BY <1>3 DEF Authenticated, LookupFails
    <2> QED
      BY <1>a, <2>1, <2>2 DEF Reserved
  <1>4. ASSUME NEW c \in Logins, AnswerFailed(c) \/ Reconnect(c)
        PROVE  Reserved'
    <2>1. Lookups' = Lookups /\ failedAuth' = failedAuth
      BY <1>4 DEF AnswerFailed, Reconnect, Lookups, LoginTypeOK
    <2> QED
      BY <2>1 DEF Reserved
  <1>5. CASE PassTime \/ UNCHANGED loginVars
    <2>1. Lookups' = Lookups /\ failedAuth' = failedAuth
      BY <1>5 DEF PassTime, loginVars, Lookups
    <2> QED
      BY <1>0, <2>1 DEF Reserved
  <1> QED
    BY <1>0, <1>1, <1>2, <1>3, <1>4, <1>5 DEF LoginNext

(* The wrong passwords compared within a window exceed the limit by fewer  *)
(* than the logins in progress at once (onAuth in smtp/src/index.ts).      *)
THEOREM OvershootIsBounded == LoginSpec => [](LoginTypeOK /\ GuessesBounded)
  <1>1. LoginInit => LoginInv
    <2> SUFFICES ASSUME LoginInit
                 PROVE  LoginInv
      OBVIOUS
    <2>1. LoginTypeOK
      BY SmtpLoginAssumption DEF LoginInit, LoginTypeOK, NoEntry
    <2>2. Lookups = {} /\ failedAuth.count = 0
      BY DEF LoginInit, Lookups, NoEntry
    <2>3. Cardinality(Lookups) = 0
      BY <2>2, FS_EmptySet
    <2> QED
      BY <2>1, <2>2, <2>3, LookupsBound, SmtpLoginAssumption DEF LoginInv, Reserved
  <1>2. LoginInv /\ [LoginNext]_loginVars => LoginInv'
    BY LoginInvStep
  <1>3. LoginInv => GuessesBounded
    <2> SUFFICES ASSUME LoginInv
                 PROVE  GuessesBounded
      OBVIOUS
    <2>1. Cardinality(Lookups) \in Nat /\ Cardinality(Logins) \in Nat
      BY LookupsBound DEF LoginInv
    <2> QED
      BY <2>1, SmtpLoginAssumption DEF LoginInv, LoginTypeOK, Reserved, GuessesBounded
  <1>4. LoginInv => LoginTypeOK
    BY DEF LoginInv
  <1> QED
    BY <1>1, <1>2, <1>3, <1>4, PTL DEF LoginSpec

(***************************************************************************)
(* Sender domains.  A row belongs to the one request that inserts it, so a *)
(* request that verifies a row still means the same name when it updates   *)
(* it; what it found in DNS was published; and a start of the API keeps    *)
(* every row it has not looked at yet on its list.                         *)
(***************************************************************************)
EditShape(x) == DOMAIN x = {"pc", "by", "name", "row", "saw", "answer"}
EditShapes ==
    /\ edit = [r \in Adds \cup Edits |-> edit[r]]
    /\ \A r \in Adds \cup Edits : EditShape(edit[r]) /\ edit[r].answer \in BOOLEAN

(* A row that is there was inserted by a request that is over.             *)
Inserted(d) == domains[d] # NoDomain => edit[d].pc = "done"

(* What a request that adds or verifies knows.                             *)
KnowsRow(r) ==
    /\ r \in Adds /\ edit[r].pc = "insert" => edit[r].by \in Owners /\ edit[r].name \in DomainNames
    /\ r \in Edits /\ edit[r].pc \in {"lookup", "update"} =>
         /\ edit[r].row \in Adds /\ edit[r].name \in DomainNames /\ edit[edit[r].row].pc = "done"
         /\ Held(edit[r].row) => domains[edit[r].row].name = edit[r].name
    /\ r \in Edits /\ edit[r].pc = "update" /\ edit[r].answer => edit[r].row \in shown

Proved(d) == domains[d] # NoDomain /\ domains[d].verified
OneProof == \A d \in Adds, e \in Adds :
              Proved(d) /\ Proved(e) /\ domains[d].name = domains[e].name => d = e

RowsInv ==
    /\ DomTypeOK /\ EditShapes
    /\ \A d \in Adds : Inserted(d)
    /\ \A r \in Adds \cup Edits : KnowsRow(r)
    /\ OneProof
    /\ \A d \in Adds : Proved(d) => d \in shown
    /\ \A n \in DomainNames : dns[n] \subseteq shown

(* A row that is not under the current secret yet is on the list of every  *)
(* start that has one.                                                     *)
OnList(b, d) == boot[b] # {} /\ Stale(domains[d].key) =>
                  [row |-> d, key |-> domains[d].key] \in boot[b]
SealsInv ==
    \A d \in Adds : domains[d] # NoDomain =>
      /\ Readable(domains[d].key.seal)
      /\ migrated => domains[d].key.seal = Current
      /\ \A b \in Boots : OnList(b, d)

DomInv == RowsInv /\ SealsInv

(***************************************************************************)
(* How a request moves.                                                    *)
(***************************************************************************)
(* A request is over.                                                      *)
LEMMA Leaves ==
    ASSUME RowsInv, NEW r \in Adds \cup Edits, Leave(r)
    PROVE  /\ EditShapes' /\ edit'[r].pc = "done"
           /\ \A q \in Adds \cup Edits : q # r => edit'[q] = edit[q]
           /\ \A q \in Adds \cup Edits : edit'[q].pc \in
                {"idle", "insert", "lookup", "update", "delete", "done"}
  <1> PICK x : x = NotMade
    OBVIOUS
  <1>1. /\ edit' = [q \in Adds \cup Edits |-> edit'[q]] /\ edit'[r] = x
        /\ \A q \in Adds \cup Edits : q # r => edit'[q] = edit[q]
    BY DEF Leave, RowsInv, EditShapes
  <1>2. EditShape(x) /\ x.pc = "done" /\ x.answer \in BOOLEAN
    BY DEF EditShape, NotMade, NotStarted
  <1>3. EditShapes'
    BY <1>1, <1>2 DEF RowsInv, EditShapes
  <1> QED
    BY <1>1, <1>2, <1>3 DEF RowsInv, DomTypeOK

(* What a request that goes on knows is what it has just read.             *)
LEMMA EditKeeps ==
    ASSUME RowsInv, NEW r \in Adds \cup Edits, UNCHANGED <<domains, dns, shown, secretVars>>,
           NEW x, edit' = [edit EXCEPT ![r] = x], EditShape(x), x.answer \in BOOLEAN,
           x.pc \in {"insert", "lookup", "update", "delete", "done"},
           r \in Adds => edit[r].pc # "done" /\ x.pc = "insert",
           r \in Adds => x.by \in Owners /\ x.name \in DomainNames,
           r \in Edits /\ x.pc \in {"lookup", "update"} =>
             /\ x.row \in Adds /\ x.name \in DomainNames /\ edit[x.row].pc = "done"
             /\ Held(x.row) => domains[x.row].name = x.name,
           r \in Edits /\ x.pc = "update" /\ x.answer => x.row \in shown
    PROVE  RowsInv'
  <1>0. UNCHANGED domains /\ UNCHANGED dns /\ UNCHANGED shown /\ UNCHANGED keyConfig
        /\ UNCHANGED migrated /\ UNCHANGED boot
    BY DEF secretVars
  <1>1. /\ edit' = [q \in Adds \cup Edits |-> edit'[q]] /\ edit'[r] = x
        /\ \A q \in Adds \cup Edits : q # r => edit'[q] = edit[q]
    BY DEF RowsInv, EditShapes
  <1>2. EditShapes'
    BY <1>1 DEF RowsInv, EditShapes
  <1>3. DomTypeOK'
    BY <1>0, <1>1 DEF RowsInv, DomTypeOK
  <1>4. \A d \in Adds : Inserted(d)'
    BY <1>0, <1>1 DEF RowsInv, Inserted
  <1>5. \A d \in Adds : edit[d].pc = "done" => edit'[d].pc = "done"
    BY <1>1
  <1>6. ASSUME NEW q \in Adds \cup Edits
        PROVE  KnowsRow(q)'
    <2>1. CASE q = r
      BY <1>0, <1>1, <1>5, <2>1, SenderDomainsAssumption DEF KnowsRow, Held
    <2>2. CASE q # r
      <3>1. KnowsRow(q) /\ edit'[q] = edit[q]
        BY <1>1, <2>2 DEF RowsInv
      <3> QED
        BY <1>0, <1>5, <3>1 DEF KnowsRow, Held
    <2> QED
      BY <2>1, <2>2
  <1>7. OneProof' /\ (\A d \in Adds : Proved(d) => d \in shown)'
        /\ (\A n \in DomainNames : dns[n] \subseteq shown)'
    BY <1>0 DEF RowsInv, OneProof, Proved
  <1> QED
    BY <1>2, <1>3, <1>4, <1>6, <1>7 DEF RowsInv

(* A request that is over leaves the rows to the others.                   *)
LEMMA LeaveStaysProven ==
    ASSUME RowsInv, NEW r \in Adds \cup Edits, Leave(r), UNCHANGED dns, UNCHANGED shown,
           domains' \in [Adds -> DomainRow \cup {NoDomain}],
           \A d \in Adds : domains'[d] # NoDomain /\ d # r =>
             domains[d] # NoDomain /\ domains'[d].name = domains[d].name,
           r \in Adds => edit[r].pc # "done",
           keyConfig' \in Configs, migrated' \in BOOLEAN,
           boot' \in [Boots -> SUBSET [row : Adds, key : Sealed]],
           OneProof', \A d \in Adds : Proved(d)' => d \in shown
    PROVE  RowsInv'
  <1>1. /\ EditShapes' /\ edit'[r].pc = "done"
        /\ \A q \in Adds \cup Edits : q # r => edit'[q] = edit[q]
        /\ \A q \in Adds \cup Edits : edit'[q].pc \in
             {"idle", "insert", "lookup", "update", "delete", "done"}
    BY Leaves
  <1>2. DomTypeOK'
    BY <1>1 DEF RowsInv, DomTypeOK
  <1>3. \A d \in Adds : Inserted(d)'
    BY <1>1 DEF RowsInv, Inserted
  <1>4. ASSUME NEW q \in Adds \cup Edits
        PROVE  KnowsRow(q)'
    <2>1. CASE q = r
      BY <1>1, <2>1 DEF KnowsRow
    <2>2. CASE q # r
      <3>1. KnowsRow(q) /\ edit'[q] = edit[q]
        BY <1>1, <2>2 DEF RowsInv
      <3>2. \A d \in Adds : edit[d].pc = "done" => edit'[d].pc = "done" /\ d # r
        BY <1>1
      <3> QED
        BY <3>1, <3>2 DEF KnowsRow, Held
    <2> QED
      BY <2>1, <2>2
  <1>5. (\A d \in Adds : Proved(d) => d \in shown)'
        /\ (\A n \in DomainNames : dns[n] \subseteq shown)'
    BY DEF RowsInv
  <1> QED
    BY <1>1, <1>2, <1>3, <1>4, <1>5 DEF RowsInv

(***************************************************************************)
(* The requests.                                                           *)
(***************************************************************************)
(* Finding that a name is free, reading a row, and asking DNS for it.      *)
LEMMA LookingKeeps ==
    ASSUME RowsInv, NEW r, \/ r \in Adds /\ FindExisting(r)
                           \/ r \in Edits /\ (ReadDomain(r) \/ Lookup(r))
    PROVE  RowsInv' /\ UNCHANGED <<domains, dns, shown, secretVars>>
  <1>0. /\ UNCHANGED <<domains, dns, shown, secretVars>> /\ r \in Adds \cup Edits
        /\ KnowsRow(r) /\ EditShape(edit[r]) /\ edit[r].answer \in BOOLEAN
    BY DEF FindExisting, ReadDomain, Lookup, RowsInv, EditShapes
  <1>1. ASSUME NEW u \in Owners, NEW n, NEW d, NEW pc \in {"insert", "delete"},
               Enter(r, pc, u, n, d), pc = "insert" => r \in Adds /\ n \in DomainNames,
               pc = "delete" => r \in Edits
        PROVE  RowsInv'
    <2> PICK x : x = [NotStarted EXCEPT !.pc = pc, !.by = u, !.name = n, !.row = d]
      OBVIOUS
    <2>1. edit' = [edit EXCEPT ![r] = x] /\ edit[r].pc = "idle"
      BY <1>1 DEF Enter, NotStarted
    <2>2. EditShape(x) /\ x.answer \in BOOLEAN /\ x.pc = pc /\ x.by = u /\ x.name = n
      BY DEF NotStarted, EditShape
    <2>3. r \in Adds => r \notin Edits
      BY SenderDomainsAssumption
    <2> QED
      BY <1>0, <1>1, <2>1, <2>2, <2>3, EditKeeps
  <1>2. CASE r \in Adds /\ FindExisting(r)
    BY <1>1, <1>2 DEF FindExisting
  <1>3. ASSUME r \in Edits, NEW u \in Owners, NEW d \in Adds, MayEdit(u, d), edit[r] = NotStarted,
               edit' = [edit EXCEPT ![r] =
                     [NotStarted EXCEPT !.pc = "lookup", !.by = u, !.row = d,
                                        !.name = domains[d].name, !.saw = domains[d].verified]]
        PROVE  RowsInv'
    <2> PICK n, saw : n = domains[d].name /\ saw = domains[d].verified
      OBVIOUS
    <2> PICK x : x = [NotStarted EXCEPT !.pc = "lookup", !.by = u, !.row = d, !.name = n,
                                        !.saw = saw]
      OBVIOUS
    <2>1. edit' = [edit EXCEPT ![r] = x] /\ edit[r].pc = "idle"
      BY <1>3 DEF NotStarted
    <2>2. EditShape(x) /\ x.answer \in BOOLEAN /\ x.pc = "lookup" /\ x.row = d /\ x.name = n
      BY DEF NotStarted, EditShape
    <2>3. Held(d) /\ n \in DomainNames /\ edit[d].pc = "done"
      BY <1>3 DEF MayEdit, RowsInv, Inserted, DomTypeOK, Held, DomainRow
    <2>4. r \notin Adds
      BY <1>3, SenderDomainsAssumption
    <2> QED
      BY <1>0, <2>1, <2>2, <2>3, <2>4, EditKeeps
  <1>4. CASE r \in Edits /\ ReadDomain(r)
    BY <1>1, <1>3, <1>4 DEF ReadDomain
  <1>5. CASE r \in Edits /\ Lookup(r)
    <2>0. r \notin Adds /\ edit[r].pc = "lookup"
      BY <1>5, SenderDomainsAssumption DEF Lookup
    <2>1. CASE Leave(r)
      <3> PICK x : x = NotMade
        OBVIOUS
      <3>1. edit' = [edit EXCEPT ![r] = x] /\ EditShape(x) /\ x.answer \in BOOLEAN
            /\ x.pc = "done"
        BY <2>1 DEF Leave, NotMade, NotStarted, EditShape
      <3> QED
        BY <1>0, <2>0, <3>1, EditKeeps
    <2>2. CASE ~Leave(r)
      <3> PICK matches : matches = (edit[r].row \in dns[edit[r].name])
        OBVIOUS
      <3>0. matches \in BOOLEAN
        OBVIOUS
      <3> PICK x : x = [edit[r] EXCEPT !.pc = "update", !.answer = matches]
        OBVIOUS
      <3>1. edit' = [edit EXCEPT ![r].pc = "update", ![r].answer = matches]
        BY <1>5, <2>2, Zenon DEF Lookup
      <3>2. edit' = [edit EXCEPT ![r] = x]
        BY <1>0, <3>1 DEF RowsInv, EditShapes
      <3>3. /\ EditShape(x) /\ x.pc = "update" /\ x.answer = matches
            /\ x.row = edit[r].row /\ x.name = edit[r].name
        BY <1>0 DEF EditShape
      <3>4. /\ x.row \in Adds /\ x.name \in DomainNames /\ edit[x.row].pc = "done"
            /\ Held(x.row) => domains[x.row].name = x.name
        BY <1>0, <1>5, <2>0, <3>3 DEF KnowsRow
      <3>5. x.answer => x.row \in shown
        BY <3>3, <3>4 DEF RowsInv
      <3> QED
        BY <1>0, <2>0, <3>0, <3>2, <3>3, <3>4, <3>5, EditKeeps
    <2> QED
      BY <2>1, <2>2
  <1> QED
    BY <1>0, <1>2, <1>4, <1>5

(* Adding, updating and deleting a row.                                    *)
LEMMA RowWritesKeep ==
    ASSUME RowsInv, NEW r, \/ r \in Adds /\ InsertDomain(r)
                           \/ r \in Edits /\ (UpdateVerified(r) \/ DeleteDomain(r))
    PROVE  RowsInv'
  <1>0. /\ r \in Adds \cup Edits /\ Leave(r) /\ UNCHANGED secretVars /\ KnowsRow(r)
        /\ UNCHANGED dns /\ UNCHANGED shown
        /\ domains \in [Adds -> DomainRow \cup {NoDomain}]
    BY Zenon DEF InsertDomain, UpdateVerified, DeleteDomain, RowsInv, DomTypeOK
  <1>1. /\ UNCHANGED keyConfig /\ UNCHANGED migrated /\ UNCHANGED boot
        /\ keyConfig' \in Configs /\ migrated' \in BOOLEAN
        /\ boot' \in [Boots -> SUBSET [row : Adds, key : Sealed]]
    BY <1>0 DEF secretVars, RowsInv, DomTypeOK
  <1>2. CASE r \in Adds /\ InsertDomain(r)
    <2> PICK key \in Sealed : key = [seal |-> Current, by |-> r]
      <3>1. Current \in {"plain", "k1", "k2"}
        BY DEF Current
      <3> QED
        BY <1>2, <3>1 DEF Sealed
    <2> PICK x : x = [owner |-> edit[r].by, name |-> edit[r].name, verified |-> FALSE, key |-> key]
      OBVIOUS
    <2>1. edit[r].pc = "insert" /\ domains' \in {domains, [domains EXCEPT ![r] = x]}
      BY <1>2 DEF InsertDomain
    <2>2. x \in DomainRow /\ ~x.verified
      BY <1>0, <1>2, <2>1 DEF KnowsRow, DomainRow
    <2>3. /\ domains' \in [Adds -> DomainRow \cup {NoDomain}]
          /\ \A d \in Adds : d # r => domains'[d] = domains[d]
          /\ domains'[r] \in {domains[r], x}
      BY <1>0, <1>2, <2>1, <2>2
    <2>4. \A d \in Adds : Proved(d)' => Proved(d) /\ domains'[d] = domains[d]
      BY <2>2, <2>3 DEF Proved
    <2>5. OneProof' /\ \A d \in Adds : Proved(d)' => d \in shown
      BY <2>4 DEF RowsInv, OneProof
    <2> QED
      BY <1>0, <1>1, <2>1, <2>3, <2>5, LeaveStaysProven
  <1>3. CASE r \in Edits /\ UpdateVerified(r)
    <2> PICK d, n, answer : d = edit[r].row /\ n = edit[r].name /\ answer = edit[r].answer
      OBVIOUS
    <2>0. /\ answer \in BOOLEAN /\ d \in Adds /\ n \in DomainNames
          /\ Held(d) => domains[d].name = n
          /\ answer => d \in shown
          /\ r \notin Adds
      BY <1>0, <1>3, SenderDomainsAssumption DEF UpdateVerified, KnowsRow, RowsInv, EditShapes
    <2>1. CASE UNCHANGED domains
      <3>1. OneProof' /\ \A e \in Adds : Proved(e)' => e \in shown
        BY <2>1 DEF RowsInv, OneProof, Proved
      <3> QED
        BY <1>0, <1>1, <2>0, <2>1, <3>1, LeaveStaysProven
    <2>2. CASE Held(d) /\ domains' = [domains EXCEPT ![d].verified = answer]
               /\ ~(answer /\ \E x \in Named(n) \ {d} : domains[x].verified)
      <3> PICK x : x = [domains[d] EXCEPT !.verified = answer]
        OBVIOUS
      <3>1. x \in DomainRow /\ x.verified = answer /\ x.name = n
        BY <1>0, <2>0, <2>2 DEF DomainRow, Held
      <3>2. /\ domains' \in [Adds -> DomainRow \cup {NoDomain}] /\ domains'[d] = x
            /\ \A e \in Adds : e # d => domains'[e] = domains[e]
        BY <1>0, <2>0, <2>2, <3>1
      <3>3. \A e \in Adds : Proved(e)' => e \in shown
        BY <2>0, <3>1, <3>2 DEF RowsInv, Proved
      <3>4. \A e \in Adds : domains'[e] # NoDomain =>
              domains[e] # NoDomain /\ domains'[e].name = domains[e].name
        BY <2>0, <2>2, <3>1, <3>2 DEF Held
      <3>5. OneProof'
        <4> SUFFICES ASSUME NEW e \in Adds, NEW f \in Adds, Proved(e)', Proved(f)',
                            domains'[e].name = domains'[f].name
                     PROVE  e = f
          BY DEF OneProof
        <4>1. domains[e] # NoDomain /\ domains[f] # NoDomain /\ domains[e].name = domains[f].name
          BY <3>4 DEF Proved
        <4>2. \A g \in Adds : Proved(g)' /\ g # d => Proved(g)
          BY <3>2 DEF Proved
        <4>3. \A g \in Adds : Proved(g) /\ g # d /\ domains[g].name = n => ~answer
          BY <2>2 DEF Named, Proved
        <4>4. Proved(d)' => answer
          BY <3>1, <3>2 DEF Proved
        <4> QED
          BY <2>0, <2>2, <4>1, <4>2, <4>3, <4>4 DEF RowsInv, OneProof
      <3> QED
        BY <1>0, <1>1, <2>0, <3>2, <3>3, <3>4, <3>5, LeaveStaysProven
    <2> QED
      BY <1>3, <2>1, <2>2 DEF UpdateVerified
  <1>4. CASE r \in Edits /\ DeleteDomain(r)
    <2>1. /\ domains' \in [Adds -> DomainRow \cup {NoDomain}] /\ r \notin Adds
          /\ \A d \in Adds : domains'[d] # NoDomain => domains'[d] = domains[d]
      BY <1>0, <1>4, SenderDomainsAssumption DEF DeleteDomain
    <2>2. \A d \in Adds : Proved(d)' => Proved(d) /\ domains'[d] = domains[d]
      BY <2>1 DEF Proved
    <2>3. OneProof' /\ \A d \in Adds : Proved(d)' => d \in shown
      BY <2>2 DEF RowsInv, OneProof
    <2> QED
      BY <1>0, <1>1, <2>1, <2>3, LeaveStaysProven
  <1> QED
    BY <1>2, <1>3, <1>4

(* What is published was shown.                                            *)
LEMMA DnsKeeps ==
    ASSUME RowsInv, \/ \E n \in DomainNames, d \in Adds : Publish(n, d)
                    \/ \E n \in DomainNames : Unpublish(n)
    PROVE  RowsInv' /\ UNCHANGED domains /\ UNCHANGED secretVars
  <1>0. /\ UNCHANGED domains /\ UNCHANGED secretVars /\ UNCHANGED edit
        /\ UNCHANGED keyConfig /\ UNCHANGED migrated /\ UNCHANGED boot
    BY DEF Publish, Unpublish, secretVars
  <1>1. /\ dns' \in [DomainNames -> SUBSET Adds] /\ shown' \subseteq Adds
        /\ shown \subseteq shown' /\ \A n \in DomainNames : dns'[n] \subseteq shown'
    BY DEF Publish, Unpublish, RowsInv, DomTypeOK
  <1>2. DomTypeOK' /\ EditShapes'
    BY <1>0, <1>1 DEF RowsInv, DomTypeOK, EditShapes
  <1>3. OneProof' /\ \A d \in Adds : Inserted(d)' /\ (Proved(d)' => d \in shown')
    BY <1>0, <1>1 DEF RowsInv, OneProof, Proved, Inserted
  <1>4. \A r \in Adds \cup Edits : KnowsRow(r)'
    BY <1>0, <1>1 DEF RowsInv, KnowsRow, Held
  <1> QED
    BY <1>0, <1>1, <1>2, <1>3, <1>4 DEF RowsInv

(* A change of the configuration ends the requests in progress.            *)
LEMMA ReconfigureKeeps ==
    ASSUME RowsInv, Reconfigure
    PROVE  RowsInv'
  <1>0. UNCHANGED domains /\ UNCHANGED dns /\ UNCHANGED shown
    BY DEF Reconfigure
  <1>1. /\ edit' = [r \in Adds \cup Edits |-> edit'[r]]
        /\ \A r \in Adds \cup Edits : edit'[r] = IF edit[r] = NotStarted THEN NotStarted
                                                ELSE NotMade
    BY DEF Reconfigure
  <1>2. /\ EditShape(NotStarted) /\ NotStarted.pc = "idle" /\ NotStarted.answer \in BOOLEAN
        /\ EditShape(NotMade) /\ NotMade.pc = "done" /\ NotMade.answer \in BOOLEAN
    BY DEF EditShape, NotStarted, NotMade
  <1>3. /\ keyConfig' \in Configs /\ migrated' \in BOOLEAN
        /\ boot' \in [Boots -> SUBSET [row : Adds, key : Sealed]]
    BY DEF Reconfigure, Configs, RowsInv, DomTypeOK
  <1>4. \A r \in Adds \cup Edits : edit'[r].pc \in {"idle", "done"}
          /\ (edit[r].pc = "done" => edit'[r].pc = "done")
    BY <1>1, <1>2
  <1>5. DomTypeOK'
    BY <1>0, <1>3, <1>4 DEF RowsInv, DomTypeOK
  <1>6. EditShapes'
    BY <1>1, <1>2 DEF EditShapes
  <1>7. OneProof' /\ \A d \in Adds : Inserted(d)' /\ (Proved(d)' => d \in shown')
    BY <1>0, <1>4 DEF RowsInv, OneProof, Proved, Inserted
  <1>8. \A r \in Adds \cup Edits : KnowsRow(r)'
    BY <1>4 DEF KnowsRow
  <1> QED
    BY <1>0, <1>5, <1>6, <1>7, <1>8 DEF RowsInv

(* A start of the API only changes what keys are encrypted under.          *)
LEMMA BootKeeps ==
    ASSUME RowsInv, NEW b \in Boots, ReadRows(b) \/ Reencrypt(b)
    PROVE  RowsInv'
  <1>0. UNCHANGED dns /\ UNCHANGED shown /\ UNCHANGED keyConfig /\ UNCHANGED edit
    BY DEF ReadRows, Reencrypt
  <1>1. /\ domains' \in [Adds -> DomainRow \cup {NoDomain}]
        /\ \A d \in Adds : domains'[d] # NoDomain =>
             /\ domains[d] # NoDomain
             /\ domains'[d].name = domains[d].name
             /\ domains'[d].verified = domains[d].verified
        /\ migrated' \in BOOLEAN /\ boot' \in [Boots -> SUBSET [row : Adds, key : Sealed]]
    <2>1. CASE ReadRows(b)
      <3> PICK todo : /\ todo = {[row |-> d, key |-> domains[d].key] :
                                   d \in {x \in Adds : domains[x] # NoDomain
                                                       /\ Stale(domains[x].key)}}
                      /\ boot' = [boot EXCEPT ![b] = todo] /\ migrated' = (todo = {})
        BY <2>1 DEF ReadRows
      <3>1. \A d \in Adds : domains[d] # NoDomain => domains[d].key \in Sealed
        BY DEF RowsInv, DomTypeOK, DomainRow
      <3>2. todo \in SUBSET [row : Adds, key : Sealed]
        BY <3>1
      <3>3. UNCHANGED domains
        BY <2>1 DEF ReadRows
      <3> QED
        BY <3>2, <3>3 DEF RowsInv, DomTypeOK
    <2>2. CASE Reencrypt(b)
      <3> PICK key \in Sealed : key = [seal |-> Current, by |-> b]
        <4>1. Current \in {"plain", "k1", "k2"}
          BY DEF Current
        <4> QED
          BY <4>1 DEF Sealed
      <3> PICK t \in boot[b] :
            \/ /\ domains' = IF Held(t.row) /\ domains[t.row].key = t.key
                             THEN [domains EXCEPT ![t.row].key = key] ELSE domains
               /\ boot' = [boot EXCEPT ![b] = @ \ {t}]
               /\ migrated' = (migrated \/ boot[b] = {t})
            \/ boot' = [boot EXCEPT ![b] = {}] /\ UNCHANGED <<domains, migrated>>
        BY <2>2 DEF Reencrypt
      <3>1. boot' \in [Boots -> SUBSET [row : Adds, key : Sealed]] /\ migrated' \in BOOLEAN
        BY DEF RowsInv, DomTypeOK
      <3>2. CASE UNCHANGED domains
        BY <3>1, <3>2 DEF RowsInv, DomTypeOK
      <3>3. ASSUME NEW d, Held(d), domains' = [domains EXCEPT ![d].key = key]
            PROVE  /\ domains' \in [Adds -> DomainRow \cup {NoDomain}]
                   /\ \A e \in Adds : domains'[e] # NoDomain =>
                        /\ domains[e] # NoDomain
                        /\ domains'[e].name = domains[e].name
                        /\ domains'[e].verified = domains[e].verified
        <4> PICK x : x = [domains[d] EXCEPT !.key = key]
          OBVIOUS
        <4>1. x \in DomainRow /\ x.name = domains[d].name /\ x.verified = domains[d].verified
          BY <3>3 DEF RowsInv, DomTypeOK, DomainRow, Held
        <4>2. domains' = [domains EXCEPT ![d] = x] /\ d \in Adds /\ domains[d] # NoDomain
          BY <3>3 DEF Held
        <4> QED
          BY <4>1, <4>2 DEF RowsInv, DomTypeOK
      <3> QED
        BY <3>1, <3>2, <3>3
    <2> QED
      BY <2>1, <2>2
  <1>2. DomTypeOK' /\ EditShapes'
    BY <1>0, <1>1 DEF RowsInv, DomTypeOK, EditShapes
  <1>3. OneProof' /\ \A d \in Adds : Inserted(d)' /\ (Proved(d)' => d \in shown')
    BY <1>0, <1>1 DEF RowsInv, OneProof, Proved, Inserted
  <1>4. \A r \in Adds \cup Edits : KnowsRow(r)'
    BY <1>0, <1>1 DEF RowsInv, KnowsRow, Held
  <1> QED
    BY <1>0, <1>2, <1>3, <1>4 DEF RowsInv

(***************************************************************************)
(* The secret.                                                             *)
(***************************************************************************)
(* A row that keeps its key, or gets one under the current secret, is no   *)
(* worse off.                                                              *)
LEMMA KeysStay ==
    ASSUME SealsInv, UNCHANGED secretVars,
           \A d \in Adds : domains'[d] # NoDomain =>
             \/ domains[d] # NoDomain /\ domains'[d].key = domains[d].key
             \/ domains'[d].key.seal = Current
    PROVE  SealsInv'
  <1>1. UNCHANGED keyConfig /\ UNCHANGED migrated /\ UNCHANGED boot
    BY DEF secretVars
  <1>2. Current' = Current /\ Previous' = Previous
    BY <1>1 DEF Current, Previous
  <1> SUFFICES ASSUME NEW d \in Adds, domains'[d] # NoDomain
               PROVE  /\ Readable(domains[d].key.seal)'
                      /\ migrated => domains'[d].key.seal = Current
                      /\ \A b \in Boots : OnList(b, d)'
    BY <1>1, <1>2 DEF SealsInv
  <1>3. CASE domains[d] # NoDomain /\ domains'[d].key = domains[d].key
    BY <1>1, <1>2, <1>3 DEF SealsInv, Readable, OnList, Stale
  <1>4. CASE domains'[d].key.seal = Current
    BY <1>1, <1>2, <1>4 DEF Readable, OnList, Stale
  <1> QED
    BY <1>3, <1>4

(* A request inserts a row under the current secret, or leaves the key.    *)
LEMMA RequestsKeepKeys ==
    ASSUME RowsInv, SealsInv,
           NEW r, \/ r \in Adds /\ InsertDomain(r)
                  \/ r \in Edits /\ (UpdateVerified(r) \/ DeleteDomain(r))
    PROVE  SealsInv'
  <1>0. UNCHANGED secretVars /\ domains \in [Adds -> DomainRow \cup {NoDomain}]
    BY DEF InsertDomain, UpdateVerified, DeleteDomain, RowsInv, DomTypeOK
  <1>1. CASE r \in Adds /\ InsertDomain(r)
    <2> PICK key : key = [seal |-> Current, by |-> r]
      OBVIOUS
    <2> PICK x : x = [owner |-> edit[r].by, name |-> edit[r].name, verified |-> FALSE, key |-> key]
      OBVIOUS
    <2>1. x.key.seal = Current /\ domains' \in {domains, [domains EXCEPT ![r] = x]}
      BY <1>1 DEF InsertDomain
    <2> QED
      BY <1>0, <1>1, <2>1, KeysStay
  <1>2. CASE r \in Edits /\ UpdateVerified(r)
    <2> PICK d, answer : d = edit[r].row /\ answer = edit[r].answer
      OBVIOUS
    <2>1. CASE UNCHANGED domains
      BY <1>0, <2>1, KeysStay
    <2>2. CASE Held(d) /\ domains' = [domains EXCEPT ![d].verified = answer]
      <3> PICK x : x = [domains[d] EXCEPT !.verified = answer]
        OBVIOUS
      <3>1. x.key = domains[d].key /\ d \in Adds /\ domains[d] # NoDomain
        BY <1>0, <2>2 DEF Held, DomainRow
      <3>2. \A e \in Adds : domains'[e] = IF e = d THEN x ELSE domains[e]
        BY <1>0, <2>2
      <3> QED
        BY <1>0, <3>1, <3>2, KeysStay
    <2> QED
      BY <1>2, <2>1, <2>2 DEF UpdateVerified
  <1>3. CASE r \in Edits /\ DeleteDomain(r)
    <2>1. \A e \in Adds : domains'[e] # NoDomain => domains'[e] = domains[e]
      BY <1>0, <1>3 DEF DeleteDomain
    <2> QED
      BY <1>0, <2>1, KeysStay
  <1> QED
    BY <1>1, <1>2, <1>3

(* A new configuration still reads every key: the old secret is only       *)
(* dropped when a start has gone through all rows.                         *)
LEMMA ReconfigureKeepsKeys ==
    ASSUME RowsInv, SealsInv, Reconfigure
    PROVE  SealsInv'
  <1>1. /\ UNCHANGED domains /\ ~migrated' /\ \A b \in Boots : boot'[b] = {}
        /\ keyConfig \in Configs
        /\ keyConfig = "off" => keyConfig' = "first"
        /\ keyConfig = "first" => keyConfig' = "rotating"
        /\ keyConfig = "rotating" => keyConfig' = "second" /\ migrated
        /\ keyConfig # "second"
    BY DEF Reconfigure, RowsInv, DomTypeOK
  <1>2. ASSUME NEW d \in Adds, domains[d] # NoDomain
        PROVE  Readable(domains[d].key.seal)'
    BY <1>1, <1>2 DEF SealsInv, Readable, Current, Previous, Configs
  <1>3. \A d \in Adds, b \in Boots : OnList(b, d)'
    BY <1>1 DEF OnList
  <1> QED
    BY <1>1, <1>2, <1>3 DEF SealsInv

(* A start lists every row that is not under the current secret.           *)
LEMMA ReadRowsKeepsKeys ==
    ASSUME RowsInv, SealsInv, NEW b \in Boots, ReadRows(b)
    PROVE  SealsInv'
  <1> PICK todo : /\ todo = {[row |-> d, key |-> domains[d].key] :
                               d \in {x \in Adds : domains[x] # NoDomain
                                                   /\ Stale(domains[x].key)}}
                  /\ boot' = [boot EXCEPT ![b] = todo] /\ migrated' = (todo = {})
    BY DEF ReadRows
  <1>1. /\ UNCHANGED domains /\ UNCHANGED keyConfig /\ boot'[b] = todo
        /\ \A a \in Boots : a # b => boot'[a] = boot[a]
    BY DEF ReadRows, RowsInv, DomTypeOK
  <1>2. Current' = Current /\ Previous' = Previous
    BY <1>1 DEF Current, Previous
  <1> SUFFICES ASSUME NEW d \in Adds, domains[d] # NoDomain
               PROVE  /\ Readable(domains[d].key.seal)'
                      /\ migrated' => domains[d].key.seal = Current
                      /\ \A a \in Boots : OnList(a, d)'
    BY <1>1, <1>2 DEF SealsInv
  <1>3. Stale(domains[d].key) => [row |-> d, key |-> domains[d].key] \in todo
    OBVIOUS
  <1>4. Readable(domains[d].key.seal) /\ \A a \in Boots : OnList(a, d)
    BY DEF SealsInv
  <1>5. migrated' => domains[d].key.seal = Current
    BY <1>3, <1>4 DEF Readable, Stale
  <1>6. ASSUME NEW a \in Boots
        PROVE  OnList(a, d)'
    BY <1>1, <1>2, <1>3, <1>4 DEF OnList, Stale
  <1> QED
    BY <1>1, <1>2, <1>4, <1>5, <1>6 DEF Readable

(* It takes a row off its list only when the row is under the current      *)
(* secret, or has another key than the one that was listed.                *)
LEMMA ReencryptKeepsKeys ==
    ASSUME RowsInv, SealsInv, NEW b \in Boots, Reencrypt(b)
    PROVE  SealsInv'
  <1> PICK key : key = [seal |-> Current, by |-> b]
    OBVIOUS
  <1> PICK t \in boot[b] :
        \/ /\ domains' = IF Held(t.row) /\ domains[t.row].key = t.key
                         THEN [domains EXCEPT ![t.row].key = key] ELSE domains
           /\ boot' = [boot EXCEPT ![b] = @ \ {t}]
           /\ migrated' = (migrated \/ boot[b] = {t})
        \/ boot' = [boot EXCEPT ![b] = {}] /\ UNCHANGED <<domains, migrated>>
    BY DEF Reencrypt
  <1>0. /\ UNCHANGED keyConfig /\ domains \in [Adds -> DomainRow \cup {NoDomain}]
        /\ boot'[b] \in {{}, boot[b] \ {t}}
        /\ \A a \in Boots : a # b => boot'[a] = boot[a]
    BY DEF Reencrypt, RowsInv, DomTypeOK
  <1>1. Current' = Current /\ Previous' = Previous
    BY <1>0 DEF Current, Previous
  <1> PICK row, old : row = t.row /\ old = t.key
    OBVIOUS
  <1>2. \A d \in Adds : domains'[d] # NoDomain =>
          /\ domains[d] # NoDomain
          /\ domains'[d].key \in {domains[d].key, key}
          /\ domains'[d].key = domains[d].key /\ boot'[b] # {} =>
               ~(row = d /\ old = domains[d].key) \/ key = domains[d].key
          /\ domains'[d].key = domains[d].key /\ migrated' /\ ~migrated =>
               boot[b] = {t} /\ (~(row = d /\ old = domains[d].key) \/ key = domains[d].key)
    <2>1. CASE UNCHANGED <<domains, migrated>> /\ boot' = [boot EXCEPT ![b] = {}]
      BY <2>1 DEF RowsInv, DomTypeOK
    <2>2. CASE /\ ~(Held(row) /\ domains[row].key = old) /\ UNCHANGED domains
               /\ migrated' = (migrated \/ boot[b] = {t})
      BY <2>2 DEF Held
    <2>3. CASE /\ Held(row) /\ domains[row].key = old
               /\ domains' = [domains EXCEPT ![row].key = key]
               /\ migrated' = (migrated \/ boot[b] = {t})
      <3> PICK x : x = [domains[row] EXCEPT !.key = key]
        OBVIOUS
      <3>1. x.key = key /\ row \in Adds /\ domains[row] # NoDomain
        BY <1>0, <2>3 DEF Held, DomainRow
      <3>2. \A d \in Adds : domains'[d] = IF d = row THEN x ELSE domains[d]
        BY <1>0, <2>3
      <3> QED
        BY <2>3, <3>1, <3>2
    <2> QED
      BY <2>1, <2>2, <2>3
  <1> SUFFICES ASSUME NEW d \in Adds, domains'[d] # NoDomain
               PROVE  /\ Readable(domains[d].key.seal)'
                      /\ migrated' => domains'[d].key.seal = Current
                      /\ \A a \in Boots : OnList(a, d)'
    BY <1>1 DEF SealsInv
  <1>3. key.seal = Current
    OBVIOUS
  <1>4. CASE domains'[d].key = key
    BY <1>1, <1>3, <1>4 DEF Readable, OnList, Stale
  <1>5. CASE domains'[d].key # key
    <2>1. domains[d] # NoDomain /\ domains'[d].key = domains[d].key
      BY <1>2, <1>5
    <2>2. /\ Readable(domains[d].key.seal)
          /\ migrated => domains[d].key.seal = Current
          /\ \A a \in Boots : OnList(a, d)
      BY <2>1 DEF SealsInv
    <2>3. \A e : e = [row |-> d, key |-> domains[d].key] /\ e = t =>
            row = d /\ old = domains[d].key
      OBVIOUS
    <2>4. ASSUME NEW a \in Boots
          PROVE  OnList(a, d)'
      BY <1>0, <1>1, <1>2, <1>5, <2>1, <2>2, <2>3 DEF OnList, Stale
    <2>5. ASSUME migrated'
          PROVE  domains[d].key.seal = Current
      <3>1. CASE migrated
        BY <2>2, <3>1
      <3>2. CASE ~migrated
        <4>1. boot[b] = {t} /\ ~(row = d /\ old = domains[d].key)
          BY <1>2, <1>5, <2>1, <2>5, <3>2
        <4>2. ~Stale(domains[d].key)
          BY <2>2, <2>3, <4>1 DEF OnList
        <4> QED
          BY <2>2, <4>2 DEF Stale, Readable
      <3> QED
        BY <3>1, <3>2
    <2> QED
      BY <1>1, <2>1, <2>2, <2>4, <2>5 DEF Readable
  <1> QED
    BY <1>4, <1>5

(* Every signer is proven, for any number of accounts, requests and starts *)
(* of the API: a sender is covered by one row at most, whose name once     *)
(* published the row's key, however verifying, deleting and adding again   *)
(* interleave, and the key can be read under the configured secrets,       *)
(* however often the secret changes and starts fail midway (domains.ts:    *)
(* 258, sender-domain.ts:16, dkim-encryption.ts:84).                       *)
THEOREM SignersAreProven == DomSpec => [](DomTypeOK /\ SignerIsProven)
  <1>1. DomInit => DomInv
    <2> SUFFICES ASSUME DomInit
                 PROVE  DomInv
      OBVIOUS
    <2>1. /\ EditShape(NotStarted) /\ NotStarted.pc = "idle" /\ NotStarted.answer \in BOOLEAN
          /\ EditShape(NotMade) /\ NotMade.pc = "done" /\ NotMade.answer \in BOOLEAN
      BY DEF EditShape, NotStarted, NotMade
    <2>2. EditShapes /\ \A r \in Adds \cup Edits : edit[r].pc \in {"idle", "done"}
      BY <2>1 DEF DomInit, EditShapes
    <2>3. DomTypeOK
      BY <2>2 DEF DomInit, DomTypeOK
    <2>4. RowsInv
      BY <2>2, <2>3 DEF DomInit, RowsInv, Inserted, KnowsRow, OneProof, Proved
    <2> QED
      BY <2>4 DEF DomInit, DomInv, SealsInv
  <1>2. DomInv /\ [DomNext]_domVars => DomInv'
    <2> SUFFICES ASSUME DomInv, [DomNext]_domVars
                 PROVE  DomInv'
      OBVIOUS
    <2>0. RowsInv /\ SealsInv
      BY DEF DomInv
    <2>1. ASSUME UNCHANGED domains, UNCHANGED secretVars
          PROVE  SealsInv'
      BY <2>0, <2>1, KeysStay
    <2>2. ASSUME NEW r, \/ r \in Adds /\ FindExisting(r)
                        \/ r \in Edits /\ (ReadDomain(r) \/ Lookup(r))
          PROVE  DomInv'
      <3>1. RowsInv' /\ UNCHANGED <<domains, dns, shown, secretVars>>
        BY <2>0, <2>2, LookingKeeps
      <3>2. UNCHANGED domains /\ UNCHANGED secretVars
        BY <3>1
      <3> QED
        BY <2>1, <3>1, <3>2 DEF DomInv
    <2>3. ASSUME NEW r, \/ r \in Adds /\ InsertDomain(r)
                        \/ r \in Edits /\ (UpdateVerified(r) \/ DeleteDomain(r))
          PROVE  DomInv'
      BY <2>0, <2>3, RowWritesKeep, RequestsKeepKeys DEF DomInv
    <2>4. CASE \/ \E n \in DomainNames, d \in Adds : Publish(n, d)
               \/ \E n \in DomainNames : Unpublish(n)
      BY <2>0, <2>1, <2>4, DnsKeeps DEF DomInv
    <2>5. CASE Reconfigure
      BY <2>0, <2>5, ReconfigureKeeps, ReconfigureKeepsKeys DEF DomInv
    <2>6. ASSUME NEW b \in Boots, ReadRows(b) \/ Reencrypt(b)
          PROVE  DomInv'
      BY <2>0, <2>6, BootKeeps, ReadRowsKeepsKeys, ReencryptKeepsKeys DEF DomInv
    <2>7. CASE UNCHANGED domVars
      <3>1. /\ UNCHANGED domains /\ UNCHANGED dns /\ UNCHANGED shown /\ UNCHANGED keyConfig
            /\ UNCHANGED migrated /\ UNCHANGED boot /\ UNCHANGED edit
        BY <2>7 DEF domVars
      <3>2. UNCHANGED secretVars
        BY <3>1 DEF secretVars
      <3>3. DomTypeOK' /\ EditShapes' /\ OneProof'
        BY <2>0, <3>1 DEF RowsInv, DomTypeOK, EditShapes, OneProof, Proved
      <3>4. /\ \A d \in Adds : Inserted(d)' /\ (Proved(d)' => d \in shown')
            /\ \A r \in Adds \cup Edits : KnowsRow(r)'
        BY <2>0, <3>1 DEF RowsInv, Inserted, Proved, KnowsRow, Held
      <3>5. RowsInv'
        BY <2>0, <3>1, <3>3, <3>4 DEF RowsInv
      <3> QED
        BY <2>1, <3>1, <3>2, <3>5 DEF DomInv
    <2>8. CASE DomNext
      BY <2>2, <2>3, <2>4, <2>5, <2>6, <2>8 DEF DomNext
    <2> QED
      BY <2>7, <2>8
  <1>3. DomInv => SignerIsProven
    <2> SUFFICES ASSUME DomInv, NEW n \in DomainNames
                 PROVE  /\ Cardinality(Covering(n)) <= 1
                        /\ \A d \in Covering(n) : d \in shown /\ Readable(domains[d].key.seal)
      BY DEF SignerIsProven
    <2>1. \A d \in Covering(n) : d \in Adds /\ Proved(d)
      BY DEF Covering, Named, Proved
    <2>2. \A d \in Covering(n), e \in Covering(n) : d = e
      BY DEF Covering, Named, Proved, DomInv, RowsInv, OneProof
    <2>3. Cardinality(Covering(n)) <= 1
      <3>1. CASE Covering(n) = {}
        BY <3>1, FS_EmptySet
      <3>2. ASSUME NEW d \in Covering(n)
            PROVE  Cardinality(Covering(n)) <= 1
        <4>1. Covering(n) = {d}
          BY <2>2, <3>2
        <4>2. Cardinality({d}) = 1
          BY FS_Singleton
        <4> QED
          BY <4>1, <4>2
      <3> QED
        BY <3>1, <3>2
    <2>4. \A d \in Covering(n) : d \in shown /\ Readable(domains[d].key.seal)
      BY <2>1 DEF DomInv, RowsInv, SealsInv, Proved
    <2> QED
      BY <2>3, <2>4
  <1>4. DomInv => DomTypeOK
    BY DEF DomInv, RowsInv
  <1> QED
    BY <1>1, <1>2, <1>3, <1>4, PTL DEF DomSpec
=============================================================================
