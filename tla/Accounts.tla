----------------------------- MODULE Accounts -----------------------------
(***************************************************************************)
(* User accounts of the API: registration, the ways to sign in, session    *)
(* tokens, API keys, password changes, mailed links and the                *)
(* administrator's user routes (src/apps/api/src/routes/auth.ts,           *)
(* api-keys.ts, the user half of admin.ts, middleware/auth.ts and their    *)
(* helpers).                                                               *)
(*                                                                         *)
(* A handler awaits the database, bcrypt or Redis several times, and other *)
(* handlers run in between: each database statement is a step of its own,  *)
(* and what a handler read before is kept in its record.  A request writes *)
(* at most one row of each table, so a row is named after the request that *)
(* inserts it: a name is never used again, as with random UUIDs.           *)
(***************************************************************************)
EXTENDS Integers, FiniteSets

CONSTANTS Requests,       \* HTTP requests, each made once
          Seeds,          \* administrators that exist at the start
          Mails,          \* addresses that have no account at the start
          Passwords,      \* passwords people choose
          Old,            \* the password every seed starts with
          Production,     \* APP_MODE is "production"
          TrustUnclaimed, \* OAUTH2_ALLOW_UNVERIFIED_EMAIL
          LastSecond,     \* bound of the clock
          None

ASSUME AccountsAssumption ==
    /\ Requests \cap Seeds = {}
    /\ None \notin Requests \cup Seeds \cup Mails \cup Passwords \cup {Old}
    /\ LastSecond \in Nat
    /\ Production \in BOOLEAN /\ TrustUnclaimed \in BOOLEAN

VARIABLES now,        \* the clock, in seconds
          users,      \* table users
          sessions,   \* session tokens signed so far
          loggedOut,  \* Redis: tokens that were logged out
          keys,       \* table api_keys
          links,      \* tables password_resets and email_verifications
          sysInbox,   \* the system-notifications inbox and its owner
          retired,    \* secrets a rotation has replaced
          lastGuard,  \* requests that passed requireAdmin, and no role was
                      \* written and no user deleted since
          req         \* what each request is doing

accVars == <<now, users, sessions, loggedOut, keys, links, sysInbox, retired,
             lastGuard, req>>

Ids == Requests \cup Seeds
Names == Mails \cup Seeds     \* a seed's address is written as its name
Scopes == {"send", "read", "delete"}
User == [mail: Names, pw: Passwords \cup {Old, None}, verified: BOOLEAN,
         changed: Nat, role: {"admin", "user"}]

(* None stands for a row that is not there, and is no row itself.          *)
ASSUME NoneIsNoUser ==
    LET Field == Ids \cup Names \cup Passwords \cup {Old, None, "admin", "user"}
    IN  None \notin [mail: Field, pw: Field, verified: BOOLEAN, changed: Nat, role: Field]

Session == [user: Ids, iat: Nat, by: {"password", "sso"}]
Key == [user: Ids, secret: Ids, legacy: BOOLEAN, scope: Scopes]
Link == [kind: {"reset", "verify"}, user: Ids,
         state: {"open", "used"}, mailed: BOOLEAN]
Inbox == [id: Ids, owner: Ids]
Idle == [pc |-> "idle", op |-> "none", uid |-> None, arg |-> None,
         row |-> None, seen |-> {}, at |-> 0, ok |-> FALSE]

Exists(u) == u \in Ids /\ users[u] # None
Owner(m) == {u \in Ids : users[u] # None /\ users[u].mail = m}
Admins == {u \in Ids : users[u] # None /\ users[u].role = "admin"}
KeysOf(u) == {k \in Ids : keys[k] # None /\ keys[k].user = u}

AccInit ==
    /\ now = 1
    /\ users = [i \in Ids |-> IF i \in Seeds
                              THEN [mail |-> i, pw |-> Old, verified |-> TRUE,
                                    changed |-> 0, role |-> "admin"]
                              ELSE None]
    /\ sessions = [i \in Ids |-> IF i \in Seeds
                                 THEN [user |-> i, iat |-> 1, by |-> "password"]
                                 ELSE None]
    /\ loggedOut = {}
    /\ \E a \in Seeds :
         /\ keys = [i \in Ids |-> IF i = a THEN [user |-> i, secret |-> i, legacy |-> TRUE,
                                                 scope |-> "send"]
                                  ELSE None]
         /\ links = [i \in Ids |-> IF i = a THEN [kind |-> "reset", user |-> i,
                                                  state |-> "open", mailed |-> TRUE]
                                   ELSE None]
    /\ sysInbox = None
    /\ retired = {}
    /\ lastGuard = {}
    /\ req = [r \in Requests |-> Idle]

Goto(r, pc) == req' = [req EXCEPT ![r].pc = pc]
Reply(r, ok) == req' = [req EXCEPT ![r] = [Idle EXCEPT !.pc = "done", !.op = req[r].op,
                                                       !.seen = req[r].seen, !.ok = ok]]
Refuse(r) == req[r] = Idle /\ req' = [req EXCEPT ![r].pc = "done"]
Begin(r, op, pc, uid, arg) ==
    /\ req[r] = Idle
    /\ req' = [req EXCEPT ![r] = [Idle EXCEPT !.pc = pc, !.op = op, !.uid = uid,
                                              !.arg = arg]]
tables == <<users, sessions, loggedOut, keys, links, sysInbox, retired, lastGuard>>

Tick == now < LastSecond /\ now' = now + 1 /\ UNCHANGED <<tables, req>>

(* A statement fails or the process ends: the handler goes no further.     *)
Abort(r) == req[r].pc \notin {"idle", "done"} /\ Reply(r, FALSE)
            /\ UNCHANGED <<now, tables>>

(***************************************************************************)
(* Session tokens.                                                         *)
(***************************************************************************)
SignToken(r, u, by) ==
    sessions' = [sessions EXCEPT ![r] = [user |-> u, iat |-> now, by |-> by]]

Sign(r) ==
    /\ req[r].pc = "sign"
    /\ SignToken(r, req[r].uid, IF req[r].op = "sso" THEN "sso" ELSE "password")
    /\ Reply(r, TRUE)
    /\ UNCHANGED <<now, users, loggedOut, keys, links, sysInbox, retired, lastGuard>>

IsSessionActive(s) ==
    /\ Exists(sessions[s].user)
    /\ sessions[s].iat >= users[sessions[s].user].changed
    /\ s \notin loggedOut

Active == {s \in Ids : sessions[s] # None /\ IsSessionActive(s)}

(***************************************************************************)
(* The system's own mail: the inbox it is sent from is created on first    *)
(* use, and whatever goes wrong is only logged.                            *)
(***************************************************************************)
AfterMail(r) == IF req[r].op = "register" THEN Goto(r, "sign") ELSE Reply(r, TRUE)

FindInbox(r) ==
    /\ req[r].pc = "inbox"
    /\ \/ sysInbox # None /\ req' = [req EXCEPT ![r] = [@ EXCEPT !.pc = "send", !.row = sysInbox.id]]
       \/ sysInbox = None /\ Admins # {} /\ Goto(r, "createInbox")
       \/ sysInbox = None /\ Admins = {} /\ AfterMail(r)
    /\ UNCHANGED <<now, tables>>

CreateInbox(r) ==
    /\ req[r].pc = "createInbox"
    /\ \/ /\ sysInbox = None
          /\ \E a \in Admins : sysInbox' = [id |-> r, owner |-> a]
          /\ req' = [req EXCEPT ![r] = [@ EXCEPT !.pc = "send", !.row = r]]
       \/ AfterMail(r) /\ UNCHANGED sysInbox
    /\ UNCHANGED <<now, users, sessions, loggedOut, keys, links, retired, lastGuard>>

SendSystemEmail(r) ==
    /\ req[r].pc = "send"
    /\ \/ /\ sysInbox # None /\ sysInbox.id = req[r].row /\ links[r] # None
          /\ links' = [links EXCEPT ![r].mailed = TRUE]
       \/ UNCHANGED links
    /\ AfterMail(r)
    /\ UNCHANGED <<now, users, sessions, loggedOut, keys, sysInbox, retired, lastGuard>>

InsertLink(r) ==
    /\ req[r].pc \in {"reset", "verify"}
    /\ \/ /\ Exists(req[r].uid)
          /\ links' = [links EXCEPT ![r] = [kind |-> req[r].pc, user |-> req[r].uid,
                                            state |-> "open", mailed |-> FALSE]]
          /\ Goto(r, "inbox")
       \/ ~Exists(req[r].uid) /\ Reply(r, FALSE) /\ UNCHANGED links
    /\ UNCHANGED <<now, users, sessions, loggedOut, keys, sysInbox, retired, lastGuard>>

ForgotPassword(r, m) ==
    /\ \/ \E u \in Owner(m) : Begin(r, "forgot", "reset", u, None)
       \/ Owner(m) = {} /\ Refuse(r)
    /\ UNCHANGED <<now, tables>>

(***************************************************************************)
(* New accounts.                                                           *)
(***************************************************************************)
Register(r, m, p) ==
    /\ \/ Owner(m) = {} /\ Begin(r, "register", "insertUser", m, p)
       \/ Owner(m) # {} /\ Refuse(r)
    /\ UNCHANGED <<now, tables>>

NewUser(m, p, verified) ==
    [mail |-> m, pw |-> p, verified |-> verified, changed |-> 0, role |-> "user"]

(* users.email is unique: the loser of two inserts answers 500.            *)
InsertUser(r) ==
    /\ req[r].pc = "insertUser"
    /\ \/ /\ Owner(req[r].uid) = {}
          /\ \E role \in IF req[r].op = "adminCreate" THEN {"admin", "user"} ELSE {"user"} :
               users' = [users EXCEPT ![r] =
                   [NewUser(req[r].uid, req[r].arg, req[r].op = "adminCreate" \/ ~Production)
                        EXCEPT !.role = role]]
          /\ IF req[r].op = "adminCreate" THEN Reply(r, TRUE)
             ELSE req' = [req EXCEPT ![r] = [@ EXCEPT !.uid = r,
                                                     !.pc = IF Production THEN "verify" ELSE "sign"]]
       \/ Owner(req[r].uid) # {} /\ Reply(r, FALSE) /\ UNCHANGED users
    /\ UNCHANGED <<now, sessions, loggedOut, keys, links, sysInbox, retired, lastGuard>>

(***************************************************************************)
(* Signing in.  The password is compared with the hash read before.        *)
(***************************************************************************)
Login(r, m, p) ==
    /\ \/ \E u \in Owner(m) : users[u].pw = p /\ Begin(r, "login", "sign", u, p)
       \/ (\A u \in Owner(m) : users[u].pw # p) /\ Refuse(r)
    /\ UNCHANGED <<now, tables>>

EmailClaimTrusted(claim) == claim = "true" \/ (claim = "absent" /\ TrustUnclaimed)

(* Who the directory or the provider vouches for; None when it refuses, or *)
(* matches more than one entry, or the claim is not trusted.               *)
LdapLogin(r, m) ==
    /\ \E matches \in 0..2, bound \in BOOLEAN :
         IF matches = 1 /\ bound THEN Begin(r, "sso", "ssoFind", None, m) ELSE Refuse(r)
    /\ UNCHANGED <<now, tables>>

OAuthCallback(r, m) ==
    /\ \E exchanged \in BOOLEAN, claim \in {"true", "false", "absent"} :
         IF exchanged /\ EmailClaimTrusted(claim) THEN Begin(r, "sso", "ssoFind", None, m)
         ELSE Refuse(r)
    /\ UNCHANGED <<now, tables>>

(* A bearer token of the provider is resolved the same way on every        *)
(* request, and no session token is signed for it.                         *)
VerifyOAuth2Token(r, m) ==
    /\ \E claim \in {"true", "false", "absent"} :
         IF EmailClaimTrusted(claim) THEN Begin(r, "bearer", "ssoFind", None, m) ELSE Refuse(r)
    /\ UNCHANGED <<now, tables>>

(* Mutant: the row found after the insert is trusted without a check.      *)
ResolveSsoUserOnce(r) ==
    LET found == Owner(req[r].arg) IN
    /\ req[r].pc \in {"ssoFind", "ssoFindAgain"}
    /\ \/ /\ found = {}
          /\ IF req[r].pc = "ssoFind" THEN Goto(r, "ssoInsert") ELSE Reply(r, FALSE)
       \/ \E u \in found :
            IF req[r].pc = "ssoFind" /\ ~users[u].verified THEN Reply(r, FALSE)
            ELSE IF req[r].op = "bearer" THEN Reply(r, TRUE)
            ELSE req' = [req EXCEPT ![r] = [@ EXCEPT !.pc = "sign", !.uid = u]]
    /\ UNCHANGED <<now, tables>>

ResolveSsoUser(r) ==
    LET found == Owner(req[r].arg) IN
    /\ req[r].pc \in {"ssoFind", "ssoFindAgain"}
    /\ \/ /\ found = {}
          /\ IF req[r].pc = "ssoFind" THEN Goto(r, "ssoInsert") ELSE Reply(r, FALSE)
       \/ \E u \in found :
            IF ~users[u].verified THEN Reply(r, FALSE)
            ELSE IF req[r].op = "bearer" THEN Reply(r, TRUE)
            ELSE req' = [req EXCEPT ![r] = [@ EXCEPT !.pc = "sign", !.uid = u]]
    /\ UNCHANGED <<now, tables>>

SsoInsert(r) ==
    /\ req[r].pc = "ssoInsert"
    /\ users' = IF Owner(req[r].arg) = {}
                THEN [users EXCEPT ![r] = NewUser(req[r].arg, None, TRUE)]
                ELSE users
    /\ Goto(r, "ssoFindAgain")
    /\ UNCHANGED <<now, sessions, loggedOut, keys, links, sysInbox, retired, lastGuard>>

(***************************************************************************)
(* Passwords.  A change ends the sessions of earlier seconds and deletes   *)
(* the user's keys, in statements of their own.  It is dated by the        *)
(* handler's clock, before the statement that writes the date runs.        *)
(***************************************************************************)
(* preHandler authGuard: the request goes on as the session's user.        *)
AuthGuard(r, s, op, pc, arg) ==
    /\ s \in Active
    /\ Begin(r, op, pc, sessions[s].user, arg)

ChangePassword(r, s, p) ==
    AuthGuard(r, s, "change", "readHash", p) /\ UNCHANGED <<now, tables>>

CompareHash(r) ==
    /\ req[r].pc = "readHash"
    /\ \/ Exists(req[r].uid) /\ users[req[r].uid].pw # None /\ Goto(r, "datePassword")
       \/ Reply(r, FALSE)
    /\ UNCHANGED <<now, tables>>

DateChange(r) ==
    /\ req[r].pc = "datePassword"
    /\ req' = [req EXCEPT ![r] = [@ EXCEPT !.pc = "setPassword", !.at = now]]
    /\ UNCHANGED <<now, tables>>

(* Mutant: a password set by an administrator clears the date.             *)
SetPasswordUndated(r) ==
    LET u == req[r].uid IN
    /\ req[r].pc = "setPassword"
    /\ \/ /\ Exists(u)
          /\ users' = [users EXCEPT ![u].pw = req[r].arg,
                           ![u].changed = IF req[r].op = "setpw" THEN 0 ELSE req[r].at]
          /\ req' = [req EXCEPT ![r] = [@ EXCEPT !.pc = "deleteKeys", !.seen = KeysOf(u)]]
       \/ /\ ~Exists(u)
          /\ IF req[r].op = "setpw" THEN Reply(r, FALSE) ELSE Goto(r, "deleteKeys")
          /\ UNCHANGED users
    /\ UNCHANGED <<now, sessions, loggedOut, keys, links, sysInbox, retired, lastGuard>>

SetPassword(r) ==
    LET u == req[r].uid IN
    /\ req[r].pc = "setPassword"
    /\ \/ /\ Exists(u)
          /\ users' = [users EXCEPT ![u].pw = req[r].arg, ![u].changed = req[r].at]
          /\ req' = [req EXCEPT ![r] = [@ EXCEPT !.pc = "deleteKeys", !.seen = KeysOf(u)]]
       \/ /\ ~Exists(u)
          /\ IF req[r].op = "setpw" THEN Reply(r, FALSE) ELSE Goto(r, "deleteKeys")
          /\ UNCHANGED users
    /\ UNCHANGED <<now, sessions, loggedOut, keys, links, sysInbox, retired, lastGuard>>

(* Mutant: setting a password deletes the keys of the administrator who    *)
(* does it.                                                                *)
DeleteKeysOfCaller(r) ==
    LET u == IF req[r].op = "setpw" THEN req[r].row ELSE req[r].uid IN
    /\ req[r].pc = "deleteKeys"
    /\ keys' = [k \in Ids |-> IF k \in KeysOf(u) THEN None ELSE keys[k]]
    /\ IF req[r].op = "setpw" THEN Reply(r, TRUE)
       ELSE Goto(r, IF req[r].op = "reset" THEN "voidLinks" ELSE "sign")
    /\ UNCHANGED <<now, users, sessions, loggedOut, links, sysInbox, retired, lastGuard>>

DeleteKeys(r) ==
    /\ req[r].pc = "deleteKeys"
    /\ keys' = [k \in Ids |-> IF k \in KeysOf(req[r].uid) THEN None ELSE keys[k]]
    /\ IF req[r].op = "setpw" THEN Reply(r, TRUE)
       ELSE Goto(r, IF req[r].op = "reset" THEN "voidLinks" ELSE "sign")
    /\ UNCHANGED <<now, users, sessions, loggedOut, links, sysInbox, retired, lastGuard>>

(* The claim is one conditional update, so one of two uses gets it.  Only  *)
(* a link that was mailed can be presented.                                *)
ClaimLink(r, l, kind, pc, arg) ==
    /\ links[l] # None /\ links[l].mailed /\ links[l].kind = kind
    /\ \/ /\ links[l].state = "open"
          /\ links' = [links EXCEPT ![l].state = "used"]
          /\ Begin(r, kind, pc, links[l].user, arg)
       \/ Refuse(r) /\ UNCHANGED links   \* used before, or expired
    /\ UNCHANGED <<now, users, sessions, loggedOut, keys, sysInbox, retired, lastGuard>>

ResetPassword(r, l, p) == ClaimLink(r, l, "reset", "datePassword", p)

VoidLinks(r) ==
    /\ req[r].pc = "voidLinks"
    /\ links' = [l \in Ids |->
                   IF /\ links[l] # None /\ links[l].kind = "reset"
                      /\ links[l].user = req[r].uid /\ links[l].state # "used"
                   THEN [links[l] EXCEPT !.state = "used"] ELSE links[l]]
    /\ Reply(r, TRUE)
    /\ UNCHANGED <<now, users, sessions, loggedOut, keys, sysInbox, retired, lastGuard>>

VerifyEmail(r, l) == ClaimLink(r, l, "verify", "setVerified", None)

SetVerified(r) ==
    /\ req[r].pc = "setVerified"
    /\ users' = IF Exists(req[r].uid) THEN [users EXCEPT ![req[r].uid].verified = TRUE]
                ELSE users
    /\ Reply(r, TRUE)
    /\ UNCHANGED <<now, sessions, loggedOut, keys, links, sysInbox, retired, lastGuard>>

ResendVerification(r, s) ==
    AuthGuard(r, s, "resend", "readVerified", None) /\ UNCHANGED <<now, tables>>

ReadVerified(r) ==
    /\ req[r].pc = "readVerified"
    /\ \/ ~Exists(req[r].uid) /\ Reply(r, FALSE)
       \/ Exists(req[r].uid) /\ users[req[r].uid].verified /\ Reply(r, TRUE)
       \/ Exists(req[r].uid) /\ ~users[req[r].uid].verified /\ Goto(r, "verify")
    /\ UNCHANGED <<now, tables>>

Logout(r, s) ==
    /\ AuthGuard(r, s, "logout", "revoke", s)
    /\ UNCHANGED <<now, tables>>

(* Mutant: only the token logged out last is kept.                         *)
RevokeTokenOnly(r) ==
    /\ req[r].pc = "revoke"
    /\ loggedOut' = {req[r].arg}
    /\ Reply(r, TRUE)
    /\ UNCHANGED <<now, users, sessions, keys, links, sysInbox, retired, lastGuard>>

RevokeToken(r) ==
    /\ req[r].pc = "revoke"
    /\ loggedOut' = loggedOut \cup {req[r].arg}
    /\ Reply(r, TRUE)
    /\ UNCHANGED <<now, users, sessions, keys, links, sysInbox, retired, lastGuard>>

(***************************************************************************)
(* API keys.  Every write names the key and its owner.                     *)
(***************************************************************************)
KeyRequest(r, s, op, k) ==
    AuthGuard(r, s, op, op, k) /\ UNCHANGED <<now, tables>>

OwnKey(r) == req[r].arg \in KeysOf(req[r].uid)

CreateKey(r) ==
    /\ req[r].pc = "createKey"
    /\ \/ /\ Exists(req[r].uid)
          /\ \E scope \in Scopes :
               keys' = [keys EXCEPT ![r] = [user |-> req[r].uid, secret |-> r,
                                            legacy |-> FALSE, scope |-> scope]]
          /\ Reply(r, TRUE)
       \/ ~Exists(req[r].uid) /\ Reply(r, FALSE) /\ UNCHANGED keys
    /\ UNCHANGED <<now, users, sessions, loggedOut, links, sysInbox, retired, lastGuard>>

EditKey(r) ==
    /\ req[r].pc = "editKey"
    /\ \/ OwnKey(r) /\ \E scope \in Scopes : keys' = [keys EXCEPT ![req[r].arg].scope = scope]
       \/ ~OwnKey(r) /\ UNCHANGED keys
    /\ Reply(r, OwnKey(r))
    /\ UNCHANGED <<now, users, sessions, loggedOut, links, sysInbox, retired, lastGuard>>

RotateKey(r) ==
    /\ req[r].pc = "rotateKey"
    /\ \/ /\ OwnKey(r)
          /\ keys' = [keys EXCEPT ![req[r].arg].secret = r, ![req[r].arg].legacy = FALSE]
          /\ retired' = retired \cup {keys[req[r].arg].secret}
       \/ ~OwnKey(r) /\ UNCHANGED <<keys, retired>>
    /\ Reply(r, OwnKey(r))
    /\ UNCHANGED <<now, users, sessions, loggedOut, links, sysInbox, lastGuard>>

DeleteKey(r) ==
    /\ req[r].pc = "deleteKey"
    /\ keys' = IF OwnKey(r) THEN [keys EXCEPT ![req[r].arg] = None] ELSE keys
    /\ Reply(r, OwnKey(r))
    /\ UNCHANGED <<now, users, sessions, loggedOut, links, sysInbox, retired, lastGuard>>

(* The scope a route asks of a key; None where keys are not accepted.      *)
RequiredApiKeyScope(route) ==
    IF route.area \in {"keys", "auth", "admin"} THEN None
    ELSE IF route.method \in {"GET", "HEAD"} THEN "read"
    ELSE IF route.method = "DELETE" THEN "delete"
    ELSE IF route.method = "POST" /\ route.area \in {"v1", "forward"} THEN "send"
    ELSE None

Routes == [area: {"keys", "v1", "inboxes"}, method: {"GET", "POST", "DELETE"}]

(* A request with an API key: by digest, and only then by the old bcrypt   *)
(* hashes, which are replaced by the digest of the secret presented.       *)
UseKey(r, secret) ==
    LET named(legacy) == {k \in Ids : /\ keys[k] # None /\ keys[k].secret = secret
                                      /\ keys[k].legacy = legacy}
        found == IF named(FALSE) # {} THEN named(FALSE) ELSE named(TRUE)
    IN  /\ \/ /\ req[r] = Idle
              /\ \E k \in found : req' = [req EXCEPT ![r] =
                   [Idle EXCEPT !.pc = IF keys[k].legacy THEN "upgradeKey" ELSE "useKey",
                                !.op = "use", !.uid = keys[k].user, !.arg = k,
                                !.row = secret, !.seen = {keys[k].scope}]]
           \/ found = {} /\ Refuse(r)
        /\ UNCHANGED <<now, tables>>

UpgradeKey(r) ==
    LET k == req[r].arg IN
    /\ req[r].pc = "upgradeKey"
    /\ keys' = IF keys[k] # None
               THEN [keys EXCEPT ![k].secret = req[r].row, ![k].legacy = FALSE]
               ELSE keys
    /\ Goto(r, "useKey")
    /\ UNCHANGED <<now, users, sessions, loggedOut, links, sysInbox, retired, lastGuard>>

(* The row read before decides; it may have expired by now.                *)
AcceptKey(r) ==
    /\ req[r].pc = "useKey"
    /\ \E route \in Routes, expired \in BOOLEAN :
         Reply(r, ~expired /\ RequiredApiKeyScope(route) \in req[r].seen)
    /\ UNCHANGED <<now, tables>>

(***************************************************************************)
(* The administrator's user routes.  The role is read by requireAdmin, the *)
(* write follows in a later statement.                                     *)
(***************************************************************************)
RequireAdmin(r, s, op, pc, uid, arg) ==
    /\ s \in Active
    /\ \/ /\ sessions[s].user \in Admins
          /\ req[r] = Idle
          /\ req' = [req EXCEPT ![r] = [Idle EXCEPT !.pc = pc, !.op = op, !.uid = uid,
                                           !.arg = arg, !.row = sessions[s].user]]
          /\ lastGuard' = lastGuard \cup {r}
       \/ /\ sessions[s].user \notin Admins
          /\ Refuse(r) /\ UNCHANGED lastGuard
    /\ UNCHANGED <<now, users, sessions, loggedOut, keys, links, sysInbox, retired>>

AdminCreateUser(r, s, m, p) == RequireAdmin(r, s, "adminCreate", "checkMail", m, p)

CheckMail(r) ==
    /\ req[r].pc = "checkMail"
    /\ IF Owner(req[r].uid) = {} THEN Goto(r, "insertUser") ELSE Reply(r, FALSE)
    /\ UNCHANGED <<now, tables>>

(* Nobody changes their own role to user, or deletes themselves.           *)
AdminUpdateUser(r, s, u, role) ==
    /\ s \in Active /\ (u # sessions[s].user \/ role = "admin")
    /\ RequireAdmin(r, s, "update", "setRole", u, role)
AdminSetPassword(r, s, u, p) == RequireAdmin(r, s, "setpw", "datePassword", u, p)
(* Mutant: administrators may delete themselves.                           *)
AdminDeleteAnyUser(r, s, u) == s \in Active /\ RequireAdmin(r, s, "delete", "deleteUser", u, None)

AdminDeleteUser(r, s, u) ==
    /\ s \in Active /\ u # sessions[s].user
    /\ RequireAdmin(r, s, "delete", "deleteUser", u, None)

SetRole(r) ==
    LET u == req[r].uid IN
    /\ req[r].pc = "setRole"
    /\ users' = IF Exists(u) THEN [users EXCEPT ![u].role = req[r].arg] ELSE users
    /\ Reply(r, Exists(u))
    /\ lastGuard' = {}
    /\ UNCHANGED <<now, sessions, loggedOut, keys, links, sysInbox, retired>>

(* Keys, links and inboxes of a user go with the user.                     *)
DeleteUser(r) ==
    LET u == req[r].uid IN
    /\ req[r].pc = "deleteUser"
    /\ users' = [users EXCEPT ![u] = None]
    /\ keys' = [k \in Ids |-> IF k \in KeysOf(u) THEN None ELSE keys[k]]
    /\ links' = [l \in Ids |-> IF links[l] # None /\ links[l].user = u
                               THEN None ELSE links[l]]
    /\ sysInbox' = IF sysInbox # None /\ sysInbox.owner = u THEN None ELSE sysInbox
    /\ Reply(r, Exists(u))
    /\ lastGuard' = {}
    /\ UNCHANGED <<now, sessions, loggedOut, retired>>

Start(r) ==
    /\ req[r] = Idle
    /\ \/ \E m \in Names : ForgotPassword(r, m) \/ LdapLogin(r, m) \/ OAuthCallback(r, m)
                           \/ VerifyOAuth2Token(r, m)
       \/ \E m \in Names, p \in Passwords : Register(r, m, p)
       \/ \E m \in Names, p \in Passwords \cup {Old} : Login(r, m, p)
       \/ \E s \in Ids, p \in Passwords : ChangePassword(r, s, p)
       \/ \E s \in Ids : ResendVerification(r, s) \/ Logout(r, s)
       \/ \E s \in Ids : KeyRequest(r, s, "createKey", None)
       \/ \E s \in Ids, op \in {"editKey", "rotateKey", "deleteKey"}, k \in Ids :
            keys[k] # None /\ KeyRequest(r, s, op, k)
       \/ \E k \in Ids : UseKey(r, k)
       \/ \E l \in Ids : VerifyEmail(r, l) \/ \E p \in Passwords : ResetPassword(r, l, p)
       \/ \E s \in Ids, m \in Mails, p \in Passwords : AdminCreateUser(r, s, m, p)
       \/ \E s \in Ids, u \in Ids :
            /\ users[u] # None
            /\ \/ \E role \in {"admin", "user"} : AdminUpdateUser(r, s, u, role)
               \/ \E p \in Passwords : AdminSetPassword(r, s, u, p)
               \/ AdminDeleteUser(r, s, u)

Work(r) ==
    \/ Sign(r) \/ FindInbox(r) \/ CreateInbox(r) \/ SendSystemEmail(r) \/ InsertLink(r)
    \/ InsertUser(r) \/ ResolveSsoUser(r) \/ SsoInsert(r)
    \/ CompareHash(r) \/ DateChange(r) \/ SetPassword(r) \/ DeleteKeys(r) \/ VoidLinks(r)
    \/ SetVerified(r) \/ ReadVerified(r) \/ RevokeToken(r) \/ CreateKey(r) \/ EditKey(r) \/ RotateKey(r)
    \/ DeleteKey(r) \/ UpgradeKey(r) \/ AcceptKey(r) \/ CheckMail(r) \/ SetRole(r)
    \/ DeleteUser(r)

AccNext == \/ Tick
           \/ \E r \in Requests : Start(r) \/ Work(r) \/ Abort(r)

AccSpec == AccInit /\ [][AccNext]_accVars

(***************************************************************************)
(* Properties.                                                             *)
(***************************************************************************)
Pcs == {"idle", "done", "sign", "inbox", "createInbox", "send", "reset", "verify",
        "insertUser", "ssoFind", "ssoInsert", "ssoFindAgain", "readHash", "datePassword",
        "setPassword", "deleteKeys", "voidLinks", "setVerified", "readVerified", "revoke", "createKey",
        "editKey", "rotateKey", "deleteKey", "upgradeKey", "useKey", "checkMail",
        "setRole", "deleteUser"}

(* The state of the account tables and of the requests is well typed.      *)
AccTypeOK ==
    /\ now \in Nat
    /\ users \in [Ids -> User \cup {None}]
    /\ sessions \in [Ids -> Session \cup {None}]
    /\ loggedOut \subseteq Ids
    /\ keys \in [Ids -> Key \cup {None}]
    /\ links \in [Ids -> Link \cup {None}]
    /\ sysInbox \in Inbox \cup {None}
    /\ retired \subseteq Ids
    /\ lastGuard \subseteq Requests
    /\ \A r \in Requests : req[r].pc \in Pcs /\ req[r].ok \in BOOLEAN

(* A session token that stopped being honoured (its user deleted or given  *)
(* a new password, or the token logged out) is honoured again in one case, *)
(* no matter who registers or signs in afterwards: two password changes of *)
(* one user overlap, the one dated earlier is written last, and the user's *)
(* date goes back (middleware/auth.ts:75,84, routes/auth.ts:685,808).      *)
DeadSessionsStayDead ==
    [][\A s \in Ids : sessions[s] # None /\ s \notin Active /\ s \in Active'
           => \E r \in Requests : /\ req[r].pc = "setPassword" /\ req[r].uid = sessions[s].user
                                  /\ req[r].at < users[req[r].uid].changed]_accVars

(* Nobody gets into an account through a provider unless the account has   *)
(* proved its address, even when someone registers the address between the *)
(* look-ups of the sign-in (lib/sso-user.ts:22).                           *)
SsoSignsProven ==
    \A s \in Ids : (/\ sessions[s] # None /\ sessions[s].by = "sso"
                    /\ Exists(sessions[s].user)) => users[sessions[s].user].verified

(* Keys end with the password: once a request that set a password has      *)
(* answered, no key the user had when it was written is left               *)
(* (routes/auth.ts:690,812, admin.ts:275).                                 *)
KeysEndWithPassword ==
    \A r \in Requests : req[r].op \in {"change", "reset", "setpw"} /\ req[r].ok
        => \A k \in req[r].seen : keys[k] = None

(* Administrators cannot lock everyone out one request at a time: a role   *)
(* change or deletion leaves an administrator unless another one was       *)
(* written after its own check (admin.ts:223,282).                         *)
LastAdminNeedsRace ==
    [][\A r \in lastGuard : req[r].pc \in {"setRole", "deleteUser"} /\ req'[r].pc = "done"
           => Admins' # {}]_accVars

(* "The old secret stops working immediately" (api-keys.ts:160): no key    *)
(* has a secret that a rotation replaced.                                  *)
RotatedSecretStops == \A k \in Ids : keys[k] # None => keys[k].secret \notin retired
=============================================================================
