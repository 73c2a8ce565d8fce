--------------------------- MODULE SenderDomains ---------------------------
(***************************************************************************)
(* The sender domains of accounts: adding, verifying and deleting them     *)
(* (src/apps/api/src/routes/domains.ts), the verified domain that covers a *)
(* sender (packages/db/src/sender-domain.ts), and the encryption of their  *)
(* private keys, which is repeated on every start of the API               *)
(* (packages/db/src/secret-box.ts, apps/api/src/lib/dkim-encryption.ts).   *)
(* A key pair is generated with its row and never replaced: both are named *)
(* after the request that inserts the row.                                 *)
(***************************************************************************)
EXTENDS Integers, FiniteSets

CONSTANTS Owners,     \* accounts
          Staff,      \* those that are administrators
          Top, Sub,   \* a domain name and a name below it
          Adds,       \* requests that add a domain
          Edits,      \* requests that verify or delete one
          Boots,      \* API processes that start with a configuration
          NoDomain

ASSUME SenderDomainsAssumption ==
    /\ Staff \subseteq Owners /\ Top # Sub
    /\ NoDomain \notin Owners \cup Adds /\ Adds \cap Edits = {}
    /\ Adds \cap Boots = {}

VARIABLES domains,   \* table domains, by the request that added the row
          dns,       \* the keys a name's DKIM record publishes now
          shown,     \* history: the keys ever published at their name
          keyConfig, \* DKIM_ENCRYPTION_KEY and DKIM_ENCRYPTION_KEY_PREVIOUS
          migrated,  \* a start with this configuration went through all rows
          boot,      \* the rows each starting process has still to look at
          edit       \* what each request is doing

domVars == <<domains, dns, shown, keyConfig, migrated, boot, edit>>
secretVars == <<keyConfig, migrated, boot>>

DomainNames == {Top, Sub}
Configs == {"off", "first", "rotating", "second"}
Current == CASE keyConfig = "off" -> "plain" [] keyConfig = "first" -> "k1" [] OTHER -> "k2"
Previous == IF keyConfig = "rotating" THEN {"k1"} ELSE {}
Readable(seal) == seal \in {"plain", Current} \cup Previous

(* A stored key: what it is encrypted under, and by whom (the random IV    *)
(* makes every encryption a value of its own).                             *)
Sealed == [seal : {"plain", "k1", "k2"}, by : Adds \cup Boots]
DomainRow == [owner : Owners, name : DomainNames, verified : BOOLEAN, key : Sealed]
NotStarted == [pc |-> "idle", by |-> NoDomain, name |-> NoDomain, row |-> NoDomain,
               saw |-> FALSE, answer |-> FALSE]
NotMade == [NotStarted EXCEPT !.pc = "done"]

Held(d) == d \in Adds /\ domains[d] # NoDomain
Named(n) == {d \in Adds : domains[d] # NoDomain /\ domains[d].name = n}

(* findVerifiedSenderDomain: the nearest verified name covers the sender.  *)
Covering(n) ==
    LET proven(m) == {d \in Named(m) : domains[d].verified}
    IN  IF proven(n) # {} THEN proven(n) ELSE proven(Top)

DomInit ==
    /\ domains = [d \in Adds |-> NoDomain]
    /\ dns = [n \in DomainNames |-> {}]
    /\ shown = {}
    /\ keyConfig \in Configs
    /\ migrated = FALSE
    /\ boot = [b \in Boots |-> {}]
    /\ edit \in [Adds \cup Edits -> {NotStarted, NotMade}]

Enter(r, pc, u, n, d) ==
    /\ edit[r] = NotStarted
    /\ edit' = [edit EXCEPT ![r] = [NotStarted EXCEPT !.pc = pc, !.by = u, !.name = n, !.row = d]]
Leave(r) == edit' = [edit EXCEPT ![r] = NotMade]

(***************************************************************************)
(* Adding: a repeat, or a domain somebody has proved, is refused; the key  *)
(* pair is generated; the insert loses to one of the same account.         *)
(***************************************************************************)
Taken(u, n) == \E d \in Named(n) : domains[d].owner = u \/ domains[d].verified

FindExisting(r) ==
    /\ \E u \in Owners, n \in DomainNames : ~Taken(u, n) /\ Enter(r, "insert", u, n, NoDomain)
    /\ UNCHANGED <<domains, dns, shown, secretVars>>

InsertDomain(r) ==
    LET u == edit[r].by  n == edit[r].name
        free == \A d \in Named(n) : domains[d].owner # u IN
    /\ edit[r].pc = "insert"
    /\ domains' = IF free
                  THEN [domains EXCEPT ![r] =
                          [owner |-> u, name |-> n, verified |-> FALSE,
                           key |-> [seal |-> Current, by |-> r]]]
                  ELSE domains
    /\ Leave(r)
    /\ UNCHANGED <<dns, shown, secretVars>>

(***************************************************************************)
(* Verifying: the row, the DNS answer, and an update of the row by its id. *)
(***************************************************************************)
MayEdit(u, d) == Held(d) /\ (domains[d].owner = u \/ u \in Staff)

ReadDomain(r) ==
    /\ \E u \in Owners, d \in Adds :
         /\ MayEdit(u, d)
         /\ \/ /\ edit[r] = NotStarted
               /\ edit' = [edit EXCEPT ![r] =
                     [NotStarted EXCEPT !.pc = "lookup", !.by = u, !.row = d,
                                        !.name = domains[d].name, !.saw = domains[d].verified]]
            \/ Enter(r, "delete", u, NoDomain, d)
    /\ UNCHANGED <<domains, dns, shown, secretVars>>

(* A resolver failure leaves the row as it is.                             *)
Lookup(r) ==
    LET matches == edit[r].row \in dns[edit[r].name] IN
    /\ edit[r].pc = "lookup"
    /\ \/ Leave(r)
       \/ matches = edit[r].saw /\ Leave(r)
       \/ /\ matches # edit[r].saw
          /\ edit' = [edit EXCEPT ![r].pc = "update", ![r].answer = matches]
    /\ UNCHANGED <<domains, dns, shown, secretVars>>

(* Mutant: the row is updated by owner and name, whichever row that is now. *)
UpdateVerifiedByName(r) ==
    LET mine == {d \in Named(edit[r].name) : domains[d].owner = edit[r].by}
        other == /\ edit[r].answer
                 /\ \E x \in Named(edit[r].name) \ mine : domains[x].verified IN
    /\ edit[r].pc = "update"
    /\ IF mine # {} /\ other THEN Leave(r) /\ UNCHANGED domains
       ELSE /\ domains' = [d \in Adds |-> IF d \in mine
                                          THEN [domains[d] EXCEPT !.verified = edit[r].answer]
                                          ELSE domains[d]]
            /\ Leave(r)
    /\ UNCHANGED <<dns, shown, secretVars>>

(* One account may hold a name as verified; a row that is gone is not      *)
(* updated, and the answer is the same.                                    *)
UpdateVerified(r) ==
    LET d == edit[r].row
        other == /\ edit[r].answer
                 /\ \E x \in Named(edit[r].name) \ {d} : domains[x].verified IN
    /\ edit[r].pc = "update"
    /\ IF Held(d) /\ other THEN Leave(r) /\ UNCHANGED domains
       ELSE /\ domains' = IF Held(d) THEN [domains EXCEPT ![d].verified = edit[r].answer]
                          ELSE domains
            /\ Leave(r)
    /\ UNCHANGED <<dns, shown, secretVars>>

DeleteDomain(r) ==
    /\ edit[r].pc = "delete"
    /\ domains' = [domains EXCEPT ![edit[r].row] = NoDomain]
    /\ Leave(r)
    /\ UNCHANGED <<dns, shown, secretVars>>

(* Owners publish the keys the page shows them, and remove them again.     *)
Publish(n, d) ==
    /\ d \in Named(n) \ dns[n]
    /\ dns' = [dns EXCEPT ![n] = @ \cup {d}]
    /\ shown' = shown \cup {d}
    /\ UNCHANGED <<domains, secretVars, edit>>

Unpublish(n) ==
    /\ dns[n] # {}
    /\ dns' = [dns EXCEPT ![n] = {}]
    /\ UNCHANGED <<domains, shown, secretVars, edit>>

(***************************************************************************)
(* The secret that encrypts the keys.  The operator configures one,        *)
(* replaces it keeping the old one, and drops the old one once a start has *)
(* gone through every row; all processes restart, and each API process     *)
(* brings the rows it reads onto the current secret.  Requests in progress *)
(* end with the processes.                                                 *)
(***************************************************************************)
Reconfigure ==
    LET next == CASE keyConfig = "off" -> "first" [] keyConfig = "first" -> "rotating"
                  [] OTHER -> "second" IN
    /\ keyConfig # "second" /\ (keyConfig = "rotating" => migrated)
    /\ keyConfig' = next
    /\ migrated' = FALSE
    /\ boot' = [b \in Boots |-> {}]
    /\ edit' = [r \in Adds \cup Edits |-> IF edit[r] = NotStarted THEN NotStarted
                                          ELSE NotMade]
    /\ UNCHANGED <<domains, dns, shown>>

(* Rows not yet under the current secret whose key can be read.            *)
Stale(key) == key.seal # Current /\ key.seal \in {"plain"} \cup Previous

ReadRows(b) ==
    /\ keyConfig # "off" /\ boot[b] = {} /\ ~migrated
    /\ LET todo == {[row |-> d, key |-> domains[d].key] :
                       d \in {x \in Adds : domains[x] # NoDomain /\ Stale(domains[x].key)}}
       IN  boot' = [boot EXCEPT ![b] = todo] /\ migrated' = (todo = {})
    /\ UNCHANGED <<domains, dns, shown, keyConfig, edit>>

(* The update is guarded on the old value; a failure ends the pass.        *)
Reencrypt(b) ==
    /\ \E t \in boot[b] :
         \/ /\ domains' = IF Held(t.row) /\ domains[t.row].key = t.key
                          THEN [domains EXCEPT ![t.row].key = [seal |-> Current, by |-> b]]
                          ELSE domains
            /\ boot' = [boot EXCEPT ![b] = @ \ {t}]
            /\ migrated' = (migrated \/ boot[b] = {t})
         \/ boot' = [boot EXCEPT ![b] = {}] /\ UNCHANGED <<domains, migrated>>
    /\ UNCHANGED <<dns, shown, keyConfig, edit>>

DomNext ==
    \/ \E r \in Adds : FindExisting(r) \/ InsertDomain(r)
    \/ \E r \in Edits : ReadDomain(r) \/ Lookup(r) \/ UpdateVerified(r) \/ DeleteDomain(r)
    \/ \E n \in DomainNames, d \in Adds : Publish(n, d)
    \/ \E n \in DomainNames : Unpublish(n)
    \/ Reconfigure
    \/ \E b \in Boots : ReadRows(b) \/ Reencrypt(b)

DomSpec == DomInit /\ [][DomNext]_domVars

(***************************************************************************)
(* Properties.                                                             *)
(***************************************************************************)
(* The tables and requests are well typed.                                 *)
DomTypeOK ==
    /\ domains \in [Adds -> DomainRow \cup {NoDomain}]
    /\ dns \in [DomainNames -> SUBSET Adds] /\ shown \subseteq Adds
    /\ keyConfig \in Configs /\ migrated \in BOOLEAN
    /\ boot \in [Boots -> SUBSET [row : Adds, key : Sealed]]
    /\ \A r \in Adds \cup Edits :
         edit[r].pc \in {"idle", "insert", "lookup", "update", "delete", "done"}

(* Mail is signed with a key its domain published at some time, whatever   *)
(* was deleted and added again while DNS was asked (domains.ts:258), for   *)
(* one account only (sender-domain.ts:16), and a change of the encryption  *)
(* secret never leaves a key the processes cannot read, even when starts   *)
(* fail midway (dkim-encryption.ts:84).                                    *)
SignerIsProven ==
    \A n \in DomainNames : /\ Cardinality(Covering(n)) <= 1
                           /\ \A d \in Covering(n) : /\ d \in shown
                                                     /\ Readable(domains[d].key.seal)
=============================================================================
