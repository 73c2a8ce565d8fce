------------------------------ MODULE SmtpLogin ------------------------------
(***************************************************************************)
(* Signing in to the SMTP server and its throttle of failed logins         *)
(* (src/apps/smtp/src/index.ts), for the logins of one address.  The       *)
(* throttle is read before the inbox is looked up and raised after its     *)
(* password was compared; other connections run in between.                *)
(***************************************************************************)
EXTENDS Integers, FiniteSets

CONSTANTS Logins,        \* logins it can have in progress at once
          MaxFailedAuth, \* MAX_FAILED_AUTH
          AuthWindow,    \* FAILED_AUTH_WINDOW_MS
          LastTick       \* bound of the clock

ASSUME SmtpLoginAssumption ==
    /\ IsFiniteSet(Logins) /\ Logins # {}
    /\ MaxFailedAuth \in Nat \ {0} /\ AuthWindow \in Nat \ {0} /\ LastTick \in Nat

VARIABLES tick,       \* Date.now()
          failedAuth, \* the entry of the address
          auth        \* what each login is doing

loginVars == <<tick, failedAuth, auth>>

NoEntry == [count |-> 0, resetAt |-> 0]
Expired == failedAuth.resetAt < tick

LoginInit ==
    /\ tick = 0 /\ failedAuth = NoEntry
    /\ auth = [c \in Logins |-> "open"]

(* Mutant: an address is blocked one failure too late.                     *)
CheckBlockedPast(c) ==
    /\ auth[c] = "open"
    /\ failedAuth' = IF Expired THEN NoEntry ELSE failedAuth
    /\ auth' = [auth EXCEPT ![c] = IF ~Expired /\ failedAuth.count > MaxFailedAuth
                                   THEN @ ELSE "lookup"]
    /\ UNCHANGED tick

(* onAuth, first half: refused while the address is blocked; otherwise the *)
(* inbox is looked up.  An entry that has expired is dropped.              *)
CheckBlocked(c) ==
    /\ auth[c] = "open"
    /\ failedAuth' = IF Expired THEN NoEntry ELSE failedAuth
    /\ auth' = [auth EXCEPT ![c] = IF ~Expired /\ failedAuth.count >= MaxFailedAuth
                                   THEN @ ELSE "lookup"]
    /\ UNCHANGED tick

(* Second half, a wrong name or password: recorded, and answered after a   *)
(* second.                                                                 *)
RecordFailedAuth(c) ==
    /\ auth[c] = "lookup" /\ auth' = [auth EXCEPT ![c] = "delayed"]
    /\ failedAuth' = IF failedAuth.count = 0 \/ Expired
                     THEN [count |-> 1, resetAt |-> tick + AuthWindow]
                     ELSE [failedAuth EXCEPT !.count = @ + 1]
    /\ UNCHANGED tick
AnswerFailed(c) ==
    /\ auth[c] = "delayed" /\ auth' = [auth EXCEPT ![c] = "open"]
    /\ UNCHANGED <<tick, failedAuth>>

(* The right one, or an error of the lookup or of the decryption, which is *)
(* not recorded.                                                           *)
Authenticated(c) ==
    /\ auth[c] = "lookup" /\ auth' = [auth EXCEPT ![c] = "signedIn"]
    /\ UNCHANGED <<tick, failedAuth>>
LookupFails(c) ==
    /\ auth[c] = "lookup" /\ auth' = [auth EXCEPT ![c] = "open"]
    /\ UNCHANGED <<tick, failedAuth>>

(* Another connection makes the next login; time passes.                   *)
Reconnect(c) ==
    /\ auth[c] = "signedIn" /\ auth' = [auth EXCEPT ![c] = "open"]
    /\ UNCHANGED <<tick, failedAuth>>
PassTime ==
    /\ tick < LastTick /\ tick' = tick + 1
    /\ UNCHANGED <<failedAuth, auth>>

LoginNext ==
    \/ \E c \in Logins :
          \/ CheckBlocked(c) \/ RecordFailedAuth(c) \/ AnswerFailed(c)
          \/ Authenticated(c) \/ LookupFails(c) \/ Reconnect(c)
    \/ PassTime
LoginSpec == LoginInit /\ [][LoginNext]_loginVars

-----------------------------------------------------------------------------
(* Type invariant.                                                         *)
LoginTypeOK ==
    /\ tick \in Nat
    /\ failedAuth \in [count : Nat, resetAt : Nat]
    /\ auth \in [Logins -> {"open", "lookup", "delayed", "signedIn"}]

(* However the logins of an address interleave, the wrong passwords it has *)
(* had compared within a window exceed the limit by fewer than the logins  *)
(* in progress at once: the unlocked check costs no more than that.        *)
GuessesBounded == failedAuth.count < MaxFailedAuth + Cardinality(Logins)
=============================================================================
