--------------------------- MODULE MessageLifecycle ---------------------------
(***************************************************************************)
(* What a user may rely on about one outbound message, as long as nothing  *)
(* breaks: the statuses it goes through, whether it is being delivered,    *)
(* and the copies its recipients got.  It says nothing of jobs, handlers,  *)
(* retries, logs or locks: OutboundDelivery implements it.                 *)
(***************************************************************************)
EXTENDS Naturals

CONSTANT Recipients

VARIABLES status,     \* what the message page shows
          delivering, \* a send or a resend is under way
          copies,     \* how often each recipient got the message
          cancelling, \* a cancel has stopped the send, its status follows
          simulated   \* testing mode: no mail leaves the system

lifeVars == <<status, delivering, copies, cancelling, simulated>>

LifeInit ==
    /\ status = "none"
    /\ delivering = TRUE
    /\ copies = [r \in Recipients |-> 0]
    /\ cancelling = FALSE
    /\ simulated \in BOOLEAN

Shown == status \notin {"none", "deleted"}

(* The send is accepted.                                                   *)
Accepted ==
    /\ delivering /\ status = "none"
    /\ status' \in {"queued", "scheduled"}
    /\ UNCHANGED <<delivering, copies, cancelling, simulated>>

(* A recipient gets the one copy there will ever be.                       *)
Mailed(r) ==
    /\ delivering /\ ~simulated /\ copies[r] = 0
    /\ copies' = [copies EXCEPT ![r] = 1]
    /\ UNCHANGED <<status, delivering, cancelling, simulated>>

(* The delivery ends with a verdict, "delivered" only if someone got it, ...*)
Judged ==
    /\ delivering /\ Shown
    /\ status' \in {"delivered", "bounced", "suppressed"}
    /\ status' = "delivered" => simulated \/ \E r \in Recipients : copies[r] > 0
    /\ delivering' = FALSE
    /\ UNCHANGED <<copies, cancelling, simulated>>

(* ... or without one: refused, out of attempts, or the message is gone.   *)
Stopped ==
    /\ delivering /\ delivering' = FALSE
    /\ UNCHANGED <<status, copies, cancelling, simulated>>

(* Only a message that bounced is sent again, once nobody delivers it.     *)
Resent ==
    /\ ~delivering /\ status = "bounced"
    /\ status' = "queued" /\ delivering' = TRUE
    /\ UNCHANGED <<copies, cancelling, simulated>>

CancelStarted ==
    /\ ~cancelling /\ cancelling' = TRUE
    /\ delivering' \in {delivering, FALSE}
    /\ UNCHANGED <<status, copies, simulated>>

Cancelled ==
    /\ cancelling /\ cancelling' = FALSE
    /\ status' = IF Shown THEN "cancelled" ELSE status
    /\ UNCHANGED <<delivering, copies, simulated>>

Deleted ==
    /\ Shown
    /\ status' = "deleted"
    /\ UNCHANGED <<delivering, copies, cancelling, simulated>>

LifeNext ==
    \/ Accepted \/ Judged \/ Stopped \/ Resent \/ CancelStarted \/ Cancelled \/ Deleted
    \/ \E r \in Recipients : Mailed(r)

LifeSpec == LifeInit /\ [][LifeNext]_lifeVars
===============================================================================
