-------------------------- MODULE MCOutboundDelivery --------------------------
(***************************************************************************)
(* OutboundDelivery for TLC. The constants are small sets and bounds given *)
(* in the .cfg files; two resend requests are interchangeable.             *)
(***************************************************************************)
EXTENDS OutboundDelivery, TLC

ResendSymmetry == Permutations(Resend)
===============================================================================
