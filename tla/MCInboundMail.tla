---------------------------- MODULE MCInboundMail ----------------------------
(* Instances of InboundMail for TLC.                                        *)
EXTENDS InboundMail
===============================================================================
