--------------------------- MODULE MCMailDelivery ---------------------------
(***************************************************************************)
(* Instance of MailDelivery for TLC: the ports a mode is inferred from,    *)
(* and one that is none of them.                                           *)
(***************************************************************************)
EXTENDS MailDelivery
=============================================================================
