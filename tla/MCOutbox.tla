------------------------------ MODULE MCOutbox ------------------------------
(* Model values for the runs of Outbox. *)
EXTENDS Outbox, TLC

CONSTANTS d1, d2, resend, mailgun

(* Two drains: an old deployment's and, after EMAIL_PROVIDER was switched,   *)
(* the new one's; and two drains of one deployment.                          *)
Switched == (d1 :> resend @@ d2 :> mailgun)
SameProvider == (d1 :> resend @@ d2 :> resend)
=============================================================================
