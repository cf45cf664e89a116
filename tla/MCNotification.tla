--------------------------- MODULE MCNotification ---------------------------
(* Notification on small instances. *)
EXTENDS Notification, TLC

CONSTANTS payer, shelter

\* The first message has two recipients, the second is malformed.
MCFrom == (payer :> 1) @@ (shelter :> 1)
=============================================================================
