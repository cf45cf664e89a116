------------------------------ MODULE MCOutbox ------------------------------
(* Outbox on small instances. *)
EXTENDS Outbox, TLC

MCEvents == 1..3
=============================================================================
