----------------------------- MODULE MCBilling -----------------------------
(* Billing on small instances. *)
EXTENDS Billing, TLC

Symmetry == Permutations(Calls) \cup Permutations(Keys)
=============================================================================
