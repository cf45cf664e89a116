----------------------------- MODULE MCAdoption -----------------------------
(* Adoption on small instances. *)
EXTENDS Adoption, TLC

Symmetry == Permutations(Workers) \cup Permutations(Readers)
=============================================================================
