------------------------- MODULE MCAnimalLifecycle -------------------------
(* AnimalLifecycle on small instances. *)
EXTENDS AnimalLifecycle, TLC

Symmetry == Permutations(Workers) \cup Permutations(Photos)
=============================================================================
