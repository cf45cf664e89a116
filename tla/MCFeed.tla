------------------------------- MODULE MCFeed -------------------------------
(* Feed on small instances. *)
EXTENDS Feed, TLC

MCAnimals == 1..3

MCRestored == {r \in Candidates : r.lifted = r.boosted}

MCSymmetry == Permutations(Consumers)
=============================================================================
