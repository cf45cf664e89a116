----------------------------- MODULE MCMatching -----------------------------
(* Matching on small instances. *)
EXTENDS Matching, TLC

Symmetry == Permutations(Calls) \cup Permutations(Actors)
              \cup Permutations(Animals) \cup Permutations(Keys)
              \cup Permutations(Conversations)
=============================================================================
