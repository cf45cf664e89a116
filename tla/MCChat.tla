------------------------------- MODULE MCChat -------------------------------
(* Chat on small instances. *)
EXTENDS Chat, TLC

MCSymmetry ==
    Permutations(Calls) \cup Permutations(Viewers) \cup Permutations(Keys)
        \cup Permutations(Clients)
=============================================================================
