\* A right or left swipe of an adopter on an animal, three operations on its profile
\* one after the other, and two readers of its status events between which the
\* partition moves; every step of a handler may fail.
CONSTANTS
    Animal = a1
    Workers = {w1}
    Photos = {ph1}
    MaxOps = 3
    MaxRepeats = 0
    Calls = {c1}
    Actors = {p1}
    Keys = {k1}
    None = None
    Faults = {"handler"}
    Readers = {r1, r2}
    Rebalances = TRUE
SYMMETRY Symmetry
SPECIFICATION Spec
CHECK_DEADLOCK FALSE
INVARIANT InterestNeedsMatch
INVARIANT CaughtUpBelievesLastEvent
INVARIANT ArchivedMatchWasAnnounced
