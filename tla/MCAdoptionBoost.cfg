\* A swipe, a profile that is published and boosted, one reader; nothing fails.
CONSTANTS
    Animal = a1
    Workers = {w1}
    Photos = {ph1}
    MaxOps = 3
    MaxRepeats = 0
    Calls = {c1}
    Actors = {p1}
    Keys = {k1}
    None = None
    Faults = {}
    Readers = {r1}
    Rebalances = FALSE
SPECIFICATION Spec
CHECK_DEADLOCK FALSE
INVARIANT ArchivedMatchHadCause
