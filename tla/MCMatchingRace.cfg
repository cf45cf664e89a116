\* Two adopters, one animal, no faults.
CONSTANTS
    Calls = {c1, c2}
    Actors = {p1, p2}
    Animals = {a1}
    Keys = {k1, k2}
    Conversations = {v1}
    None = None
    Faults = {}
SPECIFICATION Spec
INVARIANT UnavailableHasNoActiveMatch
