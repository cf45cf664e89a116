\* Three calls, a stream with a channel of one event, pages of one message.
CONSTANTS
    Calls = {m1, m2, m3}
    Viewers = {v1}
    Keys = {k1, k2, k3}
    Clients = {i1, i2, i3}
    Buffer = 1
    PageSize = 1
    None = None
SPECIFICATION Spec
SYMMETRY MCSymmetry
CHECK_DEADLOCK FALSE
INVARIANT TypeOK
INVARIANT NothingMissed
INVARIANT ToldOnce
