\* Two goroutines, one photo, four operations, one message written twice.
CONSTANTS
    Workers = {w1, w2}
    Photos = {ph1}
    MaxOps = 4
    MaxRepeats = 1
SYMMETRY Symmetry
SPECIFICATION Spec
CHECK_DEADLOCK FALSE
INVARIANT TypeOK
INVARIANT CountersNeverExceed
INVARIANT StatusEventFirst
INVARIANT AnnouncedWasHeld
