\* An owner and one consumer loop.
CONSTANTS
    Workers = {w1, w2}
    Photos = {ph1}
    MaxOps = 4
    MaxRepeats = 0
SPECIFICATION Spec
CHECK_DEADLOCK FALSE
PROPERTY ArchivedStaysHidden
