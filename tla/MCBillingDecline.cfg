\* A donation confirmed with a payment that succeeds and one that is declined.
CONSTANTS
    Calls = {c1, c2, c3}
    Keys = {k1}
    Foreign = Foreign
    Declined = Declined
    None = None
SPECIFICATION Spec
CHECK_DEADLOCK FALSE
PROPERTY SucceededIsFinal
