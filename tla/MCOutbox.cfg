\* Three rows, two replicas, batches of two; two failures against three attempts.
CONSTANTS
    Events <- MCEvents
    Publishers = {p1, p2}
    Batch = 2
    MaxAttempts = 3
    MaxFaults = 2
    None = None
SPECIFICATION FairSpec
CHECK_DEADLOCK FALSE
INVARIANT TypeOK
INVARIANT PublishedWasDelivered
INVARIANT CopiesAreCaused
PROPERTY ImplementsDelivery
PROPERTY EventuallyDelivered
