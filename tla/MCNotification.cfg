\* Two messages and a caller, two replicas; one failure and one reassignment.
CONSTANTS
    Consumers = {c1, c2}
    Callers = {g1}
    payer = payer
    shelter = shelter
    Notes = {payer, shelter}
    Asked = {shelter}
    From <- MCFrom
    Last = 2
    Refused = {2}
    MaxTroubles = 1
    None = None
SPECIFICATION FairSpec
CHECK_DEADLOCK FALSE
INVARIANT TypeOK
INVARIANT OneStory
INVARIANT CommittedWasNotified
INVARIANT ReadStays
PROPERTY EventuallyNotified
