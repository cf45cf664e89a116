\* Three animals in every combination, two replicas, a viewer, two messages.
CONSTANTS
    Animals <- MCAnimals
    Consumers = {c1, c2}
    Viewers = {v1}
    Point = 1
    Rates = {0, 1}
    Rounded = {1}
    Restored <- MCRestored
    OrganicAfterBoost = 1
    PageSize = 2
    MaxMessages = 2
    None = None
SPECIFICATION Spec
SYMMETRY MCSymmetry
CHECK_DEADLOCK FALSE
INVARIANT TypeOK
INVARIANT ProjectionIsSerial
INVARIANT CardsGoWithCandidate
INVARIANT PagesAreTheRanking
INVARIANT BoostsAreSpread
