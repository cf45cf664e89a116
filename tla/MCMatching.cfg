\* Three RecordSwipe calls of an adopter on two animals with two idempotency keys,
\* every fault, and overlapping handlers of the animal and chat topics.
CONSTANTS
    Calls = {c1, c2, c3}
    Actors = {p1}
    Animals = {a1, a2}
    Keys = {k1, k2}
    Conversations = {v1, v2}
    None = None
    Faults = {"abort", "lostReply", "handler"}
SYMMETRY Symmetry
SPECIFICATION Spec
INVARIANT TypeOK
INVARIANT OneMatchPerPair
INVARIANT RepliesAgree
INVARIANT OutboxMatchesTables
PROPERTY MatchHistory
PROPERTY ImplementsSwipeBook
