SPECIFICATION Spec
CONSTANTS
    ann = ann
    bob = bob
    Unreadable = Unreadable
    Message <- TwoMessages
    SentAt <- PairSentAt
    Member = {ann}
    MaxRev = 2
    IntermediateAfter = 1
    FinalAfter = 2
    TTL = 3
    Debounce = 1
    Retention = 3
    Reaction <- PairReactions
    Trigger = {1}
    TextClass <- PairText
    ReleasedFile <- OnlyA
    IntermediateEnabled = FALSE
    AutoHostReaction = FALSE
    Skew = 0
    MaxTime = 4
    MaxFailures = 0
INVARIANTS
    ResponsesFollowHistory
PROPERTIES
    AmbiguousReactionsAreDropped
