SPECIFICATION FairSpec
CONSTANTS
    ann = ann
    bob = bob
    Unreadable = Unreadable
    Message <- OneMessage
    SentAt <- CoreSentAt
    Member = {ann, bob}
    MaxRev = 2
    IntermediateAfter = 1
    FinalAfter = 2
    TTL = 9
    Debounce = 1
    Retention = 6
    Reaction <- LiveReactions
    Trigger = {1}
    TextClass <- CoreText
    ReleasedFile <- BothReleased
    IntermediateEnabled = TRUE
    AutoHostReaction = FALSE
    Skew = 0
    MaxTime = 3
    MaxFailures = 1
PROPERTIES
    FinalIsEvaluated
    EditsSettle
