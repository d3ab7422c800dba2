SPECIFICATION Spec
CONSTANTS
    ann = ann
    bob = bob
    Unreadable = Unreadable
    Message <- OneMessage
    SentAt <- CoreSentAt
    Member = {ann, bob}
    MaxRev = 2
    IntermediateAfter = 1
    FinalAfter = 2
    TTL = 4
    Debounce = 1
    Retention = 6
    Reaction <- CrashReactions
    Trigger = {1}
    TextClass <- CoreText
    ReleasedFile <- BothReleased
    IntermediateEnabled = TRUE
    AutoHostReaction = FALSE
    Skew = 0
    MaxTime = 5
    MaxFailures = 1
PROPERTIES
    CompletionNeverDoublesReport
