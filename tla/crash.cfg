SPECIFICATION Spec
CONSTANTS
    ann = ann
    bob = bob
    Unreadable = Unreadable
    Message <- OneMessage
    SentAt <- AheadSentAt
    Member = {ann, bob}
    MaxRev = 1
    IntermediateAfter = 1
    FinalAfter = 2
    TTL = 3
    Debounce = 1
    Retention = 6
    Reaction <- AheadReactions
    Trigger = {1}
    TextClass <- CoreText
    ReleasedFile <- AnyFile
    IntermediateEnabled = TRUE
    AutoHostReaction = TRUE
    Skew = 1
    MaxTime = 5
    MaxFailures = 1
INVARIANTS
    AtMostOnce
    ReportedIsSettled
    NoReportDueAfterTerminal
PROPERTIES
    PreStartFrozen
    SendsOnlyWhileActive
    ImplementsLedger
