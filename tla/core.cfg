SPECIFICATION Spec
CONSTANTS
    ann = ann
    bob = bob
    Unreadable = Unreadable
    Message <- OneMessage
    SentAt <- CoreSentAt
    Member = {ann, bob}
    MaxRev = 4
    IntermediateAfter = 1
    FinalAfter = 2
    TTL = 5
    Debounce = 1
    Retention = 6
    Reaction <- CoreReactions
    Trigger = {1}
    TextClass <- CoreText
    ReleasedFile <- ReadableFiles
    IntermediateEnabled = TRUE
    AutoHostReaction = FALSE
    Skew = 0
    MaxTime = 6
    MaxFailures = 0
INVARIANTS
    TypeOK
    ReportNeverSilentlyStale
    CompletedPromptly
PROPERTIES
    TerminalIsFinal
    ReportsInTheirWindow
    DeadlineSemantics
    CompletionNeverDoublesReport
