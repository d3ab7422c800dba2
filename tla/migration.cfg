SPECIFICATION FairSpec
CONSTANTS
    ann = ann
    Id <- TwoIds
    Member <- OneMember
    Time <- Times
    DefaultTTL = 6
    Legacy <- Found
INVARIANTS
    NothingIsLost
    ClaimedNeverRetryable
PROPERTIES
    FinishedAsUninterrupted
    RestartChangesNothing
    StartCompletes
