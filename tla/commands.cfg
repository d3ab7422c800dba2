SPECIFICATION Spec
CONSTANTS
    a = a
    b = b
    z = z
    Writer <- BothTasks
    Command <- SafetyCommands
    Roster <- TwoNames
    InitialList = {b}
    Import <- Imported
    MaxCrashes = 1
INVARIANTS
    TypeOK
    ReplyTellsTheTruth
    RepeatedOnlyAfterCrash
PROPERTIES
    RepliesImplementLedger
    LimitEndsWrites
