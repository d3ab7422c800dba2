SPECIFICATION FairSpec
CONSTANTS
    a = a
    b = b
    z = z
    Writer <- BothTasks
    Command <- LiveCommands
    Roster <- TwoNames
    InitialList = {b}
    Import <- Imported
    MaxCrashes = 1
PROPERTIES
    CommandsSettle
