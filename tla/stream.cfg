SPECIFICATION FairSpec
CONSTANTS
    Events = 6
    DataLines <- Shapes
    Form <- Forms
    Initial = 1
    Maximal = 5
    MaxLines = 5
    MaxFailures = 3
INVARIANTS
    BackoffFollowsFailures
PROPERTIES
    StreamImplementsChannel
    StreamGoesOn
