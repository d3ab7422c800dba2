SPECIFICATION FairSpec
CONSTANTS
    Timeout = 4
    Request = 1
    Interval = 2
    RestartSec = 2
    TimeoutStart = 7
    DaemonStart = 2
INVARIANTS
    VerdictInTime
PROPERTY
    ComesUp
