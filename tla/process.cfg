SPECIFICATION FairSpec
CONSTANTS
    Writer <- Both
    MaxWrites = 2
INVARIANTS
    LocksFollowTasks
    QuietOnceClosed
PROPERTY
    TasksProgress
