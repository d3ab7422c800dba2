SPECIFICATION Spec
CONSTANTS
    ann = ann
    bob = bob
    heart = heart
    check = check
    Member <- Two
    Emoji <- Emojis
    Time <- Times
    Event <- Sent
    MaxHistory = 5
INVARIANTS
    NewestWins
    CaughtUp
    HistoryCoversSession
PROPERTY
    TiesByArrival
