CONSTANTS
    MaxAttempts = 0
    MaxLosses = 1
    MaxEdits = 1
    QueueSize = 1
    SendSize = 1
    Changes = {"toggle"}
    Key = {"slim", "list"}
    Empty = Empty
SPECIFICATION FairSpec
INVARIANTS OneAttempt 
PROPERTIES ComesBack
