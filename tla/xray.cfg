CONSTANTS
    Nobody = Nobody
    Role <- MCRole
    Caller = {"check1", "job", "saver", "admin"}
    Client = {u1}
    Shapes = 1
    Initial <- MCInitial
    Templates <- MCTemplates
    Faults = {"build", "hot", "start", "push", "commit", "crash"}
    MaxFaults = 2
    MaxCalls = 1
    MaxEdits = 1
SPECIFICATION FairSpec
CHECK_DEADLOCK FALSE
INVARIANTS SnapshotCurrent
PROPERTIES CrashedComesBack
