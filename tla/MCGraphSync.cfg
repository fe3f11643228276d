SPECIFICATION FairSpec
CONSTANTS
    Scheduler = server
    Others = {command}
    None = None
    MaxEdits = 2
    MaxOps = 2
    MaxCrashes = 2
INVARIANTS
    TypeOK
    OneSyncer
    StalenessSeen
PROPERTIES
    GraphKept
    ServedWhenTried
CHECK_DEADLOCK FALSE
