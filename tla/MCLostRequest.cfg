SPECIFICATION PromptSpec
CONSTANTS
    Scheduler = server
    Others = {}
    None = None
    MaxEdits = 3
    MaxOps = 0
    MaxCrashes = 0
PROPERTY EditsArrive
CHECK_DEADLOCK FALSE
