CONSTANTS
    Operators = {o1}
    NoOne = NoOne
    NoFile = NoFile
    Steps = 1
    CheckpointSteps = {1}
    MAX_HUMAN_PAUSES = 3
    WaitS = 1
    MaxFaults = 0
SPECIFICATION Spec
VIEW View
INVARIANTS
    AbortIsRecordable
CHECK_DEADLOCK FALSE
