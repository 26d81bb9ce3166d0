CONSTANTS
    Operators = {o1}
    NoOne = NoOne
    NoFile = NoFile
    Steps = 1
    CheckpointSteps = {1}
    MAX_HUMAN_PAUSES = 2
    WaitS = 1
    MaxFaults = 1
SPECIFICATION Spec
PROPERTIES
    FirstHoldGetsTheWindow
    RunComesCloser
    RunEnds
CHECK_DEADLOCK FALSE
