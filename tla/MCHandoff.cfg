CONSTANTS
    Operators = {o1, o2}
    NoOne = NoOne
    NoFile = NoFile
    Steps = 2
    CheckpointSteps = {2}
    MAX_HUMAN_PAUSES = 3
    WaitS = 1
    MaxFaults = 0
SPECIFICATION Spec
VIEW View
SYMMETRY Symmetry
INVARIANTS
    ActsOnlyInControl
    NeverActsTwice
    EveryStepIsAccountedFor
    EveryPauseIsRecordedOnce
    NobodyElseIsBlamed
    NotesAreOfTheirPause
    SuccessIsEarned
    ClosedMeansFinished
PROPERTIES
    KeepsPromise
CHECK_DEADLOCK FALSE
