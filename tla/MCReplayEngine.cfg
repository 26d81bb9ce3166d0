CONSTANTS
    Steps = 2
    TargetSteps = {2}
    CheckpointSteps = {2}
    Reversible = {1}
    Irreversible = {2}
    PageRated = {1}
    Detectors <- MCDetectors
    Kind <- MCKind
    Scope <- MCScope
    OnTimeout = {"late"}
    Reruns <- MCReruns
    MaxAttempts <- MCMaxAttempts
    Timeout = 1
    Window = 1
    MAX_HUMAN_PAUSES = 2
SPECIFICATION Spec
INVARIANTS
    AttemptsAreCapped
    DeclaredOnce
    EveryRecoveryIsRecorded
    SuccessIsVerified
    RecoveryOwnsItsFailure
    ResultIsAccepted
PROPERTIES
    EveryStepUsesSomethingUp
    RunEnds
CHECK_DEADLOCK FALSE
