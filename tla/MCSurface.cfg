SPECIFICATION Spec
CONSTANTS
    Acts <- MCActs
    HumanCauses <- MCHumanCauses
    Policy <- MCPolicy
    ConfirmFlag = FALSE
    MaxActs = 2
    MaxPauses = 1
    MaxDeeds = 1
INVARIANTS TypeOK EveryEventIsReportedOnce NothingPassesUnjudged
CHECK_DEADLOCK FALSE
