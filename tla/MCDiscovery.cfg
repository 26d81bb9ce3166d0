CONSTANTS
    Controls = {"button"}
    Calls <- MCCalls
    MaxSteps = 4
    REPEAT_LIMIT = 3
    NO_PROGRESS_LIMIT = 2
SPECIFICATION Spec
INVARIANTS
    ConfirmedJustBefore
    AnswersWhatWasShown
    StuckEndsTheRun
    RecordedAsTold
VIEW View
CHECK_DEADLOCK FALSE
