CONSTANTS
    Operators = {o1, o2}
    NoOne = NoOne
    Runner = Runner
    NoFile = NoFile
    MaxVersion = 5
SPECIFICATION Spec
INVARIANTS
    TypeOK
    OnlyTheTakerLetsGo
PROPERTIES
    HistoryOnlyGrows
    ActsOnWhatItRead
    KeepsPromise
CHECK_DEADLOCK FALSE
