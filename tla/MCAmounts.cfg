SPECIFICATION Spec
CONSTANTS
    Commands = {"save"}
    Versions <- MCVersions
    Discoveries <- MCOpenings
    Fitting <- MCFitting
    Lower <- MCLower
    Digits <- MCDigits
    Numbers <- MCNumbers
    Flows <- Openings
    Values <- MCValues
    Formatted <- MCFormatted
    Contents <- OpeningContents
    Calls <- MCCalls
    Stores <- MCStores
    Jobs <- Discovers
    MaxJobs = 3
INVARIANT AmountsAreNotAsserted
CHECK_DEADLOCK FALSE
