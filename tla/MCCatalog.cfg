SPECIFICATION Spec
CONSTANTS
    Commands = {"save", "approve", "replay"}
    Versions <- MCVersions
    Discoveries <- MCDiscoveries
    Fitting <- MCFitting
    Lower <- MCLower
    Digits <- MCDigits
    Numbers <- MCNumbers
    Flows <- CatalogFlows
    Values <- MCValues
    Formatted <- MCFormatted
    Contents <- MCContents
    Calls <- MCCalls
    Stores <- MCStores
    Jobs <- MCJobs
    MaxJobs = 3
INVARIANTS
    TypeOK
    UnattendedRunsWereApproved
    MinorChangesKeepCalls
    ReplaysForOtherInputs
    WaitsHoldForOtherInputs
CHECK_DEADLOCK FALSE
