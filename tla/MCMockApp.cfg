SPECIFICATION Spec
CONSTANTS
    Clients = {"one", "other"}
    Browser <- MCBrowser
    Members = {"member", "restricted"}
    Restricted = {"restricted"}
    Unknown = "nobody"
    Inputs <- MCInputs
    MaxRequests = 4
    MaxTimes = 2
INVARIANTS FiresAsArmed AccountsMatchAnswers
PROPERTIES EveryRequestIsAnswered
CHECK_DEADLOCK FALSE
