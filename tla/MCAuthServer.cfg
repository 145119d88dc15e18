CONSTANTS
    FileConfig <- File
    Valid <- WellFormed
    BlocksMacs = TRUE
    AddressesOf <- AddressesOfNames
    Configurations <- Sent
    Served <- Serve
    HasRuleSet = TRUE
    Close <- End
    BufLen = 6
    MaxOutages = 2
    MaxTokens = 2
SPECIFICATION Spec
INVARIANTS
    AcceptedApplied
PROPERTIES
    LetInOnlyOnYes
    StartsOnceUp
CHECK_DEADLOCK FALSE
