CONSTANTS
    w1 = w1
    Main = Main
    NULL = NULL
    Worker <- OneWorker
    Conf <- TwoConfigurations
    MacChain <- BlockedChain
    OtherRule <- OtherRules
    Others <- OthersRules
    MaxRequests = 1
    MaxTroubles = 2
    Tries = 2
SPECIFICATION Spec
INVARIANTS
    ServesFreshChains
    OthersKept
    ExitLeavesNoJump
    OneCleanUp
CHECK_DEADLOCK FALSE
PROPERTY CleanUpEnds
