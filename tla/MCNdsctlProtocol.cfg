CONSTANTS
    Run = {"r1", "r2"}
    CommandLine <- CommandLines
    NULL = NULL
    End = End
    MaxParam = 1
    MaxTroubles = 2
SPECIFICATION Spec
INVARIANT CommandWhole
PROPERTY RunsEnd
CHECK_DEADLOCK FALSE
