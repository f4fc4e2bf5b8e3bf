\* No fault at all, psycopg 3 semantics.
CONSTANTS
    Batch = 2
    VerifyLimit = 9
    ExitCloses = TRUE
    FaultKinds = {}
    MaxLog = 3
    MaxReplays = 0
SPECIFICATION Spec
INVARIANTS AnchoringKeepsUp
CHECK_DEADLOCK FALSE
