\* One stored value changes behind the service, the consumer starts over, and every message is recorded in the end.
CONSTANTS
    Batch = 2
    VerifyLimit = 3
    ExitCloses = FALSE
    FaultKinds = {"outage", "insert", "reconnect", "restart", "alter"}
    MaxLog = 4
    MaxReplays = 1
SPECIFICATION FairSpec
INVARIANTS ReportsWhatIsHashed
PROPERTIES EventuallyRecorded
CHECK_DEADLOCK FALSE
