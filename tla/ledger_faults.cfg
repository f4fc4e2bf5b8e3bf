\* Every fault; an anchor may fail, as it always does when psycopg closes the connection.
CONSTANTS
    Batch = 2
    VerifyLimit = 3
    ExitCloses = FALSE
    FaultKinds = {"outage", "insert", "commit", "anchor", "reconnect", "restart"}
    MaxLog = 4
    MaxReplays = 1
SPECIFICATION Spec
INVARIANTS TypeOK ConsumedRecorded LedgersSound HonestHistoryVerifies CopiesBounded
PROPERTIES PgChainSpec
CHECK_DEADLOCK FALSE
