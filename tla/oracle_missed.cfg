\* A transaction that vanishes while the log scan is in use.
CONSTANTS
    listener = listener
    caller = caller
    Pollers = {listener}
    Listener = listener
    LogModes = {TRUE}
    AiAnswers = {TRUE}
    EngineScores = {TRUE}
    FaultKinds = {"drop"}
    MaxRequests = 2
    MaxFaults = 1
SPECIFICATION FairSpec
PROPERTIES NeverMissesARequest
