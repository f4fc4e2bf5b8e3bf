\* Two pollers, both modes, every fault.
CONSTANTS
    listener = listener
    caller = caller
    Pollers = {listener, caller}
    Listener = listener
    LogModes = {TRUE, FALSE}
    AiAnswers = {TRUE}
    EngineScores = {TRUE}
    FaultKinds = {"rpc", "answer", "drop", "replace", "foreign", "broker", "restart"}
    MaxRequests = 2
    MaxFaults = 2
SPECIFICATION FairSpec
INVARIANTS TypeOK PendingStillOpen AnnouncedTruthfully ScannedAreServed
PROPERTIES ContractSpec EveryRequestFulfilled
