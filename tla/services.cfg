SPECIFICATION ServicesSpec
CONSTANTS
    Entities = {e1}
    Components = {c1}
    TrustCallers = {k1, k2}
    MaxComponent = 2
    DefaultScore = 1
    Deltas <- MCDeltas
    TrustFaults = {"outage"}
    Listings = {l1}
    MinPublish = 2
    RiskLabels = {"AIA-R2"}
    ChainReadings = {1, 9}
    MarketFaults = {"silent", "restart"}
    Agents = {"a1", "a2"}
    Names <- MCNames
    RegistryFaults = {"outage"}
    Workflows = {w1}
    StepLists <- MCStepLists
    Executions = {x1, x2}
    MaxCompleted = 2
    WorkflowFaults = {"broker", "raise", "restart"}
    Seekers = {s1, s2}
    Scores = {0, 1}
    CacheTTL = 2
    MaxAge = 4
    SeekFaults = {"raise"}
    Services <- MCServiceList
    DownThreshold = 2
    MonitorFaults = {"down", "send", "restart"}
    Tiers = {"cache", "small_model", "large_model", "human"}
    Defaults <- MCDefaults
    Readings = {50, 51, 57, 58, 59}
    RouteFaults = {"raise"}
    VendorCalls = {v1, v2, v3}
    Orders <- MCOrders
    Configured = {{}, {"SLACK_BOT_TOKEN", "EVM_PRIVATE_KEY", "STRIPE_API_KEY"}}
    VendorFaults = {"unreachable", "lost", "refused", "outbid", "dropped"}
    Selections <- MCSelections
    Ceilings = {0, 2}
    VerifyLimit = 1
    MaxChain = 2
    MaxRuns = 2
    MaxKept = 1
    SuiteFaults = {"skip", "postgres", "restart", "ceiling", "down"}
INVARIANTS ServicesTypeOK NoLostUpdate FlaggedOnce AnswersFresh IncidentsMatch DearerOnlyIfTrustRose EffectMatchesAnswer
PROPERTIES FalseAlarmsExplained PublishedEarned EmptyReviewed CircuitsReached
CHECK_DEADLOCK FALSE
