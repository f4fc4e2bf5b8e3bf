\* One connector, one call at a time, the other traffic and a restart.
CONSTANTS
    c1 = c1
    k1 = k1
    k2 = k2
    Connectors = {c1}
    Calls = {k1}
    Threshold = 2
    Cooldown = 1
    Window = 2
    FaultKinds = {"restart"}
    MaxEvents = 0
    MaxRestarts = 1
SPECIFICATION LoopFairSpec
INVARIANTS OpensOnDenialsOnly
PROPERTIES AnsweringCloses AlwaysTriedAgain VisibleOpenIsRetried
