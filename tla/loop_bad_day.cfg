\* A connector that stops answering.
CONSTANTS
    c1 = c1
    k1 = k1
    k2 = k2
    Connectors = {c1}
    Calls = {k1}
    Threshold = 2
    Cooldown = 1
    Window = 2
    FaultKinds = {}
    MaxEvents = 0
    MaxRestarts = 0
SPECIFICATION LoopFairSpec
PROPERTIES BadDayIsCutOff
