\* Two connectors and every fault.
CONSTANTS
    c1 = c1
    c2 = c2
    Connectors = {c1, c2}
    Threshold = 2
    Cooldown = 2
    Window = 4
    FaultKinds = {"outage", "restart", "broker"}
    MaxEvents = 4
    MaxRestarts = 1
SPECIFICATION Spec
INVARIANTS TypeOK NeverWedged StreakNotClosed IncidentsTellState
PROPERTIES OpenHoldsCooldown
SYMMETRY Symmetry
