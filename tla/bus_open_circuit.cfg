\* The audit of a circuit denial fails while the broker is away.
CONSTANTS
    guarded = guarded
    missing = missing
    r1 = r1
    r2 = r2
    a1 = a1
    Requests = {r1, r2}
    Agents = {a1}
    Names = {guarded, missing}
    Catalogue = {guarded}
    MinTrust <- MCMinTrust
    RiskClass <- MCRiskClass
    MaxScore = 1
    MaxLevel = 1
    FaultKinds = {"broker"}
SPECIFICATION Spec
INVARIANTS OpenCircuitBlocks
