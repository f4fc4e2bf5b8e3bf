\* The governed path with every fault: two concurrent calls, one agent
\* whose score keeps moving.
CONSTANTS
    guarded = guarded
    missing = missing
    r1 = r1
    r2 = r2
    a1 = a1
    Requests = {r1, r2}
    Agents = {a1}
    Names = {guarded, missing}
    Catalogue = {guarded}
    MinTrust <- MCMinTrust
    RiskClass <- MCRiskClass
    MaxScore = 1
    MaxLevel = 1
    FaultKinds = {"trust", "policy", "brain", "forward", "broker", "crash"}
SPECIFICATION Spec
INVARIANTS TypeOK GatedExecution AuditTruthful AuditedOnce
SYMMETRY Symmetry
