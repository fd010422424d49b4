CONSTANTS
    Agents = {"a", "b"}
    Requires <- PairRequires
    Prefers <- PairPrefers
    MaxAttempts = 2
    MaxConcurrency = 1
    Deliveries = {d1, d2}
    Requests = {r1}
    MaxTimeouts = 1
    MaxErrors = 1
    MaxCrashes = 1
SPECIFICATION Spec
SYMMETRY DeliverySymmetry
INVARIANTS OneWriter RunningIsWorked AttemptsContiguous
CHECK_DEADLOCK FALSE
