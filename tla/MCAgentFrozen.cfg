CONSTANTS
    Agents = {"a", "b"}
    Requires <- PairRequires
    Prefers <- PairPrefers
    MaxAttempts = 2
    MaxConcurrency = 2
    Deliveries = {d1, d2}
    Requests = {r1}
    MaxTimeouts = 0
    MaxErrors = 0
    MaxCrashes = 0
SPECIFICATION Spec
PROPERTIES CompletedIsFrozen
CHECK_DEADLOCK FALSE
