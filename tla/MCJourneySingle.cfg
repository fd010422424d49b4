SYMMETRY WorkerSymmetry
SPECIFICATION Spec
CONSTANTS
    Workers = {w1, w2}
    Requests = {r1}
    Starter = r1
    MaxAttempt = 1
    MaxRedeliveries = 1
    MaxCrashes = 0
INVARIANTS TypeOK ExclusiveStage StrictChain
CHECK_DEADLOCK FALSE
