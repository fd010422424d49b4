SPECIFICATION Spec
CONSTANTS
    Workers = {w1, w2}
    Requests = {r1}
    Starter = r1
    MaxAttempt = 1
    MaxRedeliveries = 1
    MaxCrashes = 0
INVARIANTS OneActiveDelivery
CHECK_DEADLOCK FALSE
