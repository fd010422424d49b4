SYMMETRY WorkerSymmetry
SPECIFICATION Spec
CONSTANTS
    Workers = {w1, w2}
    Requests = {r1, r2}
    Starter = r1
    MaxAttempt = 2
    MaxRedeliveries = 0
    MaxCrashes = 0
CONSTRAINT NoClaimErased
INVARIANTS StrandedAtHandover
PROPERTIES NeverClaimedAgain
CHECK_DEADLOCK FALSE
