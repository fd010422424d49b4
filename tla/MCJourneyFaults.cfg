SPECIFICATION FairSpec
CONSTANTS
    Workers = {w1, w2}
    Requests = {r1, r2}
    Starter = r1
    MaxAttempt = 1
    MaxRedeliveries = 0
    MaxCrashes = 1
INVARIANTS WholeJourney
PROPERTIES NoRevival RecordedIsKept JourneyEnds
CHECK_DEADLOCK FALSE
