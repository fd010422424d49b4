SPECIFICATION FairSpec
CONSTANTS
    Executions = {"e1", "e2"}
    RunOf <- OneRun
    SiteOf <- OneSite
    Jobs = {"j1", "j2"}
    Requests = {"r1", "s1", "s2", "s3"}
    Manual = {"s1", "s2", "s3"}
    Workers = {"w1", "w2"}
    MaxPolls = 1
    MaxErrors = 1
    MaxCrashes = 1
INVARIANTS TypeOK OneInFlight TriggeredOnce EvidenceStored StoredOnce
PROPERTIES EvidenceKept InFlightEnds
CONSTRAINT ByTurns
CHECK_DEADLOCK FALSE
