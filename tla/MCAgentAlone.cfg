CONSTANTS
    Agents = {"a", "b", "c"}
    Requires <- JoinRequires
    Prefers <- JoinPrefers
    MaxAttempts = 2
    MaxConcurrency = 1
    Deliveries = {d1}
    Requests = {r1}
    MaxTimeouts = 3
    MaxErrors = 0
    MaxCrashes = 1
SPECIFICATION FairSpec
INVARIANTS TypeOK ConcurrencyLimit CompletedIsWhole DependenciesRecorded
PROPERTIES RunsAreImmutable StartsOnEvidence WorkflowEnds
CHECK_DEADLOCK FALSE
