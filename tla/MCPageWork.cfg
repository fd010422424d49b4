SPECIFICATION Spec
CONSTANTS
    Urls = {"home", "a", "b"}
    Rank <- Rank0
    HashRank <- HashRank0
    Runs = {1, 2}
    Crawlers = {k1, k2}
    Crawls <- Crawls0
    Executions = {"e"}
    Analysers = {a1, a2}
    Webs <- Webs0
    SameHost <- SameHost0
    MaxHops = 1
    MaxPages = 2
    MaxDeep = 1
    MaxDeaths = 1
    None = None
    Deliveries = {d1, d2}
    Nobody = Nobody
    FindingCodes = {"f", "g"}
    MaxAttempts = 2
SYMMETRY Interchangeable
INVARIANTS MembershipWhole CompletedIsEarned
PROPERTIES KeepsPromise
CHECK_DEADLOCK FALSE
