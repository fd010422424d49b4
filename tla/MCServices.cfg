SPECIFICATION MCSpec
CONSTANTS
    Starts = {q1, q2, q3}
    Asks <- MCAsks
    KnownSites <- MCSites
    KnownRuns <- MCRuns
    MaxLost = 1
    NoId = NoId
    Calls = {c1, c2}
    Errands <- MCErrands
    KnownDocs <- MCDocs
    Finished = {"r2"}
    MaxReplaced = 1
    NoDoc = NoDoc
    key = key
    older = older
    Surveys <- MCSurveys
    Mapping <- MCMapping
    Unmapped = {"failure"}
    Changes = {"s1", "s2"}
    Wishes <- MCWishes
    MaxPlans = 2
    NoPage = NoPage
    Snapshots <- MCSnapshots
    Engines = {"ff"}
    NoScore = NoScore
    NoComparison = NoComparison
    RepoCalls = {q1, q2, q3}
    RepoErrands <- MCRepoErrands
    KnownConnections <- MCConnections
    FileKind <- MCFileKind
    MaxEdits = 1
    NoScan = NoScan
    NoConnection = NoConnection
    first = first
    PageLists <- MCPageLists
    Address <- MCAddress
    Excluded = {"x"}
    Critical = {"q", "home"}
    UrlRank <- MCUrlRank
    ShaRank <- MCShaRank
    Driven <- MCDriven
    Viewports <- MCViewports
    Sights <- MCSights
    AllPagesLimit = 2
    SampleSize = 2
    Threshold = 35
    Evidences <- MCEvidences
    Scope <- MCScope
    KnownPlatforms = {"windows", "macos", "android", "ios", "ipados"}
    Nothing = Nothing
    Surveyed <- MCSurveyed
    FamilyOf <- MCFamilyOf
    SectionOf <- MCSectionOf
    SimilarPercent = 60
    SecurityHeaders = {"hsts", "csp"}
    Absent = Absent
    Garbled = Garbled
    Inspected <- MCInspected
    IssueLimit = 20
    Unseen = Unseen
    KnownExecutions <- MCRetained
    Untold = Untold
    MaxAttempts = 3
    WorkflowAgents <- MCAgents
    Histories <- MCHistories
    Unrated = Unrated
    Arrivals = {q1, q2, q3, odd}
    odd = odd
    Clients = {c1, c2, stranger}
    stranger = stranger
    Sent <- MCSent
    Limit <- MCLimit
    MaxTracked = 2
    MaxBytes = 2
    Window = 2
    MaxTime = 3
    Unsaid = Unsaid
SYMMETRY Interchangeable
INVARIANTS
    StartsAreExact
    LimitsAreKept
    DocumentsAreExact
    PlanIsExact
    VerdictsAreEarned
    ScansAreExact
    
CHECK_DEADLOCK FALSE
