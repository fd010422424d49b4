SPECIFICATION MCRepoSpec
CONSTANTS
    RepoCalls = {g1, g2, g3}
    RepoErrands <- MCRepoErrands
    KnownConnections <- MCConnections
    FileKind <- MCFileKind
    MaxEdits = 1
    NoScan = NoScan
    NoConnection = NoConnection
    first = first
SYMMETRY RepoSymmetry
INVARIANTS ScansAreIndexed
CHECK_DEADLOCK FALSE
