SPECIFICATION Spec
CONSTANTS
    t1 = t1
    t2 = t2
    Task = {t1, t2}
    Process = {p1, p2}
    Commit = {1, 2, 3, 4, 5, 6}
    Root = 1
    ApprovedCommit <- TwoApproved
    NoCommit = NoCommit
    NoProcess = NoProcess
    MaxAttempts = 1
    Disturbances = {"lapse", "catalog", "agent", "source"}
SYMMETRY Symmetry
CHECK_DEADLOCK FALSE
INVARIANTS
    TypeOK
    DoneIsPublished
    OnlyTrustedCommitsArePublished
PROPERTIES
    BaseAdvancesAsAttested
