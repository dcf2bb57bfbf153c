SPECIFICATION Spec
CONSTANTS
    t1 = t1
    t2 = t2
    Task = {t1}
    Process = {p1, p2}
    Commit = {1, 2, 3, 4}
    Root = 1
    ApprovedCommit <- OneApproved
    NoCommit = NoCommit
    NoProcess = NoProcess
    MaxAttempts = 1
    Disturbances = {"crash"}
SYMMETRY Symmetry
CHECK_DEADLOCK FALSE
PROPERTIES
    PublishedIsNotBlocked
