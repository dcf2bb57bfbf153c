SPECIFICATION FairSchedulerSpec
CONSTANTS
    b1 = b1
    g1 = g1
    t1 = t1
    t2 = t2
    Borg = {b1}
    Generation = {g1}
    Task = {t1, t2}
    Run = {p1}
    Claim = {c1, c2}
    Attempt = {}
    Identity = {}
    NoIdentity = NoIdentity
    NoRow = NoRow
    BorgOf <- OneBorgOf
    GenerationOf <- PairGenerationOf
    Dependencies <- PairDependencies
    Position <- PairPosition
    ResumePhase = {}
    Explored = {"done", "blocked"}
    LeaseDuration = 2
    MaxReviewRound = 0
    MaxTime = 2
    MaxSkew = 3
    Jobs = 2
    HeartbeatInterval = 1
    KeyboardInterrupts = TRUE
CHECK_DEADLOCK FALSE
PROPERTIES
    FailedRunLeavesNothingReady
    CancellationEndsTheRun
