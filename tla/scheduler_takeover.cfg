SPECIFICATION SchedulerSpec
CONSTANTS
    b1 = b1
    g1 = g1
    t1 = t1
    t2 = t2
    Borg = {b1}
    Generation = {g1}
    Task = {t1}
    Run = {p1, p2}
    Claim = {c1, c2}
    Attempt = {}
    Identity = {}
    NoIdentity = NoIdentity
    NoRow = NoRow
    BorgOf <- OneBorgOf
    GenerationOf <- SingleGenerationOf
    Dependencies <- SingleDependencies
    Position <- SinglePosition
    ResumePhase = {}
    Explored = {"done"}
    LeaseDuration = 2
    MaxReviewRound = 0
    MaxTime = 3
    MaxSkew = 3
    Jobs = 1
    HeartbeatInterval = 1
    KeyboardInterrupts = FALSE
SYMMETRY Symmetry
CHECK_DEADLOCK FALSE
INVARIANTS
    SchedulerTypeOK
    RunningWorkerOwnsItsTask
    EndedProcessLeavesNoLiveRun
