SPECIFICATION Spec
CONSTANTS
    b1 = b1
    g1 = g1
    g2 = g2
    t1 = t1
    t2 = t2
    Borg = {b1}
    Generation = {g1}
    Task = {t1}
    Run = {r1, r2}
    Claim = {c1, c2}
    Attempt = {a1}
    Identity = {w1}
    NoIdentity = NoIdentity
    NoRow = NoRow
    Unset = Unset
    Missing = Missing
    Elsewhere = Elsewhere
    BorgOf <- SingleBorgOf
    GenerationOf <- SingleGenerationOf
    Dependencies <- SingleDependencies
    Position <- SinglePosition
    ResumePhase = {"fix"}
    Explored = {"coding", "review", "fix", "done"}
    LeaseDuration = 1
    MaxReviewRound = 1
    MaxTime = 2
    MaxSkew = 0
SYMMETRY Symmetry
CHECK_DEADLOCK FALSE
INVARIANTS
    OpenAttemptIsBacked
PROPERTIES
    RequeueKeepsProgress
    HistoryIsImmutable
