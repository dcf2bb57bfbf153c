SPECIFICATION Spec
CONSTANTS
    b1 = b1
    g1 = g1
    g2 = g2
    t1 = t1
    t2 = t2
    Borg = {b1}
    Generation = {g1, g2}
    Task = {t1, t2}
    Run = {r1, r2}
    Claim = {c1, c2, c3}
    Attempt = {}
    Identity = {}
    NoIdentity = NoIdentity
    NoRow = NoRow
    BorgOf <- ChainBorgOf
    GenerationOf <- ChainGenerationOf
    Dependencies <- ChainDependencies
    Position <- ChainPosition
    ResumePhase = {}
    Explored = {"coding", "done", "blocked"}
    LeaseDuration = 2
    MaxReviewRound = 0
    MaxTime = 3
    MaxSkew = 1
SYMMETRY Symmetry
CHECK_DEADLOCK FALSE
INVARIANTS
    TypeOK
    OneRunPerBorg
    OneCurrentGeneration
    OpenClaimIsBacked
    ActiveTaskIsClaimed
    DependenciesDone
    CompletedRunIsComplete
PROPERTIES
    ImplementsBoard
    StaleOwnerIsFenced
