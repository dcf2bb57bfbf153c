CONSTANTS
    PlanKey = {A, B}
    NoKey = NoKey
    Absent = Absent
    MinRounds = 1
    GrantBudget = 1
    Modes = {"required", "optional", "skipped"}
    Severity = {"blocker", "minor"}
    Effects = {"commit", "rewrite", "dirty", "branch"}
    MaxFinding = 2
    MaxFresh = 2
    MaxStops = 1
SPECIFICATION FairPipelineSpec
INVARIANTS
    PipelineTypeOK
    ApprovedCommitWasReviewed
    CompletedTurnsAreNotRepeated
    BudgetBoundsGrinding
    LedgerFollowsTheRounds
    FixIsPrepared
    PreparedForThisPlan
PROPERTY ClaimEnds
CHECK_DEADLOCK FALSE
