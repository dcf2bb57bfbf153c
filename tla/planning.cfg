\* One Borg: one plan change, one question round, one plan with open questions,
\* loops of one round with one grant.
SPECIFICATION Spec
CONSTANTS
    ReviewRounds = 1
    GrantBudget = 1
    QuestionCap = 1
    ContractCap = 2
    MaxChanges = 1
    MaxOpenPlans = 1
    MaxOpen = 2
    PmRetries = 1
    DecisionCap = 2
    MaxRefunds = 1
    Drift = TRUE
    None = None
    Nothing = Nothing
    Broken = Broken
    R1 = R1
    R2 = R2
INVARIANTS
    StateFollowsTheRecord
    TurnsFitTheirPrompt
    ApprovalBindsTheReviewedPlan
    RoundsStayInBudget
    PublishedTasksAreWhole
PROPERTIES
    CommandsEnd
CHECK_DEADLOCK FALSE
