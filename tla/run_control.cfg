SPECIFICATION Spec
CONSTANTS
    Worker = {w1}
    FollowUp = FollowUp
    Control = Control
    Nobody = Nobody
    Overlap = FALSE
INVARIANTS
    NoChildOutlivesTheRun
    ForceReachesEveryChild
PROPERTIES
    InterruptEndsTheRun
