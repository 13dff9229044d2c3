SPECIFICATION Spec
CONSTANTS
    a = a
    b = b
    Pids = {a}
    Free = Free
    NoSnapshot = NoSnapshot
    Kinds <- OwnAndOther
    Loads <- SteadyLoad
    Policies <- OnePolicy
    LoadThreshold = 2000
    Cooldown = 2
    GracePeriod = 2
    DryRuns = {FALSE}
    FailingActions = {}
    CollectorFails = FALSE
    ReuseTargets = TRUE
INVARIANTS
    KillOnlySurvivors
