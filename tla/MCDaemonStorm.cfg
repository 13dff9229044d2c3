SPECIFICATION Spec
CONSTANTS
    a = a
    b = b
    Pids = {a}
    Free = Free
    NoSnapshot = NoSnapshot
    Kinds <- OnlyOwn
    Loads <- SteadyLoad
    Policies <- NotifyThenDiagnose
    LoadThreshold = 2000
    Cooldown = 2
    GracePeriod = 2
    DryRuns = {FALSE}
    FailingActions = {"diagnose"}
    CollectorFails = FALSE
    ReuseTargets = FALSE
INVARIANTS
    NotifySpacing
