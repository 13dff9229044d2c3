SPECIFICATION Spec
CONSTANTS
    a = a
    b = b
    Pids = {a, b}
    Free = Free
    NoSnapshot = NoSnapshot
    Kinds <- OwnAndExcluded
    Loads <- SteadyLoad
    Policies <- TwoPolicies
    LoadThreshold = 2000
    Cooldown = 3
    GracePeriod = 2
    DryRuns = {TRUE, FALSE}
    FailingActions = {"notify"}
    CollectorFails = FALSE
    ReuseTargets = FALSE
SYMMETRY PidSymmetry
INVARIANTS
    TypeOK
    KillOnlySurvivors
    SignalsMatchPolicy
    SurvivorsAreKilled
    NotifySpacing
    SurvivorInv
    DescriptionInv
    CooldownInv
    DryRunIsInert
PROPERTIES
    CooldownRunsOut
    ChecksGoForward
    Enforced
