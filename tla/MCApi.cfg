SPECIFICATION WebSpec
CONSTANTS
    a = a
    b = b
    c = c
    Pids = {a, b}
    Clients = {c}
    Requests <- MCRequests
    Questions <- MCQuestions
    Free = Free
    NoSnapshot = NoSnapshot
    Kinds <- OwnAndProtected
    Loads <- SteadyLoad
    Policies <- Faulty
    LoadThreshold = 2000
    Cooldown = 0
    GracePeriod = 1
    DryRuns = {TRUE, FALSE}
    FailingActions = {}
    CollectorFails = TRUE
    ReuseTargets = FALSE
SYMMETRY PidSymmetry
INVARIANTS
    ApiTypeOK
    RepliesAreTrue
    KillOnlySurvivors
    SurvivorsAreKilled
    DryRunTouchesNobody
    StatusIsCoherent
