SPECIFICATION FairSpec
CONSTANTS
    a = a
    b = b
    Pids = {a}
    Free = Free
    NoSnapshot = NoSnapshot
    Kinds <- ExecsAndProtected
    Loads <- MovingLoads
    Policies <- TwoPolicies
    LoadThreshold = 2000
    Cooldown = 1
    GracePeriod = 1
    DryRuns = {FALSE}
    FailingActions = {"notify"}
    CollectorFails = FALSE
    ReuseTargets = FALSE
PROPERTIES
    RunawaysAreHandled
    TermedProcessesGo
    ShutdownCompletes
