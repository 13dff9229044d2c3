SPECIFICATION AppSpec
CONSTANTS
    a = a
    b = b
    c = c
    Pids = {a}
    Clients = {c}
    Requests <- AskForA
    Free = Free
    NoSnapshot = NoSnapshot
    Kinds <- ExecsAndProtected
    Loads <- SteadyLoad
    Policies <- Diagnosing
    LoadThreshold = 2000
    Cooldown = 1
    GracePeriod = 1
    DryRuns = {FALSE}
    FailingActions = {"diagnose"}
    CollectorFails = FALSE
    ReuseTargets = FALSE
    Programs = {"run", "check", "execute"}
    DrainLimit = 1
    MaxEnds = 2
INVARIANTS
    AppTypeOK
    ChecksOnlyLook
PROPERTIES
    ShutdownEnds
    RunawaysAreHandledAgain
    KeptForLife
