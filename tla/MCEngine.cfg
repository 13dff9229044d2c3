SPECIFICATION Spec
CONSTANTS
    RawLists <- MCRawLists
    LoadPairs <- MCLoadPairs
    Files <- MCFiles
INVARIANTS
    TypeOK
    CedarConfirmsThresholds
    TargetsAreRunaways
    EvaluationOrder
    ValidatedPoliciesCanAct
    ChainsLeadToTargets
    SummaryAgreesWithPolicy
