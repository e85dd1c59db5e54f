CONSTANTS
    CanarySet = {"c"}
    Perturbed = "p"
    Attempts = 2
    Inherited <- MCInherited
SPECIFICATION Spec
INVARIANTS
    AdmittedIsProved
    CacheVerdictIsSound
    BumpNeedsNoHuman
    SourceStandsAsLocked
    RootIsThePin
    ReimportNeedsNoHuman
    RawhideIsFollowed
    ImportIsItsOwn
    ImportsMergeApart
    IssuesAreCurrent
CHECK_DEADLOCK FALSE
