CONSTANTS
    Packages = {"app", "lib", "stuck"}
    Lookaside = {"app"}
    ReviewOnly = {}
    Stuck = {"stuck"}
    Comes <- MCComes
    Named = {"app"}
    RollsLocked = FALSE
    Rolls = {"lib"}
    MaxHand = 1
SPECIFICATION FairSpec
INVARIANTS
    BumpsAreWhole
    DailyIsInSeries
PROPERTIES
    RelockSurvives
    HoldsOutlastFailures
    NewReleaseLands
CHECK_DEADLOCK FALSE
