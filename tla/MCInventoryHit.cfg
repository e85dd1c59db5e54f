SPECIFICATION Spec
CONSTANTS
    Packages = {"lib", "app", "ext"}
    Requires <- MCRequires
    Soname <- MCSoname
    MaxFiles <- MCOnce
    MaxEntry <- MCEntries
    MaxImage = 1
    Silent = {}
    Answers = {TRUE}
    MaxRuns = 3
INVARIANTS
    BuildsTheRecipe
CHECK_DEADLOCK FALSE
