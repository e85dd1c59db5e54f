SPECIFICATION Spec
CONSTANTS
    Packages = {"lib", "app", "ext"}
    Requires <- MCRequires
    Soname <- MCSoname
    MaxFiles <- MCEdits
    MaxEntry <- MCEntries
    MaxImage = 2
    Silent = {"lib"}
    Answers = {TRUE, FALSE}
    MaxRuns = 3
INVARIANTS
    BuildsTheFiles
    LinkedToThisRun
    RepairsHold
    RecordedIsPublished
CHECK_DEADLOCK FALSE
