SPECIFICATION FairSpec
CONSTANTS
    Packages = {"lib","app","boot"}
    MaxVersion = 2
    Requires <- MCRequires
    Soname <- MCSoname
    Stages = 3
    EarlyPublications = 1
    Bootstrap = {"boot"}
    Contract = {}
    Outranked = {}
    Owned = {"app"}
    Edited = {"lib"}
    Events = {"push","daily","full"}
    Restarts = {}
    RunIds = {r1, r2}
    ImageIds = {i1, i2, i3}
    NoRun = NoRun
    NoImage = NoImage
PROPERTIES
    FailureKeepsPreviousBuild
    FinishedRunRelinks
    EventuallyCurrent
CHECK_DEADLOCK FALSE
