SPECIFICATION Spec
CONSTANTS
    Packages = {"lib", "app"}
    MaxVersion = 2
    Requires <- MCRequires
    Soname <- MCSoname
    Stages = 3
    EarlyPublications = 1
    Bootstrap = {}
    Contract = {"app"}
    Outranked = {}
    Owned = {}
    Edited = {"lib"}
    Events = {"push", "daily"}
    Restarts = {"failed", "all"}
    RunIds = {r1, r2, r3}
    ImageIds = {i1, i2, i3, i4}
    NoRun = NoRun
    NoImage = NoImage
SYMMETRY IdSymmetry
INVARIANTS
    LabelInvariant
CHECK_DEADLOCK FALSE
