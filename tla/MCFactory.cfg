SPECIFICATION Spec
CONSTANTS
    Packages = {"lib", "app"}
    MaxVersion = 2
    Requires <- MCRequires
    Soname <- MCSoname
    Stages = 3
    EarlyPublications = 1
    Bootstrap = {}
    Contract = {"app"}
    Outranked = {"lib"}
    Owned = {"lib"}
    Edited = {"lib", "app"}
    Events = {"push", "packages"}
    Restarts = {"failed"}
    RunIds = {r1, r2, r3}
    ImageIds = {i1, i2, i3, i4}
    NoRun = NoRun
    NoImage = NoImage
SYMMETRY IdSymmetry
INVARIANTS
    TypeOK
    RunCoversEveryChange
    BuiltAgainstThisRun
    LinkInvariant
    OrderInvariant
PROPERTIES
    NoRollback
    RepositoryIsKept
CHECK_DEADLOCK FALSE
