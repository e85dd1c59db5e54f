SPECIFICATION Spec
CONSTANTS
    Branches = {"upstream", "rawhide"}
    Packages = {"a", "b"}
    Codecs = {}
    MaxVersion = 2
    Broken <- MCBroken
    Flaky <- MCNone
    MaxDaily = 1
    MaxHand = 0
    MaxHanded = 1
    MayFail = {"sent", "parked"}
PROPERTIES
    TrimStaysOnItsBranch
CHECK_DEADLOCK FALSE
