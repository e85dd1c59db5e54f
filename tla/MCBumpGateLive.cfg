SPECIFICATION FairSpec
CONSTANTS
    Branches = {"upstream"}
    Packages = {"a", "b"}
    Codecs = {}
    MaxVersion = 2
    Broken <- MCBroken
    Flaky <- MCNone
    MaxDaily = 1
    MaxHand = 0
    MaxHanded = 1
    MayFail = {"sent"}
PROPERTIES
    WorkingBumpsLand
    BrokenIsHeld
CHECK_DEADLOCK FALSE
