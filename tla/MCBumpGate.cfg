SPECIFICATION Spec
CONSTANTS
    Branches = {"upstream"}
    Packages = {"a", "b"}
    Codecs = {}
    MaxVersion = 2
    Broken <- MCBroken
    Flaky <- MCNone
    MaxDaily = 2
    MaxHand = 1
    MaxHanded = 1
    MayFail = {"parked"}
INVARIANTS
    HoldsAreOfFailures
    GateKeepsItsWord
PROPERTIES
    OnlyProvenLands
CHECK_DEADLOCK FALSE
