SPECIFICATION Spec
CONSTANTS
    Recipes = {1, 2, 3, 4}
    Sources = {1, 2, 3, 4, 9}
    Capabilities = {0, 1, 2, 3, 4}
    Inputs <- MCInputs
    Stages = 3
    EarlyPublications = 2
    Chunk = 2
INVARIANTS
    SearchIsSound
    NothingFallsOut
    OrderedOrReported
    AgreesWithCore
PROPERTIES
    Ends
CHECK_DEADLOCK FALSE
