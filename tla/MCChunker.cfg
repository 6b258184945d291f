CONSTANTS
    Configs <- MCConfigs
    Lengths = {0, 1, 2, 3, 4, 5, 6, 7, 8, 9, 10, 11, 12}
SPECIFICATION Spec
CHECK_DEADLOCK FALSE
INVARIANTS
    FactsLandWhole
    PiecesNumbered
PROPERTY SplitReturns
