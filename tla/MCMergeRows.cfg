CONSTANTS
    Keys = {k1, k2}
    Roles = {r1}
    NoAcl = NoAcl
    MaxChunks = 1
    Inputs <- MCInputs
    Numbers = {9, 16}
SYMMETRY KeySymmetry
SPECIFICATION Spec
CHECK_DEADLOCK FALSE
INVARIANTS
    ReturnsLatestState
    OneOutcomePerRecord
    NewestNumberWins
