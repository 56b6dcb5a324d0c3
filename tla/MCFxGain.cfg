SPECIFICATION GainSpec
CONSTANTS
    american = american
    modern = modern
    Models <- TwoModels
SYMMETRY ModelSymmetry
INVARIANTS
    NoFrozenTail
