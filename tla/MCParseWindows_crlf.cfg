SPECIFICATION Spec
CONSTANTS
    Inputs <- CrLfInputs
    SerialLen = 6
    SpeculativeLen = 7
    W1 = w1
    W2 = w2
INVARIANTS
    NoBlankRowAdded
