SPECIFICATION Spec
CONSTANTS
    Inputs <- AnyInputs
    SerialLen = 6
    SpeculativeLen = 7
    W1 = w1
    W2 = w2
INVARIANTS
    SameRows
    SameFilledRows
    RestartsAtRecord
    TooLargeIsHonest
PROPERTIES
    MovesOn
