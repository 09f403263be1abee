SPECIFICATION MCSpec
CONSTANTS
    Sources <- SmallSources
    Readers = {r1}
    PageBytes = 2
    FieldsPerBlock = 2
    ChunkDefault = 3
    Texts <- SmallTexts
    Numbers <- SmallNumbers
    Int64 <- SmallInts
    Types <- IntTypes
    RangeOf <- Ranges
INVARIANTS
    ReadersReadWhatWasParsed
    FieldKeepsPromise
PROPERTIES
    DirectoriesStay
