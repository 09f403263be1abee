SPECIFICATION Spec
CONSTANTS
    Sources <- SmallSources
    Names = {"x", "y", "z"}
    Values = {"", "a"}
    Policies = {"THROW", "OVERWRITE", "KEEP_FIRST"}
    Threads = {t1, t2}
    MaxChanges = 2
    MaxCells = 2
VIEW AllButAnswer
SYMMETRY Symmetric
INVARIANTS
    KeyIndexCurrent
    ShapeKept
    ViewShowsItsColumn
PROPERTIES
    FrameSpec
