SPECIFICATION WriterSpec
CONSTANTS
    Streams = {"s1", "s2"}
    RowSet <- ShortRows
    Minimal = TRUE
    Threshold = 5
    MaxRows = 2
INVARIANTS
    OneWriterPerStream
    NothingLost
    ReadsBack
CHECK_DEADLOCK FALSE
