SPECIFICATION MCSpec
CONSTANTS
    Jobs <- AllJobs
    Files <- SmallFiles
    BatchSizes = {1, 2, 5}
    Filters <- SmallFilters
    ParallelMinRows = 2
    HardwareThreads = 1
INVARIANTS
    ReadNumpyIsCast
    BatchesCoverRows
    BatchTypes
PROPERTIES
    FilteredStream
