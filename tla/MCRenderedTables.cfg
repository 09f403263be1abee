SPECIFICATION Spec
CONSTANTS
    Contents <- ShortContents
    MaxBytes = 8
INVARIANTS
    ReadsTable
    FormatResolved
CHECK_DEADLOCK FALSE
