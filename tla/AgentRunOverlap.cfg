SPECIFICATION Spec
CONSTANTS
    a = a
    b = b
    None = None
    Runs <- TwoRuns
    Local <- OneRun
    MaxSeq = 0
    Overlap = TRUE
    Resets = FALSE
    Recreates = FALSE
    Elapses = FALSE
INVARIANTS NoFlushAfterFinal
PROPERTIES ConfirmedStays
CHECK_DEADLOCK FALSE
