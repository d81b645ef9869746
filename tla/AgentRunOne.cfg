SPECIFICATION FairSpec
CONSTANTS
    a = a
    b = b
    None = None
    Runs <- OneRun
    Local <- OneRun
    MaxSeq = 2
    Overlap = TRUE
    Resets = TRUE
    Recreates = TRUE
    Elapses = TRUE
PROPERTIES NewestFinalStays LostRunsSettle
CHECK_DEADLOCK FALSE
