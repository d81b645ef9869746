SPECIFICATION FairSpec
CONSTANTS
    a = a
    b = b
    None = None
    Runs <- TwoRuns
    Local <- OneRun
    MaxSeq = 0
    Overlap = FALSE
    Resets = FALSE
    Recreates = FALSE
    Elapses = FALSE
PROPERTIES QueueDrains
CHECK_DEADLOCK FALSE
