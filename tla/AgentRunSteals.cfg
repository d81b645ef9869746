SPECIFICATION Spec
CONSTANTS
    a = a
    b = b
    None = None
    Runs <- TwoRuns
    Local <- NoRuns
    MaxSeq = 0
    Overlap = FALSE
    Resets = FALSE
    Recreates = FALSE
    Elapses = FALSE
PROPERTIES OtherRunsEndIgnored
CHECK_DEADLOCK FALSE
