SPECIFICATION Spec
CONSTANTS
    n1 = n1
    n2 = n2
    p1 = p1
    p2 = p2
    c1 = c1
    c2 = c2
    Names <- OneName
    Procs <- TwoProcs
    Commits <- TwoCommits
    Quiesce = TRUE
    MaxCrashes = 1
    MaxByHand = 1
INVARIANT NoCommitLost
PROPERTIES RemovalProved ImplementsDisposableWork
CHECK_DEADLOCK FALSE
