SPECIFICATION Spec
CONSTANTS
    n1 = n1
    n2 = n2
    p1 = p1
    p2 = p2
    c1 = c1
    c2 = c2
    Names <- OneName
    Procs <- OneProc
    Commits <- TwoCommits
    Quiesce = FALSE
    MaxCrashes = 0
    MaxByHand = 0
INVARIANTS NoCommitLost
CHECK_DEADLOCK FALSE
