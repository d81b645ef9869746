------------------------------ MODULE MCWorktree ------------------------------
(* Instances of Worktree for TLC.                                          *)
EXTENDS Worktree, TLC

CONSTANTS n1, n2, p1, p2, c1, c2

OneName == {n1}
TwoNames == {n1, n2}
OneProc == {p1}
TwoProcs == {p1, p2}
TwoCommits == {c1, c2}

Interchangeable == Permutations(TwoNames) \cup Permutations(TwoProcs)
                   \cup Permutations(TwoCommits)
=============================================================================
