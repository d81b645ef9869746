---------------------------- MODULE WorktreeProofs ----------------------------
(***************************************************************************)
(* Proofs about Worktree for every set of names, processes and commits:    *)
(* type correctness always; that no commit is lost, that removal is        *)
(* preceded by its proof, and that the lifecycle implements DisposableWork *)
(* provided subagents do not commit while cleanup inspects (Quiesce).      *)
(***************************************************************************)
EXTENDS Worktree, TLAPS

\* Type correctness of every behaviour of the lifecycle.
THEOREM TypeCorrect == Spec => []TypeOK
<1>1. Init => TypeOK
  BY WorktreeAssumption DEF Init, TypeOK, RowStatus, Steps, Nothing
<1>2. TypeOK /\ [Next]_vars => TypeOK'
  <2> SUFFICES ASSUME TypeOK, [Next]_vars PROVE TypeOK'
    OBVIOUS
  <2> USE WorktreeAssumption DEF TypeOK, RowStatus, Steps, gitVars, history, bounds
  <2>1. ASSUME NEW p \in Procs, NEW n \in Names, BeginPrepare(p, n) PROVE TypeOK'
    BY <2>1 DEF BeginPrepare, Goto
  <2>2. ASSUME NEW p \in Procs, PrepareAdd(p) PROVE TypeOK'
    <3>1. arg[p] \in Names
      OBVIOUS
    <3>2. tip' \in [Names -> SUBSET Commits]
      BY <2>2, <3>1 DEF PrepareAdd
    <3>3. dirs' \subseteq Names /\ admins' \subseteq Names /\ dirty' \subseteq dirs'
          /\ branches' \subseteq Names /\ pc' \in [Procs -> Steps]
      BY <2>2, <3>1 DEF PrepareAdd, Goto, Refuse
    <3> QED BY <2>2, <3>2, <3>3 DEF PrepareAdd
  <2>3. ASSUME NEW p \in Procs, PrepareInsert(p) PROVE TypeOK'
    BY <2>3 DEF PrepareInsert, Goto
  <2>4. ASSUME NEW p \in Procs, NEW n \in Names, BeginFinish(p, n) PROVE TypeOK'
    BY <2>4 DEF BeginFinish, Goto
  <2>5. ASSUME NEW p \in Procs, FinishStatus(p) PROVE TypeOK'
    BY <2>5 DEF FinishStatus, Goto, Refuse
  <2>6. ASSUME NEW p \in Procs, FinishUpdate(p) PROVE TypeOK'
    BY <2>6 DEF FinishUpdate, Goto
  <2>7. ASSUME NEW p \in Procs, NEW n \in Names, BeginCleanup(p, n) PROVE TypeOK'
    BY <2>7 DEF BeginCleanup, Goto
  <2>8. ASSUME NEW p \in Procs, CleanupPath(p) PROVE TypeOK'
    BY <2>8 DEF CleanupPath, Goto, Nothing
  <2>9. ASSUME NEW p \in Procs, CleanupTip(p) PROVE TypeOK'
    <3> DEFINE Seen == [path: BOOLEAN, tip: BOOLEAN, commits: SUBSET Commits]
    <3>1. arg[p] \in Names /\ tip[arg[p]] \in SUBSET Commits
      OBVIOUS
    <3>2. saw \in [Procs -> Seen] /\ saw[p] \in Seen
      OBVIOUS
    <3>3. [path |-> saw[p].path, tip |-> TRUE, commits |-> tip[arg[p]]] \in Seen
      BY <3>1, <3>2
    <3>4. saw' \in [Procs -> Seen]
      <4> HIDE DEF Seen
      <4> QED BY <2>9, <3>2, <3>3 DEF CleanupTip
    <3> QED BY <2>9, <3>4 DEF CleanupTip, Goto, Refuse
  <2>10. ASSUME NEW p \in Procs, CleanupStatus(p) PROVE TypeOK'
    BY <2>10 DEF CleanupStatus, Goto, Refuse
  <2>11. ASSUME NEW p \in Procs, CleanupMerged(p) PROVE TypeOK'
    BY <2>11 DEF CleanupMerged, Goto, Refuse
  <2>12. ASSUME NEW p \in Procs, CleanupRemove(p) PROVE TypeOK'
    BY <2>12 DEF CleanupRemove, GitRemoves, Goto, Refuse
  <2>13. ASSUME NEW p \in Procs, CleanupBranch(p) PROVE TypeOK'
    BY <2>13 DEF CleanupBranch, AfterFailedDelete, Goto, Refuse
  <2>14. ASSUME NEW p \in Procs, CleanupDelete(p) PROVE TypeOK'
    BY <2>14 DEF CleanupDelete, Goto
  <2>15. ASSUME NEW p \in Procs, Crash(p) PROVE TypeOK'
    BY <2>15 DEF Crash, Goto
  <2>16. ASSUME NEW p \in Procs, CrashInRemove(p) PROVE TypeOK'
    BY <2>16 DEF CrashInRemove, GitRemoves, Goto
  <2>17. ASSUME NEW n \in Names, Edit(n) PROVE TypeOK'
    BY <2>17 DEF Edit
  <2>18. ASSUME NEW n \in Names, Commit(n) PROVE TypeOK'
    BY <2>18 DEF Commit
  <2>19. ASSUME NEW n \in Names, LeadMerge(n) PROVE TypeOK'
    BY <2>19 DEF LeadMerge
  <2>20. ASSUME NEW n \in Names, RemoveDirByHand(n) PROVE TypeOK'
    BY <2>20 DEF RemoveDirByHand, Intervene
  <2>21. ASSUME NEW n \in Names, DeleteRefByHand(n) PROVE TypeOK'
    BY <2>21 DEF DeleteRefByHand, Intervene
  <2>22. ASSUME NEW n \in Names, Prune(n) PROVE TypeOK'
    BY <2>22 DEF Prune
  <2>23. CASE UNCHANGED vars
    BY <2>23 DEF vars
  <2> QED
    BY <2>1, <2>2, <2>3, <2>4, <2>5, <2>6, <2>7, <2>8, <2>9, <2>10, <2>11, <2>12,
       <2>13, <2>14, <2>15, <2>16, <2>17, <2>18, <2>19, <2>20, <2>21, <2>22, <2>23
       DEF Next, Step
<1> QED BY <1>1, <1>2, PTL DEF Spec

-----------------------------------------------------------------------------
(* What one step can change.                                               *)

\* Only cleanup's branch deletion and an operator make a branch disappear, and
\* cleanup deletes only the branch whose tip it resolved.
LEMMA BranchLeaves ==
    ASSUME TypeOK, Next, NEW n \in branches \ branches'
    PROVE  \/ DeleteRefByHand(n)
           \/ \E p \in Procs : CleanupBranch(p) /\ arg[p] = n /\ saw[p].tip
  BY DEF Next, Step, BeginPrepare, PrepareAdd, PrepareInsert, BeginFinish,
         FinishStatus, FinishUpdate, BeginCleanup, CleanupPath, CleanupTip,
         CleanupStatus, CleanupMerged, CleanupRemove, CleanupBranch,
         CleanupDelete, Crash, CrashInRemove, Edit, Commit, LeadMerge,
         RemoveDirByHand, DeleteRefByHand, Prune, gitVars, TypeOK

\* The merge proof of a cleanup stays valid until the branch is deleted, as
\* long as subagents do not commit meanwhile.
THEOREM MergeProofInvariant == ASSUME Quiesce PROVE Spec => []MergeProofHolds
<1>1. Init => MergeProofHolds
  BY DEF Init, MergeProofHolds
<1>2. TypeOK /\ MergeProofHolds /\ [Next]_vars => MergeProofHolds'
  <2> SUFFICES ASSUME TypeOK, MergeProofHolds, [Next]_vars PROVE MergeProofHolds'
    OBVIOUS
  <2> USE DEF TypeOK, MergeProofHolds, gitVars, history, bounds
  <2>1. ASSUME NEW p \in Procs, NEW n \in Names, BeginPrepare(p, n) PROVE MergeProofHolds'
    BY <2>1 DEF BeginPrepare, Goto
  <2>2. ASSUME NEW p \in Procs, PrepareAdd(p) PROVE MergeProofHolds'
    BY <2>2 DEF PrepareAdd, Goto, Refuse
  <2>3. ASSUME NEW p \in Procs, PrepareInsert(p) PROVE MergeProofHolds'
    BY <2>3 DEF PrepareInsert, Goto
  <2>4. ASSUME NEW p \in Procs, NEW n \in Names, BeginFinish(p, n) PROVE MergeProofHolds'
    BY <2>4 DEF BeginFinish, Goto
  <2>5. ASSUME NEW p \in Procs, FinishStatus(p) PROVE MergeProofHolds'
    BY <2>5 DEF FinishStatus, Goto, Refuse
  <2>6. ASSUME NEW p \in Procs, FinishUpdate(p) PROVE MergeProofHolds'
    BY <2>6 DEF FinishUpdate, Goto
  <2>7. ASSUME NEW p \in Procs, NEW n \in Names, BeginCleanup(p, n) PROVE MergeProofHolds'
    BY <2>7 DEF BeginCleanup, Goto
  <2>8. ASSUME NEW p \in Procs, CleanupPath(p) PROVE MergeProofHolds'
    BY <2>8 DEF CleanupPath, Goto
  <2>9. ASSUME NEW p \in Procs, CleanupTip(p) PROVE MergeProofHolds'
    BY <2>9 DEF CleanupTip, SeenUnverifiable, Goto, Refuse
  <2>10. ASSUME NEW p \in Procs, CleanupStatus(p) PROVE MergeProofHolds'
    BY <2>10 DEF CleanupStatus, Goto, Refuse
  <2>11. ASSUME NEW p \in Procs, CleanupMerged(p) PROVE MergeProofHolds'
    BY <2>11 DEF CleanupMerged, SeenMerged, Goto, Refuse
  <2>12. ASSUME NEW p \in Procs, CleanupRemove(p) PROVE MergeProofHolds'
    BY <2>12 DEF CleanupRemove, GitRemoves, Goto, Refuse
  <2>13. ASSUME NEW p \in Procs, CleanupBranch(p) PROVE MergeProofHolds'
    BY <2>13 DEF CleanupBranch, AfterFailedDelete, Goto, Refuse
  <2>14. ASSUME NEW p \in Procs, CleanupDelete(p) PROVE MergeProofHolds'
    BY <2>14 DEF CleanupDelete, Goto
  <2>15. ASSUME NEW p \in Procs, Crash(p) PROVE MergeProofHolds'
    BY <2>15 DEF Crash, Goto
  <2>16. ASSUME NEW p \in Procs, CrashInRemove(p) PROVE MergeProofHolds'
    BY <2>16 DEF CrashInRemove, GitRemoves, Goto
  <2>17. ASSUME NEW n \in Names, Edit(n) PROVE MergeProofHolds'
    BY <2>17 DEF Edit
  <2>18. ASSUME NEW n \in Names, Commit(n) PROVE MergeProofHolds'
    <3>1. \A m \in Names : m # n => tip'[m] = tip[m]
      BY <2>18 DEF Commit
    <3>2. \A p \in Procs : arg[p] = n =>
             pc[p] \notin {"clStatus", "clMerged", "clRemove", "clBranch"}
      BY <2>18 DEF Commit, UnderCleanup
    <3> QED BY <2>18, <3>1, <3>2 DEF Commit
  <2>19. ASSUME NEW n \in Names, LeadMerge(n) PROVE MergeProofHolds'
    BY <2>19 DEF LeadMerge
  <2>20. ASSUME NEW n \in Names, RemoveDirByHand(n) PROVE MergeProofHolds'
    BY <2>20 DEF RemoveDirByHand
  <2>21. ASSUME NEW n \in Names, DeleteRefByHand(n) PROVE MergeProofHolds'
    BY <2>21 DEF DeleteRefByHand
  <2>22. ASSUME NEW n \in Names, Prune(n) PROVE MergeProofHolds'
    BY <2>22 DEF Prune
  <2>23. CASE UNCHANGED vars
    BY <2>23 DEF vars
  <2> QED
    BY <2>1, <2>2, <2>3, <2>4, <2>5, <2>6, <2>7, <2>8, <2>9, <2>10, <2>11, <2>12,
       <2>13, <2>14, <2>15, <2>16, <2>17, <2>18, <2>19, <2>20, <2>21, <2>22, <2>23
       DEF Next, Step
<1> QED BY <1>1, <1>2, TypeCorrect, PTL DEF Spec

\* "Cleanup refuses to destroy unmerged or dirty work": whatever processes,
\* crashes and manual interventions interleave, every commit stays reachable.
THEOREM NoCommitIsLost == ASSUME Quiesce PROVE Spec => []NoCommitLost
<1>1. Init => NoCommitLost
  BY DEF Init, NoCommitLost
<1>2. TypeOK /\ MergeProofHolds /\ NoCommitLost /\ [Next]_vars => NoCommitLost'
  <2> SUFFICES ASSUME TypeOK, MergeProofHolds, NoCommitLost, [Next]_vars,
                      NEW c \in made'
               PROVE  c \in main' \cup discarded' \/ \E n \in branches' : c \in tip'[n]
    BY DEF NoCommitLost
  <2>1. main \subseteq main' /\ discarded \subseteq discarded'
    BY DEF Next, Step, BeginPrepare, PrepareAdd, PrepareInsert, BeginFinish,
           FinishStatus, FinishUpdate, BeginCleanup, CleanupPath, CleanupTip,
           CleanupStatus, CleanupMerged, CleanupRemove, CleanupBranch,
           CleanupDelete, Crash, CrashInRemove, Edit, Commit, LeadMerge,
           RemoveDirByHand, DeleteRefByHand, Prune, gitVars, history, vars
  <2>2. \A n \in branches \cap branches' : tip[n] \subseteq tip'[n]
    BY DEF Next, Step, BeginPrepare, PrepareAdd, PrepareInsert, BeginFinish,
           FinishStatus, FinishUpdate, BeginCleanup, CleanupPath, CleanupTip,
           CleanupStatus, CleanupMerged, CleanupRemove, CleanupBranch,
           CleanupDelete, Crash, CrashInRemove, Edit, Commit, LeadMerge,
           RemoveDirByHand, DeleteRefByHand, Prune, gitVars, vars, TypeOK
  <2>3. CASE c \in made
    <3>1. CASE c \in main \cup discarded
      BY <2>1, <3>1
    <3>2. CASE \E n \in branches : c \in tip[n]
      <4>1. PICK n \in branches : c \in tip[n]
        BY <3>2
      <4>2. CASE n \in branches'
        BY <2>2, <4>1, <4>2
      <4>3. CASE n \notin branches'
        <5>1. Next
          BY <4>3 DEF vars, gitVars
        <5>2. CASE DeleteRefByHand(n)
          BY <4>1, <5>2 DEF DeleteRefByHand
        <5>3. CASE \E p \in Procs : CleanupBranch(p) /\ arg[p] = n /\ saw[p].tip
          <6>1. tip[n] \subseteq main
            BY <4>1, <5>3 DEF CleanupBranch, MergeProofHolds
          <6> QED BY <2>1, <4>1, <6>1
        <5> QED BY <4>1, <4>3, <5>1, <5>2, <5>3, BranchLeaves
      <4> QED BY <4>2, <4>3
    <3> QED BY <2>3, <3>1, <3>2 DEF NoCommitLost
  <2>4. CASE c \notin made
    <3>1. PICK n \in Names : Commit(n)
      BY <2>4 DEF Next, Step, BeginPrepare, PrepareAdd, PrepareInsert, BeginFinish,
           FinishStatus, FinishUpdate, BeginCleanup, CleanupPath, CleanupTip,
           CleanupStatus, CleanupMerged, CleanupRemove, CleanupBranch,
           CleanupDelete, Crash, CrashInRemove, Edit, LeadMerge,
           RemoveDirByHand, DeleteRefByHand, Prune, history, vars
    <3>2. n \in branches' /\ c \in tip'[n]
      BY <2>4, <3>1 DEF Commit, TypeOK
    <3> QED BY <3>2
  <2> QED BY <2>3, <2>4
<1> QED BY <1>1, <1>2, TypeCorrect, MergeProofInvariant, PTL DEF Spec

\* A worktree directory disappears by cleanup (or by Git dying inside it) only
\* when it is clean and its branch is merged.
THEOREM RemovalIsProved == ASSUME Quiesce PROVE Spec => RemovalProved
<1> DEFINE Proved == \A n \in dirs \ dirs' : byHand' = byHand =>
                        /\ n \notin dirty
                        /\ n \in branches => tip[n] \subseteq main
<1>1. TypeOK /\ MergeProofHolds /\ [Next]_vars => Proved
  <2> SUFFICES ASSUME TypeOK, MergeProofHolds, [Next]_vars,
                      NEW n \in dirs \ dirs', byHand' = byHand
               PROVE  n \notin dirty /\ (n \in branches => tip[n] \subseteq main)
    OBVIOUS
  <2>1. \/ \E p \in Procs : CleanupRemove(p) \/ CrashInRemove(p)
        \/ RemoveDirByHand(n)
    BY DEF Next, Step, BeginPrepare, PrepareAdd, PrepareInsert, BeginFinish,
           FinishStatus, FinishUpdate, BeginCleanup, CleanupPath, CleanupTip,
           CleanupStatus, CleanupMerged, CleanupBranch, CleanupDelete, Crash,
           Edit, Commit, LeadMerge, RemoveDirByHand, DeleteRefByHand, Prune,
           gitVars, vars, TypeOK
  <2>2. CASE \E p \in Procs : CleanupRemove(p) \/ CrashInRemove(p)
    BY <2>2 DEF CleanupRemove, CrashInRemove, GitRemoves, MergeProofHolds
  <2>3. CASE RemoveDirByHand(n)
    BY <2>3 DEF RemoveDirByHand, Intervene, TypeOK
  <2> QED BY <2>1, <2>2, <2>3
<1>2. TypeOK /\ MergeProofHolds /\ [Next]_vars => [Proved]_vars
  BY <1>1
<1> QED BY <1>2, TypeCorrect, MergeProofInvariant, PTL DEF Spec, RemovalProved

\* The lifecycle implements the abstract protocol of disposable work.
THEOREM Implementation == ASSUME Quiesce PROVE Spec => ImplementsDisposableWork
<1>1. Init => Promise!Init
  BY DEF Init, Promise!Init
<1>2. TypeOK /\ MergeProofHolds /\ [Next]_vars => [Promise!Next]_(Promise!absVars)
  <2> SUFFICES ASSUME TypeOK, MergeProofHolds, [Next]_vars
               PROVE  Promise!Next \/ UNCHANGED Promise!absVars
    OBVIOUS
  <2> USE DEF TypeOK, gitVars, history, Promise!absVars
  <2>1. ASSUME NEW p \in Procs, PrepareAdd(p)
        PROVE  Promise!Next \/ UNCHANGED Promise!absVars
    <3>1. CASE arg[p] \in branches
      BY <2>1, <3>1 DEF PrepareAdd
    <3>2. CASE arg[p] \notin branches
      <4>1. Promise!Open(arg[p])
        BY <2>1, <3>2 DEF PrepareAdd, Promise!Open
      <4> QED BY <4>1 DEF Promise!Next
    <3> QED BY <3>1, <3>2
  <2>2. ASSUME NEW p \in Procs, CleanupBranch(p)
        PROVE  Promise!Next \/ UNCHANGED Promise!absVars
    <3>1. CASE branches' = branches
      BY <2>2, <3>1 DEF CleanupBranch
    <3>2. CASE branches' # branches
      <4>1. Promise!Dispose(arg[p])
        BY <2>2, <3>2 DEF CleanupBranch, MergeProofHolds, Promise!Dispose
      <4> QED BY <4>1 DEF Promise!Next
    <3> QED BY <3>1, <3>2
  <2>3. ASSUME NEW n \in Names, Commit(n)
        PROVE  Promise!Next \/ UNCHANGED Promise!absVars
    <3>1. Promise!Work(n)
      BY <2>3 DEF Commit, Promise!Work
    <3> QED BY <3>1 DEF Promise!Next
  <2>4. ASSUME NEW n \in Names, LeadMerge(n)
        PROVE  Promise!Next \/ UNCHANGED Promise!absVars
    <3>1. Promise!Merge(n)
      BY <2>4 DEF LeadMerge, Promise!Merge
    <3> QED BY <3>1 DEF Promise!Next
  <2>5. ASSUME NEW n \in Names, DeleteRefByHand(n)
        PROVE  Promise!Next \/ UNCHANGED Promise!absVars
    <3>1. Promise!Discard(n)
      BY <2>5 DEF DeleteRefByHand, Promise!Discard
    <3> QED BY <3>1 DEF Promise!Next
  <2>6. \/ UNCHANGED Promise!absVars
        \/ \E p \in Procs : PrepareAdd(p) \/ CleanupBranch(p)
        \/ \E n \in Names : Commit(n) \/ LeadMerge(n) \/ DeleteRefByHand(n)
    BY DEF Next, Step, BeginPrepare, PrepareInsert, BeginFinish,
           FinishStatus, FinishUpdate, BeginCleanup, CleanupPath, CleanupTip,
           CleanupStatus, CleanupMerged, CleanupRemove, CleanupDelete, Crash,
           CrashInRemove, Edit, RemoveDirByHand, Prune, vars
  <2> QED BY <2>1, <2>2, <2>3, <2>4, <2>5, <2>6
<1> QED
  BY <1>1, <1>2, TypeCorrect, MergeProofInvariant, PTL
  DEF Spec, ImplementsDisposableWork, Promise!Spec

-----------------------------------------------------------------------------
(* What a row leaves behind.                                               *)

\* No two processes clean a name up at once, and none prepares it meanwhile.
Cleanups == {"clPath", "clTip", "clStatus", "clMerged", "clRemove", "clBranch", "clDelete"}
CleanupAlone ==
    \A p, q \in Procs : p # q /\ arg[p] = arg[q] /\ pc[p] \in Cleanups =>
                             pc[q] \notin Cleanups \cup {"prepAdd"}

\* Without manual interventions a directory is registered and what is
\* registered has a branch; and a cleanup that is alone finds what it saw.
LeftoversFit ==
    /\ byHand = 0 /\ dirs \subseteq admins /\ admins \subseteq branches
    /\ \A p \in Procs :
          LET n == arg[p] IN
          /\ pc[p] \in {"clTip", "clStatus", "clMerged", "clRemove"} => (saw[p].path <=> n \in dirs)
          /\ pc[p] = "clTip" => ~saw[p].tip
          /\ pc[p] \in {"clStatus", "clMerged", "clRemove", "clBranch"}
                => (saw[p].tip <=> n \in branches)
          /\ pc[p] = "clBranch" => n \notin dirs
          /\ pc[p] = "clDelete" => n \notin branches

LEMMA LeftoversStep ==
  ASSUME MaxByHand = 0, CleanupAlone, TypeOK, LeftoversFit, [Next]_vars
  PROVE  LeftoversFit'
<1> USE DEF TypeOK, LeftoversFit, CleanupAlone, Cleanups, gitVars, history, bounds
<1>1. ASSUME NEW p \in Procs, NEW n \in Names,
             BeginPrepare(p, n) \/ BeginFinish(p, n) \/ BeginCleanup(p, n)
      PROVE  LeftoversFit'
  BY <1>1 DEF BeginPrepare, BeginFinish, BeginCleanup, Goto
<1>2. ASSUME NEW p \in Procs, PrepareAdd(p) PROVE LeftoversFit'
  BY <1>2 DEF PrepareAdd, Goto, Refuse
<1>3. ASSUME NEW p \in Procs,
             PrepareInsert(p) \/ FinishStatus(p) \/ FinishUpdate(p) \/ CleanupDelete(p) \/ Crash(p)
      PROVE  LeftoversFit'
  BY <1>3 DEF PrepareInsert, FinishStatus, FinishUpdate, CleanupDelete, Crash, Goto, Refuse
<1>4. ASSUME NEW p \in Procs, CleanupPath(p) PROVE LeftoversFit'
  <2>1. saw'[p].path <=> arg[p] \in dirs
    BY <1>4 DEF CleanupPath
  <2>2. ~saw'[p].tip
    BY <1>4 DEF CleanupPath
  <2> QED BY <1>4, <2>1, <2>2 DEF CleanupPath, Goto
<1>5. ASSUME NEW p \in Procs, CleanupTip(p) PROVE LeftoversFit'
  <2>1. saw'[p].path <=> saw[p].path
    BY <1>5 DEF CleanupTip
  <2>2. saw'[p].tip <=> arg[p] \in branches
    <3>1. CASE arg[p] \in branches
      <4>1. saw'[p] = [path |-> saw[p].path, tip |-> TRUE, commits |-> tip[arg[p]]]
        BY <1>5, <3>1 DEF CleanupTip
      <4>2. saw'[p].tip
        BY <4>1
      <4> QED BY <3>1, <4>2
    <3>2. CASE arg[p] \notin branches
      <4>1. saw' = saw /\ pc[p] = "clTip"
        BY <1>5, <3>2 DEF CleanupTip
      <4> QED BY <3>2, <4>1
    <3> QED BY <3>1, <3>2
  <2>3. pc'[p] \in {"idle", "clStatus"} /\ pc[p] = "clTip"
    BY <1>5 DEF CleanupTip, Goto, Refuse
  <2>4. UNCHANGED <<byHand, dirs, admins, branches, arg>>
    BY <1>5 DEF CleanupTip
  <2>5. ASSUME NEW q \in Procs, q # p PROVE pc'[q] = pc[q] /\ saw'[q] = saw[q]
    BY <1>5, <2>5 DEF CleanupTip, Goto, Refuse
  <2> QED BY <2>1, <2>2, <2>3, <2>4, <2>5
<1>6. ASSUME NEW p \in Procs, CleanupStatus(p) \/ CleanupMerged(p) PROVE LeftoversFit'
  BY <1>6 DEF CleanupStatus, CleanupMerged, Goto, Refuse
<1>7. ASSUME NEW p \in Procs, CleanupRemove(p) PROVE LeftoversFit'
  BY <1>7 DEF CleanupRemove, GitRemoves, Goto, Refuse
<1>8. ASSUME NEW p \in Procs, CleanupBranch(p) PROVE LeftoversFit'
  BY <1>8 DEF CleanupBranch, AfterFailedDelete, Goto, Refuse
<1>9. ASSUME NEW p \in Procs, CrashInRemove(p) PROVE LeftoversFit'
  BY <1>9 DEF CrashInRemove, GitRemoves, Goto
<1>10. ASSUME NEW n \in Names, Edit(n) \/ Commit(n) \/ LeadMerge(n) \/ Prune(n) PROVE LeftoversFit'
  BY <1>10 DEF Edit, Commit, LeadMerge, Prune
<1>11. ASSUME NEW n \in Names, RemoveDirByHand(n) \/ DeleteRefByHand(n) PROVE LeftoversFit'
  BY <1>11 DEF RemoveDirByHand, DeleteRefByHand, Intervene
<1>12. CASE UNCHANGED vars
  BY <1>12 DEF vars
<1> QED
  BY <1>1, <1>2, <1>3, <1>4, <1>5, <1>6, <1>7, <1>8, <1>9, <1>10, <1>11, <1>12 DEF Next, Step

\* "cleanup unregisters them": while nobody intervenes by hand and no other
\* process prepares or cleans up the name that a cleanup works on, a row goes away only when directory, registration
\* and branch are gone, whatever crash or refusal came before and whenever
\* subagents commit.
THEOREM UnregisteredLeavesNothing ==
  ASSUME MaxByHand = 0 PROVE Spec /\ []CleanupAlone => UnregisteredHoldsNothing
<1> DEFINE Gone == \A n \in Names : row[n] # "none" /\ row'[n] = "none" =>
                       n \notin dirs \cup admins \cup branches
<1>1. Init => LeftoversFit
  BY DEF Init, LeftoversFit
<1>2. TypeOK /\ CleanupAlone /\ LeftoversFit /\ [Next]_vars => LeftoversFit'
  BY LeftoversStep
<1>3. ASSUME TypeOK, LeftoversFit, [Next]_vars PROVE [Gone]_vars
  <2> SUFFICES ASSUME NEW n \in Names, row[n] # "none", row'[n] = "none"
               PROVE  n \notin dirs \cup admins \cup branches
    OBVIOUS
  <2>1. PICK p \in Procs : CleanupDelete(p) /\ arg[p] = n
    BY <1>3
    DEF Next, Step, BeginPrepare, PrepareAdd, PrepareInsert, BeginFinish,
        FinishStatus, FinishUpdate, BeginCleanup, CleanupPath, CleanupTip,
        CleanupStatus, CleanupMerged, CleanupRemove, CleanupBranch,
        CleanupDelete, Crash, CrashInRemove, Edit, Commit, LeadMerge,
        RemoveDirByHand, DeleteRefByHand, Prune, vars, TypeOK, RowStatus
  <2> QED BY <1>3, <2>1 DEF CleanupDelete, LeftoversFit
<1> QED BY <1>1, <1>2, <1>3, TypeCorrect, PTL DEF Spec, UnregisteredHoldsNothing
=============================================================================
