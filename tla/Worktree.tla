------------------------------- MODULE Worktree -------------------------------
(***************************************************************************)
(* The disposable Git worktree lifecycle of the AIOS kernel                *)
(* (src/ai_engineering_os/core/worktree.py): prepare, finish and cleanup   *)
(* called by any number of AIOS processes (CLI and MCP server), each a     *)
(* sequence of separate git commands and SQLite transactions between which *)
(* the process can die and everybody else can act: the subagents that edit *)
(* and commit inside a worktree, the lead session that merges their        *)
(* branches, and an operator who removes directories or refs by hand.      *)
(*                                                                         *)
(* Git is modelled from how the code uses it: a commit is an element of    *)
(* Commits, a branch tip is the set of commits it reaches, "worktree       *)
(* remove" refuses a dirty tree, "branch -D" refuses a branch that some    *)
(* registered worktree has checked out.                                    *)
(***************************************************************************)
EXTENDS Naturals, FiniteSets

CONSTANTS
    Names,      \* worktree slugs
    Procs,      \* concurrent AIOS processes
    Commits,    \* commit identities the subagents can create
    Quiesce,    \* TRUE: subagents stop committing while cleanup inspects
    MaxCrashes, \* bound on process deaths
    MaxByHand   \* bound on manual interventions of the operator

ASSUME WorktreeAssumption ==
    /\ Quiesce \in BOOLEAN
    /\ MaxCrashes \in Nat
    /\ MaxByHand \in Nat

VARIABLES
    row,        \* row[n]: status of the worktrees row of n, "none" if absent
    dirs,       \* names whose .worktrees/<name> directory exists
    admins,     \* names Git has registered as a worktree (.git/worktrees)
    dirty,      \* names whose working tree has uncommitted changes
    branches,   \* names whose aios/wt-<name> branch exists
    tip,        \* tip[n]: commits reachable from that branch
    main,       \* commits reachable from the target branch
    made,       \* commits ever created by a subagent (history)
    discarded,  \* commits an operator threw away by hand (history)
    pc,         \* pc[p]: next step of the operation process p is executing
    arg,        \* arg[p]: the worktree it works on
    saw,        \* saw[p]: what cleanup remembers: path_exists and the tip
    crashes, byHand

gitVars == <<dirs, admins, dirty, branches, tip, main>>
history == <<made, discarded>>
bounds  == <<crashes, byHand>>
vars == <<row, gitVars, history, pc, arg, saw, bounds>>

RowStatus == {"none", "active", "ready"}
Steps == {"idle", "prepAdd", "prepInsert", "finStatus", "finUpdate", "clPath",
          "clTip", "clStatus", "clMerged", "clRemove", "clBranch", "clDelete"}
Nothing == [path |-> FALSE, tip |-> FALSE, commits |-> {}]

TypeOK ==
    /\ row \in [Names -> RowStatus]
    /\ dirs \subseteq Names /\ admins \subseteq Names
    /\ dirty \subseteq dirs /\ branches \subseteq Names
    /\ tip \in [Names -> SUBSET Commits]
    /\ main \subseteq Commits /\ made \subseteq Commits
    /\ discarded \subseteq Commits
    /\ pc \in [Procs -> Steps]
    /\ arg \in [Procs -> Names]
    /\ saw \in [Procs -> [path: BOOLEAN, tip: BOOLEAN, commits: SUBSET Commits]]
    /\ crashes \in 0..MaxCrashes /\ byHand \in 0..MaxByHand

Init ==
    /\ row = [n \in Names |-> "none"]
    /\ dirs = {} /\ admins = {} /\ dirty = {} /\ branches = {}
    /\ tip = [n \in Names |-> {}]
    /\ main = {} /\ made = {} /\ discarded = {}
    /\ pc = [p \in Procs |-> "idle"]
    /\ arg \in [Procs -> Names]
    /\ saw = [p \in Procs |-> Nothing]
    /\ crashes = 0 /\ byHand = 0

Goto(p, step) == pc' = [pc EXCEPT ![p] = step]
Refuse(p) == Goto(p, "idle")     \* a WorktreeError: nothing else happens

-----------------------------------------------------------------------------
(* prepare: the path check, git worktree add -b, the INSERT.               *)

BeginPrepare(p, n) ==
    /\ pc[p] = "idle" /\ n \notin dirs
    /\ Goto(p, "prepAdd")
    /\ arg' = [arg EXCEPT ![p] = n]
    /\ UNCHANGED <<row, gitVars, history, saw, bounds>>

\* "git worktree add -b" creates the branch before it looks at the path: when
\* the path is taken (or registered though missing) it fails and leaves the
\* new branch behind.
PrepareAdd(p) ==
    LET n == arg[p] IN
    /\ pc[p] = "prepAdd"
    /\ IF n \in branches
       THEN /\ Refuse(p)
            /\ UNCHANGED gitVars
       ELSE /\ branches' = branches \cup {n}
            /\ tip' = [tip EXCEPT ![n] = main]
            /\ IF n \in dirs \cup admins
               THEN Refuse(p) /\ UNCHANGED <<dirs, admins>>
               ELSE /\ Goto(p, "prepInsert")
                    /\ dirs' = dirs \cup {n}
                    /\ admins' = admins \cup {n}
            /\ UNCHANGED <<dirty, main>>
    /\ UNCHANGED <<row, history, arg, saw, bounds>>

\* name, path and branch are UNIQUE in the worktrees table.
PrepareInsert(p) ==
    LET n == arg[p] IN
    /\ pc[p] = "prepInsert"
    /\ row' = IF row[n] = "none" THEN [row EXCEPT ![n] = "active"] ELSE row
    /\ Goto(p, "idle")
    /\ UNCHANGED <<gitVars, history, arg, saw, bounds>>

-----------------------------------------------------------------------------
(* finish: the row and the directory exist, git status is clean, UPDATE.   *)

BeginFinish(p, n) ==
    /\ pc[p] = "idle" /\ row[n] # "none" /\ n \in dirs
    /\ Goto(p, "finStatus")
    /\ arg' = [arg EXCEPT ![p] = n]
    /\ UNCHANGED <<row, gitVars, history, saw, bounds>>

FinishStatus(p) ==
    /\ pc[p] = "finStatus"
    /\ IF arg[p] \in dirs \ dirty THEN Goto(p, "finUpdate") ELSE Refuse(p)
    /\ UNCHANGED <<row, gitVars, history, arg, saw, bounds>>

FinishUpdate(p) ==
    LET n == arg[p] IN
    /\ pc[p] = "finUpdate"
    /\ row' = IF row[n] = "none" THEN row ELSE [row EXCEPT ![n] = "ready"]
    /\ Goto(p, "idle")
    /\ UNCHANGED <<gitVars, history, arg, saw, bounds>>

-----------------------------------------------------------------------------
(* cleanup: read the row, look at the path, resolve the tip, check that    *)
(* the tree is clean and the tip merged, then remove the worktree, delete  *)
(* the branch and delete the row.                                          *)

\* "status --porcelain" succeeds and prints nothing.
Clean(n) == n \in dirs \ dirty

\* What cleanup demands before it deletes anything: an unresolvable tip is
\* refused while the path is there, the tree is clean, the tip is merged.
AlwaysUnverifiable(p) == TRUE                              \* seeded fault
SeenUnverifiable(p) == saw[p].path
SeenClean(p) == saw[p].path => Clean(arg[p])
ReversedAncestor(p) == saw[p].tip => main \subseteq saw[p].commits \* seeded fault
SeenMerged(p) == saw[p].tip => saw[p].commits \subseteq main

\* "git worktree remove" is called without --force.
ForcedRemove(n) == n \in admins                            \* seeded fault
GitRemoves(n) == n \in admins /\ n \notin dirty

\* "git branch -D" fails on a branch that is checked out somewhere; the
\* WorktreeError ends the operation.
UncheckedDelete == "clDelete"                              \* seeded fault
AfterFailedDelete == "idle"

BeginCleanup(p, n) ==
    /\ pc[p] = "idle" /\ row[n] # "none"
    /\ Goto(p, "clPath")
    /\ arg' = [arg EXCEPT ![p] = n]
    /\ UNCHANGED <<row, gitVars, history, saw, bounds>>

CleanupPath(p) ==
    /\ pc[p] = "clPath"
    /\ saw' = [saw EXCEPT ![p] = [path |-> arg[p] \in dirs, tip |-> FALSE, commits |-> {}]]
    /\ Goto(p, "clTip")
    /\ UNCHANGED <<row, gitVars, history, arg, bounds>>

CleanupTip(p) ==
    LET n == arg[p] IN
    /\ pc[p] = "clTip"
    /\ IF n \in branches
       THEN /\ saw' = [saw EXCEPT ![p] =
                        [path |-> saw[p].path, tip |-> TRUE, commits |-> tip[n]]]
            /\ Goto(p, "clStatus")
       ELSE /\ UNCHANGED saw
            /\ IF SeenUnverifiable(p) THEN Refuse(p) ELSE Goto(p, "clStatus")
    /\ UNCHANGED <<row, gitVars, history, arg, bounds>>

CleanupStatus(p) ==
    /\ pc[p] = "clStatus"
    /\ IF SeenClean(p) THEN Goto(p, "clMerged") ELSE Refuse(p)
    /\ UNCHANGED <<row, gitVars, history, arg, saw, bounds>>

CleanupMerged(p) ==
    /\ pc[p] = "clMerged"
    /\ IF SeenMerged(p) THEN Goto(p, "clRemove") ELSE Refuse(p)
    /\ UNCHANGED <<row, gitVars, history, arg, saw, bounds>>

CleanupRemove(p) ==
    LET n == arg[p] IN
    /\ pc[p] = "clRemove"
    /\ IF ~saw[p].path
       THEN Goto(p, "clBranch") /\ UNCHANGED <<dirs, admins>>
       ELSE IF GitRemoves(n)
       THEN /\ dirs' = dirs \ {n}
            /\ admins' = admins \ {n}
            /\ Goto(p, "clBranch")
       ELSE Refuse(p) /\ UNCHANGED <<dirs, admins>>
    /\ UNCHANGED <<row, dirty, branches, tip, main, history, arg, saw, bounds>>

\* A branch that is already gone counts as deleted (_branch_gone).
CleanupBranch(p) ==
    LET n == arg[p] IN
    /\ pc[p] = "clBranch"
    /\ IF saw[p].tip /\ n \in branches /\ n \in admins
       THEN Goto(p, AfterFailedDelete) /\ UNCHANGED branches
       ELSE /\ Goto(p, "clDelete")
            /\ branches' = IF saw[p].tip THEN branches \ {n} ELSE branches
    /\ UNCHANGED <<row, dirs, admins, dirty, tip, main, history, arg, saw, bounds>>

CleanupDelete(p) ==
    /\ pc[p] = "clDelete"
    /\ row' = [row EXCEPT ![arg[p]] = "none"]
    /\ Goto(p, "idle")
    /\ UNCHANGED <<gitVars, history, arg, saw, bounds>>

-----------------------------------------------------------------------------
(* Process death, also by the 30 s subprocess timeout: the database and    *)
(* Git keep what was done.  Git removes the files of a worktree before its *)
(* administrative entry, and can be killed in between.                     *)

Crash(p) ==
    /\ pc[p] # "idle" /\ crashes < MaxCrashes
    /\ crashes' = crashes + 1
    /\ Goto(p, "idle")
    /\ UNCHANGED <<row, gitVars, history, arg, saw, byHand>>

CrashInRemove(p) ==
    LET n == arg[p] IN
    /\ pc[p] = "clRemove" /\ saw[p].path /\ GitRemoves(n)
    /\ crashes < MaxCrashes
    /\ crashes' = crashes + 1
    /\ dirs' = dirs \ {n}
    /\ Goto(p, "idle")
    /\ UNCHANGED <<row, admins, dirty, branches, tip, main, history, arg, saw, byHand>>

-----------------------------------------------------------------------------
(* The others: subagents, the lead session, an operator.                   *)

\* A cleanup of n is under way from the moment it has read the tip.
UnderCleanup(n) == \E p \in Procs :
    arg[p] = n /\ pc[p] \in {"clStatus", "clMerged", "clRemove", "clBranch"}

Edit(n) ==
    /\ n \in dirs /\ n \in branches /\ n \notin dirty
    /\ Cardinality(dirty) < Cardinality(Commits \ made)
    /\ Quiesce => ~UnderCleanup(n)
    /\ dirty' = dirty \cup {n}
    /\ UNCHANGED <<row, dirs, admins, branches, tip, main, history, pc, arg, saw, bounds>>

Commit(n) ==
    /\ n \in dirty /\ n \in branches
    /\ Quiesce => ~UnderCleanup(n)
    /\ \E c \in Commits \ made :
          /\ made' = made \cup {c}
          /\ tip' = [tip EXCEPT ![n] = @ \cup {c}]
    /\ dirty' = dirty \ {n}
    /\ UNCHANGED <<row, dirs, admins, branches, main, discarded, pc, arg, saw, bounds>>

LeadMerge(n) ==
    /\ n \in branches /\ ~(tip[n] \subseteq main)
    /\ main' = main \cup tip[n]
    /\ UNCHANGED <<row, dirs, admins, dirty, branches, tip, history, pc, arg, saw, bounds>>

Intervene == byHand < MaxByHand /\ byHand' = byHand + 1

\* rm -rf of a worktree directory: Git still has it registered.
RemoveDirByHand(n) ==
    /\ n \in dirs /\ Intervene
    /\ dirs' = dirs \ {n} /\ dirty' = dirty \ {n}
    /\ UNCHANGED <<row, admins, branches, tip, main, history, pc, arg, saw, crashes>>

\* git update-ref -d of the branch: what only it reached is thrown away, and
\* the worktree, its HEAD unborn, shows every file as added.
DeleteRefByHand(n) ==
    /\ n \in branches /\ Intervene
    /\ branches' = branches \ {n}
    /\ discarded' = discarded \cup tip[n]
    /\ dirty' = dirty \cup ({n} \cap dirs)
    /\ UNCHANGED <<row, dirs, admins, tip, main, made, pc, arg, saw, crashes>>

\* git worktree prune, which AIOS never runs: somebody may call it, or git gc
\* may after some months.
Prune(n) ==
    /\ n \in admins \ dirs
    /\ admins' = admins \ {n}
    /\ UNCHANGED <<row, dirs, dirty, branches, tip, main, history, pc, arg, saw, bounds>>

-----------------------------------------------------------------------------
Step(p) ==
    \/ PrepareAdd(p) \/ PrepareInsert(p)
    \/ FinishStatus(p) \/ FinishUpdate(p)
    \/ CleanupPath(p) \/ CleanupTip(p) \/ CleanupStatus(p) \/ CleanupMerged(p)
    \/ CleanupRemove(p) \/ CleanupBranch(p) \/ CleanupDelete(p)

Next ==
    \/ \E p \in Procs : Step(p) \/ Crash(p) \/ CrashInRemove(p)
    \/ \E p \in Procs, n \in Names :
          BeginPrepare(p, n) \/ BeginFinish(p, n) \/ BeginCleanup(p, n)
    \/ \E n \in Names : Edit(n) \/ Commit(n) \/ LeadMerge(n)
    \/ \E n \in Names : RemoveDirByHand(n) \/ DeleteRefByHand(n) \/ Prune(n)

Spec == Init /\ [][Next]_vars

-----------------------------------------------------------------------------
(* Safety.                                                                 *)

\* "Cleanup refuses to destroy unmerged or dirty work" (cleanup's docstring):
\* every commit a subagent ever made is still reachable from the target branch
\* or from an existing worktree branch, unless an operator threw it away.
NoCommitLost ==
    made \subseteq main \cup discarded \cup UNION {tip[n] : n \in branches}

\* The strengthening that makes NoCommitLost inductive: between the merge
\* proof and the branch deletion the branch cannot outgrow the target, and a
\* worktree seen to exist is only removed with a resolved tip.
MergeProofHolds ==
    \A p \in Procs :
        LET n == arg[p] IN
        /\ pc[p] \in {"clStatus", "clMerged"} /\ saw[p].tip /\ n \in branches
              => tip[n] \subseteq main \cup saw[p].commits
        /\ pc[p] \in {"clRemove", "clBranch"} /\ saw[p].tip /\ n \in branches
              => tip[n] \subseteq main
        /\ pc[p] \in {"clStatus", "clMerged", "clRemove"} /\ saw[p].path
              => saw[p].tip

\* "finish" and "cleanup" never lose uncommitted work either: a directory
\* that disappears other than by hand was clean, and what its branch reached
\* was merged ("before anything is deleted").
RemovalProved ==
    [][\A n \in dirs \ dirs' : byHand' = byHand =>
          /\ n \notin dirty
          /\ n \in branches => tip[n] \subseteq main]_vars

\* "cleanup unregisters them" and names can be reused: when the row of a
\* worktree goes away, its directory, its Git registration and its branch are
\* gone already, whatever crash or refusal came before (without manual
\* interventions, and while no other process works on the name a cleanup works
\* on: a ref may be deleted under its feet, or the same name prepared anew).
UnregisteredHoldsNothing ==
    [][\A n \in Names : row[n] # "none" /\ row'[n] = "none" =>
          n \notin dirs \cup admins \cup branches]_vars

-----------------------------------------------------------------------------
(* Refinement: worktree branches are areas of disposable work.             *)

Promise == INSTANCE DisposableWork WITH area <- branches, reach <- tip

\* Every step of the lifecycle is a step (or a stutter) of the abstract
\* protocol, in which an area is disposed of only when its work is merged.
ImplementsDisposableWork == Promise!Spec

-----------------------------------------------------------------------------
(* Liveness: the lead keeps merging and keeps calling cleanup (SF, because *)
(* other operations may occupy the process), a started operation runs on   *)
(* unless the process dies, and subagents commit what they edited.         *)
(* Nobody need prune anything.                                             *)

LeadDiligence ==
    /\ \A p \in Procs : WF_vars(Step(p))
    /\ \A n \in Names :
          /\ SF_vars(\E p \in Procs : BeginCleanup(p, n))
          /\ SF_vars(Commit(n))
          /\ WF_vars(LeadMerge(n))

FairSpec == Spec /\ LeadDiligence

\* A crash between two steps of cleanup leaves something a later cleanup can
\* finish: a registered worktree is unregistered in the end.  Only a crash
\* inside git worktree remove may leave a registration of git's without a
\* directory; then branch -D keeps failing (BRANCH_DELETE_FAILED), and if it is
\* pruned, the worktree is unregistered after all.
Stale(n) == n \in admins \ dirs
EventuallyUnregistered ==
    \A n \in Names : row[n] # "none" ~> row[n] = "none" \/ Stale(n)

=============================================================================
