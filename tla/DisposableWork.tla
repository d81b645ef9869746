---------------------------- MODULE DisposableWork ----------------------------
(***************************************************************************)
(* What docs/WORKTREE.md promises of disposable worktrees, without saying  *)
(* how: an area opens at the target branch, gathers commits, may be merged *)
(* any number of times, and is disposed of only when the target contains   *)
(* everything it reaches.  Only a deliberate manual act discards work.     *)
(***************************************************************************)
CONSTANTS Names, Commits

VARIABLES
    area,       \* names of the areas that exist
    reach,      \* reach[n]: commits reachable from area n
    main,       \* commits reachable from the target branch
    made,       \* commits ever created
    discarded   \* commits discarded by hand

absVars == <<area, reach, main, made, discarded>>

Init ==
    /\ area = {} /\ reach = [n \in Names |-> {}]
    /\ main = {} /\ made = {} /\ discarded = {}

Open(n) ==
    /\ n \notin area
    /\ area' = area \cup {n}
    /\ reach' = [reach EXCEPT ![n] = main]
    /\ UNCHANGED <<main, made, discarded>>

Work(n) ==
    /\ n \in area
    /\ \E c \in Commits \ made :
          /\ made' = made \cup {c}
          /\ reach' = [reach EXCEPT ![n] = @ \cup {c}]
    /\ UNCHANGED <<area, main, discarded>>

Merge(n) ==
    /\ n \in area
    /\ main' = main \cup reach[n]
    /\ UNCHANGED <<area, reach, made, discarded>>

Dispose(n) ==
    /\ n \in area /\ reach[n] \subseteq main
    /\ area' = area \ {n}
    /\ UNCHANGED <<reach, main, made, discarded>>

Discard(n) ==
    /\ n \in area
    /\ area' = area \ {n}
    /\ discarded' = discarded \cup reach[n]
    /\ UNCHANGED <<reach, main, made>>

Next == \E n \in Names : Open(n) \/ Work(n) \/ Merge(n) \/ Dispose(n) \/ Discard(n)

Spec == Init /\ [][Next]_absVars

=============================================================================
