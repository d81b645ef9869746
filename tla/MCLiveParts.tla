----------------------------- MODULE MCLiveParts -----------------------------
(***************************************************************************)
(* Four parts in which something must eventually happen, checked in one    *)
(* run: an office behind the proxy, the changes of agents, the history of  *)
(* an agent, and the task boards.  They share no variable; the initial     *)
(* state chooses the part that moves.  A part's fairness is about its own  *)
(* actions and asks nothing of the others.                                 *)
(***************************************************************************)
EXTENDS OfficeLink, ConfigMutations, HistorySync, TaskBoard, TLC

CONSTANTS a1, r1, i1, o1, c1, c2, rename1, delete1, j1, f1,
          win1, win2, task1

OneAgent == {a1}
OneRun == {r1}
OneAsk == {i1}
OneOffice == {o1}
TwoConnects == {c1, c2}
NoClass == {}

TwoMutations == {rename1, delete1}
KindOf == [m \in TwoMutations |-> IF m = delete1 THEN "delete" ELSE "rename"]
TargetOf == [m \in TwoMutations |-> a1]
OneJob == {j1}
OwnerOf == [j \in OneJob |-> a1]

\* Runs that start elsewhere: nothing is typed and no session renewed here.
NoneTyped == {}
OneElsewhere == {f1}
OneCall == {1}
SomeTexts == [l \in TurnLines |-> l.role]

\* Two windows that hear of the same message.
TwoWindows == {win1, win2}
NoTask == {}
OneTask == {task1}
TwoStatuses == {"todo", "done"}

VARIABLE part

LiveInit ==
    /\ part \in {"link", "mutations", "history", "board"}
    /\ LinkInit /\ MutationsInit /\ HistoryInit /\ BoardInit
    /\ part = "history" \/ (talk.log = <<>> /\ ~line)
LiveNext ==
    \/ part = "link" /\ LinkNext /\ UNCHANGED <<part, mutations, history, board>>
    \/ part = "mutations" /\ MutationsNext /\ UNCHANGED <<part, linkVars, history, board>>
    \/ part = "history" /\ HistoryNext /\ UNCHANGED <<part, linkVars, mutations, board>>
    \/ part = "board" /\ BoardNext /\ UNCHANGED <<part, linkVars, mutations, history>>

\* LinkFairness, MutationsFairness, HistoryFairness and BoardFairness, each in
\* its own part.
Link(A) == part = "link" /\ A
Change(A) == part = "mutations" /\ A
History(A) == part = "history" /\ A
Board(A) == part = "board" /\ A
LiveFairness ==
    /\ WF_linkVars(Link(SettingsEnd)) /\ WF_linkVars(Link(HandshakeEnds))
    /\ WF_linkVars(Link(AbortEnds)) /\ WF_linkVars(Link(AdapterAnswers))
    /\ WF_linkVars(Link(ProxySeesClose))
    /\ WF_mutations(Change(ConnectionReturns)) /\ WF_mutations(Change(RunsEnd))
    /\ SF_mutations(Change(StartNext))
    /\ \A m \in Mutations : WF_mutations(Change(GoesOn(m)))
    /\ WF_history(History(Commits)) /\ WF_history(History(Arrives))
    /\ WF_history(History(latest.status = "running" /\ Refreshes))
    /\ WF_history(History(Reconciles)) /\ WF_history(History(Returns))
    /\ \A r \in Turns : WF_history(History(RunEnds(r)))
    /\ \A c \in HistoryCalls :
          SF_history(History(ReadsLog(c))) /\ WF_history(History(Answers(c)))
    /\ \A w \in Windows :
          /\ WF_board(Board(Polls(w))) /\ WF_board(Board(StoreLists(w)))
          /\ WF_board(Board(ShowsList(w)))
LiveSpec ==
    LiveInit /\ [][LiveNext]_<<part, linkVars, mutations, history, board>> /\ LiveFairness
=============================================================================
