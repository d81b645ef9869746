------------------------------ MODULE RunTerminal ------------------------------
(***************************************************************************)
(* The bookkeeping Studio keeps per run id to merge the two event streams  *)
(* that report the same run (cq-office, features/agents/state:             *)
(* runtimeTerminalWorkflow.ts and the reducers of                          *)
(* runtimeEventCoordinatorWorkflow.ts): the terminal record of a run, the  *)
(* closed-run ignore window and the lifecycle-fallback timer.  One record  *)
(* "co" stands for RuntimeEventCoordinatorState plus the timer map of      *)
(* gatewayRuntimeEventHandler.ts; each operator is one reducer command.    *)
(* Sequence number 0 stands for "no sequence number".                      *)
(***************************************************************************)
EXTENDS Naturals

CONSTANTS
    Runs,       \* run ids
    None,       \* no run
    MaxSeq      \* bound on the sequence numbers of chat events

ASSUME RunTerminalAssumption == None \notin Runs /\ MaxSeq \in Nat

MaybeRun == Runs \cup {None}
Source   == {"none", "chat", "fallback"}
Term == [known : BOOLEAN, seen : BOOLEAN, seq : 0..MaxSeq, by : Source]
EmptyTerm == [known |-> FALSE, seen |-> FALSE, seq |-> 0, by |-> "none"]

\* expired: closed runs whose 30 s are over but which no event pruned yet.
\* timer[r]: the run whose streamed text the pending fallback of r carries.
Coordinator == [term : [Runs -> Term], closed : SUBSET Runs,
                expired : SUBSET Runs, timer : [Runs -> MaybeRun]]
NoCoordination == [term |-> [r \in Runs |-> EmptyTerm], closed |-> {},
                   expired |-> {}, timer |-> [r \in Runs |-> None]]

WithTerm(co, r, t) ==
    [term |-> [co.term EXCEPT ![r] = t], closed |-> co.closed,
     expired |-> co.expired, timer |-> co.timer]

WithTimer(co, r, owner) ==
    [term |-> co.term, closed |-> co.closed, expired |-> co.expired,
     timer |-> [co.timer EXCEPT ![r] = owner]]

Pending(co, r) == co.timer[r] # None
Committed(co, r) == co.term[r].by # "none"

\* seeded fault: the comparison with the expiry time is inverted
PrunesLive(co) ==
    LET live == co.closed \ co.expired IN
    [term |-> [r \in Runs |-> IF r \in live THEN EmptyTerm ELSE co.term[r]],
     closed |-> co.closed \ live, expired |-> {},
     timer |-> [r \in Runs |-> IF r \in live THEN None ELSE co.timer[r]]]
Prune(co) ==
    [term |-> [r \in Runs |-> IF r \in co.expired THEN EmptyTerm ELSE co.term[r]],
     closed |-> co.closed \ co.expired, expired |-> {},
     timer |-> [r \in Runs |-> IF r \in co.expired THEN None ELSE co.timer[r]]]

\* The per-run stream buffers that clearRunTracking also drops are not kept
\* here: what is left of it is the cancellation of the run's fallback.
ClearTracking(co, r) == WithTimer(co, r, None)

\* Dropping the terminal record also cancels the fallback (effect order of
\* applyRuntimeTerminalCommands).
ClearTerm(co, r) == WithTimer(WithTerm(co, r, EmptyTerm), r, None)

MarkClosed(co, r) ==
    [term |-> co.term, closed |-> co.closed \cup {r},
     expired |-> co.expired \ {r}, timer |-> co.timer]

Close(co, r) == ClearTracking(MarkClosed(co, r), r)

\* applyTerminalCommit
Commit(co, r, source, seq) ==
    LET t == co.term[r] IN
    WithTerm(co, r, [known |-> TRUE, seen |-> t.seen \/ source = "chat",
                     seq |-> IF seq # 0 THEN seq ELSE t.seq, by |-> source])

\* deriveChatTerminalDecision: the stale test and the new state
EqualAccepted(co, r, seq) ==           \* seeded fault: only compares for equality
    /\ Committed(co, r)
    /\ IF seq = 0 THEN co.term[r].by = "chat"
       ELSE co.term[r].seq # 0 /\ seq = co.term[r].seq
StaleTerminal(co, r, seq) ==
    /\ Committed(co, r)
    /\ IF seq = 0 THEN co.term[r].by = "chat"
       ELSE co.term[r].seq # 0 /\ seq <= co.term[r].seq

FinalSeen(co, r) ==
    WithTimer(WithTerm(co, r, [known |-> TRUE, seen |-> TRUE,
                               seq |-> co.term[r].seq, by |-> co.term[r].by]),
              r, None)

\* deriveLifecycleTerminalDecision, mode "event": a pending fallback is
\* cancelled by anything but an end that schedules a new one.
CancelFallback(co, r) ==
    IF ~Pending(co, r) THEN co
    ELSE IF Committed(co, r) \/ co.term[r].seen THEN WithTimer(co, r, None)
    ELSE ClearTerm(co, r)

Known(co, r) ==
    WithTerm(co, r, [known |-> TRUE, seen |-> co.term[r].seen,
                     seq |-> co.term[r].seq, by |-> co.term[r].by])

Defers(co, r, owner) == ~co.term[r].seen /\ owner # None
=============================================================================
