------------------------- MODULE OfficeAdapterProofs --------------------------
(***************************************************************************)
(* Proofs about the office adapter for every number of offices, agents,    *)
(* runs and approvals: types, one final per run, a final comes from the    *)
(* run's own turn, what is announced of an approval happened, what is      *)
(* parked is awaited, and an approval is shown as long as it is open.      *)
(***************************************************************************)
EXTENDS OfficeAdapter, SequenceTheorems, TLAPS

USE OfficeAssumption

\* The events a session of the host reports.
PhaseEvents ==
    {Plain(type) : type \in {"turn/start", "user/message", "approval/asked",
                             "approval/decided"}}
    \cup {ToolCallEvent(class) : class \in ToolClasses \cup {None}}
    \cup {TodoEvent(list) : list \in TodoLists}
    \cup {EndEvent(kind) : kind \in {"completed", "error", "aborted"}}

\* The fold stays within its states.
LEMMA FoldType ==
  ASSUME NEW s \in PhaseState, NEW e \in PhaseEvents
  PROVE  applyPhaseEvent(s, e) \in PhaseState
<1> USE DEF PhaseState, Phases
<1>1. CASE e \in {Plain("turn/start"), Plain("user/message")}
  <2>1. e.type \in {"turn/start", "user/message"}
    BY <1>1 DEF Plain
  <2>2. applyPhaseEvent(s, e) = [s EXCEPT !.approval = FALSE]
    BY <2>1 DEF applyPhaseEvent
  <2> QED BY <2>2
<1>5. CASE e = Plain("approval/asked")
  BY <1>5 DEF applyPhaseEvent, Plain
<1>6. CASE e = Plain("approval/decided")
  <2>1. applyPhaseEvent(s, e) = [s EXCEPT !.approval = FALSE, !.phase = Fallback(s, "coding")]
    BY <1>6 DEF applyPhaseEvent, Plain
  <2> QED BY <2>1 DEF Fallback, ToolPhases
<1>2. CASE \E class \in ToolClasses \cup {None} : e = ToolCallEvent(class)
  <2>1. PICK class \in ToolClasses \cup {None} : e = ToolCallEvent(class)
    BY <1>2
  <2>2. e.type = "tool/call" /\ e.class = class /\ class \in ToolPhases \cup {None}
    BY <2>1 DEF ToolCallEvent
  <2>3. applyPhaseEvent(s, e) =
           [s EXCEPT !.lastTool = IF class = None THEN s.lastTool ELSE class,
                     !.phase = CASE s.approval -> "approval"
                                 [] ~s.approval /\ class = None -> s.phase
                                 [] OTHER -> class]
    BY <2>2 DEF applyPhaseEvent
  <2> QED BY <2>2, <2>3
<1>3. CASE \E list \in TodoLists : e = TodoEvent(list)
  <2>1. PICK list \in TodoLists : e = TodoEvent(list)
    BY <1>3
  <2>2. e.type = "todo/write" /\ e.list = list
    BY <2>1 DEF TodoEvent
  <2>3. applyPhaseEvent(s, e) = OnTodo(s, list)
    BY <2>2 DEF applyPhaseEvent
  <2>4. OnTodo(s, list) \in PhaseState
    BY DEF OnTodo
  <2> QED BY <2>3, <2>4
<1>4. CASE e \in {EndEvent("error"), EndEvent("aborted")}
  <2>1. e.type = "turn/end" /\ e.kind \in {"error", "aborted"}
    BY <1>4 DEF EndEvent
  <2>2. applyPhaseEvent(s, e) = [s EXCEPT !.phase = "blocked"]
    BY <2>1 DEF applyPhaseEvent, Stops
  <2> QED BY <2>2
<1>7. CASE e = EndEvent("completed")
  <2>1. e.type = "turn/end" /\ e.kind = "completed"
    BY <1>7 DEF EndEvent
  <2> DEFINE p == IF s.todosKnown /\ ~s.openTodos THEN "done" ELSE Fallback(s, s.phase)
  <2>2. p \in Phases
    BY DEF Fallback
  <2>3. applyPhaseEvent(s, e) = [s EXCEPT !.phase = p]
    BY <2>1 DEF applyPhaseEvent, Stops
  <2> HIDE DEF p
  <2> QED BY <2>2, <2>3
<1> QED BY <1>1, <1>2, <1>3, <1>4, <1>5, <1>6, <1>7 DEF PhaseEvents

-----------------------------------------------------------------------------
(* Types                                                                   *)

\* What the adapter shows of an agent after an event is a state of the fold.
LEMMA Observes ==
  ASSUME TypeOK, NEW a \in Agents, NEW e \in PhaseEvents, Observe(a, e)
  PROVE  phase' \in [Agents -> PhaseState]
<1>1. phase[a] \in PhaseState /\ phase \in [Agents -> PhaseState]
  BY DEF TypeOK
<1>2. applyPhaseEvent(phase[a], e) \in PhaseState
  BY <1>1, FoldType
<1> QED BY <1>1, <1>2 DEF Observe, Becomes

\* Every event the sessions report is one the fold knows.
LEMMA Reported ==
  /\ \A type \in {"turn/start", "user/message", "approval/asked", "approval/decided"} :
        Plain(type) \in PhaseEvents
  /\ \A class \in ToolClasses \cup {None} : ToolCallEvent(class) \in PhaseEvents
  /\ \A list \in TodoLists : TodoEvent(list) \in PhaseEvents
  /\ \A kind \in {"completed", "error", "aborted"} : EndEvent(kind) \in PhaseEvents
BY DEF PhaseEvents

\* Every variable keeps its type, whatever the sockets, the host and the
\* offices do.
THEOREM TypeCorrect == Spec => []TypeOK
<1>1. Init => TypeOK
  <2>1. initialPhaseState \in PhaseState
    BY DEF initialPhaseState, PhaseState, Phases
  <2> QED BY <2>1 DEF Init, TypeOK, Outcomes
<1>2. TypeOK /\ [Next]_vars => TypeOK'
  <2> SUFFICES ASSUME TypeOK, [Next]_vars PROVE TypeOK'
    OBVIOUS
  <2> USE DEF TypeOK, host, asks, chat, Quiet
  <2>1. ASSUME NEW o \in Offices, OfficeSteps(o) PROVE TypeOK'
    <3>1. CASE Connect(o)
      BY <3>1 DEF Connect
    <3>2. CASE Close(o)
      BY <3>2 DEF Close
    <3>3. ASSUME NEW a \in Agents, ChatAbort(o, a) PROVE TypeOK'
      BY <3>3 DEF ChatAbort, SignalAborts, Outcomes
    <3>4. ASSUME NEW a \in Agents, NEW r \in Runs, ChatSend(o, a, r) PROVE TypeOK'
      <4>1. Append(inbox[a], r) \in Seq(Runs)
        OBVIOUS
      <4>2. inbox' \in [Agents -> Seq(Runs)]
        BY <3>4, <4>1 DEF ChatSend
      <4> QED BY <3>4, <4>2 DEF ChatSend, SetPending
    <3>5. ASSUME NEW a \in Agents, NEW r \in Runs, ChatSendFails(o, a, r) PROVE TypeOK'
      BY <3>5 DEF ChatSendFails
    <3>6. ASSUME NEW i \in Asks, NEW d \in Decisions, Resolve(o, i, d) PROVE TypeOK'
      BY <3>6 DEF Resolve, Outcomes, OutcomeOf
    <3> QED BY <2>1, <3>1, <3>2, <3>3, <3>4, <3>5, <3>6 DEF OfficeSteps
  <2>2. ASSUME NEW a \in Agents, HostSteps(a) PROVE TypeOK'
    <3>1. CASE SessionCreated(a)
      BY <3>1 DEF SessionCreated
    <3>2. CASE SessionDisposed(a)
      <4>1. <<>> \in Seq(Runs)
        OBVIOUS
      <4> QED BY <3>2, <4>1 DEF SessionDisposed, SignalAborts, Outcomes
    <3>3. CASE TurnStarts(a)
      <4>1. phase' \in [Agents -> PhaseState]
        <5> DEFINE p == applyPhaseEvent(applyPhaseEvent(phase[a], Plain("turn/start")),
                                        Plain("user/message"))
        <5>1. p \in PhaseState
          BY FoldType, Reported
        <5>2. Becomes(a, p)
          BY <3>3 DEF TurnStarts
        <5> HIDE DEF p
        <5> QED BY <5>1, <5>2 DEF Becomes
      <4>2. CASE inbox[a] # <<>> /\ turn' = [turn EXCEPT ![a] = Head(inbox[a])]
                 /\ inbox' = [inbox EXCEPT ![a] = Tail(@)] /\ UNCHANGED <<typed, solo>>
        <5>1. Head(inbox[a]) \in Runs /\ Tail(inbox[a]) \in Seq(Runs)
          BY <4>2
        <5> QED BY <3>3, <4>1, <4>2, <5>1 DEF TurnStarts
      <4>3. CASE typed < MaxTerminal /\ turn' = [turn EXCEPT ![a] = Terminal]
                 /\ typed' = typed + 1 /\ solo' = solo \ {a} /\ UNCHANGED inbox
        BY <3>3, <4>1, <4>3 DEF TurnStarts
      <4> QED BY <3>3, <4>2, <4>3 DEF TurnStarts
    <3>4. CASE AssistantSpeaks(a)
      <4>1. pendingRuns[a] \in Runs /\ finals[pendingRuns[a]] \in Seq(Runs \cup {Terminal})
            /\ turn[a] \in Runs \cup {Terminal}
        BY <3>4 DEF AssistantSpeaks
      <4>2. Append(finals[pendingRuns[a]], turn[a]) \in Seq(Runs \cup {Terminal})
        BY <4>1
      <4>3. finals' \in [Runs -> Seq(Runs \cup {Terminal})]
        BY <3>4, <4>1, <4>2 DEF AssistantSpeaks
      <4> QED BY <3>4, <4>3 DEF AssistantSpeaks, TakePending
    <3>5. CASE ToolCalled(a)
      BY <3>5, Observes, Reported DEF ToolCalled
    <3>6. CASE TodosWritten(a)
      BY <3>6, Observes, Reported DEF TodosWritten
    <3>7. ASSUME NEW i \in Asks, ApprovalAsked(a, i) PROVE TypeOK'
      <4>1. phase' \in [Agents -> PhaseState]
        BY <3>7, Observes, Reported DEF ApprovalAsked
      <4>2. told' \in [Offices -> SUBSET Asks] /\ parked' \subseteq Asks
        <5> DEFINE all == [o \in Offices |-> IF o \in downlinks THEN told[o] \cup {i} ELSE told[o]]
        <5>1. \A o \in Offices : told[o] \cup {i} \in SUBSET Asks /\ told[o] \in SUBSET Asks
          OBVIOUS
        <5>2. all \in [Offices -> SUBSET Asks]
          BY <5>1
        <5>3. told' = told \/ told' = all
          BY <3>7 DEF ApprovalAsked
        <5> HIDE DEF all
        <5>4. told' \in [Offices -> SUBSET Asks]
          BY <5>2, <5>3
        <5> QED BY <3>7, <5>4 DEF ApprovalAsked
      <4>3. asking' \in [Agents -> Asks \cup {None}] /\ outcome' \in [Asks -> Outcomes]
        BY <3>7 DEF ApprovalAsked, Outcomes
      <4> QED BY <3>7, <4>1, <4>2, <4>3 DEF ApprovalAsked
    <3>8. CASE ApprovalDecided(a)
      <4>1. phase' \in [Agents -> PhaseState]
        BY <3>8, Observes, Reported DEF ApprovalDecided
      <4> QED BY <3>8, <4>1 DEF ApprovalDecided
    <3>9. CASE TurnEnds(a)
      <4>1. phase' \in [Agents -> PhaseState]
        BY <3>9, Observes, Reported DEF TurnEnds
      <4> QED BY <3>9, <4>1 DEF TurnEnds
    <3> QED BY <2>2, <3>1, <3>2, <3>3, <3>4, <3>5, <3>6, <3>7, <3>8, <3>9 DEF HostSteps
  <2>3. ASSUME NEW i \in Asks, OthersAnswer(i) PROVE TypeOK'
    BY <2>3 DEF OthersAnswer, Outcomes
  <2>4. CASE Unmount
    BY <2>4 DEF Unmount
  <2>5. CASE UNCHANGED vars
    BY <2>5 DEF vars
  <2> QED BY <2>1, <2>2, <2>3, <2>4, <2>5 DEF Next
<1> QED BY <1>1, <1>2, PTL DEF Spec

-----------------------------------------------------------------------------
(* The final of a run                                                      *)

\* A run that is pending was sent, has no final yet, and is pending for one
\* agent only.  An agent offices alone talk to, each time when it is idle,
\* works for the pending run or for none.
PendingIsFresh ==
    /\ \A r \in Runs : Len(finals[r]) <= 1 /\ (finals[r] # <<>> => r \in sent)
    /\ \A a \in Agents : pendingRuns[a] # None =>
          pendingRuns[a] \in sent /\ finals[pendingRuns[a]] = <<>>
    /\ \A a, b \in Agents : pendingRuns[a] = pendingRuns[b] /\ pendingRuns[a] # None => a = b
OwnTurn(a) ==
    /\ inbox[a] = <<>> \/ (turn[a] = None /\ Len(inbox[a]) = 1)
    /\ inbox[a] # <<>> => pendingRuns[a] \in {Head(inbox[a]), None}
    /\ turn[a] # None => turn[a] \in Runs /\ pendingRuns[a] \in {turn[a], None}
FinalsInvariant ==
    /\ PendingIsFresh
    /\ \A a \in solo : OwnTurn(a)
    /\ FinalOfOwnTurn

\* However offices, turns, aborts and disposals interleave, a run gets one
\* final; and while offices alone talk to idle agents, from its own turn.
THEOREM OneFinal == Spec => []OneFinalPerRun /\ []FinalOfOwnTurn
<1> USE DEF TypeOK
<1>1. Init => FinalsInvariant
  BY DEF Init, FinalsInvariant, PendingIsFresh, FinalOfOwnTurn, OwnTurn
<1>2. TypeOK /\ TypeOK' /\ FinalsInvariant /\ [Next]_vars => FinalsInvariant'
  <2> SUFFICES ASSUME TypeOK, TypeOK', FinalsInvariant, [Next]_vars PROVE FinalsInvariant'
    OBVIOUS
  <2> USE DEF FinalsInvariant, PendingIsFresh, OwnTurn, FinalOfOwnTurn
  <2>1. CASE UNCHANGED <<pendingRuns, finals, sent, solo, inbox, turn>>
    BY <2>1
  <2>2. ASSUME NEW a \in Agents, NEW r \in Runs, NEW o \in Offices, ChatSend(o, a, r)
        PROVE  FinalsInvariant'
    <3> USE <2>2 DEF ChatSend, SetPending
    <3>1. PendingIsFresh'
      OBVIOUS
    <3>2. ASSUME NEW b \in solo' PROVE OwnTurn(b)'
      <4>1. CASE b # a
        BY <4>1, <3>2
      <4>2. CASE b = a
        <5>1. turn[a] = None /\ inbox[a] = <<>>
          BY <4>2, <3>2 DEF Idle
        <5>2. turn'[a] = None /\ pendingRuns'[a] = r /\ inbox'[a] = Append(inbox[a], r)
          BY <5>1
        <5>3. Len(inbox'[a]) = 1 /\ Head(inbox'[a]) = r
          BY <5>1, <5>2
        <5> QED BY <4>2, <5>2, <5>3
      <4> QED BY <4>1, <4>2
    <3>3. FinalOfOwnTurn'
      BY solo' \subseteq solo
    <3> QED BY <3>1, <3>2, <3>3
  <2>3. ASSUME NEW a \in Agents, NEW r \in Runs, NEW o \in Offices, ChatSendFails(o, a, r)
        PROVE  FinalsInvariant'
    BY <2>3 DEF ChatSendFails, host
  <2>4. ASSUME NEW a \in Agents, SessionDisposed(a) PROVE FinalsInvariant'
    BY <2>4 DEF SessionDisposed, chat
  <2>5. ASSUME NEW a \in Agents, TurnStarts(a) PROVE FinalsInvariant'
    <3>1. UNCHANGED <<pendingRuns, finals, sent>> /\ turn[a] = None /\ solo' \subseteq solo
      BY <2>5 DEF TurnStarts
    <3>2. ASSUME NEW b \in solo' PROVE OwnTurn(b)'
      <4>1. CASE b # a
        BY <4>1, <3>1, <3>2, <2>5 DEF TurnStarts
      <4>2. CASE b = a
        <5>1. inbox[a] # <<>> /\ turn'[a] = Head(inbox[a]) /\ inbox'[a] = Tail(inbox[a])
          BY <2>5, <3>2, <4>2 DEF TurnStarts
        <5>2. Len(inbox[a]) = 1 /\ inbox[a] \in Seq(Runs) /\ pendingRuns[a] \in {Head(inbox[a]), None}
          BY <5>1, <3>1, <3>2, <4>2
        <5>3. Head(inbox[a]) \in Runs /\ Tail(inbox[a]) \in Seq(Runs) /\ Len(Tail(inbox[a])) = 0
          BY <5>1, <5>2
        <5>4. inbox'[a] = <<>> /\ turn'[a] \in Runs
          BY <5>1, <5>3, EmptySeq
        <5> QED BY <3>1, <4>2, <5>1, <5>2, <5>4
      <4> QED BY <4>1, <4>2
    <3> QED BY <3>1, <3>2
  <2>6. ASSUME NEW a \in Agents, AssistantSpeaks(a) PROVE FinalsInvariant'
    <3> DEFINE r == pendingRuns[a]
    <3>1. r \in Runs /\ finals[r] = <<>> /\ turn[a] # None /\ r \in sent
      BY <2>6 DEF AssistantSpeaks
    <3>2. finals' = [finals EXCEPT ![r] = <<turn[a]>>]
      BY <2>6, <3>1 DEF AssistantSpeaks
    <3>3. pendingRuns' = [pendingRuns EXCEPT ![a] = None] /\ UNCHANGED <<inbox, turn, sent, solo>>
      BY <2>6 DEF AssistantSpeaks, TakePending, host
    <3>4. PendingIsFresh'
      BY <3>1, <3>2, <3>3
    <3>5. a \in solo => turn[a] = r
      BY <3>1
    <3>6. FinalOfOwnTurn'
      BY <3>2, <3>3, <3>5
    <3> QED BY <3>3, <3>4, <3>6
  <2>7. ASSUME NEW a \in Agents, TurnEnds(a) PROVE FinalsInvariant'
    BY <2>7 DEF TurnEnds, Quiet, chat
  <2>8. UNCHANGED <<pendingRuns, finals, sent, solo, inbox, turn>>
        \/ (\E a \in Agents, r \in Runs, o \in Offices : ChatSend(o, a, r) \/ ChatSendFails(o, a, r))
        \/ (\E a \in Agents : SessionDisposed(a) \/ TurnStarts(a) \/ AssistantSpeaks(a) \/ TurnEnds(a))
    BY DEF Next, OfficeSteps, HostSteps, vars, host, asks, chat, Quiet, Connect, Close, ChatAbort,
           Resolve, SessionCreated, ToolCalled, TodosWritten, ApprovalAsked, ApprovalDecided,
           OthersAnswer, Unmount
  <2> QED BY <2>1, <2>2, <2>3, <2>4, <2>5, <2>6, <2>7, <2>8
<1>3. FinalsInvariant => OneFinalPerRun /\ FinalOfOwnTurn
  BY DEF FinalsInvariant, PendingIsFresh, OneFinalPerRun
<1> QED BY <1>1, <1>2, <1>3, TypeCorrect, PTL DEF Spec

-----------------------------------------------------------------------------
(* Approvals                                                               *)

\* A turn is that of a live session, only a turn asks, what is parked is open
\* and not announced, and what was announced has been settled.
AsksInvariant ==
    /\ \A a \in Agents : turn[a] # None => a \in live
    /\ \A a \in Agents : asking[a] # None => turn[a] # None
    /\ \A i \in parked : announced[i] = None
    /\ ParkedIsAwaited
    /\ AnnouncedIsOutcome

\* What the offices are told of an approval is what the tool call got, and
\* whatever is parked is awaited by a turn of a live session.
THEOREM ApprovalsSettle == Spec => []AnnouncedIsOutcome /\ []ParkedIsAwaited
<1> USE DEF TypeOK
<1>1. Init => AsksInvariant
  BY DEF Init, AsksInvariant, ParkedIsAwaited, AnnouncedIsOutcome
<1>2. TypeOK /\ TypeOK' /\ AsksInvariant /\ [Next]_vars => AsksInvariant'
  <2> SUFFICES ASSUME TypeOK, TypeOK', AsksInvariant, [Next]_vars PROVE AsksInvariant'
    OBVIOUS
  <2> USE DEF AsksInvariant, ParkedIsAwaited, AnnouncedIsOutcome, OutcomeOf
  <2>1. CASE UNCHANGED <<live, turn, asking, parked, outcome, announced>>
    BY <2>1
  <2>2. ASSUME NEW a \in Agents, NEW o \in Offices, ChatAbort(o, a) PROVE AsksInvariant'
    BY <2>2 DEF ChatAbort, SignalAborts
  <2>3. ASSUME NEW o \in Offices, NEW i \in Asks, NEW d \in Decisions, Resolve(o, i, d)
        PROVE  AsksInvariant'
    BY <2>3 DEF Resolve, Unsettled, host, Decisions
  <2>4. ASSUME NEW a \in Agents, SessionCreated(a) PROVE AsksInvariant'
    BY <2>4 DEF SessionCreated, Quiet, asks
  <2>5. ASSUME NEW a \in Agents, SessionDisposed(a) PROVE AsksInvariant'
    BY <2>5 DEF SessionDisposed, SignalAborts
  <2>6. ASSUME NEW a \in Agents, TurnStarts(a) PROVE AsksInvariant'
    <3>1. /\ a \in live /\ asking[a] = None
          /\ UNCHANGED <<live, asking, parked, outcome, announced>>
          /\ \A b \in Agents \ {a} : turn'[b] = turn[b]
      BY <2>6 DEF TurnStarts, asks
    <3>2. \A b \in Agents : (turn'[b] # None => b \in live') /\ (asking'[b] # None => turn'[b] # None)
      BY <3>1
    <3>3. ParkedIsAwaited' /\ AnnouncedIsOutcome' /\ \A i \in parked' : announced'[i] = None
      BY <3>1
    <3> QED BY <3>2, <3>3
  <2>7. ASSUME NEW a \in Agents, NEW i \in Asks, ApprovalAsked(a, i) PROVE AsksInvariant'
    <3>1. /\ a \in live /\ turn[a] # None /\ UNCHANGED <<live, turn, announced>>
          /\ asking' = [asking EXCEPT ![a] = i] /\ asking[a] = None
          /\ outcome[i] = "unasked" /\ outcome' = [outcome EXCEPT ![i] = "open"]
          /\ parked' \in {parked, parked \cup {i}}
      BY <2>7 DEF ApprovalAsked
    <3>2. announced[i] = None
      BY <3>1
    <3>3. ASSUME NEW j \in parked'
          PROVE  announced'[j] = None /\ outcome'[j] = "open" /\ \E b \in live' : asking'[b] = j
      <4>1. CASE j = i
        BY <4>1, <3>1, <3>2
      <4>2. CASE j # i
        <5>1. j \in parked /\ j \in Asks
          BY <3>1, <3>3, <4>2
        <5>2. PICK b \in live : asking[b] = j
          BY <5>1
        <5>3. b # a /\ b \in Agents
          BY <3>1, <5>1, <5>2
        <5> QED BY <3>1, <4>2, <5>1, <5>2, <5>3
      <4> QED BY <4>1, <4>2
    <3>4. \A b \in Agents : asking'[b] # None => turn'[b] # None
      BY <3>1
    <3>5. AnnouncedIsOutcome'
      BY <3>1, <3>2
    <3> QED BY <3>1, <3>3, <3>4, <3>5
  <2>8. ASSUME NEW i \in Asks, OthersAnswer(i) PROVE AsksInvariant'
    BY <2>8 DEF OthersAnswer, host
  <2>9. ASSUME NEW a \in Agents, ApprovalDecided(a) PROVE AsksInvariant'
    BY <2>9 DEF ApprovalDecided, Quiet, asks
  <2>10. ASSUME NEW a \in Agents, TurnEnds(a) PROVE AsksInvariant'
    BY <2>10 DEF TurnEnds, Quiet, asks
  <2>11. UNCHANGED <<live, turn, asking, parked, outcome, announced>>
         \/ (\E a \in Agents, o \in Offices : ChatAbort(o, a))
         \/ (\E o \in Offices, i \in Asks, d \in Decisions : Resolve(o, i, d))
         \/ (\E a \in Agents : SessionCreated(a) \/ SessionDisposed(a) \/ TurnStarts(a)
                                \/ ApprovalDecided(a) \/ TurnEnds(a))
         \/ (\E a \in Agents, i \in Asks : ApprovalAsked(a, i))
         \/ (\E i \in Asks : OthersAnswer(i))
    BY DEF Next, OfficeSteps, HostSteps, vars, host, asks, chat, Quiet, Connect, Close, ChatSend,
           ChatSendFails, AssistantSpeaks, ToolCalled, TodosWritten, Unmount
  <2> QED BY <2>1, <2>2, <2>3, <2>4, <2>5, <2>6, <2>7, <2>8, <2>9, <2>10, <2>11
<1>3. AsksInvariant => AnnouncedIsOutcome /\ ParkedIsAwaited
  BY DEF AsksInvariant
<1> QED BY <1>1, <1>2, <1>3, TypeCorrect, PTL DEF Spec

\* While an approval is open, the fold waits whatever else the turn reports.
LEMMA Waits ==
  ASSUME NEW s \in PhaseState, s.approval, s.phase = "approval", NEW e \in PhaseEvents,
         e.type \in {"tool/call", "todo/write"}
  PROVE  applyPhaseEvent(s, e).approval /\ applyPhaseEvent(s, e).phase = "approval"
<1> USE DEF PhaseState
<1>1. CASE e.type = "tool/call"
  <2> DEFINE p == CASE s.approval -> "approval"
                    [] ~s.approval /\ e.class = None -> s.phase
                    [] OTHER -> e.class
             t == IF e.class = None THEN s.lastTool ELSE e.class
  <2>1. applyPhaseEvent(s, e) = [s EXCEPT !.lastTool = t, !.phase = p]
    BY <1>1 DEF applyPhaseEvent
  <2>2. p = "approval"
    OBVIOUS
  <2> HIDE DEF p, t
  <2> QED BY <2>1, <2>2
<1>2. CASE e.type = "todo/write"
  <2>1. applyPhaseEvent(s, e) = OnTodo(s, e.list)
    BY <1>2 DEF applyPhaseEvent
  <2> QED BY <2>1 DEF OnTodo
<1> QED BY <1>1, <1>2

ShownInvariant ==
    /\ \A a \in Agents : asking[a] # None => turn[a] # None
    /\ mounted => \A a \in Agents : asking[a] # None =>
          phase[a].approval /\ phase[a].phase = "approval"

\* An agent that waits for an approval is shown waiting until it is decided.
THEOREM ShownWaiting == Spec => []ApprovalShown
<1>1. Init => ShownInvariant
  BY DEF Init, ShownInvariant
<1>2. TypeOK /\ TypeOK' /\ ShownInvariant /\ [Next]_vars => ShownInvariant'
  <2> SUFFICES ASSUME TypeOK, TypeOK', ShownInvariant, [Next]_vars PROVE ShownInvariant'
    OBVIOUS
  <2> USE DEF ShownInvariant
  <2>t. /\ asking \in [Agents -> Asks \cup {None}] /\ turn \in [Agents -> Runs \cup {Terminal, None}]
        /\ phase \in [Agents -> PhaseState] /\ mounted \in BOOLEAN
    BY DEF TypeOK
  <2>1. CASE UNCHANGED <<phase, turn, asking>> /\ (mounted' => mounted)
    BY <2>1
  <2>2. ASSUME NEW a \in Agents, SessionDisposed(a) PROVE ShownInvariant'
    BY <2>2, <2>t DEF SessionDisposed
  <2>3. ASSUME NEW a \in Agents, TurnStarts(a) PROVE ShownInvariant'
    <3>1. asking[a] = None /\ UNCHANGED <<asking, mounted>>
      BY <2>3, <2>t DEF TurnStarts
    <3>2. \A b \in Agents \ {a} : turn'[b] = turn[b] /\ phase'[b] = phase[b]
      BY <2>3, <2>t DEF TurnStarts, Becomes
    <3> QED BY <2>t, <3>1, <3>2
  <2>4. ASSUME NEW a \in Agents, ToolCalled(a) \/ TodosWritten(a) PROVE ShownInvariant'
    <3>1. UNCHANGED <<asking, turn, mounted>>
      BY <2>4 DEF ToolCalled, TodosWritten, host, Quiet
    <3>2. PICK e \in PhaseEvents : e.type \in {"tool/call", "todo/write"} /\ Observe(a, e)
      BY <2>4, Reported DEF ToolCalled, TodosWritten, ToolCallEvent, TodoEvent
    <3>3. \A b \in Agents \ {a} : phase'[b] = phase[b]
      BY <3>2, <2>t DEF Observe, Becomes
    <3>4. mounted => phase'[a] = applyPhaseEvent(phase[a], e)
      BY <3>2, <2>t DEF Observe, Becomes
    <3> QED BY <2>t, <3>1, <3>2, <3>3, <3>4, Waits
  <2>5. ASSUME NEW a \in Agents, NEW i \in Asks, ApprovalAsked(a, i) PROVE ShownInvariant'
    <3>1. turn[a] # None /\ UNCHANGED <<turn, mounted>> /\ asking' = [asking EXCEPT ![a] = i]
      BY <2>5 DEF ApprovalAsked
    <3>2. Observe(a, Plain("approval/asked"))
      BY <2>5 DEF ApprovalAsked
    <3>3. \A b \in Agents \ {a} : phase'[b] = phase[b]
      BY <3>2, <2>t DEF Observe, Becomes
    <3>4. mounted => phase'[a] = [phase[a] EXCEPT !.approval = TRUE, !.phase = "approval"]
      BY <3>2, <2>t DEF Observe, Becomes, applyPhaseEvent, Plain
    <3>5. phase[a] \in PhaseState
      BY <2>t
    <3>6. mounted => phase'[a].approval /\ phase'[a].phase = "approval"
      BY <3>4, <3>5 DEF PhaseState
    <3> QED BY <2>t, <3>1, <3>3, <3>6
  <2>6. ASSUME NEW a \in Agents, ApprovalDecided(a) PROVE ShownInvariant'
    BY <2>6, <2>t DEF ApprovalDecided, Quiet, Observe, Becomes
  <2>7. ASSUME NEW a \in Agents, TurnEnds(a) PROVE ShownInvariant'
    BY <2>7, <2>t DEF TurnEnds, Quiet, Observe, Becomes
  <2>8. (UNCHANGED <<phase, turn, asking>> /\ (mounted' => mounted))
        \/ (\E a \in Agents : SessionDisposed(a) \/ TurnStarts(a) \/ ToolCalled(a)
                               \/ TodosWritten(a) \/ ApprovalDecided(a) \/ TurnEnds(a))
        \/ (\E a \in Agents, i \in Asks : ApprovalAsked(a, i))
    BY DEF Next, OfficeSteps, HostSteps, vars, host, asks, chat, Quiet, Connect, Close, ChatSend,
           ChatSendFails, ChatAbort, Resolve, SessionCreated, AssistantSpeaks, OthersAnswer, Unmount
  <2> QED BY <2>1, <2>2, <2>3, <2>4, <2>5, <2>6, <2>7, <2>8
<1>3. ShownInvariant => ApprovalShown
  BY DEF ShownInvariant, ApprovalShown
<1> QED BY <1>1, <1>2, <1>3, TypeCorrect, PTL DEF Spec
=============================================================================
