---------------------------- MODULE OfficeAdapter ----------------------------
(***************************************************************************)
(* The projection of a DSH host onto the Claw3D office protocol            *)
(* (packages/dsh-office-adapter/lib/index.js): office sockets that send    *)
(* chat.send, chat.abort and exec.approval.resolve, the session events     *)
(* that answer a chat, and the approval asks parked until an office, or    *)
(* the signal of the ask, settles them.                                    *)
(*                                                                         *)
(* Everything runs on one event loop, so a dispatched method, a session    *)
(* event and an ask are one step each.  The DSH host is external: an agent *)
(* works through one turn at a time, its turns come from follow-ups or     *)
(* from the terminal, and it asks for one approval at a time.              *)
(***************************************************************************)
EXTENDS OfficePhases, Sequences, FiniteSets

CONSTANTS
    Agents, Runs, Asks, Offices,
    Terminal,     \* the turn of a message typed in the terminal
    ToolClasses,  \* the tool classes that occur, a subset of ToolPhases
    MaxTerminal   \* bound on the terminal's turns

ASSUME OfficeAssumption ==
    /\ None \notin Runs \cup {Terminal} \cup Asks
    /\ Terminal \notin Runs
    /\ ToolClasses \subseteq ToolPhases /\ None \notin ToolPhases
    /\ MaxTerminal \in Nat

VARIABLES
    mounted,      \* the plugin is applied
    downlinks,    \* office sockets that are open
    told,         \* told[o]: asks whose requested frame o has received
    live,         \* agents with a live session
    pendingRuns,  \* pendingRuns[a]: the run waiting for a's next message
    finals,       \* finals[r]: the turns whose message became r's final
    parked,       \* asks in the pending map of createApprovals
    outcome,      \* outcome[i]: what the waterfall answered to ask i
    announced,    \* announced[i]: the decision broadcast as resolved
    phase,        \* phase[a]: the phase fold of a
    inbox,        \* host: inbox[a]: runs whose follow-up a has not begun
    turn,         \* host: turn[a]: the turn a is in
    asking,       \* host: asking[a]: the ask a's turn waits for
    cancelled,    \* host: agents whose turn was cancelled
    sent,         \* runs already used as idempotency key
    typed,        \* how often the terminal spoke
    solo          \* agents only offices have talked to, and only when idle
                  \* (history)

host == <<live, inbox, turn, asking, cancelled, typed>>
asks == <<parked, outcome, announced, told>>
chat == <<pendingRuns, finals, sent, solo>>
vars == <<mounted, downlinks, phase, host, asks, chat>>

Decisions == {"allow-once", "allow-always", "deny"}
OutcomeOf(decision) == IF decision = "deny" THEN "rejected" ELSE "allowed-once"
Outcomes == {"unasked", "open", "allowed-once", "rejected", "cancelled"}

TypeOK ==
    /\ mounted \in BOOLEAN /\ downlinks \subseteq Offices
    /\ told \in [Offices -> SUBSET Asks] /\ live \subseteq Agents
    /\ pendingRuns \in [Agents -> Runs \cup {None}]
    /\ finals \in [Runs -> Seq(Runs \cup {Terminal})]
    /\ parked \subseteq Asks /\ outcome \in [Asks -> Outcomes]
    /\ announced \in [Asks -> Decisions \cup {None}]
    /\ phase \in [Agents -> PhaseState]
    /\ inbox \in [Agents -> Seq(Runs)]
    /\ turn \in [Agents -> Runs \cup {Terminal, None}]
    /\ asking \in [Agents -> Asks \cup {None}]
    /\ cancelled \subseteq Agents /\ sent \subseteq Runs /\ typed \in Nat /\ solo \subseteq Agents

Init ==
    /\ mounted = TRUE /\ downlinks = {}
    /\ told = [o \in Offices |-> {}]
    /\ live = {}
    /\ pendingRuns = [a \in Agents |-> None]
    /\ finals = [r \in Runs |-> <<>>]
    /\ parked = {}
    /\ outcome = [i \in Asks |-> "unasked"]
    /\ announced = [i \in Asks |-> None]
    /\ phase = [a \in Agents |-> initialPhaseState]
    /\ inbox = [a \in Agents |-> <<>>]
    /\ turn = [a \in Agents |-> None]
    /\ asking = [a \in Agents |-> None]
    /\ cancelled = {} /\ sent = {} /\ typed = 0 /\ solo = Agents

-----------------------------------------------------------------------------
(* Sockets and the plugin's life.                                          *)

\* An office connects; nothing that is already parked is repeated to it.
Connect(o) ==
    /\ mounted /\ o \notin downlinks
    /\ downlinks' = downlinks \cup {o}
    /\ told' = [told EXCEPT ![o] = {}]
    /\ UNCHANGED <<mounted, phase, host, parked, outcome, announced, chat>>

Close(o) ==
    /\ o \in downlinks
    /\ downlinks' = downlinks \ {o}
    /\ UNCHANGED <<mounted, phase, host, asks, chat>>

\* The disposer apply returns: listeners off, every socket closed.  Nothing
\* settles what is parked.
Unmount ==
    /\ mounted
    /\ mounted' = FALSE /\ downlinks' = {}
    /\ UNCHANGED <<phase, host, asks, chat>>

-----------------------------------------------------------------------------
(* dispatch                                                                *)

Idle(a) == turn[a] = None /\ inbox[a] = <<>>

\* chat.send: the run replaces whatever was pending for the agent.
SetPendingOnce(a, r) ==                                \* seeded fault
    pendingRuns' = [pendingRuns EXCEPT ![a] = IF @ = None THEN r ELSE @]
SetPending(a, r) == pendingRuns' = [pendingRuns EXCEPT ![a] = r]

ChatSend(o, a, r) ==
    /\ o \in downlinks /\ a \in live /\ r \notin sent
    /\ SetPending(a, r)
    /\ sent' = sent \cup {r}
    /\ solo' = IF Idle(a) THEN solo ELSE solo \ {a}
    /\ inbox' = [inbox EXCEPT ![a] = Append(@, r)]
    /\ UNCHANGED <<mounted, downlinks, phase, live, turn, asking, cancelled, typed,
                   asks, finals>>

\* followup throws: the pending run is deleted, an earlier run's included.
ChatSendFails(o, a, r) ==
    /\ o \in downlinks /\ a \in live /\ r \notin sent
    /\ pendingRuns' = [pendingRuns EXCEPT ![a] = None]
    /\ sent' = sent \cup {r}
    /\ UNCHANGED <<mounted, downlinks, phase, host, asks, finals, solo>>

\* The abort of a cancelled turn's ask: only a parked ask is answered.
SignalAborts(i) ==
    /\ parked' = parked \ {i}
    /\ outcome' = IF i \in parked THEN [outcome EXCEPT ![i] = "cancelled"] ELSE outcome

\* chat.abort: the turn is cancelled; the pending run stays.
ChatAbort(o, a) ==
    /\ o \in downlinks /\ a \in live /\ turn[a] # None
    /\ cancelled' = cancelled \cup {a}
    /\ SignalAborts(asking[a])
    /\ UNCHANGED <<mounted, downlinks, phase, live, inbox, turn, asking, typed,
                   announced, told, chat>>

\* resolveExternal: an office settles an ask it was told of.
UnsettledOrNot(i) == outcome[i] # "unasked"            \* seeded fault
Unsettled(i) == i \in parked
Resolve(o, i, decision) ==
    /\ o \in downlinks /\ i \in told[o] /\ Unsettled(i)
    /\ parked' = parked \ {i}
    /\ outcome' = [outcome EXCEPT ![i] = IF @ = "open" THEN OutcomeOf(decision) ELSE @]
    /\ announced' = [announced EXCEPT ![i] = decision]
    /\ UNCHANGED <<mounted, downlinks, told, phase, host, chat>>

-----------------------------------------------------------------------------
(* What the host does, as onSessionEvent and the answerer see it.          *)

Becomes(a, p) == phase' = IF mounted THEN [phase EXCEPT ![a] = p] ELSE phase
Observe(a, event) == Becomes(a, applyPhaseEvent(phase[a], event))
Quiet == UNCHANGED <<mounted, downlinks, asks, chat>>

SessionCreated(a) ==
    /\ a \notin live
    /\ live' = live \cup {a}
    /\ UNCHANGED <<phase, inbox, turn, asking, cancelled, typed>>
    /\ Quiet

\* The session goes, with its turn and its follow-ups; its ask is aborted.
\* The adapter forgets nothing: neither the pending run nor the phase.
SessionDisposed(a) ==
    /\ a \in live
    /\ live' = live \ {a}
    /\ inbox' = [inbox EXCEPT ![a] = <<>>]
    /\ turn' = [turn EXCEPT ![a] = None]
    /\ asking' = [asking EXCEPT ![a] = None]
    /\ cancelled' = cancelled \ {a}
    /\ SignalAborts(asking[a])
    /\ UNCHANGED <<mounted, downlinks, phase, typed, announced, told, chat>>

TurnStarts(a) ==
    /\ a \in live /\ turn[a] = None
    /\ \/ /\ inbox[a] # <<>>
          /\ turn' = [turn EXCEPT ![a] = Head(inbox[a])]
          /\ inbox' = [inbox EXCEPT ![a] = Tail(@)]
          /\ UNCHANGED <<typed, solo>>
       \/ /\ typed < MaxTerminal
          /\ turn' = [turn EXCEPT ![a] = Terminal]
          /\ typed' = typed + 1
          /\ solo' = solo \ {a}
          /\ UNCHANGED inbox
    /\ Becomes(a, applyPhaseEvent(applyPhaseEvent(phase[a], Plain("turn/start")),
                                  Plain("user/message")))
    /\ UNCHANGED <<mounted, downlinks, live, asking, cancelled, asks, pendingRuns,
                   finals, sent>>

\* An assistant message with text: the first one since a chat.send is the
\* final of the run that is pending, whichever turn wrote it.
TakePending(a) == pendingRuns' = [pendingRuns EXCEPT ![a] = None]
AssistantSpeaks(a) ==
    /\ turn[a] # None /\ asking[a] = None /\ mounted /\ pendingRuns[a] # None
    /\ finals' = [finals EXCEPT ![pendingRuns[a]] = Append(@, turn[a])]
    /\ TakePending(a)
    /\ UNCHANGED <<mounted, downlinks, phase, host, asks, sent, solo>>

ToolCalled(a) ==
    /\ turn[a] # None
    /\ \E class \in ToolClasses \cup {None} : Observe(a, ToolCallEvent(class))
    /\ UNCHANGED host /\ Quiet

TodosWritten(a) ==
    /\ turn[a] # None
    /\ \E list \in TodoLists : Observe(a, TodoEvent(list))
    /\ UNCHANGED host /\ Quiet

\* The answerer parks the ask and tells every open socket; with no office
\* listening the ask is for the next answerer.
ApprovalAsked(a, i) ==
    /\ turn[a] # None /\ asking[a] = None /\ a \notin cancelled
    /\ outcome[i] = "unasked"
    /\ asking' = [asking EXCEPT ![a] = i]
    /\ outcome' = [outcome EXCEPT ![i] = "open"]
    /\ IF mounted /\ downlinks # {}
       THEN /\ parked' = parked \cup {i}
            /\ told' = [o \in Offices |->
                           IF o \in downlinks THEN told[o] \cup {i} ELSE told[o]]
       ELSE UNCHANGED <<parked, told>>
    /\ Observe(a, Plain("approval/asked"))
    /\ UNCHANGED <<mounted, downlinks, live, inbox, turn, cancelled, typed,
                   announced, chat>>

\* Another answerer (or the fail-closed default) settles an ask not claimed.
OthersAnswer(i) ==
    /\ outcome[i] = "open" /\ i \notin parked
    /\ \E out \in {"allowed-once", "rejected", "cancelled"} :
          outcome' = [outcome EXCEPT ![i] = out]
    /\ UNCHANGED <<mounted, downlinks, phase, host, parked, announced, told, chat>>

ApprovalDecided(a) ==
    /\ asking[a] # None /\ outcome[asking[a]] # "open"
    /\ asking' = [asking EXCEPT ![a] = None]
    /\ Observe(a, Plain("approval/decided"))
    /\ UNCHANGED <<live, inbox, turn, cancelled, typed>>
    /\ Quiet

TurnEnds(a) ==
    /\ turn[a] # None /\ asking[a] = None
    /\ IF a \in cancelled THEN Observe(a, EndEvent("aborted"))
       ELSE \E kind \in {"completed", "error"} : Observe(a, EndEvent(kind))
    /\ turn' = [turn EXCEPT ![a] = None]
    /\ cancelled' = cancelled \ {a}
    /\ UNCHANGED <<live, inbox, asking, typed>>
    /\ Quiet

OfficeSteps(o) ==
    \/ Connect(o)
    \/ Close(o)
    \/ \E a \in Agents : ChatAbort(o, a)
    \/ \E a \in Agents, r \in Runs : ChatSend(o, a, r)
    \/ \E a \in Agents, r \in Runs : ChatSendFails(o, a, r)
    \/ \E i \in Asks, d \in Decisions : Resolve(o, i, d)
HostSteps(a) ==
    \/ SessionCreated(a)
    \/ SessionDisposed(a)
    \/ TurnStarts(a)
    \/ AssistantSpeaks(a)
    \/ ToolCalled(a)
    \/ TodosWritten(a)
    \/ \E i \in Asks : ApprovalAsked(a, i)
    \/ ApprovalDecided(a)
    \/ TurnEnds(a)

Next ==
    \/ \E o \in Offices : OfficeSteps(o)
    \/ \E a \in Agents : HostSteps(a)
    \/ \E i \in Asks : OthersAnswer(i)
    \/ Unmount
Spec == Init /\ [][Next]_vars

-----------------------------------------------------------------------------
(* Properties                                                              *)

\* However offices, turns, aborts and disposals interleave, a run gets one
\* final event at most: a second message of the turn does not repeat it.
OneFinalPerRun == \A r \in Runs : Len(finals[r]) <= 1

\* As long as offices write to an idle agent only and nobody else does, the
\* text of a final comes from the run's own turn.  The adapter matches
\* answers to runs by arrival alone, so this rests on every earlier run that
\* was aborted, failed or fell silent having been displaced.
FinalOfOwnTurn ==
    solo = Agents => \A r \in Runs : \A k \in 1..Len(finals[r]) : finals[r][k] = r

\* What the offices are told about an approval is what the tool call got: an
\* ask that was cancelled, or settled by another office first, is never
\* announced with a decision that did not happen.
AnnouncedIsOutcome ==
    \A i \in Asks : announced[i] # None => outcome[i] = OutcomeOf(announced[i])

\* Whatever is parked is still awaited by a turn, so that the bridge leaks
\* no ask when turns are cancelled and sessions disposed.
ParkedIsAwaited ==
    \A i \in parked : outcome[i] = "open" /\ \E a \in live : asking[a] = i

\* While an agent waits for an approval the office shows it waiting, though
\* tool calls and todo lists of the same turn keep arriving.
ApprovalShown ==
    mounted => \A a \in Agents : asking[a] # None => phase[a].phase = "approval"
=============================================================================
