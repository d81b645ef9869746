---------------------------- MODULE HermesAdapter ----------------------------
(***************************************************************************)
(* The adapter that stands in for a gateway in front of a Hermes API       *)
(* (server/hermes-gateway-adapter.js).  Offices send messages to the       *)
(* orchestrator and to the agents of its team; the orchestrator's answers  *)
(* may call tools, which make, change and dismiss agents and delegate      *)
(* messages to them.  Each agent has one session, a list of turns that is  *)
(* saved half a second after its last change and read back at the start.   *)
(*                                                                         *)
(* A turn takes the list of its session before it asks Hermes and appends  *)
(* to it when the answer is there, possibly minutes later.  Clearing a     *)
(* session drops the list from the map and leaves it to whoever holds it,  *)
(* so a list is told from the next one by its age.  Left out: what is      *)
(* said, the sockets, the events of partial text, files, jobs, sessions    *)
(* other than the agents' own, and the handlers that only read.            *)
(***************************************************************************)
EXTENDS Integers, Sequences, Functions

CONSTANTS
    Agents,
    Orchestrator,
    Sends,          \* calls of chat.send
    Delegations,    \* calls of delegate_task
    RunIds,         \* idempotency keys, which may be used again
    NoTurn,
    MaxRounds,      \* MAX_TOOL_ROUNDS
    MaxClears,      \* how often a session is cleared
    MaxUnsaved,     \* how often the file cannot be written
    MaxRestarts

ASSUME HermesAssumption ==
    /\ Orchestrator \in Agents
    /\ Sends \cap Delegations = {} /\ NoTurn \notin Sends
    /\ MaxRounds \in Nat \ {0} /\ {MaxClears, MaxUnsaved, MaxRestarts} \subseteq Nat

VARIABLES
    registry,       \* agentRegistry: "absent", "present" or, dismissed, "gone"
    continuity,     \* settings.continuity of each agent
    history,        \* conversationHistory: the turns in each session's list
    age,            \* how often the list was dropped
    due,            \* the timer of saveHistoryToDisk runs
    saved,          \* the file
    turn,           \* what became of each call
    awaiting,       \* the delegations a run of the orchestrator awaits
    activeRuns,     \* the run each id stands for
    told,           \* the last event of each turn: "final", "error" or "aborted"
    unsaved, restarts,
    gap             \* history: the last save failed, or the process died before one

hermes == <<registry, continuity, history, age, due, saved, turn, awaiting, activeRuns,
            told, unsaved, restarts, gap>>
team == <<registry, continuity>>
lists == <<history, age, due>>
calls == <<turn, awaiting, activeRuns, told>>
disk == <<saved, unsaved, restarts, gap>>

Turns == Sends \cup Delegations
NoHistory == [a \in Agents |-> <<>>]

\* begun: the age of the list the turn holds; bound: it found the agent in the
\* registry; kept: its end found that the agent has continuity
Turn == [at : {"unsent", "accepted", "asking", "tools", "over", "hung", "lost"},
         agent : Agents, id : RunIds \cup {NoTurn}, begun : 0..MaxClears, bound : BOOLEAN,
         rounds : 0..MaxRounds, aborted : BOOLEAN, kept : BOOLEAN]
Unsent == [at |-> "unsent", agent |-> Orchestrator, id |-> NoTurn, begun |-> 0, bound |-> FALSE,
           rounds |-> 0, aborted |-> FALSE, kept |-> FALSE]

HermesTypeOK ==
    /\ registry \in [Agents -> {"absent", "present", "gone"}]
    /\ registry[Orchestrator] = "present"
    /\ continuity \in [Agents -> BOOLEAN]
    /\ history \in [Agents -> Seq(Turns)] /\ saved \in [Agents -> Seq(Turns)]
    /\ age \in [Agents -> 0..MaxClears]
    /\ due \in BOOLEAN /\ gap \in {"none", "unsaved", "lost"}
    /\ turn \in [Turns -> Turn]
    /\ awaiting \in [Sends -> SUBSET Delegations]
    /\ activeRuns \in [RunIds -> Sends \cup {NoTurn}]
    /\ told \in [Turns -> {"nothing", "final", "error", "aborted"}]
    /\ unsaved \in 0..MaxUnsaved /\ restarts \in 0..MaxRestarts

HermesInit ==
    /\ registry = [a \in Agents |-> IF a = Orchestrator THEN "present" ELSE "absent"]
    /\ continuity = [a \in Agents |-> TRUE]
    /\ history = NoHistory /\ saved = NoHistory
    /\ age = [a \in Agents |-> 0]
    /\ due = FALSE /\ gap = "none"
    /\ turn = [t \in Turns |-> Unsent]
    /\ awaiting = [s \in Sends |-> {}]
    /\ activeRuns = [k \in RunIds |-> NoTurn]
    /\ told = [t \in Turns |-> "nothing"]
    /\ unsaved = 0 /\ restarts = 0

-----------------------------------------------------------------------------
(* The team and its sessions.                                              *)

\* spawn_agent and agents.create; the identifier is new.
Joins(a, c) ==
    /\ registry[a] = "absent"
    /\ registry' = [registry EXCEPT ![a] = "present"]
    /\ continuity' = [continuity EXCEPT ![a] = c]
    /\ UNCHANGED lists

Configures(a, c) ==
    /\ registry[a] = "present"
    /\ continuity' = [continuity EXCEPT ![a] = c]
    /\ UNCHANGED <<registry, lists>>

\* clearHistory
Clears(a) ==
    /\ age[a] < MaxClears
    /\ history' = [history EXCEPT ![a] = <<>>]
    /\ age' = [age EXCEPT ![a] = @ + 1]
    /\ due' = TRUE

\* dismiss_agent knows only members; agents.delete clears in any case.
Leaves(a) ==
    /\ a # Orchestrator
    /\ registry' = [registry EXCEPT ![a] = IF @ = "present" THEN "gone" ELSE @]
    /\ Clears(a)
    /\ UNCHANGED continuity

Dismisses(a) == registry[a] = "present" /\ Leaves(a)

Resets(a) == Clears(a) /\ UNCHANGED team

\* What an office asks of the team.
TeamChanges ==
    /\ \E a \in Agents : Joins(a, TRUE) \/ Leaves(a) \/ Resets(a)
    /\ UNCHANGED <<calls, disk>>

-----------------------------------------------------------------------------
(* Turns.                                                                  *)

\* chat.send: the entry of a run with the same id is written over.
Accepts(s, k, a) ==
    /\ turn[s].at = "unsent"
    /\ turn' = [turn EXCEPT ![s] = [Unsent EXCEPT !.at = "accepted", !.agent = a, !.id = k]]
    /\ activeRuns' = [activeRuns EXCEPT ![k] = s]
    /\ UNCHANGED <<team, lists, awaiting, told, disk>>

\* The list and the agent a turn works with until it ends.
Begun(t, a) ==
    [turn[t] EXCEPT !.at = "asking", !.agent = a, !.begun = age[a],
                    !.bound = registry[a] = "present", !.rounds = 1]

\* The callback of setImmediate, up to the first request.
Begins(s) ==
    /\ turn[s].at = "accepted"
    /\ turn' = [turn EXCEPT ![s] = Begun(s, turn[s].agent)]
    /\ UNCHANGED <<team, lists, awaiting, activeRuns, told, disk>>

\* settings.continuity as it is at the end of the turn; whoever is not in the
\* registry at its begin keeps everything.
Keeps(t) == turn[t].bound => continuity[turn[t].agent]

\* The list the turn holds; once dropped from the map nobody sees it again.
\* Seeded fault: the session is looked up again when the answer is there.
AppendedToSession(t) == [history EXCEPT ![turn[t].agent] = Append(@, t)]
Appended(t) ==
    IF turn[t].begun = age[turn[t].agent]
    THEN [history EXCEPT ![turn[t].agent] = Append(@, t)]
    ELSE history

\* The end of runAgenticLoop, the event, and the entry of the id, whosever it is.
Completes(s) ==
    /\ turn' = [turn EXCEPT ![s].at = "over", ![s].kept = Keeps(s)]
    /\ history' = IF Keeps(s) THEN Appended(s) ELSE history
    /\ due' = (due \/ Keeps(s))
    /\ told' = [told EXCEPT ![s] = IF turn[s].aborted THEN "aborted" ELSE "final"]
    /\ activeRuns' = [activeRuns EXCEPT ![turn[s].id] = NoTurn]
    /\ UNCHANGED <<team, age, awaiting, disk>>

\* Also an aborted run may get its whole answer: the flag is looked at when a
\* chunk arrives, and not at all by the request that follows an empty answer.
Answers(s) == turn[s].at = "asking" /\ Completes(s)

RunFails(s) ==
    /\ turn[s].at = "asking"
    /\ turn' = [turn EXCEPT ![s].at = "over"]
    /\ told' = [told EXCEPT ![s] = IF turn[s].aborted THEN "aborted" ELSE "error"]
    /\ activeRuns' = [activeRuns EXCEPT ![turn[s].id] = NoTurn]
    /\ UNCHANGED <<team, lists, awaiting, disk>>

\* A chunk after the abort destroys the response, which need not report an end
\* or an error then: nothing else wakes the run.
Hangs(s) ==
    /\ turn[s].at = "asking" /\ turn[s].aborted
    /\ turn' = [turn EXCEPT ![s].at = "hung"]
    /\ UNCHANGED <<team, lists, awaiting, activeRuns, told, disk>>

\* The tools of one answer are called together: delegations D and at most one
\* change of the team after them (one before them is like one of the round
\* before).  A delegation to nobody is answered at once.  Only the
\* orchestrator is offered tools.
CallsTools(s, D, to) ==
    /\ turn[s].at = "asking" /\ turn[s].agent = Orchestrator
    /\ \A d \in D : turn[d].at = "unsent" /\ registry[to[d]] = "present"
    /\ turn' = [t \in Turns |-> CASE t \in D -> Begun(t, to[t])
                                  [] t = s -> [turn[s] EXCEPT !.at = "tools"]
                                  [] OTHER -> turn[t]]
    /\ awaiting' = [awaiting EXCEPT ![s] = D]
    /\ \/ UNCHANGED <<team, lists>>
       \/ \E a \in Agents : \/ \E c \in BOOLEAN : Joins(a, c) \/ Configures(a, c)
                            \/ Dismisses(a)
    /\ UNCHANGED <<activeRuns, told, disk>>

Delegated(d) ==
    /\ turn[d].at = "asking"
    /\ turn' = [turn EXCEPT ![d].at = "over", ![d].kept = Keeps(d)]
    /\ history' = IF Keeps(d) THEN Appended(d) ELSE history
    /\ due' = (due \/ Keeps(d))
    /\ told' = [told EXCEPT ![d] = "final"]
    /\ UNCHANGED <<team, age, awaiting, activeRuns, disk>>

DelegationFails(d) ==
    /\ turn[d].at = "asking"
    /\ turn' = [turn EXCEPT ![d].at = "over"]
    /\ told' = [told EXCEPT ![d] = "error"]
    /\ UNCHANGED <<team, lists, awaiting, activeRuns, disk>>

\* All results are there: the next request, or the end after the last round.
Resumable(s) == turn[s].at = "tools" /\ \A d \in awaiting[s] : turn[d].at = "over"
Resumes(s) ==
    /\ Resumable(s)
    /\ IF turn[s].rounds < MaxRounds
       THEN /\ turn' = [turn EXCEPT ![s].at = "asking", ![s].rounds = @ + 1]
            /\ UNCHANGED <<team, lists, awaiting, activeRuns, told, disk>>
       ELSE Completes(s)

-----------------------------------------------------------------------------
(* chat.abort, of one id or of all runs of a session.                      *)

Aborts(K) ==
    LET caught == {activeRuns[k] : k \in K} \ {NoTurn} IN
    /\ caught # {}
    /\ turn' = [t \in Turns |-> IF t \in caught THEN [turn[t] EXCEPT !.aborted = TRUE] ELSE turn[t]]
    /\ activeRuns' = [k \in RunIds |-> IF k \in K THEN NoTurn ELSE activeRuns[k]]
    /\ UNCHANGED <<team, lists, awaiting, told, disk>>

RunsOf(a) == {k \in RunIds : activeRuns[k] # NoTurn /\ turn[activeRuns[k]].agent = a}
ChatAbort == (\E k \in RunIds : Aborts({k})) \/ (\E a \in Agents : Aborts(RunsOf(a)))

-----------------------------------------------------------------------------
(* The file.                                                               *)

\* The timer's callback.
Saves ==
    /\ due /\ due' = FALSE
    /\ saved' = history
    /\ gap' = IF gap = "unsaved" THEN "none" ELSE gap
    /\ UNCHANGED <<team, history, age, calls, unsaved, restarts>>

\* A failed write is logged; it may leave the file as it was or truncated.
SaveFails ==
    /\ due /\ due' = FALSE
    /\ unsaved < MaxUnsaved /\ unsaved' = unsaved + 1
    /\ saved' \in {saved, NoHistory}
    /\ gap' = IF gap = "none" THEN "unsaved" ELSE gap
    /\ UNCHANGED <<team, history, age, calls, restarts>>

\* The process dies and is started again, with the lists of the file, the
\* orchestrator and nobody else.
Restarts ==
    /\ restarts < MaxRestarts /\ restarts' = restarts + 1
    /\ registry' = [a \in Agents |-> IF a # Orchestrator /\ registry[a] = "present"
                                     THEN "gone" ELSE registry[a]]
    /\ continuity' = [continuity EXCEPT ![Orchestrator] = TRUE]
    /\ history' = saved
    /\ turn' = [t \in Turns |-> IF turn[t].at \in {"unsent", "over"} THEN turn[t]
                                ELSE [turn[t] EXCEPT !.at = "lost"]]
    /\ awaiting' = [s \in Sends |-> {}]
    /\ activeRuns' = [k \in RunIds |-> NoTurn]
    /\ due' = FALSE
    /\ gap' = IF due \/ gap # "none" THEN "lost" ELSE "none"
    /\ UNCHANGED <<age, saved, told, unsaved>>

-----------------------------------------------------------------------------

\* Resuming takes no event: it follows the last result before anything else.
HermesNext ==
    \/ \E s \in Sends : Resumes(s)
    \/ /\ ~\E s \in Sends : Resumable(s)
       /\ \/ TeamChanges \/ ChatAbort \/ Saves \/ SaveFails \/ Restarts
          \/ \E s \in Sends :
                \/ \E k \in RunIds, a \in Agents : Accepts(s, k, a)
                \/ Begins(s) \/ Answers(s) \/ RunFails(s) \/ Hangs(s)
                \/ \E D \in SUBSET Delegations : \E to \in [D -> Agents] : CallsTools(s, D, to)
          \/ \E d \in Delegations : Delegated(d) \/ DelegationFails(d)
HermesSpec == HermesInit /\ [][HermesNext]_hermes

-----------------------------------------------------------------------------
(* Properties                                                              *)

\* A session is the turns that were answered in it since it was cleared, each
\* once: overlapping turns and delegations to one agent cost none of them, a
\* turn that was under way when the session was reset or the agent dismissed
\* does not come back with its answer, and a restart changes nothing, unless
\* the process died before the last change was saved.
AnsweredSinceCleared(a) ==
    {t \in Turns : told[t] # "nothing" /\ turn[t].kept
                   /\ turn[t].agent = a /\ turn[t].begun = age[a]}
HistoryIsWhatWasAnswered ==
    gap # "lost" =>
        \A a \in Agents : /\ Range(history[a]) = AnsweredSinceCleared(a)
                          /\ IsInjective(history[a])
=============================================================================
