------------------------------- MODULE AgentRun -------------------------------
(***************************************************************************)
(* One agent of Studio (cq-office) while runs of its session come and go.  *)
(*                                                                         *)
(* Everything below runs on the browser's event loop, one task at a time;  *)
(* what makes it concurrent is everything that happens between two tasks:  *)
(*   - the store (agent) changes when an action is dispatched, but every   *)
(*     handler reads the snapshot (snap) of the last React commit;         *)
(*   - live text waits in a pending patch (pend) for the animation frame;  *)
(*   - the end of a run waits in a 0 ms timer for a chat final (coord);    *)
(*   - chat.send, sessions.reset and agent.wait are awaited, and patch the *)
(*     store when they come back (sending, reset, recon);                  *)
(*   - the gateway reports a run on two streams, "chat" and "agent", in    *)
(*     any order, with repetitions and losses while the run is live (gw).  *)
(*                                                                         *)
(* Texts are abstracted to the run they belong to.  A message typed by the *)
(* user is identified with the run id its chat.send will get (Local); the  *)
(* other run ids are runs started elsewhere (cron, another client).        *)
(***************************************************************************)
EXTENDS RunTerminal, Sequences

CONSTANTS
    Local,      \* run ids of the messages typed here
    Overlap,    \* TRUE: the gateway runs two runs of the session at a time
    Resets,     \* TRUE: the user may start new sessions, one at a time
    Recreates,  \* TRUE: React may re-create the event handler
    Elapses     \* TRUE: the closed-run window may elapse

ASSUME AgentRunAssumption ==
    /\ Local \subseteq Runs
    /\ {Overlap, Resets, Recreates, Elapses} \subseteq BOOLEAN

VARIABLES
    agent,      \* the agent in the store
    snap,       \* the agent as of the last React commit (stateRef.current)
    pend,       \* pendingLivePatchesRef: the patch of the next frame
    coord,      \* the coordinator state and the fallback timers
    final,      \* final[r]: transcript entry "run:<r>:assistant:final"
    sending,    \* messages whose chat.send has not been answered
    queueSend,  \* the one of them the queue effect is draining
    recon,      \* the reconciliation in flight
    reset,      \* the sessions.reset in flight: the run it was asked under
    gw,         \* gw[r]: where run r is at the gateway
    forgotten   \* history: runs whose terminal record has been dropped

vars == <<agent, snap, pend, coord, final, sending, queueSend, recon, reset,
          gw, forgotten>>
askVars == <<sending, queueSend, recon, reset, gw>>

Status == {"idle", "running", "error"}
Agent  == [status : Status, run : MaybeRun, stream : MaybeRun, queue : Seq(Local)]
Patch  == [run : MaybeRun, running : BOOLEAN, text : BOOLEAN]
Entry  == [text : MaybeRun, confirmed : BOOLEAN, seq : 0..MaxSeq]
NoPatch == [run |-> None, running |-> FALSE, text |-> FALSE]
NoEntry == [text |-> None, confirmed |-> FALSE, seq |-> 0]
NoReconcile == [run |-> None, decided |-> FALSE]
NoReset  == [asked |-> FALSE, run |-> None]
Stages   == {"unborn", "asked", "live", "over"}

TypeOK ==
    /\ agent \in Agent /\ snap \in Agent
    /\ pend \in Patch /\ (pend.run = None => pend = NoPatch)
    /\ coord \in Coordinator /\ coord.expired \subseteq coord.closed
    /\ final \in [Runs -> Entry]
    /\ sending \subseteq Local
    /\ queueSend \in Local \cup {None}
    /\ recon \in [run : MaybeRun, decided : BOOLEAN]
    /\ recon.decided => recon.run # None
    /\ reset \in [asked : BOOLEAN, run : MaybeRun]
    /\ gw \in [Runs -> Stages]
    /\ forgotten \subseteq Runs

Init ==
    /\ agent = [status |-> "idle", run |-> None, stream |-> None, queue |-> <<>>]
    /\ snap = agent
    /\ pend = NoPatch
    /\ coord = NoCoordination
    /\ final = [r \in Runs |-> NoEntry]
    /\ sending = {} /\ queueSend = None
    /\ recon = NoReconcile /\ reset = NoReset
    /\ gw = [r \in Runs |-> "unborn"]
    /\ forgotten = {}

-----------------------------------------------------------------------------
(* Store patches (reducer case "updateAgent").                             *)

Started(a, r) ==
    [status |-> "running", run |-> r, stream |-> a.stream, queue |-> a.queue]
Settled(a, status) ==
    [status |-> status, run |-> None, stream |-> None, queue |-> a.queue]
StreamCleared(a) ==
    [status |-> a.status, run |-> a.run, stream |-> None, queue |-> a.queue]

\* mergePendingLivePatch, for patches that name a run
Merge(old, new) ==
    IF old.run = new.run
    THEN [run |-> new.run, running |-> old.running \/ new.running,
          text |-> old.text \/ new.text]
    ELSE new

Flushed(a, p) ==
    [status |-> IF p.running THEN "running" ELSE a.status, run |-> p.run,
     stream |-> IF p.text THEN p.run ELSE a.stream, queue |-> a.queue]

Replaced(r, entry) == [final EXCEPT ![r] = entry]

\* Every chat and agent event starts by pruning the closed-run window.
Handled(co) ==
    /\ coord' = co
    /\ forgotten' = forgotten \cup coord.expired

\* The gateway reports run r only while the run is live.
Reported(r) == gw[r] = "live"
Closed(co, r) == r \in co.closed
ActiveElsewhere(r) == snap.run \notin {r, None}
Inactive == snap.run = None /\ snap.status # "running"

-----------------------------------------------------------------------------
(* Chat events (handleRuntimeChatEvent).                                   *)

\* What a delta carries: visible text, thinking, or neither (tool output).
ChatDelta(r) ==
    /\ Reported(r)
    /\ LET co == Prune(coord) IN
       \/ /\ Closed(co, r)
          /\ Handled(co) /\ UNCHANGED pend
       \/ /\ ~Closed(co, r) /\ (ActiveElsewhere(r) \/ Inactive)
          /\ Handled(ClearTracking(co, r)) /\ UNCHANGED pend
       \/ /\ ~Closed(co, r) /\ ~ActiveElsewhere(r) /\ ~Inactive
          /\ Handled(co)
          /\ \E running, text \in BOOLEAN :
                /\ text => running
                /\ pend' = Merge(pend, [run |-> r, running |-> running, text |-> text])
    /\ UNCHANGED <<agent, snap, final, askVars>>

\* seeded fault: the final leaves the pending live patch to the next frame
KeepsPatch(co, r) ==
    /\ pend' = pend
    /\ Handled(Close(co, r))
\* The intents every terminal chat event shares.
ClosesRun(co, r) ==
    /\ pend' = NoPatch
    /\ Handled(Close(co, r))

\* A user or system message on the chat stream changes no run.
ChatEcho(r) ==
    /\ Reported(r)
    /\ LET co == Prune(coord) IN
       Handled(IF ActiveElsewhere(r) THEN ClearTracking(co, r) ELSE co)
    /\ UNCHANGED <<agent, snap, pend, final, askVars>>

ChatFinal(r, seq) ==
    /\ Reported(r)
    /\ LET co == Prune(coord) IN
       \/ /\ ActiveElsewhere(r)
          /\ Handled(ClearTracking(co, r))
          /\ UNCHANGED <<agent, pend, final>>
       \/ /\ ~ActiveElsewhere(r) /\ StaleTerminal(co, r, seq)
          /\ Handled(FinalSeen(co, r))
          /\ UNCHANGED <<agent, pend, final>>
       \/ /\ ~ActiveElsewhere(r) /\ ~StaleTerminal(co, r, seq)
          /\ \/ final' = Replaced(r, [text |-> r, confirmed |-> TRUE, seq |-> seq])
             \/ final' = final          \* a tool result, or no text to show
          /\ ClosesRun(Commit(FinalSeen(co, r), r, "chat", seq), r)
          /\ agent' = IF snap.run = r THEN Settled(agent, "idle") ELSE StreamCleared(agent)
    /\ UNCHANGED <<snap, askVars>>

ChatStopped(r, status) ==               \* "aborted" (idle) and "error"
    /\ Reported(r)
    /\ LET co == Prune(coord) IN
       \/ /\ ActiveElsewhere(r)
          /\ Handled(ClearTracking(co, r)) /\ UNCHANGED <<agent, pend>>
       \/ /\ ~ActiveElsewhere(r)
          /\ ClosesRun(co, r)
          /\ agent' = IF snap.run = r THEN Settled(agent, status) ELSE StreamCleared(agent)
    /\ UNCHANGED <<snap, final, askVars>>

-----------------------------------------------------------------------------
(* Agent events (handleRuntimeAgentEvent).                                 *)

\* The preflight of every agent event but a lifecycle start.
Ignored(co, r) == Closed(co, r) \/ ActiveElsewhere(r) \/ Inactive
AfterIgnored(co, r) == IF Closed(co, r) THEN co ELSE ClearTracking(co, r)

AgentDelta(r) ==                        \* the assistant and reasoning streams
    /\ Reported(r)
    /\ LET co == Prune(coord) IN
       \/ /\ Ignored(co, r)
          /\ Handled(AfterIgnored(co, r)) /\ UNCHANGED pend
       \/ /\ ~Ignored(co, r)
          /\ Handled(co)
          /\ \E text \in BOOLEAN :
                pend' = Merge(pend, [run |-> r, running |-> TRUE, text |-> text])
    /\ UNCHANGED <<agent, snap, final, askVars>>

\* A start is always taken, also for a run that is closed: it reopens it.
LifecycleStart(r) ==
    /\ Reported(r)
    /\ Handled(CancelFallback(Known(Prune(coord), r), r))
    /\ agent' = Started(agent, r)
    /\ UNCHANGED <<snap, pend, final, askVars>>

LifecycleEnd(r) ==
    /\ Reported(r)
    /\ LET co == Prune(coord) IN
       \/ /\ Ignored(co, r)
          /\ Handled(AfterIgnored(co, r)) /\ UNCHANGED <<agent, pend>>
       \/ /\ ~Ignored(co, r) /\ Defers(co, r, snap.stream)
          /\ pend' = NoPatch
          /\ Handled(WithTimer(Known(co, r), r, snap.stream))
          /\ UNCHANGED agent
       \/ /\ ~Ignored(co, r) /\ ~Defers(co, r, snap.stream)
          /\ pend' = NoPatch
          /\ Handled(Close(IF co.term[r].seen THEN CancelFallback(co, r)
                           ELSE ClearTerm(co, r), r))
          /\ agent' = Settled(agent, "idle")
    /\ UNCHANGED <<snap, final, askVars>>

LifecycleError(r) ==
    /\ Reported(r)
    /\ LET co == Prune(coord) IN
       \/ /\ Ignored(co, r)
          /\ Handled(AfterIgnored(co, r)) /\ UNCHANGED <<agent, pend>>
       \/ /\ ~Ignored(co, r)
          /\ pend' = NoPatch
          /\ Handled(Close(CancelFallback(Known(co, r), r), r))
          /\ agent' = Settled(agent, "error")
    /\ UNCHANGED <<snap, final, askVars>>

\* The 0 ms timer of a deferred end (reduceLifecycleFallbackFired).
FallbackFires(r) ==
    /\ Pending(coord, r)
    /\ LET co == WithTimer(coord, r, None)
           t  == coord.term[r] IN
       IF t.known /\ ~t.seen
       THEN /\ final' = Replaced(r, [text |-> coord.timer[r], confirmed |-> FALSE, seq |-> 0])
            /\ coord' = Close(Commit(co, r, "fallback", 0), r)
            /\ agent' = Settled(agent, "idle")
       ELSE coord' = co /\ UNCHANGED <<final, agent>>
    /\ UNCHANGED <<snap, pend, askVars, forgotten>>

-----------------------------------------------------------------------------
(* Sending (useChatInteractionController, sendChatMessageViaStudio).       *)

\* Up to its first await.  A "/new" or "/reset" message empties the
\* transcript first.
Sends(base, m, byQueue) ==
    /\ pend' = NoPatch
    /\ coord' = ClearTracking(coord, m)
    /\ \E clears \in BOOLEAN :
          final' = IF clears THEN [r \in Runs |-> NoEntry] ELSE final
    /\ agent' = [status |-> "running", run |-> m, stream |-> None, queue |-> base.queue]
    /\ sending' = sending \cup {m}
    /\ queueSend' = IF byQueue THEN m ELSE queueSend
    /\ gw' = [gw EXCEPT ![m] = "asked"]

Fresh(m) == gw[m] = "unborn" /\ \A i \in DOMAIN agent.queue : agent.queue[i] # m

\* handleSend, which reads the status of the rendered agent
UserSends(m) ==
    /\ Fresh(m)
    /\ \/ /\ snap.status = "running"
          /\ agent' = [status |-> agent.status, run |-> agent.run,
                       stream |-> agent.stream, queue |-> Append(agent.queue, m)]
          /\ UNCHANGED <<pend, coord, final, sending, queueSend, gw>>
       \/ snap.status # "running" /\ Sends(agent, m, FALSE)
    /\ UNCHANGED <<snap, recon, reset, forgotten>>

\* A React commit and its effects: the snapshot is taken, then the queue
\* effect sends the first queued message if the agent is idle.
QueueReadyBeyondOne(a) ==               \* seeded fault: looks at the second entry
    a.status = "idle" /\ Len(a.queue) > 1 /\ queueSend = None
QueueReady(a) == a.status = "idle" /\ a.queue # <<>> /\ queueSend = None
Render ==
    /\ snap # agent \/ QueueReady(agent)
    /\ snap' = agent
    /\ IF QueueReady(agent)
       THEN Sends([agent EXCEPT !.queue = Tail(agent.queue)], Head(agent.queue), TRUE)
       ELSE UNCHANGED <<agent, pend, coord, final, sending, queueSend, gw>>
    /\ UNCHANGED <<recon, reset, forgotten>>

FlushFrame ==                           \* requestAnimationFrame
    /\ pend.run # None
    /\ agent' = Flushed(agent, pend)
    /\ pend' = NoPatch
    /\ UNCHANGED <<snap, coord, final, askVars, forgotten>>

Answered(m) ==
    /\ m \in sending
    /\ sending' = sending \ {m}
    /\ queueSend' = IF queueSend = m THEN None ELSE queueSend
    /\ UNCHANGED <<snap, pend, coord, final, recon, reset, forgotten>>

ReplyStarted(m) == Answered(m) /\ UNCHANGED <<agent, gw>>
ReplyImmediate(m) ==
    /\ Answered(m)
    /\ agent' = Settled(agent, "idle")
    /\ gw' = [gw EXCEPT ![m] = "over"]
ReplyFailed(m) ==                       \* the request may have arrived
    /\ Answered(m)
    /\ agent' = Settled(agent, "error")
    /\ \/ UNCHANGED gw
       \/ gw' = [gw EXCEPT ![m] = "over"]

RemoveQueued(i) ==
    /\ i \in DOMAIN agent.queue
    /\ agent' = [status |-> agent.status, run |-> agent.run, stream |-> agent.stream,
                 queue |-> SubSeq(agent.queue, 1, i - 1)
                           \o SubSeq(agent.queue, i + 1, Len(agent.queue))]
    /\ UNCHANGED <<snap, pend, coord, final, askVars, forgotten>>

-----------------------------------------------------------------------------
(* A new session (handleNewSession).                                       *)

NewSessionAsked ==
    /\ Resets /\ ~reset.asked
    /\ reset' = [asked |-> TRUE, run |-> snap.run]
    /\ UNCHANGED <<agent, snap, pend, coord, final, sending, queueSend, recon,
                   gw, forgotten>>

\* The run that was active when the session was asked for loses its timer;
\* the pending live patch stays.
NewSessionDone ==
    /\ reset.asked
    /\ reset' = NoReset
    /\ coord' = IF reset.run = None THEN coord ELSE ClearTracking(coord, reset.run)
    /\ agent' = [status |-> "idle", run |-> None, stream |-> None, queue |-> <<>>]
    /\ final' = [r \in Runs |-> NoEntry]
    /\ UNCHANGED <<snap, pend, sending, queueSend, recon, gw, forgotten>>

NewSessionFailed ==
    /\ reset.asked
    /\ reset' = NoReset
    /\ UNCHANGED <<agent, snap, pend, coord, final, sending, queueSend, recon,
                   gw, forgotten>>

-----------------------------------------------------------------------------
(* Reconciliation (runAgentReconcileOperation), polled while connected.    *)
(* The decision is taken when agent.wait answers and carried out after the *)
(* answers for the other agents of the fleet.                              *)

ReconcileAsks ==
    /\ recon = NoReconcile
    /\ snap.status = "running" /\ snap.run # None
    /\ recon' = [run |-> snap.run, decided |-> FALSE]
    /\ UNCHANGED <<agent, snap, pend, coord, final, sending, queueSend, reset,
                   gw, forgotten>>

StoppedMeanwhile(r) == snap.run = r /\ snap.status # "running"  \* seeded fault
StillRunning(r) == snap.run = r /\ snap.status = "running"

ReconcileAnswered ==
    /\ recon.run # None /\ ~recon.decided
    /\ \/ /\ gw[recon.run] \in {"live", "over"} /\ StillRunning(recon.run)
          /\ recon' = [run |-> recon.run, decided |-> TRUE]
       \/ /\ gw[recon.run] # "over" \/ ~StillRunning(recon.run)
          /\ recon' = NoReconcile
    /\ UNCHANGED <<agent, snap, pend, coord, final, sending, queueSend, reset,
                   gw, forgotten>>

ReconcileRejected ==
    /\ recon.run # None /\ ~recon.decided
    /\ recon' = NoReconcile
    /\ UNCHANGED <<agent, snap, pend, coord, final, sending, queueSend, reset,
                   gw, forgotten>>

ReconcileApplies ==
    /\ recon.decided
    /\ recon' = NoReconcile
    /\ coord' = ClearTracking(coord, recon.run)
    /\ \E outcome \in {"idle", "error"} : agent' = Settled(agent, outcome)
    /\ UNCHANGED <<snap, pend, final, sending, queueSend, reset, gw, forgotten>>

-----------------------------------------------------------------------------
(* The closed-run window, the handler's life cycle and the gateway.        *)

WindowElapses(r) ==                     \* CLOSED_RUN_TTL_MS
    /\ Elapses /\ r \in coord.closed \ coord.expired
    /\ coord' = [term |-> coord.term, closed |-> coord.closed,
                 expired |-> coord.expired \cup {r}, timer |-> coord.timer]
    /\ UNCHANGED <<agent, snap, pend, final, askVars, forgotten>>

\* The effect that owns the handler depends on the connection status and on
\* callbacks: when one changes, dispose() drops timers and coordinator state.
Dispose ==
    /\ Recreates /\ coord # NoCoordination
    /\ coord' = NoCoordination
    /\ forgotten' = Runs
    /\ UNCHANGED <<agent, snap, pend, final, askVars>>

LaneFree == Overlap \/ \A r \in Runs : gw[r] # "live"

GatewayStarts(r) ==
    /\ \/ gw[r] = "unborn" /\ r \notin Local
       \/ gw[r] = "asked" /\ r \notin sending
    /\ LaneFree
    /\ gw' = [gw EXCEPT ![r] = "live"]
    /\ UNCHANGED <<agent, snap, pend, coord, final, sending, queueSend, recon,
                   reset, forgotten>>

GatewayEnds(r) ==
    /\ gw[r] \in {"asked", "live"} /\ r \notin sending
    /\ gw' = [gw EXCEPT ![r] = "over"]
    /\ UNCHANGED <<agent, snap, pend, coord, final, sending, queueSend, recon,
                   reset, forgotten>>

-----------------------------------------------------------------------------
ChatEvent(r) ==
    \/ ChatDelta(r) \/ ChatEcho(r)
    \/ \E seq \in 0..MaxSeq : ChatFinal(r, seq)
    \/ \E status \in {"idle", "error"} : ChatStopped(r, status)
AgentEvent(r) ==
    AgentDelta(r) \/ LifecycleStart(r) \/ LifecycleEnd(r) \/ LifecycleError(r)
Reply(m) == ReplyStarted(m) \/ ReplyImmediate(m) \/ ReplyFailed(m)
Reconcile ==
    ReconcileAsks \/ ReconcileAnswered \/ ReconcileRejected \/ ReconcileApplies
NewSession == NewSessionAsked \/ NewSessionDone \/ NewSessionFailed
Gateway(r) == GatewayStarts(r) \/ GatewayEnds(r)

Next ==
    \/ \E r \in Runs : ChatEvent(r) \/ AgentEvent(r) \/ FallbackFires(r)
                       \/ WindowElapses(r) \/ Gateway(r)
    \/ \E m \in Local : UserSends(m) \/ Reply(m)
    \/ \E i \in DOMAIN agent.queue : RemoveQueued(i)
    \/ Render \/ FlushFrame \/ NewSession \/ Reconcile \/ Dispose

Spec == Init /\ [][Next]_vars

\* Fairness.  React commits and animation frames happen, timers fire and the
\* poll of useRuntimeSyncController (every 3 s while connected) keeps asking.
\* Of the gateway it is assumed that it answers every chat.send, ends every
\* run, and does not reject agent.wait for ever.
FairSpec ==
    /\ Spec
    /\ WF_vars(snap # agent /\ Render) /\ WF_vars(FlushFrame)
    /\ WF_vars(ReconcileAsks) /\ WF_vars(ReconcileApplies)
    /\ SF_vars(ReconcileAnswered)
    /\ \A r \in Runs : WF_vars(FallbackFires(r)) /\ WF_vars(GatewayEnds(r))
    /\ \A m \in Local : WF_vars(Reply(m))

-----------------------------------------------------------------------------
(* Properties                                                              *)

\* A run inside its closed window has no fallback armed: the timer of a run
\* whose outcome is settled can never post a second outcome
\* (cancelLifecycleFallback on every path that closes a run).
ClosedRunHasNoFallback == \A r \in coord.closed : ~Pending(coord, r)

\* Once the chat final of a run has been taken, no live patch of that run is
\* waiting for the next frame, so it cannot be shown as running again by a
\* late flush (clearPendingLivePatch together with the closed-run window).
NoFlushAfterFinal == \A r \in Runs : coord.term[r].seen => pend.run # r

\* An agent shown as running names a run: without a run id it could neither
\* be reconciled nor settled by an event (resolveReconcileEligibility).  True of
\* the events; an answer of chat.history may revive an agent without one
\* (HistorySync, HistorySettles).
RunningNamesARun == agent.status = "running" => agent.run # None

\* The text of a chat final is never replaced by the provisional text of a
\* lifecycle fallback while the run's terminal record exists.
ConfirmedStays ==
    [][\A r \in Runs : /\ final[r].confirmed /\ r \notin forgotten'
                       /\ final'[r] # NoEntry
                      => final'[r].confirmed]_vars

\* Of several chat finals of a run the newest sequence number stays
\* (isStaleTerminal), however they interleave with ends, starts, aborts,
\* sends and reconciliations.
NewestFinalStays ==
    [][\A r \in Runs : /\ final[r].confirmed /\ r \notin forgotten'
                       /\ final'[r] # NoEntry
                      => final'[r].seq >= final[r].seq]_vars

\* A run that is over at the gateway does not stay shown as running, whatever
\* events were lost: the reconciliation poll settles it.
LostRunsSettle ==
    \A r \in Runs :
        (gw[r] = "over" /\ agent.run = r /\ agent.status = "running")
            ~> (agent.run # r \/ agent.status # "running")

\* The messages queued behind a running agent are sent, unless a run fails
\* (the queue effect drains only an idle agent).
QueueDrains == agent.queue # <<>> ~> (agent.queue = <<>> \/ agent.status = "error")

\* The end of a run other than the agent's current run is ignored
\* (resolveLifecyclePatch); the transition a fallback timer was armed with is
\* dispatched without asking again.
OtherRunsEndIgnored ==
    [][\A r \in Runs : FallbackFires(r) /\ agent.run \notin {r, None}
                      => agent'.run = agent.run]_vars
=============================================================================
