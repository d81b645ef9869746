----------------------------- MODULE HistorySync -----------------------------
(***************************************************************************)
(* The transcript of one agent of Studio (cq-office) and the history it    *)
(* asks the gateway for.                                                   *)
(*                                                                         *)
(* A message typed here is shown before the gateway has it; a reply is     *)
(* shown when its final event arrives; whatever was missed comes with an   *)
(* answer of chat.history, which is merged into the lines shown.  Frames   *)
(* travel on one socket and arrive in the order they were sent, but the    *)
(* gateway may read the log for an answer well before it sends it.  The    *)
(* agent in the store changes when an action is dispatched; the handlers   *)
(* read the latest one rendered.                                           *)
(*                                                                         *)
(* A line is what one side says in a run.  The code tells two lines apart  *)
(* by role and text (Says): replies like "ok" come more than once.  A      *)
(* reset keeps the session key.  Timestamps, thinking and tool lines are   *)
(* left out, as are the other events of a run, which AgentRun models.  The *)
(* merge is the one made by default: the entries that the flag             *)
(* NEXT_PUBLIC_STUDIO_TRANSCRIPT_V2 switches on are not modelled.          *)
(***************************************************************************)
EXTENDS Integers, FiniteSets, SequencesExt

CONSTANTS
    Typed,         \* runs of messages typed here
    Elsewhere,     \* runs of the session started elsewhere
    Says,          \* Says[l]: the text of line l
    HistoryLimit,  \* how many messages an answer holds
    HistoryCalls,  \* slots for the requests under way
    MaxFresh,      \* how often a new session is started
    MaxBreaks,     \* how often the connection breaks
    Nothing

Turns == Typed \cup Elsewhere
TurnLines == [run : Turns, role : {"user", "assistant"}]

ASSUME HistoryAssumption ==
    /\ Nothing \notin Turns
    /\ DOMAIN Says = TurnLines
    /\ HistoryLimit \in Nat \ {0} /\ MaxFresh \in Nat /\ MaxBreaks \in Nat
    /\ IsFiniteSet(Turns) /\ IsFiniteSet(HistoryCalls)
    \* The code keeps any number of requests; only a reset leaves one behind.
    /\ Cardinality(HistoryCalls) > MaxFresh

VARIABLES
    talk,     \* at the gateway: the session's log, and what became of each run
    wire,     \* frames on their way from the gateway
    room,     \* the agent in the store; since (history): the gateway's session
              \* it was last renewed for
    latest,   \* the agent as of the last commit (agentsRef.current)
    dirty,    \* something was dispatched since
    fetches,  \* the chat.history requests under way
    mark,     \* historyInFlightRef holds the session key
    fresh,    \* the sessions.reset under way, with the agent it was asked for
    line,     \* the connection
    breaks

history == <<talk, wire, room, latest, dirty, fetches, mark, fresh, line, breaks>>

NoAsk == [stage |-> "none", revision |-> 0, epoch |-> 0, log |-> <<>>]
NoFresh == [stage |-> "none", revision |-> 0, epoch |-> 0]
Said(r, role) == [run |-> r, role |-> role]

ChatOK(c) ==
    /\ c.lines \in Seq(TurnLines) /\ c.revision \in Nat /\ c.epoch \in 0..MaxFresh
    /\ c.since \in 0..MaxFresh /\ c.loaded \in BOOLEAN /\ c.status \in {"idle", "running"}
    /\ c.run \in Turns \cup {Nothing}
HistoryTypeOK ==
    /\ talk.log \in Seq(TurnLines) /\ talk.age \in 0..MaxFresh
    /\ talk.turn \in [Turns -> {"unborn", "sent", "going", "over"}]
    /\ talk.born \in [Turns -> 0..MaxFresh]
    /\ ChatOK(room) /\ ChatOK(latest)
    /\ ~dirty => latest = room
    /\ mark => \E c \in HistoryCalls : fetches[c] # NoAsk
    /\ ~mark => \E c \in HistoryCalls : fetches[c] = NoAsk    \* there are enough slots

\* The page opens on a session in which a run may be under way or over.
EmptyChat == [lines |-> <<>>, revision |-> 0, epoch |-> 0, since |-> 0, loaded |-> FALSE,
              status |-> "idle", run |-> Nothing]
HistoryInit ==
    /\ \E turn \in [Turns -> {"unborn", "going"}] :
          /\ \A r \in Typed : turn[r] = "unborn"
          /\ talk = [log |-> SetToSeq({Said(r, "user") : r \in {x \in Turns : turn[x] = "going"}}),
                     turn |-> turn, born |-> [r \in Turns |-> 0], age |-> 0]
    /\ wire = <<>>
    /\ room = EmptyChat /\ latest = room /\ dirty = TRUE
    /\ fetches = [c \in HistoryCalls |-> NoAsk] /\ mark = FALSE
    /\ fresh = NoFresh
    /\ line \in BOOLEAN /\ breaks = 0   \* gone again by the time the agents are there

-----------------------------------------------------------------------------
(* Merging an answer into the lines shown (mergeHistoryWithPending).       *)

SameText(l, m) == l.role = m.role /\ Says[l] = Says[m]
Copies(s, l) == Cardinality({i \in DOMAIN s : SameText(s[i], l)})
SameLines(s, t) == Len(s) = Len(t) /\ \A i \in DOMAIN s : SameText(s[i], t[i])

\* A line shown is looked for behind the one before it; one that is not
\* there is still on its way to the gateway and goes in at that place.
Placed(merge, l) ==
    LET copies == {i \in merge.next..Len(merge.lines) : SameText(merge.lines[i], l)}
    IN IF copies # {}
       THEN [merge EXCEPT !.next = Min(copies) + 1]
       ELSE [lines |-> InsertAt(merge.lines, merge.next, l), next |-> merge.next + 1]

\* Of a reply both sides have, as many copies stay as the answer holds.
Bounded(lines, answer, current) ==
    FoldLeft(LAMBDA kept, l :
                 IF /\ l.role = "assistant" /\ Copies(current, l) > 0
                    /\ Copies(answer, l) \in 1..Copies(kept, l)
                 THEN kept ELSE Append(kept, l),
             <<>>, lines)

AnswerWins(answer, current) == answer           \* seeded fault: pending lines are forgotten
Merged(answer, current) ==
    IF current = <<>> \/ answer = <<>> THEN answer
    ELSE Bounded(FoldLeft(Placed, [lines |-> answer, next |-> 1], current).lines,
                 answer, current)

-----------------------------------------------------------------------------
(* An answer becomes a patch (resolveHistoryResponseDisposition,           *)
(* buildHistorySyncPatch, resolveHistoryRunStatePatch, "updateAgent").     *)

AnyAnswer(ask, view) == TRUE        \* seeded fault: the answer is not checked
Timely(ask, view) == view.epoch = ask.epoch /\ view.revision = ask.revision

SeenOver(view, answer) ==
    /\ view.run = Nothing /\ view.status = "running"
    /\ answer # <<>> /\ Last(answer).role = "assistant"
\* recent: the last message is at most two hours old
SeenGoing(view, answer, recent) ==
    /\ view.run = Nothing /\ view.status # "running"
    /\ answer # <<>> /\ Last(answer).role = "user" /\ recent

Patched(view, answer, merged, recent) ==
    LET lines  == IF answer = <<>> \/ SameLines(merged, view.lines) THEN room.lines ELSE merged
        ends   == SeenOver(view, answer)
        starts == SeenGoing(view, answer, recent)
    IN [lines    |-> lines,
        revision |-> IF SameLines(lines, room.lines) THEN room.revision ELSE room.revision + 1,
        epoch    |-> room.epoch,
        since    |-> room.since,
        loaded   |-> TRUE,
        status   |-> IF ends THEN "idle" ELSE IF starts THEN "running" ELSE room.status,
        run      |-> IF ends \/ starts THEN Nothing ELSE room.run]

Shown(c, l) == [c EXCEPT !.lines = Append(@, l), !.revision = @ + 1]

-----------------------------------------------------------------------------
(* The gateway.                                                            *)

Frame(kind, what, log) == [kind |-> kind, what |-> what, log |-> log]
Send(frame) == wire' = IF line THEN Append(wire, frame) ELSE wire

\* A run begins: the message is in the log, and everybody is told.
RunBegins(r) ==
    /\ talk.turn[r] = IF r \in Typed THEN "sent" ELSE "unborn"
    /\ talk' = [talk EXCEPT !.turn[r] = "going", !.born[r] = talk.age,
                            !.log = Append(@, Said(r, "user"))]
    /\ Send(Frame("start", r, <<>>))
    /\ UNCHANGED <<room, latest, dirty, fetches, mark, fresh, line, breaks>>

\* It ends with a reply, or with a message that says why there is none.  What
\* a run of an earlier session says belongs to that session.
RunEnds(r) ==
    /\ talk.turn[r] = "going"
    /\ talk' = [talk EXCEPT !.turn[r] = "over",
                            !.log = IF talk.born[r] < talk.age THEN @
                                    ELSE Append(@, Said(r, "assistant"))]
    /\ Send(Frame("final", r, <<>>))
    /\ UNCHANGED <<room, latest, dirty, fetches, mark, fresh, line, breaks>>

Newest(log) == IF Len(log) <= HistoryLimit THEN log
               ELSE SubSeq(log, Len(log) - HistoryLimit + 1, Len(log))
ReadsLog(c) ==
    /\ fetches[c].stage = "asked"
    /\ fetches' = [fetches EXCEPT ![c].stage = "read", ![c].log = Newest(talk.log)]
    /\ UNCHANGED <<talk, wire, room, latest, dirty, mark, fresh, line, breaks>>
Answers(c) ==
    /\ fetches[c].stage = "read"
    /\ fetches' = [fetches EXCEPT ![c].stage = "answered", ![c].log = <<>>]
    /\ Send(Frame("answer", c, fetches[c].log))
    /\ UNCHANGED <<talk, room, latest, dirty, mark, fresh, line, breaks>>
Refuses(c) ==
    /\ fetches[c].stage = "asked"
    /\ fetches' = [fetches EXCEPT ![c].stage = "answered"]
    /\ Send(Frame("refusal", c, <<>>))
    /\ UNCHANGED <<talk, room, latest, dirty, mark, fresh, line, breaks>>

Resets ==
    /\ fresh.stage = "asked"
    /\ talk' = [talk EXCEPT !.log = <<>>, !.age = @ + 1]
    /\ fresh' = [fresh EXCEPT !.stage = "answered"]
    /\ Send(Frame("reset", Nothing, <<>>))
    /\ UNCHANGED <<room, latest, dirty, fetches, mark, line, breaks>>

-----------------------------------------------------------------------------
(* Studio.                                                                 *)

\* runHistorySyncOperation up to its await
FreeCall == CHOOSE c \in HistoryCalls : fetches[c] = NoAsk
Fetches(view) ==
    IF mark THEN UNCHANGED <<fetches, mark>>
    ELSE /\ mark' = TRUE
         /\ fetches' = [fetches EXCEPT ![FreeCall] =
                        [NoAsk EXCEPT !.stage = "asked",
                                      !.revision = view.revision, !.epoch = view.epoch]]

\* A commit runs the effects: while the history has not been loaded it is
\* asked for after every commit.
Committed(c) ==
    /\ latest' = c /\ dirty' = FALSE
    /\ IF line /\ ~c.loaded THEN Fetches(c) ELSE UNCHANGED <<fetches, mark>>
Commits ==
    /\ dirty
    /\ Committed(room)
    /\ UNCHANGED <<talk, wire, room, fresh, line, breaks>>

\* Asked for at other times: by the handler of a run's start or final that came
\* without its text, by the user for more, and every 4.5 s while the focused
\* agent runs.
Refreshes ==
    /\ line /\ ~mark
    /\ Fetches(latest)
    /\ UNCHANGED <<talk, wire, room, latest, dirty, fresh, line, breaks>>

\* While the agent runs, what is typed waits in the queue.  What a click
\* dispatches is latest before the next event.
Types(r) ==
    /\ line /\ r \in Typed /\ talk.turn[r] = "unborn"
    /\ latest.status # "running"
    /\ room' = [Shown(room, Said(r, "user")) EXCEPT !.status = "running", !.run = r]
    /\ Committed(room')
    /\ talk' = [talk EXCEPT !.turn[r] = "sent"]
    /\ UNCHANGED <<wire, fresh, line, breaks>>

\* The poll of agent.wait finds that the run is over (reconcileRunningAgents).
Reconciles ==
    /\ line /\ latest.status = "running" /\ latest.run # Nothing
    /\ talk.turn[latest.run] = "over"
    /\ room' = [room EXCEPT !.status = "idle", !.run = Nothing]
    /\ dirty' = TRUE
    /\ Fetches(latest)
    /\ UNCHANGED <<talk, wire, latest, fresh, line, breaks>>

\* The button is busy until the commit that shows the new session.
BusyShown == room.epoch # latest.epoch
AsksReset ==
    /\ line /\ fresh = NoFresh /\ ~BusyShown /\ talk.age < MaxFresh
    /\ fresh' = [stage |-> "asked", revision |-> latest.revision, epoch |-> latest.epoch]
    /\ UNCHANGED <<talk, wire, room, latest, dirty, fetches, mark, line, breaks>>

Receives(kind) == line /\ wire # <<>> /\ Head(wire).kind = kind /\ wire' = Tail(wire)

StartArrives ==
    /\ Receives("start")
    /\ room' = [room EXCEPT !.status = "running", !.run = Head(wire).what]
    /\ dirty' = TRUE
    /\ UNCHANGED <<talk, latest, fetches, mark, fresh, line, breaks>>

\* The final of a run is taken unless another one is active.
FinalArrives ==
    /\ Receives("final")
    /\ LET r == Head(wire).what
           shown == Shown(room, Said(r, "assistant")) IN
       IF latest.run \notin {r, Nothing} THEN UNCHANGED <<room, dirty>>
       ELSE /\ room' = IF latest.run = r
                        THEN [shown EXCEPT !.status = "idle", !.run = Nothing] ELSE shown
            /\ dirty' = TRUE
    /\ UNCHANGED <<talk, latest, fetches, mark, fresh, line, breaks>>

\* Whatever becomes of a request, its end dispatches the revision it was made
\* for, which changes the agent and so commits again.
MarkStays(c) == mark' = (mark /\ ~Timely(fetches[c], latest))
                                    \* seeded fault: a dropped answer leaves the mark
Unmarked(c) == mark' = FALSE
Ended(c) ==
    /\ Unmarked(c)
    /\ fetches' = [fetches EXCEPT ![c] = NoAsk]
    /\ dirty' = TRUE
    /\ UNCHANGED <<talk, latest, fresh, line, breaks>>

\* A timely answer is merged into the lines of the agent as it was rendered.
Merges(log) ==
    \E merged \in {Merged(log, latest.lines)}, recent \in BOOLEAN :
        room' = Patched(latest, log, merged, recent)
AnswerArrives ==
    /\ Receives("answer")
    /\ Ended(Head(wire).what)
    /\ IF Timely(fetches[Head(wire).what], latest) THEN Merges(Head(wire).log)
       ELSE UNCHANGED room
RefusalArrives ==
    /\ Receives("refusal")
    /\ Ended(Head(wire).what)
    /\ UNCHANGED room

\* buildNewSessionAgentPatch, from the agent as it was when the user asked
Renewed == [EmptyChat EXCEPT
               !.revision = IF room.lines # <<>> THEN room.revision + 1 ELSE fresh.revision + 1,
               !.epoch = fresh.epoch + 1, !.since = talk.age]
ResetArrives ==
    /\ Receives("reset")
    /\ room' = Renewed /\ dirty' = TRUE
    /\ mark' = FALSE                    \* clearHistoryInFlight
    /\ fresh' = NoFresh
    /\ UNCHANGED <<talk, latest, fetches, line, breaks>>

\* The client rejects every call when the socket closes.
Breaks ==
    /\ line /\ breaks < MaxBreaks
    /\ line' = FALSE /\ breaks' = breaks + 1
    /\ wire' = <<>>
    /\ fetches' = [c \in HistoryCalls |-> NoAsk] /\ mark' = FALSE
    /\ fresh' = NoFresh
    /\ dirty' = TRUE
    /\ UNCHANGED <<talk, room, latest>>
Returns ==
    /\ ~line
    /\ line' = TRUE /\ dirty' = TRUE
    /\ UNCHANGED <<talk, wire, room, latest, fetches, mark, fresh, breaks>>

Arrives == StartArrives \/ FinalArrives \/ AnswerArrives \/ RefusalArrives \/ ResetArrives
HistoryNext ==
    \/ \E r \in Turns : RunBegins(r) \/ RunEnds(r) \/ Types(r)
    \/ \E c \in HistoryCalls : ReadsLog(c) \/ Answers(c) \/ Refuses(c)
    \/ Resets \/ AsksReset
    \/ Commits \/ Refreshes \/ Reconciles
    \/ Arrives
    \/ Breaks \/ Returns

HistoryFairness ==
    /\ WF_history(Commits) /\ WF_history(Arrives)
    /\ WF_history(latest.status = "running" /\ Refreshes)
    /\ WF_history(Reconciles) /\ WF_history(Resets) /\ WF_history(Returns)
    /\ \A r \in Turns : WF_history(RunEnds(r)) /\ WF_history(r \in Typed /\ RunBegins(r))
    /\ \A c \in HistoryCalls : SF_history(ReadsLog(c)) /\ WF_history(Answers(c))

HistorySpec == HistoryInit /\ [][HistoryNext]_history

-----------------------------------------------------------------------------
(* Properties                                                              *)

\* Merging an answer forgets nothing and shows nothing twice.  Whatever was
\* shown stays until the session is renewed: a message typed again is not
\* taken for the one before it, and one the gateway has not got yet is kept.
\* And a reply that came both ways is shown as often as the answer has it,
\* unless something was dispatched since the commit the handler looks at.
Handled == wire # <<>> /\ Head(wire).kind = "answer" /\ wire' = Tail(wire)
AnswersMerged == [][
    /\ room'.since = latest.since =>
          \A i \in DOMAIN latest.lines :
             LET shown == latest.lines[i] IN
             Copies(room'.lines, shown) >=
                 IF shown.role = "user" THEN Copies(latest.lines, shown) ELSE 1
    /\ Handled /\ ~dirty /\ room'.lines # room.lines =>
          \A i \in DOMAIN Head(wire).log :
             LET reply == Head(wire).log[i] IN
             reply.role = "assistant" =>
                 Copies(room'.lines, reply) = Copies(Head(wire).log, reply)]_history

\* No line of a session that was reset comes back with an answer, though the
\* session key stays and the gateway may have read the log before the reset;
\* only an answer that is handled before the reset is latest may do it.
NoGhosts == [][
    Handled /\ ~dirty =>
        \A i \in DOMAIN room'.lines :
            \/ \E k \in DOMAIN room.lines : room'.lines[i] = room.lines[k]
            \/ talk.born[room'.lines[i].run] >= room'.since]_history

\* The history of an agent is loaded, whatever answers were dropped as stale,
\* refused or lost with the connection; and an agent that is shown as running
\* because its history ended with a message of the user, which has no run that
\* an event or the reconciliation could settle, is settled by polling.
HistoryOpen == ~room.loaded \/ (room.status = "running" /\ room.run = Nothing)
HistorySettles == (line /\ HistoryOpen) ~> (~line \/ ~HistoryOpen)
=============================================================================
