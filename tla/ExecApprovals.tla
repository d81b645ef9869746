----------------------------- MODULE ExecApprovals -----------------------------
(***************************************************************************)
(* Command approvals in the Studio (src/features/agents/approvals/), for   *)
(* one agent: the list of pending approvals, the run that is aborted while *)
(* one of them waits, and the follow-up message that takes the work up     *)
(* again when it has been allowed.  One step per event and per             *)
(* continuation of an await; a list is changed together with its ref.      *)
(***************************************************************************)
EXTENDS Naturals, FiniteSets

CONSTANTS
    Approvals,    \* the approvals of the agent's session
    MaxRuns,      \* bound on the runs of the agent
    NoRun

ASSUME ApprovalsAssumption == MaxRuns \in Nat /\ NoRun \notin Nat /\ IsFiniteSet(Approvals)

AgentRuns == 1..MaxRuns

VARIABLES
    pending,      \* both lists of pending approvals: scoped and unscoped
    requested,    \* the approvals that were ever requested
    agentRun,     \* the agent's runId
    running,      \* the agent's status is running
    runs,         \* the number of runs so far
    pausedRun,    \* the agent's entry of pausedRunIdByAgentId
    aborting,     \* the runs with a chat.abort under way
    resolver,     \* resolver[i]: idle, asking, waiting, loading, resuming, over
    allows,       \* the approvals whose answer in asking is to allow
    resumes,      \* resumes[i]: the paused run the resume of i is about
    arrived,      \* arrived[i]: the approvals requested since i's first look
    pauses,       \* pauses[r]: how often run r was paused
    followUps     \* followUps[r]: the follow-ups sent for run r

approvals == <<pending, requested, agentRun, running, runs, pausedRun, aborting, resolver,
               allows, resumes, arrived, pauses, followUps>>
agent == <<agentRun, running, runs>>

Flow == {"idle", "asking", "waiting", "loading", "resuming", "over"}
ApprovalsTypeOK ==
    /\ pending \subseteq requested /\ requested \subseteq Approvals /\ allows \subseteq Approvals
    /\ {agentRun, pausedRun} \subseteq AgentRuns \cup {NoRun}
    /\ running \in BOOLEAN /\ runs \in 0..MaxRuns /\ aborting \subseteq AgentRuns
    /\ resolver \in [Approvals -> Flow] /\ resumes \in [Approvals -> AgentRuns \cup {NoRun}]
    /\ arrived \in [Approvals -> SUBSET Approvals]
    /\ pauses \in [AgentRuns -> 0..Cardinality(Approvals)]
    /\ followUps \in [AgentRuns -> 0..Cardinality(Approvals)]

ApprovalsInit ==
    /\ pending = {} /\ requested = {} /\ allows = {} /\ aborting = {}
    /\ agentRun = NoRun /\ running = FALSE /\ runs = 0 /\ pausedRun = NoRun
    /\ resolver = [i \in Approvals |-> "idle"]
    /\ resumes = [i \in Approvals |-> NoRun] /\ arrived = [i \in Approvals |-> {}]
    /\ pauses = [r \in AgentRuns |-> 0] /\ followUps = [r \in AgentRuns |-> 0]

-----------------------------------------------------------------------------
(* The agent's runs, as far as approvals read them                         *)

NewRun ==
    /\ runs < MaxRuns /\ runs' = runs + 1
    /\ agentRun' = runs + 1 /\ running' = TRUE

UserSendsMessage ==
    /\ NewRun
    /\ UNCHANGED <<pending, requested, pausedRun, aborting, resolver, allows, resumes,
                   arrived, pauses, followUps>>

\* The terminal event of the run, a failed chat.send or a history sync.
RunOver ==
    /\ running \/ agentRun # NoRun
    /\ agentRun' = NoRun /\ running' = FALSE
    /\ UNCHANGED <<pending, requested, runs, pausedRun, aborting, resolver, allows, resumes,
                   arrived, pauses, followUps>>

-----------------------------------------------------------------------------
(* Events of the gateway                                                   *)

\* shouldPauseRunForPendingExecApproval, for an approval with ask = always.
MustPause == running /\ agentRun # NoRun /\ pausedRun # agentRun

\* exec.approval.requested: the list, then pauseRunForApproval up to its
\* chat.abort.  The agent of an unscoped approval is not known yet.
ApprovalRequested(i, always, scoped) ==
    /\ i \notin requested
    /\ pending' = pending \cup {i} /\ requested' = requested \cup {i}
    /\ arrived' = [j \in Approvals |-> arrived[j] \cup {i}]
    /\ IF always /\ scoped /\ MustPause
       THEN /\ pausedRun' = agentRun /\ aborting' = aborting \cup {agentRun}
            /\ pauses' = [pauses EXCEPT ![agentRun] = @ + 1]
       ELSE UNCHANGED <<pausedRun, aborting, pauses>>
    /\ UNCHANGED <<agent, resolver, allows, resumes, followUps>>

\* A failed abort forgets the agent's entry, whichever run it names by now.
AbortAnswered(r, failed) ==
    /\ r \in aborting /\ aborting' = aborting \ {r}
    /\ pausedRun' = IF failed THEN NoRun ELSE pausedRun
    /\ UNCHANGED <<agent, pending, requested, resolver, allows, resumes, arrived, pauses,
                   followUps>>

\* exec.approval.resolved, or the approval has expired and is pruned.
ApprovalGone(i) ==
    /\ i \in pending /\ pending' = pending \ {i}
    /\ UNCHANGED <<agent, requested, pausedRun, aborting, resolver, allows, resumes, arrived,
                   pauses, followUps>>

-----------------------------------------------------------------------------
(* resolveExecApprovalViaStudio and the automatic resume                   *)

\* The buttons are disabled while the approval is being resolved.
Decide(i, allow) ==
    /\ i \in pending /\ resolver[i] = "idle"
    /\ resolver' = [resolver EXCEPT ![i] = "asking"]
    /\ allows' = IF allow THEN allows \cup {i} ELSE allows
    /\ UNCHANGED <<agent, pending, requested, pausedRun, aborting, resumes, arrived, pauses,
                   followUps>>

\* exec.approval.resolve answered; an allowed approval waits for the agent's
\* run, if it has one, and then reloads the history.
Resolved(i) ==
    /\ resolver[i] = "asking"
    /\ pending' = pending \ {i}
    /\ resolver' = [resolver EXCEPT ![i] = IF i \notin allows THEN "over"
                                           ELSE IF agentRun # NoRun THEN "waiting"
                                           ELSE "loading"]
    /\ UNCHANGED <<agent, requested, pausedRun, aborting, allows, resumes, arrived, pauses,
                   followUps>>
ResolveFails(i, unknownId) ==
    /\ resolver[i] = "asking"
    /\ IF unknownId
       THEN pending' = pending \ {i} /\ resolver' = [resolver EXCEPT ![i] = "over"]
       ELSE UNCHANGED pending /\ resolver' = [resolver EXCEPT ![i] = "idle"]
    /\ allows' = allows \ {i}
    /\ UNCHANGED <<agent, requested, pausedRun, aborting, resumes, arrived, pauses, followUps>>

\* agent.wait has answered, failed or timed out.
Waited(i) ==
    /\ resolver[i] = "waiting"
    /\ resolver' = [resolver EXCEPT ![i] = "loading"]
    /\ UNCHANGED <<agent, pending, requested, pausedRun, aborting, allows, resumes, arrived,
                   pauses, followUps>>

\* resolveApprovalAutoResumePreflight and resolveApprovalAutoResumeDispatch.
Unblocked(i) == pending \ {i} = {}
Replaced(r) == running /\ agentRun # NoRun /\ agentRun # r
KeepsPaused == pausedRun                                 \* seeded fault
AfterFirstLook == NoRun

\* The first look, after the history: the paused run is taken over.
FirstLook(i) ==
    /\ resolver[i] = "loading"
    /\ IF pausedRun # NoRun /\ Unblocked(i) /\ ~Replaced(pausedRun)
       THEN /\ pausedRun' = AfterFirstLook
            /\ agentRun' = pausedRun /\ running' = TRUE
            /\ resumes' = [resumes EXCEPT ![i] = pausedRun]
            /\ arrived' = [arrived EXCEPT ![i] = {}]
            /\ resolver' = [resolver EXCEPT ![i] = "resuming"]
       ELSE /\ resolver' = [resolver EXCEPT ![i] = "over"]
            /\ UNCHANGED <<agentRun, running, pausedRun, resumes, arrived>>
    /\ UNCHANGED <<runs, pending, requested, aborting, allows, pauses, followUps>>

\* The second look, after agent.wait: the pending approvals are those of the
\* first look, so only a run that has taken the place of the paused one counts.
\* Then sendChatMessageViaStudio up to its first await.
SecondLook(i) ==
    /\ resolver[i] = "resuming"
    /\ resolver' = [resolver EXCEPT ![i] = "over"]
    /\ IF Replaced(resumes[i]) THEN UNCHANGED <<agent, followUps>>
       ELSE /\ NewRun
            /\ followUps' = [followUps EXCEPT ![resumes[i]] = @ + 1]
    /\ UNCHANGED <<pending, requested, pausedRun, aborting, allows, resumes, arrived, pauses>>

ApprovalsNext ==
    \/ UserSendsMessage
    \/ RunOver
    \/ \E i \in Approvals :
          \/ \E always \in BOOLEAN, scoped \in BOOLEAN : ApprovalRequested(i, always, scoped)
          \/ ApprovalGone(i)
          \/ \E allow \in BOOLEAN : Decide(i, allow)
          \/ Resolved(i)
          \/ \E unknownId \in BOOLEAN : ResolveFails(i, unknownId)
          \/ Waited(i)
          \/ FirstLook(i)
          \/ SecondLook(i)
    \/ \E r \in AgentRuns, failed \in BOOLEAN : AbortAnswered(r, failed)

ApprovalsSpec == ApprovalsInit /\ [][ApprovalsNext]_approvals

-----------------------------------------------------------------------------
(* Properties                                                              *)

\* However many approvals of a paused run are allowed, and however their
\* answers interleave, the agent is told to go on once per pause.
OneFollowUpPerPause == \A r \in AgentRuns : followUps[r] <= pauses[r]

\* An approval that waits while the agent is being resumed has been requested
\* since the resume's first look: none that was there before is passed over.
NoneIsPassedOver ==
    \A i \in Approvals : resolver[i] = "resuming" => pending \subseteq arrived[i] \cup {i}
=============================================================================
