--------------------------- MODULE ConfigMutations ---------------------------
(***************************************************************************)
(* The changes of agents a Studio window makes, one after the other        *)
(* (src/features/agents/operations/): the queue and its gate, the block    *)
(* that keeps further changes away while an agent is created, renamed or   *)
(* deleted, the timeouts of request and block, and the deletion of an      *)
(* agent, which takes its scheduled jobs away first and puts them back     *)
(* when it fails.                                                          *)
(*                                                                         *)
(* The window renders between two events, so an effect sees the state it   *)
(* is about.  Of the block only what is reachable is modelled: no caller   *)
(* awaits a restart of the gateway (shouldAwaitRemoteRestart is false).    *)
(***************************************************************************)
EXTENDS Naturals, Sequences

CONSTANTS
    Mutations,    \* the changes a user or an effect may ask for, each once
    Kind, Target, \* of each: what it is and which agent it is about
    ScheduledJobs, Owner,   \* the scheduled jobs and the agent each belongs to
    MaxDrops,     \* bound on lost connections
    NoMutation

MutationKinds == {"create", "rename", "delete", "guarded", "unguarded"}
Targets == {Target[m] : m \in Mutations} \cup {Owner[j] : j \in ScheduledJobs}

ASSUME MutationsAssumption ==
    /\ Kind \in [Mutations -> MutationKinds] /\ DOMAIN Target = Mutations
    /\ DOMAIN Owner = ScheduledJobs /\ MaxDrops \in Nat /\ NoMutation \notin Mutations

VARIABLES
    connected, drops,
    agentsRunning,    \* hasRunningAgents
    queue, active,    \* queuedConfigMutations, activeConfigMutation
    life,             \* life[m]: new, queued, running, reloading, done, failed
    block, blockPhase,     \* restartingMutationBlock: whose it was, and its phase
    createBlock,      \* createAgentBlock: none, queued, creating
    createBusy,
    call,             \* call[m]: the requests of m, which may outlive its turn
    todo, backup,     \* a deletion: jobs yet to remove, jobs removed
    present, jobs,    \* the agents and the jobs of the gateway
    expired,          \* mutations whose block has timed out
    troubled          \* agents whose deletion met a lost answer or another one

mutationQueue == <<connected, drops, agentsRunning, queue, active, life>>
blocks == <<block, blockPhase, createBlock, createBusy, expired>>
deletion == <<call, todo, backup, present, jobs, troubled>>
mutations == <<mutationQueue, blocks, deletion>>

MutationsTypeOK ==
    /\ {connected, agentsRunning, createBusy} \subseteq BOOLEAN /\ drops \in 0..MaxDrops
    /\ queue \in Seq(Mutations) /\ active \in Mutations \cup {NoMutation}
    /\ life \in [Mutations -> {"new", "queued", "running", "reloading", "done", "failed"}]
    /\ block \in Mutations \cup {NoMutation} /\ blockPhase \in {"none", "queued", "mutating"}
    /\ createBlock \in {"none", "queued", "creating"} /\ expired \subseteq Mutations
    /\ call \in [Mutations -> {"none", "sent", "removing", "restoring", "over"}]
    /\ todo \in [Mutations -> SUBSET ScheduledJobs] /\ backup \in [Mutations -> SUBSET ScheduledJobs]
    /\ present \subseteq Targets /\ jobs \subseteq ScheduledJobs /\ troubled \subseteq Targets

MutationsInit ==
    /\ connected = TRUE /\ drops = 0 /\ agentsRunning = FALSE
    /\ queue = <<>> /\ active = NoMutation /\ life = [m \in Mutations |-> "new"]
    /\ block = NoMutation /\ blockPhase = "none" /\ createBlock = "none" /\ createBusy = FALSE
    /\ call = [m \in Mutations |-> "none"] /\ expired = {} /\ troubled = {}
    /\ todo = [m \in Mutations |-> {}] /\ backup = [m \in Mutations |-> {}]
    /\ present = {Target[m] : m \in {n \in Mutations : Kind[n] # "create"}}
                 \cup {Owner[j] : j \in ScheduledJobs}
    /\ jobs = ScheduledJobs

Same(m, n) == Kind[m] = Kind[n] /\ Target[m] = Target[n]
Blocking(m) == Kind[m] \in {"rename", "delete"}
NeedsIdle(m) == Kind[m] \in {"create", "rename", "delete"}
ItsBlock(m) == block # NoMutation /\ Same(block, m)
NoBlock == block' = NoMutation /\ blockPhase' = "none"

-----------------------------------------------------------------------------
(* Around the window                                                       *)

ConnectionChanges ==
    /\ connected => drops < MaxDrops
    /\ connected' = ~connected /\ drops' = IF connected THEN drops + 1 ELSE drops
    /\ UNCHANGED <<agentsRunning, queue, active, life, blocks, deletion>>
RunsChange ==
    /\ agentsRunning' = ~agentsRunning
    /\ UNCHANGED <<connected, drops, queue, active, life, blocks, deletion>>

-----------------------------------------------------------------------------
(* Asking for a change: resolveMutationStartGuard, then enqueue            *)

StartGuard == connected /\ createBlock = "none" /\ block = NoMutation

Ask(m) ==
    /\ life[m] = "new"
    /\ Kind[m] # "unguarded" => StartGuard
    /\ Kind[m] \in {"rename", "delete", "guarded"} => Target[m] \in present
    /\ IF Kind[m] = "create"
       THEN ~createBusy /\ createBusy' = TRUE /\ createBlock' = "queued"
       ELSE UNCHANGED <<createBusy, createBlock>>
    /\ IF Blocking(m) THEN block' = m /\ blockPhase' = "queued" ELSE UNCHANGED <<block, blockPhase>>
    /\ queue' = Append(queue, m) /\ life' = [life EXCEPT ![m] = "queued"]
    /\ UNCHANGED <<connected, drops, agentsRunning, active, expired, deletion>>

\* shouldStartNextConfigMutation: the head of the queue or nothing.
Gate(m) == /\ connected /\ active = NoMutation
           /\ blockPhase # "mutating" /\ createBlock # "creating"
           /\ agentsRunning => ~NeedsIdle(m)

\* The mutation becomes active and its run begins: it marks its block, if that
\* is still there, and sends its first request.
StartNext ==
    /\ queue # <<>> /\ Gate(Head(queue))
    /\ LET m == Head(queue) IN
       /\ queue' = Tail(queue) /\ active' = m /\ life' = [life EXCEPT ![m] = "running"]
       /\ call' = [call EXCEPT ![m] = "sent"]
       /\ blockPhase' = IF Blocking(m) /\ ItsBlock(m) THEN "mutating" ELSE blockPhase
       /\ createBlock' = IF Kind[m] = "create" /\ createBlock # "none" THEN "creating"
                         ELSE createBlock
       /\ troubled' = IF Kind[m] = "delete" /\ \E n \in Mutations \ {m} :
                              Same(n, m) /\ call[n] \notin {"none", "over"}
                      THEN troubled \cup {Target[m]} ELSE troubled
    /\ UNCHANGED <<connected, drops, agentsRunning, block, createBusy, expired, todo, backup,
                   present, jobs>>

-----------------------------------------------------------------------------
(* The end of a mutation: runAgentConfigMutationLifecycle and               *)
(* runCreateAgentMutationLifecycle with the queue's finally                *)

\* clearBlock looks at kind and agent only; a create clears whatever is there.
LeavesBlock(m, outcome) == outcome = "done" /\ ItsBlock(m)   \* seeded fault
ClearsAnyBlock(m, outcome) == Blocking(m)                   \* seeded fault
ClearsBlock(m, outcome) == Blocking(m) /\ ItsBlock(m)
FreesOnSuccess(outcome) == IF outcome = "done" THEN NoMutation ELSE active  \* seeded fault
ActiveAfter(outcome) == NoMutation

Ends(m, outcome) ==
    /\ life' = [life EXCEPT ![m] = outcome] /\ active' = ActiveAfter(outcome)
    /\ IF ClearsBlock(m, outcome) THEN NoBlock ELSE UNCHANGED <<block, blockPhase>>
    /\ IF Kind[m] = "create" THEN createBlock' = "none" /\ createBusy' = FALSE
       ELSE UNCHANGED <<createBlock, createBusy>>
    /\ UNCHANGED <<connected, drops, agentsRunning, queue, expired>>

\* What the answer of the last request means for the mutation, if its turn is
\* not over.
Settles(m, ok) ==
    IF life[m] # "running" THEN UNCHANGED <<mutationQueue, blocks>>
    ELSE IF ok /\ Kind[m] # "unguarded"
    THEN /\ life' = [life EXCEPT ![m] = "reloading"]
         /\ UNCHANGED <<connected, drops, agentsRunning, queue, active, blocks>>
    ELSE Ends(m, IF ok THEN "done" ELSE "failed")

\* loadAgents, and after a creation the agent's first permissions.
Reloaded(m, ok) ==
    /\ life[m] = "reloading" /\ Ends(m, IF ok THEN "done" ELSE "failed")
    /\ UNCHANGED deletion

\* The 45 s race of renames and deletions; the request itself goes on.
RequestTimesOut(m) ==
    /\ Blocking(m) /\ life[m] = "running" /\ Ends(m, "failed")
    /\ UNCHANGED deletion

\* 90 s after it was asked for, but never while it is queued.
BlockTimesOut ==
    /\ blockPhase = "mutating" /\ NoBlock
    /\ expired' = expired \cup {m \in Mutations : m = active}
    /\ UNCHANGED <<mutationQueue, createBlock, createBusy, deletion>>
CreateBlockTimesOut ==
    /\ createBlock = "creating" /\ createBlock' = "none"
    /\ UNCHANGED <<mutationQueue, block, blockPhase, createBusy, expired, deletion>>

-----------------------------------------------------------------------------
(* Requests                                                                *)

\* One request, answered or refused; whether a refusal was carried out after
\* all makes no difference here.
Answer(m, ok) ==
    /\ Kind[m] # "delete" /\ call[m] = "sent"
    /\ call' = [call EXCEPT ![m] = "over"]
    /\ Settles(m, ok)
    /\ UNCHANGED <<todo, backup, present, jobs, troubled>>

\* deleteAgentRecordViaStudio: list the agent's jobs, ...
ListJobs(m, ok) ==
    /\ Kind[m] = "delete" /\ call[m] = "sent"
    /\ IF ok
       THEN /\ todo' = [todo EXCEPT ![m] = {j \in jobs : Owner[j] = Target[m]}]
            /\ call' = [call EXCEPT ![m] = "removing"] /\ UNCHANGED <<mutationQueue, blocks>>
       ELSE call' = [call EXCEPT ![m] = "over"] /\ Settles(m, FALSE) /\ UNCHANGED todo
    /\ UNCHANGED <<backup, present, jobs, troubled>>

\* ... remove them one by one, ...
KeepsNoBackup(m, j) == backup[m]                            \* seeded fault
BackedUp(m, j) == backup[m] \cup {j}
RemoveJob(m, j, ok, applied) ==
    /\ call[m] = "removing" /\ j \in todo[m] /\ (ok => applied)
    /\ jobs' = IF applied THEN jobs \ {j} ELSE jobs
    /\ IF ok
       THEN /\ todo' = [todo EXCEPT ![m] = @ \ {j}]
            /\ backup' = [backup EXCEPT ![m] = IF j \in jobs THEN BackedUp(m, j) ELSE @]
            /\ UNCHANGED <<call, troubled>>
       ELSE /\ call' = [call EXCEPT ![m] = "restoring"]
            /\ troubled' = IF applied THEN troubled \cup {Target[m]} ELSE troubled
            /\ UNCHANGED <<todo, backup>>
    /\ UNCHANGED <<mutationQueue, blocks, present>>

\* ... delete the agent, ...
DeleteAgent(m, ok, applied) ==
    /\ call[m] = "removing" /\ todo[m] = {} /\ (ok => applied)
    /\ present' = IF applied THEN present \ {Target[m]} ELSE present
    /\ troubled' = IF applied /\ ~ok THEN troubled \cup {Target[m]} ELSE troubled
    /\ IF ok THEN call' = [call EXCEPT ![m] = "over"] /\ Settles(m, TRUE)
       ELSE call' = [call EXCEPT ![m] = "restoring"] /\ UNCHANGED <<mutationQueue, blocks>>
    /\ UNCHANGED <<todo, backup, jobs>>

\* ... and when something fails, put back what was removed, up to the first
\* job that cannot be put back.
RestoreJob(m, j, ok) ==
    /\ call[m] = "restoring" /\ j \in backup[m]
    /\ IF ok
       THEN /\ jobs' = jobs \cup {j} /\ backup' = [backup EXCEPT ![m] = @ \ {j}]
            /\ UNCHANGED <<mutationQueue, blocks, call, troubled>>
       ELSE /\ call' = [call EXCEPT ![m] = "over"] /\ Settles(m, FALSE)
            /\ troubled' = troubled \cup {Target[m]} /\ UNCHANGED <<jobs, backup>>
    /\ UNCHANGED <<todo, present>>
Restored(m) ==
    /\ call[m] = "restoring" /\ backup[m] = {}
    /\ call' = [call EXCEPT ![m] = "over"] /\ Settles(m, FALSE)
    /\ UNCHANGED <<todo, backup, present, jobs, troubled>>

Requests(m) ==
    \/ \E ok \in BOOLEAN : Answer(m, ok) \/ ListJobs(m, ok)
    \/ \E ok, applied \in BOOLEAN :
          DeleteAgent(m, ok, applied) \/ \E j \in ScheduledJobs : RemoveJob(m, j, ok, applied)
    \/ \E j \in ScheduledJobs, ok \in BOOLEAN : RestoreJob(m, j, ok)
    \/ Restored(m)

MutationsNext ==
    \/ ConnectionChanges \/ RunsChange \/ StartNext
    \/ BlockTimesOut \/ CreateBlockTimesOut
    \/ \E m \in Mutations :
          \/ Ask(m) \/ Requests(m) \/ RequestTimesOut(m)
          \/ \E ok \in BOOLEAN : Reloaded(m, ok)

MutationsSpec == MutationsInit /\ [][MutationsNext]_mutations

-----------------------------------------------------------------------------
(* Properties                                                              *)

Pending(m) == life[m] \in {"queued", "running", "reloading"}

\* While an agent waits to be renamed or deleted, or is, its block keeps every
\* other guarded change away, and only the block's own timeout lifts it: that
\* of the mutation, or that of an earlier one of the same kind and agent whose
\* end takes the later one's block away.
BlockCovers ==
    \A m \in Mutations : Blocking(m) /\ Pending(m) =>
        \/ ItsBlock(m) /\ (blockPhase = "queued" <=> life[m] = "queued")
        \/ \E n \in expired : Same(n, m)

\* No block outlives what it stands for: a queued block has no timeout, and
\* one left behind would refuse every further change until the page is loaded
\* anew.
NoBlockIsLeft ==
    /\ block # NoMutation => \E m \in Mutations : Pending(m) /\ Same(m, block)
    /\ createBlock # "none" => \E m \in Mutations : Pending(m) /\ Kind[m] = "create"

\* The block on the Studio's screen stands for the change that waits or runs,
\* no shorter and no longer, whatever its timeout, the connection and the
\* queue do (useConfigMutationQueue, mutationLifecycleWorkflow).
BlockFits == BlockCovers /\ NoBlockIsLeft

\* An agent that is not being deleted is there with all its scheduled jobs or
\* gone without any, whichever request of the deletion failed; lost answers,
\* jobs that could not be put back and overlapping deletions aside.
DeletedOrWhole ==
    \A a \in Targets \ troubled :
        (\A m \in Mutations : Kind[m] = "delete" /\ Target[m] = a => call[m] \in {"none", "over"})
            => \A j \in ScheduledJobs : Owner[j] = a => (j \in jobs <=> a \in present)

\* Every change that was asked for comes to its turn and ends, as long as the
\* connection comes back, runs come to an end and requests are answered or
\* fail.
ConnectionReturns == ~connected /\ ConnectionChanges
RunsEnd == agentsRunning /\ RunsChange
GoesOn(m) == Requests(m) \/ \E ok \in BOOLEAN : Reloaded(m, ok)
MutationsFairness ==
    /\ WF_mutations(ConnectionReturns) /\ WF_mutations(RunsEnd) /\ SF_mutations(StartNext)
    /\ \A m \in Mutations : WF_mutations(GoesOn(m))
AskedIsEnded == \A m \in Mutations : life[m] = "queued" ~> life[m] \in {"done", "failed"}
=============================================================================
