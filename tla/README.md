# Formal models of Claw3D-DSH

TLA+ models, model-checking configurations and machine-checked proofs for the
AIOS kernel (Python, `src/`), the two DSH plugins (`packages/`) and CQ Office
(TypeScript, `apps/cq-office/`). Paths below are relative to the repository root;
those of the Studio are relative to `apps/cq-office/`.

What is modelled is where several actors change the same thing: processes of AIOS on
Git, on a file and on a database; the office adapter between a DSH host and its
offices; the adapter that stands in for a gateway in front of Hermes; the proxy and the browser's connection to a gateway; and in the Studio the
run pipeline, settings, approvals, edits of gateway documents, the queue of changes,
history and the task board. What is left out are decisions over text and the
user interface ([not modelled](#what-is-not-modelled-and-why)).

- [Inventory](#inventory)
- [Modules](#modules) with the correspondence between state, actions and code
- [Runs and their bounds](#runs-and-their-bounds)
- [Fairness](#fairness)
- [Proofs](#proofs)
- [What the code does that its text does not say](#what-the-code-does-that-its-text-does-not-say)
- [What the models show beside the properties](#what-the-models-show-beside-the-properties)
- [What is not modelled, and why](#what-is-not-modelled-and-why)
- [Plan](#plan)

To run: `tlc -config WorktreeTwo.cfg MCWorktree` (any row of the table of runs)
and `tlapm WorktreeProofs.tla`. `PROJECT.json` maps each definition to its
source lines, lists the hazards of the code with the properties that watch them,
and names for each property a seeded fault (an operator marked `seeded fault` in
the modules) under which TLC finds the property violated.

## Inventory

Four layers, from the host's Git repository up to the browser:

    Git, SQLite, files <- AIOS kernel <- governance plugin <- DSH host
                                                              | office adapter (WebSocket)
                          Studio host server <- gateway proxy <- ... gateway
                               | HTTP, WebSocket
                          Studio in the browser: client, event handler, store, screens

| Component | State | Operations | Hard behaviour | What makes it correct | Modules |
|---|---|---|---|---|---|
| Worktree manager (`core/worktree.py`) | table `worktrees`; Git's worktrees and branches | prepare, check, finish, cleanup, list | several processes; death between two git commands; subagents commit meanwhile | no commit lost; a row goes last; cleanup can be repeated | Worktree, DisposableWork |
| Project memory (`infrastructure/memory.py`) | `memory.jsonl`, table `memory_index`, candidate files | record, candidate, accept, reject, reindex, search | whole-file rewrite without a lock; late index commits; corrupt lines | nothing recorded is lost, no duplicate, index follows the file, no candidate lost | MemoryStore, MemoryLog |
| Runtime database (`infrastructure/database.py`) | SQLite file, its name, copies in `backups/` | migrate, legacy export | processes judge, copy and remove by name while others open; death anywhere | the old data keeps its name or a copy; what is registered stays | RuntimeDatabase |
| Gates and checks (`core/gates.py`, `core/checks.py`) | approval block in the UI spec | evaluate, approve | the tree changes between checks | a blocked finish is never passed | - |
| Authorization, repository, policy (`application/`) | none (one decision per request) | authorize, classify | none | decision table | - |
| Documents, configuration, CLI, MCP | files written atomically | init, check, sync | none | - | - |
| Governance plugin (`packages/dsh-aios-governance`) | 5 s registry cache | pre-execute decision, twelve tools | cache older than the registry | destructive Git only inside registered worktrees | - |
| Office adapter (`packages/dsh-office-adapter`) | pending run per agent, parked approvals, downlinks, phases | dispatch, session events, approval answerer | answers matched by arrival; disconnects; aborts | one final per run, from its own turn; an ask is announced as it was settled | OfficeAdapter, OfficePhases |
| Hermes adapter (`server/hermes-gateway-adapter.js`) | registry of agents, a list of turns per session, runs by id, a file saved after 500 ms | chat.send, tool calls, delegation, abort, reset, delete | a list held across a request to Hermes; overlapping turns; id used again; death before the save | a session is the turns answered since it was cleared | HermesAdapter |
| Gateway proxy (`server/gateway-proxy.js`) | two sockets, connect frame, timer | connect, forward, close | close while settings load; timer against answer | one connect answer; no socket without a browser | GatewayProxy, OfficeLink |
| Gateway client (`src/lib/gateway`) | client slot, pending connect, sockets, retry timer | connect, disconnect, retry | late timeouts of abandoned connects | one live socket; the retry is never lost | GatewayConnection |
| Settings coordinator and store (`src/lib/studio`) | pending patch, write queue, cache, settings file | load, schedule, flush, dispose | responses out of order; failed writes; merged patches | what was meant is stored; a forced read is fresh | StudioSettings |
| Agent run pipeline (`src/features/agents/state`, `operations`) | agent store, pending live patch, run records, timers | two event streams, send, queue, reset, reconcile | everything is asynchronous; events lost, repeated, reordered | one outcome per run; no zombie; queue drains | AgentRun, RunTerminal |
| Exec approvals (`src/features/agents/approvals`) | pending approvals, paused run | request, resolve, pause, automatic resume | decisions on state read before an await | one follow-up per pause | ExecApprovals |
| Gateway documents (`src/lib/gateway/agentConfig.ts`, `execApprovals.ts`, `src/lib/skills`) | the gateway's configuration and approvals file | permissions, skills, temporary agents, deletion | several Studios read, change and write the whole document | no lost update; reported as done is done | GatewayDocuments |
| Config mutations (`src/features/agents/operations`) | queue, active mutation, block, jobs of a deletion | ask, start, time out, delete with backup | timeouts that do not cancel; requests that fail half-way | the block covers the mutation and ends; an agent is deleted or whole | ConfigMutations |
| History sync (same) | transcript, revision, epoch, run state, in-flight mark | ask, answer, merge, reset | answers for a transcript that moved on | nothing shown is lost or doubled; no ghosts of a reset session | HistorySync |
| Shared task store and board (`src/lib/tasks`, `src/features/office/tasks`) | one JSON file of at most 500 tasks; the cards of each window | list, create, move, remove, poll | stale records, retries, late attempts, damaged file | no task and no history lost; boards agree | TaskBoard |
| Standup meeting (`src/lib/office/standup`) | one JSON file; timers in every window | start, arrive, advance, complete | several windows' timers | - | - |
| Office, scenes, wizards, jukebox, skills, SSH, voice | projections and forms | - | - | - | - |

Interactions. The governance plugin calls the AIOS command line and caches what
it says of worktrees. Every AIOS command is a process of its own: processes meet
only in SQLite, in Git and in files, and each first migrates the database. Studio's
event handler receives the gateway's events, dispatches to the store, and reads the
store's last *rendered* state; the send operation, the queue, the reconciliation poll,
the session reset and the history answers dispatch to the same store when their
requests come back. The office adapter is one of the gateways the Studio can be
connected to: `OfficeLink` composes it with the proxy. The Hermes adapter is another, for offices without a DSH host. Several Studio windows meet in
the gateway's documents, in the settings file and in the file of tasks.

## Modules

Everything in the browser and in each Node.js process runs on one event loop: an action
is one task (a handler, a timer, the continuation after an await), with the React commit
it triggers where nothing can come between them. A Python process of AIOS is a sequence
of steps that others may come between: git commands, transactions, reads and writes of files.

### Worktree, DisposableWork

`Worktree` models `prepare`, `finish` and `cleanup`, one action per git command or
SQL transaction. `check` and `list` change nothing.

| Model | Code |
|---|---|
| `row[n]` | row of `worktrees`: none, active, ready |
| `dirs`, `admins` | the directory under `.worktrees/`; Git's own registration of it |
| `dirty` | `git status --porcelain` prints something |
| `branches`, `tip[n]`, `main` | `aios/wt-<name>`, the commits it reaches, those the target reaches |
| `pc`, `arg`, `saw` | where a process is, on which name, and the locals `path_exists` and the resolved tip |
| `made`, `discarded` | history: commits ever made, commits an operator threw away |
| `BeginPrepare`, `PrepareAdd`, `PrepareInsert` | path check; `git worktree add -b`; INSERT |
| `BeginFinish`, `FinishStatus`, `FinishUpdate` | row and path; status; UPDATE |
| `BeginCleanup`, `CleanupPath`, ..., `CleanupDelete` | row; `path.exists`; `rev-parse`; status; `merge-base --is-ancestor`; `worktree remove`; `branch -D` or branch gone; DELETE |
| `Crash`, `CrashInRemove` | the process dies between two steps, or git is killed while it removes the files |
| `Edit`, `Commit`, `LeadMerge`, `RemoveDirByHand`, `DeleteRefByHand`, `Prune` | external: subagents, lead session, operator; nobody need ever prune |

Git is modelled from its use: `worktree add -b` creates the branch before it looks
at the path and may leave it behind, `worktree remove` refuses a dirty tree,
`branch -D` refuses a branch that is checked out. Commits are a finite set;
a branch is the set of commits it reaches.

`DisposableWork` is the abstract promise: areas open at the target, gather
commits, are merged, and are disposed of in one atomic step only when everything
they reach is in the target. `ImplementsDisposableWork` maps `area <- branches`,
`reach <- tip`; all other steps of the lifecycle are stutters.

### MemoryStore, MemoryLog

| Model | Code |
|---|---|
| `lines`, `broken` | the records of `memory.jsonl`; ids whose line does not parse |
| `inbox[i]` | the candidate file of record i, with its status |
| `index` | the table `memory_index` |
| `job[p]` | the call of process p: next step, record, whether it is an accept, and the parsed file it decided on |
| `owed` | history: submitted and not rejected |
| `Submit`, `Reject` | `record_candidate`, `reject_candidate` |
| `BeginRecord`/`BeginAccept`, `Check`, `Write`, `Scan`, `Commit`, `Unlink` | `record` and `accept_candidate`: build or read the record; parse and refuse; replace the file; parse again; replace the index in one transaction; unlink the candidate |
| `Reindex`, `Search` | the command, and a search that finds an empty index beside a file |
| `Fail` | any error that is not a `MemoryStoreError`, at any step: killed, disk full, database locked |
| `RetireByHand`, `BreakByHand`, `RepairByHand` | external: the main session edits the file between its own calls |

Abstractions: a record is its id and status (`retired` is superseded or invalid,
which no path tells apart); `Slot[i]` is the type and case-folded title that
duplicates are found by; line order, query text and field validation are data.
`Splits` are records with a character `str.splitlines` breaks at and
`json.dumps(ensure_ascii=False)` writes raw. Hand edits happen while no main
session is inside a call. `Writers` are the main sessions: the documentation allows one
(the single-writer rule, 单写者规则, of `docs/MEMORY.md` and of the docstring of
`memory.py`), the model any number.

`MemoryLog` is an append-only log whose only other step retires a record in
place. `ImplementsMemoryLog` (one writer) says the rewriting of the whole file
implements it, so that no rewrite, crash or failed call ever loses a record.

### RunTerminal, AgentRun

`AgentRun` is one agent of Studio while runs of its session come and go.
Everything runs on the browser's event loop, one task at a time; each action is
one task (a handler, a timer, an animation frame, the continuation after an
await, a React commit).

| Model | Code |
|---|---|
| `agent` | the agent in the store (`store.tsx`): status, run id, streamed text, queued messages |
| `snap` | `stateRef.current`: the agent of the last React commit, which every handler reads |
| `pend` | `pendingLivePatchesRef`: live text waiting for the animation frame |
| `coord` | `RuntimeEventCoordinatorState` and the timer map: run records, closed runs, fallback timers |
| `final[r]` | transcript entry `run:<r>:assistant:final` |
| `sending`, `queueSend` | unanswered `chat.send`; the message the queue effect drains |
| `recon`, `reset` | the `agent.wait` and the `sessions.reset` in flight |
| `gw[r]` | external: unborn, asked, live or over at the gateway |
| `ChatDelta`, `ChatEcho`, `ChatFinal`, `ChatStopped` | `handleRuntimeChatEvent` with all it calls |
| `AgentDelta`, `LifecycleStart`, `LifecycleEnd`, `LifecycleError` | `handleRuntimeAgentEvent` |
| `FallbackFires` | the 0 ms timer (`reduceLifecycleFallbackFired`) |
| `UserSends`, `Reply*`, `RemoveQueued` | `sendChatMessageViaStudio` and the queue |
| `Render`, `FlushFrame` | React commit with its effects, the queue effect included; `flushPendingLivePatches` |
| `NewSession*`, `Reconcile*` | `handleNewSession`; `runAgentReconcileOperation` |
| `WindowElapses`, `Dispose` | 30 s closed-run window; the effect re-creates the handler |
| `GatewayStarts`, `GatewayEnds`, `Reported` | external: events of a run arrive in any order, repeated or not at all, while it is live |

`RunTerminal` holds the reducers on run records as operators on one record
(`Commit`, `StaleTerminal`, `FinalSeen`, `CancelFallback`, `Close`, `Prune`, ...),
so that lemmas about them are proved once.

Abstractions: a text is the run it belongs to; a message typed here is identified
with the run id its send will get; a React commit and its passive effects are one
step; one reconciliation and one reset are in flight at a time; the connection
status, history sync, thinking and tool lines, drafts and timestamps are left
out. `Local`, `Overlap`, `Resets`, `Recreates`, `Elapses` say which parts of the
environment a run switches on; the proofs hold for every choice.

### RuntimeDatabase

| Model | Code |
|---|---|
| `files`, `named` | every file that ever was `state.db`, its schema and rows; the one with the name |
| `backups` | the copies in `backups/` |
| `place[p]` | where the command of process p is |
| `judged[p]`, `opened[p]` | the file called legacy; the file its connection is to, which stays when the name goes |
| `Starts`, `Looks`, `Judges`, `CopiesFile`, `WithoutCopy`, `Unlinks` | `_export_and_reset_if_legacy`: exists, `_is_legacy`, `copy2`, unlink |
| `Misreads` | any `sqlite3.Error` in `_is_legacy` counts as legacy |
| `Opens`, `Boots`, `ReadsApplied`, `Applies` | `connection`, `_bootstrap_migration_table`, the applied versions, the transaction of 0001 |
| `Works`, `Dies` | external: the command registers a row; it fails or is killed |

### OfficeAdapter, OfficePhases, GatewayProxy, OfficeLink

`OfficeAdapter` is one process of a DSH host with any agents and offices; `OfficePhases` its fold of
session events to the phase the office animates (`states.js`), as a function on one record.

| Model | Code |
|---|---|
| `downlinks`, `told[o]` | `downlinks`; the requests a socket has received |
| `pendingRuns[a]`, `finals[r]` | `pendingRuns`; the `chat` final events, with the turn whose text each carries |
| `parked`, `outcome[i]`, `announced[i]` | the `pending` map of `createApprovals`; what the waterfall answered; what was broadcast |
| `inbox`, `turn`, `asking`, `cancelled` | external: follow-ups, the turn of each agent, the ask it waits for |
| `solo` | history: the agents only offices have talked to, and only when idle |
| `ChatSend`, `ChatSendFails`, `ChatAbort`, `Resolve` | the methods of `createDispatch` that change something |
| `AssistantSpeaks`, `ToolCalled`, `TodosWritten`, `SessionCreated`, `SessionDisposed`, `ApprovalAsked` | the session events and the answerer |
| `Connect`, `Close`, `Unmount` | a socket opens or closes; `apply`'s disposer |

`GatewayProxy` is one connection of the Studio's proxy; variables carry the names of `createGatewayProxy`'s locals.
`SettingsLoaded`, `SetupFails`, `HandshakeTimesOut`, `UpstreamOpens`, `UpstreamFails`, `UpstreamCloses`,
`GatewayAnswers`, `FirstConnect`, `ConnectAgain`, `FrameRefused`, `FramePasses` and `BrowserGone` are its
handlers; `CloseBoth`, `Hangup`, `SendConnectError` and `Forward` its helpers, called with what the handler
has set so far. `OfficeLink` joins the two: the upstream socket of the proxy is the office's socket of the
adapter (`Opens`, `ProxySeesClose`, `AdapterAnswers` are joint steps).

### HermesAdapter

| Model | Code |
|---|---|
| `registry`, `continuity` | `agentRegistry` and one of its settings, which decides at a turn's end whether it is kept |
| `history[a]`, `age[a]` | the list in `conversationHistory` for `agent:a:main`; how often `clearHistory` dropped it, which tells the lists apart |
| `turn[t]` | one `chat.send` or delegation: where it is, the age of the list it holds, whether it found its agent, its rounds |
| `activeRuns`, `awaiting` | the map of abort handles by idempotency key; what `Promise.all` waits for |
| `due`, `saved` | the debounce timer of `saveHistoryToDisk`, the file |
| `Accepts`, `Begins`, `Answers`, `CallsTools`, `Resumes`, `RunFails` | `chat.send`, the callback of `setImmediate`, `runAgenticLoop` with at most `MAX_TOOL_ROUNDS` requests |
| `Delegated`, `DelegationFails` | `execDelegateTask` |
| `Joins`, `Configures`, `Leaves`, `Dismisses`, `Resets` | the tools and the methods that change the team or clear a session |
| `ChatAbort`, `Hangs` | `chat.abort`; the response destroyed by the next chunk, after which nothing wakes the run |
| `Saves`, `SaveFails`, `Restarts` | the timer's callback, a failed write, `loadHistoryFromDisk` |

One action is what happens between two awaits of the adapter. Resuming after the last tool result is
a microtask, so `HermesNext` lets nothing precede it. What is said, the context sent to Hermes and `wipe`, which only changes
that context, are left out, and with them sockets, files, jobs and session settings.

### GatewayConnection

| Model | Code |
|---|---|
| `current`, `status`, `manual`, `pendingConnect` | the fields of `GatewayClient` |
| `socket[k]` | the socket of a `GatewayBrowserClient`; a client is a call and an attempt |
| `at[c]`, `try[c]` | where a call of the hook's `connect` is, and its attempt |
| `error`, `once`, `wasManual`, `auto`, `retryAttempt`, `retryTimer` | state and refs of `useGatewayConnection` |
| `UserConnects`, `AutoConnects`, `RetryFires`, `FlushFails`, `Begin`, `TriesAgain`, `CheckEnds` | the hook's `connect` from its awaits on |
| `TimesOut`, `SocketOpens`, `Hello`, `SocketCloses`, `UserDisconnects`, `Stable` | `GatewayClient.connect` and its callbacks; `disconnect`; the effect that resets the attempts |

### StudioSettings

| Model | Code |
|---|---|
| `pendingPatch`, `debounce`, `writes`, `write`, `reply`, `disposed` | the coordinator: patch, timer, promise queue |
| `stored`, `gatewayHas` | the settings file of the host: which change each field has, and whether its gateway section has a url and a token |
| `cached`, `loading`, `load`, `saw`, `awaits`, `got` | cache, shared load, and each caller of `loadSettings`; what is loaded is a version of the file (`fileVersion`) |
| `meant`, `lost`, `acked`, `known` | history: what the patches would give one by one, what was dropped and why (below), what had been answered |
| `SchedulePatch`, `ApplyPatchNow`, `FlushPending`, `SendWrite`, `HostWrites`, `WriteAnswered`, `WriteFails`, `Dispose` | `schedulePatch` to `dispose`, `applyStudioSettingsPatch` |
| `LoadSettings`, `HostReads`, `LoadAnswered`, `LoadFails`, `CacheExpires` | `loadSettingsEnvelope`, GET, the 5 s cache |

A field is a part of an entry; `Whole` are the entries that `mergeStudioPatch` replaces as a whole, `Nodes` the sets
of fields that a patch may delete with a `null`: a newer `null` deletes what an older patch set, a newer record takes an
older `null` back together with the deletions it does not name (`Survives`, `MergedNulls`).
The host loads before it writes (`FillsUp`, `Forgotten`, `Loaded`): a gateway section without a token is put
together from the machine's defaults, without `profiles` and `lastKnownGood`, and the next patch of any section saves it
like that (`settings-store.ts` 178-193); a gateway without a url is none (`Taken`). A write that fails in the browser
may still arrive (`late`). What these drop is in `lost`, which is the exception of `SettledIsMeant`; `StoredAdvances` excepts
a gateway section without a token and the late writes, no more.

### ExecApprovals

`pending`, `pausedRun`, `aborting` are the pending store, the paused run of the agent and the aborts under way;
`resolver[i]` is where `resolveExecApprovalViaStudio` of approval i is, with the run it may resume
(`resumes`) and the approvals requested since its first look (`arrived`, history). `ApprovalRequested` is the ingress
with its pause, `AbortAnswered` the answer of `chat.abort`, `Decide`, `Resolved`, `ResolveFails`, `Waited` the
resolve operation from await to await, `FirstLook` and `SecondLook` the two halves of the automatic resume.
`NewRun` and `RunOver` stand for the run pipeline (`AgentRun`).

### GatewayDocuments

A worker is one call in some window: a permission update, an edit of skills, a temporary
agent, a deletion. Each await is a step (`ReadPolicy`, `GetFile`, `SetFile`, `GetFileHash`, `ReadEntry`, `GetConfig`,
`SetConfig`, `Sync`, `Create`, `Chat`, `GetList`, `PatchList`, `GetListHash`, `Delete`), each may fail, and a write whose
hash is not the document's is refused and tried once more. The hash is modelled by the document it is the hash of.
`SetFile` and `PatchList` send the *old* document again with a fresh hash; `SetConfig` builds a new one.
A temporary agent is removed in a `finally` clause that passes over its own errors: the call returns if the agent has done its work
(`worked`), with the agent gone (step `done`) or left behind (`left`), and throws if it has not, cleaned up or not (`CallEnds`, `Failed`).

### ConfigMutations

| Model | Code |
|---|---|
| `queue`, `active`, `life[m]` | `useConfigMutationQueue`, and where a mutation is |
| `block`, `blockPhase`, `createBlock` | `restartingMutationBlock`, `createAgentBlock` |
| `call[m]`, `todo[m]`, `backup[m]` | the requests of a mutation, which may outlive its turn; jobs yet to remove and removed |
| `present`, `jobs` | external: agents and scheduled jobs of the gateway |
| `Ask`, `StartNext`, `Settles`, `Reloaded` | start guard, gate and effect, end |
| `RequestTimesOut`, `BlockTimesOut`, `CreateBlockTimesOut` | the 45 s of a request, the 90 s of a block |
| `ListJobs`, `RemoveJob`, `DeleteAgent`, `RestoreJob`, `Restored` | `deleteAgentRecordViaStudio` with `removeCronJobsForAgentWithBackup` |

### HistorySync

| Model | Code |
|---|---|
| `talk` | external: the gateway's log of the session, its age (resets), what became of each run |
| `wire` | frames on their way, in order; `line`: the connection |
| `room`, `latest`, `dirty` | the agent in the store, as of the last commit, and whether they differ; `since` is history: the gateway's session the agent was last renewed for |
| `fetches`, `mark` | the `chat.history` requests with revision and epoch, `historyInFlightRef` |
| `fresh`, `BusyShown` | the `sessions.reset` under way; the button that asks for it is busy until the commit that shows its result |
| `Fetches`, `AnswerArrives`, `Merges`, `RefusalArrives` | `runHistorySyncOperation` before and after its await |
| `Merged`, `Placed`, `Bounded`, `Patched`, `SeenOver`, `SeenGoing` | `mergeHistoryWithPending`, `buildHistorySyncPatch`, `resolveHistoryRunStatePatch` |
| `Commits`, `Refreshes`, `Reconciles` | commit with the bootstrap effect, the poll of a running agent, the reconciliation |
| `Types`, `AsksReset`, `ResetArrives`, `StartArrives`, `FinalArrives` | sending, new session, the events of a run |

A line is what one side says in a run; the code tells lines apart by role and text (`Says`), so two runs may say the same.

### TaskBoard

| Model | Code |
|---|---|
| `tasks`, `intact` | the records of `tasks.json`; whether it can be parsed |
| `boards[w]` | the cards of a window |
| `posts[c]` | a change with its request: card put back on failure, tries left, attempts given up that may still arrive |
| `lists[w]`, `polling[w]` | the list request, `sharedRefreshInFlightRef` |
| `Creates`, `Captures`, `Moves`, `Removes`, `Follows` | `createManualCard`, `ingestGatewayEvent`, `moveCard`, `removeCard`, and the effect that follows the agent's run locally |
| `StoreLists`, `StoreTakes`, `StoreMisses`, `StoreFails` | GET, PUT, DELETE with `upsertSharedTask`, `archiveSharedTask`, `appendHistory`, `writeStore` |
| `ShowsAnswer`, `PutsBack`, `NotFound`, `AttemptFails` | the continuation of a change, `withRetry` |
| `Polls`, `ShowsList`, `ListFails` | `refreshSharedTasks` |
| `Spoils` | external: somebody else writes the file |

### MCParts, MCLiveParts, MCRival

These check parts that share no variable in one run each: the initial state chooses the part (`part` never
changes) and the other parts stay in their initial states. An invariant or an action
property of a part holds in its product with the others exactly when it holds of the part by itself, and the fairness of a part
(`LinkFairness`, `MutationsFairness`, `HistoryFairness`, `BoardFairness`, each conjoined with `part = ...`) speaks of its own actions only.

## Runs and their bounds

| Run | Config, module | Checks | What it shows |
|---|---|---|---|
| `worktree_two` | WorktreeTwo, MCWorktree | NoCommitLost, RemovalProved, ImplementsDisposableWork | two processes, one name, two commits, one crash, one manual act, subagents that hold still during a cleanup (`Quiesce`) |
| `worktree_lead` | WorktreeLead | UnregisteredHoldsNothing, EventuallyUnregistered | one process that dies twice anywhere in cleanup, inside `worktree remove` too: the row goes last, and calling again finishes, unless git was killed inside `worktree remove` and nobody prunes |
| `worktree_race` | WorktreeRace | NoCommitLost *violated* | without `Quiesce` a commit between the merge check and `branch -D` is lost |
| `memory_shared` | MemoryStoreShared, MCMemoryStore | IndexKnown, KeptWhileIntact, ImplementsMemoryLog | one main session and another process, two records with one title, one failed call, one corrupt line |
| `rival_commands` | Rival, MCRival | NoDuplicates, LegacyKept, RegisteredStays, HistoryIsWhatWasAnswered | part *memory*: two main sessions against the rule, one record that splits; part *database*: two processes, three commands, one misreading; part *hermes*: two messages, a delegation, an abort, a failed save or a restart |
| `memory_lost_candidate` | MemoryStoreLost | CandidatesKept *violated* | accept deletes a candidate it did not merge |
| `agent_run_overlap` | AgentRunOverlap, MCAgentRun | NoFlushAfterFinal, ConfirmedStays | a local and a foreign run overlap, every order of both streams |
| `agent_run_one` | AgentRunOne | NewestFinalStays, LostRunsSettle | one run with lost, repeated and reordered finals (sequence none, 1, 2), resets, a re-created handler, an elapsing window |
| `agent_run_drains` | AgentRunDrains | QueueDrains | a message queued behind a foreign run is sent when it is over, unless a run fails |
| `agent_run_steals` | AgentRunSteals | OtherRunsEndIgnored *violated* | a fallback timer takes the run id of the next run |
| `parts` | Parts, MCParts | PartsTypeOK and per part: *adapter* FinalOfOwnTurn, AnnouncedIsOutcome, ApprovalShown; *connection* OneConnection, RetryArmed; *settings* SettledIsMeant, StoredAdvances, ForcedIsFresh; *approvals* OneFollowUpPerPause; *documents* OthersKept, FinishedAsAsked; *mutations* BlockFits (BlockCovers and NoBlockIsLeft); *history* AnswersMerged, NoGhosts; *board* TasksKept | safety of the eight parts |
| `live_parts` | LiveParts, MCLiveParts | *link* OneConnectAnswer, NoDeafOffice, ConnectSettles; *mutations* DeletedOrWhole, AskedIsEnded; *history* HistorySettles; *board* BoardsAgree | what must eventually happen, whatever fails on the way |

Bounds, and why they meet the interesting cases:

- *Worktrees* do not share state except the target branch, which only grows and is
  advanced by `LeadMerge` at any time; races need two processes on *one* name. Two
  commits give a branch one commit before and one after its merge. One crash
  leaves any half-done operation; two let the repair die too.
- *Memory*: the file is rewritten as a whole, so two records are enough for one
  writer to overwrite, duplicate or forget another; two records of one
  title are what the duplicate check is about. A third record (`memory_lost_candidate`)
  gives a candidate of another title. Crashes and breaks are bounded by counters.
- *Database* (`MaxCommands` 3, `MaxMisreads` 1): two processes race; a third command gives
  one of them a second turn, after it died or beside what the first two left.
- *Hermes*: two messages to the orchestrator or its one member and one delegation: a list is shared by two turns, with a reset
  (`MaxClears` 1) before, between or after their answers. Two rounds (`MaxRounds`) go through the loop and its exhaustion.
  Two ids, or one used again. `InOrder` takes one of an abort, a failed save and a restart, and an orchestrator with continuity.
- *Agent run*: a fallback timer, a live patch or a closed window of one run can only be
  disturbed by one other run, as the handlers compare a run id with the
  agent's. Sequence numbers are compared, never added: none, 1 and 2
  give older, equal, newer and unknown.
- *Adapter*: one agent, two runs and a terminal turn (`MaxTerminal` 1): a final of the wrong turn
  needs a run displaced by one other. One ask, one office: agents share nothing, and a
  second decision comes from the same office. Tool classes are cut to none (`ToolClasses` empty): unknown tools.
- *Connection*: two calls of two attempts each (`MaxCalls`, `Attempts`) overlap in every way; `MaxRetries` 1 reaches
  the last retry.
- *Settings*: two patches (`MaxPatches`) of four shapes: a gateway with or without its token (hidden), an entry merged as
  a whole, the gateway deleted with a `null`; a host without defaults, with a gateway, with its token. An overwritten,
  dropped or late change needs two. Two readers, one of them with force, so that a load is shared or forced beside another;
  `GatewayOrReaders` lets them load while the gateway section is left alone, as what they get is a version of the file.
- *Approvals*: two approvals and three runs (`MaxRuns`): the paused run, its follow-up and one by the user.
- *Documents*: two workers, two calls (`MaxJobs`) over eight kinds and agents: a lost update needs
  two read-modify-write cycles.
- *Mutations*: a creation, two renames of one agent, a deletion and a repair; `CreatedOrRepaired` runs
  either the creation or the repair, which only compete for the queue. In `live_parts` a rename and a
  deletion with one job and one lost connection (`MaxDrops` 1).
- *History*: a message typed here and one from elsewhere whose replies read alike, two requests, one
  reset (`MaxFresh`). `RenewedOrTyped` takes the reset or the typed message, not both in one behaviour.
  `HistoryLimit` 9 exceeds the log: truncation is left out of these runs (see below). In
  `live_parts` a run from elsewhere and one break of the connection (`MaxBreaks`).
- *Board*: two windows, one task stored and archived, one made, one heard, room for two (`StoreLimit`), two
  changes. `OneTrouble`: either one request fails or somebody spoils the file once, and no list is asked for
  after that. `MaxResends` 0 in `parts`: to the host a retry is another attempt, which the strays of a change
  already are; in `live_parts` it is 1. Boards start empty there, as before their first list.
- Every action and disjunct fires in a passing run. Deadlock checking is off where
  the system may really stop (all commits made, all runs over, all changes made); in `memory_shared`
  it is on.

## Fairness

Only liveness properties use fairness.

- `Worktree!LeadDiligence` (`worktree_lead`): a started operation goes on unless the
  process dies (it is a straight-line Python function); the lead keeps merging and keeps
  calling cleanup (strongly fair, since other operations may occupy its
  process), which is the main session's duty under 纪律 in `docs/WORKTREE.md` (review, merge, then
  clean up at once), not something the code
  enforces; subagents commit what they edited. Nobody need prune: AIOS never does, and
  `EventuallyUnregistered` excepts the registration without a directory that only a prune can remove (`Stale`).
- `AgentRun!FairSpec` (`agent_run_one`, `agent_run_drains`): React commits, frames and timers
  happen; the poll of `useRuntimeSyncController` asks every three seconds while connected and
  is strongly fair to be answered; the gateway answers every `chat.send` and ends every run.
  Nothing is assumed of events: they may all be lost, which is why the poll is needed.
- `LinkFairness` (`ConnectSettles`): the load of the settings ends, the handshake timer fires, a socket that was
  aborted reports it, the adapter answers a connect request it has (every branch of `dispatch` answers) and
  the proxy sees a close.
- `MutationsFairness` (`AskedIsEnded`): the connection comes back (losses are bounded), runs end, and requests of a
  mutation are answered or fail. `StartNext` is strongly fair: the effect of the queue runs on every render that opens
  the gate, so it cannot miss openings for ever, though runs begin and end.
- `HistoryFairness` (`HistorySettles`): commits happen, frames arrive, a run ends, the gateway answers what it
  has read; the page polls every 4.5 s while an agent is shown running and reconciles every
  three seconds; the connection returns. `ReadsLog` is strongly fair: the gateway does not refuse for ever.
- `BoardFairness` (`BoardsAgree`): each window polls every four seconds, the host answers, the answer is shown.
  Nothing is assumed of changes: they may stay under way for ever, fail or arrive late.

## Proofs

All proofs hold for every value of the constants that satisfies the named
assumptions (`WorktreeAssumption`, `MemoryAssumption`, `RunTerminalAssumption`,
`AgentRunAssumption`, `OfficeAssumption`, `ProxyAssumption`, `LinkAssumption`, `ConnectionAssumption`,
`SettingsAssumption`, `ApprovalsAssumption`, `DatabaseAssumption`, `HermesAssumption`, `MutationsAssumption`,
`DocumentsAssumption`, `BoardAssumption`, `HistoryAssumption`), hence for any number of processes, names, records,
runs, agents, offices, windows, tasks and crashes. Theorems that need more say so in their statement.

| Proof module | About | Theorems that say most |
|---|---|---|
| WorktreeProofs | Worktree, DisposableWork | `NoCommitIsLost`, `RemovalIsProved`, `Implementation`, `UnregisteredLeavesNothing` |
| HostProgramsProofs | MemoryStore, MemoryLog, RuntimeDatabase, HermesAdapter | `NoDuplicateRecords`, `NoCandidateLost`, `Implementation`, `LegacyIsKept`, `RowsStay`, `HistoryCorrect` |
| AgentRunProofs | AgentRun, RunTerminal | `NoLateFlush`, `ConfirmedStay`, `NewestStay` |
| OfficeAdapterProofs | OfficeAdapter | `OneFinal`, `ApprovalsSettle`, `ShownWaiting` |
| OfficeLinkProofs | GatewayProxy, OfficeLink | `AnsweredOnce`, `NoneDeaf`, `LinkIsAdapter` |
| StudioClientProofs | GatewayConnection, ExecApprovals, HistorySync | `OneSocket`, `RetryNeverLost`, `FollowUpsArePaid`, `HistoryHasNoGhosts`, `AnswersAreMerged` |
| StudioEditsProofs | StudioSettings, TaskBoard, ConfigMutations, GatewayDocuments | `NothingIsForgotten`, `NewestStays`, `ForcedReadsAreFresh`, `NoTaskLost`, `BlockCorrect`, `DeletionCorrect`, `CallsDoAsAsked`, `NoLostUpdate` |
| PartsProofs | MCParts | `PartsAreTheirSpecs`, `PartsTypeCorrect` |

**WorktreeProofs.** `TypeCorrect`; `MergeProofInvariant`, `NoCommitIsLost`, `RemovalIsProved`
and `Implementation` for `Quiesce`. `NoCommitLost` alone is not inductive:
what was true when the tip was resolved must still be true when the branch is
deleted, several steps of everybody later. The inductive invariant is `TypeOK`,
`NoCommitLost` and `MergeProofHolds`: from the resolution of the tip to
the deletion, the branch stays within the target and what was seen; a worktree
that was seen to exist is only removed with a resolved tip. The refinement then
follows step by step, `CleanupBranch` being the only step that maps to `Dispose`.
`UnregisteredLeavesNothing` is for any number of processes, as long as nobody intervenes by hand and no other process prepares or cleans up the
name a cleanup works on (`CleanupAlone`; a ref deleted under the feet of a cleanup, or a second process
that prepares the same name meanwhile, leaves something behind a row that goes): a directory is registered, what is registered
has a branch, and what a cleanup saw is still so (`LeftoversFit`), so that a row is only deleted after its branch, and a branch
that is checked out is not.

**HostProgramsProofs, MemoryStore.** `TypeCorrect` (`Typed`: each step of a call belongs to the right
kind of call), `NoDuplicateRecords` for any set of writers (`Checked`: the
snapshot a writer holds has no duplicate with its record, whatever the file
has become), and while the calls that have a record in hand take turns, whichever sessions make
them (`RecordsInTurn`, which one main session keeps: `OneSessionTakesTurns`), `IndexHasNoGhosts`, `RecordsAreIndexed`
and `Implementation` (`Tracked`: what such a call has parsed is still what the file
says, and each reader's snapshot is known to the file), and `NoCandidateLost`
while, besides, nobody corrupts the file and no record splits
(`Kept`: a candidate about to be unlinked is covered by a record of its title).

**HostProgramsProofs, RuntimeDatabase.** Every step of a command lets the files `Grown` and the name `Named`: files are only
added, keep their rows, and never become legacy; the name stays, goes, or goes to a new file. The
inductive invariant `RuntimeInvariant` adds to the types that nobody has opened the legacy file or is about to
(`Untouched`), and that who is about to remove it has copied it, and has judged right if sqlite could read what it
judged (`Careful`). From it `LegacyIsKept`; and `RowsStay`, because
a current database is removed only after a misreading or under a name that was judged as another file.

**HostProgramsProofs, HermesAdapter.** `HistoryCorrect`: a session's list and the set of turns answered in it since it was cleared change in the
same steps, and a turn answered late is not of the session's present age. What makes it inductive (`HermesInvariant`): only a turn that is over has been told of and
kept (`EndsAtEnd`), no turn holds a list of a later age than its agent's; and with no timer running and no save failed the file is as the lists
(`FileIsCurrent`), which a restart needs. The lists are sequences; that an append adds one turn to the range and keeps the list
injective is a lemma of its own.

**AgentRunProofs.** `Inductive` proves the invariant `IInv`: `TypeOK`; `Sound(coord)`, the agreement of
run records, closed window and timers (a closed run has no timer; a committed or finally
reported run is closed; a record by chat has seen its final); `NoFlushAfterFinal`; and
`Backed`, the agreement of the transcript with the run records. From it follow
`NoFallbackWhenClosed`, `NoLateFlush`, `ConfirmedStay` and `NewestStay`; `RunningNames` and `TypeCorrect`
beside it. Each reducer of `RunTerminal` has its own lemma; the step lemma has one step per handler.

**OfficeAdapterProofs.** Three inductive invariants beside the types. `OneFinal` (`FinalsInvariant`): a pending run was
sent, has no final yet and is pending for one agent (`PendingIsFresh`); an agent only offices have talked to, each time
when it was idle, has at most one follow-up and works for the pending run or for none (`OwnTurn`). `ApprovalsSettle`
(`AsksInvariant`): only the turn of a live session asks, what is parked is open, awaited and not announced.
`ShownWaiting` (`ShownInvariant`): while an ask is open the fold's approval flag is up, which a todo list and a tool call respect.

**OfficeLinkProofs.** `LinkInvariant`: a socket's end is known on both sides in a certain order (`SocketEnds`), the frame that waits is
the connect request, an open browser's request has no answer until something says it was answered (`OpenAnswers`), no frame waits beside
an upstream it could be sent to (`NoneStuck`). `AnsweredOnce` and `NoneDeaf` are parts of it; neither is inductive alone. Each handler of the proxy has
a lemma of its own. `LinkIsAdapter` is the composition: hidden behind the proxy, the adapter's part of a behaviour is a behaviour of `OfficeAdapter`
(every step of `LinkNext` is a step of its `Next` or leaves it alone), so what is proved of the adapter holds behind the proxy too.

**StudioClientProofs, GatewayConnection.** `ConnectionTypeCorrect`; `OneSocket` from `SlotInvariant`: a live socket is the slot's, a pending connect is
the slot's client, and a client in the slot may reconnect. `StaysUp`, from `SlotsCall` (the call that has the slot waits for the hello and
for nothing afterwards): the call a connection belongs to never takes it down again. What else does is its own close, the user, or a step of
another call still under way: the timeout of an abandoned connect stops whatever client is current, the newer one too (`GatewayClient.ts:361`). `RetryNeverLost` from `RetryInvariant`: an error that stays "retryable" has
armed the timer before, and without an error it is armed or a call is about to report.

**StudioClientProofs, ExecApprovals.** `ApprovalsTypeCorrect`; `FollowUpsArePaid`: a pause is a token: it lies in the agent's paused entry, with the resume that took it
from there, or has been spent on a follow-up (`Tokens`), and there are never more tokens than pauses. `NoApprovalPassedOver`: what is pending
when the agent is resumed was requested since the first look.

**StudioClientProofs, HistorySync.** A merge is two folds over the lines shown. `FoldLeft` is unfolded to a recursive function on sets of
indices, and the steps of the loop are found in it again (`Placings`, `Boundings`) by taking the least index where they would differ: finite
subsets are well founded under inclusion, and that theorem takes no operator. So an invariant of a step of `Placed` or `Bounded` is one of the merge:
its lines are the answer's or those shown (`HistoryHasNoGhosts`), and how often it has each line is counted (`AnswersAreMerged`).
`HistoryInvariant` says of the rest: a frame belongs to something under way and is its only one (`FramesFit`), a session here is not newer than
at the gateway, less the reset that is on its way (`EpochsFit`), and only a reset leaves a request under way without its mark, so a slot is free
when the next may be sent (`SlotsFit`). Sessions are told apart twice: by the epoch the code counts, and by the gateway's session each was renewed for
(`since`). `RenewalsFit` is why the code's way suffices: a reset is asked for the session in the store, so each renewal has an epoch of its own,
`latest` is behind `room` in both counts or in neither, and nothing was asked for in a later session. It rests on the button being busy
(`BusyShown`): without it two resets may be asked for the same session and get the same epoch. Then the log read for a request of the session in the store
holds only runs that began since that session was renewed (`LogsFit`), which is `NoGhosts`; and `AnswersAreMerged` needs beside it
that what was committed is still in the store unless the session was renewed (`ShownIsKept`). Both are for any number of resets.

**StudioEditsProofs, StudioSettings.** `WayHolds`: the newest change of a field that is not lost is in the file, in a write that is still
to be applied, or in the pending patch (`Carried`); newer patches carry newer changes and the file only older ones
(`Ordered`); one write after the other (`InTurn`). `NothingIsForgotten` and `NewestStays` follow: what the host forgets of a gateway
section without a token, what it does not take without a url, and what a late write puts back is in `lost` or among the exceptions
the property names. `ForcedReadsAreFresh` needs that what was answered is a version of the file and that a forced reader waits for a
request of its own (`AnswersStored`, `ForcedReads`).

**StudioEditsProofs, TaskBoard.** `NoTaskLost`: the file has each task once (`FileFits`), so a write finds the one it replaces; what
`Upserted` makes of any such file and any record is a lemma (`UpsertKeeps`): the task is replaced with a longer history (`KnownIsReplaced`), appended
(`NewIsAppended`), or takes the place of the archived, or else the first, task of a full file (`OneLeaves`). `BoardInvariant` has what makes every
attempt the host may get, strays included, such a record, and every card put back a card.

**StudioEditsProofs, ConfigMutations.** `BlockCorrect` (`TurnsFit`, `NoneTwice`, `BlockFits`): the queue holds each waiting change once, one change
has its turn, none has sent anything before it, and of two changes of one kind about one agent one has outlived its block: so the end of one clears the
block of another only when that was no longer owed. `DeletionCorrect` (`DeletionInvariant`): a deletion works on the jobs of its own agent,
what it removed it can put back, and together with what is still there that is all of them (`OnItsJobs`, `Undoable`); an agent that
nobody deletes has all its jobs or is gone.

**StudioEditsProofs, GatewayDocuments.** `NoLostUpdate` and `CallsDoAsAsked`: the gateway takes a document only from who has read the current one, so a first attempt
that is taken writes what is there, changed in the entry of its call (`DraftFits`, `OthersStay`, `Confined`); a call that has written has done
its part for as long as nobody else has a call about the same agent (`Achieved`), and each kind of call goes through the stages of its kind only
(`KindFits`, which also says that only a temporary agent's call ends in `left`, and with its work done); a temporary agent has no list of skills of its own (`TempsPlain`). The second attempts that
send an older document are excepted by the properties themselves.

**PartsProofs.** The run `parts` is proved to be what it stands for: whichever part moves, `PartsSpec` implies the
specification of each of the eight parts (`PartsAreTheirSpecs`; the fairness of the board's windows aside, which only `live_parts`
needs), so each safety theorem about a part holds in it. `PartsTypeCorrect` is that for the types, which the run checks as one
invariant, `PartsTypeOK`. It is put together from the eight type theorems; the steps of `MCParts` add no case.

Proved and not checked by a run: `NoFallbackWhenClosed`, `RunningNames`, `RecordsAreIndexed`, `MergeProofInvariant`,
`StaysUp`, `NoApprovalPassedOver`, `OneFinalPerRun`, `ParkedIsAwaited`, `NoStuckConnect`, `LinkIsAdapter`, and the type invariants of `AgentRun`, `MemoryStore`, `Worktree`,
`RuntimeDatabase`, `OfficeLink` and `HermesAdapter`.

Only model-checked:

- liveness (`EventuallyUnregistered`, `LostRunsSettle`, `QueueDrains`, `ConnectSettles`, `AskedIsEnded`, `HistorySettles`, `BoardsAgree`), which needs
  `ENABLED` and is out of the prover's reach;
- the violations.

## What the code does that its text does not say

Each is a run that ends with a counterexample.

1. `worktree_race` (`core/worktree.py:209`): cleanup deletes a branch it proved merged
   earlier. A commit made in between is destroyed; the docstring says unmerged work is
   refused. Safe only if subagents hold still, which is what the passing runs and the proofs assume.
2. `memory_lost_candidate` (`infrastructure/memory.py:226`): accept takes every refusal for "already
   merged"; with a corrupt line in the file the candidate is deleted unmerged.
3. `agent_run_steals` (`runtimeEventCoordinatorWorkflow.ts:848`): the fallback timer dispatches
   the transition computed when the end arrived, and idles an agent that has started another run since.

## What the models show beside the properties

Behaviour the models have and the properties except by name, or that was met while modelling. None is a
claim a run makes.

*Worktrees and memory.* `git worktree add` precedes the INSERT and nothing is undone: a prepare that dies in between
leaves a directory no operation reaches (`core/worktree.py:85`). A title with U+2028, U+2029 or U+0085 is written on
one line and read back as two, and the file then refuses every later record (`memory.py:357`). After a kill inside `git worktree remove`
the registration may stay without a directory; every repeated cleanup then fails with BRANCH_DELETE_FAILED (`core/worktree.py:210`)
until somebody runs `git worktree prune`, which AIOS never does. A removal killed while it deletes the files leaves a tree that counts as dirty
and that cleanup refuses until it is restored; the model deletes the files in one step.

*Database.* What is judged, copied and removed is whatever has the name by then: of two processes that find a legacy file,
the slower one may remove the new database of the faster one (after copying it), and rows written between copy
and unlink are lost. A file that cannot be read counts as legacy. Of two first migrators the
second gets a MigrationError.

*Adapter, proxy, client.* An approval parked for an office waits for ever when the last office disconnects
(`expiresAtMs` is announced, not enforced). An agent written to while it is busy gives one run the text
of another. A connect request is not answered when the settings cannot be loaded after it arrived, though
`pi-chat-streaming.md` says an error response is sent. A browser that leaves while the settings load leaves an
upstream socket behind. The timeout of an abandoned connect stops a newer client.

*Hermes adapter.* An aborted run whose response is destroyed by the next chunk waits for an end or an error that need not come, and then reports nothing; `agent.wait`
calls it done from the abort on (`hermes-gateway-adapter.js:497`); an aborted run that gets its answer all the same appends it to
the session. A second message with the id of a running one takes its entry: the first cannot be aborted any more, and its end removes
the entry of the second. Delegations are not aborted with their run. Members of the team are not saved, their sessions are. A reset in the
last half second before the process dies comes undone.

*Settings.* Of two patches of one whole entry collected together the first is lost (`coordinator.ts:46`); a failed
write loses its fields; a hidden token (`undefined`) overwrites a token set before in the merged patch; a
later patch re-arms the timer of one that was to be written at once; a page that unloads loses what is collected. While the file
has no gateway token, loading it replaces the gateway section by the machine's own gateway, and a patch of any other section
saves that: stored `profiles` and `lastKnownGood` are gone (`settings-store.ts:182`). A deletion (`null`) that a record follows in
the same collected patch is taken back. A PUT whose answer was lost may arrive after a newer one and overwrite it.

*Queue.* With two messages queued here behind a third run, the answer to the first may take the in-flight mark away after the last render
(the `finally` of `useChatInteractionController.ts:306` dispatches nothing); the second then waits until something else renders the page. The checked
instance has one queued message.

*Approvals.* An approval requested after the first look does not hold the resume back; a stale paused entry
lets a later permission resume an old run; a run that another client has permitted is not resumed here.

*Gateway documents.* The second attempts of `setExecApprovalsWithRetry` and `applyGatewayConfigPatch` send the old document with
the new hash and undo what others wrote, which `docs/permissions-sandboxing.md:283` says the hash
prevents (`Resends` in `OthersKept`). A late permission update re-creates a deleted agent's entry; a temporary agent
whose removal fails stays in the configuration though the call reports success (`install-gateway.ts:171`); one whose creation's answer is
lost is not removed at all.

*Config mutations.* The 45 s of a request do not cancel it. The 90 s of a block count from its queueing, so that a
mutation that waited long is uncovered as it starts; its end clears the block of a later one of the same kind and agent.

*History.* An answer handled before the commit of what was appended overwrites it; ghosts of a reset session
come with an answer handled before the reset's commit. `/new` sent as a message brings the old transcript
back. A history cut off at its limit in the middle of repeated texts, or a gateway that stores messages only when the
run ends, shows a line twice (`pi-chat-streaming.md:226`: "must be idempotent").

*Task board.* A late or repeated attempt takes a status back; a stale list brings back an old card, which the next
edit sends; a damaged file counts as empty, and the next write replaces every task; evicted tasks stay on boards and
come back with an edit; a card made by hand whose request failed stays in its window alone; 404 ends the polling
until the page is loaded anew.

## What is not modelled, and why

`PROJECT.json` lists every component with a reason.

- Authorization, gates and checks, documents and configuration: sequential decisions over text and the tree, which
  the unit tests enumerate; a model would restate their tables.
- The governance plugin: a classification of command lines, with a cache that is filled and read within one
  call; what it may be wrong about is five seconds of the registry, which no property bounds without restating the cache.
- The standup meeting: its timers run in every window. Two windows' `advance` skip a speaker, an `advance` after the end
  revives the meeting, a late `start` resets it, and the windows' clocks are compared with the
  host's; without assumptions on clocks it need not end, and no document promises otherwise.
- The demo adapter stands in for a gateway with canned answers; runtime providers pick a client and reshape payloads.
- Scenes, wizards, panels, voice, skills, SSH: rendering in floating-point coordinates and user-interface state, or single
  operations on a remote file.

Within the modelled components. `AgentRun` and `HistorySync` are two views of one agent: the first leaves out the history, the second
lost and reordered events; a chat panel that is closed and opened again while a reset is under way, which makes its button free too early, is left out.
Neither has thinking and tool lines, drafts and timestamps,
nor the merge of transcript V2 (`historySyncOperation.ts` 221-302), which `NEXT_PUBLIC_STUDIO_TRANSCRIPT_V2` switches on and which is off by default. `ExecApprovals` has one agent and takes runs
as given. `GatewayConnection` ends at the hello: requests, the probe of custom runtimes and the node client are left out.
`StudioSettings` has one tab, and its patches set no empty tokens or urls. `GatewayDocuments` leaves out heartbeats, `ConfigMutations` the editing of jobs and files.
`TaskBoard` leaves out inferred cards, the gateway's own tasks and the archiving of duplicates, in which two windows may each archive
the card the other keeps. `MemoryStore` and `Worktree` take a migrated database for granted; `Worktree` models the
branch and target of one repository; the slug and path checks of prepare are data.

The share of the implementation the models cover is small by its nature: most of the code draws an office, lays out panels and
reshapes payloads. What is modelled is the code that decides what happens when two things happen at once.

## Plan

1. **ExecApprovals with AgentRun**: the pause aborts a run whose events still come; the resume sends a message.
2. **HistorySync with AgentRun**: both write the transcript; the newest final must survive an answer.
3. **Standup** with the host's clock as an action, if the code's authors say what a meeting promises.
4. **Request layer** of the gateway client: pending requests at a close, and the node client.
