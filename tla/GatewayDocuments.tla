--------------------------- MODULE GatewayDocuments ---------------------------
(***************************************************************************)
(* The two documents of the gateway that Studios edit: the configuration   *)
(* with its list of agents (src/lib/gateway/agentConfig.ts) and the file   *)
(* of exec approvals (execApprovals.ts).  Every edit reads the document,   *)
(* changes the entry of one agent and sends the whole document back with   *)
(* the hash of what it read; the gateway refuses a write whose hash is not *)
(* the document's, and the Studio tries once more.  The hash is modelled   *)
(* by the document it is the hash of.                                      *)
(*                                                                         *)
(* The operations: updateAgentPermissionsViaStudio, the edits of the       *)
(* skills an agent may use, the temporary agents that install and remove   *)
(* packaged skills, and the deletion of an agent.                          *)
(***************************************************************************)
EXTENDS Naturals

CONSTANTS
    Workers,      \* calls that may overlap: of several windows, tabs and flows
    Listed,       \* the agents of the configuration
    Temps,        \* ids the gateway gives to temporary agents
    Patterns,     \* what an allowlist may hold
    Groups,       \* groups of tools
    Skills,       \* the skills of an agent's workspace
    Jobs,         \* the calls that are made
    MaxJobs,      \* bound on their number
    Unset         \* no entry, no setting, no restriction

All == Listed \cup Temps
CallKinds == {"permissions", "skills", "enable", "disable", "temporary", "delete"}
Roles == {"conservative", "collaborative", "autonomous"}
Toggles == [Groups -> {"on", "off", Unset}]
Policies == [role : Roles \ {"conservative"}, allow : SUBSET Patterns]
Unrestricted == {Unset}                                \* an entry without skills
SkillSets == (SUBSET Skills) \cup {Unrestricted}
Entries == [tools : Toggles, skills : SkillSets]
Files == [exists : BOOLEAN, of : [Listed -> Policies \cup {Unset}]]
Configs == [All -> Entries \cup {Unset}]

\* A call uses what its kind is about: the role and the tools, or the skills
\* (those to allow, or the one to enable or disable).
ASSUME DocumentsAssumption ==
    /\ MaxJobs \in Nat /\ Listed \cap Temps = {} /\ Jobs # {}
    /\ Unset \notin Entries \cup Policies \cup Skills \cup {"on", "off"}
    /\ Jobs \subseteq [kind : CallKinds, agent : All, role : Roles, tools : Toggles,
                       skills : SkillSets]
    /\ \A j \in Jobs : j.kind = "temporary" <=> j.agent \in Temps
    /\ \A j \in Jobs : j.kind \in {"enable", "disable"} => j.skills \subseteq Skills

VARIABLES
    file,         \* the approvals file; file.of[a] is the policy of agent a
    config,       \* config[a]: agent a's entry of agents.list
    session,      \* the execution role in the settings of a's main session
    job, step,    \* job[w]: the call w works on; step[w]: where it is
    seen,         \* seen[w]: what it read of the agent before the document
    base,         \* base[w]: the documents whose hashes it will send
    draft,        \* draft[w]: the documents it will send
    tried,        \* the workers on the second attempt at a write
    worked,       \* the workers whose temporary agent has done its work
    started,      \* the number of calls so far
    clean         \* the workers whose agent nobody else touched meanwhile

documents == <<file, config, session, job, step, seen, base, draft, tried, worked, started, clean>>

Steps == {"idle", "readPolicy", "getFile", "setFile", "getFileHash", "readTools", "readSkills",
          "getConfig", "setConfig", "sync", "create", "chat", "getList", "patch", "getListHash",
          "delete", "done", "left"}
DocumentsTypeOK ==
    /\ file \in Files /\ config \in Configs /\ session \in [Listed -> Roles \cup {Unset}]
    /\ job \in [Workers -> Jobs] /\ step \in [Workers -> Steps]
    /\ seen \in [Workers -> [allow : SUBSET Patterns, entry : Entries]]
    /\ base \in [Workers -> [file : Files, config : Configs]]
    /\ draft \in [Workers -> [file : Files, config : Configs]]
    /\ tried \subseteq Workers /\ worked \subseteq Workers /\ clean \subseteq Workers
    /\ started \in 0..MaxJobs

NewEntry == [tools |-> [g \in Groups |-> Unset], skills |-> Unrestricted]
NoDocuments == [file |-> [exists |-> FALSE, of |-> [a \in Listed |-> Unset]],
                config |-> [a \in All |-> Unset]]
NothingSeen == [allow |-> {}, entry |-> NewEntry]
DocumentsInit ==
    /\ file \in [exists : BOOLEAN, of : {[a \in Listed |-> Unset]}]
    /\ config = [a \in All |-> IF a \in Listed THEN NewEntry ELSE Unset]
    /\ session = [a \in Listed |-> Unset]
    /\ job \in [Workers -> {CHOOSE j \in Jobs : TRUE}]
    /\ step = [w \in Workers |-> "idle"]
    /\ seen = [w \in Workers |-> NothingSeen]
    /\ base = [w \in Workers |-> NoDocuments] /\ draft = [w \in Workers |-> NoDocuments]
    /\ tried = {} /\ worked = {} /\ started = 0 /\ clean = Workers

Agent(w) == job[w].agent
Goto(w, next) == step' = [step EXCEPT ![w] = next]
EntryIn(doc, a) == IF doc[a] = Unset THEN NewEntry ELSE doc[a]

\* What becomes of a call whose temporary agent has been seen to (finally): it
\* returns if the agent has done its work and throws otherwise.
EndsAnyway(w, how) == how                                  \* seeded fault
CallEnds(w, how) == IF w \in worked THEN how ELSE "idle"

\* Where an error leads: the caller gives up.  A temporary agent that has been
\* created is removed first (finally); an error of that removal is swallowed,
\* and the agent is left behind.
Removing == {"getList", "patch", "getListHash"}
Failed(w) ==
    CASE job[w].kind = "temporary" /\ step[w] \in {"getConfig", "setConfig", "chat"} -> "getList"
      [] step[w] \in Removing -> CallEnds(w, "left")
      [] OTHER -> "idle"

-----------------------------------------------------------------------------
(* A call begins, fails on the way, and is over                            *)

FirstStep(kind) ==
    CASE kind = "permissions" -> "readPolicy"
      [] kind \in {"enable", "disable"} -> "readSkills"
      [] kind = "skills" -> "getConfig"
      [] kind = "temporary" -> "create"
      [] kind = "delete" -> "delete"

BeginCall(w, j) ==
    /\ step[w] = "idle" /\ started < MaxJobs /\ started' = started + 1
    /\ j.kind = "temporary" => /\ config[j.agent] = Unset     \* a new id
                               /\ \A v \in Workers : step[v] # "idle" => Agent(v) # j.agent
    /\ job' = [job EXCEPT ![w] = j] /\ Goto(w, FirstStep(j.kind))
    /\ seen' = [seen EXCEPT ![w] = NothingSeen]
    /\ base' = [base EXCEPT ![w] = NoDocuments] /\ draft' = [draft EXCEPT ![w] = NoDocuments]
    /\ tried' = tried \ {w} /\ worked' = worked \ {w}
    /\ UNCHANGED <<file, config, session>>

\* Any request may fail: the gateway, the connection, a timeout.  A request
\* whose answer is lost has been carried out all the same.
Fail(w) ==
    /\ step[w] \notin {"idle", "done", "left"} /\ Goto(w, Failed(w)) /\ tried' = tried \ {w}
    /\ UNCHANGED <<file, config, session, job, seen, base, draft, worked, started>>

Over(w) ==
    /\ step[w] \in {"done", "left"} /\ Goto(w, "idle")
    /\ UNCHANGED <<file, config, session, job, seen, base, draft, tried, worked, started>>

\* A write with the hash of what was read; a refused one is tried once more
\* from the step retry on, a write refused twice is an error.
SwallowsRefusal(w, next) ==                                \* seeded fault
    IF step[w] \in Removing THEN Failed(w) ELSE next
AfterRefusal(w, next) == Failed(w)
Answered(w, next) == Goto(w, next) \/ Goto(w, Failed(w))
Write(w, current, next, retry) ==
    \/ current /\ Answered(w, next) /\ tried' = tried \ {w}
    \/ ~current /\ w \notin tried /\ Goto(w, retry) /\ tried' = tried \cup {w}
    \/ ~current /\ w \in tried /\ Goto(w, AfterRefusal(w, next)) /\ tried' = tried \ {w}

-----------------------------------------------------------------------------
(* The exec approvals: upsertExecApprovalsPolicyForRole                    *)

Policy(role, allow) ==
    IF role = "conservative" THEN Unset ELSE [role |-> role, allow |-> allow]

\* readGatewayAgentExecApprovals: the allowlist to be kept.
ReadPolicy(w) ==
    /\ step[w] = "readPolicy" /\ Goto(w, "getFile")
    /\ seen' = [seen EXCEPT ![w].allow =
                    IF file.of[Agent(w)] = Unset THEN {} ELSE file.of[Agent(w)].allow]
    /\ UNCHANGED <<file, config, session, job, base, draft, tried, worked, started>>

GetFile(w) ==
    /\ step[w] = "getFile"
    /\ base' = [base EXCEPT ![w].file = file]
    /\ draft' = [draft EXCEPT ![w].file =
           [exists |-> TRUE,
            of |-> [file.of EXCEPT ![Agent(w)] = Policy(job[w].role, seen[w].allow)]]]
    /\ Goto(w, IF job[w].role = "conservative" /\ file.of[Agent(w)] = Unset
               THEN "readTools" ELSE "setFile")
    /\ UNCHANGED <<file, config, session, job, seen, tried, worked, started>>

SetFile(w) ==
    /\ step[w] = "setFile"
    /\ Write(w, base[w].file = file, "readTools", "getFileHash")
    /\ file' = IF base[w].file = file THEN draft[w].file ELSE file
    /\ UNCHANGED <<config, session, job, seen, base, draft, worked, started>>

\* The second attempt sends the same file with the hash of the new one.
GetFileHash(w) ==
    /\ step[w] = "getFileHash" /\ Goto(w, "setFile")
    /\ base' = [base EXCEPT ![w].file = file]
    /\ UNCHANGED <<file, config, session, job, seen, draft, tried, worked, started>>

-----------------------------------------------------------------------------
(* One entry of the configuration: updateGatewayAgentOverrides and         *)
(* updateGatewayAgentSkillsAllowlist                                       *)

\* resolveAgentRuntimeConfigContext, readGatewayAgentSkillsAllowlist.
ReadEntry(w) ==
    /\ step[w] \in {"readTools", "readSkills"} /\ Goto(w, "getConfig")
    /\ seen' = [seen EXCEPT ![w].entry = EntryIn(config, Agent(w))]
    /\ UNCHANGED <<file, config, session, job, base, draft, tried, worked, started>>

\* resolveToolGroupOverrides: what the call does not name stays as it was read.
ToolsFor(w) == [g \in Groups |-> IF job[w].tools[g] # Unset THEN job[w].tools[g]
                                 ELSE seen[w].entry.tools[g]]
Enabled(w) == IF seen[w].entry.skills = Unrestricted THEN Skills ELSE seen[w].entry.skills
SkillsFor(w) ==
    CASE job[w].kind = "enable" -> Enabled(w) \cup job[w].skills
      [] job[w].kind = "disable" -> Enabled(w) \ job[w].skills
      [] OTHER -> job[w].skills

AboutTools(w) == job[w].kind \in {"permissions", "temporary"}
Edited(w, doc) ==
    [doc EXCEPT ![Agent(w)] =
        IF AboutTools(w) THEN [EntryIn(doc, Agent(w)) EXCEPT !.tools = ToolsFor(w)]
        ELSE [EntryIn(doc, Agent(w)) EXCEPT !.skills = SkillsFor(w)]]

\* buildAgentSkillsConfig returns the configuration itself.
Needless(w) == ~AboutTools(w) /\ EntryIn(config, Agent(w)).skills = SkillsFor(w)
                              /\ (config[Agent(w)] = Unset => SkillsFor(w) = Unrestricted)
AfterConfig(w) == CASE job[w].kind = "permissions" -> "sync"
                    [] job[w].kind = "temporary" -> "chat"
                    [] OTHER -> "done"

\* The second attempt starts from the configuration that is there now.
KeepsItsDraft(w) == IF w \in tried THEN draft[w].config    \* seeded fault
                    ELSE Edited(w, config)
NextConfig(w) == Edited(w, config)

GetConfig(w) ==
    /\ step[w] = "getConfig"
    /\ base' = [base EXCEPT ![w].config = config]
    /\ draft' = [draft EXCEPT ![w].config = NextConfig(w)]
    /\ Goto(w, IF Needless(w) THEN "done" ELSE "setConfig")
    /\ UNCHANGED <<file, config, session, job, seen, tried, worked, started>>

SetConfig(w) ==
    /\ step[w] = "setConfig"
    /\ Write(w, base[w].config = config, AfterConfig(w), "getConfig")
    /\ config' = IF base[w].config = config THEN draft[w].config ELSE config
    /\ UNCHANGED <<file, session, job, seen, base, draft, worked, started>>

\* syncExecutionRoleSessionSettings; a webchat session may not be changed.
Sync(w) ==
    /\ step[w] = "sync" /\ Goto(w, "done")
    /\ session' \in {session, [session EXCEPT ![Agent(w)] = job[w].role]}
    /\ UNCHANGED <<file, config, job, seen, base, draft, tried, worked, started>>

-----------------------------------------------------------------------------
(* Agents that come and go                                                 *)

\* agents.create of installPackagedSkillViaGatewayAgent and its counterpart.
Create(w) ==
    /\ step[w] = "create" /\ Answered(w, "getConfig")
    /\ config' = [config EXCEPT ![Agent(w)] = NewEntry]
    /\ UNCHANGED <<file, session, job, seen, base, draft, tried, worked, started>>

\* agents.list, chat.send and agent.wait.
Chat(w) ==
    /\ step[w] = "chat" /\ Goto(w, "getList") /\ worked' = worked \cup {w}
    /\ UNCHANGED <<file, config, session, job, seen, base, draft, tried, started>>

\* removeGatewayAgentFromConfigOnly: the list without the agent.
GetList(w) ==
    /\ step[w] = "getList"
    /\ base' = [base EXCEPT ![w].config = config]
    /\ draft' = [draft EXCEPT ![w].config = [config EXCEPT ![Agent(w)] = Unset]]
    /\ Goto(w, IF config[Agent(w)] = Unset THEN CallEnds(w, "done") ELSE "patch")
    /\ UNCHANGED <<file, config, session, job, seen, tried, worked, started>>

\* config.patch with the whole list, which takes the place of the old one.
PatchList(w) ==
    /\ step[w] = "patch"
    /\ Write(w, base[w].config = config, CallEnds(w, "done"), "getListHash")
    /\ config' = IF base[w].config = config THEN draft[w].config ELSE config
    /\ UNCHANGED <<file, session, job, seen, base, draft, worked, started>>

\* The second attempt sends the same list with the hash of the new one.
GetListHash(w) ==
    /\ step[w] = "getListHash" /\ Goto(w, "patch")
    /\ base' = [base EXCEPT ![w].config = config]
    /\ UNCHANGED <<file, config, session, job, seen, draft, tried, worked, started>>

\* agents.delete
Delete(w) ==
    /\ step[w] = "delete" /\ Answered(w, "done")
    /\ config' = [config EXCEPT ![Agent(w)] = Unset]
    /\ UNCHANGED <<file, session, job, seen, base, draft, tried, worked, started>>

\* The gateway writes the file too: an approval answered with allow-always.
AllowAlways(a, p) ==
    /\ file.of[a] # Unset /\ p \notin file.of[a].allow
    /\ file' = [file EXCEPT !.of[a].allow = @ \cup {p}]
    /\ UNCHANGED <<config, session, job, step, seen, base, draft, tried, worked, started>>

SameEntry(a) == config'[a] = config[a] /\ (a \in Listed => file'.of[a] = file.of[a])
Touched == clean' = {v \in Workers : step[v] # "idle" =>
                        v \in clean /\ (step'[v] # step[v] \/ SameEntry(Agent(v)))}

Advance(w) ==
    \/ ReadPolicy(w) \/ GetFile(w) \/ SetFile(w) \/ GetFileHash(w)
    \/ ReadEntry(w) \/ GetConfig(w) \/ SetConfig(w) \/ Sync(w)
    \/ Create(w) \/ Chat(w) \/ GetList(w) \/ PatchList(w) \/ GetListHash(w) \/ Delete(w)

DocumentsNext ==
    /\ \/ \E w \in Workers : Advance(w) \/ Fail(w) \/ Over(w)
       \/ \E w \in Workers, j \in Jobs : BeginCall(w, j)
       \/ \E a \in Listed, p \in Patterns : AllowAlways(a, p)
    /\ Touched

DocumentsSpec == DocumentsInit /\ [][DocumentsNext]_documents

-----------------------------------------------------------------------------
(* Properties                                                              *)

\* A worker that changes a document with what it built from an older one.
Resends(w) == w \in tried /\ step[w] \in {"setFile", "patch"}
Mine(w, a) == step'[w] # step[w] /\ (Agent(w) = a \/ Resends(w))

\* No lost update of the configuration: however the read-modify-write cycles
\* of several Studios interleave, the entry of an agent changes only by a call
\* about that agent, and the part a call is not about (its skills or its
\* tools) not even then.  Only the second attempts that send the older
\* document again (setExecApprovalsWithRetry, applyGatewayConfigPatch) may
\* undo what somebody else wrote.
OthersKept ==
    [][/\ \A a \in All : config'[a] # config[a] => \E w \in Workers : Mine(w, a)
       /\ \A a \in Listed : file'.of[a] # file.of[a] =>
             (\E w \in Workers : Mine(w, a)) \/ step' = step
       /\ \A a \in All : config[a] # Unset /\ config'[a] # Unset
                         /\ config[a].skills # config'[a].skills =>
             \E w \in Workers : step'[w] # step[w] /\ (~AboutTools(w) \/ Resends(w))]_documents

\* A call that reports success has done what it was asked for, refused writes
\* or not, unless somebody else touched the same agent meanwhile: the approvals,
\* the tools, the skills agree with the call; a temporary agent has done its
\* work, and it is gone, or its removal failed, which only this kind of call
\* passes over (install-gateway.ts 164-175, remove-gateway.ts 128-139).
Asked(w) ==
    LET a == Agent(w) IN
    CASE job[w].kind = "permissions" -> /\ file.of[a] = Policy(job[w].role, seen[w].allow)
                                        /\ config[a] # Unset /\ config[a].tools = ToolsFor(w)
      [] job[w].kind = "temporary" -> config[a] = Unset /\ w \in worked
      [] job[w].kind = "delete" -> config[a] = Unset
      [] OTHER -> EntryIn(config, a).skills = SkillsFor(w)
FinishedAsAsked ==
    \A w \in Workers : /\ step[w] = "done" /\ w \in clean => Asked(w)
                       /\ step[w] = "left" => job[w].kind = "temporary" /\ w \in worked
=============================================================================
