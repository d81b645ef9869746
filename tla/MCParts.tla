------------------------------- MODULE MCParts -------------------------------
(***************************************************************************)
(* Eight parts that share no variable, checked in one run: the initial     *)
(* state chooses the part, and only that part moves.  Their product would  *)
(* have the same behaviours of each part and no others.                    *)
(***************************************************************************)
EXTENDS OfficeAdapter, GatewayConnection, StudioSettings, ExecApprovals,
        GatewayDocuments, ConfigMutations, HistorySync, TaskBoard, TLC

CONSTANTS a1, a2, r1, r2, i1, i2, o1, focus, gateway, reader1, reader2,
          w1, w2, t1, p1, s1, create1, rename1, rename2, delete1, repair1, m1, f1,
          win1, win2, old1, made1, heard1

OneAgent == {a1}
TwoAgents == {a1, a2}
TwoRuns == {r1, r2}
OneAsk == {i1}
TwoAsks == {i1, i2}
OneOffice == {o1}
NoClass == {}

\* The focus of a gateway, which is merged as a whole, and the gateway
\* section: a connection is kept with and without its token, the focus is
\* set by itself, the section is deleted.
Part(entry, name) == <<entry, name>>
Url == Part(gateway, "url")
Token == Part(gateway, "token")
GatewayFields == {Url, Token, Part(gateway, "lastKnownGood")}
SomeFields == GatewayFields \cup {Part(focus, "filter"), Part(focus, "agent")}
FocusOnly == {focus}
GatewayNode == {GatewayFields}
AnyDefaults == {"none", "bare", "token"}
Shape(set, keep, clear) == [set |-> set, keep |-> keep, clear |-> clear]
PatchShapes ==
    {Shape({Url, Part(gateway, "lastKnownGood")}, {Token}, {}),
     Shape({Url, Token, Part(focus, "filter")}, {}, {}),
     Shape({Part(focus, "agent")}, {}, {}), Shape({}, {}, GatewayNode)}
OneForcing == {reader2}
TwoReaders == {reader1, reader2}

\* Calls about two agents: permissions, skills, a deletion, and an agent that
\* comes for one installation without the web tools.
TwoWorkers == {w1, w2}
OneTemp == {t1}
OnePattern == {p1}
TwoGroups == {"runtime", "web"}
OneSkill == {s1}
Tools(kind, role) == [runtime |-> IF role = "conservative" THEN "off" ELSE "on",
                      web |-> IF kind = "temporary" THEN "off" ELSE Unset]
Call(kind, a, role, skills) ==
    [kind |-> kind, agent |-> a, role |-> role, skills |-> skills, tools |-> Tools(kind, role)]
SomeJobs ==
    {Call("permissions", a1, "collaborative", {Unset}), Call("permissions", a1, "conservative", {Unset}),
     Call("permissions", a2, "autonomous", {Unset}), Call("disable", a1, "autonomous", {s1}),
     Call("skills", a1, "autonomous", {Unset}), Call("skills", a2, "autonomous", {}),
     Call("delete", a2, "autonomous", {Unset}), Call("temporary", t1, "autonomous", {Unset})}

\* Changes of agents, two of the same kind about the same agent.
SomeMutations == {create1, rename1, rename2, delete1, repair1}
KindOf == [m \in SomeMutations |-> CASE m = create1 -> "create"
                                     [] m \in {rename1, rename2} -> "rename"
                                     [] m = delete1 -> "delete"
                                     [] m = repair1 -> "unguarded"]
TargetOf == [m \in SomeMutations |-> a1]
NoJobs == {}
NoOwner == [j \in NoJobs |-> a1]

\* A message typed here and one that comes from elsewhere; both replies read
\* alike.
OneTyped == {m1}
OneElsewhere == {f1}
TwoCalls == {1, 2}
SomeTexts == [l \in TurnLines |-> IF l.role = "assistant" THEN "ok" ELSE l.run]

\* An agent is created or one is repaired: both would be too many states.
CreatedOrRepaired == life'[create1] = "new" \/ life'[repair1] = "new"

\* The session is renewed or a message is typed here, for the same reason.
RenewedOrTyped == (talk'.age = 0 /\ fresh' = NoFresh) \/ talk'.turn[m1] = "unborn"

\* Two windows and a file with room for two tasks: one stored and archived
\* before, one made by hand, one made of a message.
TwoWindows == {win1, win2}
OneOld == {old1}
OneMade == {made1}
OneHeard == {heard1}
TwoStatuses == {"todo", "done"}

\* Either a request fails or somebody spoils the file, and then no window
\* asks for the list: more would be too many states.
OneTrouble ==
    /\ mishaps' + damages' <= 1
    /\ damages' = 0 \/ \A w \in Windows : ~polling'[w]

\* Settings are loaded while the gateway section is left alone: what is
\* loaded is a version of the file, whatever that holds.
GatewayOrReaders ==
    \/ \A r \in Readers : load'[r] = "unused" /\ got'[r] = NoSettings /\ awaits'[r] = Nobody
    \/ \A f \in Gateway : meant'[f] = 0

VARIABLE part

PartsInit ==
    /\ part \in {"adapter", "connection", "settings", "approvals", "documents", "mutations",
                 "history", "board"}
    /\ Init /\ ConnectionInit /\ SettingsInit /\ ApprovalsInit /\ DocumentsInit /\ MutationsInit
    /\ HistoryInit /\ BoardInit
    /\ part = "connection" \/ auto = "no"     \* the rest has one initial state
    /\ part = "documents" \/ ~file.exists
    /\ tasks # <<>> /\ tasks[1].archived /\ boards = [w \in Windows |-> NoSheet]
    /\ part = "history" \/ (talk.log = <<>> /\ ~line)
PartsNext ==
    \/ /\ part = "adapter" /\ Next
       /\ UNCHANGED <<part, connection, settings, approvals, documents, mutations, history,
                      board>>
    \/ /\ part = "connection" /\ ConnectionNext
       /\ UNCHANGED <<part, vars, settings, approvals, documents, mutations, history,
                      board>>
    \/ /\ part = "settings" /\ SettingsNext /\ GatewayOrReaders
       /\ UNCHANGED <<part, vars, connection, approvals, documents, mutations, history,
                      board>>
    \/ /\ part = "approvals" /\ ApprovalsNext
       /\ UNCHANGED <<part, vars, connection, settings, documents, mutations, history,
                      board>>
    \/ /\ part = "documents" /\ DocumentsNext
       /\ UNCHANGED <<part, vars, connection, settings, approvals, mutations, history,
                      board>>
    \/ /\ part = "mutations" /\ MutationsNext /\ CreatedOrRepaired
       /\ UNCHANGED <<part, vars, connection, settings, approvals, documents, history,
                      board>>
    \/ /\ part = "history" /\ HistoryNext /\ RenewedOrTyped
       /\ UNCHANGED <<part, vars, connection, settings, approvals, documents, mutations,
                      board>>
    \/ /\ part = "board" /\ BoardNext /\ OneTrouble
       /\ UNCHANGED <<part, vars, connection, settings, approvals, documents, mutations, history>>
PartsSpec ==
    PartsInit
    /\ [][PartsNext]_<<part, vars, connection, settings, approvals, documents, mutations,
                       history, board>>

\* The parts that do not move are in their initial states.
PartsTypeOK ==
    CASE part = "adapter" -> TypeOK
      [] part = "connection" -> ConnectionTypeOK
      [] part = "settings" -> SettingsTypeOK
      [] part = "approvals" -> ApprovalsTypeOK
      [] part = "documents" -> DocumentsTypeOK
      [] part = "mutations" -> MutationsTypeOK
      [] part = "history" -> HistoryTypeOK
      [] part = "board" -> BoardTypeOK
=============================================================================
