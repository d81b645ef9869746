------------------------------- MODULE MCRival -------------------------------
(***************************************************************************)
(* Three parts in which calls that overlap change one store, checked in    *)
(* one run: processes of aios that record in the memory, commands of aios  *)
(* that migrate the database, and turns of the Hermes adapter that append  *)
(* to the sessions of its agents.  They share no variable; the initial     *)
(* state chooses the part that moves.                                      *)
(***************************************************************************)
EXTENDS MCMemoryStore, RuntimeDatabase, HermesAdapter

CONSTANTS pid1, pid2, lead, member, send1, send2, task1, id1, id2

TwoCommands == {pid1, pid2}
LeadAndMember == {lead, member}
TwoSends == {send1, send2}
OneDelegation == {task1}
TwoRunIds == {id1, id2}

\* Two messages, told apart by their order, and ids that are alike until the
\* second is sent.  The orchestrator keeps its session; and of an abort, a
\* failed save and a restart one is enough: more would be too many states.
InOrder ==
    /\ turn'[send1].at = "unsent" => turn'[send2].at = "unsent"
    /\ turn'[send1].id \in {NoTurn, id1}
    /\ continuity'[Orchestrator]
    /\ unsaved' + restarts' <= IF \E s \in Sends : turn'[s].aborted THEN 0 ELSE 1

VARIABLE part

RivalInit ==
    /\ part \in {"memory", "database", "hermes"}
    /\ Init /\ RuntimeInit /\ HermesInit
    /\ part = "database" \/ named = 0
RivalNext ==
    \/ part = "memory" /\ Next /\ UNCHANGED <<part, runtime, hermes>>
    \/ part = "database" /\ RuntimeNext /\ UNCHANGED <<part, vars, hermes>>
    \/ part = "hermes" /\ HermesNext /\ InOrder /\ UNCHANGED <<part, vars, runtime>>
RivalSpec == RivalInit /\ [][RivalNext]_<<part, vars, runtime, hermes>>
=============================================================================
