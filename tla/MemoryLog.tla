------------------------------- MODULE MemoryLog -------------------------------
(***************************************************************************)
(* What docs/MEMORY.md promises of docs/memory/memory.jsonl, the "single   *)
(* source of truth" of the project memory: records are only added, one at  *)
(* a time and without duplicates, and the only later change to a record is *)
(* that it is retired (superseded or invalid) by hand.                     *)
(***************************************************************************)
CONSTANTS
    Ids,        \* record identities
    Slot        \* Slot[i]: the type and title of record i

VARIABLE log    \* the records, each with its status

Clashes(e, L) == \E l \in L : \/ l.id = e.id
                              \/ l.status = "active" /\ Slot[l.id] = Slot[e.id]

Init == log = {}

Add == \E i \in Ids, s \in {"active", "retired"} :
          LET e == [id |-> i, status |-> s] IN
          /\ ~Clashes(e, log)
          /\ log' = log \cup {e}

Retire == \E l \in log : log' = (log \ {l}) \cup {[l EXCEPT !.status = "retired"]}

Spec == Init /\ [][Add \/ Retire]_log
=============================================================================
