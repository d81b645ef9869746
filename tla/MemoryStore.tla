------------------------------ MODULE MemoryStore ------------------------------
(***************************************************************************)
(* The project memory of the AIOS kernel                                   *)
(* (src/ai_engineering_os/infrastructure/memory.py): a Git-tracked JSONL   *)
(* file, a SQLite index rebuilt from it, and a directory of candidates.    *)
(* Every call is a process of its own (CLI or MCP server) without a lock   *)
(* against the others: record reads the whole file, decides, and replaces  *)
(* the whole file; reindex reads the file and later replaces the index;    *)
(* accept is record followed by the removal of the candidate's file.       *)
(*                                                                         *)
(* A record is its id (a hash of its content) and its status; "retired"    *)
(* stands for superseded and invalid, which no code path tells apart.      *)
(* Slot[i] is the type and case-folded title that duplicates are found by. *)
(***************************************************************************)
EXTENDS Naturals, FiniteSets

CONSTANTS
    Procs,      \* processes that may call the memory commands
    Writers,    \* the main sessions: they record, accept and reject
    Ids,        \* record identities
    Slots,      \* types and titles
    Slot,       \* Slot[i]: the type and title of record i
    Splits,     \* records whose title, source or a tag holds a character that
                \* splitlines breaks at and json.dumps writes raw (U+2028)
    MaxCrashes, \* bound on calls that die or fail half-way
    MaxBreaks   \* bound on hand edits that corrupt a line

ASSUME MemoryAssumption ==
    /\ Writers \subseteq Procs
    /\ Slot \in [Ids -> Slots]
    /\ Splits \subseteq Ids
    /\ MaxCrashes \in Nat /\ MaxBreaks \in Nat

VARIABLES
    lines,      \* the records that memory.jsonl has a line for
    broken,     \* ids of the records whose line does not parse
    inbox,      \* inbox[i]: status of the candidate file of i, "none" if absent
    index,      \* the records in the memory_index table
    job,        \* job[p]: the call process p is executing
    owed,       \* ids submitted as candidates and not rejected (history)
    crashes, breaks

vars == <<lines, broken, inbox, index, job, owed, crashes, breaks>>
bounds == <<crashes, breaks>>

Status == {"active", "retired"}
Entry == [id: Ids, status: Status]
NoEntry == [id |-> "none", status |-> "none"]
Steps == {"idle", "check", "write", "scan", "commit", "unlink"}

\* A call: its next step, the record it writes, whether that record is a
\* candidate being accepted, and the parsed file it decided on.
Job == [at: Steps, entry: Entry \cup {NoEntry}, accept: BOOLEAN,
        seen: SUBSET Entry]
Idle == [at |-> "idle", entry |-> NoEntry, accept |-> FALSE, seen |-> {}]

TypeOK ==
    /\ lines \subseteq Entry
    /\ broken \subseteq Ids
    /\ inbox \in [Ids -> Status \cup {"none"}]
    /\ index \subseteq Entry
    /\ job \in [Procs -> Job]
    /\ owed \subseteq Ids
    /\ crashes \in 0..MaxCrashes /\ breaks \in 0..MaxBreaks

Init ==
    /\ lines = {} /\ broken = {} /\ index = {}
    /\ inbox = [i \in Ids |-> "none"]
    /\ job = [p \in Procs |-> Idle]
    /\ owed = {}
    /\ crashes = 0 /\ breaks = 0

Goto(p, step) == job' = [job EXCEPT ![p].at = step]

Parsed == {l \in lines : l.id \notin broken}    \* _parse_jsonl
Duplicate(e, L) ==
    \E l \in L : \/ l.id = e.id
                 \/ l.status = "active" /\ Slot[l.id] = Slot[e.id]
UncheckedFile(e) == Duplicate(e, Parsed)   \* seeded fault: bad lines are skipped
Refused(e) == broken # {} \/ Duplicate(e, Parsed)
Unparsable(L) == Splits \cap {l.id : l \in L}  \* what to_json_line cannot carry
-----------------------------------------------------------------------------
(* The calls.                                                              *)

\* record_candidate: the file is replaced atomically, also by a resubmission.
Submit(p) ==
    /\ job[p].at = "idle"
    /\ \E i \in Ids, s \in Status :
          /\ inbox' = [inbox EXCEPT ![i] = s]
          /\ owed' = owed \cup {i}
    /\ UNCHANGED <<lines, broken, index, job, bounds>>

BeginRecord(p) ==
    /\ p \in Writers /\ job[p].at = "idle"
    /\ \E e \in Entry :
          job' = [job EXCEPT ![p] = [at |-> "check", entry |-> e,
                                     accept |-> FALSE, seen |-> {}]]
    /\ UNCHANGED <<lines, broken, inbox, index, owed, bounds>>

\* Seeded fault: the file is removed first.
UnlinkFirst(p) ==
    /\ p \in Writers /\ job[p].at = "idle"
    /\ \E i \in Ids :
          /\ inbox[i] # "none"
          /\ inbox' = [inbox EXCEPT ![i] = "none"]
          /\ job' = [job EXCEPT ![p] =
                        [at |-> "check", entry |-> [id |-> i, status |-> inbox[i]],
                         accept |-> FALSE, seen |-> {}]]
    /\ UNCHANGED <<lines, broken, index, owed, bounds>>

\* accept_candidate reads the candidate file, then calls record with it.
BeginAccept(p) ==
    /\ p \in Writers /\ job[p].at = "idle"
    /\ \E i \in Ids :
          /\ inbox[i] # "none"
          /\ job' = [job EXCEPT ![p] =
                        [at |-> "check", entry |-> [id |-> i, status |-> inbox[i]],
                         accept |-> TRUE, seen |-> {}]]
    /\ UNCHANGED <<lines, broken, inbox, index, owed, bounds>>

\* record parses the file and refuses an invalid file or a duplicate; a
\* refused candidate is unlinked before the error is raised again.
Check(p) ==
    /\ job[p].at = "check"
    /\ IF ~Refused(job[p].entry)
       THEN job' = [job EXCEPT ![p].at = "write", ![p].seen = Parsed]
       ELSE IF job[p].accept THEN Goto(p, "unlink")
       ELSE job' = [job EXCEPT ![p] = Idle]
    /\ UNCHANGED <<lines, broken, inbox, index, owed, bounds>>

\* Seeded faults: the line is appended to whatever the file holds by now; the
\* index is built from the lines read before the write.
AppendingWrite(p) ==
    /\ job[p].at = "write"
    /\ lines' = lines \cup {job[p].entry}
    /\ Goto(p, "scan")
    /\ UNCHANGED <<broken, inbox, index, owed, bounds>>

\* The whole file is replaced by the records parsed before, plus the new one,
\* each on a line that a reader may split again.
Write(p) ==
    /\ job[p].at = "write"
    /\ lines' = job[p].seen \cup {job[p].entry}
    /\ broken' = Unparsable(lines')
    /\ Goto(p, "scan")
    /\ UNCHANGED <<inbox, index, owed, bounds>>

\* aios memory reindex
Reindex(p) ==
    /\ job[p].at = "idle"
    /\ job' = [job EXCEPT ![p] = [Idle EXCEPT !.at = "scan"]]
    /\ UNCHANGED <<lines, broken, inbox, index, owed, bounds>>

\* A search changes nothing unless it finds an empty index beside a file.
Search(p) ==
    /\ job[p].at = "idle"
    /\ index = {} /\ lines # {}
    /\ job' = [job EXCEPT ![p] = [Idle EXCEPT !.at = "scan"]]
    /\ UNCHANGED <<lines, broken, inbox, index, owed, bounds>>

\* reindex, as a call of its own and as the end of record: it parses the file,
Scan(p) ==
    /\ job[p].at = "scan"
    /\ job' = [job EXCEPT ![p].at = "commit", ![p].seen = Parsed]
    /\ UNCHANGED <<lines, broken, inbox, index, owed, bounds>>

\* and replaces the table in one transaction.
Commit(p) ==
    /\ job[p].at = "commit"
    /\ index' = job[p].seen
    /\ IF job[p].accept THEN Goto(p, "unlink")
       ELSE job' = [job EXCEPT ![p] = Idle]
    /\ UNCHANGED <<lines, broken, inbox, owed, bounds>>

\* path.unlink(missing_ok=True), after a merge and after a refusal.
Unlink(p) ==
    /\ job[p].at = "unlink"
    /\ inbox' = [inbox EXCEPT ![job[p].entry.id] = "none"]
    /\ job' = [job EXCEPT ![p] = Idle]
    /\ UNCHANGED <<lines, broken, index, owed, bounds>>

Reject(p) ==
    /\ p \in Writers /\ job[p].at = "idle"
    /\ \E i \in Ids :
          /\ inbox[i] # "none"
          /\ inbox' = [inbox EXCEPT ![i] = "none"]
          /\ owed' = owed \ {i}
    /\ UNCHANGED <<lines, broken, index, job, bounds>>

\* The call ends at any step with something else than a MemoryStoreError: the
\* process is killed, the disk is full, the database is locked.
Fail(p) ==
    /\ job[p].at # "idle" /\ crashes < MaxCrashes
    /\ job' = [job EXCEPT ![p] = Idle]
    /\ crashes' = crashes + 1
    /\ UNCHANGED <<lines, broken, inbox, index, owed, breaks>>
-----------------------------------------------------------------------------
(* The main session edits the file by hand, between its own calls: it      *)
(* supersedes a record, corrupts a line (a bad edit or Git merge), fixes it.*)

Quiet == \A p \in Writers : job[p].at = "idle"

RetireByHand ==
    /\ Quiet
    /\ \E l \in Parsed :
          /\ l.status = "active"
          /\ lines' = (lines \ {l}) \cup {[l EXCEPT !.status = "retired"]}
    /\ UNCHANGED <<broken, inbox, index, job, owed, bounds>>

BreakByHand ==
    /\ Quiet /\ breaks < MaxBreaks
    /\ \E l \in Parsed : broken' = broken \cup {l.id}
    /\ breaks' = breaks + 1
    /\ UNCHANGED <<lines, inbox, index, job, owed, crashes>>

RepairByHand ==
    /\ Quiet /\ broken # {}
    /\ broken' = {}
    /\ UNCHANGED <<lines, inbox, index, job, owed, bounds>>

Call(p) == \/ Submit(p) \/ BeginRecord(p) \/ BeginAccept(p) \/ Check(p)
           \/ Write(p) \/ Reindex(p) \/ Search(p) \/ Scan(p) \/ Commit(p)
           \/ Unlink(p) \/ Reject(p) \/ Fail(p)

Next == (\E p \in Procs : Call(p)) \/ RetireByHand \/ BreakByHand \/ RepairByHand

Spec == Init /\ [][Next]_vars
-----------------------------------------------------------------------------
(* Properties                                                              *)

\* No id has two lines and no type and title has two active records, however
\* many writers race: each writes a file it has checked as a whole, whatever
\* the others wrote meanwhile (record, memory.py 96-155).
Unique(L) ==
    \A a, b \in L :
        a # b => /\ a.id # b.id
                 /\ a.status = "active" /\ b.status = "active"
                        => Slot[a.id] # Slot[b.id]
NoDuplicates == Unique(lines)

\* While record calls take turns (the single-writer rule) the file implements
\* an append-only log: a record that is in it, even one whose line is corrupt,
\* is never lost to a later rewrite of the whole file, a crash or a failed call
\* (record's refusal of an invalid file is what this rests on).
Log == INSTANCE MemoryLog WITH log <- lines
ImplementsMemoryLog == Log!Spec

\* A candidate that was submitted and not rejected is still in the inbox, or
\* the file has a record of its type and title: accept may die anywhere and be
\* repeated without losing it (accept_candidate's docstring).
Covered(i) == \E l \in lines : Slot[l.id] = Slot[i]
CandidatesKept ==
    \A i \in owed : inbox[i] # "none" \/ Covered(i)

\* The same, as far as it is true: while no line of the file is corrupt.
KeptWhileIntact == breaks = 0 => CandidatesKept

\* While record calls take turns, a search never finds a record the file does
\* not have, even when an old reindex commits last.
Known(S) == \A x \in S : \E l \in lines : l.id = x.id
IndexKnown == Known(index)

\* While record calls take turns, the index holds all that parses of the file
\* at the moment record has rebuilt it, so that its caller finds the new record.
RecordIndexes ==
    [][\A p \in Procs :
          job[p].at = "commit" /\ job[p].entry # NoEntry /\ job'[p].at # "commit"
              /\ crashes' = crashes
          => index' = Parsed' /\ job[p].entry \in lines']_vars
=============================================================================
