------------------------- MODULE HostProgramsProofs --------------------------
(***************************************************************************)
(* Proofs about three programs of the host that keep a file.  MemoryStore, *)
(* for all processes, writers, records and bounds; the theorems that need  *)
(* record calls to take turns, or an intact file, have it as a hypothesis. *)
(* RuntimeDatabase, in which commands replace the runtime's file under     *)
(* each other's feet, for any processes.  HermesAdapter, whose history     *)
(* file holds what was answered, for any number of requests.               *)
(***************************************************************************)
EXTENDS MemoryStore, RuntimeDatabase, HermesAdapter, TLAPS

-----------------------------------------------------------------------------
(* MemoryStore                                                             *)

\* Of the calls that have a record in hand (record, accept) there is one at a
\* time, whichever sessions make them; reindex, search and submit are free.
RecordsInTurn ==
    \A p, q \in Procs : job[p].entry # NoEntry /\ job[q].entry # NoEntry => p = q

\* Only a main session executes record, and it does so with a real record.
JobOK(p, j) ==
    /\ j.at \in {"check", "write", "unlink"} => p \in Writers /\ j.entry \in Entry
    /\ j.accept => j.at # "idle" /\ p \in Writers /\ j.entry \in Entry
    /\ j.entry # NoEntry => p \in Writers /\ j.entry \in Entry /\ j.at # "idle"
JobsOK == \A p \in Procs : JobOK(p, job[p])

\* A file about to be written has been checked as a whole.
SnapshotsChecked ==
    \A p \in Procs : job[p].at = "write" =>
        Unique(job[p].seen) /\ ~Duplicate(job[p].entry, job[p].seen)

\* Records in turn: what record remembers of the file is the file.
RecordsCurrent ==
    \A p \in Procs :
        LET j == job[p] IN
        /\ j.at = "write" => j.seen = lines /\ broken = {}
        /\ j.at = "scan" /\ j.entry # NoEntry => j.entry \in lines
        /\ j.at = "commit" /\ j.entry # NoEntry => j.seen = Parsed /\ j.entry \in lines

SnapshotsKnown == \A p \in Procs : job[p].at = "commit" => Known(job[p].seen)

\* An intact file: a candidate about to be unlinked is covered by the file.
UnlinksCovered ==
    /\ broken = {}
    /\ \A p \in Procs : job[p].at = "unlink" => Covered(job[p].entry.id)

Typed == TypeOK /\ JobsOK
Checked == Typed /\ NoDuplicates /\ SnapshotsChecked
Tracked == Typed /\ RecordsCurrent /\ SnapshotsKnown /\ IndexKnown
Kept == Tracked /\ (breaks = 0 => UnlinksCovered /\ CandidatesKept)
-----------------------------------------------------------------------------

\* The mark for no record is not a record.
LEMMA NoEntryIsNone == NoEntry \notin Entry
  BY DEF NoEntry, Entry, Status

\* A process without a call is typed.
LEMMA IdleOK == /\ Idle \in Job
                /\ \A p \in Procs : JobOK(p, Idle)
  BY NoEntryIsNone DEF Idle, Job, JobOK, Steps

\* A call at step "at" writing e from snapshot S: when that is a good job.
LEMMA MakeJob ==
  ASSUME NEW p \in Procs, NEW step \in Steps, step # "idle", NEW e \in Entry,
         p \in Writers, NEW b \in BOOLEAN, NEW S \in SUBSET Entry,
         NEW j, j = [at |-> step, entry |-> e, accept |-> b, seen |-> S]
  PROVE  j \in Job /\ JobOK(p, j)
  BY DEF Job, JobOK

\* A call only ever replaces its own job.
LEMMA JobSet ==
  ASSUME Typed, NEW p \in Procs, NEW j \in Job, JobOK(p, j),
         job' = [job EXCEPT ![p] = j]
  PROVE  job' \in [Procs -> Job] /\ JobsOK'
<1>1. job \in [Procs -> Job] /\ JobsOK
  BY DEF Typed, TypeOK
<1>2. \A q \in Procs : job'[q] = IF q = p THEN j ELSE job[q]
  BY <1>1
<1> QED
  BY <1>1, <1>2 DEF JobsOK

\* Moving a job to another step, possibly with a new snapshot.
LEMMA JobMove ==
  ASSUME Typed, NEW p \in Procs, NEW step \in Steps \ {"idle"},
         NEW S \in SUBSET Entry,
         \/ step \in {"scan", "commit"} /\ job[p].at # "idle"
         \/ p \in Writers /\ job[p].entry \in Entry,
         \/ job' = [job EXCEPT ![p].at = step, ![p].seen = S]
         \/ job' = [job EXCEPT ![p].at = step]
  PROVE  job' \in [Procs -> Job] /\ JobsOK'
<1> DEFINE j == job'[p]
<1>1. job \in [Procs -> Job] /\ JobOK(p, job[p])
  BY DEF Typed, TypeOK, JobsOK
<1>2. job' = [job EXCEPT ![p] = j] /\ j.at = step /\ j.entry = job[p].entry
  BY <1>1 DEF Job
<1>3. j \in Job /\ (j.accept = job[p].accept)
  BY <1>1 DEF Job
<1>4. JobOK(p, j)
  BY <1>1, <1>2, <1>3 DEF JobOK
<1> QED
  BY <1>2, <1>3, <1>4, JobSet

\* What the file parses to are records.
LEMMA ParsedEntries == Typed => Parsed \in SUBSET Entry
  BY DEF Typed, TypeOK, Parsed

\* Every step keeps the types, and each call at a step of its kind.
LEMMA TypedInductive == Typed /\ [Next]_vars => Typed'
<1> SUFFICES ASSUME Typed, [Next]_vars PROVE Typed'
  OBVIOUS
<1> DEFINE Rest == /\ lines \subseteq Entry /\ broken \subseteq Ids
                   /\ inbox \in [Ids -> Status \cup {"none"}]
                   /\ index \subseteq Entry /\ owed \subseteq Ids
                   /\ crashes \in 0..MaxCrashes /\ breaks \in 0..MaxBreaks
           Jobs == job \in [Procs -> Job] /\ JobsOK
<1>a. Rest /\ Jobs
  BY DEF Typed, TypeOK
<1>b. Jobs' /\ Rest' => Typed'
  BY DEF Typed, TypeOK
<1>c. Parsed \in SUBSET Entry
  BY ParsedEntries
<1>d. Jobs /\ job' = job => Jobs'
  BY DEF JobsOK
<1>e. ASSUME NEW p \in Procs, NEW j \in Job, JobOK(p, j), job' = [job EXCEPT ![p] = j]
      PROVE  Jobs'
  BY <1>e, JobSet
<1> HIDE DEF Jobs
<1>1. ASSUME NEW p \in Procs, Submit(p) PROVE Typed'
  BY <1>1, <1>a, <1>b, <1>d DEF Submit, bounds
<1>2. ASSUME NEW p \in Procs, BeginRecord(p) PROVE Typed'
  <2>1. PICK e \in Entry :
          job' = [job EXCEPT ![p] = [at |-> "check", entry |-> e,
                                     accept |-> FALSE, seen |-> {}]]
    BY <1>2 DEF BeginRecord
  <2> DEFINE j == [at |-> "check", entry |-> e, accept |-> FALSE, seen |-> {}]
  <2>2. j \in Job /\ JobOK(p, j)
    BY <1>2, MakeJob DEF BeginRecord, Steps
  <2>3. Jobs'
    BY <1>e, <2>1, <2>2
  <2> QED
    BY <1>2, <1>a, <1>b, <2>3 DEF BeginRecord, bounds
<1>3. ASSUME NEW p \in Procs, BeginAccept(p) PROVE Typed'
  <2>1. PICK i \in Ids :
          /\ inbox[i] # "none"
          /\ job' = [job EXCEPT ![p] =
                        [at |-> "check", entry |-> [id |-> i, status |-> inbox[i]],
                         accept |-> TRUE, seen |-> {}]]
    BY <1>3 DEF BeginAccept
  <2> DEFINE e == [id |-> i, status |-> inbox[i]]
             j == [at |-> "check", entry |-> e, accept |-> TRUE, seen |-> {}]
  <2>2. e \in Entry
    BY <1>a, <2>1 DEF Entry
  <2>3. j \in Job /\ JobOK(p, j)
    BY <1>3, <2>2, MakeJob DEF BeginAccept, Steps
  <2>4. Jobs'
    BY <1>e, <2>1, <2>3
  <2> QED
    BY <1>3, <1>a, <1>b, <2>4 DEF BeginAccept, bounds
<1>4. ASSUME NEW p \in Procs, Check(p) PROVE Typed'
  <2>1. p \in Writers /\ job[p].entry \in Entry
    BY <1>4, <1>a DEF Check, Jobs, JobsOK, JobOK
  <2>2. Jobs'
    <3>1. CASE job' = [job EXCEPT ![p].at = "write", ![p].seen = Parsed]
      BY <1>c, <2>1, <3>1, JobMove DEF Jobs, Steps
    <3>2. CASE Goto(p, "unlink")
      BY <2>1, <3>2, JobMove DEF Goto, Jobs, Steps
    <3>3. CASE job' = [job EXCEPT ![p] = Idle]
      BY <1>e, <3>3, IdleOK
    <3> QED
      BY <1>4, <3>1, <3>2, <3>3 DEF Check
  <2> QED
    BY <1>4, <1>a, <1>b, <2>2 DEF Check, bounds
<1>5. ASSUME NEW p \in Procs, Write(p) PROVE Typed'
  <2>1. p \in Writers /\ job[p].entry \in Entry /\ job[p].seen \subseteq Entry
    BY <1>5, <1>a DEF Write, Jobs, JobsOK, JobOK, Job
  <2>2. Jobs'
    BY <1>5, <2>1, JobMove DEF Write, Goto, Jobs, Steps
  <2> QED
    BY <1>5, <1>a, <1>b, <2>1, <2>2, MemoryAssumption DEF Write, Unparsable, bounds
<1>6. ASSUME NEW p \in Procs, Reindex(p) \/ Search(p) PROVE Typed'
  <2>1. [Idle EXCEPT !.at = "scan"] \in Job /\ JobOK(p, [Idle EXCEPT !.at = "scan"])
    BY NoEntryIsNone DEF Idle, Job, JobOK, Steps
  <2>2. Jobs'
    BY <1>6, <1>e, <2>1 DEF Reindex, Search
  <2> QED
    BY <1>6, <1>a, <1>b, <2>2 DEF Reindex, Search, bounds
<1>7. ASSUME NEW p \in Procs, Scan(p) PROVE Typed'
  <2>1. Jobs'
    BY <1>7, <1>c, JobMove DEF Scan, Jobs, Steps
  <2> QED
    BY <1>7, <1>a, <1>b, <2>1 DEF Scan, bounds
<1>8. ASSUME NEW p \in Procs, Commit(p) PROVE Typed'
  <2>1. job[p].seen \subseteq Entry
    BY <1>a DEF Jobs, Job
  <2>2. Jobs'
    <3>1. CASE job[p].accept
      <4>1. p \in Writers /\ job[p].entry \in Entry
        BY <1>a, <3>1 DEF Jobs, JobsOK, JobOK
      <4> QED
        BY <1>8, <3>1, <4>1, JobMove DEF Commit, Goto, Jobs, Steps
    <3>2. CASE ~job[p].accept
      BY <1>8, <1>e, <3>2, IdleOK DEF Commit
    <3> QED
      BY <3>1, <3>2
  <2> QED
    BY <1>8, <1>a, <1>b, <2>1, <2>2 DEF Commit, bounds
<1>9. ASSUME NEW p \in Procs, Unlink(p) PROVE Typed'
  <2>1. Jobs'
    BY <1>9, <1>e, IdleOK DEF Unlink
  <2> QED
    BY <1>9, <1>a, <1>b, <2>1 DEF Unlink, bounds
<1>10. ASSUME NEW p \in Procs, Reject(p) PROVE Typed'
  BY <1>10, <1>a, <1>b, <1>d DEF Reject, bounds
<1>11. ASSUME NEW p \in Procs, Fail(p) PROVE Typed'
  <2>1. Jobs'
    BY <1>11, <1>e, IdleOK DEF Fail
  <2> QED
    BY <1>11, <1>a, <1>b, <2>1, MemoryAssumption DEF Fail
<1>12. CASE RetireByHand
  <2>1. PICK l \in Parsed :
          lines' = (lines \ {l}) \cup {[l EXCEPT !.status = "retired"]}
    BY <1>12 DEF RetireByHand
  <2>2. [l EXCEPT !.status = "retired"] \in Entry
    BY <1>c, <2>1 DEF Entry, Status
  <2> QED
    BY <1>12, <1>a, <1>b, <1>d, <2>1, <2>2 DEF RetireByHand, bounds
<1>13. CASE BreakByHand
  <2>1. broken' \subseteq Ids
    BY <1>13, <1>a, <1>c DEF BreakByHand, Entry
  <2> QED
    BY <1>13, <1>a, <1>b, <1>d, <2>1, MemoryAssumption DEF BreakByHand
<1>14. CASE RepairByHand
  BY <1>14, <1>a, <1>b, <1>d DEF RepairByHand, bounds
<1>15. CASE UNCHANGED vars
  BY <1>15, <1>a, <1>b, <1>d DEF vars
<1> QED
  BY <1>1, <1>2, <1>3, <1>4, <1>5, <1>6, <1>7, <1>8, <1>9, <1>10, <1>11, <1>12,
     <1>13, <1>14, <1>15 DEF Next, Call

\* The types hold at first.
LEMMA TypedInit == Init => Typed
  BY MemoryAssumption, IdleOK DEF Init, Typed, TypeOK, JobsOK, Status

\* Type correctness of the store, and: only a main session executes record.
THEOREM TypeCorrect == Spec => []TypeOK
<1>1. Typed => TypeOK
  BY DEF Typed
<1> QED
  BY <1>1, TypedInit, TypedInductive, PTL DEF Spec
-----------------------------------------------------------------------------
(* No duplicates, for any number of writers.                               *)

\* Adding a record nobody duplicates.
LEMMA UniqueAdd ==
  ASSUME NEW S \in SUBSET Entry, NEW e \in Entry, Unique(S), ~Duplicate(e, S)
  PROVE  Unique(S \cup {e})
  BY DEF Unique, Duplicate

\* Retiring a record makes no duplicate.
LEMMA UniqueRetire ==
  ASSUME NEW S \in SUBSET Entry, NEW l \in S, Unique(S)
  PROVE  Unique((S \ {l}) \cup {[l EXCEPT !.status = "retired"]})
<1> DEFINE r == [l EXCEPT !.status = "retired"]
<1>1. r.id = l.id /\ r.status # "active"
  BY DEF Entry
<1> QED
  BY <1>1 DEF Unique

\* The three ways a check ends.
LEMMA CheckEnds ==
  ASSUME Typed, NEW p \in Procs, Check(p)
  PROVE  \/ /\ ~Refused(job[p].entry)
            /\ job' = [job EXCEPT ![p] = [job[p] EXCEPT !.at = "write", !.seen = Parsed]]
         \/ /\ Refused(job[p].entry)
            /\ job' = [job EXCEPT ![p] = [job[p] EXCEPT !.at = "unlink"]]
         \/ job' = [job EXCEPT ![p] = Idle]
<1>1. job \in [Procs -> Job]
  BY DEF Typed, TypeOK
<1>2. CASE ~Refused(job[p].entry)
  BY <1>1, <1>2 DEF Check
<1>3. CASE Refused(job[p].entry) /\ Goto(p, "unlink")
  BY <1>1, <1>3 DEF Goto
<1>4. CASE job' = [job EXCEPT ![p] = Idle]
  BY <1>4
<1> QED
  BY <1>2, <1>3, <1>4 DEF Check

\* What every step does to a job that it changes.
JobStep(q) ==
    \/ job'[q].at \in {"idle", "check"}
    \/ job'[q].at = "scan" /\ job'[q].entry = NoEntry
    \/ /\ Check(q) /\ ~Refused(job[q].entry)
       /\ job'[q] = [job[q] EXCEPT !.at = "write", !.seen = Parsed]
    \/ /\ Check(q) /\ Refused(job[q].entry)
       /\ job'[q] = [job[q] EXCEPT !.at = "unlink"]
    \/ Write(q) /\ job'[q] = [job[q] EXCEPT !.at = "scan"]
    \/ Scan(q) /\ job'[q] = [job[q] EXCEPT !.at = "commit", !.seen = Parsed]
    \/ /\ Commit(q) /\ job[q].accept
       /\ job'[q] = [job[q] EXCEPT !.at = "unlink"]

\* A step is one of one process, and leaves the calls of the others alone.
LEMMA JobSteps ==
  ASSUME Typed, [Next]_vars, NEW q \in Procs, job'[q] # job[q]
  PROVE  JobStep(q)
<1>1. job \in [Procs -> Job]
  BY DEF Typed, TypeOK
<1>2. PICK p \in Procs : Call(p)
  <2>1. CASE RetireByHand \/ BreakByHand \/ RepairByHand \/ UNCHANGED vars
    BY <2>1 DEF RetireByHand, BreakByHand, RepairByHand, vars
  <2> QED
    BY <2>1 DEF Next
<1>3. CASE Submit(p) \/ Reject(p)
  BY <1>3 DEF Submit, Reject
<1>4. CASE BeginRecord(p) \/ BeginAccept(p)
  BY <1>1, <1>4 DEF BeginRecord, BeginAccept, JobStep
<1>5. CASE Write(p)
  BY <1>1, <1>5 DEF Write, Goto, JobStep
<1>6. CASE Scan(p)
  BY <1>1, <1>6 DEF Scan, JobStep
<1>7. CASE Reindex(p) \/ Search(p)
  BY <1>1, <1>7 DEF Reindex, Search, Idle, JobStep
<1>8. CASE job' = [job EXCEPT ![p] = Idle]
  BY <1>1, <1>8 DEF Idle, JobStep
<1>9. CASE Commit(p) /\ job[p].accept /\ Goto(p, "unlink")
  BY <1>1, <1>9 DEF Goto, JobStep
<1>10. CASE Check(p)
  <2>1. CASE /\ ~Refused(job[p].entry)
             /\ job' = [job EXCEPT ![p] = [job[p] EXCEPT !.at = "write", !.seen = Parsed]]
    BY <1>1, <1>10, <2>1 DEF JobStep
  <2>2. CASE /\ Refused(job[p].entry)
             /\ job' = [job EXCEPT ![p] = [job[p] EXCEPT !.at = "unlink"]]
    BY <1>1, <1>10, <2>2 DEF JobStep
  <2> QED
    BY <1>8, <1>10, <2>1, <2>2, CheckEnds
<1> QED
  BY <1>2, <1>3, <1>4, <1>5, <1>6, <1>7, <1>8, <1>9, <1>10
  DEF Call, Commit, Unlink, Fail

\* A call comes to its write only by its duplicate check.
LEMMA OnlyCheckStartsWrites ==
  ASSUME Typed, [Next]_vars, NEW q \in Procs, job'[q].at = "write",
         job'[q] # job[q]
  PROVE  Check(q)
<1>1. job[q] \in Job
  BY DEF Typed, TypeOK
<1> QED
  BY <1>1, JobSteps DEF JobStep, Job

\* What every step does to the file.
LEMMA FileSteps ==
  ASSUME Typed, [Next]_vars
  PROVE  \/ UNCHANGED <<lines, broken>>
         \/ \E p \in Procs : Write(p)
         \/ Quiet /\ UNCHANGED job /\ (RetireByHand \/ UNCHANGED lines)
  BY DEF Next, Call, vars, Submit, BeginRecord, BeginAccept, Check, Reindex, Search,
         Scan, Commit, Unlink, Reject, Fail, RetireByHand, BreakByHand, RepairByHand

\* No step makes a duplicate of what a writer is about to write.
LEMMA CheckedInductive == Checked /\ [Next]_vars => Checked'
<1> SUFFICES ASSUME Checked, [Next]_vars PROVE Checked'
  OBVIOUS
<1>1. Typed /\ Typed'
  BY TypedInductive DEF Checked
<1>2. NoDuplicates'
  <2>1. CASE UNCHANGED lines
    BY <2>1 DEF Checked, NoDuplicates, Unique
  <2>2. ASSUME NEW p \in Procs, Write(p) PROVE NoDuplicates'
    <3>1. job[p].entry \in Entry /\ job[p].seen \in SUBSET Entry
      BY <1>1, <2>2 DEF Write, Typed, TypeOK, JobsOK, JobOK, Job
    <3>2. Unique(job[p].seen) /\ ~Duplicate(job[p].entry, job[p].seen)
      BY <2>2 DEF Write, Checked, SnapshotsChecked
    <3>3. Unique(job[p].seen \cup {job[p].entry})
      BY <3>1, <3>2, UniqueAdd
    <3> QED
      BY <2>2, <3>3 DEF Write, NoDuplicates, Unique
  <2>3. CASE RetireByHand
    <3>1. PICK l \in lines :
            lines' = (lines \ {l}) \cup {[l EXCEPT !.status = "retired"]}
      BY <2>3 DEF RetireByHand, Parsed
    <3>2. Unique((lines \ {l}) \cup {[l EXCEPT !.status = "retired"]})
      BY <1>1, UniqueRetire DEF Checked, NoDuplicates, Typed, TypeOK
    <3> QED
      BY <3>1, <3>2 DEF NoDuplicates, Unique
  <2> QED
    BY <1>1, <2>1, <2>2, <2>3, FileSteps
<1>3. SnapshotsChecked'
  <2> SUFFICES ASSUME NEW q \in Procs, job'[q].at = "write"
               PROVE  Unique(job'[q].seen) /\ ~Duplicate(job'[q].entry, job'[q].seen)
    BY DEF SnapshotsChecked, Unique, Duplicate
  <2>1. CASE job'[q] = job[q]
    BY <2>1 DEF Checked, SnapshotsChecked
  <2>2. CASE Check(q)
    <3>1. job \in [Procs -> Job]
      BY <1>1 DEF Typed, TypeOK
    <3>2. /\ ~Refused(job[q].entry)
          /\ job' = [job EXCEPT ![q] = [job[q] EXCEPT !.at = "write", !.seen = Parsed]]
      <4>1. Idle.at # "write"
        BY DEF Idle
      <4>2. [job[q] EXCEPT !.at = "unlink"].at # "write"
        BY <3>1 DEF Job
      <4> QED
        BY <1>1, <2>2, <3>1, <4>1, <4>2, CheckEnds
    <3>4. job'[q].seen = Parsed /\ job'[q].entry = job[q].entry
      BY <3>1, <3>2 DEF Job
    <3>3. Unique(Parsed)
      BY DEF Checked, NoDuplicates, Unique, Parsed
    <3> QED
      BY <3>2, <3>3, <3>4 DEF Refused
  <2> QED
    BY <1>1, <2>1, <2>2, OnlyCheckStartsWrites
<1> QED
  BY <1>1, <1>2, <1>3 DEF Checked

\* No id has two lines and no type and title two active records, for any
\* number of main sessions that race, crash or edit the file by hand.
THEOREM NoDuplicateRecords == Spec => []NoDuplicates
<1>1. Init => Checked
  BY TypedInit DEF Init, Checked, NoDuplicates, SnapshotsChecked, Unique, Idle
<1>2. Checked => NoDuplicates
  BY DEF Checked
<1> QED
  BY <1>1, <1>2, CheckedInductive, PTL DEF Spec
-----------------------------------------------------------------------------
(* Records in turn: the file is an append-only log, the index follows it.  *)

\* The rule of the kernel, one main session, is one way to take turns.
LEMMA OneSessionTakesTurns ==
  ASSUME \A p, q \in Writers : p = q PROVE Spec => []RecordsInTurn
<1>1. Typed => RecordsInTurn
  BY DEF Typed, JobsOK, JobOK, RecordsInTurn
<1> QED
  BY <1>1, TypedInit, TypedInductive, PTL DEF Spec

\* When records take turns, a write starts from the current, intact file.
LEMMA WritesExtend ==
  ASSUME Tracked, NEW p \in Procs, Write(p)
  PROVE  lines' = lines \cup {job[p].entry}
  BY DEF Tracked, RecordsCurrent, Write

\* Every record keeps its line, whoever acts.
LEMMA LinesStay ==
  ASSUME Tracked, [Next]_vars, NEW l \in lines
  PROVE  \E m \in lines' : m.id = l.id
<1>1. Typed
  BY DEF Tracked
<1>2. CASE UNCHANGED lines
  BY <1>2
<1>3. ASSUME NEW p \in Procs, Write(p) PROVE \E m \in lines' : m.id = l.id
  BY <1>3, WritesExtend
<1>4. CASE RetireByHand
  <2>1. PICK k \in lines :
          lines' = (lines \ {k}) \cup {[k EXCEPT !.status = "retired"]}
    BY <1>4 DEF RetireByHand, Parsed
  <2>2. [k EXCEPT !.status = "retired"].id = k.id
    BY <1>1 DEF Typed, TypeOK, Entry
  <2> QED
    BY <2>1, <2>2
<1> QED
  BY <1>1, <1>2, <1>3, <1>4, FileSteps

\* While a call has a record in hand nobody else, and no hand edit, touches the
\* file.
LEMMA FileHeld ==
  ASSUME RecordsInTurn, Typed, [Next]_vars, NEW q \in Procs,
         job[q].at \in {"check", "write", "unlink"} \/ job[q].entry # NoEntry,
         ~Write(q)
  PROVE  UNCHANGED <<lines, broken>>
<1>1. JobOK(q, job[q])
  BY DEF Typed, JobsOK
<1>2. q \in Writers /\ job[q].at # "idle" /\ job[q].entry # NoEntry
  BY <1>1, NoEntryIsNone DEF JobOK
<1>3. ~Quiet
  BY <1>2 DEF Quiet
<1>4. ASSUME NEW p \in Procs, Write(p) PROVE job[p].entry # NoEntry
  BY <1>4, NoEntryIsNone DEF Typed, JobsOK, JobOK, Write
<1> QED
  BY <1>2, <1>3, <1>4, FileSteps DEF RecordsInTurn

\* When records take turns, what one has parsed stays what the file says.
LEMMA TrackedInductive ==
  ASSUME RecordsInTurn, Tracked, [Next]_vars
  PROVE  Tracked'
<1>1. Typed /\ Typed'
  BY TypedInductive DEF Tracked
<1>2. RecordsCurrent'
  <2> SUFFICES ASSUME NEW q \in Procs
               PROVE  LET j == job'[q] IN
                 /\ j.at = "write" => j.seen = lines' /\ broken' = {}
                 /\ j.at = "scan" /\ j.entry # NoEntry => j.entry \in lines'
                 /\ j.at = "commit" /\ j.entry # NoEntry
                       => j.seen = Parsed' /\ j.entry \in lines'
    BY DEF RecordsCurrent
  <2>0. job[q] \in Job
    BY <1>1 DEF Typed, TypeOK
  <2>1. /\ job[q].at = "write" => job[q].seen = lines /\ broken = {}
        /\ job[q].at = "scan" /\ job[q].entry # NoEntry => job[q].entry \in lines
        /\ job[q].at = "commit" /\ job[q].entry # NoEntry
              => job[q].seen = Parsed /\ job[q].entry \in lines
    BY DEF Tracked, RecordsCurrent
  <2>2. CASE job'[q] = job[q]
    <3>1. ~Write(q)
      BY <1>1, <2>0, <2>2 DEF Write, Goto, Typed, TypeOK, Job
    <3>2. CASE job[q].at = "write" \/ job[q].entry # NoEntry
      BY <1>1, <2>1, <2>2, <3>1, <3>2, FileHeld DEF Parsed
    <3> QED
      BY <2>2, <3>2
  <2>3. CASE job'[q] # job[q]
    <3>1. CASE Check(q) /\ ~Refused(job[q].entry)
               /\ job'[q] = [job[q] EXCEPT !.at = "write", !.seen = Parsed]
      <4>1. broken = {} /\ Parsed = lines
        BY <3>1 DEF Refused, Parsed
      <4> QED
        BY <2>0, <3>1, <4>1 DEF Check, Job
    <3>2. CASE Write(q) /\ job'[q] = [job[q] EXCEPT !.at = "scan"]
      BY <2>0, <3>2 DEF Write, Job
    <3>3. CASE Scan(q) /\ job'[q] = [job[q] EXCEPT !.at = "commit", !.seen = Parsed]
      <4>1. /\ job'[q].at = "commit" /\ job'[q].seen = Parsed
            /\ job'[q].entry = job[q].entry
        BY <2>0, <3>3 DEF Job
      <4>2. job[q].at = "scan" /\ lines' = lines /\ Parsed' = Parsed
        BY <3>3 DEF Scan, Parsed
      <4> QED
        BY <2>1, <4>1, <4>2
    <3>4. CASE \/ job'[q].at \notin {"write", "scan", "commit"}
               \/ job'[q].at = "scan" /\ job'[q].entry = NoEntry
      BY <3>4
    <3> QED
      BY <1>1, <2>0, <2>3, <3>1, <3>2, <3>3, <3>4, JobSteps DEF JobStep, Job
  <2> QED
    BY <2>2, <2>3
<1>3. ASSUME NEW S \in SUBSET Entry, Known(S) PROVE Known(S)'
  BY <1>3, LinesStay DEF Known
<1>4. SnapshotsKnown'
  <2> SUFFICES ASSUME NEW q \in Procs, job'[q].at = "commit"
               PROVE  \A x \in job'[q].seen : \E m \in lines' : m.id = x.id
    BY DEF SnapshotsKnown, Known
  <2>1. job[q] \in Job
    BY <1>1 DEF Typed, TypeOK
  <2>2. CASE job'[q] = job[q]
    <3>1. Known(job[q].seen) /\ job[q].seen \in SUBSET Entry
      BY <2>1, <2>2 DEF Tracked, SnapshotsKnown, Job
    <3> QED
      BY <2>2, <3>1, LinesStay DEF Known
  <2>3. CASE job'[q] # job[q]
    <3>1. Scan(q) /\ job'[q] = [job[q] EXCEPT !.at = "commit", !.seen = Parsed]
      BY <1>1, <2>1, <2>3, JobSteps DEF JobStep, Job
    <3>2. job'[q].seen = Parsed /\ UNCHANGED lines
      BY <2>1, <3>1 DEF Scan, Job
    <3> QED
      BY <3>2 DEF Known, Parsed
  <2> QED
    BY <2>2, <2>3
<1>5. IndexKnown'
  <2>1. CASE UNCHANGED index
    BY <2>1, LinesStay DEF Tracked, IndexKnown, Known
  <2>2. ASSUME NEW p \in Procs, Commit(p) PROVE IndexKnown'
    <3>1. Known(job[p].seen)
      BY <2>2 DEF Commit, Tracked, SnapshotsKnown
    <3> QED
      BY <2>2, <3>1 DEF Commit, IndexKnown, Known
  <2>3. \/ UNCHANGED index
        \/ \E p \in Procs : Commit(p)
    BY DEF Next, Call, vars, Submit, BeginRecord, BeginAccept, Check, Write, Reindex,
           Search, Scan, Unlink, Reject, Fail, RetireByHand, BreakByHand, RepairByHand
  <2> QED
    BY <2>1, <2>2, <2>3
<1> QED
  BY <1>1, <1>2, <1>4, <1>5 DEF Tracked

\* At first nobody has parsed anything.
LEMMA TrackedInit == Init => Tracked
  BY TypedInit DEF Init, Tracked, RecordsCurrent, SnapshotsKnown, IndexKnown, Known, Idle

\* When records take turns, a search never finds a record the file lacks.
THEOREM IndexHasNoGhosts == Spec /\ []RecordsInTurn => []IndexKnown
<1>1. Tracked => IndexKnown
  BY DEF Tracked
<1>2. RecordsInTurn /\ Tracked /\ [Next]_vars => Tracked'
  BY TrackedInductive
<1> QED
  BY <1>1, <1>2, TrackedInit, PTL DEF Spec

\* When records take turns, a record that is returned has just been indexed.
THEOREM RecordsAreIndexed == Spec /\ []RecordsInTurn => RecordIndexes
<1> DEFINE Indexes ==
      \A p \in Procs :
          job[p].at = "commit" /\ job[p].entry # NoEntry /\ job'[p].at # "commit"
              /\ crashes' = crashes
          => index' = Parsed' /\ job[p].entry \in lines'
<1>1. ASSUME Tracked, [Next]_vars PROVE Indexes
  <2> SUFFICES ASSUME NEW p \in Procs, job[p].at = "commit", job[p].entry # NoEntry,
                      job'[p].at # "commit", crashes' = crashes
               PROVE  index' = Parsed' /\ job[p].entry \in lines'
    BY DEF Indexes
  <2>1. job \in [Procs -> Job] /\ crashes \in Nat
    BY <1>1, MemoryAssumption DEF Tracked, Typed, TypeOK
  <2>2. job[p].seen = Parsed /\ job[p].entry \in lines
    BY <1>1 DEF Tracked, RecordsCurrent
  <2>3. Commit(p)
    <3>1. PICK q \in Procs : Call(q)
      <4>1. CASE RetireByHand \/ BreakByHand \/ RepairByHand \/ UNCHANGED vars
        BY <4>1 DEF RetireByHand, BreakByHand, RepairByHand, vars
      <4> QED
        BY <1>1, <4>1 DEF Next
    <3>2. ASSUME q # p PROVE job'[p] = job[p]
      BY <2>1, <3>1, <3>2 DEF Call, Submit, BeginRecord, BeginAccept, Check, Write,
         Reindex, Search, Scan, Commit, Unlink, Reject, Fail, Goto
    <3>3. Call(p)
      BY <3>1, <3>2
    <3> QED
      BY <2>1, <3>3 DEF Call, Submit, BeginRecord, BeginAccept, Check, Write,
         Reindex, Search, Scan, Unlink, Reject, Fail
  <2> QED
    BY <2>2, <2>3 DEF Commit, Parsed
<1>2. RecordsInTurn /\ Tracked /\ [Next]_vars => Tracked'
  BY TrackedInductive
<1>3. Spec /\ []RecordsInTurn => [][Indexes]_vars
  BY <1>1, <1>2, TrackedInit, PTL DEF Spec
<1> QED
  BY <1>3 DEF RecordIndexes

\* When records take turns, the rewriting of the whole file implements an
\* append-only log without duplicates (MemoryLog).
THEOREM Implementation == Spec /\ []RecordsInTurn => ImplementsMemoryLog
<1> DEFINE Inv == Tracked /\ Checked
<1>1. Init => Inv /\ Log!Init
  BY TypedInit, TrackedInit
  DEF Init, Checked, NoDuplicates, SnapshotsChecked, Unique, Idle, Log!Init
<1>2. RecordsInTurn /\ Inv /\ [Next]_vars => Inv'
  BY TrackedInductive, CheckedInductive
<1>3. ASSUME Inv, [Next]_vars PROVE [Log!Add \/ Log!Retire]_lines
  <2>1. Typed
    BY <1>3 DEF Checked
  <2>2. ASSUME NEW p \in Procs, Write(p) PROVE Log!Add
    <3>1. job[p].entry \in Entry /\ job[p].seen = lines
      BY <1>3, <2>1, <2>2 DEF Write, Typed, JobsOK, JobOK, Tracked, RecordsCurrent
    <3>2. ~Duplicate(job[p].entry, lines)
      BY <1>3, <2>2, <3>1 DEF Write, Checked, SnapshotsChecked
    <3>3. lines' = lines \cup {job[p].entry}
      BY <1>3, <2>2, WritesExtend
    <3>4. PICK i \in Ids, s \in Status : job[p].entry = [id |-> i, status |-> s]
      BY <3>1 DEF Entry
    <3> QED
      BY <3>2, <3>3, <3>4 DEF Log!Add, Log!Clashes, Duplicate, Status
  <2>3. CASE RetireByHand
    BY <2>3 DEF RetireByHand, Parsed, Log!Retire
  <2> QED
    BY <1>3, <2>1, <2>2, <2>3, FileSteps
<1> QED
  BY <1>1, <1>2, <1>3, PTL DEF Spec, ImplementsMemoryLog, Log!Spec
-----------------------------------------------------------------------------
(* Records in turn and an intact file: no candidate is lost.               *)

\* A type and title that has a record keeps one.
LEMMA CoverStays ==
  ASSUME Tracked, [Next]_vars, NEW i \in Ids, Covered(i)
  PROVE  Covered(i)'
<1>1. PICK l \in lines : Slot[l.id] = Slot[i]
  BY DEF Covered
<1>2. PICK m \in lines' : m.id = l.id
  BY LinesStay
<1> QED
  BY <1>1, <1>2 DEF Covered

\* When records take turns, a candidate about to be unlinked stays covered.
LEMMA KeptInductive ==
  ASSUME Splits = {}, RecordsInTurn, Kept, [Next]_vars
  PROVE  Kept'
<1>1. Tracked /\ Tracked' /\ Typed
  BY TrackedInductive DEF Kept, Tracked
<1> SUFFICES ASSUME breaks' = 0 PROVE UnlinksCovered' /\ CandidatesKept'
  BY <1>1 DEF Kept
<1>a. breaks \in Nat
  BY <1>1, MemoryAssumption DEF Typed, TypeOK
<1>b. ~BreakByHand
  BY <1>a DEF BreakByHand
<1>c. breaks = 0
  BY <1>a, <1>b DEF Next, Call, vars, bounds, Submit, BeginRecord, BeginAccept, Check,
     Write, Reindex, Search, Scan, Commit, Unlink, Reject, Fail, RetireByHand,
     RepairByHand
<1>d. UnlinksCovered /\ CandidatesKept
  BY <1>c DEF Kept
<1>2. broken' = {}
  <2>1. \A L : Unparsable(L) = {}
    BY DEF Unparsable
  <2> QED
    BY <1>b, <1>d, <2>1 DEF UnlinksCovered, Next, Call, vars, Submit, BeginRecord,
       BeginAccept, Check, Write, Reindex, Search, Scan, Commit, Unlink, Reject, Fail,
       RetireByHand, RepairByHand
<1>3. ASSUME NEW q \in Procs, job'[q].at = "unlink"
      PROVE  \E l \in lines' : Slot[l.id] = Slot[job'[q].entry.id]
  <2>1. job[q] \in Job
    BY <1>1 DEF Typed, TypeOK
  <2>2. job'[q].entry = job[q].entry /\ job[q].entry \in Entry
    <3>1. CASE job'[q] = job[q]
      BY <1>1, <1>3, <3>1 DEF Typed, JobsOK, JobOK
    <3>2. CASE Check(q) /\ job'[q] = [job[q] EXCEPT !.at = "unlink"]
      BY <1>1, <2>1, <3>2 DEF Check, Typed, JobsOK, JobOK, Job
    <3>3. CASE job[q].accept /\ job'[q] = [job[q] EXCEPT !.at = "unlink"]
      BY <1>1, <2>1, <3>3 DEF Typed, JobsOK, JobOK, Job
    <3> QED
      BY <1>1, <1>3, <2>1, <3>1, <3>2, <3>3, JobSteps DEF JobStep, Job
  <2>3. job[q].entry.id \in Ids
    BY <2>2 DEF Entry
  <2>4. Covered(job[q].entry.id)
    <3>1. CASE job[q].at = "unlink"
      BY <1>d, <3>1 DEF UnlinksCovered
    <3>2. CASE Check(q) /\ Refused(job[q].entry)
      BY <1>d, <3>2 DEF UnlinksCovered, Refused, Duplicate, Covered, Parsed
    <3>3. CASE Commit(q) /\ job[q].accept
      <4>1. job[q].entry \in lines
        BY <1>1, <2>2, <3>3, NoEntryIsNone DEF Commit, Tracked, RecordsCurrent
      <4> QED
        BY <4>1 DEF Covered
    <3> QED
      BY <1>1, <1>3, <2>1, <3>1, <3>2, <3>3, JobSteps DEF JobStep, Job
  <2> QED
    BY <1>1, <2>2, <2>3, <2>4, CoverStays DEF Covered
<1>4. ASSUME NEW i \in owed' PROVE inbox'[i] # "none" \/ Covered(i)'
  <2>1. inbox \in [Ids -> Status \cup {"none"}] /\ owed \subseteq Ids
    BY <1>1 DEF Typed, TypeOK
  <2>2. ASSUME NEW p \in Procs, Submit(p) PROVE inbox'[i] # "none" \/ Covered(i)'
    <3>1. PICK k \in Ids, s \in Status :
            inbox' = [inbox EXCEPT ![k] = s] /\ owed' = owed \cup {k}
      BY <2>2 DEF Submit
    <3>2. CASE i = k
      BY <2>1, <3>1, <3>2 DEF Status
    <3>3. CASE i # k
      <4>1. inbox[i] # "none" \/ Covered(i)
        BY <1>4, <1>d, <3>1, <3>3 DEF CandidatesKept
      <4> QED
        BY <1>1, <1>4, <2>1, <3>1, <3>3, <4>1, CoverStays
    <3> QED
      BY <3>2, <3>3
  <2>3. ASSUME NEW p \in Procs, Unlink(p) PROVE inbox'[i] # "none" \/ Covered(i)'
    <3>1. Covered(job[p].entry.id) /\ i \in owed /\ i \in Ids
      BY <1>4, <1>d, <2>1, <2>3 DEF Unlink, UnlinksCovered
    <3>2. CASE i = job[p].entry.id
      BY <1>1, <3>1, <3>2, CoverStays
    <3>3. CASE i # job[p].entry.id
      <4>1. inbox'[i] = inbox[i]
        BY <2>1, <2>3, <3>1, <3>3 DEF Unlink
      <4> QED
        BY <1>1, <3>1, <4>1, <1>d, CoverStays DEF CandidatesKept
    <3> QED
      BY <3>2, <3>3
  <2>4. ASSUME NEW p \in Procs, Reject(p) PROVE inbox'[i] # "none" \/ Covered(i)'
    <3>1. PICK k \in Ids :
            inbox' = [inbox EXCEPT ![k] = "none"] /\ owed' = owed \ {k}
      BY <2>4 DEF Reject
    <3>2. i # k /\ i \in owed /\ i \in Ids
      BY <1>4, <2>1, <3>1
    <3>3. inbox'[i] = inbox[i]
      BY <2>1, <3>1, <3>2
    <3> QED
      BY <1>1, <3>2, <3>3, <1>d, CoverStays DEF CandidatesKept
  <2>5. CASE UNCHANGED <<inbox, owed>>
    <3>1. i \in Ids /\ (inbox[i] # "none" \/ Covered(i))
      BY <1>4, <1>d, <2>1, <2>5 DEF CandidatesKept
    <3> QED
      BY <1>1, <2>5, <3>1, CoverStays
  <2>6. \/ \E p \in Procs : Submit(p) \/ Unlink(p) \/ Reject(p)
        \/ UNCHANGED <<inbox, owed>>
    BY DEF Next, Call, vars, BeginRecord, BeginAccept, Check, Write, Reindex, Search,
       Scan, Commit, Fail, RetireByHand, BreakByHand, RepairByHand
  <2> QED
    BY <2>2, <2>3, <2>4, <2>5, <2>6
<1> QED
  BY <1>2, <1>3, <1>4 DEF UnlinksCovered, CandidatesKept, Covered

\* When records take turns and fit a line, no submitted candidate
\* is lost unless rejected while nobody has corrupted the file, wherever an
\* accept dies and however often it is repeated.
THEOREM NoCandidateLost ==
  ASSUME Splits = {} PROVE Spec /\ []RecordsInTurn => []KeptWhileIntact
<1>1. Init => Kept
  BY TrackedInit DEF Init, Kept, UnlinksCovered, CandidatesKept, Idle
<1>2. RecordsInTurn /\ Kept /\ [Next]_vars => Kept'
  BY KeptInductive
<1>3. Kept => KeptWhileIntact
  BY DEF Kept, KeptWhileIntact
<1> QED
  BY <1>1, <1>2, <1>3, PTL DEF Spec

-----------------------------------------------------------------------------
(* RuntimeDatabase                                                         *)

USE DatabaseAssumption

\* Who holds a connection has a file, and who is at work has been started.
Types ==
    /\ RuntimeTypeOK
    /\ \A p \in Commands : place[p] \in {"boot", "read", "apply"} => opened[p] \in 1..Len(files)
    /\ \A p \in Commands : place[p] # "idle" => ran > 0

\* Only the first file can be legacy.  It has no rows of the new runtime, and
\* nobody has opened it or is about to.
Untouched ==
    /\ \A n \in 1..Len(files) : files[n].schema = "legacy" => n = 1 /\ files[n].rows = {}
    /\ WasLegacy => \A p \in Commands :
          /\ opened[p] # 1
          /\ place[p] \in {"open", "boot", "read", "apply", "work"} => named # 1

\* Who is about to remove the legacy file has copied it, and has judged right
\* if sqlite could read what it judged.
Careful ==
    /\ WasLegacy => \A p \in Commands : place[p] = "unlink" => files[1] \in backups
    /\ misreads = 0 => \A p \in Commands :
          place[p] \in {"copy", "unlink"} /\ judged[p] # 0 => files[judged[p]].schema = "legacy"

RuntimeInvariant == Types /\ Untouched /\ Careful /\ LegacyKept

-----------------------------------------------------------------------------
(* What a step does to the files.                                          *)

\* Files are only added, keep their rows, and never become legacy; a legacy
\* one stays as it is.
Grown ==
    /\ files' \in Seq(File) /\ Len(files') \in Nat /\ Len(files) <= Len(files')
    /\ \A n \in 1..Len(files) :
          /\ files[n].rows \subseteq files'[n].rows
          /\ files[n].schema = "legacy" => files'[n] = files[n]
          /\ files'[n].schema = "legacy" => files[n].schema = "legacy"
    /\ \A n \in (Len(files) + 1)..Len(files') : files'[n] = NewFile

\* A step that leaves the files alone.
LEMMA SameGrown ==
  ASSUME Types, UNCHANGED files PROVE Grown
BY DEF Grown, Types, RuntimeTypeOK

\* A step that makes a new file (sqlite3.connect on a free name).
LEMMA AppendGrown ==
  ASSUME Types, files' = Append(files, NewFile) PROVE Grown /\ Len(files') = Len(files) + 1
<1>1. files \in Seq(File) /\ NewFile \in File
  BY DEF Types, RuntimeTypeOK, File, NewFile, Schemas
<1>2. files' \in Seq(File) /\ Len(files') = Len(files) + 1 /\ Len(files) \in Nat
      /\ files'[Len(files) + 1] = NewFile
      /\ \A n \in 1..Len(files) : files'[n] = files[n]
  BY <1>1
<1> QED BY <1>2 DEF Grown

\* A step that writes to a file that is not legacy.
LEMMA ChangeGrown ==
  ASSUME Types, NEW n \in 1..Len(files), NEW f \in File,
         files' = [files EXCEPT ![n] = f], files[n].rows \subseteq f.rows,
         files[n].schema # "legacy", f.schema # "legacy"
  PROVE  Grown /\ Len(files') = Len(files)
<1>1. files \in Seq(File)
  BY DEF Types, RuntimeTypeOK
<1>2. files' \in Seq(File) /\ Len(files') = Len(files) /\ Len(files) \in Nat
      /\ \A k \in 1..Len(files) : files'[k] = IF k = n THEN f ELSE files[k]
  BY <1>1
<1> QED BY <1>2 DEF Grown

\* The name stays with its file, goes, or goes to a new file.
Named ==
    /\ named' \in 0..Len(files')
    /\ named' \in {named, 0} \/ named' > Len(files)

\* Opening a free name makes the file and names it.
LEMMA OpenGrown ==
  ASSUME Types, named = 0, files' = Append(files, NewFile), named' = Len(files) + 1
  PROVE  Grown /\ Named
<1>1. Grown /\ Len(files') = Len(files) + 1
  BY AppendGrown
<1>2. Len(files) \in Nat
  BY DEF Types, RuntimeTypeOK
<1> QED BY <1>1, <1>2 DEF Named

\* Every step of every command lets the files grow and the name move as above.
LEMMA StepGrown ==
  ASSUME Types, Untouched, NEW p \in Commands, CommandStep(p)
  PROVE  Grown /\ Named
<1>t. named \in 0..Len(files) /\ Len(files) \in Nat /\ files \in Seq(File)
      /\ place[p] \in Places
  BY DEF Types, RuntimeTypeOK
<1>k. ASSUME UNCHANGED files, named' \in {named, 0} PROVE Grown /\ Named
  BY <1>t, <1>k, SameGrown DEF Named
<1>l. ASSUME NEW n \in 1..Len(files), files[n].schema = "legacy"
      PROVE  n = 1 /\ WasLegacy /\ opened[p] # n
  BY <1>l, <1>t DEF Untouched, WasLegacy
<1>1. CASE Starts(p) \/ Looks(p) \/ Judges(p) \/ Misreads(p) \/ CopiesFile(p) \/ Unlinks(p)
           \/ ReadsApplied(p) \/ Dies(p)
  BY <1>1, <1>k DEF Starts, Looks, Judges, Misreads, CopiesFile, Unlinks, ReadsApplied, Dies
<1>2. CASE Opens(p)
  <2>1. CASE named = 0
    BY <1>2, <2>1, OpenGrown DEF Opens, OpensFile
  <2>2. CASE named # 0
    BY <1>2, <2>2, <1>k DEF Opens, OpensFile
  <2> QED BY <2>1, <2>2
<1>3. CASE Boots(p)
  <2> DEFINE n == opened[p]
             f == [files[n] EXCEPT !.schema = IF @ = "empty" THEN "booted" ELSE @]
  <2>1. n \in 1..Len(files)
    BY <1>3 DEF Types, Boots
  <2>2. files[n] \in File /\ files[n].schema # "legacy"
    BY <2>1, <1>t, <1>l
  <2>3. f \in File /\ f.rows = files[n].rows /\ f.schema # "legacy"
    BY <2>2 DEF File, Schemas
  <2>4. files' = [files EXCEPT ![n] = f] /\ named' = named
    BY <1>3, <2>1, <1>t DEF Boots
  <2> HIDE DEF n, f
  <2>5. Grown /\ Len(files') = Len(files)
    BY <2>1, <2>2, <2>3, <2>4, ChangeGrown
  <2> QED BY <2>4, <2>5, <1>t DEF Named
<1>4. CASE Applies(p)
  <2>1. CASE files[opened[p]].schema = "current"
    BY <1>4, <2>1, <1>k DEF Applies
  <2>2. CASE files[opened[p]].schema # "current"
    <3> DEFINE n == opened[p]
               f == [files[n] EXCEPT !.schema = "current"]
    <3>1. n \in 1..Len(files)
      BY <1>4 DEF Types, Applies
    <3>2. files[n] \in File /\ files[n].schema # "legacy"
      BY <3>1, <1>t, <1>l
    <3>3. f \in File /\ f.rows = files[n].rows /\ f.schema # "legacy"
      BY <3>2 DEF File, Schemas
    <3>4. files' = [files EXCEPT ![n] = f] /\ named' = named
      BY <1>4, <2>2, <3>1, <1>t DEF Applies
    <3> HIDE DEF n, f
    <3>5. Grown /\ Len(files') = Len(files)
      BY <3>1, <3>2, <3>3, <3>4, ChangeGrown
    <3> QED BY <3>4, <3>5, <1>t DEF Named
  <2> QED BY <2>1, <2>2
<1>5. CASE Works(p)
  <2>1. CASE named # 0 /\ files[named].schema = "current"
    <3> DEFINE f == [files[named] EXCEPT !.rows = @ \cup {ran}]
    <3>1. named \in 1..Len(files)
      BY <2>1, <1>t
    <3>2. files[named] \in File
      BY <3>1, <1>t
    <3>3. ran \in Rows
      BY <1>5 DEF Works, Types, RuntimeTypeOK, Rows
    <3>4. f \in File /\ files[named].rows \subseteq f.rows /\ f.schema # "legacy"
      BY <2>1, <3>2, <3>3 DEF File
    <3>5. files' = [files EXCEPT ![named] = f] /\ named' = named
      BY <1>5, <2>1, <3>1, <1>t DEF Works
    <3> HIDE DEF f
    <3>6. Grown /\ Len(files') = Len(files)
      BY <2>1, <3>1, <3>4, <3>5, ChangeGrown
    <3> QED BY <3>5, <3>6, <1>t DEF Named
  <2>2. CASE named = 0
    BY <1>5, <2>2, OpenGrown DEF Works
  <2>3. CASE named # 0 /\ files[named].schema # "current"
    BY <1>5, <2>3, <1>k DEF Works
  <2> QED BY <2>1, <2>2, <2>3
<1> QED BY <1>1, <1>2, <1>3, <1>4, <1>5 DEF CommandStep

-----------------------------------------------------------------------------
(* Types.                                                                  *)

\* The types hold with no file, or with one of any schema.
THEOREM InitTypes == RuntimeInit => Types
<1> SUFFICES ASSUME RuntimeInit PROVE Types
  OBVIOUS
<1>1. files \in Seq(File) /\ named \in 0..Len(files)
  <2>1. CASE files = <<>> /\ named = 0
    BY <2>1
  <2>2. ASSUME NEW s \in Schemas, named = 1, files = <<[schema |-> s, rows |-> {}]>>
        PROVE  files \in Seq(File) /\ named \in 0..Len(files)
    <3>1. [schema |-> s, rows |-> {}] \in File
      BY <2>2 DEF File
    <3>2. Len(files) = 1
      BY <2>2
    <3> QED BY <2>2, <3>1, <3>2
  <2> QED BY <2>1, <2>2 DEF RuntimeInit
<1> QED BY <1>1 DEF RuntimeInit, Types, RuntimeTypeOK, Places

\* Every step of a command keeps the types.
LEMMA TypesKept ==
  ASSUME Types, Untouched, NEW p \in Commands, CommandStep(p)
  PROVE  Types'
<1>g. files' \in Seq(File) /\ Len(files') \in Nat /\ Len(files) <= Len(files')
      /\ named' \in 0..Len(files')
  BY StepGrown DEF Grown, Named
<1>t. /\ named \in 0..Len(files) /\ Len(files) \in Nat /\ files \in Seq(File)
      /\ backups \in SUBSET File /\ place \in [Commands -> Places]
      /\ judged \in [Commands -> 0..Len(files)] /\ opened \in [Commands -> 0..Len(files)]
      /\ ran \in 0..MaxCommands /\ misreads \in 0..MaxMisreads
  BY DEF Types, RuntimeTypeOK
<1>s. place' \in [Commands -> Places] /\ ran' \in 0..MaxCommands /\ misreads' \in 0..MaxMisreads
      /\ \A q \in Commands : place'[q] # "idle" => ran' > 0
  <2>1. PICK s \in Places : place' = [place EXCEPT ![p] = s]
    BY DEF CommandStep, Goes, Places, Starts, Looks, Judges, Misreads, CopiesFile,
       WithoutCopy, Unlinks, Opens, Boots, ReadsApplied, Applies, Works, Dies
  <2>2. ran' \in 0..MaxCommands /\ misreads' \in 0..MaxMisreads
        /\ ran <= ran' /\ (place[p] = "idle" => ran' > 0)
    BY <1>t DEF CommandStep, Starts, Looks, Judges, Misreads, CopiesFile, Unlinks, Opens, Boots,
       ReadsApplied, Applies, Works, Dies
  <2> QED BY <2>1, <2>2, <1>t DEF Types
<1>b. backups' \in SUBSET File
  <2>1. named # 0 => files[named] \in File
    BY <1>t
  <2> QED BY <1>t, <2>1 DEF CommandStep, Starts, Looks, Judges, Misreads, CopiesFile, Unlinks,
          Opens, Boots, ReadsApplied, Applies, Works, Dies
<1>j. judged' \in [Commands -> 0..Len(files')]
  <2>1. judged' = judged \/ \E n \in 0..Len(files) : judged' = [judged EXCEPT ![p] = n]
    BY <1>t DEF CommandStep, Starts, Looks, Judges, Misreads, CopiesFile, Unlinks, Opens, Boots,
       ReadsApplied, Applies, Works, Dies
  <2>2. judged' \in [Commands -> 0..Len(files)]
    BY <1>t, <2>1
  <2> QED BY <1>g, <1>t, <2>2
<1>o. /\ opened' \in [Commands -> 0..Len(files')]
      /\ \A q \in Commands :
            place'[q] \in {"boot", "read", "apply"} => opened'[q] \in 1..Len(files')
  <2>1. CASE Opens(p)
    <3>1. PICK n \in 1..Len(files') : opened' = [opened EXCEPT ![p] = n]
      <4>1. CASE named = 0
        <5>1. Len(files') = Len(files) + 1
          BY <2>1, <4>1, AppendGrown DEF Opens, OpensFile
        <5>2. opened' = [opened EXCEPT ![p] = Len(files')]
          BY <2>1, <4>1, <5>1 DEF Opens, OpensFile
        <5>3. Len(files') \in 1..Len(files')
          BY <5>1, <1>t
        <5> QED BY <5>2, <5>3
      <4>2. CASE named # 0
        BY <2>1, <4>2, <1>t, <1>g DEF Opens, OpensFile
      <4> QED BY <4>1, <4>2
    <3>2. \A q \in Commands \ {p} : place'[q] = place[q]
      BY <2>1, <1>t DEF Opens, Goes
    <3>3. opened \in [Commands -> 0..Len(files')]
      BY <1>t, <1>g
    <3> QED BY <3>1, <3>2, <3>3, <1>t, <1>g DEF Types
  <2>2. CASE ~Opens(p)
    <3>1. opened' = opened
      BY <2>2 DEF CommandStep, Starts, Looks, Judges, Misreads, CopiesFile, Unlinks, Boots,
         ReadsApplied, Applies, Works, Dies
    <3>2. \A q \in Commands : place'[q] \in {"boot", "read", "apply"}
                              => place[q] \in {"boot", "read", "apply"}
      BY <2>2, <1>t DEF CommandStep, Goes, Places, Starts, Looks, Judges, Misreads, CopiesFile,
         WithoutCopy, Unlinks, Boots, ReadsApplied, Applies, Works, Dies
    <3>3. opened \in [Commands -> 0..Len(files')]
      BY <1>t, <1>g
    <3> QED BY <3>1, <3>2, <3>3, <1>t, <1>g DEF Types
  <2> QED BY <2>1, <2>2
<1> QED BY <1>g, <1>s, <1>b, <1>j, <1>o DEF Types, RuntimeTypeOK

-----------------------------------------------------------------------------
(* The old runtime's data, and the rows registered.                        *)

\* The legacy file is the same one before and after a step.
LEMMA LegacyStays ==
  ASSUME Types, Untouched, NEW p \in Commands, CommandStep(p), WasLegacy'
  PROVE  /\ WasLegacy /\ files'[1] = files[1]
         /\ named' = 1 => named = 1
<1>g. Grown /\ Named
  BY StepGrown
<1>1. Len(files') > 0 /\ files'[1].schema = "legacy" /\ Len(files) \in Nat /\ Len(files') \in Nat
  BY <1>g DEF WasLegacy, Types, RuntimeTypeOK, Grown
<1>2. Len(files) > 0
  <2> SUFFICES ASSUME Len(files) = 0 PROVE FALSE
    BY <1>1
  <2>1. files'[1] = NewFile
    BY <1>1, <1>g DEF Grown
  <2> QED BY <1>1, <2>1 DEF NewFile
<1>3. files[1].schema = "legacy" /\ files'[1] = files[1]
  BY <1>1, <1>2, <1>g DEF Grown
<1> QED BY <1>1, <1>2, <1>3, <1>g DEF WasLegacy, Named

\* No step opens the legacy file, or makes another one.
LEMMA UntouchedKept ==
  ASSUME Types, Untouched, NEW p \in Commands, CommandStep(p)
  PROVE  Untouched'
<1>g. Grown /\ Named /\ Len(files) \in Nat
  BY StepGrown DEF Types, RuntimeTypeOK
<1>1. ASSUME NEW n \in 1..Len(files'), files'[n].schema = "legacy"
      PROVE  n = 1 /\ files'[n].rows = {}
  <2>1. n \in 1..Len(files)
    <3> SUFFICES ASSUME n > Len(files) PROVE FALSE
      BY <1>g DEF Grown
    <3>1. files'[n] = NewFile
      BY <1>g DEF Grown
    <3> QED BY <1>1, <3>1 DEF NewFile
  <2>2. files[n].schema = "legacy" /\ files'[n] = files[n]
    BY <1>1, <2>1, <1>g DEF Grown
  <2> QED BY <2>1, <2>2 DEF Untouched
<1>2. ASSUME WasLegacy', NEW q \in Commands
      PROVE  /\ opened'[q] # 1
             /\ place'[q] \in {"open", "boot", "read", "apply", "work"} => named' # 1
  <2>1. WasLegacy /\ (named' = 1 => named = 1)
    BY <1>2, LegacyStays
  <2>2. opened[q] # 1 /\ (place[q] \in {"open", "boot", "read", "apply", "work"} => named # 1)
    BY <2>1 DEF Untouched
  <2>3. named = 1 => IsLegacy(named)
    BY <2>1 DEF IsLegacy, WasLegacy
  <2>4. place \in [Commands -> Places] /\ opened \in [Commands -> 0..Len(files)] /\ Len(files) > 0
    BY <2>1 DEF Types, RuntimeTypeOK, WasLegacy
  <2>5. opened'[q] # 1
    BY <2>2, <2>1, <2>4, <1>g DEF Untouched, CommandStep, Starts, Looks, Judges, Misreads, CopiesFile, Unlinks,
       Opens, OpensFile, Boots, ReadsApplied, Applies, Works, Dies
  <2>6. ASSUME place'[q] \in {"open", "boot", "read", "apply", "work"}, named' = 1
        PROVE  FALSE
    BY <2>1, <2>2, <2>3, <2>4, <2>6 DEF CommandStep, Goes, Places, Starts, Looks, Judges, Misreads,
       CopiesFile, WithoutCopy, Unlinks, Opens, OpensFile, Boots, ReadsApplied, Applies, Works, Dies
  <2> QED BY <2>5, <2>6
<1> QED BY <1>1, <1>2 DEF Untouched

\* No step brings a command to the unlink without its copy (lines 148-159).
LEMMA CarefulKept ==
  ASSUME RuntimeInvariant, NEW p \in Commands, CommandStep(p)
  PROVE  Careful'
<1> USE DEF RuntimeInvariant
<1>g. Grown /\ Named
  BY StepGrown
<1>t. /\ place \in [Commands -> Places] /\ judged \in [Commands -> 0..Len(files)]
      /\ named \in 0..Len(files) /\ Len(files) \in Nat /\ misreads \in Nat
  BY DEF Types, RuntimeTypeOK
<1>1. ASSUME WasLegacy', NEW q \in Commands, place'[q] = "unlink"
      PROVE  files'[1] \in backups'
  <2>1. WasLegacy /\ files'[1] = files[1] /\ backups \subseteq backups'
    BY <1>1, LegacyStays DEF CommandStep, Starts, Looks, Judges, Misreads, CopiesFile, Unlinks,
       Opens, Boots, ReadsApplied, Applies, Works, Dies
  <2>2. CASE place[q] = "unlink"
    BY <2>1, <2>2 DEF Careful
  <2>3. CASE place[q] # "unlink"
    <3>1. named # 0 /\ backups' = backups \cup {files[named]}
      BY <1>1, <1>t, <2>3 DEF CommandStep, Goes, Starts, Looks, Judges, Misreads, CopiesFile,
         WithoutCopy, Unlinks, Opens, Boots, ReadsApplied, Applies, Works, Dies
    <3>2. named = 1 \/ files[1] \in backups
      BY <2>1 DEF LegacyKept
    <3> QED BY <2>1, <3>1, <3>2
  <2> QED BY <2>2, <2>3
<1>2. ASSUME misreads' = 0, NEW q \in Commands, place'[q] \in {"copy", "unlink"}, judged'[q] # 0
      PROVE  files'[judged'[q]].schema = "legacy"
  <2>1. misreads = 0
    BY <1>2, <1>t DEF CommandStep, Starts, Looks, Judges, Misreads, CopiesFile, Unlinks, Opens,
       Boots, ReadsApplied, Applies, Works, Dies
  <2>2. CASE place[q] \in {"copy", "unlink"} /\ judged'[q] = judged[q]
    <3>1. files[judged[q]].schema = "legacy" /\ judged[q] \in 1..Len(files)
      BY <1>2, <2>1, <2>2, <1>t DEF Careful
    <3> QED BY <2>2, <3>1, <1>g DEF Grown
  <2>3. CASE ~(place[q] \in {"copy", "unlink"} /\ judged'[q] = judged[q])
    <3>1. judged'[q] = named /\ IsLegacy(named)
      BY <1>2, <2>1, <2>3, <1>t DEF CommandStep, Goes, Starts, Looks, Judges, Misreads, CopiesFile,
         WithoutCopy, Unlinks, Opens, Boots, ReadsApplied, Applies, Works, Dies
    <3>2. named \in 1..Len(files) /\ files[named].schema = "legacy"
      BY <1>2, <3>1, <1>t DEF IsLegacy
    <3> QED BY <3>1, <3>2, <1>g DEF Grown
  <2> QED BY <2>2, <2>3
<1> QED BY <1>1, <1>2 DEF Careful

\* No step takes the name from the legacy file before there is a copy.
LEMMA LegacyKeptKept ==
  ASSUME RuntimeInvariant, NEW p \in Commands, CommandStep(p)
  PROVE  LegacyKept'
<1> SUFFICES ASSUME WasLegacy', named' # 1 PROVE files'[1] \in backups'
  BY DEF LegacyKept
<1> USE DEF RuntimeInvariant
<1>1. WasLegacy /\ files'[1] = files[1] /\ backups \subseteq backups'
  BY LegacyStays DEF CommandStep, Starts, Looks, Judges, Misreads, CopiesFile, Unlinks,
     Opens, Boots, ReadsApplied, Applies, Works, Dies
<1>2. CASE named # 1
  BY <1>1, <1>2 DEF LegacyKept
\* The name is taken away by one that has made its copy.
<1>3. CASE named = 1
  <2>1. place[p] = "unlink"
    BY <1>3 DEF CommandStep, Starts, Looks, Judges, Misreads, CopiesFile, Unlinks,
       Opens, OpensFile, Boots, ReadsApplied, Applies, Works, Dies
  <2> QED BY <1>1, <2>1 DEF Careful
<1> QED BY <1>2, <1>3

\* The invariant holds when no command of the new runtime has run.
THEOREM InitInvariant == RuntimeInit => RuntimeInvariant
<1> SUFFICES ASSUME RuntimeInit PROVE RuntimeInvariant
  OBVIOUS
<1>1. Types
  BY InitTypes
<1>2. \A n \in 1..Len(files) : n = 1 /\ files[n].rows = {}
  BY DEF RuntimeInit
<1>3. WasLegacy => named = 1
  BY DEF RuntimeInit, WasLegacy
<1> QED BY <1>1, <1>2, <1>3 DEF RuntimeInit, RuntimeInvariant, Untouched, Careful, LegacyKept

\* The invariant speaks of the variables of the database only.
LEMMA SameInvariant ==
  ASSUME RuntimeInvariant, UNCHANGED runtime PROVE RuntimeInvariant'
BY DEF runtime, RuntimeInvariant, Types, RuntimeTypeOK, Untouched, WasLegacy, Careful, LegacyKept

\* The invariant is inductive.
THEOREM InvariantHolds == RuntimeSpec => []RuntimeInvariant
<1>1. ASSUME RuntimeInvariant, [RuntimeNext]_runtime PROVE RuntimeInvariant'
  <2>1. ASSUME NEW p \in Commands, CommandStep(p) PROVE RuntimeInvariant'
    BY <1>1, <2>1, TypesKept, UntouchedKept, CarefulKept, LegacyKeptKept DEF RuntimeInvariant
  <2> QED BY <1>1, <2>1, SameInvariant DEF RuntimeNext
<1> QED BY <1>1, InitInvariant, PTL DEF RuntimeSpec

\* Type correctness of every process, file and copy.
THEOREM RuntimeTypeCorrect == RuntimeSpec => []RuntimeTypeOK
<1>1. RuntimeInvariant => RuntimeTypeOK
  BY DEF RuntimeInvariant, Types
<1> QED BY <1>1, InvariantHolds, PTL

\* The old runtime's data has its name or a copy, for any number of processes
\* that migrate, die and start again.
THEOREM LegacyIsKept == RuntimeSpec => []LegacyKept
<1>1. RuntimeInvariant => LegacyKept
  BY DEF RuntimeInvariant
<1> QED BY <1>1, InvariantHolds, PTL

\* What a command has registered stays, unless a file was misread or was
\* replaced between being judged and being removed.
THEOREM RowsStay == RuntimeSpec => RegisteredStays
<1> DEFINE Stay == Registered \subseteq Registered' \/ misreads > 0
                   \/ \E p \in Commands : place[p] = "unlink" /\ judged[p] # named
<1>1. ASSUME RuntimeInvariant, [RuntimeNext]_runtime PROVE [Stay]_runtime
  <2>1. ASSUME NEW p \in Commands, CommandStep(p) PROVE Stay
    <3> USE <1>1 DEF RuntimeInvariant
    <3>g. Grown /\ Named
      BY <2>1, StepGrown
    <3>t. /\ named \in 0..Len(files) /\ Len(files) \in Nat /\ misreads \in Nat
          /\ judged \in [Commands -> 0..Len(files)]
      BY DEF Types, RuntimeTypeOK
    <3>1. CASE named' = named
      BY <3>1, <3>g, <3>t DEF Registered, Grown
    <3>2. CASE named = 0
      BY <3>2 DEF Registered
    <3>3. CASE named' # named /\ named # 0
      <4>1. place[p] = "unlink"
        BY <2>1, <3>3 DEF CommandStep, Starts, Looks, Judges, Misreads, CopiesFile, Unlinks,
           Opens, OpensFile, Boots, ReadsApplied, Applies, Works, Dies
      <4>2. ASSUME misreads = 0, judged[p] = named PROVE files[named].rows = {}
        <5>1. files[named].schema = "legacy"
          BY <3>3, <4>1, <4>2 DEF Careful
        <5> QED BY <3>3, <3>t, <5>1 DEF Untouched
      <4> QED BY <3>3, <3>t, <4>1, <4>2 DEF Registered
    <3> QED BY <3>1, <3>2, <3>3
  <2> QED BY <1>1, <2>1 DEF RuntimeNext
<1> QED BY <1>1, InvariantHolds, PTL DEF RuntimeSpec, RegisteredStays

HIDE DatabaseAssumption

-----------------------------------------------------------------------------
(* HermesAdapter                                                           *)

\* The bounds are numbers, and the orchestrator is an agent.
LEMMA HermesBounds ==
    /\ Orchestrator \in Agents /\ Sends \cap Delegations = {} /\ NoTurn \notin Sends
    /\ MaxRounds \in Nat /\ MaxRounds # 0
    /\ MaxClears \in Nat /\ MaxUnsaved \in Nat /\ MaxRestarts \in Nat
BY HermesAssumption DEF HermesAssumption

\* What has been told of a turn is told at its end, only a turn that is over
\* has been kept and only with an event, and no turn holds a list of the future.
EndsAtEnd ==
    \A t \in Turns : /\ told[t] # "nothing" => turn[t].at = "over"
                     /\ turn[t].kept => told[t] # "nothing"
                     /\ turn[t].begun <= age[turn[t].agent]

\* Without a failed save and without a timer the file is as the lists.
FileIsCurrent == gap = "none" /\ ~due => saved = history

HermesInvariant == HermesTypeOK /\ EndsAtEnd /\ FileIsCurrent /\ HistoryIsWhatWasAnswered

-----------------------------------------------------------------------------

\* The empty list has no turn, and none twice.
LEMMA EmptyList == Range(<<>>) = {} /\ IsInjective(<<>>)
BY DEF Range, IsInjective

\* Appending a turn that is not in a list adds it once.
LEMMA AppendedOnce ==
  ASSUME NEW S, NEW s \in Seq(S), NEW t \in S, IsInjective(s), t \notin Range(s)
  PROVE  Range(Append(s, t)) = Range(s) \cup {t} /\ IsInjective(Append(s, t))
<1> DEFINE u == Append(s, t)
<1>1. /\ Len(s) \in Nat /\ DOMAIN s = 1..Len(s) /\ DOMAIN u = 1..(Len(s) + 1)
      /\ \A i \in 1..Len(s) : u[i] = s[i]
      /\ u[Len(s) + 1] = t
  OBVIOUS
<1>2. Range(u) = Range(s) \cup {t}
  BY <1>1 DEF Range
<1>3. \A i \in 1..Len(s) : u[i] # t
  BY <1>1 DEF Range
<1>4. IsInjective(u)
  BY <1>1, <1>3 DEF IsInjective
<1> QED BY <1>2, <1>4

\* A call that was not made yet is a turn.
LEMMA UnsentIsTurn == Unsent \in Turn
BY HermesBounds DEF Unsent, Turn

\* At first nothing was asked, and the file is empty.
LEMMA HermesInitially == HermesInit => HermesInvariant
<1> SUFFICES ASSUME HermesInit PROVE HermesInvariant
  OBVIOUS
<1>1. HermesTypeOK
  <2>2. history \in [Agents -> Seq(Turns)] /\ saved \in [Agents -> Seq(Turns)]
    BY DEF HermesInit, NoHistory
  <2>3. continuity \in [Agents -> BOOLEAN] /\ due \in BOOLEAN
    BY DEF HermesInit
  <2>4. registry \in [Agents -> {"absent", "present", "gone"}] /\ registry[Orchestrator] = "present"
    BY HermesBounds DEF HermesInit
  <2>5. age \in [Agents -> 0..MaxClears] /\ unsaved \in 0..MaxUnsaved /\ restarts \in 0..MaxRestarts
    BY HermesBounds DEF HermesInit
  <2>6. /\ turn \in [Turns -> Turn] /\ told \in [Turns -> {"nothing", "final", "error", "aborted"}]
        /\ awaiting \in [Sends -> SUBSET Delegations]
        /\ activeRuns \in [RunIds -> Sends \cup {NoTurn}]
        /\ gap \in {"none", "unsaved", "lost"}
    BY UnsentIsTurn DEF HermesInit
  <2> QED BY <2>2, <2>3, <2>4, <2>5, <2>6 DEF HermesTypeOK
<1>2. EndsAtEnd /\ FileIsCurrent
  BY HermesBounds DEF HermesInit, EndsAtEnd, FileIsCurrent, Unsent
<1>3. HistoryIsWhatWasAnswered
  BY EmptyList DEF HermesInit, HistoryIsWhatWasAnswered, AnsweredSinceCleared, NoHistory
<1> QED BY <1>1, <1>2, <1>3 DEF HermesInvariant

-----------------------------------------------------------------------------
(* Types.                                                                  *)

\* What the end of a turn finds about continuity is a truth value.
LEMMA KeepsIsBoolean == ASSUME NEW t PROVE Keeps(t) \in BOOLEAN
BY DEF Keeps

\* A turn that goes on to s, and one that ends, is a turn still.
LEMMA TurnGoesOn ==
  ASSUME HermesTypeOK, NEW t \in Turns,
         NEW s \in {"asking", "tools", "over", "hung", "lost"}, NEW k \in BOOLEAN
  PROVE  /\ [turn EXCEPT ![t].at = s] \in [Turns -> Turn]
         /\ [turn EXCEPT ![t].at = s, ![t].kept = k] \in [Turns -> Turn]
<1> DEFINE r == turn[t]
<1>1. turn \in [Turns -> Turn] /\ r \in Turn
  BY DEF HermesTypeOK
<1>2. [r EXCEPT !.at = s] \in Turn
  BY <1>1 DEF Turn
<1>3. [r EXCEPT !.at = s, !.kept = k] \in Turn
  BY <1>1 DEF Turn
<1> QED BY <1>1, <1>2, <1>3

\* The turn that begins holds the list of its agent.
LEMMA BegunIsTurn ==
  ASSUME HermesTypeOK, NEW t \in Turns, NEW a \in Agents
  PROVE  Begun(t, a) \in Turn /\ Begun(t, a).kept = turn[t].kept
<1>1. ASSUME NEW r \in Turn, NEW b \in BOOLEAN, NEW g \in 0..MaxClears
      PROVE  [r EXCEPT !.at = "asking", !.agent = a, !.begun = g, !.bound = b, !.rounds = 1] \in Turn
  <2>1. 1 \in 0..MaxRounds
    BY HermesBounds
  <2> DEFINE q == [r EXCEPT !.at = "asking", !.agent = a, !.begun = g]
  <2>2. q \in Turn
    BY <1>1 DEF Turn
  <2>3. ASSUME NEW p \in Turn PROVE [p EXCEPT !.bound = b, !.rounds = 1] \in Turn
    BY <1>1, <2>1 DEF Turn
  <2> QED BY <2>2, <2>3
<1>2. turn[t] \in Turn /\ age[a] \in 0..MaxClears /\ (registry[a] = "present") \in BOOLEAN
  BY DEF HermesTypeOK
<1>3. Begun(t, a) \in Turn
  BY <1>1, <1>2 DEF Begun
<1>4. Begun(t, a).kept = turn[t].kept
  BY <1>2 DEF Begun, Turn
<1> QED BY <1>3, <1>4

\* Clearing keeps the lists lists.
LEMMA ClearsType ==
  ASSUME HermesTypeOK, NEW a \in Agents, Clears(a)
  PROVE  /\ history' \in [Agents -> Seq(Turns)] /\ age' \in [Agents -> 0..MaxClears]
         /\ due' \in BOOLEAN
BY HermesBounds DEF HermesTypeOK, Clears

\* Joining, being configured, being dismissed and being reset keep the team
\* one with its orchestrator, and the lists lists.
LEMMA TeamTyped ==
  ASSUME HermesTypeOK, NEW a \in Agents, NEW c \in BOOLEAN,
         Joins(a, c) \/ Configures(a, c) \/ Leaves(a) \/ Resets(a)
  PROVE  /\ registry' \in [Agents -> {"absent", "present", "gone"}]
         /\ registry'[Orchestrator] = "present"
         /\ continuity' \in [Agents -> BOOLEAN]
         /\ history' \in [Agents -> Seq(Turns)] /\ age' \in [Agents -> 0..MaxClears]
         /\ due' \in BOOLEAN
<1>1. CASE Joins(a, c)
  <2>1. continuity' \in [Agents -> BOOLEAN]
    BY <1>1 DEF HermesTypeOK, Joins
  <2> QED BY <1>1, <2>1, HermesBounds DEF HermesTypeOK, Joins, lists
<1>2. CASE Configures(a, c)
  <2>1. continuity' \in [Agents -> BOOLEAN]
    BY <1>2 DEF HermesTypeOK, Configures
  <2> QED BY <1>2, <2>1, HermesBounds DEF HermesTypeOK, Configures, lists
<1>3. CASE Leaves(a)
  BY <1>3, ClearsType, HermesBounds DEF HermesTypeOK, Leaves
<1>4. CASE Resets(a)
  BY <1>4, ClearsType DEF HermesTypeOK, Resets, team
<1> QED BY <1>1, <1>2, <1>3, <1>4

\* Appending keeps the lists lists.
LEMMA AppendedType ==
  ASSUME HermesTypeOK, NEW t \in Turns
  PROVE  Appended(t) \in [Agents -> Seq(Turns)]
BY DEF HermesTypeOK, Turn, Appended

-----------------------------------------------------------------------------
(* What a step does to the sessions.                                       *)

\* The turns that were told and kept stay, with their agent and their list.
SameAnswers ==
    \A t \in Turns :
        /\ told'[t] # "nothing" /\ turn'[t].kept <=> told[t] # "nothing" /\ turn[t].kept
        /\ told[t] # "nothing" /\ turn[t].kept =>
              turn'[t].agent = turn[t].agent /\ turn'[t].begun = turn[t].begun

\* Where neither the lists nor the answered turns change, the lists are still
\* those of the answered turns.
LEMMA StillAnswered ==
  ASSUME HistoryIsWhatWasAnswered, SameAnswers, UNCHANGED <<history, age>>,
         gap' # "lost" => gap # "lost"
  PROVE  HistoryIsWhatWasAnswered'
<1> SUFFICES ASSUME gap' # "lost", NEW a \in Agents
             PROVE  Range(history'[a]) = AnsweredSinceCleared(a)' /\ IsInjective(history'[a])
  BY DEF HistoryIsWhatWasAnswered
<1>1. AnsweredSinceCleared(a)' = AnsweredSinceCleared(a)
  BY DEF SameAnswers, AnsweredSinceCleared
<1> QED BY <1>1 DEF HistoryIsWhatWasAnswered

\* Clearing a session begins an age in which no turn was answered yet.
LEMMA ClearedAnswers ==
  ASSUME HermesInvariant, NEW a \in Agents, Clears(a), SameAnswers, gap' = gap
  PROVE  HistoryIsWhatWasAnswered'
<1> SUFFICES ASSUME gap # "lost", NEW b \in Agents
             PROVE  Range(history'[b]) = AnsweredSinceCleared(b)' /\ IsInjective(history'[b])
  BY DEF HistoryIsWhatWasAnswered
<1>t. age \in [Agents -> 0..MaxClears] /\ history \in [Agents -> Seq(Turns)]
  BY DEF HermesInvariant, HermesTypeOK
<1>1. CASE b = a
  <2>1. history'[b] = <<>> /\ age'[b] = age[b] + 1
    BY <1>1, <1>t DEF Clears
  <2>2. \A t \in Turns : turn[t].agent = b => turn[t].begun # age[b] + 1
    BY <1>t, HermesBounds DEF HermesInvariant, HermesTypeOK, EndsAtEnd, Turn
  <2>3. AnsweredSinceCleared(b)' = {}
    BY <2>1, <2>2 DEF AnsweredSinceCleared, SameAnswers
  <2> QED BY <2>1, <2>3, EmptyList
<1>2. CASE b # a
  <2>1. history'[b] = history[b] /\ age'[b] = age[b]
    BY <1>2, <1>t DEF Clears
  <2>2. AnsweredSinceCleared(b)' = AnsweredSinceCleared(b)
    BY <2>1 DEF AnsweredSinceCleared, SameAnswers
  <2> QED BY <2>1, <2>2 DEF HermesInvariant, HistoryIsWhatWasAnswered
<1> QED BY <1>1, <1>2

\* The end of a turn t with an answer: the list has the turn once more exactly
\* if it is kept and the list is the one it holds.
TurnEnds(t, e) ==
    /\ turn[t].at \in {"asking", "tools"}
    /\ turn' = [turn EXCEPT ![t].at = "over", ![t].kept = Keeps(t)]
    /\ history' = IF Keeps(t) THEN Appended(t) ELSE history
    /\ due' = (due \/ Keeps(t))
    /\ told' = [told EXCEPT ![t] = e]
    /\ UNCHANGED <<team, age, awaiting, disk>>

\* What the end of a turn leaves of the turn and of the answers.
LEMMA EndedAnswers ==
  ASSUME HermesInvariant, NEW t \in Turns, NEW e \in {"final", "error", "aborted"}, TurnEnds(t, e)
  PROVE  HistoryIsWhatWasAnswered'
<1> SUFFICES ASSUME gap # "lost", NEW b \in Agents
             PROVE  Range(history'[b]) = AnsweredSinceCleared(b)' /\ IsInjective(history'[b])
  BY DEF HistoryIsWhatWasAnswered, TurnEnds, disk
<1> DEFINE a == turn[t].agent
<1>t. /\ turn \in [Turns -> Turn] /\ history \in [Agents -> Seq(Turns)] /\ a \in Agents
      /\ told \in [Turns -> {"nothing", "final", "error", "aborted"}]
  BY DEF HermesInvariant, HermesTypeOK, Turn
<1>1. told[t] = "nothing" /\ ~turn[t].kept
  BY DEF HermesInvariant, EndsAtEnd, TurnEnds
<1>2. Range(history[b]) = AnsweredSinceCleared(b) /\ IsInjective(history[b])
  BY DEF HermesInvariant, HistoryIsWhatWasAnswered
<1>3. /\ turn'[t].kept = Keeps(t) /\ turn'[t].agent = a /\ turn'[t].begun = turn[t].begun
      /\ told'[t] # "nothing"
      /\ \A u \in Turns \ {t} : turn'[u] = turn[u] /\ told'[u] = told[u]
  BY <1>t DEF TurnEnds, Turn
<1>4. age' = age /\ t \notin AnsweredSinceCleared(b)
  BY <1>1 DEF TurnEnds, AnsweredSinceCleared
<1>5. CASE Keeps(t) /\ b = a /\ turn[t].begun = age[a]
  <2>1. history'[b] = Append(history[b], t)
    BY <1>5, <1>t DEF TurnEnds, Appended
  <2>2. AnsweredSinceCleared(b)' = AnsweredSinceCleared(b) \cup {t}
    BY <1>3, <1>4, <1>5 DEF AnsweredSinceCleared
  <2>3. history[b] \in Seq(Turns)
    BY <1>t
  <2> QED BY <2>1, <2>2, <2>3, <1>2, <1>4, AppendedOnce
<1>6. CASE ~(Keeps(t) /\ b = a /\ turn[t].begun = age[a])
  <2>1. history'[b] = history[b]
    BY <1>6, <1>t DEF TurnEnds, Appended
  <2>2. AnsweredSinceCleared(b)' = AnsweredSinceCleared(b)
    BY <1>1, <1>3, <1>4, <1>6 DEF AnsweredSinceCleared
  <2> QED BY <2>1, <2>2, <1>2
<1> QED BY <1>5, <1>6

\* The end of a turn, of a run or of a delegation, keeps the invariant.
LEMMA EndKeeps ==
  ASSUME HermesInvariant, NEW t \in Turns, NEW e \in {"final", "error", "aborted"}, TurnEnds(t, e),
         activeRuns' \in [RunIds -> Sends \cup {NoTurn}]
  PROVE  HermesInvariant'
<1>t. /\ HermesTypeOK /\ turn \in [Turns -> Turn]
      /\ told \in [Turns -> {"nothing", "final", "error", "aborted"}]
  BY DEF HermesInvariant, HermesTypeOK
<1>1. HermesTypeOK'
  <2>1. turn' \in [Turns -> Turn]
    BY <1>t, KeepsIsBoolean, TurnGoesOn DEF TurnEnds
  <2>2. history' \in [Agents -> Seq(Turns)]
    BY <1>t, AppendedType DEF TurnEnds, HermesTypeOK
  <2>3. due' \in BOOLEAN
    BY <1>t, KeepsIsBoolean DEF TurnEnds, HermesTypeOK
  <2>4. told' \in [Turns -> {"nothing", "final", "error", "aborted"}]
    BY <1>t DEF TurnEnds
  <2> QED BY <1>t, <2>1, <2>2, <2>3, <2>4 DEF TurnEnds, HermesTypeOK, team, disk
<1>2. EndsAtEnd'
  BY <1>t DEF HermesInvariant, EndsAtEnd, TurnEnds, Turn
<1>3. FileIsCurrent'
  BY DEF HermesInvariant, FileIsCurrent, TurnEnds, disk
<1> QED BY <1>1, <1>2, <1>3, EndedAnswers DEF HermesInvariant

-----------------------------------------------------------------------------
(* Every step keeps the invariant.                                         *)

\* What an office asks of the team.
LEMMA TeamKeeps ==
  ASSUME HermesInvariant, TeamChanges PROVE HermesInvariant'
<1>1. PICK a \in Agents : Joins(a, TRUE) \/ Leaves(a) \/ Resets(a)
  BY DEF TeamChanges
<1>2. UNCHANGED <<calls, disk>> /\ HermesTypeOK
  BY DEF TeamChanges, HermesInvariant
<1>3. HermesTypeOK'
  <2>1. TRUE \in BOOLEAN
    OBVIOUS
  <2> QED BY <1>1, <1>2, <2>1, TeamTyped DEF HermesTypeOK, calls, disk
<1>4. SameAnswers
  BY <1>2 DEF SameAnswers, calls
<1>5. CASE Joins(a, TRUE)
  <2>1. EndsAtEnd' /\ FileIsCurrent'
    BY <1>2, <1>5 DEF HermesInvariant, EndsAtEnd, FileIsCurrent, Joins, lists, calls, disk
  <2>2. HistoryIsWhatWasAnswered'
    BY <1>2, <1>4, <1>5, StillAnswered DEF HermesInvariant, Joins, lists, disk
  <2> QED BY <1>3, <2>1, <2>2 DEF HermesInvariant
<1>6. CASE Leaves(a) \/ Resets(a)
  <2>1. Clears(a)
    BY <1>6 DEF Leaves, Resets
  <2>2. EndsAtEnd'
    BY <1>2, <2>1, HermesBounds DEF HermesInvariant, HermesTypeOK, EndsAtEnd, Clears, calls, Turn
  <2>3. FileIsCurrent'
    BY <2>1 DEF FileIsCurrent, Clears
  <2>4. HistoryIsWhatWasAnswered'
    BY <1>2, <1>4, <2>1, ClearedAnswers DEF disk
  <2> QED BY <1>3, <2>2, <2>3, <2>4 DEF HermesInvariant
<1> QED BY <1>1, <1>5, <1>6

\* A run is accepted, and begins.
LEMMA AcceptKeeps ==
  ASSUME HermesInvariant, NEW s \in Sends,
         (\E k \in RunIds, a \in Agents : Accepts(s, k, a)) \/ Begins(s)
  PROVE  HermesInvariant'
<1>t. HermesTypeOK /\ turn \in [Turns -> Turn] /\ s \in Turns /\ age \in [Agents -> 0..MaxClears]
  BY DEF HermesInvariant, HermesTypeOK, Turns
<1>1. ASSUME NEW k \in RunIds, NEW a \in Agents, Accepts(s, k, a)
      PROVE  HermesInvariant'
  <2> DEFINE r == [Unsent EXCEPT !.at = "accepted", !.agent = a, !.id = k]
  <2>1. /\ r \in Turn /\ r.at = "accepted" /\ r.kept = FALSE /\ r.begun = 0 /\ r.agent = a
    <3>1. r \in Turn
      BY UnsentIsTurn DEF Turn
    <3>2. r.at = "accepted" /\ r.kept = FALSE /\ r.begun = 0 /\ r.agent = a
      BY DEF Unsent
    <3> QED BY <3>1, <3>2
  <2>2. turn' = [turn EXCEPT ![s] = r] /\ turn[s].at = "unsent"
    BY <1>1 DEF Accepts
  <2> HIDE DEF r
  <2>3. HermesTypeOK'
    <3>1. turn' \in [Turns -> Turn]
      BY <1>t, <2>1, <2>2
    <3>2. activeRuns' \in [RunIds -> Sends \cup {NoTurn}]
      BY <1>1, <1>t DEF Accepts, HermesTypeOK
    <3> QED BY <1>1, <1>t, <3>1, <3>2 DEF Accepts, HermesTypeOK, team, lists, disk
  <2>4. told' = told /\ told[s] = "nothing"
    BY <1>1, <2>2, <1>t DEF Accepts, HermesInvariant, EndsAtEnd
  <2>5. EndsAtEnd'
    <3>1. age' = age /\ 0 <= age[a]
      <4>1. age' = age
        BY <1>1 DEF Accepts, lists
      <4>2. age[a] \in 0..MaxClears
        BY <1>t
      <4> QED BY <4>1, <4>2, HermesBounds
    <3>2. \A t \in Turns : turn'[t] = IF t = s THEN r ELSE turn[t]
      BY <1>t, <2>2
    <3>3. turn'[s].begun <= age'[turn'[s].agent] /\ ~turn'[s].kept /\ told'[s] = "nothing"
      BY <1>t, <2>1, <2>4, <3>1, <3>2
    <3> QED BY <2>4, <3>1, <3>2, <3>3 DEF HermesInvariant, EndsAtEnd
  <2>6. FileIsCurrent'
    BY <1>1 DEF HermesInvariant, FileIsCurrent, Accepts, lists, disk
  <2>7. SameAnswers
    BY <1>t, <2>1, <2>2, <2>4 DEF SameAnswers
  <2>8. HistoryIsWhatWasAnswered'
    BY <1>1, <2>7, StillAnswered DEF HermesInvariant, Accepts, lists, disk
  <2> QED BY <2>3, <2>5, <2>6, <2>8 DEF HermesInvariant
<1>2. CASE Begins(s)
  <2> DEFINE a == turn[s].agent
             r == Begun(s, a)
  <2>1. /\ a \in Agents /\ r \in Turn /\ r.kept = turn[s].kept
        /\ r.begun = age[a] /\ r.agent = a
    <3>1. turn[s] \in Turn /\ a \in Agents
      BY <1>t DEF Turn
    <3>2. r.begun = age[a] /\ r.agent = a
      BY <3>1 DEF Turn, Begun
    <3> QED BY <1>t, <3>1, <3>2, BegunIsTurn
  <2>2. turn' = [turn EXCEPT ![s] = r] /\ turn[s].at = "accepted"
    BY <1>2 DEF Begins
  <2> HIDE DEF r
  <2>3. HermesTypeOK'
    <3>1. turn' \in [Turns -> Turn]
      BY <1>t, <2>1, <2>2
    <3> QED BY <1>2, <1>t, <3>1 DEF Begins, HermesTypeOK, team, lists, disk
  <2>4. told' = told /\ told[s] = "nothing" /\ ~turn[s].kept
    BY <1>2, <2>2, <1>t DEF Begins, HermesInvariant, EndsAtEnd
  <2>5. EndsAtEnd'
    BY <1>2, <1>t, <2>1, <2>2, <2>4 DEF HermesInvariant, EndsAtEnd, Begins, lists
  <2>6. FileIsCurrent'
    BY <1>2 DEF HermesInvariant, FileIsCurrent, Begins, lists, disk
  <2>7. SameAnswers
    BY <1>t, <2>1, <2>2, <2>4 DEF SameAnswers
  <2>8. HistoryIsWhatWasAnswered'
    BY <1>2, <2>7, StillAnswered DEF HermesInvariant, Begins, lists, disk
  <2> QED BY <2>3, <2>5, <2>6, <2>8 DEF HermesInvariant
<1> QED BY <1>1, <1>2

\* A turn fails, or a run hangs: nothing is kept of it.
LEMMA FailKeeps ==
  ASSUME HermesInvariant,
         (\E s \in Sends : RunFails(s) \/ Hangs(s)) \/ (\E d \in Delegations : DelegationFails(d))
  PROVE  HermesInvariant'
<1>t. HermesTypeOK /\ turn \in [Turns -> Turn] /\ told \in [Turns -> {"nothing", "final", "error", "aborted"}]
  BY DEF HermesInvariant, HermesTypeOK
<1>1. PICK t \in Turns, s \in {"over", "hung"}, e \in {"nothing", "final", "error", "aborted"} :
        /\ turn[t].at = "asking"
        /\ turn' = [turn EXCEPT ![t].at = s] /\ told' = [told EXCEPT ![t] = e]
        /\ s = "hung" => e = "nothing"
        /\ UNCHANGED <<team, lists, awaiting, disk>>
        /\ activeRuns' \in [RunIds -> Sends \cup {NoTurn}]
  <2>1. ASSUME NEW s \in Sends, RunFails(s) PROVE activeRuns' \in [RunIds -> Sends \cup {NoTurn}]
    BY <1>t, <2>1 DEF RunFails, HermesTypeOK
  <2>2. CASE \E s \in Sends : RunFails(s)
    BY <2>1, <2>2 DEF RunFails, Turns
  <2>3. ASSUME NEW s \in Sends, Hangs(s) PROVE told' = [told EXCEPT ![s] = "nothing"]
    <3>1. told' = told /\ told[s] = "nothing"
      BY <2>3 DEF Hangs, HermesInvariant, EndsAtEnd, Turns
    <3> QED BY <1>t, <3>1
  <2>4. CASE \E s \in Sends : Hangs(s)
    BY <1>t, <2>3, <2>4 DEF Hangs, Turns, HermesTypeOK
  <2>5. CASE \E d \in Delegations : DelegationFails(d)
    BY <1>t, <2>5 DEF DelegationFails, Turns, HermesTypeOK
  <2> QED BY <2>2, <2>4, <2>5
<1>2. told[t] = "nothing" /\ ~turn[t].kept
  BY <1>1 DEF HermesInvariant, EndsAtEnd
<1>3. /\ turn'[t].at = s /\ turn'[t].kept = turn[t].kept /\ turn'[t].begun = turn[t].begun
      /\ turn'[t].agent = turn[t].agent /\ told'[t] = e
      /\ \A u \in Turns \ {t} : turn'[u] = turn[u] /\ told'[u] = told[u]
  BY <1>1, <1>t DEF Turn
<1>4. HermesTypeOK'
  <2>1. turn' \in [Turns -> Turn]
    BY <1>t, <1>1, TurnGoesOn
  <2>2. told' \in [Turns -> {"nothing", "final", "error", "aborted"}]
    BY <1>1, <1>t
  <2> QED BY <1>1, <1>t, <2>1, <2>2 DEF HermesTypeOK, team, lists, disk
<1>5. EndsAtEnd'
  BY <1>1, <1>2, <1>3 DEF HermesInvariant, EndsAtEnd, lists
<1>6. FileIsCurrent'
  BY <1>1 DEF HermesInvariant, FileIsCurrent, lists, disk
<1>7. SameAnswers
  BY <1>2, <1>3 DEF SameAnswers
<1>8. HistoryIsWhatWasAnswered'
  BY <1>1, <1>7, StillAnswered DEF HermesInvariant, lists, disk
<1> QED BY <1>4, <1>5, <1>6, <1>8 DEF HermesInvariant

\* A run completes: it is answered, or it resumes after its last round.
LEMMA CompleteKeeps ==
  ASSUME HermesInvariant, NEW s \in Sends, turn[s].at \in {"asking", "tools"}, Completes(s)
  PROVE  HermesInvariant'
<1>1. s \in Turns
  BY DEF Turns
<1>2. PICK e \in {"final", "error", "aborted"} : told' = [told EXCEPT ![s] = e]
  BY DEF Completes
<1>3. TurnEnds(s, e)
  BY <1>2 DEF Completes, TurnEnds
<1>4. activeRuns' \in [RunIds -> Sends \cup {NoTurn}]
  BY DEF Completes, HermesInvariant, HermesTypeOK
<1> QED BY <1>1, <1>3, <1>4, EndKeeps

\* A delegation is answered.
LEMMA DelegatedKeeps ==
  ASSUME HermesInvariant, NEW d \in Delegations, Delegated(d) PROVE HermesInvariant'
<1>1. d \in Turns
  BY DEF Turns
<1>2. TurnEnds(d, "final")
  BY DEF Delegated, TurnEnds
<1>3. activeRuns' \in [RunIds -> Sends \cup {NoTurn}]
  BY DEF Delegated, HermesInvariant, HermesTypeOK
<1> QED BY <1>1, <1>2, <1>3, EndKeeps

\* A run resumes.
LEMMA ResumeKeeps ==
  ASSUME HermesInvariant, NEW s \in Sends, Resumes(s) PROVE HermesInvariant'
<1>t. HermesTypeOK /\ turn \in [Turns -> Turn] /\ s \in Turns /\ turn[s].at = "tools"
  BY DEF HermesInvariant, HermesTypeOK, Turns, Resumes, Resumable
<1>1. CASE turn[s].rounds < MaxRounds
  <2> DEFINE r == [turn[s] EXCEPT !.at = "asking", !.rounds = @ + 1]
  <2>1. turn[s] \in Turn /\ turn[s].rounds + 1 \in 0..MaxRounds
    BY <1>1, <1>t, HermesBounds DEF Turn
  <2>2. r \in Turn /\ r.kept = turn[s].kept /\ r.begun = turn[s].begun /\ r.agent = turn[s].agent
    BY <2>1 DEF Turn
  <2>3. turn' = [turn EXCEPT ![s] = r] /\ UNCHANGED <<team, lists, awaiting, activeRuns, told, disk>>
    BY <1>1, <1>t DEF Resumes
  <2> HIDE DEF r
  <2>4. told[s] = "nothing" /\ ~turn[s].kept
    BY <1>t DEF HermesInvariant, EndsAtEnd
  <2>5. \A u \in Turns : turn'[u] = IF u = s THEN r ELSE turn[u]
    BY <1>t, <2>3
  <2>6. HermesTypeOK'
    BY <1>t, <2>2, <2>3 DEF HermesTypeOK, team, lists, disk
  <2>7. EndsAtEnd'
    BY <2>2, <2>3, <2>4, <2>5 DEF HermesInvariant, EndsAtEnd, lists
  <2>8. FileIsCurrent'
    BY <2>3 DEF HermesInvariant, FileIsCurrent, lists, disk
  <2>9. SameAnswers
    BY <2>2, <2>3, <2>4, <2>5 DEF SameAnswers
  <2>10. HistoryIsWhatWasAnswered'
    BY <2>3, <2>9, StillAnswered DEF HermesInvariant, lists, disk
  <2> QED BY <2>6, <2>7, <2>8, <2>10 DEF HermesInvariant
<1>2. CASE ~(turn[s].rounds < MaxRounds)
  BY <1>2, <1>t, CompleteKeeps DEF Resumes
<1> QED BY <1>1, <1>2

\* The orchestrator calls its tools.
LEMMA ToolsKeep ==
  ASSUME HermesInvariant, NEW s \in Sends, NEW D \in SUBSET Delegations, NEW to \in [D -> Agents],
         CallsTools(s, D, to)
  PROVE  HermesInvariant'
<1>t. HermesTypeOK /\ turn \in [Turns -> Turn] /\ s \in Turns /\ D \subseteq Turns /\ s \notin D
      /\ age \in [Agents -> 0..MaxClears]
  BY HermesBounds DEF HermesInvariant, HermesTypeOK, Turns
<1> DEFINE r == [turn[s] EXCEPT !.at = "tools"]
<1>1. /\ turn' = [t \in Turns |-> CASE t \in D -> Begun(t, to[t]) [] t = s -> r [] OTHER -> turn[t]]
      /\ awaiting' = [awaiting EXCEPT ![s] = D]
      /\ UNCHANGED <<activeRuns, told, disk>>
  BY DEF CallsTools
<1>2. /\ \A t \in D : turn'[t] = Begun(t, to[t])
      /\ turn'[s] = r
      /\ \A t \in Turns \ (D \cup {s}) : turn'[t] = turn[t]
  BY <1>1, <1>t
<1>3. /\ \A t \in D : turn[t].at = "unsent" /\ told[t] = "nothing" /\ ~turn[t].kept
      /\ turn[s].at = "asking" /\ told[s] = "nothing" /\ ~turn[s].kept
  BY <1>t DEF CallsTools, HermesInvariant, EndsAtEnd
<1>4. /\ r \in Turn /\ r.kept = turn[s].kept /\ r.begun = turn[s].begun /\ r.agent = turn[s].agent
  <2>1. turn[s] \in Turn
    BY <1>t
  <2> QED BY <2>1 DEF Turn
<1> HIDE DEF r
<1>5. \A t \in D : /\ Begun(t, to[t]) \in Turn /\ ~Begun(t, to[t]).kept
                   /\ Begun(t, to[t]).agent = to[t] /\ Begun(t, to[t]).begun = age[to[t]]
                   /\ to[t] \in Agents
  <2> SUFFICES ASSUME NEW t \in D
               PROVE  /\ Begun(t, to[t]) \in Turn /\ ~Begun(t, to[t]).kept
                      /\ Begun(t, to[t]).agent = to[t] /\ Begun(t, to[t]).begun = age[to[t]]
                      /\ to[t] \in Agents
    OBVIOUS
  <2>1. turn[t] \in Turn /\ to[t] \in Agents
    BY <1>t
  <2>2. Begun(t, to[t]).agent = to[t] /\ Begun(t, to[t]).begun = age[to[t]]
    BY <2>1 DEF Begun, Turn
  <2> QED BY <1>t, <1>3, <2>1, <2>2, BegunIsTurn
<1>6. turn' \in [Turns -> Turn]
  BY <1>1, <1>t, <1>4, <1>5
<1>7. SameAnswers
  BY <1>1, <1>2, <1>3, <1>4, <1>5 DEF SameAnswers
<1>8. \A t \in Turns : /\ turn'[t].agent \in Agents /\ turn'[t].begun <= age[turn'[t].agent]
                       /\ turn'[t].begun \in 0..MaxClears
  <2>1. ASSUME NEW t \in Turns \ D
        PROVE  turn'[t].begun = turn[t].begun /\ turn'[t].agent = turn[t].agent
    BY <1>2, <1>4, <2>1
  <2>2. \A t \in Turns : /\ turn[t].agent \in Agents /\ turn[t].begun \in 0..MaxClears
                         /\ turn[t].begun <= age[turn[t].agent]
    BY <1>t DEF HermesInvariant, EndsAtEnd, Turn
  <2>3. ASSUME NEW t \in D
        PROVE  turn'[t].agent = to[t] /\ turn'[t].begun = age[to[t]] /\ to[t] \in Agents
    BY <1>2, <1>5, <2>3
  <2>4. \A a \in Agents : age[a] <= age[a] /\ age[a] \in 0..MaxClears
    BY <1>t, HermesBounds
  <2> QED BY <1>t, <2>1, <2>2, <2>3, <2>4
<1>9. \A t \in Turns : /\ told'[t] # "nothing" => turn'[t].at = "over"
                       /\ turn'[t].kept => told'[t] # "nothing"
  BY <1>1, <1>2, <1>3, <1>4, <1>5 DEF HermesInvariant, EndsAtEnd
<1>10. awaiting' \in [Sends -> SUBSET Delegations]
  BY <1>1, <1>t DEF HermesTypeOK
<1>11. CASE UNCHANGED <<team, lists>>
  <2>1. HermesTypeOK'
    BY <1>1, <1>6, <1>10, <1>11, <1>t DEF HermesTypeOK, team, lists, disk
  <2>2. EndsAtEnd' /\ FileIsCurrent'
    BY <1>1, <1>8, <1>9, <1>11 DEF HermesInvariant, EndsAtEnd, FileIsCurrent, lists, disk
  <2>3. HistoryIsWhatWasAnswered'
    BY <1>1, <1>7, <1>11, StillAnswered DEF HermesInvariant, lists, disk
  <2> QED BY <2>1, <2>2, <2>3 DEF HermesInvariant
<1>12. ASSUME NEW a \in Agents, NEW c \in BOOLEAN, Joins(a, c) \/ Configures(a, c) \/ Leaves(a)
       PROVE  HermesInvariant'
  <2>1. HermesTypeOK'
    BY <1>1, <1>6, <1>10, <1>12, <1>t, TeamTyped DEF HermesTypeOK, disk
  <2>2. CASE Joins(a, c) \/ Configures(a, c)
    <3>1. UNCHANGED lists
      BY <2>2 DEF Joins, Configures
    <3>2. EndsAtEnd' /\ FileIsCurrent'
      BY <1>1, <1>8, <1>9, <3>1 DEF HermesInvariant, EndsAtEnd, FileIsCurrent, lists, disk
    <3>3. HistoryIsWhatWasAnswered'
      BY <1>1, <1>7, <3>1, StillAnswered DEF HermesInvariant, lists, disk
    <3> QED BY <2>1, <3>2, <3>3 DEF HermesInvariant
  <2>3. CASE Leaves(a)
    <3>1. Clears(a)
      BY <2>3 DEF Leaves
    <3>2. \A b \in Agents : age[b] <= age'[b] /\ age'[b] \in Nat /\ age[b] \in Nat
      BY <1>t, <3>1, HermesBounds DEF Clears
    <3>3. EndsAtEnd'
      BY <1>8, <1>9, <3>2, HermesBounds DEF EndsAtEnd
    <3>4. FileIsCurrent'
      BY <3>1 DEF FileIsCurrent, Clears
    <3>5. HistoryIsWhatWasAnswered'
      BY <1>1, <1>7, <3>1, ClearedAnswers DEF disk
    <3> QED BY <2>1, <3>3, <3>4, <3>5 DEF HermesInvariant
  <2> QED BY <1>12, <2>2, <2>3
<1>13. \/ UNCHANGED <<team, lists>>
       \/ \E a \in Agents, c \in BOOLEAN : Joins(a, c) \/ Configures(a, c) \/ Leaves(a)
  <2>1. TRUE \in BOOLEAN
    OBVIOUS
  <2> QED BY <2>1 DEF CallsTools, Dismisses
<1> QED BY <1>11, <1>12, <1>13

\* Aborting marks runs and forgets their ids.
LEMMA AbortKeeps ==
  ASSUME HermesInvariant, ChatAbort PROVE HermesInvariant'
<1>t. HermesTypeOK /\ turn \in [Turns -> Turn]
  BY DEF HermesInvariant, HermesTypeOK
<1>1. PICK K \in SUBSET RunIds : Aborts(K)
  BY DEF ChatAbort, RunsOf
<1> DEFINE caught == {activeRuns[k] : k \in K} \ {NoTurn}
<1>2. /\ turn' = [t \in Turns |-> IF t \in caught THEN [turn[t] EXCEPT !.aborted = TRUE] ELSE turn[t]]
      /\ activeRuns' = [k \in RunIds |-> IF k \in K THEN NoTurn ELSE activeRuns[k]]
      /\ UNCHANGED <<team, lists, awaiting, told, disk>>
  BY <1>1 DEF Aborts
<1> HIDE DEF caught
<1>3. \A t \in Turns : /\ turn'[t] \in Turn /\ turn'[t].at = turn[t].at
                       /\ turn'[t].kept = turn[t].kept /\ turn'[t].begun = turn[t].begun
                       /\ turn'[t].agent = turn[t].agent
  <2> SUFFICES ASSUME NEW t \in Turns
               PROVE  /\ turn'[t] \in Turn /\ turn'[t].at = turn[t].at
                      /\ turn'[t].kept = turn[t].kept /\ turn'[t].begun = turn[t].begun
                      /\ turn'[t].agent = turn[t].agent
    OBVIOUS
  <2>1. turn[t] \in Turn
    BY <1>t
  <2>2. turn'[t] \in {turn[t], [turn[t] EXCEPT !.aborted = TRUE]}
    BY <1>2
  <2> QED BY <2>1, <2>2 DEF Turn
<1>4. HermesTypeOK'
  <2>1. turn' \in [Turns -> Turn]
    BY <1>2, <1>3
  <2>2. activeRuns' \in [RunIds -> Sends \cup {NoTurn}]
    BY <1>2, <1>t DEF HermesTypeOK
  <2> QED BY <1>2, <1>t, <2>1, <2>2 DEF HermesTypeOK, team, lists, disk
<1>5. EndsAtEnd' /\ FileIsCurrent'
  BY <1>2, <1>3 DEF HermesInvariant, EndsAtEnd, FileIsCurrent, lists, disk
<1>6. SameAnswers
  BY <1>2, <1>3 DEF SameAnswers
<1>7. HistoryIsWhatWasAnswered'
  BY <1>2, <1>6, StillAnswered DEF HermesInvariant, lists, disk
<1> QED BY <1>4, <1>5, <1>7 DEF HermesInvariant

\* The file is written, or cannot be.
LEMMA SaveKeeps ==
  ASSUME HermesInvariant, Saves \/ SaveFails PROVE HermesInvariant'
<1>t. HermesTypeOK
  BY DEF HermesInvariant
<1>1. /\ due' = FALSE /\ UNCHANGED <<team, history, age, calls, restarts>>
      /\ saved' \in {saved, NoHistory, history} /\ unsaved' \in 0..MaxUnsaved
      /\ gap' \in {"none", "unsaved", "lost"} /\ (gap' # "lost" => gap # "lost")
      /\ gap' = "none" => saved' = history
  BY <1>t, HermesBounds DEF Saves, SaveFails, HermesTypeOK
<1>2. HermesTypeOK'
  <2>1. NoHistory \in [Agents -> Seq(Turns)]
    BY DEF NoHistory
  <2>2. due' \in BOOLEAN
    BY <1>1
  <2> QED BY <1>t, <1>1, <2>1, <2>2 DEF HermesTypeOK, team, calls
<1>3. EndsAtEnd' /\ FileIsCurrent'
  BY <1>1 DEF HermesInvariant, EndsAtEnd, FileIsCurrent, calls
<1>4. SameAnswers
  BY <1>1 DEF SameAnswers, calls
<1>5. HistoryIsWhatWasAnswered'
  BY <1>1, <1>4, StillAnswered DEF HermesInvariant
<1> QED BY <1>2, <1>3, <1>5 DEF HermesInvariant

\* The adapter is started again, with what the file has.
LEMMA RestartKeeps ==
  ASSUME HermesInvariant, Restarts PROVE HermesInvariant'
<1>t. HermesTypeOK /\ turn \in [Turns -> Turn]
  BY DEF HermesInvariant, HermesTypeOK
<1>1. /\ turn' = [t \in Turns |-> IF turn[t].at \in {"unsent", "over"} THEN turn[t]
                                  ELSE [turn[t] EXCEPT !.at = "lost"]]
      /\ history' = saved /\ due' = FALSE
      /\ gap' = IF due \/ gap # "none" THEN "lost" ELSE "none"
      /\ UNCHANGED <<age, saved, told, unsaved>>
  BY DEF Restarts
<1>2. \A t \in Turns : /\ turn'[t] \in Turn
                       /\ turn[t].at = "over" => turn'[t].at = "over"
                       /\ turn'[t].kept = turn[t].kept /\ turn'[t].begun = turn[t].begun
                       /\ turn'[t].agent = turn[t].agent
  <2> SUFFICES ASSUME NEW t \in Turns
               PROVE  /\ turn'[t] \in Turn
                      /\ turn[t].at = "over" => turn'[t].at = "over"
                      /\ turn'[t].kept = turn[t].kept /\ turn'[t].begun = turn[t].begun
                      /\ turn'[t].agent = turn[t].agent
    OBVIOUS
  <2>1. turn[t] \in Turn
    BY <1>t
  <2>2. \/ turn'[t] = turn[t]
        \/ turn[t].at # "over" /\ turn'[t] = [turn[t] EXCEPT !.at = "lost"]
    BY <1>1
  <2> QED BY <2>1, <2>2 DEF Turn
<1>3. HermesTypeOK'
  <2>1. turn' \in [Turns -> Turn] /\ gap' \in {"none", "unsaved", "lost"}
    BY <1>1, <1>2
  <2>2. continuity' \in [Agents -> BOOLEAN] /\ due' \in BOOLEAN
    BY <1>t DEF HermesTypeOK, Restarts
  <2>3. /\ registry' \in [Agents -> {"absent", "present", "gone"}]
        /\ registry'[Orchestrator] = "present"
        /\ restarts' \in 0..MaxRestarts
    BY <1>t, HermesBounds DEF HermesTypeOK, Restarts
  <2>4. awaiting' \in [Sends -> SUBSET Delegations] /\ activeRuns' \in [RunIds -> Sends \cup {NoTurn}]
    BY DEF Restarts
  <2> QED BY <1>t, <1>1, <2>1, <2>2, <2>3, <2>4 DEF HermesTypeOK
<1>4. EndsAtEnd' /\ FileIsCurrent'
  BY <1>1, <1>2 DEF HermesInvariant, EndsAtEnd, FileIsCurrent
<1>5. SameAnswers
  BY <1>1, <1>2 DEF SameAnswers
<1>6. HistoryIsWhatWasAnswered'
  <2>1. CASE due \/ gap # "none"
    BY <1>1, <2>1 DEF HistoryIsWhatWasAnswered
  <2>2. CASE ~due /\ gap = "none"
    <3>1. history' = history /\ gap' = gap
      BY <1>1, <2>2 DEF HermesInvariant, FileIsCurrent
    <3> QED BY <1>1, <1>5, <3>1, StillAnswered DEF HermesInvariant
  <2> QED BY <2>1, <2>2
<1> QED BY <1>3, <1>4, <1>6 DEF HermesInvariant

\* Every step keeps the invariant.
LEMMA HermesStep == HermesInvariant /\ [HermesNext]_hermes => HermesInvariant'
<1> SUFFICES ASSUME HermesInvariant, [HermesNext]_hermes PROVE HermesInvariant'
  OBVIOUS
<1>1. CASE \E s \in Sends : Resumes(s)
  BY <1>1, ResumeKeeps
<1>2. CASE TeamChanges
  BY <1>2, TeamKeeps
<1>3. CASE ChatAbort
  BY <1>3, AbortKeeps
<1>4. CASE Saves \/ SaveFails
  BY <1>4, SaveKeeps
<1>5. CASE Restarts
  BY <1>5, RestartKeeps
<1>6. ASSUME NEW s \in Sends,
             (\E k \in RunIds, a \in Agents : Accepts(s, k, a)) \/ Begins(s)
      PROVE  HermesInvariant'
  BY <1>6, AcceptKeeps
<1>7. ASSUME NEW s \in Sends, Answers(s) PROVE HermesInvariant'
  BY <1>7, CompleteKeeps DEF Answers
<1>8. ASSUME NEW s \in Sends, RunFails(s) \/ Hangs(s) PROVE HermesInvariant'
  BY <1>8, FailKeeps
<1>9. ASSUME NEW s \in Sends, \E D \in SUBSET Delegations : \E to \in [D -> Agents] : CallsTools(s, D, to)
      PROVE  HermesInvariant'
  BY <1>9, ToolsKeep
<1>10. ASSUME NEW d \in Delegations, Delegated(d) \/ DelegationFails(d) PROVE HermesInvariant'
  BY <1>10, DelegatedKeeps, FailKeeps
<1>11. CASE UNCHANGED hermes
  BY <1>11 DEF hermes, HermesInvariant, HermesTypeOK, EndsAtEnd, FileIsCurrent,
               HistoryIsWhatWasAnswered, AnsweredSinceCleared
<1> QED BY <1>1, <1>2, <1>3, <1>4, <1>5, <1>6, <1>7, <1>8, <1>9, <1>10, <1>11 DEF HermesNext

-----------------------------------------------------------------------------

\* The invariant holds in every state.
LEMMA HermesAlways == HermesSpec => []HermesInvariant
BY HermesInitially, HermesStep, PTL DEF HermesSpec

\* The state of the adapter stays well formed.
THEOREM HermesTypeCorrect == HermesSpec => []HermesTypeOK
<1>1. HermesInvariant => HermesTypeOK
  BY DEF HermesInvariant
<1> QED BY <1>1, HermesAlways, PTL

\* A session is the turns answered in it since it was cleared, each once.
THEOREM HistoryCorrect == HermesSpec => []HistoryIsWhatWasAnswered
<1>1. HermesInvariant => HistoryIsWhatWasAnswered
  BY DEF HermesInvariant
<1> QED BY <1>1, HermesAlways, PTL
=============================================================================
