--------------------------- MODULE RuntimeDatabase ---------------------------
(***************************************************************************)
(* Every command of aios first migrates .aios/state/state.db               *)
(* (Database.migrate), and several run at once: the CLI, the MCP server    *)
(* and the plugin that lists the worktrees every few seconds.  A database  *)
(* of the runtime before the refactoring is copied to backups/ and removed *)
(* (_export_and_reset_if_legacy); then the one migration is applied in a   *)
(* transaction.                                                            *)
(*                                                                         *)
(* A file is told from the name it has: a connection stays with the file   *)
(* it opened when another process removes the name.  The row a command     *)
(* registers stands for what it does with the database (Worktree,          *)
(* MemoryStore).  The copy is one step, and so is the removal of the file  *)
(* with its -wal and -shm; what is only in the -wal is left out.           *)
(***************************************************************************)
EXTENDS Integers, Sequences

CONSTANTS
    Commands,      \* processes that each run one command, perhaps again
    MaxCommands,   \* how many commands are run in all
    MaxMisreads    \* how often sqlite cannot read a file that is all right

ASSUME DatabaseAssumption ==
    MaxCommands \in Nat /\ MaxMisreads \in Nat

VARIABLES
    files,     \* every file that ever had the name, in the order of creation
    named,     \* the one that has it; 0: none
    backups,   \* the copies in backups/
    place,      \* where each process is
    judged,    \* the file a process called legacy (0: it was gone)
    opened,    \* the file its connection is to
    ran,   \* commands run so far
    misreads

runtime == <<files, named, backups, place, judged, opened, ran, misreads>>

\* empty: no table yet; booted: schema_migrations alone
Schemas == {"empty", "booted", "current", "legacy"}
Rows == 1..MaxCommands
File == [schema : Schemas, rows : SUBSET Rows]
NewFile == [schema |-> "empty", rows |-> {}]
Places == {"idle", "migrate", "judge", "copy", "unlink", "open", "boot", "read", "apply", "work"}

RuntimeTypeOK ==
    /\ files \in Seq(File) /\ named \in 0..Len(files)
    /\ backups \in SUBSET File
    /\ place \in [Commands -> Places]
    /\ judged \in [Commands -> 0..Len(files)] /\ opened \in [Commands -> 0..Len(files)]
    /\ ran \in 0..MaxCommands /\ misreads \in 0..MaxMisreads

RuntimeInit ==
    /\ \/ files = <<>> /\ named = 0
       \/ named = 1 /\ \E s \in Schemas : files = <<[schema |-> s, rows |-> {}]>>
    /\ backups = {}
    /\ place = [p \in Commands |-> "idle"]
    /\ judged = [p \in Commands |-> 0] /\ opened = [p \in Commands |-> 0]
    /\ ran = 0 /\ misreads = 0

Goes(p, s) == place' = [place EXCEPT ![p] = s]

Starts(p) ==
    /\ place[p] = "idle" /\ ran < MaxCommands
    /\ ran' = ran + 1
    /\ Goes(p, "migrate")
    /\ UNCHANGED <<files, named, backups, judged, opened, misreads>>

-----------------------------------------------------------------------------
(* _export_and_reset_if_legacy.                                            *)

\* There is no file, or there is one to be judged.
Looks(p) ==
    /\ place[p] = "migrate"
    /\ Goes(p, IF named = 0 THEN "open" ELSE "judge")
    /\ UNCHANGED <<files, named, backups, judged, opened, ran, misreads>>

\* Tables a migration has not created yet are no sign of a legacy database; a
\* file that has gone meanwhile is: sqlite cannot read it.
HalfMadeIsLegacy(n) == n = 0 \/ files[n].schema \notin {"empty", "current"}   \* seeded fault
IsLegacy(n) == n = 0 \/ files[n].schema = "legacy"
Judges(p) ==
    /\ place[p] = "judge"
    /\ Goes(p, IF IsLegacy(named) THEN "copy" ELSE "open")
    /\ judged' = [judged EXCEPT ![p] = IF IsLegacy(named) THEN named ELSE 0]
    /\ UNCHANGED <<files, named, backups, opened, ran, misreads>>
\* Any error of sqlite counts as a sign of a legacy database.
Misreads(p) ==
    /\ place[p] = "judge" /\ named # 0 /\ misreads < MaxMisreads
    /\ misreads' = misreads + 1
    /\ Goes(p, "copy") /\ judged' = [judged EXCEPT ![p] = named]
    /\ UNCHANGED <<files, named, backups, opened, ran>>

\* shutil.copy2 copies what has the name now; if nothing has, or it cannot be
\* written, it raises and the command ends.
PassedOver == "unlink"                               \* seeded fault: the failure is passed over
WithoutCopy == "idle"
CopiesFile(p) ==
    /\ place[p] = "copy"
    /\ \/ /\ named # 0 /\ Goes(p, "unlink")
          /\ backups' = backups \cup {files[named]}
       \/ Goes(p, WithoutCopy) /\ UNCHANGED backups
    /\ UNCHANGED <<files, named, judged, opened, ran, misreads>>
Unlinks(p) ==
    /\ place[p] = "unlink"
    /\ named' = 0
    /\ Goes(p, "open")
    /\ UNCHANGED <<files, backups, judged, opened, ran, misreads>>

-----------------------------------------------------------------------------
(* migrate, and the command itself.                                        *)

OpensFile(p) ==
    IF named = 0
    THEN /\ files' = Append(files, NewFile)
         /\ named' = Len(files) + 1 /\ opened' = [opened EXCEPT ![p] = Len(files) + 1]
    ELSE opened' = [opened EXCEPT ![p] = named] /\ UNCHANGED <<files, named>>
Opens(p) ==
    /\ place[p] = "open"
    /\ OpensFile(p)
    /\ Goes(p, "boot")
    /\ UNCHANGED <<backups, judged, ran, misreads>>

\* CREATE TABLE IF NOT EXISTS schema_migrations.
Boots(p) ==
    /\ place[p] = "boot"
    /\ files' = [files EXCEPT ![opened[p]].schema = IF @ = "empty" THEN "booted" ELSE @]
    /\ Goes(p, "read")
    /\ UNCHANGED <<named, backups, judged, opened, ran, misreads>>
ReadsApplied(p) ==
    /\ place[p] = "read"
    /\ Goes(p, IF files[opened[p]].schema = "current" THEN "work" ELSE "apply")
    /\ UNCHANGED <<files, named, backups, judged, opened, ran, misreads>>
\* BEGIN IMMEDIATE ... commit; the tables another process has made meanwhile
\* make the second one fail (MigrationError).
Applies(p) ==
    /\ place[p] = "apply"
    /\ IF files[opened[p]].schema = "current"
       THEN Goes(p, "idle") /\ UNCHANGED files
       ELSE /\ files' = [files EXCEPT ![opened[p]].schema = "current"]
            /\ Goes(p, "work")
    /\ UNCHANGED <<named, backups, judged, opened, ran, misreads>>

\* The command writes through a connection of its own.
Works(p) ==
    /\ place[p] = "work"
    /\ Goes(p, "idle")
    /\ IF named # 0 /\ files[named].schema = "current"
       THEN /\ files' = [files EXCEPT ![named].rows = @ \cup {ran}]
            /\ UNCHANGED named
       ELSE IF named = 0
       THEN files' = Append(files, NewFile) /\ named' = Len(files) + 1    \* no such table
       ELSE UNCHANGED <<files, named>>
    /\ UNCHANGED <<backups, judged, opened, ran, misreads>>

\* A process dies, or its command fails, anywhere.
Dies(p) ==
    /\ place[p] # "idle"
    /\ Goes(p, "idle")
    /\ UNCHANGED <<files, named, backups, judged, opened, ran, misreads>>

CommandStep(p) ==
    \/ Starts(p) \/ Looks(p) \/ Judges(p) \/ Misreads(p) \/ CopiesFile(p) \/ Unlinks(p)
    \/ Opens(p) \/ Boots(p) \/ ReadsApplied(p) \/ Applies(p) \/ Works(p) \/ Dies(p)
RuntimeNext == \E p \in Commands : CommandStep(p)
RuntimeSpec == RuntimeInit /\ [][RuntimeNext]_runtime

-----------------------------------------------------------------------------
(* Properties.                                                             *)

\* The old runtime's data is never lost, whichever processes find it at the
\* same time and wherever they die: it has its name still, or a copy.
WasLegacy == Len(files) > 0 /\ files[1].schema = "legacy"
LegacyKept == WasLegacy => named = 1 \/ files[1] \in backups

\* What a command has registered stays, however many processes migrate at the
\* same time: none takes another's unfinished schema for a legacy one.  The
\* code itself lets it go in two cases: a file that could not be read counts
\* as legacy, and what is copied and removed is whatever has the name by then,
\* not the file that was judged.
Registered == IF named = 0 THEN {} ELSE files[named].rows
RegisteredStays ==
    [][\/ Registered \subseteq Registered'
       \/ misreads > 0
       \/ \E p \in Commands : place[p] = "unlink" /\ judged[p] # named]_runtime
=============================================================================
