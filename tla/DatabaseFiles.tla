--------------------------- MODULE DatabaseFiles ---------------------------
(***************************************************************************)
(* The files of the database while the server writes, a backup is copied   *)
(* and a backup is restored (adapters/sqlite/maintenance.py,               *)
(* scripts/maintain_database.py).  A restore renames files one after the   *)
(* other and may die between any two renames; the operator runs it again   *)
(* or starts the server.                                                   *)
(*                                                                         *)
(* Abstractions: a database is the set of what was committed to it.  A     *)
(* write-ahead log is replayed onto whatever file has the name it belongs  *)
(* to.  Verification passes; the -shm file goes with the log.              *)
(***************************************************************************)
EXTENDS Integers, FiniteSets, SequencesExt

CONSTANTS KeepBackups, MaxCommits, MaxRestores, MaxFileFaults

ASSUME FilesAssumption == {MaxCommits, MaxRestores, MaxFileFaults} \subseteq Nat /\ KeepBackups \in Nat \ {0}

VARIABLES main, wal,   \* the committed transactions in the files, or NoFile
          kept,        \* the pre-restore copies: main and wal of each
          backups,     \* the newest first
          restore,     \* the restore in progress
          serverUp,
          expected,    \* what the database should hold (history)
          replaced,    \* what replaced databases held (history)
          torn,        \* did a restore die between a database and its log? (history)
          fileCount    \* counters of the bounds

fileVars == <<main, wal, kept, backups, restore, serverUp, expected, replaced, torn, fileCount>>

NoFile == {-1}     \* no transaction has this number
NoRestore == [pc |-> "none", from |-> {}]

FileInit ==
    /\ main = {} /\ wal = NoFile /\ kept = {} /\ backups = <<>> /\ restore = NoRestore
    /\ serverUp = TRUE /\ expected = {} /\ replaced = {} /\ torn = FALSE
    /\ fileCount = [commits |-> 0, restores |-> 0, faults |-> 0]

Log == IF wal = NoFile THEN {} ELSE wal
CountFile(field, bound) == fileCount[field] < bound /\ fileCount' = [fileCount EXCEPT ![field] = @ + 1]

CommitToLog ==
    /\ serverUp /\ CountFile("commits", MaxCommits)
    /\ wal' = Log \cup {fileCount'.commits} /\ expected' = expected \cup {fileCount'.commits}
    /\ UNCHANGED <<main, kept, backups, restore, serverUp, replaced, torn>>

\* SQLite's own, that of a backup, or that of the last connection that is closed.
Checkpoint ==
    /\ serverUp /\ wal # NoFile /\ main' = main \cup wal /\ wal' = NoFile
    /\ UNCHANGED <<kept, backups, restore, serverUp, expected, replaced, torn, fileCount>>

\* rotate_backups: the newest are kept.
Rotated(all) == SubSeq(all, 1, IF Len(all) < KeepBackups THEN Len(all) ELSE KeepBackups)

\* backup, and the rotation if it was asked for: what is committed, in a file that is
\* renamed when it is verified.  No more than one backup beyond those kept is made here.
Backup ==
    /\ main # NoFile /\ restore = NoRestore /\ Len(backups) <= KeepBackups
    /\ LET all == <<main \cup Log>> \o backups IN backups' \in {all, Rotated(all)}
    /\ UNCHANGED <<main, wal, kept, restore, serverUp, expected, replaced, torn, fileCount>>

StopServer ==
    /\ serverUp /\ serverUp' = FALSE
    /\ UNCHANGED <<main, wal, kept, backups, restore, expected, replaced, torn, fileCount>>

\* init_db on a file that is not there makes an empty database, and SQLite deletes a
\* log next to an empty file.
StartServer ==
    /\ ~serverUp /\ restore = NoRestore /\ serverUp' = TRUE
    /\ IF main = NoFile THEN main' = {} /\ wal' = NoFile /\ expected' = {}
       ELSE UNCHANGED <<main, wal, expected>>
    /\ UNCHANGED <<kept, backups, restore, replaced, torn, fileCount>>

-----------------------------------------------------------------------------
\* Copy and verify; a target that is not there has nothing to be kept.
BeginRestore ==
    /\ ~serverUp /\ restore = NoRestore /\ CountFile("restores", MaxRestores)
    /\ \E b \in ToSet(backups) : restore' = [pc |-> IF main = NoFile THEN "replace" ELSE "move", from |-> b]
    /\ UNCHANGED <<main, wal, kept, backups, serverUp, expected, replaced, torn>>

MoveTarget ==
    /\ restore.pc = "move" /\ restore' = [restore EXCEPT !.pc = "sidecars"]
    /\ kept' = kept \cup {[id |-> fileCount.restores, main |-> main, wal |-> {}]} /\ main' = NoFile
    /\ replaced' = replaced \cup {expected}
    /\ UNCHANGED <<wal, backups, serverUp, expected, torn, fileCount>>

\* Mutant of Sidecar: the log is left where it is.
SidecarStays(k) == UNCHANGED wal /\ kept' = kept

\* The log follows the file it belongs to.
Sidecar(k) ==
    /\ wal' = NoFile
    /\ kept' = {IF c.id = k THEN [c EXCEPT !.wal = Log] ELSE c : c \in kept}

PreserveSidecars ==
    /\ restore.pc = "sidecars" /\ restore' = [restore EXCEPT !.pc = "replace"]
    /\ Sidecar(fileCount.restores)
    /\ UNCHANGED <<main, backups, serverUp, expected, replaced, torn, fileCount>>

ReplaceTarget ==
    /\ restore.pc = "replace" /\ restore' = NoRestore
    /\ main' = restore.from /\ expected' = restore.from
    /\ UNCHANGED <<wal, kept, backups, serverUp, replaced, torn, fileCount>>

\* A rename that raises removes the temporary copy, a kill leaves it for the next
\* restore to overwrite; neither takes a rename back.
RestoreDies ==
    /\ restore # NoRestore /\ CountFile("faults", MaxFileFaults) /\ restore' = NoRestore
    /\ torn' = (torn \/ (restore.pc = "sidecars" /\ wal # NoFile))
    /\ UNCHANGED <<main, wal, kept, backups, serverUp, expected, replaced>>

FileNext ==
    \/ CommitToLog \/ Checkpoint \/ Backup \/ StopServer \/ StartServer
    \/ BeginRestore \/ MoveTarget \/ PreserveSidecars \/ ReplaceTarget \/ RestoreDies

FileSpec == FileInit /\ [][FileNext]_fileVars
-----------------------------------------------------------------------------
\* "Restore a verified backup, retaining the replaced database and WAL sidecars": after
\* any sequence of backups, restores and restores that died, the server finds exactly
\* the backup and what it committed since, and whatever a replaced database held is in
\* a pre-restore copy.  Except when a restore died between the renames of a database
\* and of its log: the next one does not know that the log belongs to the copy.
RestoreIsExact ==
    torn \/ restore.pc = "sidecars"
    \/ /\ main # NoFile => main \cup Log = expected
       /\ \A data \in replaced : \E c \in kept : c.main \cup c.wal = data

FilesTypeOK ==
    /\ {main, wal} \subseteq (SUBSET Nat) \cup {NoFile}
    /\ kept \subseteq [id : Nat, main : SUBSET Nat, wal : SUBSET Nat]
    /\ backups \in Seq(SUBSET Nat)
    /\ restore \in [pc : {"none", "move", "sidecars", "replace"}, from : SUBSET Nat]
    /\ serverUp \in BOOLEAN /\ torn \in BOOLEAN /\ expected \in SUBSET Nat
    /\ fileCount \in [commits : Nat, restores : Nat, faults : Nat]

\* A restore works on files nobody uses, and knows by its step which of them are there.
RestoreInOrder ==
    /\ serverUp => main # NoFile /\ restore = NoRestore
    /\ restore.pc = "move" => main # NoFile /\ \A c \in kept : c.id < fileCount.restores
    /\ restore.pc \in {"sidecars", "replace"} => main = NoFile
    /\ \A c \in kept : c.id <= fileCount.restores

\* Where the data of each database is, that of one whose log has still to follow it too.
NothingIsLost ==
    /\ main # NoFile => main \cup Log = expected
    /\ main = NoFile /\ restore.pc # "sidecars" => wal = NoFile
    /\ \A data \in replaced : \E c \in kept :
          data = c.main \cup (IF restore.pc = "sidecars" /\ c.id = fileCount.restores THEN Log ELSE c.wal)
    /\ restore.pc = "sidecars" => \A c \in kept : c.id = fileCount.restores => c.wal = {}

\* The inductive invariant.
FilesInv == FilesTypeOK /\ RestoreInOrder /\ (torn \/ NothingIsLost)
=============================================================================
