---------------------------- MODULE TrivyDatabase ----------------------------
(***************************************************************************)
(* The Trivy database on disk and its manager (internal/server/trivydb/    *)
(* manager.go): the periodic download, an uploaded archive that replaces   *)
(* the database by way of a backup, an archive taken of it, and restarts.  *)
(***************************************************************************)
EXTENDS Naturals

CONSTANTS
    Versions,   \* the databases that may be loaded
    None,       \* there is no database
    DiskFaults  \* bound: file operations that fail, and restarts

ASSUME TrivyDatabaseAssumption == None \notin Versions /\ DiskFaults \in Nat

VARIABLES
    dir,      \* cacheDir/db
    ready,    \* trivydb.Manager.ready
    status,   \* lastStatus
    load,     \* LoadFromFile, under opMu
    archive,  \* WriteArchive, which takes no lock
    hadOne,   \* history: a database has been in place, and no restart or second failure has lost it
    dfaults   \* how many more faults there may be

trivyVars == <<dir, ready, status, load, archive, hadOne, dfaults>>

NoLoad == [pc |-> "idle", new |-> None, backup |-> None]

TrivyDatabaseTypeOK ==
    /\ dir \in Versions \cup {None}
    /\ ready \in BOOLEAN /\ hadOne \in BOOLEAN
    /\ status \in {"ok", "missing", "failed"}
    /\ load \in [pc: {"idle", "staged", "moved"}, new: Versions \cup {None},
                 backup: Versions \cup {None}]
    /\ archive \in {"idle", "reading", "whole", "failed"}
    /\ dfaults \in 0..DiskFaults

\* Start: checkExisting.
InitTrivyDatabase ==
    /\ dir \in Versions \cup {None}
    /\ ready = (dir # None) /\ hadOne = (dir # None)
    /\ status = IF dir # None THEN "ok" ELSE "missing"
    /\ load = NoLoad /\ archive = "idle" /\ dfaults = DiskFaults

DiskFault == dfaults > 0 /\ dfaults' = dfaults - 1

\* An archive that is being read loses files under it when dir changes.
Disturbed == archive' = IF archive = "reading" THEN "failed" ELSE archive

\* stageArchive, under opMu.
StageArchive(v) ==
    /\ load = NoLoad
    /\ load' = [pc |-> "staged", new |-> v, backup |-> None]
    /\ UNCHANGED <<dir, ready, status, archive, hadOne, dfaults>>

\* The archive is not one, or cannot be unpacked: the staging goes.
StageFails ==
    /\ load = NoLoad
    /\ status' = "failed"
    /\ UNCHANGED <<dir, ready, load, archive, hadOne, dfaults>>

\* The database in place, if there is one, is renamed to a backup.
BackUpDatabase ==
    /\ load.pc = "staged"
    /\ load' = [load EXCEPT !.pc = "moved", !.backup = dir]
    /\ dir' = None
    /\ Disturbed
    /\ UNCHANGED <<ready, status, hadOne, dfaults>>

BackUpFails ==
    /\ load.pc = "staged" /\ dir # None
    /\ DiskFault
    /\ load' = NoLoad /\ status' = "failed"
    /\ UNCHANGED <<dir, ready, archive, hadOne>>

\* The staged one is renamed into place, and the backup removed.
ActivateDatabase ==
    /\ load.pc = "moved"
    /\ dir' = load.new /\ ready' = TRUE /\ hadOne' = TRUE /\ status' = "ok"
    /\ load' = NoLoad
    /\ UNCHANGED <<archive, dfaults>>

\* Mutant: the backup is not moved back.
ActivateFailsBare ==
    /\ load.pc = "moved"
    /\ DiskFault
    /\ load' = NoLoad /\ status' = "failed"
    /\ UNCHANGED <<dir, ready, archive, hadOne>>

\* It cannot be: the backup is moved back.
ActivateFails ==
    /\ load.pc = "moved"
    /\ DiskFault
    /\ dir' = load.backup
    /\ load' = NoLoad /\ status' = "failed"
    /\ UNCHANGED <<ready, archive, hadOne>>

\* ... and that fails as well, unnoticed.
RestoreFails ==
    /\ load.pc = "moved" /\ load.backup # None
    /\ DiskFault
    /\ load' = NoLoad /\ status' = "failed" /\ hadOne' = FALSE
    /\ UNCHANGED <<dir, ready, archive>>

\* updateFromDownload, under opMu: the trivy command replaces the database.
DownloadSucceeds(v) ==
    /\ load = NoLoad
    /\ dir' = v /\ ready' = TRUE /\ hadOne' = TRUE /\ status' = "ok"
    /\ Disturbed
    /\ UNCHANGED <<load, dfaults>>

DownloadFails ==
    /\ load = NoLoad
    /\ status' = "failed"
    /\ UNCHANGED <<dir, ready, load, archive, hadOne, dfaults>>

\* ArchiveBytes for an export, when IsReady says so.
BeginArchive ==
    /\ ready /\ archive = "idle"
    /\ archive' = IF dir = None THEN "failed" ELSE "reading"
    /\ UNCHANGED <<dir, ready, status, load, hadOne, dfaults>>

EndArchive ==
    /\ archive # "idle"
    /\ archive' = IF archive = "reading" THEN "whole" ELSE "idle"
    /\ UNCHANGED <<dir, ready, status, load, hadOne, dfaults>>

\* The server stops and starts again; a backup in the middle of a load stays
\* on disk under its own name, where nothing looks for it.
RestartManager ==
    /\ DiskFault
    /\ ready' = (dir # None) /\ hadOne' = (dir # None)
    /\ status' = IF dir # None THEN "ok" ELSE "missing"
    /\ load' = NoLoad /\ archive' = "idle"
    /\ UNCHANGED dir

NextTrivyDatabase ==
    \/ \E v \in Versions : StageArchive(v) \/ DownloadSucceeds(v)
    \/ StageFails \/ BackUpDatabase \/ BackUpFails
    \/ ActivateDatabase \/ ActivateFails \/ RestoreFails
    \/ DownloadFails \/ BeginArchive \/ EndArchive \/ RestartManager

TrivyDatabaseSpec == InitTrivyDatabase /\ [][NextTrivyDatabase]_trivyVars

----------------------------------------------------------------------------
\* trivydb/manager.go:196-214: a load that fails leaves the database that was
\* there.  Once there is one, there is one, except while a load has moved it
\* away; only a restart in that moment or a second failure loses it.
DatabaseIsKept == hadOne /\ load.pc # "moved" => dir # None
=============================================================================
