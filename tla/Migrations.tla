----------------------------- MODULE Migrations ------------------------------
(***************************************************************************)
(* The migrations of the database at the start of the server               *)
(* (internal/server/db/migration.go): instances that start together, old   *)
(* and new releases of them, crashes, and the connection that holds the    *)
(* advisory lock failing while the migrations go on over others.           *)
(*                                                                         *)
(* A transaction is one step: it shows at its commit.                      *)
(***************************************************************************)
EXTENDS Naturals, FiniteSets

CONSTANTS
    Instances,      \* servers that start
    Knows,          \* per instance, how many files its release has
    Edited,         \* the instances whose release has another text of file 1
    Inspected,      \* legacySchemaComplete looks for what the files up to this one make
    MigrationFaults \* bound: crashes, failing statements and lost lock connections

Nobody == "nobody"
MaxFile == CHOOSE n \in {Knows[s] : s \in Instances} : \A s \in Instances : Knows[s] <= n
Files == 1..MaxFile

\* A release inspects what its own files make.
ASSUME MigrationsAssumption ==
    /\ IsFiniteSet(Instances) /\ Instances # {}
    /\ Knows \in [Instances -> Nat \ {0}] /\ Edited \subseteq Instances
    /\ Inspected \in Nat \ {0} /\ \A s \in Instances : Inspected <= Knows[s]
    /\ MigrationFaults \in Nat /\ Nobody \notin Instances

VARIABLES
    before,   \* history: the files whose effects an untracked database had
    lock,     \* who holds bongsuMigrationLockKey
    ran,      \* history: how often the transaction of a file has committed
    recorded, \* schema_migrations: the text recorded for a file
    start,    \* the instances' calls of RunMigrations
    mfaults   \* how many more faults there may be

migrationVars == <<before, lock, ran, recorded, start, mfaults>>

\* migrationChecksum
Text(s, f) == IF s \in Edited /\ f = 1 THEN "edited" ELSE "original"
Unrecorded == "none"
NotStarted == [step |-> "start", legacy |-> FALSE, applied |-> [f \in Files |-> Unrecorded],
               next |-> 1]

MigrationsTypeOK ==
    /\ before \in 0..MaxFile
    /\ lock \in Instances \cup {Nobody}
    /\ ran \in [Files -> Nat]
    /\ recorded \in [Files -> {"original", "edited", Unrecorded}]
    /\ start \in [Instances -> [step: {"start", "legacy", "read", "baseline", "files",
                                       "serving", "failed"},
                                legacy: BOOLEAN,
                                applied: [Files -> {"original", "edited", Unrecorded}],
                                next: 1..(MaxFile + 1)]]
    /\ mfaults \in 0..MigrationFaults

\* A new database, or one of a release that did not record its migrations.
InitMigrations ==
    /\ before \in 0..MaxFile
    /\ lock = Nobody
    /\ ran = [f \in Files |-> 0]
    /\ recorded = [f \in Files |-> Unrecorded]
    /\ start = [s \in Instances |-> NotStarted]
    /\ mfaults = MigrationFaults

InEffect(f) == f <= before \/ ran[f] > 0

Steps(s, step) == start' = [start EXCEPT ![s].step = step]
\* The deferred unlock, and the end of the process.
Unlocked(s) == IF lock = s THEN Nobody ELSE lock
StopsAt(s, step) == start' = [start EXCEPT ![s] = [NotStarted EXCEPT !.step = step]]
Fails(s) == lock' = Unlocked(s) /\ StopsAt(s, "failed")

\* pg_advisory_lock waits.
TakeLock(s) ==
    /\ start[s].step = "start" /\ lock = Nobody
    /\ lock' = s /\ Steps(s, "legacy")
    /\ UNCHANGED <<before, ran, recorded, mfaults>>

LegacySchemaComplete(s) ==
    /\ start[s].step = "legacy"
    /\ start' = [start EXCEPT ![s].step = "read",
                              ![s].legacy = \A f \in Files : f <= Inspected => InEffect(f)]
    /\ UNCHANGED <<before, lock, ran, recorded, mfaults>>

AppliedMigrations(s) ==
    /\ start[s].step = "read"
    /\ start' = [start EXCEPT ![s].applied = recorded,
                              ![s].step = IF start[s].legacy /\ \A f \in Files : recorded[f] = Unrecorded
                                          THEN "baseline" ELSE "files"]
    /\ UNCHANGED <<before, lock, ran, recorded, mfaults>>

\* Every file of the release is recorded, none is run.
BaselineMigrations(s) ==
    /\ start[s].step = "baseline"
    /\ recorded' = [f \in Files |-> IF f <= Knows[s] /\ recorded[f] = Unrecorded
                                    THEN Text(s, f) ELSE recorded[f]]
    /\ lock' = Unlocked(s) /\ StopsAt(s, "serving")
    /\ UNCHANGED <<before, ran, mfaults>>

\* A file that was recorded is skipped, unless its text has changed.
AppliedFile(s) ==
    LET f == start[s].next IN
    /\ start[s].step = "files" /\ f <= Knows[s] /\ start[s].applied[f] # Unrecorded
    /\ \/ /\ start[s].applied[f] = Text(s, f)
          /\ start' = [start EXCEPT ![s].next = f + 1] /\ UNCHANGED lock
       \/ /\ start[s].applied[f] # Text(s, f)
          /\ Fails(s)
    /\ UNCHANGED <<before, ran, recorded, mfaults>>

\* Mutant: the record is made ON CONFLICT DO NOTHING, as the baseline's is.
RunFileAnyway(s) ==
    LET f == start[s].next IN
    /\ start[s].step = "files" /\ f <= Knows[s] /\ start[s].applied[f] = Unrecorded
    /\ ran' = [ran EXCEPT ![f] = @ + 1]
    /\ recorded' = [recorded EXCEPT ![f] = Text(s, f)]
    /\ start' = [start EXCEPT ![s].next = f + 1]
    /\ UNCHANGED <<before, lock, mfaults>>
\* The file and its record are one transaction, and the record's key is unique:
\* when another instance has committed first, this one fails and takes its
\* effects back.
RunFile(s) ==
    LET f == start[s].next IN
    /\ start[s].step = "files" /\ f <= Knows[s] /\ start[s].applied[f] = Unrecorded
    /\ \/ /\ recorded[f] = Unrecorded
          /\ ran' = [ran EXCEPT ![f] = @ + 1]
          /\ recorded' = [recorded EXCEPT ![f] = Text(s, f)]
          /\ start' = [start EXCEPT ![s].next = f + 1] /\ UNCHANGED lock
       \/ /\ recorded[f] # Unrecorded
          /\ Fails(s) /\ UNCHANGED <<ran, recorded>>
    /\ UNCHANGED <<before, mfaults>>

\* The server goes on to serve.
MigrationsDone(s) ==
    /\ start[s].step = "files" /\ start[s].next > Knows[s]
    /\ lock' = Unlocked(s) /\ StopsAt(s, "serving")
    /\ UNCHANGED <<before, ran, recorded, mfaults>>

\* A statement fails or the process dies; log.Fatalf ends it in any case.
StartFails(s) ==
    /\ start[s].step \notin {"failed", "serving"} /\ mfaults > 0
    /\ mfaults' = mfaults - 1 /\ Fails(s)
    /\ UNCHANGED <<before, ran, recorded>>

\* The connection with the lock breaks; the others are opened anew.
LockIsLost ==
    /\ lock # Nobody /\ mfaults > 0
    /\ mfaults' = mfaults - 1 /\ lock' = Nobody
    /\ UNCHANGED <<before, ran, recorded, start>>

StartAgain(s) ==
    /\ start[s].step = "failed" /\ Steps(s, "start")
    /\ UNCHANGED <<before, lock, ran, recorded, mfaults>>

NextMigrations ==
    \/ \E s \in Instances :
         \/ TakeLock(s) \/ LegacySchemaComplete(s) \/ AppliedMigrations(s)
         \/ BaselineMigrations(s) \/ AppliedFile(s) \/ RunFile(s) \/ MigrationsDone(s)
         \/ StartFails(s) \/ StartAgain(s)
    \/ LockIsLost

MigrationsSpec == InitMigrations /\ [][NextMigrations]_migrationVars

-----------------------------------------------------------------------------
\* However many instances start, fail, lose their lock and start again: a file
\* is committed once at most and not without the files before it, what was
\* committed is recorded, and a server that serves finds its whole schema, made
\* from the files it knows.  (The exception is the baseline: on an untracked
\* database that has all that is inspected but not all that the release has, it
\* records files that nobody has run.)
RunOnce ==
    \A f \in Files :
        /\ ran[f] <= 1
        /\ ran[f] = 1 => recorded[f] # Unrecorded
        /\ recorded[f] # Unrecorded => \A g \in 1..f : recorded[g] # Unrecorded

SchemaIsComplete ==
    \A s \in Instances :
        start[s].step = "serving" =>
            \A f \in 1..Knows[s] :
                /\ recorded[f] # Unrecorded
                /\ before < Inspected => InEffect(f) /\ recorded[f] = Text(s, f)

MigrationsAreSound == RunOnce /\ SchemaIsComplete
==============================================================================
