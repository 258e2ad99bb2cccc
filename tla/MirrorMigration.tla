---------------------------- MODULE MirrorMigration ----------------------------
(***************************************************************************)
(* The cutover of the legacy mirror at start-up                            *)
(* (internal/runtime/mirror_migration.go, called from NewAppliance).       *)
(*                                                                         *)
(* mirror/state.json is backed up, reconciled with the database, reported  *)
(* and then renamed into the archive; its watermarks and checkpoints are   *)
(* committed to the compact store afterwards.  The process may die between *)
(* any two of these steps and starts again.                                *)
(***************************************************************************)
EXTENDS Naturals, FiniteSets

CONSTANTS
  MirrorFact,    \* fact keys of the mirror
  MaxMishaps     \* crashes and failed steps a behaviour may have

ASSUME MirrorAssumption == MaxMishaps \in Nat

VARIABLES
  cutover,     \* the step the starting process is at
  files,       \* which of the files exist
  dbKeys,      \* mirror keys the database has, with the same lineage
  differing,   \* mirror keys it has with another lineage
  verdict,     \* status of the row in runtime_mirror_reconciliations
  migrated,    \* the compact store holds the mirror's checkpoints
  mishaps      \* crashes and failed steps so far

mirrorVars == <<cutover, files, dbKeys, differing, verdict, migrated, mishaps>>

\* legacy: mirror/state.json; copying: the backup's .tmp; archive: the renamed
\* mirror.
MirrorFile == {"legacy", "copying", "backup", "report", "archive"}

MirrorInit ==
  /\ cutover = "down" /\ files = {"legacy"}
  /\ dbKeys \in SUBSET MirrorFact /\ differing \in SUBSET (MirrorFact \ dbKeys)
  /\ verdict = "none" /\ migrated = FALSE /\ mishaps = 0

Step(from, to) == cutover = from /\ cutover' = to /\ UNCHANGED mishaps

\* An error or a crash ends the start.
Mishap ==
  /\ mishaps < MaxMishaps /\ mishaps' = mishaps + 1
  /\ cutover' = "down"

\* The spool is replayed or the operator imports what is missing.  The database
\* is read once per start, so this matters between starts.
DatabaseCatchesUp ==
  /\ \E k \in MirrorFact \ (dbKeys \cup differing) : dbKeys' = dbKeys \cup {k}
  /\ UNCHANGED <<cutover, files, differing, verdict, migrated, mishaps>>

CutoverStartOnce ==
  /\ cutover = "down"
  /\ cutover' = IF "legacy" \in files /\ "backup" \notin files
                THEN "backing_up" ELSE "serving"
  /\ UNCHANGED <<files, dbKeys, differing, verdict, migrated, mishaps>>

\* No legacy file: nothing to do, and no state to hand over.
CutoverStart ==
  /\ cutover = "down"
  /\ cutover' = IF "legacy" \in files THEN "backing_up" ELSE "serving"
  /\ UNCHANGED <<files, dbKeys, differing, verdict, migrated, mishaps>>

CopyCreateTrustsTemporary ==
  /\ cutover = "backing_up"
  /\ \/ {"backup", "copying"} \cap files # {} /\ cutover' = "reconciling" /\ UNCHANGED files
     \/ {"backup", "copying"} \cap files = {}
        /\ cutover' = "copying" /\ files' = files \cup {"copying"}
  /\ UNCHANGED <<mishaps, dbKeys, differing, verdict, migrated>>

\* copyOrVerifyPrivateFile: an existing backup is verified, otherwise the copy
\* is created O_EXCL under a temporary name ...
CopyCreate ==
  /\ cutover = "backing_up"
  /\ \/ "backup" \in files /\ cutover' = "reconciling" /\ UNCHANGED files
     \/ {"backup", "copying"} \cap files = {}
        /\ cutover' = "copying" /\ files' = files \cup {"copying"}
     \/ "backup" \notin files /\ "copying" \in files
        /\ cutover' = "down" /\ UNCHANGED files      \* legacy_mirror_backup_failed
  /\ UNCHANGED <<mishaps, dbKeys, differing, verdict, migrated>>

\* ... and renamed once it is complete and synced; an error removes it.
CopyPublish ==
  /\ \/ Step("copying", "reconciling") /\ files' = (files \ {"copying"}) \cup {"backup"}
     \/ cutover = "copying" /\ Mishap /\ files' = files \ {"copying"}
  /\ UNCHANGED <<dbKeys, differing, verdict, migrated>>

\* reconcileMirrorState, then the row: blocked stops the start, reconciled goes
\* on.  A database error stops it without a row.
Reconcile ==
  /\ \/ dbKeys = MirrorFact /\ verdict' = "reconciled" /\ Step("reconciling", "reporting")
     \/ dbKeys # MirrorFact /\ verdict' = "blocked" /\ Step("reconciling", "down")
     \/ UNCHANGED verdict /\ cutover = "reconciling" /\ Mishap
  /\ UNCHANGED <<files, dbKeys, differing, migrated>>

WriteReport ==
  /\ Step("reporting", "archiving")
  /\ files' = files \cup {"report"}
  /\ UNCHANGED <<dbKeys, differing, verdict, migrated>>

\* The rename, skipped when the archive is there already.
Archive ==
  /\ Step("archiving", "migrating")
  /\ files' = IF "archive" \in files THEN files
              ELSE (files \ {"legacy"}) \cup {"archive"}
  /\ UNCHANGED <<dbKeys, differing, verdict, migrated>>

\* NewAppliance commits every watermark and checkpoint of the returned state.
MigrateCheckpoints ==
  /\ Step("migrating", "serving")
  /\ migrated' = TRUE
  /\ UNCHANGED <<files, dbKeys, differing, verdict>>

MirrorCrash ==
  /\ cutover # "down" /\ Mishap
  /\ UNCHANGED <<files, dbKeys, differing, verdict, migrated>>

MirrorNext ==
  \/ DatabaseCatchesUp \/ CutoverStart \/ CopyCreate \/ CopyPublish \/ Reconcile
  \/ WriteReport \/ Archive \/ MigrateCheckpoints \/ MirrorCrash

\* The supervisor restarts a process that is down, and a start goes on.
Progress ==
  \/ CutoverStart \/ CopyCreate \/ (CopyPublish /\ mishaps' = mishaps)
  \/ (Reconcile /\ mishaps' = mishaps) \/ WriteReport \/ Archive

-----------------------------------------------------------------------------
MirrorTypeOK ==
  /\ cutover \in {"down", "backing_up", "copying", "reconciling", "reporting",
                  "archiving", "migrating", "serving"}
  /\ files \subseteq MirrorFile
  /\ dbKeys \subseteq MirrorFact /\ differing \subseteq MirrorFact \ dbKeys
  /\ verdict \in {"none", "blocked", "reconciled"}
  /\ migrated \in BOOLEAN /\ mishaps \in 0 .. MaxMishaps

\* The mirror leaves its place only when everything in it is in the database
\* with its lineage, a verified copy and a report exist, and the row says so,
\* through every interruption and restart.
ArchivedOnlyReconciled == "archive" \in files =>
  /\ dbKeys = MirrorFact /\ verdict = "reconciled"
  /\ {"backup", "report"} \subseteq files

\* Once the database holds the mirror, starting again and again archives it;
\* the only thing in the way is the temporary file a crash left behind, which
\* O_EXCL refuses on every later start.
CutoverCompletes ==
  <>[](dbKeys = MirrorFact) => <>("archive" \in files) \/ <>[]("copying" \in files)
=============================================================================
