------------------------------- MODULE Artifacts -------------------------------
(***************************************************************************)
(* Backups, their verification, portable exports and imports               *)
(* (internal/runtime/backup.go, export.go), next to live ingestion.        *)
(*                                                                         *)
(* The database is the set of facts it holds and the set of adapter        *)
(* versions it has registered; the adapter of a fact is named by the fact. *)
(* The content of a file is the set of facts in it, its hash and its       *)
(* record counts are functions of that set.  Every operation takes several *)
(* steps, may fail at each of them and may be cut short by a crash.        *)
(***************************************************************************)
EXTENDS Naturals, FiniteSets

CONSTANTS Fact,      \* the facts that may be ingested
          Importer   \* concurrent imports of the export under one key

NoFile == [at |-> "absent", holds |-> {}]

VARIABLES
  facts,      \* rows of events
  twoLanes,   \* facts whose evidence rows come from two source instances
  adapters,   \* rows of adapter_versions
  backup,     \* the running Backup: [at, snapshot, counts]
  archive,    \* its .dump file: absent, tmp or final
  manifest,   \* its manifest file: absent or the counts it promises
  verify,     \* what RestoreVerify last answered
  export,     \* the running Export: [at, records, mixed, versions]
  portable,   \* the published .ndjson file: [at, holds, mixed, versions]
  importing,  \* per importer: [at, answer]
  receipt     \* runtime_import_receipts for the key: {} or {facts imported}

artifactVars == <<facts, twoLanes, adapters, backup, archive, manifest, verify, export,
                  portable, importing, receipt>>

ArtifactInit ==
  /\ facts = {} /\ twoLanes = {} /\ adapters = {}
  /\ backup = [at |-> "idle", snapshot |-> {}, counts |-> {}]
  /\ archive = NoFile /\ manifest = NoFile /\ verify = "none"
  /\ export = [at |-> "idle", records |-> {}, mixed |-> {}, versions |-> {}]
  /\ portable = [at |-> "absent", holds |-> {}, mixed |-> {}, versions |-> {}]
  /\ importing = [i \in Importer |-> [at |-> "idle", answer |-> {}]]
  /\ receipt = {}

-----------------------------------------------------------------------------
\* Live ingestion: the adapter version is registered with its first fact.
Ingest(f) ==
  /\ f \notin facts
  /\ facts' = facts \cup {f} /\ adapters' = adapters \cup {f}
  /\ UNCHANGED <<twoLanes, backup, archive, manifest, verify, export, portable, importing, receipt>>

\* A second source reports the fact: one events row, evidence of two sources.
Corroborate(f) ==
  /\ f \in facts \ twoLanes
  /\ twoLanes' = twoLanes \cup {f}
  /\ UNCHANGED <<facts, adapters, backup, archive, manifest, verify, export, portable, importing, receipt>>

\* Retention drops old partitions, never registry rows.
DropPartition(f) ==
  /\ f \in facts
  /\ facts' = facts \ {f} /\ twoLanes' = twoLanes \ {f}
  /\ UNCHANGED <<adapters, backup, archive, manifest, verify, export, portable, importing, receipt>>

database == <<facts, twoLanes, adapters>>
otherThanBackup == <<database, verify, export, portable, importing, receipt>>

\* A repeatable-read transaction exports its snapshot ...
BackupStart ==
  /\ backup.at = "idle" /\ archive = NoFile
  /\ backup' = [backup EXCEPT !.at = "dumping", !.snapshot = facts]
  /\ UNCHANGED <<archive, manifest, otherThanBackup>>

\* ... pg_dump reads that snapshot into the temporary file ...
BackupDump ==
  /\ backup.at = "dumping"
  /\ archive' = [at |-> "tmp", holds |-> backup.snapshot]
  /\ backup' = [backup EXCEPT !.at = "counting"]
  /\ UNCHANGED <<manifest, otherThanBackup>>

\* ... and the rows are counted in the same transaction.
BackupCountLive ==
  /\ backup.at = "counting"
  /\ backup' = [backup EXCEPT !.at = "publishing", !.counts = facts]
  /\ UNCHANGED <<archive, manifest, otherThanBackup>>

BackupCount ==
  /\ backup.at = "counting"
  /\ backup' = [backup EXCEPT !.at = "publishing", !.counts = backup.snapshot]
  /\ UNCHANGED <<archive, manifest, otherThanBackup>>

BackupPublish ==
  /\ backup.at = "publishing"
  /\ archive' = [archive EXCEPT !.at = "final"]
  /\ backup' = [backup EXCEPT !.at = "manifest"]
  /\ UNCHANGED <<manifest, otherThanBackup>>

\* writePrivateJSON renames a complete manifest into place, or the archive is
\* removed again.
BackupManifest ==
  /\ backup.at = "manifest"
  /\ \/ manifest' = [at |-> "final", holds |-> backup.counts] /\ UNCHANGED archive
     \/ archive' = NoFile /\ UNCHANGED manifest
  /\ backup' = [backup EXCEPT !.at = "idle"]
  /\ UNCHANGED otherThanBackup

\* An error before the rename: the deferred Remove deletes the temporary file.
BackupFails ==
  /\ backup.at \in {"dumping", "counting", "publishing"}
  /\ archive' = NoFile
  /\ backup' = [backup EXCEPT !.at = "idle"]
  /\ UNCHANGED <<manifest, otherThanBackup>>

\* Manifest and checksum first, then pg_restore into a scratch database whose
\* rows are counted; a tool that fails answers with an error of its own.
RestoreVerify ==
  /\ manifest # NoFile
  /\ verify' \in
       IF archive.at # "final" THEN {"backup_checksum_mismatch"}
       ELSE {"tool_failed", IF archive.holds = manifest.holds
                            THEN "pass" ELSE "restore_count_mismatch"}
  /\ UNCHANGED <<database, backup, archive, manifest, export, portable, importing, receipt>>

-----------------------------------------------------------------------------
otherThanExport == <<database, backup, archive, manifest, verify, importing, receipt>>

\* One statement reads the facts with their adapters, later ones the rollups
\* and intervals, and a last one the registries for the manifest.
ExportFacts ==
  /\ export.at = "idle" /\ portable.at = "absent"
  /\ export' = [at |-> "registries", records |-> facts, mixed |-> twoLanes, versions |-> {}]
  /\ UNCHANGED <<portable, otherThanExport>>

ExportRegistriesInUse ==
  /\ export.at = "registries"
  /\ export' = [export EXCEPT !.at = "publishing", !.versions = facts]
  /\ UNCHANGED <<portable, otherThanExport>>

ExportRegistries ==
  /\ export.at = "registries"
  /\ export' = [export EXCEPT !.at = "publishing", !.versions = adapters]
  /\ UNCHANGED <<portable, otherThanExport>>

\* Manifest and payload are copied to a temporary file, synced and renamed; an
\* error removes the temporary files.
ExportPublish ==
  /\ export.at = "publishing"
  /\ portable' = [at |-> "final", holds |-> export.records, mixed |-> export.mixed,
                 versions |-> export.versions]
  /\ export' = [export EXCEPT !.at = "idle"]
  /\ UNCHANGED otherThanExport

ExportFails ==
  /\ export.at # "idle"
  /\ export' = [export EXCEPT !.at = "idle"]
  /\ UNCHANGED <<portable, otherThanExport>>

-----------------------------------------------------------------------------
otherThanImport == <<backup, archive, manifest, verify, export, portable>>
To(i, stage) == importing' = [importing EXCEPT ![i].at = stage]

\* validatePortableExport: hash and count are the file's own; every version of
\* the manifest must be registered here, every record must name a version of the
\* manifest and carry evidence of its own source instance only.
KnownVersions == /\ portable.versions \subseteq adapters
                 /\ portable.holds \subseteq portable.versions
ValidRecords == portable.mixed = {}
ImportValidate(i) ==
  /\ importing[i].at = "idle" /\ portable.at = "final"
  /\ To(i, IF ~KnownVersions THEN "unknown_version"
            ELSE IF ~ValidRecords THEN "invalid_record" ELSE "looking_up")
  /\ UNCHANGED <<database, receipt, otherThanImport>>

\* The receipt of the idempotency key answers a repeated import.
ImportLookup(i) ==
  /\ importing[i].at = "looking_up"
  /\ IF receipt # {}
     THEN importing' = [importing EXCEPT ![i] = [at |-> "answered", answer |-> receipt]]
     ELSE To(i, "writing")
  /\ UNCHANGED <<database, receipt, otherThanImport>>

ImportCommitOver(i) ==
  /\ importing[i].at = "writing"
  /\ facts' = facts \cup portable.holds
  /\ receipt' = {portable.holds \ facts}
  /\ importing' = [importing EXCEPT ![i] = [at |-> "answered", answer |-> receipt']]
  /\ UNCHANGED <<twoLanes, adapters, otherThanImport>>

\* All records and the receipt commit in one transaction; the unique key turns
\* the slower of two imports into an error, after which it may be sent again.
ImportCommit(i) ==
  /\ importing[i].at = "writing"
  /\ \/ /\ receipt = {}
        /\ facts' = facts \cup portable.holds
        /\ receipt' = {portable.holds \ facts}
        /\ importing' = [importing EXCEPT ![i] = [at |-> "answered", answer |-> receipt']]
     \/ To(i, "idle") /\ UNCHANGED <<facts, receipt>>
  /\ UNCHANGED <<twoLanes, adapters, otherThanImport>>

\* The process dies: what is on disk and committed stays.
ArtifactCrash ==
  /\ backup' = [backup EXCEPT !.at = "idle"]
  /\ export' = [export EXCEPT !.at = "idle"]
  /\ importing' = [i \in Importer |->
       IF importing[i].at = "answered" THEN importing[i] ELSE [at |-> "idle", answer |-> {}]]
  /\ UNCHANGED <<database, archive, manifest, verify, portable, receipt>>

ArtifactNext ==
  \/ \E f \in Fact : Ingest(f) \/ Corroborate(f) \/ DropPartition(f)
  \/ BackupStart \/ BackupDump \/ BackupCount \/ BackupPublish \/ BackupManifest
  \/ BackupFails \/ RestoreVerify
  \/ ExportFacts \/ ExportRegistries \/ ExportPublish \/ ExportFails
  \/ \E i \in Importer : ImportValidate(i) \/ ImportLookup(i) \/ ImportCommit(i)
  \/ ArtifactCrash

-----------------------------------------------------------------------------
ArtifactTypeOK ==
  /\ twoLanes \subseteq facts /\ facts \subseteq adapters /\ adapters \subseteq Fact
  /\ backup \in [at : {"idle", "dumping", "counting", "publishing", "manifest"},
                 snapshot : SUBSET Fact, counts : SUBSET Fact]
  /\ archive \in [at : {"absent", "tmp", "final"}, holds : SUBSET Fact]
  /\ manifest \in [at : {"absent", "final"}, holds : SUBSET Fact]
  /\ export \in [at : {"idle", "registries", "publishing"},
                 records : SUBSET Fact, mixed : SUBSET Fact, versions : SUBSET Fact]
  /\ portable \in [at : {"absent", "final"}, holds : SUBSET Fact,
                   mixed : SUBSET Fact, versions : SUBSET Fact]
  /\ \A i \in Importer : importing[i].at \in
       {"idle", "looking_up", "writing", "answered", "unknown_version", "invalid_record"}

\* A backup that was published verifies: whatever is ingested or dropped while
\* pg_dump runs, and wherever a crash cut an earlier step short, the counts of
\* the manifest are those of the archive it names.
BackupsVerify == verify \notin {"restore_count_mismatch", "backup_checksum_mismatch"}

\* An export names every adapter version its records use: one registered with
\* a new fact while the export ran does not make the file unreadable.
ExportsNameVersions == \A i \in Importer : importing[i].at # "unknown_version"

\* The facts of this system are facts it accepts: one fact with the evidence of
\* two lanes is what its own ingestion produces and its tests require.
ExportsImport == \A i \in Importer : importing[i].at # "invalid_record"

\* Imports under one key are answered alike and counted once, also when they
\* run side by side or the process died before the first was answered.
ImportAnswersAgree == \A i \in Importer :
  importing[i].at = "answered" => importing[i].answer = receipt

\* What was published can be used: a backup verifies, an export is understood
\* by the build that wrote it, and importing it twice gives one answer.
ArtifactsVerify == BackupsVerify /\ ExportsNameVersions /\ ImportAnswersAgree
=============================================================================
