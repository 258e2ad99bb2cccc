# Kansoku: TLA+ models and proofs

Kansoku is a local appliance that observes AI coding agents. Hooks, OTLP exporters,
transcripts, session files and App Server streams deliver payloads; the appliance sanitizes
them, normalizes each into one event with evidence, makes the pair durable, derives projections
and rollups in PostgreSQL, audits itself, and serves a read API to a dashboard. These modules
model the parts of it in which several goroutines, processes, files and transactions meet, and
the decisions those parts rest on. Paths below are relative to the repository root.

1. [The system](#1-the-system) 2. [Modules](#2-modules) 3. [Runs](#3-what-the-runs-check)
4. [Proofs](#4-what-is-proved) 5. [What the code does and its documents do not say](#5-known-departures)
6. [Not modelled](#6-not-modelled) 7. [Plan](#7-plan)

## 1. The system

| Component (code) | State it keeps | Operations | What makes it correct |
|---|---|---|---|
| Durable ingress queue (`internal/runtime/queue.go`) | per source: slots in use, job channel, worker; a WaitGroup; `accepting` | reserve, commit, cancel, run lane, replay spools, stop, drain, close | a success is told only for a record that is owned; slots are neither lost nor lent twice; shutdown waits for exactly the work in progress |
| Spool files (`internal/observability/store.go`, `spool_linux.go`) | one JSONL file per source, a temporary `.drained` file | append + fsync, replay, drain | nothing is drained before it is complete; an acknowledged line can be decoded |
| Appliance (`internal/runtime/assembly.go`) | phase of the process, supervised loops | start (migrate, cut over, replay, listen), 15 s replay, minute and daily jobs, shutdown | replay before readiness; a stop loses nothing that was acknowledged |
| Receivers (`internal/observability/otlp.go`, `routes.go`, `metricsample.go`) | none between requests | OTLP over HTTP and gRPC, hooks, adapter batches | the answer to a request is true of every record in it, however often it is sent |
| Ingestor (`ingest.go`, `compact_store.go`, `importer.go`, `bridge_sink.go`) | watermarks and checkpoints, in memory and one JSON file | ingest, quarantine, audit a source, import a transcript | durable before watermark, watermark before checkpoint, file never behind memory |
| Rollout watcher (`internal/runtime/codex_rollout_watcher.go`) | per session file: checkpoint, memory of a read in progress | scan, read, ingest, commit; restart | an offset passes no line that was not ingested |
| App Server ingress (`codex_app_server_ingress.go`, `codexadapter/appserver_bridge.go`) | one health row; a bridge goroutine per stream | connect, read frames, reconcile, answer, deadline | a stream called complete is complete; every stream is answered |
| Handoff (`internal/dataplatform/observability_handoff.go`, `ingest.go`, `projection_repair.go`) | events, evidence, receipts, projections; pool connections | insert fact, project, clean receipt, repair | a fact whose projection is missing has a receipt; the pool cannot wait on itself |
| Rollup repair (`repair.go`, `rollup.go`, `retention.go`) | repair queue, rollups | enqueue, claim, recompute, drop a month | every committed fact is counted in the end |
| Inventory (`inventory.go`, `adaptersdk`, adapters' `inventoryscan.go`) | snapshots, current components, assertions | scan a host, store a snapshot, resolve, re-resolve | what a scan could not read is said; an observation finds its component in the end |
| Observatories (`skill_observatory.go`, `plugin_observatory.go`, `mcp_observatory.go`, `mcp_evidence.go`) | evidence tables | lists and profiles of several statements; the `mcp-evidence` command | a page agrees with itself and with what is stored |
| Incident workbench (`incident_workbench.go`, `api_incidents.go`, `incident_retention.go`) | incidents, occurrences, quarantine | find, triage, recover, expire, page | triage keeps evidence; a page neither skips nor repeats rows that stay |
| Ingestion health (`ingestion_health.go`, `queue.go`) | counters in memory and rows | count, record, reload, show | what was rejected is shown |
| Job manager (`jobs.go`) | one row per run with a lease | run, renew, finish, retry, recover | one running row per job; who lost the lease stops and does not overwrite |
| Plans, retention, projection repair (`plans.go`, `backup.go`, `projection_repair.go`) | previews and nonces in memory, approvals in a ledger | preview, approve, apply | an approval is consumed once and leaves its row |
| Backup, export, import (`backup.go`, `export.go`) | staged files, manifests | dump, count, publish, verify, export, import | a published artifact verifies; an import is all or nothing |
| Mirror cut-over (`mirror_migration.go`) | backup, report, archive, a row | copy, reconcile, report, archive, move checkpoints | archived only when reconciled; interrupted cut-overs complete |
| Migrations (`dataplatform`, `integrity`, `runtime`: `migrate.go`) | three ledgers | read, compare, apply | what a ledger says was applied; what starts has the schema of its build |
| Integrity engine (`internal/integrity`) | runs, check rows, incidents, reports, fingerprints, an advisory lock | trigger, evaluate, reuse, finalize, recover; synthetic probe, paid canary; health | one live run; a pass is earned; incidents are intervals of evidence; green is earned |
| Local guard (`internal/localhttp/security.go`) | rate window of each guard | admit or refuse a request | attempts are bounded; changes are authorized |
| Installer (`internal/installer/protocol.go`) | plans, approvals, backups as values | plan, approve, simulate, verify, restore | a plan owns only its keys |
| Soak (`soak.go`, `cmd/kansoku/soak.go`) | ledger of acknowledged events, evidence file | cycles, faults, recovery, evidence | a pass means that every cycle did what it says |

Interaction. Adapters and routes call the ingestor; the ingestor reserves a lane of the queue,
commits to it and waits on a result channel; one worker per lane calls the handoff and falls
back to the lane's spool; the scheduler and the operator's projection repair replay the spools
through the same handoff; its transaction also enqueues rollup repairs, which a job under a
lease recomputes; the integrity engine's synthetic probe recomputes those of its own scope beside
it. Inventory scans and lifecycle events meet in the resolution of a component;
quarantine, unresolved components and failed checks all open incidents, which the workbench
shows and the integrity engine closes. Processes meet in the database (leases, ledgers,
advisory lock) and on the volume (spools, state file, artifacts): every command builds the same
appliance as the service. Hard are the interleavings of workers, replays and shutdown, crashes
between the steps of each of these, I/O errors half-way through a file operation, answers that
are lost and requests that are sent again, rows that arrive between two statements of a page,
and two processes that share files and database.

`PROJECT.json` lists every component with its status and 40 hazards, each at its line with the
properties that would catch it.

## 2. Modules

Every module begins with the files it models and what it abstracts from. Throughout, data is
an identity (a fact, a frame, a digest), a SQL statement or a transaction without a wait is one
action, and every `await` of the code - a channel, a lock, a second statement - separates two.

### The core: queue, spool, handoff

| Module | What it models |
|---|---|
| `DurableSpool` | a spool file as a value: frames, torn last frame, leftover `.drained` file, and what append, drain and a failed write do to it |
| `DurableHandoff` | the abstract promise: own, then acknowledge, then move the checkpoint; nothing owned is given up |
| `IngressQueue` | the queue, its workers, replays, the process around it and its failures; implements `DurableHandoff` |
| `MCIngressQueue` | instances for TLC |
| `SpoolSharing` | one spool file and two processes: the service and a one-shot command |
| `RollupRepair`, `MCRollupRepair` | inserts that dirty rollup buckets, overlapping runs of the job that claims and recomputes them, the synthetic probe that recomputes beside it, retention, failures |

| Action of `IngressQueue` | Code |
|---|---|
| `Reserve`, `Refuse` | `ReserveNormalizedFact`: test of `accepting` and of the slots under `stateMu.RLock`, `ErrBackpressure`, `ErrDurabilityUnavailable` |
| `Commit` | `queueReservation.Commit` up to the channel send; the wait on `result` is the state `waiting` |
| `Cancel` | `queueReservation.Cancel` before a commit; after one it is a no-op and part of `Return` |
| `Return` | the end of `ingestSafeForInstallation`: checkpoint after success, its failure swallowed |
| `WorkerTake`, `WorkerPersist`, `WorkerSpool`, `WorkerAnswer`, `WorkerRelease` | the body of `runLane` in its order: receive, sink, append on error, answer, release |
| `ReplayBegin`, `ReplayOpen`, `ReplayLine`, `ReplayDrain`, `ReplayRename` | `ReplaySpools` and `DurableSpool.Replay`: per lane read, commit line by line, `drainSecureSpool` in two steps; `ReplayAbort` is the early return |
| `Start` | `NewAppliance` up to the replay; the listeners open when the replay has passed the last lane (`NextLane`) |
| `StopAccepting`, `DrainDone`, `DrainTimeout`, `Exit` | `Appliance.Shutdown` with `Drain` and `Close` |
| `Crash` | death of the process or host, with an append in progress left out, torn or whole |
| `DatabaseFails`, `DatabaseRecovers` | PostgreSQL outages |

A record is an Event/Evidence pair told apart by identity. `SinkOutcomes` gives what
`PersistNormalizedFact` can return: `committed`, `pending` (the fact is committed and a
projection is not) or `failed`; after `Pool.Close` any of them. The mutex of a spool is not a
variable: a replay holds it in the states `committing`, `draining` and `renaming`, and an append
is one step. `Poison` are records that the sink refuses every time.

| Action of `RollupRepair` | Code |
|---|---|
| `InsertEvent` | `InsertFact` up to the insert into `events`; a second insert of the fact waits for the first and then goes on |
| `Enqueue` | one turn of the loop of `enqueueRepairForFact` (hourly, then daily) |
| `Commit`, `Abort` | the end of `pgx.BeginFunc` |
| `BeginRepair` | the scheduler's minute tick, or an operator's command. A lease bounds running rows, not handlers: one whose row expired or was recovered runs on beside its successor, so recomputations overlap and this module has no lease |
| `Claim`, `EndRepair` | `ClaimRepairBatch`: select and delete in one transaction, or nothing left |
| `Read`, `Write` | the statements of `RecomputeBucket`, each a transaction of its own; the watermark, which nothing here reads, moves with the row |
| `BeginProbe`, `DeleteListed` | `verifyPostgresPath`: lists the two queue rows of its scope, recomputes each with the same `Read` and `Write`, without a claim or a lease, then deletes whatever is queued for the scope |
| `CleanProbe` | `cleanupPostgresProbe`: events, queue rows and rollups of the scope in one transaction |
| `Fail`, `Crash` | the early returns of `RunRepairWorker`; death of the process |
| `DropMonth` | `DropPartitionsOlderThan` |

A key is a row of `rollup_repair_queue`; a rollup is the set of facts its row counts. An insert
that finds its key queued reads a committed row and locks nothing; one that meets an uncommitted
insert of the key waits. Both are PostgreSQL's rules for `ON CONFLICT DO NOTHING` at read
committed. A recomputation that has read a bucket is `outdated` once another writes that bucket.
`missed` is history: the pairs of fact and key that leave the machinery uncounted, because a claim
or a deletion took the queue row the fact's transaction relied on, because a repair was given up,
or because an outdated reading was written, so that `Accounted` can say that nothing else does.
`rollup_status` is left out: only the health page reads it.

`SpoolSharing` splits what one mutex made a step: `ReplayLine`, `CreateDrained`, `RenameDrained`
of one process, `OpenSpool`, `WriteSpool`, `VerifySpool` of another, with only the system calls
between them.

### The ways in (composed in `MCIngest`)

| Module | Actions and the code they stand for |
|---|---|
| `Receivers` | `Send`, `Handle` (one record of the request, with the receiver's disposition: stored, counted, quarantined, refused), `AcceptRequest`, `NoAnswer`, `HourPasses`; `Disposition` and the operators under it are the mapping of both adapters as far as the answer depends on it. The client sends a whole request again after silence or an answer that asks for it |
| `IngestState` | `Arrive`, `Reserve`, `Deliver`, `StoreMark`: the Ingestor around the durable sink; `UnknownPayload`, `AuditRead`, `AuditWrite`; `ImportBegin`, `ReadLine`, `HandOver`, `StoreCheckpoint`: `ImportTranscript` against an agent that writes half a line at a time; `Commit`: the compact store with its error before and after the rename; `IngestCrash` |
| `RolloutWatcher` | `ScanBegin`, `OpenFile`, `ReadRolloutLine`, `IngestOne`, `CommitLine`: `ScanOnce` and `scanFile`; `AgentAppends`, `Rotate`, `WatcherRestarts`. The memory that joins marker, call and output is lost with the process, the offset is not |
| `McpEvidence` | `SendStream`, `ScanFrame`, `NameServer`, `LinkTool`, `PersistFrame`, `RunEnds`: the command and the statements of `PersistMCPEvidence`; `ReadServers`, `ReadPrimitives`, `ReadOutcomes`, `ReadTool`, `PageEnds`: the pages, statement by statement |
| `IngestionHealth` | `Submit`, `StoreMetadata`, `RecordSuccess`, `CountRejection`, `RecordRejection`, `HearAnswer` of the queue; `StopAccepting`, `ClosePool`; `LoadHealth`; `ReadCounted`, `ReadRecorded` of the page |

### The database side (composed in `MCFacts`)

| Module | Actions and the code they stand for |
|---|---|
| `FactHandoff` | `HandOver`, `Begin`, `EnsurePartition`, `InsertFact`, `HandOverFails`: the transaction and its second connection; `Project`, `DeleteReceipt`, `ProjectionFails`: `persistProjections` one statement at a time and `markProjectionFailure`; `ReadReceipts`, `RepairRow`: `ReplayPendingProjections`; `FactCrash` |
| `ComponentInventory` | `Resolve`, `PersistLifecycle`, `LifecycleFails`: lookup and, in a transaction of its own, assertion; `PersistSnapshot` with its refresh of the current rows and the re-resolution of open assertions; `PersistQuarantine`; incidents for what stays unresolved |
| `Observatory` | `ReadRows`, `ReadOpen`, `ReadSkillProfile`, `ReadPluginProfile`, `ReadPluginAssertions`, `Answer`, `ReadFails`; `UpsertComponentPlaneSupport`. Each request has a window `[from, to)`, which every statement of it applies; profiles list the newest assertions up to `ProfileLimit` (the code's `LIMIT 500`; ties go by an id, here either way), lists have no limit. It EXTENDS `ComponentInventory`, whose actions run between the statements of a page. Counts per source, the file tree and versions of a profile are left out |
| `AppServerStream` | `Connect`, `ReadFrame`, `EndOfStream`, `StreamBreaks`, `Store`, `SinkFails`, `ConnectReturns`: the bridge goroutine with request matching, terminal reconciliation and limits; `AnswerResult`, `AnswerContext`, `ContextEnds`: the `select` of the handler |
| `HostScan` | `StartScan`, `CodexReadsConfig`, `ClaudeReadsConfig`, `ReadsSkills`, `CodexReadsCache`, `ClaudeReadsCache`, `ClaudeReadsActive`, `Publish`, while `UserEdits`: reads, merge of plugin caches, coverage gaps, the graph |

### The operator's side (composed in `MCOperations`)

| Module | Actions and the code they stand for |
|---|---|
| `JobLease` | `JobTicker`, `InsertRun`, `AcquireLease`, `RenewLease`, `HandlerReturns`, `FinishRun`: `JobManager.Run` and its renewal goroutine; `NoticeShutdown`, `AskShutdown`, `ProcessEnds`; `StartServing`, `RunCommand` with `RecoverInterrupted`; `TimePasses` |
| `Approvals` | `PreviewPurging`, `PreviewRetention`, `PreviewExpires`, `DropExpired`, `BeginOperation`, `BeginPlan`, `InsertApproval`, `WorkPlan`, `WorkRetention`, `ExpireMetadata`, `WorkProjection`, `ApprovalCrash`: three guarded operations, two stores of previews, one ledger |
| `Artifacts` | `BackupStart`, `BackupDump`, `BackupCount`, `BackupPublish`, `BackupManifest`, `BackupFails`, `RestoreVerify`; `ExportFacts`, `ExportRegistries`, `ExportPublish`, `ExportFails`; `ImportValidate`, `ImportLookup`, `ImportCommit`; all next to `Ingest`, `Corroborate`, `DropPartition` |
| `MirrorMigration` | `CutoverStart`, `CopyCreate`, `CopyPublish`, `Reconcile`, `WriteReport`, `Archive`, `MigrateCheckpoints`, `MirrorCrash`, in the order of `ReconcileAndArchiveLegacyMirror` |
| `LocalGuard` | `Wrap`: the checks of a guard in their order; `WindowAges` |
| `Workbench` | `PersistFound`, `SetIncidentTriage`, `RecordIngressRecovery`, the two retentions, `CheckPasses`; `ListIncidents`, `ListQuarantine`, `ListIncidentOccurrences`, `ReadAgain`: keyset pages with signed cursors; `AuditFinds` is the daily check of the rows |
| `Installer` | `BuildPlan`, `Approve`, `SimulateApply`, `SimulateRestore`, and the user who edits the file |
| `Soak` | `IngestCycle`, `QueryRollup`, `BackupCountSnapshot`, `CycleEnds`, `ExecuteFault`, `Recover`, `Probe`, `WriteEvidence`, `PublishEvidence`, `SoakDies`; an appliance that starts, works and misbehaves |
| `Migrations` | `StartMigrating`, `ReadLedger`, `PassApplied`, `ApplyMigration`, `NextLedger`, `LeaveMigrating` of processes with different builds |

### The integrity engine (composed in `MCIntegrity`)

| Module | Actions and the code they stand for |
|---|---|
| `AuditRun` | `Boot`, `ListRunning`, `MarkInterrupted`, `RunOnStartup`, `RunScheduledDaily`, `RunOnVersionCheck`; `AcquireLock`, `AlreadyRunning`, `StartRun`; `ReusePass`, `WritePending`, `Evaluate`, `ListTargetsFails` (the row `<stage>.targets`); `Finalize` (stage 11: incidents, report and terminal state in one transaction), `Complete`, `Cancel`, `StageFails` (a row that cannot be written ends the run as failed), `FinalizeFails`, `FinalizeFailure`, `StoreFingerprints`; `Upgrade`, `AuditCrash` |
| `Probes` | the synthetic probe (`ProbeBegins`, `SendAccepted`, `SendSpooled`, `ProbeGivesUp`, `FindScope`, `VerifyRepairs`, `ReadBucket`, `WriteBucket`, `DeleteRepairs`, `QueryRollup`, `CountPending`, `CleanupProbe`, `CleanupFails`), statement by statement, next to the minute job (`JobClaims`, `JobReads`, `JobWrites`, `JobFails`) and the replay of single records (`ReplaySpool`); the canary (`RecordAuthorization`, `MarkStarted`, `ObserverWorks`, `ObserverTimesOut`, `ObserverEndsLate`, `CanaryCleanup`, `MarkFinished`) |
| `AuditChecks` | `EvidenceChanges`, `SourceMoves`, `RunBackupCycle`, `HourPasses`; `AuditBegins`, `PendingRow`, `EvaluateRow` with the outcome of each check over its evidence, `AuditInterrupted`; `DeriveHealth`, which lays each open incident over the dimensions of its failure class (`FailureClassDimensions`), often others than the check's own |

An incident of `AuditRun` has the key of the code, a target (installation, source and capability)
and a failure class, and a reference to the newest row it was found in, which overwrites the one
before. Checks have targets of their own; the rows a stage writes when it cannot list its targets
all have the engine's, so they share one incident; stage 11 has its own row. The category
`stage_timeout` has no dimension and becomes `db_integrity_violation`, hence the one class of those
rows. Not modelled there: the occurrence count, a commit whose acknowledgement is lost, rows of
stages without checks, which the assembly refuses, and the slightly later time of rows that record
a failed evaluation. A cancellation is counted among the faults, as a bound. `AuditChecks` speaks of
one installation and capability; what it calls `judged` is the history of the last finished audit.

The four MC modules of these groups each compose components that share no variable. Interleaving
independent components shows nothing that each alone does not, and multiplies the states, so a
variable `focus`, chosen at the start and never changed, says which of them a behaviour follows;
the others keep one initial state. Components that do interact are in one module, or in modules
that extend one another (`Observatory` and `ComponentInventory`), and run together.

## 3. What the runs check

Twelve runs; eight must pass and four must be violated. Each property of a passing run is
broken by at least one plausible slip in the definitions it is about (`mutants` in
`PROJECT.json`); the definitions of those slips stand next to the ones they change
(`HandOverLeaks` beside `HandOverFails`) and are used by nothing else.

| Run | Checks | Result |
|---|---|---|
| `lane` | `TypeOK`, `AckedRetained`, `ServingFramesWhole`, `QueueAccounted`, `ImplementsHandoff` | holds |
| `live` | `ServiceRecovers`, `WaiterAnswered`, `ReplayBeforeReady` | holds |
| `glue` | `AckedRetained`, with writes that may stop after a prefix | violated |
| `shared` | `OwnedOnceAcked`, with a service and a command on one spool file | violated |
| `repair` | `TypeOK`, `Accounted`, `NoWaitCycle`, `PublishedFactsStay` | holds |
| `settle` | `RepairsHappen` | holds |
| `ingest` | `IngressTypeOK`, `PromisesAreDurable`, `CheckpointAgrees`, `EvidenceIsTrue`, `SessionsAreConsumed` | holds |
| `facts` | `FactsTypeOK`, `ReceiptCoversProjections`, `RepairCostsNothing`, `InventoryIsTrue`, `StreamAnswersAreTrue`, `AssertionsSettle`, `StreamsAnswered` | holds |
| `operations` | `OperationsTypeOK`, `OneLiveLease`, `ApprovalsAccounted`, `PublishedIsTrue`, `ArchivedOnlyReconciled`, `OperatorIsServed`, `LostLeaseIsLost`, `CutoverCompletes` | holds |
| `exports` | `ExportsImport` | violated |
| `integrity` | `IntegrityTypeOK`, `OneLiveRun`, `PassedIsEarned`, `RecordsAgree`, `ProbesAreBounded`, `HealthIsHonest`, `RunsSettle` | holds |
| `leftover` | `ProbeLeavesNothing` | violated |

### What the properties say

*Queue.* `AckedRetained`: what was acknowledged is complete in PostgreSQL or whole in a spool
file, through shutdown, crash, replay and drain. `QueueAccounted`: every slot in use belongs to
a call or its worker, no committed send can block, each waiter has exactly one job, nothing is
queued once the channels are closed. `ImplementsHandoff`: the queue refines `DurableHandoff`.
`ServiceRecovers`: after an outage, crash or shutdown the appliance serves again and completes
what it spooled. `ReplayBeforeReady`: listeners open on emptied files only.

*Rollups.* `Accounted`: a committed fact is counted, or its bucket is on the way, or it left by
one of the recorded ways (`missed`). `NoWaitCycle`: inserts never wait for each other's rows in a
cycle. `PublishedFactsStay`: until a partition is dropped or a probe cleaned up no step takes a
counted fact back, whichever recomputations overlap, except the write of a reading that another
write of the bucket has outdated.

*Ways in.* `PromisesAreDurable`: an accepted request, a watermark and a checkpoint claim only
what the sink owns, and a restart loses no checkpoint. `CheckpointAgrees`: no unknown line and
no uninterrupted read is passed over, and no marker alone counts as evidence. `EvidenceIsTrue`:
the receiver's answers (`AnswersAreTrue`: accepted is owned or counted, refused leaves nothing,
a resent record adds no fact), MCP evidence (`McpHolds`: a stream called reconciled is stored,
a call has one owner, pages agree with themselves), the counters of rejections
(`CountersAreTrue`). `SessionsAreConsumed`: every line written is consumed, unless a file that
sorts before it has no session metadata, which ends every scan.

*Database side.* `ReceiptCoversProjections`: committed evidence without a receipt has every row
its event derives. `RepairCostsNothing`: replay counts are those of the sources, and no
connection is kept or awaited in a circle. `InventoryIsTrue`: a scan called complete is whole and
gives plugins only what is certainly theirs; current components follow the newest scan,
incidents count each occurrence once, what was not understood is reported; a component told as used
in a window is not told as cold in one that covers it, and the statements of a page agree: a use that
a skill's row counts is in its profile, or older than all a full profile lists. `AssertionsSettle`: an assertion becomes exact when it can and stays
so. `StreamAnswersAreTrue`, `StreamsAnswered`: what an App Server client is told is true of the
facts stored and of the health row, and it is told something.

*Operator's side.* `OneLiveLease`, `LostLeaseIsLost`: one running row per job, ended rows stay,
the handler of a lost lease stops. `ApprovalsAccounted`: approval, effect and ledger row are one
to one. `PublishedIsTrue`: a published artifact verifies, and a soak that passed has earned it.
`ArchivedOnlyReconciled`, `CutoverCompletes`. `OperatorIsServed`: attempts at the guards are
bounded and only authorized changes made (`GuardHolds`), plans own only their keys
(`PlansOwnOnlyTheirs`), pages of incidents neither skip nor repeat what stays
(`WorkbenchHolds`), ledgers tell the schema and what goes on is migrated (`SchemaIsKnown`).

*Integrity.* `OneLiveRun`, `PassedIsEarned`: whoever works on a run holds the lock and works on
the newest row; a pass has a fresh pass of every check asked for. `RecordsAgree`: the newest
reconciled outcome of a check tells whether an incident of its target is open, the engine's
incident is open since a listing of targets failed and names the last stage of the newest run in
which one did, what an incident refers to did fail, and incidents are intervals; reports agree with
rows, the baseline is one that ran. `ProbesAreBounded`: a probe passes only with its four records
found and with an hour's row, as it read it back, that counted exactly those, unless the repair job
wrote that row late; the canary is paced and paid for once, a passed canary cleaned up.
`HealthIsHonest`: green is earned, a finding shows in every dimension of its class and in those of
its stage, outcomes are sound. `RunsSettle`: ended runs stay, interrupted ones are ended.

### What the violated runs show

- `glue`: a write that stops after a prefix leaves an unterminated frame; the next append
  continues it, is fsynced and acknowledged, and no replay can decode the record.
- `shared`: a command replays the service's spool; what the service appends between the
  command's read and its rename is acknowledged and then replaced by an empty file.
- `exports`: a fact that two lanes reported, which the system wants, is exported with evidence
  of two source instances, which the import of the same build refuses.
- `leftover`: a synthetic probe that ends before its four events are found cannot identify what
  to delete and leaves it, and every later probe's cleanup then fails.

All four are recorded under `findings` with the sentence of the repository they contradict.

### Bounds, and why they are enough

`lane`: one lane, one slot, two callers, two records, two replayers; one stop, one I/O fault, one
outage. Lanes share only the WaitGroup, the process and the order of replay, so one lane has
every interleaving inside a lane; one of each mishap reaches every single failure in every
state, and a mishap can fall into the recovery from another kind. `live` has two lanes for the
order of replay. Callers and records are symmetric in `lane`; the liveness runs use no symmetry.
`repair`: two facts and two writers give every pair of transactions on shared buckets, and the
shortest cycle of waits; a worker of the job and the probe, which sent one of the facts, recompute
the same buckets side by side, one step fails, and one partition is dropped or one probe cleaned
up. Two handlers of the job that overlap do to each other what the job and the probe do; for any
number of them there are the proofs. `settle` needs one writer and one
worker, with batches of one so that a bucket waits for a second batch.

`ingest`: two requests of a source reorder, two lines half-written, two commits that may fail
before or after the rename; four clients whose requests hold every kind of record (foreign, not
understood, missing a key, valid), each sent twice; two session files of which the first may
block the second, with rotations and restarts; two runners of MCP streams with a call whose end
comes first; two senders of rejections.

`facts`: two sources report one MCP call, one with a receipt from before inputs were stored, and
three connections for two hand-overs and a repair; a plugin, its skill and a copy with its
name over three scans, of which one is partial; three windows, of which one covers the other two,
two requests, and profiles with room for one of two uses; three streams with too many requests, a
repeated outcome, a missing one and a bad frame; hosts with every kind of link, size, parse
error and cached version, edited twice during a scan of either agent.

`operations`: two processes, three attempts of a job, time in half leases; two previews, two
nonces, two callers with a store for one preview; two facts and two importers; two mirror facts
with two mishaps; a window of two attempts over two ticks, with twelve requests that are right or
wrong in one respect each; two incidents over four ticks; two targets of one file; four soak cycles
with three faults and two misdeeds; two starters of three builds, with an equivalent and an
edited checksum. `integrity`: one auditor with three triggers, a crash, a fault and an upgrade, or
two auditors with two triggers; two checks, of which one or both may fail to list targets; two probes with one slip; a canary over four ticks
with a cooldown of two; evidence of each health dimension changing twice.

In every case two of a kind are what it takes to collide, and the counters bound only how often
the environment acts. `CHECK_DEADLOCK FALSE` stands in the runs with a focus (and in `shared`)
because these counters let a behaviour end; in `lane`, `live`, `repair` and `settle` deadlock is
checked.

### Fairness

*`IngressQueue.FairSpec`.* Runnable goroutines run (`WF` on caller, worker and replay steps).
Taking a spool mutex is strongly fair because `sync.Mutex` hands itself over to a waiter that
starved for a millisecond. `Start` is fair because the service is deployed with
`restart: always`; `DatabaseRecovers` says that outages end; the shutdown steps are fair because
they run under a deadline. Nothing is assumed of clients, operators, crashes or faults.
`ServiceRecovers` assumes that spool files do not stay obstructed by a torn frame or a leftover
`.drained` file, which the code never removes.

*`RollupRepair.FairSpec`.* The job runs every minute and its statements return, open transactions
go on, and (strongly fair, because both are served in order) a waiter for a row lock gets it
and a queued bucket is claimed: PostgreSQL queues waiters, and claims take the oldest rows. A
job that fails three times shuts the appliance down, to be restarted.

*Focus runs.* Weak fairness, each on what a ticker, a timer or a live goroutine does: the steps
of the mirror's cut-over, which every start goes through again; the renewal of a lease, and a
handler whose context is cancelled; the steps of a scan of session files (`ScanStep`); an
inventory scan that stores a snapshot; the deadline of a stream and the `select` that answers
it; the steps of a process that starts (`MarkStaleRunsInterrupted` and what follows).

## 4. What is proved

For every value of the constants, with the assumptions each module names:

| Module | Theorem | Statement |
|---|---|---|
| `IngressQueue_proofs` | `TypeCorrect` | `Spec => []TypeOK` |
| | `AnswersReachTheirCaller` | `Spec => []OneJobPerWaiter` |
| | `AcknowledgedIsRetained` | if `~WriteFaults`, `Spec => []AckedRetained` |
| | `ServesWholeFiles` | if `~WriteFaults`, `Spec => []ServingFramesWhole` |
| | `QueueImplementsHandoff` | if `~WriteFaults`, `Spec => ImplementsHandoff` |
| | `SlotsAreAccounted` | `Spec => []QueueAccounted` |
| | `ReplaysBeforeReady` | `Spec => ReplayBeforeReady` |
| `RollupRepair_proofs` | `TypeCorrect` | `Spec => []TypeOK` |
| | `RepairsAccounted` | `Spec => []Accounted` |
| | `PublishedNeverShrinks` | `Spec => PublishedFactsStay` |
| | `InsertsNeverDeadlock` | `Spec => []NoWaitCycle` |
| `IngestState_proofs` | `PromisesStayDurable`, `IngestTyped` | `IngestSpec => []PromisesAreDurable` |
| | `CheckpointsAgree` | `RolloutSpec => []CheckpointAgrees` |
| | `AnswersStayTrue` | `ReceiverSpec => []AnswersAreTrue` |
| | `McpEvidenceHolds` | `McpSpec => []McpHolds` |
| | `CountersStayTrue` | `HealthSpec => []CountersAreTrue` |
| | `IngressTyped`, `IngressIsSafe`, `EvidenceStaysTrue` | every invariant of run `ingest`, of `MCIngest!Spec` |
| `FactHandoff_proofs` | `ReceiptsCover`, `FactsTyped` | `FactSpec => []ReceiptCoversProjections` |
| | `RepairsCostNothing` | if `FewCallers`, `FactSpec => []RepairCostsNothing` |
| | `StreamAnswersStayTrue`, `StreamTyped` | `StreamSpec => []StreamAnswersAreTrue` |
| | `ProjectionsStayTrue`, `InventoryTyped` | `InventorySpec => []ProjectionsAgree` |
| | `ExactStays` | `InventorySpec => ExactIsFinal` |
| | `PagesStayTrue`, `PagesTyped` | `PagesSpec => []ObservatoryHolds` |
| | `PartsTyped`, `FactsAreTrue`, `PagesAreTrue`, `InventoryStaysTrue`, `ExactIsKept` | every invariant of run `facts`, of `MCFacts!Spec`; `RepairsStayFree` if `FewCallers` |
| `HostScan_proofs` | `ScansAreTrue` | `ScanSpec => [](ScanTypeOK /\ ScanHolds)` |
| `Operations_proofs` | `JobTypes`, `LeaseIsExclusive` | `JobSpec => []OneLiveLease` |
| | `EndedRowsStay` | `JobSpec => TerminalRowsStay` |
| | `ApprovalsTyped`, `ApprovalsAreConsumedOnce` | `ApprovalSpec => []ApprovalsAccounted` |
| | `MirrorIsSafe` | `MirrorSpec => []ArchivedOnlyReconciled` |
| | `PublishedArtifactsVerify`, `ArtifactsTyped` | `ArtifactSpec => []ArtifactsVerify` |
| | `SoakPassIsEarned`, `SoakTyped` | `SoakSpec => []PassIsEarned` |
| `Operator_proofs` | `SchemaStaysKnown` | `MigrateSpec => []SchemaIsKnown` |
| | `PlansStayOutOfOthers` | `InstallSpec => []PlansOwnOnlyTheirs` |
| | `GuardsHold` | `GuardSpec => []GuardHolds` |
| | `WorkbenchStaysTrue` | `WorkSpec => []WorkbenchHolds` |
| | `OperationsTyped`, `OperationsAreSafe`, `PublishedStaysTrue`, `OperatorStaysServed` | every invariant of run `operations`, of `MCOperations!Spec` |
| `Integrity_proofs` | `RunsAreExclusive`, `PassesAreEarned` | `AuditSpec => [](OneLiveRun /\ PassedIsEarned)` |
| | `ReportsAgree` | `AuditSpec => [](ReportAgrees /\ BaselineWasRun)` |
| | `EndedRunsStay` | `AuditSpec => TerminalRunsStay` |
| | `ProbesStayBounded`, `ProbesTyped` | `ProbeSpec /\ CanarySpec => []ProbesAreBounded` |
| | `HealthStaysHonest` | `CheckSpec => []HealthIsHonest` |
| | `RunsAreSafe`, `EngineIsHonest`, `RecordsAreTrue`, `IntegrityTyped` | every invariant of run `integrity`, of `MCIntegrity!Spec` |

The specification of a component's theorem is its own `Init /\ [][Next]_vars` without the
fairness. The three groups with a focus also have theorems about the specification the run
checks: a step of the whole is a step of each part or leaves it alone (`PartsStep`), so a behaviour
of the whole is one of every part (`PartsOfSpec`). Two theorems need more than named assumptions
on constants: `~WriteFaults`, which run `glue` shows to be necessary, and `FewCallers`, that fewer
hand-overs run at once than the pool has connections: with as many, all may wait inside
`EnsurePartition`.

The assumptions on constants are those the code or the form of its data gives: bounds are
numbers; the frames of a stream, the records of a request and the migrations of a build are
sequences, and a terminal frame has one of the outcomes the parser knows; a component is not
`None` and a snapshot names known ones; a directory lists finitely many files, directories and
links, the versions in a cache have numbers, and the homes are CODEX_HOME and the profiles in it
(`ScanAssumption`); a target requires no key it never touches and shares no
required key with another (`targetSpecs`); every lane has its place in the order of replay; no check
of an audit graph is the finalization, which has a check id of its own (`stage11Check`). TLC
evaluates each of them in the run that instantiates the module.

### The invariants behind them

None of these properties is inductive as it stands.

*IngressQueue.* An answer goes to `worker.caller`, which must be a waiting goroutine. `Shape`
adds what each program counter says about the state around it and `OneJobPerWaiter`.
`RetainedInv` adds that the lines a replay has passed are complete, and all lines of a file it is
about to drain (`ReplayedSettled`), that a worker about to answer success has a retained record,
that acknowledged callers are in `acked`, and that no file a serving process may append to is
torn, which needs the startup replay to have passed whole files only (`PassedWhole`). The
refinement maps a step to `Own` of what the step added, to `Acknowledge` in `WorkerAnswer`, to
`MoveCheckpoint` in `Return`, and to a stutter otherwise. For the slots, `SlotInv` counts: the
slots in use are those of the callers that hold one and of a worker that has answered and not
released; `Gates` says which phases accept. `PassedEmpty` says that the lanes behind the startup
replay are empty, which `QuietFiles` keeps, because nothing appends before the listeners open.

*RollupRepair.* A write in progress could take a counted fact back out, and any number may be in
progress, so `Kept` says that whoever is about to write a bucket without a fact its row counts is
outdated, and `AllCovered` that each committed fact is kept, queued or claimed, in a worker's
reading, or missed; a write of an outdated reading then adds what it removes to `missed`. What a
commit relies on must be known before it: `TxShape` says that a transaction has added or found
queued each key it has passed, and that a key it found is still queued unless a claim or a deletion
has taken it since. For `PublishedFactsStay`, `Growing` adds that until something is dropped the
readings are of stored facts and that who is not outdated holds at least what the row counts;
`AddedInOrder` says that whoever is waited for at a daily key is past its own waits.

*IngestState.* A watermark is computed before its fact is durable and stored afterwards, so
`Asked` says that one which waits claims what was claimed before, or the sequence of its own
request, and that this request is in the sink by the time it stores. `Imported` says that the
importer is ahead of the store, and that everything up to the line it holds is settled: a read
ends in the line it began in (`ReadOneLine`), also when it begins or ends half-way. `Stores`
keeps the file at or ahead of the memory, so that a commit that failed after the rename is
harmless. `Bounded` counts the capacity in use.

*RolloutWatcher.* `UninterruptedReadKept` speaks of a read that is over. In its midst, `Learned`
says what the memory must have of the n lines passed: a marker was seen, or a marker and then a
call, unless the evidence is complete. `Earned` is the converse, what the memory has was written.
`Visit` ties the visit to the generation of the file it opened: after a rotation the line in hand
is of no file any more.

*Receivers, McpEvidence.* `Served` and `Runs` say that every record or frame before the next one
is stored or quarantined; what is stored never leaves (`Grows`), so an answer given late is still
true. `McpPageInv` bounds the counts of a page by what is kept now, through `Within`.

*IngestionHealth.* `Ledger` is a balance: what is recorded or missed and what is counted but not
recorded does not exceed the rejections there were; what was told and what is about to be told
does not exceed what is recorded or missed. A page that read the counters before the rows is then
wrong in one direction only.

*FactHandoff.* `Projected` says that a caller at statement n has written the rows of the n - 1
before, whoever else deletes the receipt meanwhile; the rows only grow, so a receipt that goes
was earned. `Counted` bounds a replay count by the calls that have committed, those in flight not
included. `Held` counts the connections of open transactions; `Orderly` says that the repair
opens none.

*AppServerStream.* `Follows` says that a bridge knows of each call what the frames before its next
one say. From the end of a stream on, every call waits in the order of reconciliation or is
`ServedCall`: stored or in hand, and, unless all its frames agree on the outcome, counted as a
rejection. `AnswerInv` carries this to the answer, which outlives the bridge, and `StoreInv` keeps
a fact that a second delivery repeats as it was.

*HostScan.* A scan gathers what it reads while the user edits what it has read, so `ScanInv` says
of each place either that it is still to be read (`ToRead`) or that what was read there is kept,
without naming which value that was: some configuration, cache and pointer that stood there when
the scan began unless the place was touched since (`ConfigWas`, `CacheWas`, `PointerWas`) are
joined in the plugins (`HomeRead`), some root in the children (`RootRead`). `Beheld` says that the
host is as it was but for the touched places, which is what a read takes over. Between the
configuration of a home and its cache the scan holds the former only (`ConfigTaken`); that the
right cache comes next is `InOrder`, from `Plan`. Conversely no plugin comes from elsewhere
(`PluginWas`). The lemmas then follow a value into the graph: versions are finitely many and each
has one candidate (`CandidatesAreOne`), a candidate has one descriptor (`CandidateIsDescribed`,
`DescribedIs`), and of descriptors that differ in their place only the one of the least home is
kept (`OneIsKept`, by the order of the naturals).

*ComponentInventory.* `RowsInv`: if a complete snapshot with something to show is newer than all
others, the rows are exactly its own (`Decides`, `Shows`), so that an older one stored again finds
a newer row. It is here that a snapshot of caches only must be left out: it leaves no row.
`CountsInv`: a manifest that counts has its occurrence, the set of which is finite. `Versions`:
only the last resolution of an assertion may be exact, the fact behind `ExactIsFinal`.

*Observatory.* `ToldInv`: whatever was told as used in a window has a use there now; the store only
adds to every window (`Grows`, shown in `StoreGrows`), and a window that covers another has its uses
too. `ReadInv`: so has what the request in progress calls used, what its rows count was exact when it
was read and is not among the open ones, and while a skill's profile reads on the uses of its row are
still resolved to it. `SkillRoom` is then what the last statement leaves: a counted use it does not
list is no newer than any it does, and the list is full. `ChildInv`: the activity of a plugin's child
was stored with an exact answer, so `ChildrenShown`, what a plugin's profile lists is resolved to a
child or to the plugin. `Serving` ties the request to its statements; together they are `PagesInv`.

*JobLease.* `Single`: running rows exclude each other and the row of a dead process, and who is
about to acquire has inserted a row that nobody decided yet (the partial unique index admits
one). *Approvals.* `WorkIsApproved` and `OneWorker`: who is about to act has inserted the row for
it, nobody has acted on that row, and two who are about to act have different rows;
`NoncesAreUnique` then makes effects one to one. *MirrorMigration.* What a start has done by the
step it is at (`BackedUp`, `Reconciled`, `Written`); the database only gains. *Artifacts.*
`DumpIsSnapshot`: what a backup has made so far is what its snapshot says; `ManifestCounts`: a
manifest stands beside the archive it counts; `VersionsCover`: registry rows read later name
records read earlier. *Soak.* `Orderly`: the events acknowledged and the faults executed are those
of the cycles behind; `Probed`: what was counted, in order, and what the last backup held.

*Migrations.* `SchemaInOrder`: the ledgers are what changed the schema, each version once and after
those before it; `Came`: a process has seen or written the rows up to where it is. *Installer.*
`WishIsKept`: for each key that has not its user's value a plan in force keeps that value in its
original, so that plans can be taken back in any order. *LocalGuard.* `GuardPair` relates the
window, which is reset, to the requests themselves: an open window let in at most what it counts,
and the window before it at most `Limit`, the first of them by now older than a window
(`WindowOpen`, `WindowOver`). *Workbench.* `RowsInv`: counts are those of the occurrences kept and
taken out, a recovery rests on evidence and a pass that are still there; `ReaderInv`: what a reader
got is above its cursor in falling order, and what was there when it began is below the cursor or
got.

*AuditRun.* `LiveRun`: an auditor at work holds the lock, works on the newest row and has its time;
`PriorOf`: passes it took over are fresh at that time; `Accounted`: what it was asked for is still
to do or earned. `RecordInv` with `Signing`: an auditor at work has a row that is not signed, with
the fingerprints it saw, and the rows a recovery has listed still run, if there is one instance
(with two, the second may end what the first has listed, and the properties do not claim more).
`IncidentInv` carries what stage 11 writes: every incident is dated, and closed later than its last
finding if at all; it refers to a run whose end is written, in a row that failed its way (`Refers`);
the engine's target has one incident at most, which is open (`Single`) and names the last stage of the
newest run in which one could not list its targets (`ToldOfEngine`). With one instance the auditor is moreover later than every incident from its
start to its trigger, and at the clock from there to its end (`Clocked`), which is what makes a new
finding newer than the incident it follows; of a key only the newest incident is open (`OneOpen`),
so that a pass, which resolves the latest, leaves none; and the newest ended run with an outcome of
a check tells whether one is open (`ToldBy`), which gives `IncidentsFollowEvidence`; steps that end
no run leave what was told (`Standing`). Stage 11 goes through the rows of a run in the order of the
graph; since a check's row touches only incidents of the check's own target, and the rows without
targets only the engine's, the model writes the outcome as one set (`Follows`, `EngineFollows`). That
the latest incident exists is `Greatest`, from the well-founded order of the naturals.
*Probes.* `Seeing`: a probe gets past its scope only with the lane of each record it sent. `Reading`:
those records stay until its cleanup, so what it has read counts them, and once it has written the
hour's row so does that row and every reading the job has not written yet, unless a late writing
replaced it; four counted then are exactly the four. `Paced`:
the gate has the time of the newest observer; `Clean`: after a pass only an observer that was given
up may have left something. *AuditChecks.* `Recorded`: the evidence of a restore is the newest
restore test that ran; `RowFits`: an outcome is the evidence it was drawn from; `AlarmsInv`: a
row fails with a class of findings, and the finding a finished audit left on a check has its incident
open under that class, which is what lays it over the dimensions of the class.

### Only model-checked

- Everything temporal under fairness: `WaiterAnswered`, `ServiceRecovers`, `RepairsHappen`,
  `SessionsAreConsumed`, `StreamsAnswered`, `CutoverCompletes`, and the liveness half of
  `AssertionsSettle`, `LostLeaseIsLost` and `RunsSettle` (their action properties `ExactIsFinal`,
  `TerminalRowsStay` and `TerminalRunsStay` are proved; `LostLeaseIsLost` adds that a handler stops).

Every safety invariant and action property the runs check has a theorem, four of them under the
hypotheses named above (`~WriteFaults`, `FewCallers`).

## 5. Known departures

Where the code does something that its documents, or a reader, may not expect. The models do what
the code does; the four that a run shows are under section 3.

**Queue and spool.** A drain that meets its deadline abandons the jobs still in the channel
(their callers were told nothing). A `.drained` file left by a crash between creation and rename
is refused by `O_EXCL` at every later replay, and at the start. The first lane whose replay fails
keeps the later lanes from being replayed. Quarantine metadata is not part of the drain's
WaitGroup, so the pool may close under it.

**Rollups.** A claim between a fact's enqueue and its commit takes the row the insert relied on
(`rollup.go:57`, `repair.go:25`): the fact is not counted until its bucket is dirtied again. When
one bucket of a claimed batch fails, the others are in no queue any more. The lease of the job
bounds its rows, not its handlers, and the synthetic probe recomputes with neither claim nor lease
(`syntheticpipeline.go:668`): an older reading may be written over a newer one, and the facts only
the newer counted are in no queue either. The probe then deletes every queue row of its scope
(`syntheticpipeline.go:673`), those that came after its reading included. A bucket recomputed after its partition was dropped replaces published history. A scope
with an empty part is recomputed with `= NULL` and counts nothing. Imported facts enqueue no
repair (`export.go:704`).

**Receivers.** `DurableIngressQueue` has no `PersistMetricSample`, so every documented Claude metric
point ends in `ErrMetricLaneUnavailable`, answered as a client error, though `metricsample.go:58`
says the caller should retry (`MetricLane = FALSE`).

**Ingestion health.** `CounterPersistenceUnavailable` is cleared by a throttled success that wrote
nothing (`queue-and-durability.yaml:51` says by a successful write); the throttle is set before a
write that may fail; the page takes the larger of memory and row, so two processes are
under-counted.

**Fact hand-over.** Evidence that corroborates a known fact keeps its receipt pending until an
operator's repair. Concurrent requests of one source may move its watermark back. A duplicate
replay may write a lifecycle row for another component.

**Inventory.** Claude settings that do not parse, or are cut at 1 MiB, leave no gap; versions above 8
of a plugin, marketplaces above 64 and plugins above 1024 are cut without one
(`adaptersdk/types.go:303` calls that a silently truncated inventory). A skill whose name is a scope
name is dropped. A rescan with a new gap keeps the completeness first stored, because the
fingerprint excludes gaps. Claude's children of cached plugins are not marked cached, Codex's are.
After an empty complete snapshot an older one brings components back. Re-resolution ignores the
scope filter of the first lookup, and assertions without a qualified name are never resolved again.

**Observatories.** A profile lists 500 assertions at most and does not say that it left some out
(`skill_observatory.go:385`, `plugin_observatory.go:387`). The window that makes an exposure complete
is one microsecond long and is stored only with an identity that is exact at once, so a skill whose
exposure is resolved later stays not observed. A plugin's profile lists by the resolution at ingest: a
use that is resolved later is counted in its row and not listed. A partial snapshot keeps absent components eligible; a list and the count of what
is open are two statements; an activity that becomes exact only by re-resolution never becomes a
plugin's child activity; a plugin page compares children of two snapshots. An MCP frame refused in
its contents has already left component rows; calls of a server without a server frame are
invisible; of two frames with one idempotency key the second is dropped but counted accepted.

**App Server.** The outcome of a call without a terminal stays unknown although a later stream
completes it (`terminal-outcomes.yaml:42`); the lifecycle returns to producing after a rejection.

**Operations.** A retention is marked applied before incident metadata expires. Previews of
retention are never purged. `Import` needs no preview though `auth-and-plans.yaml:44` lists it.
Rolling back an installer plan that was never applied succeeds if the user set the planned values
himself; real writes are always refused. Migrations run without a lock: a second migrator may fail
and must be started again, and an older build starts unnoticed on a newer ledger. A job that fails
three times ends the appliance, by design.

**Soak.** `QueryRollup` accepts the 503 its comment excludes; `IsDurable` compares with one rather
than with the acknowledged set; a leftover `.tmp` blocks later runs; evidence of an earlier pass
stays when a later run fails.

**Integrity.** As wired (`internal/runtime/integrity.go:42-93`), discovery, endpoints, freshness,
fixtures, reconciliation and unknown schemas get empty lists of targets, and the live canary no
recipe: these stages check nothing there, and their dimensions have no evidence. `AuditChecks` models
the checks with targets. All rows of stages that cannot list their targets share one incident, which
names the last of them and which no pass closes, since no check passes under that name
(`scheduler.go:237-245`). Incidents are laid over dimensions by their failure class, so a finding of
discovery may colour connectivity and leave configuration as its rows say. A late write of the repair
job over the row a synthetic probe has just written decides what the probe reads back. Stage 11's own
incident is never resolved. An advisory lock is lost with its connection while the process lives on
and is not told (`advisorylock.go:41-52`); the models lose it with the process only. With two instances the test of the lock
and the list of running rows race, so a live run may be marked failed and then overwritten. Rows
left `scheduled` by a crash are not recovered. A reused pass is not tied to the version and may be
older than a newer failure; stage 11 is then refused twice and ends the appliance
(`assembly.go:386`). `RunBackupCycle` and the recording of recoveries have no production caller, so
backup and restore checks fail there. `RunOnStartup` stores the current fingerprints after any
passed startup run, so an upgrade while down becomes the baseline
(`audit-run-and-schedule.yaml:16`). Health takes the tier of an open incident over the derived
state, and a newer pending row hides a fresh pass (`incident-and-health.yaml:76`). An ingress
incident resolved once stays resolved when it recurs.

## 6. Not modelled

- *Privacy boundary* (`internal/privacy`): a pure sanitizer over text. Its invariants are about
  strings; a model over record identities could only assume them.
- *Configuration, secrets, capacity*: read once at the start or measured; no state that changes.
- *Web dashboard*: presentation state in the browser.
- *Field mappings* of adapters and read models, JSON shapes, file formats, encryption, SQL text of
  partitions: abstracted to the identity of a record, and to its disposition where an answer
  depends on it.
- `SessionEvidence` and the tolerance registry of both adapters, `Downgrade` of migrations,
  `FileStore`: nothing in production calls them.
- A commit that succeeds while its answer is lost, but where a module names it (the spooled record
  that is also stored, `SendSpooled`); the audit's transactions either commit or do not.
- Checks that compare two documents (drift of schema, fixtures, formulas): their outcome is an input
  of `AuditChecks`.
- `StartTargetedVersionRun`'s matching of targets; notes of an acknowledgement.

What the models abstract from in the modules that exist is named in each module's header; in
particular PostgreSQL is a set of rows with its unique constraints, row locks and atomic
transactions at read committed, and a clock is a counter.

## 7. Plan

Done, in the order of importance: the queue with its refinement and proofs; rollup repair; the
hand-over; local state and importers; leases, approvals, artifacts and the cut-over; inventory and
pages; the integrity engine; then proofs of the safety properties that decide whether data or
authority is lost.

Worth doing next: `IngressQueue` with the two processes of `SpoolSharing` composed into
its worker and replay, so that the loss shown by `shared` is seen from the client; and an abstract
specification of the integrity engine (a dimension is green only between a pass and the next
finding) that `AuditRun` and `AuditChecks` implement together.
