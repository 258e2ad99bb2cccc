--------------------------- MODULE Operations_proofs ---------------------------
(***************************************************************************)
(* Proofs about what an operator starts and what is kept for him: leases   *)
(* of scheduled jobs, the cutover of the legacy mirror, guarded            *)
(* operations, published artifacts and the soak.  For any processes,       *)
(* attempts, facts, previews, nonces, callers, importers and cycles, and   *)
(* any number of crashes.                                                  *)
(***************************************************************************)
EXTENDS JobLease, Approvals, MirrorMigration, Artifacts, Soak,
        FiniteSetTheorems, SequenceTheorems, TLAPS


-----------------------------------------------------------------------------
-----------------------------------------------------------------------------
(* JobLease: at most one live lease, and finished rows that stay finished. *)

JobSpec == JobInit /\ [][JobNext]_jobVars

\* What makes one lease inductive: running rows and the rows of dead processes
\* exclude each other and are one at most, and who is about to acquire has
\* inserted a row that is not decided yet.
OneRunning == \A v, w \in Worker : row[v] = "running" /\ row[w] = "running" => v = w
OneOrphan == \A m, n \in orphan : m = n
NotBoth == \A w \in Worker : row[w] = "running" => orphan = {}
InsertedFirst == \A w \in Worker : stage[w] = "acquiring" => row[w] = "scheduled"
Single == OneRunning /\ OneOrphan /\ NotBoth /\ InsertedFirst
JobInv == JobTypeOK /\ Single

USE DEF Lease, Terminal, HandlerOn

-----------------------------------------------------------------------------
LEMMA JobInitInv == JobInit => JobInv
BY JobAssumption DEF JobInit, JobInv, JobTypeOK, Single, OneRunning, OneOrphan, NotBoth, InsertedFirst

\* Recovery only ends running rows.
LEMMA RecoveredType ==
  ASSUME JobTypeOK, NEW w \in Worker
  PROVE  /\ Recovered(row) \in [Worker -> {"none", "scheduled", "running"} \cup Terminal]
         /\ Recovered(row)[w] = row[w] \/ (row[w] = "running" /\ Recovered(row)[w] = "interrupted")
BY DEF JobTypeOK, Recovered

\* The row a finished run gets is one that ended.
LEMMA FinalStateEnds ==
  ASSUME NEW w \in Worker
  PROVE  FinalState(w) \in {"passed", "failed", "cancelled"}
BY DEF FinalState

-----------------------------------------------------------------------------
\* Every step keeps the types.
LEMMA JobTypeStep == JobTypeOK /\ [JobNext]_jobVars => JobTypeOK'
<1> SUFFICES ASSUME JobTypeOK, [JobNext]_jobVars PROVE JobTypeOK'
  OBVIOUS
<1>1. CASE UNCHANGED jobVars
  BY <1>1 DEF jobVars, JobTypeOK
<1>2. CASE RunCommand
  BY <1>2, RecoveredType DEF RunCommand, RecoverInterrupted, Recovered, JobTypeOK
<1>3. CASE TimePasses
  <2>1. left' \in [Worker -> 0 .. Lease]
    <3>1. \A w \in Worker : (IF left[w] > 0 THEN left[w] - 1 ELSE 0) \in 0 .. Lease
      BY DEF JobTypeOK
    <3> QED BY <1>3, <3>1 DEF TimePasses
  <2>2. orphan' \subseteq 0 .. Lease
    <3>1. \A n \in orphan : (IF n > 0 THEN n - 1 ELSE 0) \in 0 .. Lease
      BY DEF JobTypeOK
    <3> QED BY <1>3, <3>1 DEF TimePasses
  <2> QED BY <1>3, <2>1, <2>2 DEF TimePasses, JobTypeOK
<1>4. ASSUME NEW w \in Worker, StartServing(w) PROVE JobTypeOK'
  BY <1>4, RecoveredType DEF StartServing, Recovered, JobTypeOK
<1>5. ASSUME NEW w \in Worker, JobTicker(w) PROVE JobTypeOK'
  BY <1>5, JobAssumption DEF JobTicker, JobTypeOK
<1>6. ASSUME NEW w \in Worker, InsertRun(w) PROVE JobTypeOK'
  BY <1>6 DEF InsertRun, JobTypeOK
<1>7. ASSUME NEW w \in Worker, AcquireLease(w) PROVE JobTypeOK'
  <2>1. left' \in [Worker -> 0 .. Lease]
    BY <1>7 DEF AcquireLease, JobTypeOK
  <2> QED BY <1>7, <2>1 DEF AcquireLease, JobTypeOK
<1>8. ASSUME NEW w \in Worker, RenewLease(w) PROVE JobTypeOK'
  BY <1>8 DEF RenewLease, JobTypeOK
<1>9. ASSUME NEW w \in Worker, NoticeShutdown(w) PROVE JobTypeOK'
  BY <1>9 DEF NoticeShutdown, JobTypeOK
<1>10. ASSUME NEW w \in Worker, HandlerReturns(w) PROVE JobTypeOK'
  BY <1>10 DEF HandlerReturns, JobTypeOK
<1>11. ASSUME NEW w \in Worker, FinishRun(w) PROVE JobTypeOK'
  <2>1. row' \in [Worker -> {"none", "scheduled", "running"} \cup Terminal]
    BY <1>11, FinalStateEnds DEF FinishRun, Finished, JobTypeOK
  <2>2. attempt' \in [Worker -> 0 .. MaxAttempts]
    BY <1>11, JobAssumption DEF FinishRun, MayRetry, JobTypeOK
  <2> QED BY <1>11, <2>1, <2>2 DEF FinishRun, JobTypeOK
<1>12. ASSUME NEW w \in Worker, AskShutdown(w) PROVE JobTypeOK'
  BY <1>12 DEF AskShutdown, JobTypeOK
<1>13. ASSUME NEW w \in Worker, ProcessEnds(w) PROVE JobTypeOK'
  <2>1. orphan' \subseteq 0 .. Lease
    BY <1>13 DEF ProcessEnds, JobTypeOK
  <2>2. left' \in [Worker -> 0 .. Lease] /\ attempt' \in [Worker -> 0 .. MaxAttempts]
    BY <1>13, JobAssumption DEF ProcessEnds, JobTypeOK
  <2> QED BY <1>13, <2>1, <2>2 DEF ProcessEnds, JobTypeOK
<1> QED
  BY <1>1, <1>2, <1>3, <1>4, <1>5, <1>6, <1>7, <1>8, <1>9, <1>10, <1>11, <1>12, <1>13 DEF JobNext

-----------------------------------------------------------------------------
\* A step that makes no row running and touches no lease of the dead keeps what
\* was single single.
LEMMA FewerRunning ==
  ASSUME Single, orphan' \subseteq orphan,
         \A w \in Worker : row'[w] = "running" => row[w] = "running"
  PROVE  (OneRunning /\ OneOrphan /\ NotBoth)'
BY DEF Single, OneRunning, OneOrphan, NotBoth

LEMMA SingleStep == JobInv /\ [JobNext]_jobVars => Single'
<1> SUFFICES ASSUME JobInv, [JobNext]_jobVars PROVE Single'
  OBVIOUS
<1>0. JobTypeOK /\ Single
  BY DEF JobInv
<1>1. CASE UNCHANGED jobVars
  BY <1>0, <1>1 DEF jobVars, Single, OneRunning, OneOrphan, NotBoth, InsertedFirst
<1>2. CASE RunCommand
  <2>1. (OneRunning /\ OneOrphan /\ NotBoth)'
    BY <1>0, <1>2, RecoveredType, FewerRunning DEF RunCommand, RecoverInterrupted
  <2>2. InsertedFirst'
    BY <1>0, <1>2, RecoveredType DEF RunCommand, RecoverInterrupted, Single, InsertedFirst
  <2> QED BY <2>1, <2>2 DEF Single
<1>3. CASE TimePasses
  BY <1>0, <1>3 DEF TimePasses, Single, OneRunning, OneOrphan, NotBoth, InsertedFirst
<1>4. ASSUME NEW w \in Worker, StartServing(w) PROVE Single'
  <2>1. \A v \in Worker : row'[v] = IF v = w THEN "none" ELSE Recovered(row)[v]
    BY <1>0, <1>4, RecoveredType DEF StartServing
  <2>2. (OneRunning /\ OneOrphan /\ NotBoth)'
    BY <1>0, <1>4, <2>1, RecoveredType, FewerRunning DEF StartServing
  <2>3. InsertedFirst'
    BY <1>0, <1>4, <2>1, RecoveredType DEF StartServing, Single, InsertedFirst, JobTypeOK
  <2> QED BY <2>2, <2>3 DEF Single
<1>5. ASSUME NEW w \in Worker, JobTicker(w) PROVE Single'
  BY <1>0, <1>5 DEF JobTicker, JobTypeOK, Single, OneRunning, OneOrphan, NotBoth, InsertedFirst
<1>6. ASSUME NEW w \in Worker, InsertRun(w) PROVE Single'
  BY <1>0, <1>6 DEF InsertRun, JobTypeOK, Single, OneRunning, OneOrphan, NotBoth, InsertedFirst
<1>7. ASSUME NEW w \in Worker, AcquireLease(w) PROVE Single'
  <2>1. CASE Admitted
    \* Nobody runs, so the new row is the only one.
    <3>1. \A v \in Worker : row'[v] = IF v = w THEN "running" ELSE row[v]
      BY <1>0, <1>7, <2>1 DEF AcquireLease, JobTypeOK
    <3>2. \A v \in Worker : row[v] # "running"
      BY <2>1 DEF Admitted, RunningRows
    <3>3. orphan' = {} /\ \A v \in Worker : stage'[v] = "acquiring" => v # w /\ stage[v] = "acquiring"
      BY <1>0, <1>7, <2>1 DEF AcquireLease, Admitted, JobTypeOK
    <3> QED BY <1>0, <3>1, <3>2, <3>3 DEF Single, OneRunning, OneOrphan, NotBoth, InsertedFirst
  <2>2. CASE ~Admitted
    BY <1>0, <1>7, <2>2 DEF AcquireLease, JobTypeOK, Single, OneRunning, OneOrphan, NotBoth, InsertedFirst
  <2> QED BY <2>1, <2>2
<1>8. ASSUME NEW w \in Worker, RenewLease(w) PROVE Single'
  BY <1>0, <1>8 DEF RenewLease, JobTypeOK, Single, OneRunning, OneOrphan, NotBoth, InsertedFirst
<1>9. ASSUME NEW w \in Worker, NoticeShutdown(w) PROVE Single'
  BY <1>0, <1>9 DEF NoticeShutdown, JobTypeOK, Single, OneRunning, OneOrphan, NotBoth, InsertedFirst
<1>10. ASSUME NEW w \in Worker, HandlerReturns(w) PROVE Single'
  BY <1>0, <1>10 DEF HandlerReturns, JobTypeOK, Single, OneRunning, OneOrphan, NotBoth, InsertedFirst
<1>11. ASSUME NEW w \in Worker, FinishRun(w) PROVE Single'
  <2>1. \A v \in Worker : row'[v] = row[v] \/ (row[v] = "running" /\ row'[v] # "running" /\ v = w)
    BY <1>0, <1>11, FinalStateEnds DEF FinishRun, Finished, JobTypeOK
  <2>2. (OneRunning /\ OneOrphan /\ NotBoth)'
    BY <1>0, <1>11, <2>1, FewerRunning DEF FinishRun
  <2>3. InsertedFirst'
    BY <1>0, <1>11, <2>1 DEF FinishRun, JobTypeOK, Single, InsertedFirst
  <2> QED BY <2>2, <2>3 DEF Single
<1>12. ASSUME NEW w \in Worker, AskShutdown(w) PROVE Single'
  BY <1>0, <1>12 DEF AskShutdown, JobTypeOK, Single, OneRunning, OneOrphan, NotBoth, InsertedFirst
<1>13. ASSUME NEW w \in Worker, ProcessEnds(w) PROVE Single'
  <2>1. \A v \in Worker : row'[v] = IF v = w THEN "none" ELSE row[v]
    BY <1>0, <1>13 DEF ProcessEnds, JobTypeOK
  <2>2. CASE row[w] = "running"
    \* Its row becomes the one row without a process.
    BY <1>0, <1>13, <2>1, <2>2 DEF ProcessEnds, JobTypeOK, Single, OneRunning, OneOrphan, NotBoth, InsertedFirst
  <2>3. CASE row[w] # "running"
    BY <1>0, <1>13, <2>1, <2>3 DEF ProcessEnds, JobTypeOK, Single, OneRunning, OneOrphan, NotBoth, InsertedFirst
  <2> QED BY <2>2, <2>3
<1> QED
  BY <1>1, <1>2, <1>3, <1>4, <1>5, <1>6, <1>7, <1>8, <1>9, <1>10, <1>11, <1>12, <1>13 DEF JobNext

-----------------------------------------------------------------------------
\* The sum of OneLiveLease is one at most when the sets are.
LEMMA AtMostOne ==
  ASSUME NEW S, \A x, y \in S : x = y
  PROVE  IsFiniteSet(S) /\ Cardinality(S) \in {0, 1} /\ (S = {} => Cardinality(S) = 0)
<1>1. CASE S = {}
  BY <1>1, FS_EmptySet
<1>2. CASE S # {}
  <2> PICK x \in S : S = {x}
    BY <1>2
  <2> QED BY FS_Singleton
<1> QED BY <1>1, <1>2

LEMMA SingleIsOneLease == Single => OneLiveLease
<1> SUFFICES ASSUME Single PROVE OneLiveLease
  OBVIOUS
<1>1. Cardinality(RunningRows) \in {0, 1} /\ (RunningRows = {} => Cardinality(RunningRows) = 0)
  BY AtMostOne DEF Single, OneRunning, RunningRows
<1>2. Cardinality(orphan) \in {0, 1} /\ (orphan = {} => Cardinality(orphan) = 0)
  BY AtMostOne DEF Single, OneOrphan
<1>3. RunningRows = {} \/ orphan = {}
  BY DEF Single, NotBoth, RunningRows
<1> QED BY <1>1, <1>2, <1>3 DEF OneLiveLease

\* A finished row is changed only by the next start or run of its process.
LEMMA TerminalStep == JobInv /\ [JobNext]_jobVars =>
  \A w \in Worker : row[w] \in Terminal => row'[w] \in {row[w], "none", "scheduled"}
<1> SUFFICES ASSUME JobInv, [JobNext]_jobVars, NEW v \in Worker, row[v] \in Terminal
             PROVE  row'[v] \in {row[v], "none", "scheduled"}
  OBVIOUS
<1>0. JobTypeOK /\ InsertedFirst
  BY DEF JobInv, Single
<1>1. CASE UNCHANGED jobVars
  BY <1>1 DEF jobVars
<1>2. CASE RunCommand \/ TimePasses
  BY <1>0, <1>2, RecoveredType DEF RunCommand, RecoverInterrupted, TimePasses
<1>3. ASSUME NEW w \in Worker, StartServing(w) PROVE row'[v] \in {row[v], "none", "scheduled"}
  BY <1>0, <1>3, RecoveredType DEF StartServing
<1>4. ASSUME NEW w \in Worker, InsertRun(w) PROVE row'[v] \in {row[v], "none", "scheduled"}
  BY <1>0, <1>4 DEF InsertRun, JobTypeOK
<1>5. ASSUME NEW w \in Worker, AcquireLease(w) PROVE row'[v] \in {row[v], "none", "scheduled"}
  \* The row it decides is "scheduled", so it is not that of v.
  BY <1>0, <1>5 DEF AcquireLease, InsertedFirst, JobTypeOK
<1>6. ASSUME NEW w \in Worker, FinishRun(w) PROVE row'[v] \in {row[v], "none", "scheduled"}
  \* The update is conditional on the row still running.
  BY <1>0, <1>6 DEF FinishRun, Finished, JobTypeOK
<1>7. ASSUME NEW w \in Worker, ProcessEnds(w) PROVE row'[v] \in {row[v], "none", "scheduled"}
  BY <1>0, <1>7 DEF ProcessEnds, JobTypeOK
<1>8. ASSUME NEW w \in Worker,
             JobTicker(w) \/ RenewLease(w) \/ NoticeShutdown(w) \/ HandlerReturns(w) \/ AskShutdown(w)
      PROVE  row'[v] \in {row[v], "none", "scheduled"}
  BY <1>8 DEF JobTicker, RenewLease, NoticeShutdown, HandlerReturns, AskShutdown
<1> QED
  BY <1>1, <1>2, <1>3, <1>4, <1>5, <1>6, <1>7, <1>8 DEF JobNext

-----------------------------------------------------------------------------
LEMMA JobInvStep == JobInv /\ [JobNext]_jobVars => JobInv'
BY JobTypeStep, SingleStep DEF JobInv

LEMMA JobInvariant == JobSpec => []JobInv
BY JobInitInv, JobInvStep, PTL DEF JobSpec

\* Types: the states of rows, leases and handlers.
THEOREM JobTypes == JobSpec => []JobTypeOK
<1>1. JobInv => JobTypeOK
  BY DEF JobInv
<1> QED BY <1>1, JobInvariant, PTL

\* At most one running row of a job exists, in whatever order processes start,
\* crash, recover each other's rows and are late with their leases.
THEOREM LeaseIsExclusive == JobSpec => []OneLiveLease
<1>1. JobInv => OneLiveLease
  BY SingleIsOneLease DEF JobInv
<1> QED BY <1>1, JobInvariant, PTL

\* A run that was interrupted, or ended otherwise, is never given a result by
\* the process that has lost it.
THEOREM EndedRowsStay == JobSpec => TerminalRowsStay
<1>1. JobInv /\ [JobNext]_jobVars => [\A w \in Worker :
        row[w] \in Terminal => row'[w] \in {row[w], "none", "scheduled"}]_jobVars
  BY TerminalStep
<1> QED BY <1>1, JobInvariant, PTL DEF JobSpec, TerminalRowsStay

HIDE DEF Lease, Terminal, HandlerOn


-----------------------------------------------------------------------------
-----------------------------------------------------------------------------
(* MirrorMigration: the mirror leaves only when the database has it all.   *)

MirrorSpec == MirrorInit /\ [][MirrorNext]_mirrorVars

\* What a start has done by the step it is at: the backup is there, the
\* database was found to hold the mirror, the report is written.
BackedUp == cutover = "reconciling" => "backup" \in files
Reconciled == cutover \in {"reporting", "archiving", "migrating"} =>
  dbKeys = MirrorFact /\ verdict = "reconciled" /\ "backup" \in files
Written == cutover \in {"archiving", "migrating"} => "report" \in files
MirrorInv == MirrorTypeOK /\ BackedUp /\ Reconciled /\ Written /\ ArchivedOnlyReconciled

USE MirrorAssumption
USE DEF MirrorFile

LEMMA MirrorInitInv == MirrorInit => MirrorInv
<1> SUFFICES ASSUME MirrorInit PROVE MirrorInv
  OBVIOUS
<1> USE DEF MirrorInit
<1>1. files \subseteq MirrorFile /\ differing \subseteq MirrorFact \ dbKeys /\ dbKeys \subseteq MirrorFact
  OBVIOUS
<1>2. mishaps \in 0 .. MaxMishaps
  OBVIOUS
<1>3. migrated \in BOOLEAN
  OBVIOUS
<1>4. MirrorTypeOK
  BY <1>1, <1>2, <1>3 DEF MirrorTypeOK
<1>5. BackedUp /\ Reconciled /\ Written /\ ArchivedOnlyReconciled
  BY DEF BackedUp, Reconciled, Written, ArchivedOnlyReconciled
<1> QED BY <1>4, <1>5 DEF MirrorInv

LEMMA MirrorTypeStep == MirrorTypeOK /\ [MirrorNext]_mirrorVars => MirrorTypeOK'
<1> SUFFICES ASSUME MirrorTypeOK, [MirrorNext]_mirrorVars PROVE MirrorTypeOK'
  OBVIOUS
<1> USE DEF MirrorTypeOK
<1>1. CASE DatabaseCatchesUp
  BY <1>1 DEF DatabaseCatchesUp
<1>2. CASE CutoverStart
  BY <1>2 DEF CutoverStart
<1>3. CASE CopyCreate
  BY <1>3 DEF CopyCreate
<1>4. CASE CopyPublish
  <2>1. files' \subseteq MirrorFile
    BY <1>4 DEF CopyPublish
  <2>2. mishaps' \in 0 .. MaxMishaps
    BY <1>4 DEF CopyPublish, Step, Mishap
  <2> QED BY <1>4, <2>1, <2>2 DEF CopyPublish, Step, Mishap
<1>5. CASE Reconcile
  BY <1>5 DEF Reconcile, Step, Mishap
<1>6. CASE WriteReport
  BY <1>6 DEF WriteReport, Step
<1>7. CASE Archive
  BY <1>7 DEF Archive, Step
<1>8. CASE MigrateCheckpoints
  BY <1>8 DEF MigrateCheckpoints, Step
<1>9. CASE MirrorCrash
  BY <1>9 DEF MirrorCrash, Mishap
<1>10. CASE UNCHANGED mirrorVars
  BY <1>10 DEF mirrorVars
<1> QED BY <1>1, <1>2, <1>3, <1>4, <1>5, <1>6, <1>7, <1>8, <1>9, <1>10 DEF MirrorNext

\* The database only grows, and a row once reconciled is reconciled again: what
\* the archive rests on is never taken away.
LEMMA MirrorInvStep == MirrorInv /\ [MirrorNext]_mirrorVars => MirrorInv'
<1> SUFFICES ASSUME MirrorInv, [MirrorNext]_mirrorVars
             PROVE  (BackedUp /\ Reconciled /\ Written /\ ArchivedOnlyReconciled)'
  BY MirrorTypeStep DEF MirrorInv
<1> USE DEF MirrorInv, BackedUp, Reconciled, Written, ArchivedOnlyReconciled
<1>1. CASE DatabaseCatchesUp
  BY <1>1 DEF DatabaseCatchesUp, MirrorTypeOK
<1>2. CASE CutoverStart
  BY <1>2 DEF CutoverStart
<1>3. CASE CopyCreate
  BY <1>3 DEF CopyCreate
<1>4. CASE CopyPublish
  BY <1>4 DEF CopyPublish, Step, Mishap
<1>5. CASE Reconcile
  BY <1>5 DEF Reconcile, Step, Mishap
<1>6. CASE WriteReport
  BY <1>6 DEF WriteReport, Step
<1>7. CASE Archive
  BY <1>7 DEF Archive, Step
<1>8. CASE MigrateCheckpoints
  BY <1>8 DEF MigrateCheckpoints, Step
<1>9. CASE MirrorCrash
  BY <1>9 DEF MirrorCrash, Mishap
<1>10. CASE UNCHANGED mirrorVars
  BY <1>10 DEF mirrorVars
<1> QED BY <1>1, <1>2, <1>3, <1>4, <1>5, <1>6, <1>7, <1>8, <1>9, <1>10 DEF MirrorNext

LEMMA MirrorInvariant == MirrorSpec => []MirrorInv
BY MirrorInitInv, MirrorInvStep, PTL DEF MirrorSpec

\* copyOrVerifyPrivateFile, reconcileMirrorState and the rename, interrupted and
\* begun again as often as you like: the mirror is in the archive only when the
\* database holds all of it with its lineage, the row says so, and a backup and
\* a report exist.
THEOREM MirrorIsSafe == MirrorSpec => []ArchivedOnlyReconciled
<1>1. MirrorInv => ArchivedOnlyReconciled
  BY DEF MirrorInv
<1> QED BY <1>1, MirrorInvariant, PTL

HIDE MirrorAssumption
HIDE DEF MirrorFile


-----------------------------------------------------------------------------
-----------------------------------------------------------------------------
(* Approvals: approvals, effects and rows of the ledger are one to one.    *)

\* A caller that does something has a preview and a nonce of its own.
CallerBusy == \A c \in Caller : request[c].at # "idle" =>
  request[c].id \in Preview /\ request[c].nonce \in Nonce

\* Previews are counted, so there are finitely many.
OpenFinite == IsFiniteSet(open)

ApprovalTypes == ApprovalTypeOK /\ CallerBusy /\ OpenFinite

\* A nonce stands in one row of the ledger at most, and only in a row that is
\* there: what UNIQUE and the primary key promise.
RowsHaveNonces == \A p \in Preview : ledger[p] = "none" => ledgerNonce[p] = NoPreview
NoncesAreUnique == \A p, q \in Preview :
  ledger[p] # "none" /\ ledgerNonce[p] = ledgerNonce[q] => p = q

\* Who is about to act has inserted the row for it, and nobody has acted on
\* that row; two who are about to act have different rows.
AtWork(c) == request[c].at = "working"
WorkIsApproved == \A c \in Caller : AtWork(c) =>
  /\ ledger[request[c].id] # "none" /\ ledgerNonce[request[c].id] = request[c].nonce
  /\ effects[request[c].id][request[c].nonce] = 0
OneWorker == \A c, d \in Caller :
  AtWork(c) /\ AtWork(d) /\ request[c].id = request[d].id => c = d

\* A retention that goes on after its effect still has its row.
AtExpiry(c) == request[c].at = "expiring"
ExpiringRecorded == \A c \in Caller : AtExpiry(c) => ledger[request[c].id] # "none"

EffectsCounted == \A p \in Preview, n \in Nonce : effects[p][n] <= 1

ApprovalLedger ==
  /\ RowsHaveNonces /\ NoncesAreUnique /\ WorkIsApproved /\ OneWorker /\ ExpiringRecorded
  /\ EffectsCounted /\ EffectsAreRecorded
ApprovalInv == ApprovalTypes /\ ApprovalLedger

USE ApprovalAssumption
USE DEF Operation

-----------------------------------------------------------------------------
\* Unique nonces make effects one to one.
LEMMA LedgerAccounts == ApprovalInv => ApprovalsAccounted
<1> SUFFICES ASSUME ApprovalInv PROVE ConsumedOnce
  BY DEF ApprovalInv, ApprovalLedger, ApprovalsAccounted
<1> SUFFICES ASSUME NEW p \in Preview, NEW q \in Preview, NEW n \in Nonce, NEW m \in Nonce
             PROVE  /\ effects[p][n] <= 1
                    /\ effects[p][n] > 0 /\ effects[q][m] > 0 => ((p = q) <=> (n = m))
  BY DEF ConsumedOnce
<1>1. effects[p][n] <= 1
  BY DEF ApprovalInv, ApprovalLedger, EffectsCounted
<1>2. ASSUME effects[p][n] > 0, effects[q][m] > 0 PROVE (p = q) <=> (n = m)
  BY <1>2 DEF ApprovalInv, ApprovalLedger, EffectsAreRecorded, NoncesAreUnique
<1> QED BY <1>1, <1>2

LEMMA ApprovalInitInv == ApprovalInit => ApprovalInv
<1> SUFFICES ASSUME ApprovalInit PROVE ApprovalInv
  OBVIOUS
<1> USE DEF ApprovalInit
<1>1. \A op \in Operation : Of(op) = {}
  BY DEF Of
<1>2. ApprovalTypeOK
  <2>1. \A op \in Operation : Cardinality(Of(op)) <= MaxPreviews
    BY <1>1, FS_EmptySet
  <2>2. /\ kind \in [Preview -> Operation \cup {"unused"}]
        /\ open \subseteq Preview /\ expired \subseteq Preview
        /\ used \in [{"plans", "operations"} -> SUBSET Nonce]
    OBVIOUS
  <2>3. /\ ledger \in [Preview -> {"none", "approved", "applied", "failed"}]
        /\ ledgerNonce \in [Preview -> Nonce \cup {NoPreview}]
    OBVIOUS
  <2>4. request \in [Caller -> [at : {"idle", "inserting", "working", "expiring"},
                               id : Preview \cup {NoPreview}, nonce : Nonce \cup {NoPreview}]]
    BY DEF Idle
  <2>5. effects \in [Preview -> [Nonce -> Nat]]
    OBVIOUS
  <2> QED BY ONLY <2>1, <2>2, <2>3, <2>4, <2>5 DEF ApprovalTypeOK
<1>3. CallerBusy /\ OpenFinite
  BY FS_EmptySet DEF CallerBusy, OpenFinite, Idle
<1>4. ApprovalLedger
  BY DEF ApprovalLedger, RowsHaveNonces, NoncesAreUnique, WorkIsApproved, OneWorker, EffectsCounted, EffectsAreRecorded,
         AtWork, AtExpiry, ExpiringRecorded, Idle
<1> QED BY <1>2, <1>3, <1>4 DEF ApprovalInv, ApprovalTypes

-----------------------------------------------------------------------------
\* How the open previews of an operation change when one is opened or closed.
OfIn(op, s, k) == {p \in s : k[p] = op}
Within(s, k) == \A op \in Operation : Cardinality(OfIn(op, s, k)) <= MaxPreviews

LEMMA OfOpen == \A op \in Operation : /\ Of(op) = OfIn(op, open, kind)
                                     /\ (Of(op) = OfIn(op, open, kind))'
BY DEF Of, OfIn

LEMMA Closing ==
  ASSUME ApprovalTypes, NEW s \in SUBSET open
  PROVE  IsFiniteSet(s) /\ Within(s, kind)
<1>1. IsFiniteSet(s)
  BY FS_Subset DEF ApprovalTypes, OpenFinite
<1>2. ASSUME NEW op \in Operation PROVE Cardinality(OfIn(op, s, kind)) <= MaxPreviews
  <2>1. IsFiniteSet(OfIn(op, open, kind)) /\ OfIn(op, s, kind) \in SUBSET OfIn(op, open, kind)
    BY FS_Subset DEF ApprovalTypes, OpenFinite, OfIn
  <2>2. Cardinality(OfIn(op, s, kind)) <= Cardinality(OfIn(op, open, kind))
    BY <2>1, FS_Subset
  <2>3. Cardinality(OfIn(op, open, kind)) <= MaxPreviews
    BY OfOpen DEF ApprovalTypes, ApprovalTypeOK
  <2>4. Cardinality(OfIn(op, s, kind)) \in Nat /\ Cardinality(OfIn(op, open, kind)) \in Nat
    BY <2>1, FS_Subset, FS_CardinalityType
  <2> QED BY <2>2, <2>3, <2>4
<1> QED BY <1>1, <1>2 DEF Within

LEMMA Opening ==
  ASSUME ApprovalTypes, NEW op \in Operation, NEW s \in SUBSET open, NEW p \in Preview,
         kind[p] = "unused", Cardinality(OfIn(op, s, kind)) < MaxPreviews
  PROVE  /\ IsFiniteSet(s \cup {p})
         /\ Within(s \cup {p}, [kind EXCEPT ![p] = op])
<1> DEFINE k == [kind EXCEPT ![p] = op]
<1>1. IsFiniteSet(s) /\ Within(s, kind)
  BY Closing
<1>2. IsFiniteSet(s \cup {p})
  BY <1>1, FS_AddElement
<1>3. OfIn(op, s \cup {p}, k) = OfIn(op, s, kind) \cup {p}
  BY DEF OfIn, ApprovalTypes, ApprovalTypeOK
<1>4. \A o \in Operation \ {op} : OfIn(o, s \cup {p}, k) = OfIn(o, s, kind)
  BY DEF OfIn, ApprovalTypes, ApprovalTypeOK
<1>5. Cardinality(OfIn(op, s \cup {p}, k)) <= MaxPreviews
  <2>1. IsFiniteSet(OfIn(op, s, kind))
    <3>1. OfIn(op, s, kind) \in SUBSET s
      BY DEF OfIn
    <3> QED BY <1>1, <3>1, FS_Subset
  <2>2. Cardinality(OfIn(op, s, kind)) \in Nat
    BY <2>1, FS_CardinalityType
  <2> DEFINE before == Cardinality(OfIn(op, s, kind))
             after == Cardinality(OfIn(op, s, kind) \cup {p})
  <2>3. after = before \/ after = before + 1
    BY <2>1, FS_AddElement, Zenon
  <2>4. before \in Nat /\ before < MaxPreviews /\ MaxPreviews \in Nat
    BY <2>2
  <2> HIDE DEF before, after
  <2>5. after <= MaxPreviews
    BY <2>3, <2>4
  <2> QED BY <1>3, <2>5, Zenon DEF after
<1> QED BY <1>1, <1>2, <1>4, <1>5 DEF Within

-----------------------------------------------------------------------------
\* What a step may do to the previews, for the types.
LEMMA PreviewTypes ==
  ASSUME ApprovalTypes, NEW op \in Operation, NEW p \in Preview, NEW kept \in SUBSET open,
         kind[p] = "unused",
         \/ /\ Cardinality(OfIn(op, kept, kind)) < MaxPreviews
            /\ open' = kept \cup {p} /\ kind' = [kind EXCEPT ![p] = op]
         \/ open' = kept /\ UNCHANGED kind,
         UNCHANGED <<expired, used, ledger, ledgerNonce, request, effects>>
  PROVE  ApprovalTypes'
<1>1. IsFiniteSet(open') /\ Within(open', kind')
  BY Closing, Opening
<1>2. \A o \in Operation : (Cardinality(Of(o)) <= MaxPreviews)'
  BY <1>1, OfOpen DEF Within
<1>3. kind' \in [Preview -> Operation \cup {"unused"}] /\ open' \subseteq Preview
  BY DEF ApprovalTypes, ApprovalTypeOK
<1> QED BY <1>1, <1>2, <1>3 DEF ApprovalTypes, ApprovalTypeOK, CallerBusy, OpenFinite

\* Steps that leave the kinds alone and open nothing.
LEMMA ClosedTypes ==
  ASSUME ApprovalTypes, UNCHANGED kind, open' \subseteq open,
         expired' \subseteq Preview, used' \in [{"plans", "operations"} -> SUBSET Nonce],
         ledger' \in [Preview -> {"none", "approved", "applied", "failed"}],
         ledgerNonce' \in [Preview -> Nonce \cup {NoPreview}],
         request' \in [Caller -> [at : {"idle", "inserting", "working", "expiring"},
           id : Preview \cup {NoPreview}, nonce : Nonce \cup {NoPreview}]],
         effects' \in [Preview -> [Nonce -> Nat]], CallerBusy'
  PROVE  ApprovalTypes'
<1>1. IsFiniteSet(open') /\ Within(open', kind)
  BY Closing
<1>2. \A o \in Operation : (Cardinality(Of(o)) <= MaxPreviews)'
  BY <1>1, OfOpen DEF Within
<1>3. open' \subseteq Preview /\ kind' \in [Preview -> Operation \cup {"unused"}]
  BY DEF ApprovalTypes, ApprovalTypeOK
<1> QED BY <1>1, <1>2, <1>3 DEF ApprovalTypes, ApprovalTypeOK, OpenFinite

\* The three ways in which the ledger's row of a busy caller is written.
LEMMA Recorded ==
  ASSUME ApprovalTypes, NEW c \in Caller, request[c].at # "idle",
         NEW ending \in {"applied", "failed"}, Record(c, ending)
  PROVE  /\ ledger' \in [Preview -> {"none", "approved", "applied", "failed"}]
         /\ \A p \in Preview : p # request[c].id => ledger'[p] = ledger[p]
         /\ \A p \in Preview : ledger[p] # "none" => ledger'[p] # "none"
BY DEF ApprovalTypes, ApprovalTypeOK, CallerBusy, Record

LEMMA Acted ==
  ASSUME ApprovalTypes, NEW c \in Caller, request[c].at # "idle", Effect(c)
  PROVE  /\ effects' \in [Preview -> [Nonce -> Nat]]
         /\ effects'[request[c].id][request[c].nonce] = effects[request[c].id][request[c].nonce] + 1
         /\ \A p \in Preview, n \in Nonce :
              p # request[c].id \/ n # request[c].nonce => effects'[p][n] = effects[p][n]
<1>1. request[c].id \in Preview /\ request[c].nonce \in Nonce
  BY DEF ApprovalTypes, CallerBusy
<1>2. effects \in [Preview -> [Nonce -> Nat]]
  BY DEF ApprovalTypes, ApprovalTypeOK
<1>3. effects' = [effects EXCEPT ![request[c].id] =
                   [effects[request[c].id] EXCEPT ![request[c].nonce] = effects[request[c].id][request[c].nonce] + 1]]
  BY DEF Effect
<1> QED BY <1>1, <1>2, <1>3

-----------------------------------------------------------------------------
LEMMA PreviewStep ==
  ASSUME ApprovalTypes, NEW p \in Preview,
         \/ PreviewPurging("plan", p) \/ PreviewPurging("projection", p) \/ PreviewRetention(p)
  PROVE  ApprovalTypes'
<1>1. ASSUME NEW op \in {"plan", "projection"}, PreviewPurging(op, p) PROVE ApprovalTypes'
  <2> DEFINE kept == open \ (Of(op) \cap expired)
  <2>1. OfIn(op, kept, kind) = Of(op) \ expired
    BY DEF OfIn, Of
  <2>2. kept \in SUBSET open
    OBVIOUS
  <2>3. /\ kind[p] = "unused"
        /\ \/ /\ Cardinality(OfIn(op, kept, kind)) < MaxPreviews
              /\ open' = kept \cup {p} /\ kind' = [kind EXCEPT ![p] = op]
           \/ open' = kept /\ UNCHANGED kind
        /\ UNCHANGED <<expired, used, ledger, ledgerNonce, request, effects>>
    BY <1>1, <2>1 DEF PreviewPurging
  <2> HIDE DEF kept
  <2> QED BY <2>2, <2>3, PreviewTypes
<1>2. ASSUME PreviewRetention(p) PROVE ApprovalTypes'
  <2>1. OfIn("retention", open, kind) = Of("retention")
    BY OfOpen
  <2>2. /\ kind[p] = "unused" /\ Cardinality(OfIn("retention", open, kind)) < MaxPreviews
        /\ open' = open \cup {p} /\ kind' = [kind EXCEPT ![p] = "retention"]
        /\ UNCHANGED <<expired, used, ledger, ledgerNonce, request, effects>>
    BY <1>2, <2>1 DEF PreviewRetention
  <2> QED BY <2>2, PreviewTypes
<1> QED BY <1>1, <1>2

LEMMA ApprovalTypeStep ==
  ASSUME ApprovalTypes, [ApprovalNext]_approvalVars
  PROVE  ApprovalTypes'
<1> USE DEF Service
<1>1. CASE UNCHANGED approvalVars
  BY <1>1, ClosedTypes DEF approvalVars, ApprovalTypes, ApprovalTypeOK, CallerBusy
<1>2. ASSUME NEW p \in Preview,
             \/ PreviewPurging("plan", p) \/ PreviewPurging("projection", p) \/ PreviewRetention(p)
      PROVE ApprovalTypes'
  BY <1>2, PreviewStep
<1>3. ASSUME NEW p \in Preview, PreviewExpires(p) PROVE ApprovalTypes'
  BY <1>3, ClosedTypes DEF PreviewExpires, ApprovalTypes, ApprovalTypeOK, CallerBusy
<1>4. ASSUME NEW p \in Preview, NEW c \in Caller, DropExpired(c, p) PROVE ApprovalTypes'
  BY <1>4, ClosedTypes DEF DropExpired, ApprovalTypes, ApprovalTypeOK, CallerBusy
<1>5. ASSUME NEW p \in Preview, NEW c \in Caller, NEW n \in Nonce,
             BeginOperation(c, p, n) \/ BeginPlan(c, p, n)
      PROVE ApprovalTypes'
  <2>1. /\ open' \subseteq open /\ request' = [request EXCEPT ![c] = [at |-> "inserting", id |-> p, nonce |-> n]]
        /\ used' \in [{"plans", "operations"} -> SUBSET Nonce]
        /\ UNCHANGED <<kind, expired, ledger, ledgerNonce, effects>>
    BY <1>5 DEF BeginOperation, BeginPlan, ApprovalTypes, ApprovalTypeOK
  <2>2. CallerBusy'
    BY <2>1 DEF ApprovalTypes, ApprovalTypeOK, CallerBusy
  <2>3. request' \in [Caller -> [at : {"idle", "inserting", "working", "expiring"},
           id : Preview \cup {NoPreview}, nonce : Nonce \cup {NoPreview}]]
    BY <2>1 DEF ApprovalTypes, ApprovalTypeOK
  <2> QED BY <2>1, <2>2, <2>3, ClosedTypes DEF ApprovalTypes, ApprovalTypeOK
<1>6. ASSUME NEW c \in Caller,
             InsertApproval(c) \/ WorkPlan(c) \/ WorkRetention(c) \/ ExpireMetadata(c) \/ WorkProjection(c)
      PROVE ApprovalTypes'
  <2>1. request[c].at # "idle" /\ request[c].id \in Preview /\ request[c].nonce \in Nonce
    BY <1>6 DEF InsertApproval, WorkPlan, WorkRetention, ExpireMetadata, WorkProjection, ApprovalTypes, CallerBusy
  <2>2. /\ open' \subseteq open /\ UNCHANGED <<kind, expired>>
        /\ \/ request' = [request EXCEPT ![c] = Idle]
           \/ request' = [request EXCEPT ![c].at = "working"]
           \/ request' = [request EXCEPT ![c].at = "expiring"]
    BY <1>6 DEF InsertApproval, WorkPlan, WorkRetention, ExpireMetadata, WorkProjection
  <2>3. /\ CallerBusy'
        /\ request' \in [Caller -> [at : {"idle", "inserting", "working", "expiring"},
             id : Preview \cup {NoPreview}, nonce : Nonce \cup {NoPreview}]]
    <3>1. CASE request' = [request EXCEPT ![c] = Idle]
      BY <2>1, <3>1 DEF ApprovalTypes, ApprovalTypeOK, CallerBusy, Idle
    <3>2. CASE request' = [request EXCEPT ![c].at = "working"]
      BY <2>1, <3>2 DEF ApprovalTypes, ApprovalTypeOK, CallerBusy
    <3>3. CASE request' = [request EXCEPT ![c].at = "expiring"]
      BY <2>1, <3>3 DEF ApprovalTypes, ApprovalTypeOK, CallerBusy
    <3> QED BY <2>2, <3>1, <3>2, <3>3
  <2>4. /\ ledger' \in [Preview -> {"none", "approved", "applied", "failed"}]
        /\ ledgerNonce' \in [Preview -> Nonce \cup {NoPreview}]
    <3>1. CASE InsertApproval(c)
      <4>1. \/ UNCHANGED <<ledger, ledgerNonce>>
            \/ /\ ledger' = [ledger EXCEPT ![request[c].id] = "approved"]
               /\ ledgerNonce' = [ledgerNonce EXCEPT ![request[c].id] = request[c].nonce]
        BY <3>1 DEF InsertApproval
      <4> QED BY <4>1, <2>1 DEF ApprovalTypes, ApprovalTypeOK
    <3>2. CASE ~InsertApproval(c)
      <4>1. UNCHANGED ledgerNonce /\ (UNCHANGED ledger \/ Record(c, "applied") \/ Record(c, "failed"))
        BY <3>2, <1>6 DEF WorkPlan, WorkRetention, ExpireMetadata, WorkProjection
      <4>2. ASSUME NEW ending \in {"applied", "failed"}, Record(c, ending)
            PROVE  ledger' \in [Preview -> {"none", "approved", "applied", "failed"}]
        BY <4>2, <2>1 DEF Record, ApprovalTypes, ApprovalTypeOK
      <4> QED BY <4>1, <4>2 DEF ApprovalTypes, ApprovalTypeOK
    <3> QED BY <3>1, <3>2
  <2>5. used' \in [{"plans", "operations"} -> SUBSET Nonce]
    <3>1. \/ UNCHANGED used
          \/ \E s \in {"plans", "operations"} : used' = [used EXCEPT ![s] = @ \cup {request[c].nonce}]
      BY <1>6 DEF InsertApproval, WorkPlan, WorkRetention, ExpireMetadata, WorkProjection
    <3> QED BY <3>1, <2>1 DEF ApprovalTypes, ApprovalTypeOK
  <2>6. effects' \in [Preview -> [Nonce -> Nat]]
    <3>1. UNCHANGED effects \/ Effect(c)
      BY <1>6 DEF InsertApproval, WorkPlan, WorkRetention, ExpireMetadata, WorkProjection
    <3> QED BY <3>1, <2>1, Acted DEF ApprovalTypes, ApprovalTypeOK
  <2> QED BY <2>2, <2>3, <2>4, <2>5, <2>6, ClosedTypes DEF ApprovalTypes, ApprovalTypeOK
<1>7. ASSUME ApprovalCrash PROVE ApprovalTypes'
  <2>1. CallerBusy'
    BY <1>7 DEF ApprovalCrash, CallerBusy, Idle
  <2>2. /\ open' \subseteq open /\ UNCHANGED <<kind, expired, ledger, ledgerNonce, effects>>
        /\ used' \in [{"plans", "operations"} -> SUBSET Nonce]
        /\ request' \in [Caller -> [at : {"idle", "inserting", "working", "expiring"},
             id : Preview \cup {NoPreview}, nonce : Nonce \cup {NoPreview}]]
    BY <1>7 DEF ApprovalCrash, Idle, ApprovalTypes, ApprovalTypeOK
  <2> QED BY <2>1, <2>2, ClosedTypes DEF ApprovalTypes, ApprovalTypeOK
<1> QED BY <1>1, <1>2, <1>3, <1>4, <1>5, <1>6, <1>7 DEF ApprovalNext

-----------------------------------------------------------------------------
\* Steps before the ledger: rows and effects stay, and nobody begins to work.
LEMMA LedgerAlone ==
  ASSUME ApprovalTypes, ApprovalLedger, UNCHANGED <<ledger, ledgerNonce, effects>>,
         \A c \in Caller : AtWork(c)' \/ AtExpiry(c)' => request'[c] = request[c]
  PROVE  ApprovalLedger'
<1>1. WorkIsApproved' /\ OneWorker' /\ ExpiringRecorded'
  BY DEF ApprovalLedger, WorkIsApproved, OneWorker, ExpiringRecorded, AtWork, AtExpiry
<1>2. RowsHaveNonces' /\ NoncesAreUnique' /\ EffectsCounted' /\ EffectsAreRecorded'
  BY DEF ApprovalLedger, RowsHaveNonces, NoncesAreUnique, EffectsCounted, EffectsAreRecorded
<1> QED BY <1>1, <1>2 DEF ApprovalLedger

\* The row of an approval is new and its nonce was in no row.
LEMMA InsertStep ==
  ASSUME ApprovalTypes, ApprovalLedger, NEW c \in Caller, InsertApproval(c)
  PROVE  ApprovalLedger'
<1> DEFINE p == request[c].id
           n == request[c].nonce
<1>1. p \in Preview /\ n \in Nonce /\ ~AtWork(c)
  BY DEF InsertApproval, ApprovalTypes, CallerBusy, AtWork
<1>2. CASE UNCHANGED <<ledger, ledgerNonce>> /\ request' = [request EXCEPT ![c] = Idle]
  <2>1. UNCHANGED effects
    BY DEF InsertApproval
  <2>2. \A d \in Caller : AtWork(d)' \/ AtExpiry(d)' => request'[d] = request[d]
    BY <1>2 DEF AtWork, AtExpiry, Idle, ApprovalTypes, ApprovalTypeOK
  <2> QED BY <1>2, <2>1, <2>2, LedgerAlone
<1>3. CASE /\ Insertable(p, n) /\ request' = [request EXCEPT ![c].at = "working"]
           /\ ledger' = [ledger EXCEPT ![p] = "approved"]
           /\ ledgerNonce' = [ledgerNonce EXCEPT ![p] = n]
  <2>1. UNCHANGED effects
    BY DEF InsertApproval
  <2>2. ledger[p] = "none" /\ ledgerNonce[p] # n /\ \A q \in Preview : ledgerNonce[q] # n
    BY <1>1, <1>3 DEF Insertable
  <2>3. /\ ledger'[p] = "approved" /\ ledgerNonce'[p] = n
        /\ \A q \in Preview \ {p} : ledger'[q] = ledger[q] /\ ledgerNonce'[q] = ledgerNonce[q]
    BY <1>1, <1>3 DEF ApprovalTypes, ApprovalTypeOK
  <2>4. \A m \in Nonce : effects[p][m] = 0
    BY <1>1, <2>2 DEF ApprovalTypes, ApprovalTypeOK, ApprovalLedger, EffectsAreRecorded
  <2>5. /\ request'[c].id = p /\ request'[c].nonce = n
        /\ \A d \in Caller \ {c} : request'[d] = request[d]
    BY <1>3 DEF ApprovalTypes, ApprovalTypeOK
  <2>6. \A d \in Caller : AtWork(d) => request[d].id \in Preview \ {p}
    BY <2>2 DEF ApprovalLedger, WorkIsApproved, ApprovalTypes, CallerBusy, AtWork
  <2> HIDE DEF p, n
  <2>7. RowsHaveNonces' /\ NoncesAreUnique'
    BY <1>1, <2>2, <2>3 DEF ApprovalLedger, RowsHaveNonces, NoncesAreUnique
  <2>8. WorkIsApproved' /\ OneWorker'
    BY <1>1, <2>1, <2>3, <2>4, <2>5, <2>6 DEF ApprovalLedger, WorkIsApproved, OneWorker, AtWork
  <2>10. ExpiringRecorded'
    <3>1. \A d \in Caller : AtExpiry(d)' => d # c /\ AtExpiry(d) /\ request[d].id \in Preview
      BY <1>3, <2>5 DEF AtExpiry, ApprovalTypes, ApprovalTypeOK, CallerBusy
    <3> QED BY <3>1, <2>3, <2>5 DEF ApprovalLedger, ExpiringRecorded, AtExpiry
  <2>9. EffectsCounted' /\ EffectsAreRecorded'
    BY <1>1, <2>1, <2>2, <2>3, <2>4 DEF ApprovalLedger, EffectsCounted, EffectsAreRecorded
  <2> QED BY <2>7, <2>8, <2>9, <2>10 DEF ApprovalLedger
<1> QED BY <1>2, <1>3 DEF InsertApproval

\* An effect runs once for the row that allows it.
LEMMA WorkStep ==
  ASSUME ApprovalTypes, ApprovalLedger, NEW c \in Caller, AtWork(c), Effect(c),
         Record(c, "applied") \/ Record(c, "failed"), UNCHANGED ledgerNonce,
         \A d \in Caller : AtWork(d)' => d # c /\ request'[d] = request[d],
         \A d \in Caller : AtExpiry(d)' => request'[d].id = request[d].id /\ (d = c \/ AtExpiry(d))
  PROVE  ApprovalLedger'
<1> DEFINE p == request[c].id
           n == request[c].nonce
<1>1. p \in Preview /\ n \in Nonce /\ request[c].at # "idle"
  BY DEF ApprovalTypes, CallerBusy, AtWork
<1>2. /\ \A q \in Preview : q # p => ledger'[q] = ledger[q]
      /\ \A q \in Preview : ledger[q] # "none" => ledger'[q] # "none"
  BY <1>1, Recorded
<1>3. /\ effects' \in [Preview -> [Nonce -> Nat]] /\ effects'[p][n] = effects[p][n] + 1
      /\ \A q \in Preview, m \in Nonce : q # p \/ m # n => effects'[q][m] = effects[q][m]
  BY <1>1, Acted
<1>4. ledger[p] # "none" /\ ledgerNonce[p] = n /\ effects[p][n] = 0
  BY DEF ApprovalLedger, WorkIsApproved
<1>5. \A d \in Caller : AtWork(d)' => AtWork(d) /\ request[d].id \in Preview \ {p}
  BY DEF ApprovalLedger, OneWorker, AtWork, ApprovalTypes, CallerBusy
<1> HIDE DEF p, n
<1>6. RowsHaveNonces' /\ NoncesAreUnique'
  BY <1>1, <1>2, <1>4 DEF ApprovalLedger, RowsHaveNonces, NoncesAreUnique
<1>7. WorkIsApproved' /\ OneWorker'
  <2>1. OneWorker'
    BY <1>5 DEF ApprovalLedger, OneWorker, AtWork
  <2>2. ASSUME NEW d \in Caller, AtWork(d)'
        PROVE  (/\ ledger[request[d].id] # "none" /\ ledgerNonce[request[d].id] = request[d].nonce
                /\ effects[request[d].id][request[d].nonce] = 0)'
    <3>1. AtWork(d) /\ request[d].id \in Preview \ {p} /\ request'[d] = request[d] /\ request[d].nonce \in Nonce
      BY <2>2, <1>5 DEF ApprovalTypes, CallerBusy, AtWork
    <3> QED BY <3>1, <1>2, <1>3 DEF ApprovalLedger, WorkIsApproved
  <2> QED BY <2>1, <2>2 DEF WorkIsApproved
<1>8. EffectsCounted' /\ EffectsAreRecorded'
  BY <1>1, <1>2, <1>3, <1>4 DEF ApprovalLedger, EffectsCounted, EffectsAreRecorded
<1>9. ExpiringRecorded'
  <2>1. ASSUME NEW d \in Caller, AtExpiry(d)' PROVE ledger'[request'[d].id] # "none"
    <3>1. request'[d].id = request[d].id /\ request[d].id \in Preview /\ (d = c \/ AtExpiry(d))
      BY <2>1 DEF AtExpiry, ApprovalTypes, CallerBusy, AtWork
    <3> QED BY <3>1, <1>2, <1>4 DEF ApprovalLedger, ExpiringRecorded, p
  <2> QED BY <2>1 DEF ExpiringRecorded
<1> QED BY <1>6, <1>7, <1>8, <1>9 DEF ApprovalLedger

LEMMA ExpireStep ==
  ASSUME ApprovalTypes, ApprovalLedger, NEW c \in Caller, ExpireMetadata(c)
  PROVE  ApprovalLedger'
<1>1. request[c].at = "expiring" /\ request' = [request EXCEPT ![c] = Idle]
      /\ UNCHANGED <<ledgerNonce, effects>>
  BY DEF ExpireMetadata
<1>2. /\ \A q \in Preview : ledger[q] # "none" => ledger'[q] # "none"
      /\ \A q \in Preview : ledger'[q] # "none" => ledger[q] # "none"
  <2>1. CASE UNCHANGED ledger
    BY <2>1
  <2>2. CASE Record(c, "failed")
    <3>1. ledger[request[c].id] # "none"
      BY <1>1 DEF ApprovalLedger, ExpiringRecorded, AtExpiry
    <3> QED BY <1>1, <2>2, <3>1, Recorded
  <2> QED BY <2>1, <2>2 DEF ExpireMetadata
<1>3. \A d \in Caller : AtWork(d)' \/ AtExpiry(d)' => request'[d] = request[d] /\ request[d].id \in Preview
  BY <1>1 DEF AtWork, AtExpiry, Idle, ApprovalTypes, ApprovalTypeOK, CallerBusy
<1>4. WorkIsApproved' /\ OneWorker' /\ ExpiringRecorded'
  BY <1>1, <1>2, <1>3 DEF ApprovalLedger, WorkIsApproved, OneWorker, ExpiringRecorded, AtWork, AtExpiry
<1>5. RowsHaveNonces' /\ NoncesAreUnique' /\ EffectsCounted' /\ EffectsAreRecorded'
  BY <1>1, <1>2 DEF ApprovalLedger, RowsHaveNonces, NoncesAreUnique, EffectsCounted, EffectsAreRecorded
<1> QED BY <1>4, <1>5 DEF ApprovalLedger

LEMMA LedgerStep ==
  ASSUME ApprovalTypes, ApprovalLedger, [ApprovalNext]_approvalVars
  PROVE  ApprovalLedger'
<1>1. CASE UNCHANGED approvalVars
  BY <1>1, LedgerAlone DEF approvalVars
<1>2. ASSUME NEW p \in Preview,
             \/ PreviewPurging("plan", p) \/ PreviewPurging("projection", p)
             \/ PreviewRetention(p) \/ PreviewExpires(p)
             \/ \E c \in Caller : DropExpired(c, p)
      PROVE ApprovalLedger'
  <2>1. UNCHANGED <<ledger, ledgerNonce, effects, request>>
    BY <1>2 DEF PreviewPurging, PreviewRetention, PreviewExpires, DropExpired
  <2> QED BY <2>1, LedgerAlone
<1>3. ASSUME NEW p \in Preview, NEW c \in Caller, NEW n \in Nonce,
             BeginOperation(c, p, n) \/ BeginPlan(c, p, n)
      PROVE ApprovalLedger'
  <2>1. /\ UNCHANGED <<ledger, ledgerNonce, effects>>
        /\ request' = [request EXCEPT ![c] = [at |-> "inserting", id |-> p, nonce |-> n]]
    BY <1>3 DEF BeginOperation, BeginPlan
  <2>2. \A d \in Caller : AtWork(d)' \/ AtExpiry(d)' => request'[d] = request[d]
    BY <2>1 DEF AtWork, AtExpiry, ApprovalTypes, ApprovalTypeOK
  <2> QED BY <2>1, <2>2, LedgerAlone
<1>4. ASSUME NEW c \in Caller, InsertApproval(c) PROVE ApprovalLedger'
  BY <1>4, InsertStep
<1>5. ASSUME NEW c \in Caller, WorkPlan(c) \/ WorkRetention(c) \/ WorkProjection(c) PROVE ApprovalLedger'
  <2>1. /\ AtWork(c) /\ Effect(c) /\ (Record(c, "applied") \/ Record(c, "failed")) /\ UNCHANGED ledgerNonce
        /\ request' = [request EXCEPT ![c] = Idle] \/ request' = [request EXCEPT ![c].at = "expiring"]
    BY <1>5 DEF WorkPlan, WorkRetention, WorkProjection, AtWork
  <2>2. \A d \in Caller : AtWork(d)' => d # c /\ request'[d] = request[d]
    BY <2>1 DEF AtWork, Idle, ApprovalTypes, ApprovalTypeOK
  <2>3. \A d \in Caller : AtExpiry(d)' => request'[d].id = request[d].id /\ (d = c \/ AtExpiry(d))
    BY <2>1 DEF AtExpiry, Idle, ApprovalTypes, ApprovalTypeOK
  <2> QED BY <2>1, <2>2, <2>3, WorkStep
<1>6. ASSUME NEW c \in Caller, ExpireMetadata(c) PROVE ApprovalLedger'
  BY <1>6, ExpireStep
<1>7. ASSUME ApprovalCrash PROVE ApprovalLedger'
  <2>1. \A d \in Caller : ~AtWork(d)' /\ ~AtExpiry(d)'
    BY <1>7 DEF ApprovalCrash, Idle, AtWork, AtExpiry
  <2> QED BY <1>7, <2>1, LedgerAlone DEF ApprovalCrash
<1> QED BY <1>1, <1>2, <1>3, <1>4, <1>5, <1>6, <1>7 DEF ApprovalNext

LEMMA ApprovalInvariant == ApprovalSpec => []ApprovalInv
<1>1. ApprovalInv /\ [ApprovalNext]_approvalVars => ApprovalInv'
  BY ApprovalTypeStep, LedgerStep DEF ApprovalInv
<1> QED BY <1>1, ApprovalInitInv, PTL DEF ApprovalSpec

-----------------------------------------------------------------------------
\* Previews, nonces and rows keep their types, and neither service holds more
\* open previews than maxOpenPreviews.
THEOREM ApprovalsTyped == ApprovalSpec => []ApprovalTypeOK
<1>1. ApprovalInv => ApprovalTypeOK
  BY DEF ApprovalInv, ApprovalTypes
<1> QED BY <1>1, ApprovalInvariant, PTL

\* However requests are repeated, raced or cut off by a crash that empties both
\* memories, no preview is carried out twice, no nonce buys a second effect, and
\* every effect has its row in runtime_operation_approvals.
THEOREM ApprovalsAreConsumedOnce == ApprovalSpec => []ApprovalsAccounted
<1> QED BY LedgerAccounts, ApprovalInvariant, PTL

HIDE ApprovalAssumption
HIDE DEF Operation

-----------------------------------------------------------------------------
-----------------------------------------------------------------------------
(* Artifacts: what was published can be used.                              *)

ArtifactSpec == ArtifactInit /\ [][ArtifactNext]_artifactVars

Importing == [Importer -> [at : {"idle", "looking_up", "writing", "answered", "unknown_version",
                                 "invalid_record"},
                           answer : SUBSET (SUBSET Fact)]]

\* What a running backup has made so far is what its snapshot says; a manifest
\* is there only beside the archive it counts, and then no backup runs.
DumpIsSnapshot ==
  /\ backup.at \in {"counting", "publishing"} => archive = [at |-> "tmp", holds |-> backup.snapshot]
  /\ backup.at = "manifest" => archive = [at |-> "final", holds |-> backup.snapshot]
  /\ backup.at \in {"publishing", "manifest"} => backup.counts = backup.snapshot
ManifestCounts ==
  manifest # NoFile => backup.at = "idle" /\ archive.at = "final" /\ archive.holds = manifest.holds

\* Registry rows are never removed, so versions read later name records read earlier.
VersionsCover ==
  /\ export.at # "idle" => export.records \subseteq adapters
  /\ export.at = "publishing" => export.records \subseteq export.versions
  /\ export.versions \subseteq adapters
  /\ portable.holds \subseteq portable.versions /\ portable.versions \subseteq adapters

ReceiptFirst ==
  /\ receipt \subseteq SUBSET Fact
  /\ \A i \in Importer : importing[i].at = "answered" => receipt # {}

ArtifactInv ==
  /\ ArtifactTypeOK /\ importing \in Importing
  /\ DumpIsSnapshot /\ ManifestCounts /\ VersionsCover /\ ReceiptFirst /\ ArtifactsVerify

USE DEF NoFile

LEMMA ArtifactInitInv == ArtifactInit => ArtifactInv
<1> SUFFICES ASSUME ArtifactInit PROVE ArtifactInv
  OBVIOUS
<1> USE DEF ArtifactInit
<1>1. ArtifactTypeOK /\ importing \in Importing
  BY DEF ArtifactTypeOK, Importing
<1>2. DumpIsSnapshot /\ ManifestCounts /\ VersionsCover /\ ReceiptFirst /\ ArtifactsVerify
  BY DEF DumpIsSnapshot, ManifestCounts, VersionsCover, ReceiptFirst, ArtifactsVerify,
         BackupsVerify, ExportsNameVersions, ImportAnswersAgree
<1> QED BY <1>1, <1>2 DEF ArtifactInv

\* Live ingestion and retention touch the database only.
LEMMA DatabaseMoves ==
  ASSUME ArtifactInv, NEW f \in Fact, Ingest(f) \/ Corroborate(f) \/ DropPartition(f)
  PROVE  ArtifactInv'
<1> USE DEF ArtifactInv
<1>1. adapters \subseteq adapters' /\ adapters' \subseteq Fact
      /\ twoLanes' \subseteq facts' /\ facts' \subseteq adapters'
  BY DEF ArtifactTypeOK, Ingest, Corroborate, DropPartition
<1>2. UNCHANGED <<backup, archive, manifest, verify, export, portable, importing, receipt>>
  BY DEF Ingest, Corroborate, DropPartition
<1>3. ArtifactTypeOK' /\ (importing \in Importing)'
  BY <1>1, <1>2 DEF ArtifactTypeOK, Importing
<1>4. DumpIsSnapshot' /\ ManifestCounts' /\ VersionsCover'
  BY <1>1, <1>2 DEF DumpIsSnapshot, ManifestCounts, VersionsCover
<1>5. ReceiptFirst' /\ ArtifactsVerify'
  BY <1>2 DEF ReceiptFirst, ArtifactsVerify, BackupsVerify, ExportsNameVersions, ImportAnswersAgree
<1> QED BY <1>3, <1>4, <1>5

\* The steps of a backup, and the verification of one.
LEMMA BackupMoves ==
  ASSUME ArtifactInv,
         \/ BackupStart \/ BackupDump \/ BackupCount \/ BackupPublish \/ BackupManifest
         \/ BackupFails \/ RestoreVerify
  PROVE  ArtifactInv'
<1> USE DEF ArtifactInv, otherThanBackup, database
<1>1. /\ UNCHANGED <<database, export, portable, importing, receipt>>
      /\ RestoreVerify \/ verify' = verify
  BY DEF BackupStart, BackupDump, BackupCount, BackupPublish, BackupManifest, BackupFails, RestoreVerify
<1>2. VersionsCover' /\ ReceiptFirst' /\ (importing \in Importing)'
  BY <1>1 DEF VersionsCover, ReceiptFirst, Importing
<1>3. ArtifactTypeOK'
  <2>1. /\ backup' \in [at : {"idle", "dumping", "counting", "publishing", "manifest"},
                        snapshot : SUBSET Fact, counts : SUBSET Fact]
        /\ archive' \in [at : {"absent", "tmp", "final"}, holds : SUBSET Fact]
        /\ manifest' \in [at : {"absent", "final"}, holds : SUBSET Fact]
    <3> USE DEF ArtifactTypeOK
    <3>1. CASE BackupStart
      BY <3>1 DEF BackupStart
    <3>2. CASE BackupDump
      BY <3>2 DEF BackupDump
    <3>3. CASE BackupCount
      BY <3>3 DEF BackupCount
    <3>4. CASE BackupPublish
      BY <3>4 DEF BackupPublish
    <3>5. CASE BackupManifest
      BY <3>5 DEF BackupManifest
    <3>6. CASE BackupFails
      BY <3>6 DEF BackupFails
    <3>7. CASE RestoreVerify
      BY <3>7 DEF RestoreVerify
    <3> QED BY <3>1, <3>2, <3>3, <3>4, <3>5, <3>6, <3>7
  <2> QED BY <1>1, <2>1 DEF ArtifactTypeOK
<1>4. DumpIsSnapshot' /\ ManifestCounts'
  <2> USE DEF ArtifactTypeOK, DumpIsSnapshot, ManifestCounts
  <2>1. CASE BackupStart
    BY <2>1 DEF BackupStart
  <2>2. CASE BackupDump
    BY <2>2 DEF BackupDump
  <2>3. CASE BackupCount
    BY <2>3 DEF BackupCount
  <2>4. CASE BackupPublish
    BY <2>4 DEF BackupPublish
  <2>5. CASE BackupManifest
    BY <2>5 DEF BackupManifest
  <2>6. CASE BackupFails
    BY <2>6 DEF BackupFails
  <2>7. CASE RestoreVerify
    BY <2>7 DEF RestoreVerify
  <2> QED BY <2>1, <2>2, <2>3, <2>4, <2>5, <2>6, <2>7
<1>5. BackupsVerify'
  BY <1>1 DEF RestoreVerify, ManifestCounts, ArtifactsVerify, BackupsVerify
<1>6. ExportsNameVersions' /\ ImportAnswersAgree'
  BY <1>1 DEF ArtifactsVerify, ExportsNameVersions, ImportAnswersAgree
<1> QED BY <1>2, <1>3, <1>4, <1>5, <1>6 DEF ArtifactsVerify

LEMMA ExportMoves ==
  ASSUME ArtifactInv, ExportFacts \/ ExportRegistries \/ ExportPublish \/ ExportFails
  PROVE  ArtifactInv'
<1> USE DEF ArtifactInv, otherThanExport, database
<1>1. UNCHANGED <<database, backup, archive, manifest, verify, importing, receipt>>
  BY DEF ExportFacts, ExportRegistries, ExportPublish, ExportFails
<1>2. DumpIsSnapshot' /\ ManifestCounts' /\ ReceiptFirst' /\ ArtifactsVerify' /\ (importing \in Importing)'
  BY <1>1 DEF DumpIsSnapshot, ManifestCounts, ReceiptFirst, ArtifactsVerify, BackupsVerify,
              ExportsNameVersions, ImportAnswersAgree, Importing
<1>3. /\ export' \in [at : {"idle", "registries", "publishing"},
                      records : SUBSET Fact, mixed : SUBSET Fact, versions : SUBSET Fact]
      /\ portable' \in [at : {"absent", "final"}, holds : SUBSET Fact,
                        mixed : SUBSET Fact, versions : SUBSET Fact]
      /\ VersionsCover'
  <2> USE DEF ArtifactTypeOK, VersionsCover
  <2>1. CASE ExportFacts
    BY <1>1, <2>1 DEF ExportFacts
  <2>2. CASE ExportRegistries
    BY <1>1, <2>2 DEF ExportRegistries
  <2>3. CASE ExportPublish
    BY <1>1, <2>3 DEF ExportPublish
  <2>4. CASE ExportFails
    BY <1>1, <2>4 DEF ExportFails
  <2> QED BY <2>1, <2>2, <2>3, <2>4
<1>4. ArtifactTypeOK'
  BY <1>1, <1>3 DEF ArtifactTypeOK
<1> QED BY <1>2, <1>3, <1>4

\* Two imports under one key: the receipt is written once and answers both.
LEMMA ImportMoves ==
  ASSUME ArtifactInv, NEW i \in Importer, ImportValidate(i) \/ ImportLookup(i) \/ ImportCommit(i)
  PROVE  ArtifactInv'
<1> USE DEF ArtifactInv, otherThanImport, database
<1>1. UNCHANGED <<twoLanes, adapters, backup, archive, manifest, verify, export, portable>>
  BY DEF ImportValidate, ImportLookup, ImportCommit
<1>2. facts' = facts \/ facts' = facts \cup portable.holds
  BY DEF ImportValidate, ImportLookup, ImportCommit
<1>3. DumpIsSnapshot' /\ ManifestCounts' /\ VersionsCover' /\ BackupsVerify'
  BY <1>1 DEF DumpIsSnapshot, ManifestCounts, VersionsCover, ArtifactsVerify, BackupsVerify
<1>4. receipt' = receipt \/ (receipt = {} /\ receipt' = {portable.holds \ facts})
  BY DEF ImportValidate, ImportLookup, ImportCommit
<1>5. portable.holds \subseteq Fact
  BY DEF ArtifactTypeOK
<1>6. /\ \A j \in Importer : j # i => importing'[j] = importing[j]
      /\ importing'[i].at # "unknown_version"
      /\ importing'[i].at = "answered" => importing'[i].answer = receipt' /\ receipt' # {}
      /\ importing' \in Importing
  <2> USE DEF Importing
  <2>1. CASE ImportValidate(i)
    <3>1. KnownVersions
      BY DEF KnownVersions, VersionsCover
    <3>2. \E to \in {"invalid_record", "looking_up"} : To(i, to)
      BY <2>1, <3>1 DEF ImportValidate
    <3> QED BY <3>2 DEF To
  <2>2. CASE ImportLookup(i)
    <3>1. receipt' = receipt /\ receipt \in SUBSET SUBSET Fact
      BY <2>2 DEF ImportLookup, ReceiptFirst
    <3>2. CASE receipt # {} /\ importing' = [importing EXCEPT ![i] = [at |-> "answered", answer |-> receipt]]
      BY <3>1, <3>2
    <3>3. CASE To(i, "writing")
      BY <3>3 DEF To
    <3> QED BY <2>2, <3>2, <3>3 DEF ImportLookup
  <2>3. CASE ImportCommit(i)
    <3>1. CASE /\ receipt' = {portable.holds \ facts}
               /\ importing' = [importing EXCEPT ![i] = [at |-> "answered", answer |-> receipt']]
      <4>1. receipt' \in SUBSET SUBSET Fact /\ receipt' # {}
        BY <1>5, <3>1
      <4> QED BY <3>1, <4>1
    <3>2. CASE To(i, "idle")
      BY <3>2 DEF To
    <3> QED BY <2>3, <3>1, <3>2 DEF ImportCommit
  <2> QED BY <2>1, <2>2, <2>3
<1>7. ReceiptFirst'
  BY <1>4, <1>5, <1>6 DEF ReceiptFirst
<1>8. ExportsNameVersions' /\ ImportAnswersAgree'
  BY <1>4, <1>6 DEF ArtifactsVerify, ExportsNameVersions, ImportAnswersAgree, ReceiptFirst
<1>9. ArtifactTypeOK'
  BY <1>1, <1>2, <1>6 DEF ArtifactTypeOK, Importing, VersionsCover
<1> QED BY <1>3, <1>6, <1>7, <1>8, <1>9 DEF ArtifactsVerify

LEMMA ArtifactCrashMoves ==
  ASSUME ArtifactInv, ArtifactCrash
  PROVE  ArtifactInv'
<1> USE DEF ArtifactInv, database, ArtifactCrash
<1>1. DumpIsSnapshot' /\ ManifestCounts' /\ VersionsCover'
  BY DEF ArtifactTypeOK, DumpIsSnapshot, ManifestCounts, VersionsCover
<1>2. /\ importing' \in Importing
      /\ \A i \in Importer : importing'[i] = importing[i] \/ importing'[i].at = "idle"
  BY DEF Importing
<1>3. ReceiptFirst' /\ ArtifactsVerify'
  BY <1>2 DEF ReceiptFirst, ArtifactsVerify, BackupsVerify, ExportsNameVersions, ImportAnswersAgree
<1>4. ArtifactTypeOK'
  BY <1>2 DEF ArtifactTypeOK, Importing
<1> QED BY <1>1, <1>2, <1>3, <1>4

LEMMA ArtifactInvStep == ArtifactInv /\ [ArtifactNext]_artifactVars => ArtifactInv'
<1> SUFFICES ASSUME ArtifactInv, [ArtifactNext]_artifactVars PROVE ArtifactInv'
  OBVIOUS
<1>1. CASE UNCHANGED artifactVars
  BY <1>1 DEF artifactVars, ArtifactInv, ArtifactTypeOK, Importing, DumpIsSnapshot, ManifestCounts, VersionsCover,
     ReceiptFirst, ArtifactsVerify, BackupsVerify, ExportsNameVersions, ImportAnswersAgree
<1> QED BY <1>1, DatabaseMoves, BackupMoves, ExportMoves, ImportMoves, ArtifactCrashMoves DEF ArtifactNext

LEMMA ArtifactInvariant == ArtifactSpec => []ArtifactInv
BY ArtifactInitInv, ArtifactInvStep, PTL DEF ArtifactSpec

\* Facts, files and running operations keep their types, and the database names
\* the adapter version of every fact in it.
THEOREM ArtifactsTyped == ArtifactSpec => []ArtifactTypeOK
<1>1. ArtifactInv => ArtifactTypeOK
  BY DEF ArtifactInv
<1> QED BY <1>1, ArtifactInvariant, PTL

\* Backup, RestoreVerify, Export and Import side by side with ingestion and
\* retention, failing or cut short at any step: a published backup verifies, an
\* export names the versions of its records, and imports under one key agree.
THEOREM PublishedArtifactsVerify == ArtifactSpec => []ArtifactsVerify
<1>1. ArtifactInv => ArtifactsVerify
  BY DEF ArtifactInv
<1> QED BY <1>1, ArtifactInvariant, PTL

HIDE DEF NoFile

-----------------------------------------------------------------------------
-----------------------------------------------------------------------------
(* Soak: evidence is earned.                                               *)

SoakSpec == SoakInit /\ [][SoakNext]_soakVars

SoakFields == {"phase", "cycle", "call", "ledger", "faults", "todo", "read", "held"}
SoakShape ==
  /\ DOMAIN soak = SoakFields /\ DOMAIN soak.read = Counts
  /\ DOMAIN appliance = {"app", "db", "facts", "spool", "job"}
  /\ DOMAIN disk = {"file", "tmp"}

\* The cycles acknowledged and the faults executed, by where the run is.
FaultsUpTo(n) == {FaultAt[c] : c \in {d \in DOMAIN FaultAt : d <= n}}
At(s, acked, faulted) == s.ledger = 1 .. acked /\ s.faults = FaultsUpTo(faulted)
Orderly(s) ==
  /\ s.phase = "cycle" => At(s, s.cycle - 1, s.cycle - 1)
  /\ s.phase = "fault" => At(s, s.cycle, s.cycle - 1) /\ s.cycle \in DOMAIN FaultAt
  /\ s.phase = "recover" => At(s, s.cycle, s.cycle)
  /\ s.phase \in {"judge", "written"} => At(s, MaxCycle, MaxCycle)

\* The final backup is the last thing counted, and what it held is kept.
Left(k) == SubSeq(Probes, k, 6)
Probed(s) ==
  /\ \E k \in 1 .. 7 : s.todo = Left(k)
  /\ s.todo = << >> => s.read.backup = Cardinality(s.held)
  /\ s.held \subseteq 0 .. MaxCycle
  /\ s.phase = "written" => s.todo = << >> /\ Assertions(s.read)

SoakInv == SoakTypeOK /\ SoakShape /\ Orderly(soak) /\ Probed(soak) /\ PassIsEarned

USE SoakAssumption

-----------------------------------------------------------------------------
LEMMA ProbesLeft ==
  /\ Left(1) = Probes /\ Probes # << >> /\ Left(7) = << >>
  /\ \A k \in 1 .. 6 : /\ Left(k) # << >> /\ Tail(Left(k)) = Left(k + 1) /\ Head(Left(k)) = Probes[k]
                       /\ Left(k + 1) = << >> => Probes[k] = "backup"
<1>1. Probes[1] \in Counts /\ Probes[2] \in Counts /\ Probes[3] \in Counts
  BY DEF Probes, Counts
<1>2. Probes[4] \in Counts /\ Probes[5] \in Counts /\ Probes[6] \in Counts /\ Probes[6] = "backup"
  BY DEF Probes, Counts
<1>3. Len(Probes) = 6 /\ Probes = [k \in 1 .. 6 |-> Probes[k]]
  BY DEF Probes
<1> HIDE DEF Probes
<1> HIDE DEF Counts
<1>4. \A k \in 1 .. 6 : Probes[k] \in Counts
  <2>1. ASSUME NEW k \in 1 .. 6 PROVE k = 1 \/ k = 2 \/ k = 3 \/ k = 4 \/ k = 5 \/ k = 6
    OBVIOUS
  <2> QED BY <1>1, <1>2, <2>1
<1>5. Probes \in Seq(Counts)
  BY <1>3, <1>4, IsASeq
<1>6. Left(1) = Probes
  BY <1>3, <1>5, SubSeqFull DEF Left
<1>7. Left(7) = << >>
  BY SubSeqEmpty DEF Left
<1>8. Probes # << >>
  BY <1>3, <1>5, EmptySeq
<1>9. ASSUME NEW k \in 1 .. 6
      PROVE  Left(k) # << >> /\ Tail(Left(k)) = Left(k + 1) /\ Head(Left(k)) = Probes[k]
  <2>1. k \in 1 .. Len(Probes) /\ 6 \in k .. Len(Probes)
    BY <1>3
  <2>2. Tail(Left(k)) = Left(k + 1) /\ Head(Left(k)) = Probes[k]
    BY <1>5, <2>1, HeadTailOfSubSeq DEF Left
  <2>3. Left(k) \in Seq(Counts) /\ Len(Left(k)) = 6 - k + 1
    BY <1>4, SubSeqProperties DEF Left
  <2>4. Left(k) # << >>
    BY <2>3, EmptySeq
  <2> QED BY <2>2, <2>4
<1>10. ASSUME NEW k \in 1 .. 6, Left(k + 1) = << >> PROVE Probes[k] = "backup"
  <2>1. k = 6 \/ k + 1 \in 1 .. 6
    OBVIOUS
  <2> QED BY <1>2, <1>9, <1>10, <2>1
<1> QED BY <1>6, <1>7, <1>8, <1>9, <1>10

\* A run that has just begun has its whole order of work before it.
LEMMA SoakBegins == Orderly(NewSoak) /\ Probed(NewSoak) /\ DOMAIN NewSoak = SoakFields /\ DOMAIN NewSoak.read = Counts
<1>1. FaultsUpTo(0) = {} /\ (1 .. 0) = {}
  BY DEF FaultsUpTo
<1>2. Orderly(NewSoak)
  BY <1>1 DEF Orderly, At, NewSoak
<1>3. \E k \in 1 .. 7 : NewSoak.todo = Left(k)
  BY ProbesLeft DEF NewSoak
<1>4. Probed(NewSoak)
  BY <1>3, ProbesLeft DEF Probed, NewSoak
<1> QED BY <1>2, <1>4 DEF NewSoak, SoakFields

LEMMA SoakInitInv == SoakInit => SoakInv
<1> SUFFICES ASSUME SoakInit PROVE SoakInv
  OBVIOUS
<1>1. soak = [NewSoak EXCEPT !.phase = "idle"]
  BY DEF SoakInit
<1>2. Orderly(soak) /\ Probed(soak) /\ DOMAIN soak = SoakFields /\ DOMAIN soak.read = Counts
  BY <1>1, SoakBegins DEF Orderly, Probed, NewSoak
<1>3. SoakTypeOK /\ SoakShape /\ PassIsEarned
  BY <1>1, <1>2 DEF SoakInit, NewSoak, SoakTypeOK, SoakShape, PassIsEarned
<1> QED BY <1>2, <1>3 DEF SoakInv

\* Steps that leave the run and its evidence alone, or stop it.
LEMMA SoakStops ==
  ASSUME SoakInv, UNCHANGED disk, soak' = soak \/ Fails,
         DOMAIN appliance' = DOMAIN appliance,
         appliance'.facts \subseteq 0 .. MaxCycle, appliance'.spool \subseteq 1 .. MaxCycle
  PROVE  SoakInv'
<1> USE DEF SoakInv
<1>1. CASE soak' = soak
  BY <1>1 DEF SoakTypeOK, SoakShape, Orderly, At, Probed, Assertions, PassIsEarned
<1>2. CASE Fails
  BY <1>2 DEF Fails, SoakTypeOK, SoakShape, SoakFields, Orderly, Probed, PassIsEarned
<1> QED BY <1>1, <1>2

\* What changes when the appliance does something.
LEMMA ApplianceSteps ==
  ASSUME SoakInv, ApplianceStarts \/ JobRuns \/ ApplianceMisbehaves
  PROVE  SoakInv'
<1> USE DEF SoakInv, SoakTypeOK, SoakShape
<1>1. UNCHANGED <<soak, disk>>
  BY DEF ApplianceStarts, JobRuns, ApplianceMisbehaves
<1>2. /\ DOMAIN appliance' = DOMAIN appliance
      /\ appliance'.facts \subseteq 0 .. MaxCycle /\ appliance'.spool \subseteq 1 .. MaxCycle
  <2>1. CASE ApplianceStarts
    BY <2>1 DEF ApplianceStarts
  <2>2. CASE JobRuns
    BY <2>2 DEF JobRuns
  <2>3. CASE ApplianceMisbehaves
    BY <2>3 DEF ApplianceMisbehaves, Foreign
  <2> QED BY <2>1, <2>2, <2>3
<1> QED BY <1>1, <1>2, SoakStops

\* The run goes on, and what has been recorded of it is still in order.
LEMMA SoakGoesOn ==
  ASSUME SoakInv, UNCHANGED <<disk, appliance>>, DOMAIN soak' = SoakFields,
         soak'.phase \in {"cycle", "fault", "recover", "judge"},
         soak'.cycle \in 1 .. MaxCycle, soak'.ledger \subseteq 1 .. MaxCycle,
         soak'.todo = soak.todo, soak'.read = soak.read, soak'.held = soak.held,
         Orderly(soak')
  PROVE  SoakInv'
<1>1. Probed(soak')
  BY DEF SoakInv, Probed
<1>2. SoakTypeOK' /\ SoakShape' /\ PassIsEarned'
  BY DEF SoakInv, SoakTypeOK, SoakShape, PassIsEarned
<1>3. Orderly(soak)' /\ Probed(soak)'
  BY <1>1 DEF Orderly, At, Probed, Assertions
<1> QED BY <1>2, <1>3 DEF SoakInv

LEMMA NextCycleFollows ==
  ASSUME NEW s, s.cycle \in 1 .. MaxCycle, DOMAIN s = SoakFields,
         At(s, s.cycle, s.cycle)
  PROVE  LET n == NextCycle(s) IN
         /\ DOMAIN n = SoakFields /\ Orderly(n)
         /\ n.phase \in {"cycle", "judge"} /\ n.cycle \in 1 .. MaxCycle
         /\ n.ledger = s.ledger /\ n.todo = s.todo /\ n.read = s.read /\ n.held = s.held
<1> DEFINE n == NextCycle(s)
<1>1. CASE s.cycle = MaxCycle
  <2>1. n = [s EXCEPT !.phase = "judge"]
    BY <1>1 DEF NextCycle
  <2> QED BY <1>1, <2>1 DEF SoakFields, Orderly, At
<1>2. CASE s.cycle # MaxCycle
  <2>1. n = [s EXCEPT !.phase = "cycle", !.cycle = s.cycle + 1, !.call = [c \in Calls |-> "running"]]
    BY <1>2 DEF NextCycle
  <2>2. /\ DOMAIN n = SoakFields /\ n.phase = "cycle" /\ n.cycle = s.cycle + 1
        /\ n.ledger = s.ledger /\ n.faults = s.faults
        /\ n.todo = s.todo /\ n.read = s.read /\ n.held = s.held
    BY <2>1 DEF SoakFields
  <2>3. n.cycle - 1 = s.cycle /\ n.cycle \in 1 .. MaxCycle
    BY <1>2, <2>2
  <2>4. Orderly(n)
    BY <2>2, <2>3 DEF Orderly, At
  <2> QED BY <2>2, <2>3, <2>4
<1> QED BY <1>1, <1>2

LEMMA CycleSteps ==
  ASSUME SoakInv, CycleEnds \/ ExecuteFault \/ Recover
  PROVE  SoakInv'
<1> USE DEF SoakInv, SoakShape
<1>1. CASE Fails /\ UNCHANGED <<disk, appliance>>
  BY <1>1, SoakStops DEF SoakTypeOK
<1>2. CASE CycleEnds /\ ~Fails
  <2> DEFINE s == [soak EXCEPT !.ledger = @ \cup {soak.cycle}]
  <2>1. /\ soak.phase = "cycle" /\ UNCHANGED <<disk, appliance>>
        /\ soak' = IF s.cycle \in DOMAIN FaultAt THEN [s EXCEPT !.phase = "fault"] ELSE NextCycle(s)
    BY <1>2 DEF CycleEnds
  <2>2. /\ DOMAIN s = SoakFields /\ s.ledger = soak.ledger \cup {soak.cycle}
        /\ s.cycle = soak.cycle /\ s.faults = soak.faults
        /\ s.todo = soak.todo /\ s.read = soak.read /\ s.held = soak.held
    BY DEF SoakFields
  <2>3. s.ledger = 1 .. s.cycle /\ s.cycle \in 1 .. MaxCycle /\ s.faults = FaultsUpTo(s.cycle - 1)
    BY <2>1, <2>2 DEF Orderly, At, SoakTypeOK
  <2> HIDE DEF s
  <2>4. CASE s.cycle \in DOMAIN FaultAt
    <3>1. /\ DOMAIN soak' = SoakFields /\ soak'.phase = "fault" /\ soak'.cycle = s.cycle
          /\ soak'.ledger = s.ledger /\ soak'.faults = s.faults
          /\ soak'.todo = soak.todo /\ soak'.read = soak.read /\ soak'.held = soak.held
      BY <2>1, <2>2, <2>4 DEF SoakFields
    <3>2. Orderly(soak')
      BY <2>3, <2>4, <3>1 DEF Orderly, At
    <3>3. soak'.ledger \subseteq 1 .. MaxCycle
      BY <2>3, <3>1
    <3> QED BY <2>1, <2>3, <3>1, <3>2, <3>3, SoakGoesOn
  <2>5. CASE s.cycle \notin DOMAIN FaultAt
    <3>1. soak' = NextCycle(s)
      BY <2>1, <2>5
    <3>2. FaultsUpTo(s.cycle - 1) = FaultsUpTo(s.cycle)
      BY <2>3, <2>5 DEF FaultsUpTo
    <3>3. At(s, s.cycle, s.cycle)
      BY <2>3, <3>2 DEF At
    <3>4. s.ledger \subseteq 1 .. MaxCycle
      BY <2>3
    <3> QED BY <2>1, <2>2, <2>3, <3>1, <3>3, <3>4, NextCycleFollows, SoakGoesOn
  <2> QED BY <2>4, <2>5
<1>3. CASE ExecuteFault
  <2>1. CASE Fails /\ UNCHANGED appliance
    BY <1>1, <1>3, <2>1 DEF ExecuteFault
  <2>2. CASE /\ soak' = [soak EXCEPT !.phase = "recover", !.faults = @ \cup {FaultAt[soak.cycle]}]
             /\ appliance' = [appliance EXCEPT !.app = @ /\ FaultAt[soak.cycle] = "database_restart",
                                               !.db = @ /\ FaultAt[soak.cycle] = "process_restart"]
    <3>1. soak.phase = "fault" /\ soak.cycle \in 1 .. MaxCycle /\ UNCHANGED disk
      BY <1>3 DEF ExecuteFault, SoakTypeOK
    <3>2. /\ DOMAIN soak' = SoakFields /\ soak'.phase = "recover" /\ soak'.cycle = soak.cycle
          /\ soak'.ledger = soak.ledger /\ soak'.faults = soak.faults \cup {FaultAt[soak.cycle]}
          /\ soak'.todo = soak.todo /\ soak'.read = soak.read /\ soak'.held = soak.held
      BY <2>2 DEF SoakFields
    <3>3. FaultsUpTo(soak.cycle) = FaultsUpTo(soak.cycle - 1) \cup {FaultAt[soak.cycle]}
      BY <3>1 DEF Orderly, FaultsUpTo
    <3>4. Orderly(soak)'
      BY <3>1, <3>2, <3>3 DEF Orderly, At
    <3>5. /\ DOMAIN appliance' = DOMAIN appliance
          /\ appliance'.facts = appliance.facts /\ appliance'.spool = appliance.spool
      BY <2>2
    <3>6. Probed(soak)'
      BY <3>2 DEF Probed
    <3>7. SoakTypeOK' /\ SoakShape' /\ PassIsEarned'
      BY <3>1, <3>2, <3>5 DEF SoakTypeOK, PassIsEarned
    <3> QED BY <3>4, <3>6, <3>7
  <2> QED BY <1>3, <2>1, <2>2 DEF ExecuteFault
<1>4. CASE Recover /\ ~Fails
  <2>1. soak.phase = "recover" /\ soak' = NextCycle(soak) /\ UNCHANGED <<disk, appliance>>
    BY <1>4 DEF Recover
  <2>2. At(soak, soak.cycle, soak.cycle) /\ soak.cycle \in 1 .. MaxCycle /\ soak.ledger \subseteq 1 .. MaxCycle
    BY <2>1 DEF Orderly, SoakTypeOK
  <2> QED BY <2>1, <2>2, NextCycleFollows, SoakGoesOn
<1> QED BY <1>1, <1>2, <1>3, <1>4 DEF CycleEnds, Recover

\* The calls of a cycle.
LEMMA CallSteps ==
  ASSUME SoakInv, IngestCycle \/ QueryRollup \/ BackupCountSnapshot
  PROVE  SoakInv'
<1> USE DEF SoakInv, SoakShape
<1>1. PICK c \in Calls : soak.phase = "cycle" /\ \E how \in {"ok", "error"} : Returns(c, how)
  BY DEF IngestCycle, QueryRollup, BackupCountSnapshot, Calling, Calls
<1>2. /\ DOMAIN soak' = SoakFields /\ soak'.phase = "cycle" /\ soak'.cycle = soak.cycle
      /\ soak'.ledger = soak.ledger /\ soak'.faults = soak.faults
      /\ soak'.todo = soak.todo /\ soak'.read = soak.read /\ soak'.held = soak.held
  BY <1>1 DEF Returns, SoakFields
<1>3. /\ UNCHANGED disk /\ DOMAIN appliance' = DOMAIN appliance
      /\ appliance'.facts \subseteq 0 .. MaxCycle /\ appliance'.spool \subseteq 1 .. MaxCycle
  BY DEF IngestCycle, QueryRollup, BackupCountSnapshot, SoakTypeOK
<1>4. Orderly(soak)' /\ Probed(soak)'
  BY <1>1, <1>2 DEF Orderly, At, Probed
<1>5. SoakTypeOK' /\ SoakShape' /\ PassIsEarned'
  BY <1>1, <1>2, <1>3 DEF SoakTypeOK, PassIsEarned
<1> QED BY <1>4, <1>5

\* Snapshot reads one count after the other; the last is the backup's.
LEMMA ProbeSteps ==
  ASSUME SoakInv, Probe
  PROVE  SoakInv'
<1> USE DEF SoakInv, SoakShape
<1> DEFINE p == Head(soak.todo)
<1>1. CASE Fails
  BY <1>1, SoakStops DEF Probe, SoakTypeOK
<1>2. CASE ~Fails
  <2>1. /\ soak.phase = "judge" /\ soak.todo # << >> /\ UNCHANGED <<disk, appliance>>
        /\ soak' = [soak EXCEPT !.todo = Tail(@), !.read[p] = CountOf(p),
                                !.held = IF p = "backup" THEN appliance.facts ELSE @]
    BY <1>2 DEF Probe
  <2>2. /\ DOMAIN soak' = SoakFields /\ soak'.phase = soak.phase /\ soak'.cycle = soak.cycle
        /\ soak'.ledger = soak.ledger /\ soak'.faults = soak.faults
        /\ soak'.todo = Tail(soak.todo)
        /\ soak'.read = [soak.read EXCEPT ![p] = CountOf(p)]
        /\ soak'.held = IF p = "backup" THEN appliance.facts ELSE soak.held
    BY <2>1 DEF SoakFields
  <2>3. PICK k \in 1 .. 6 : soak.todo = Left(k)
    <3>1. PICK k \in 1 .. 7 : soak.todo = Left(k)
      BY DEF Probed
    <3>2. k # 7
      BY <2>1, <3>1, ProbesLeft
    <3> QED BY <3>1, <3>2
  <2>4. k + 1 \in 1 .. 7 /\ soak'.todo = Left(k + 1)
    <3>1. k + 1 \in 1 .. 7
      OBVIOUS
    <3> QED BY <2>2, <2>3, <3>1, ProbesLeft
  <2>5. ASSUME soak'.todo = << >> PROVE soak'.read.backup = Cardinality(soak'.held)
    <3>1. p = "backup"
      BY <2>3, <2>4, <2>5, ProbesLeft
    <3>2. soak'.read = [soak.read EXCEPT !["backup"] = CountOf("backup")] /\ soak'.held = appliance.facts
      BY <2>2, <3>1
    <3>3. soak'.read["backup"] = CountOf("backup")
      BY <3>2 DEF Counts
    <3>4. CountOf("backup") = Cardinality(appliance.facts)
      BY DEF CountOf
    <3> QED BY <3>2, <3>3, <3>4
  <2>6. soak'.held \subseteq 0 .. MaxCycle
    BY <2>2 DEF Probed, SoakTypeOK
  <2>7. Probed(soak)'
    BY <2>1, <2>2, <2>4, <2>5, <2>6 DEF Probed
  <2>8. Orderly(soak)'
    BY <2>1, <2>2 DEF Orderly, At
  <2>9. SoakTypeOK' /\ SoakShape' /\ PassIsEarned'
    BY <2>1, <2>2 DEF SoakTypeOK, PassIsEarned
  <2> QED BY <2>7, <2>8, <2>9
<1> QED BY <1>1, <1>2

LEMMA EvidenceSteps ==
  ASSUME SoakInv, WriteEvidence \/ PublishEvidence
  PROVE  SoakInv'
<1> USE DEF SoakInv, SoakShape
<1>1. CASE Fails /\ UNCHANGED <<disk, appliance>>
  BY <1>1, SoakStops DEF SoakTypeOK
<1>2. CASE WriteEvidence /\ ~(Fails /\ UNCHANGED disk)
  <2>1. /\ soak.phase = "judge" /\ soak.todo = << >> /\ Assertions(soak.read) /\ UNCHANGED appliance
        /\ soak' = [soak EXCEPT !.phase = "written"] /\ disk' = [disk EXCEPT !.tmp = TRUE]
    BY <1>2 DEF WriteEvidence
  <2>2. /\ DOMAIN soak' = SoakFields /\ soak'.phase = "written" /\ soak'.cycle = soak.cycle
        /\ soak'.ledger = soak.ledger /\ soak'.faults = soak.faults
        /\ soak'.todo = soak.todo /\ soak'.read = soak.read /\ soak'.held = soak.held
    BY <2>1 DEF SoakFields
  <2>3. DOMAIN disk' = DOMAIN disk /\ disk'.file = disk.file
    BY <2>1
  <2>4. Assertions(soak.read)'
    BY <2>1, <2>2 DEF Assertions
  <2>5. Orderly(soak)' /\ Probed(soak)'
    BY <2>1, <2>2, <2>4 DEF Orderly, At, Probed
  <2>6. SoakTypeOK' /\ SoakShape' /\ PassIsEarned'
    BY <2>1, <2>2, <2>3 DEF SoakTypeOK, PassIsEarned
  <2> QED BY <2>5, <2>6
<1>3. CASE PublishEvidence
  <2>1. /\ soak.phase = "written" /\ UNCHANGED appliance
        /\ soak' = [soak EXCEPT !.phase = "pass"]
        /\ disk' = [tmp |-> FALSE,
                    file |-> [acked |-> soak.ledger, held |-> soak.held, faults |-> soak.faults]]
    BY <1>3 DEF PublishEvidence
  <2>2. /\ DOMAIN soak' = SoakFields /\ soak'.phase = "pass" /\ soak'.cycle = soak.cycle
        /\ soak'.ledger = soak.ledger /\ soak'.todo = soak.todo /\ soak'.read = soak.read
        /\ soak'.held = soak.held
    BY <2>1 DEF SoakFields
  <2>3. /\ soak.ledger = 1 .. MaxCycle /\ soak.faults = FaultsUpTo(MaxCycle)
        /\ soak.held \subseteq 0 .. MaxCycle
        /\ soak.read.backup = Cardinality(soak.held) /\ Assertions(soak.read)
    BY <2>1 DEF Orderly, At, Probed
  <2>4. FaultsUpTo(MaxCycle) = {FaultAt[c] : c \in DOMAIN FaultAt}
    <3>1. {d \in DOMAIN FaultAt : d <= MaxCycle} = DOMAIN FaultAt
      OBVIOUS
    <3> QED BY <3>1 DEF FaultsUpTo
  <2>5. IsFiniteSet(1 .. MaxCycle) /\ Cardinality(1 .. MaxCycle) = MaxCycle
    BY FS_Interval
  <2>6. Cardinality(soak.held) = MaxCycle
    BY <2>3, <2>5 DEF Assertions
  <2>7. soak.ledger \subseteq soak.held \/ Foreign \in soak.held
    <3>1. ASSUME Foreign \notin soak.held PROVE soak.held = 1 .. MaxCycle
      <4>1. soak.held \in SUBSET (1 .. MaxCycle)
        BY <2>3, <3>1 DEF Foreign
      <4> QED BY <2>5, <2>6, <4>1, FS_Subset
    <3> QED BY <2>3, <3>1
  <2>8. PassIsEarned'
    BY <2>1, <2>3, <2>4, <2>6, <2>7 DEF PassIsEarned
  <2>9. Orderly(soak)' /\ Probed(soak)'
    BY <2>1, <2>2 DEF Orderly, Probed
  <2>10. SoakTypeOK' /\ SoakShape'
    BY <2>1, <2>2 DEF SoakTypeOK
  <2> QED BY <2>8, <2>9, <2>10
<1> QED BY <1>1, <1>2, <1>3 DEF WriteEvidence

LEMMA SoakInvStep == SoakInv /\ [SoakNext]_soakVars => SoakInv'
<1> SUFFICES ASSUME SoakInv, [SoakNext]_soakVars PROVE SoakInv'
  OBVIOUS
<1>1. CASE UNCHANGED soakVars
  BY <1>1, SoakStops DEF soakVars, SoakInv, SoakTypeOK
<1>2. CASE SoakDies
  BY <1>2, SoakStops DEF SoakDies, SoakInv, SoakTypeOK
<1>3. CASE RunAcceleratedSoak
  <2>1. soak' = NewSoak /\ UNCHANGED <<appliance, disk>>
    BY <1>3 DEF RunAcceleratedSoak
  <2>2. Orderly(soak)' /\ Probed(soak)' /\ DOMAIN soak' = SoakFields /\ DOMAIN soak'.read = Counts
    <3>1. Orderly(soak') /\ Probed(soak') /\ DOMAIN soak' = SoakFields /\ DOMAIN soak'.read = Counts
      BY <2>1, SoakBegins
    <3> QED BY <2>1, <3>1 DEF Orderly, Probed, NewSoak
  <2>3. SoakTypeOK' /\ SoakShape' /\ PassIsEarned'
    BY <2>1, <2>2 DEF SoakInv, SoakTypeOK, SoakShape, PassIsEarned, NewSoak
  <2> QED BY <2>2, <2>3 DEF SoakInv
<1> QED BY <1>1, <1>2, <1>3, ApplianceSteps, CycleSteps, CallSteps, ProbeSteps, EvidenceSteps DEF SoakNext

LEMMA SoakInvariant == SoakSpec => []SoakInv
BY SoakInitInv, SoakInvStep, PTL DEF SoakSpec

\* The run, its ledger and what the appliance holds keep their types.
THEOREM SoakTyped == SoakSpec => []SoakTypeOK
<1>1. SoakInv => SoakTypeOK
  BY DEF SoakInv
<1> QED BY <1>1, SoakInvariant, PTL

\* Whatever faults are ordered, and whatever the appliance loses or is given
\* meanwhile: evidence that is there was written by a run in which every cycle
\* was acknowledged, every fault executed, and the last backup held the events.
THEOREM SoakPassIsEarned == SoakSpec => []PassIsEarned
<1>1. SoakInv => PassIsEarned
  BY DEF SoakInv
<1> QED BY <1>1, SoakInvariant, PTL

HIDE SoakAssumption
===============================================================================
