----------------------------- MODULE RollupRepair -----------------------------
(***************************************************************************)
(* Late-data repair of the rollups (internal/dataplatform/repair.go,       *)
(* rollup.go, InsertFact of ingest.go, retention.go).                      *)
(*                                                                         *)
(* InsertFact stores a fact and, in the same transaction, enqueues the     *)
(* hourly and the daily bucket it falls in.  Once a minute the rollup job  *)
(* claims buckets, which deletes them from the queue, and recomputes each  *)
(* from the facts it can see.  Retention drops whole months of facts.      *)
(*                                                                         *)
(* Recomputations may overlap.  The job's lease (module JobLease) bounds   *)
(* the running rows, not the handlers: one whose row has expired or was    *)
(* recovered runs on beside its successor.  And the synthetic probe of the *)
(* integrity engine recomputes the buckets of its own scope without lease  *)
(* or claim (internal/integrity/syntheticpipeline.go 641-736).             *)
(*                                                                         *)
(* A key is one row of rollup_repair_queue: granularity, bucket and scope. *)
(* Its rollup is the set of facts the published row counts.  rollup_status *)
(* is left out: nothing reads it but the health page.                      *)
(***************************************************************************)
EXTENDS Naturals, FiniteSets, Sequences

CONSTANTS
  Facts,
  Keys,
  Months,       \* partitions of the events table
  HourOf,       \* the hourly key of a fact
  DayOf,        \* its daily key
  MonthOf,      \* its partition
  Unresolved,   \* keys whose scope has an empty part (no component resolved)
  Writers,      \* goroutines that call InsertFact: lane workers and replays
  Workers,      \* goroutines that may run the rollup job, over all processes
  Probe,        \* the goroutine of the synthetic probe
  ProbeFacts,   \* what it has sent through the public ingress
  ProbeKeys,    \* keys of its scope; probes before it may have left facts there
  BatchLimit,   \* buckets per claim (64)
  None,
  MaxFailures,  \* bound: failing statements of a recomputation, and crashes
  MaxDrops      \* bound: dropped partitions and cleanups of the probe

ASSUME BucketAssumption ==
  /\ HourOf \in [Facts -> Keys]
  /\ DayOf \in [Facts -> Keys]
  /\ MonthOf \in [Facts -> Months]
  /\ \A f, g \in Facts : HourOf[f] # DayOf[g]
  /\ Unresolved \subseteq Keys
  /\ None \notin Keys \cup Facts
  /\ Probe \notin Workers /\ ProbeFacts \subseteq Facts /\ ProbeKeys \subseteq Keys

ASSUME RepairBounds == BatchLimit \in Nat \ {0} /\ MaxFailures \in Nat /\ MaxDrops \in Nat

VARIABLES
  tx,         \* the open InsertFact transaction of each writer
  events,     \* committed facts
  queue,      \* committed rows of rollup_repair_queue
  worker,     \* each RunRepairWorker, and the probe
  rollup,     \* facts counted in the published row of each key
  missed,     \* history: <<fact, key>> that no repair will count, as a claim took
              \* the row the fact relied on before it committed, the repair was
              \* given up, or an older reading was written over a newer one
  failures, drops

vars == <<tx, events, queue, worker, rollup, missed, failures, drops>>

KeysOf(f) == {HourOf[f], DayOf[f]}
Recomputers == Workers \cup {Probe}

\* pos: 0 no transaction, 1 and 2 about to enqueue that key, 3 about to commit.
\* added: rows it inserted; skipped: keys it found queued; stale: those of
\* them that have been claimed since.
Tx == [pos : 0 .. 3, fact : Facts \cup {None}, added : SUBSET Keys,
       skipped : SUBSET Keys, stale : SUBSET Keys]
NoTx == [pos |-> 0, fact |-> None, added |-> {}, skipped |-> {}, stale |-> {}]

\* batch: keys it has claimed (the probe: listed) and not read yet; key and
\* snap: the bucket being written; outdated: another has written it since.
Repair == [st : {"idle", "claiming", "reading", "writing", "outdated", "deleting"},
           batch : SUBSET Keys, key : Keys \cup {None}, snap : SUBSET Facts]
NoRepair == [st |-> "idle", batch |-> {}, key |-> None, snap |-> {}]
Writes == {"writing", "outdated"}

Init ==
  /\ tx = [w \in Writers |-> NoTx]
  /\ events = {}
  /\ queue = {}
  /\ worker = [p \in Recomputers |-> NoRepair]
  /\ rollup = [k \in Keys |-> {}]
  /\ missed = {}
  /\ failures = 0
  /\ drops = 0

-----------------------------------------------------------------------------
(* InsertFact.                                                             *)

\* Deviation: the order differs between facts (a range over a map).
EnqueueOrderVaries(f) ==
  IF f = CHOOSE g \in Facts : TRUE THEN <<DayOf[f], HourOf[f]>>
                                   ELSE <<HourOf[f], DayOf[f]>>

\* The order in which enqueueRepairForFact visits the granularities.
EnqueueOrder(f) == <<HourOf[f], DayOf[f]>>

\* EnsurePartition and INSERT INTO events: waits for an uncommitted insert of
\* the same fact.  A fact that is already there goes on to enqueue all the same.
InsertEvent(w, f) ==
  /\ tx[w].pos = 0
  /\ \A v \in Writers : tx[v].fact # f
  /\ tx' = [tx EXCEPT ![w] =
       [pos |-> 1, fact |-> f, added |-> {}, skipped |-> {}, stale |-> {}]]
  /\ UNCHANGED <<events, queue, worker, rollup, missed, failures, drops>>

\* A transaction t that has dealt with key k, which was queued or is now.
Visited(t, k, queued) ==
  [pos |-> t.pos + 1, fact |-> t.fact, stale |-> t.stale,
   added |-> IF queued THEN t.added ELSE t.added \cup {k},
   skipped |-> IF queued THEN t.skipped \cup {k} ELSE t.skipped]

\* Deviation: an uncommitted row of another transaction counts as queued.
EnqueueUncommitted(w) ==
  /\ tx[w].pos \in {1, 2}
  /\ LET k == EnqueueOrder(tx[w].fact)[tx[w].pos] IN
       tx' = [tx EXCEPT ![w] =
         Visited(tx[w], k, k \in queue \/ \E v \in Writers : k \in tx[v].added)]
  /\ UNCHANGED <<events, queue, worker, rollup, missed, failures, drops>>

\* INSERT ... ON CONFLICT DO NOTHING: waits for the outcome of another
\* transaction that inserted the key; a committed row is left alone and is not
\* locked.
Enqueue(w) ==
  /\ tx[w].pos \in {1, 2}
  /\ LET k == EnqueueOrder(tx[w].fact)[tx[w].pos] IN
       /\ \A v \in Writers \ {w} : k \notin tx[v].added
       /\ tx' = [tx EXCEPT ![w] = Visited(tx[w], k, k \in queue)]
  /\ UNCHANGED <<events, queue, worker, rollup, missed, failures, drops>>

Claimed == UNION {worker[p].batch : p \in Workers}
Writing(p, k) == worker[p].st \in Writes /\ worker[p].key = k

\* f is counted in bucket k, and nobody is about to write it without f.
Published(f, k) ==
  f \in rollup[k] /\ \A p \in Recomputers : Writing(p, k) => f \in worker[p].snap

\* The pairs of new are missed too; what is queued again or counted, or no
\* longer stored, is not missed any more.
Miss(new) ==
  missed' = {fk \in missed \cup new :
    fk[1] \in events' /\ fk[2] \notin queue' /\ ~Published(fk[1], fk[2])'}

Commit(w) ==
  /\ tx[w].pos = 3
  /\ events' = events \cup {tx[w].fact}
  /\ queue' = queue \cup tx[w].added
  /\ tx' = [tx EXCEPT ![w] = NoTx]
  /\ UNCHANGED <<worker, rollup, failures, drops>>
  /\ Miss({<<tx[w].fact, k>> : k \in tx[w].stale \ Claimed})

\* An error or a timeout: BeginFunc rolls back, and the record is spooled.
Abort(w) ==
  /\ tx[w].pos # 0
  /\ tx' = [tx EXCEPT ![w] = NoTx]
  /\ UNCHANGED <<events, queue, worker, rollup, missed, failures, drops>>

-----------------------------------------------------------------------------
(* The recomputations.                                                     *)

\* The scheduler's minute tick, or an operator's command.  An older handler of
\* the job may still be at work.
BeginRepair(p) ==
  /\ worker[p].st = "idle"
  /\ worker' = [worker EXCEPT ![p].st = "claiming"]
  /\ UNCHANGED <<tx, events, queue, rollup, missed, failures, drops>>

\* Transactions that found a key of K queued no longer rely on anything.
Overtake(K) ==
  tx' = [w \in Writers |-> [tx[w] EXCEPT !.stale = @ \cup (tx[w].skipped \cap K)]]

\* ClaimRepairBatch, one transaction: rows another claim has locked are
\* skipped, and an insert that meets a locked row behaves as if it came just
\* before.  The oldest rows go first (ORDER BY enqueued_at); here any rows may,
\* and Fairness says that no row is passed over for ever.
Claim(p) ==
  /\ worker[p].st = "claiming"
  /\ \E batch \in SUBSET queue :
       /\ batch # {}
       /\ Cardinality(batch) <= BatchLimit
       /\ batch # queue => Cardinality(batch) = BatchLimit
       /\ queue' = queue \ batch
       /\ worker' = [worker EXCEPT ![p].st = "reading", ![p].batch = batch]
       /\ Overtake(batch)
  /\ UNCHANGED <<events, rollup, missed, failures, drops>>

\* The claim found nothing: the job is done.
EndRepair(p) ==
  /\ worker[p].st = "claiming"
  /\ queue = {}
  /\ worker' = [worker EXCEPT ![p] = NoRepair]
  /\ UNCHANGED <<tx, events, queue, rollup, missed, failures, drops>>

\* verifyPostgresPath: all the probe's events are there and the queue has the
\* two rows of its scope, which it lists and leaves where they are.
BeginProbe ==
  /\ worker[Probe].st = "idle"
  /\ ProbeFacts # {} /\ ProbeFacts \subseteq events
  /\ Cardinality(queue \cap ProbeKeys) = 2
  /\ worker' = [worker EXCEPT ![Probe].st = "reading", ![Probe].batch = queue \cap ProbeKeys]
  /\ UNCHANGED <<tx, events, queue, rollup, missed, failures, drops>>

\* Deviation: the aggregate leaves out what the row counts already.
CountedSince(k) ==
  IF k \in Unresolved THEN {} ELSE {f \in events \ rollup[k] : k \in KeysOf(f)}

\* The aggregate over the bucket.  An empty part of the scope is compared as
\* NULL (nullableString), which no row equals.
Counted(k) == IF k \in Unresolved THEN {} ELSE {f \in events : k \in KeysOf(f)}

\* RecomputeBucket reads ...
Read(p) ==
  /\ worker[p].st = "reading"
  /\ \E k \in worker[p].batch :
       worker' = [worker EXCEPT ![p] = [st |-> "writing", batch |-> @.batch \ {k}, key |-> k,
                                        snap |-> Counted(k)]]
  /\ UNCHANGED <<tx, events, queue, rollup, missed, failures, drops>>

\* p has written bucket k and goes on with its batch; whoever else is about to
\* write k has read it before.
WroteTo(next, p, k) ==
  worker' = [q \in Recomputers |->
    IF q = p THEN [NoRepair EXCEPT !.batch = worker[p].batch, !.st = next]
    ELSE IF Writing(q, k) THEN [worker[q] EXCEPT !.st = "outdated"]
    ELSE worker[q]]
NextOf(p) ==
  CASE worker[p].batch # {} -> "reading"
    [] p = Probe -> "deleting"
    [] OTHER -> "claiming"

\* Deviation: ON CONFLICT DO NOTHING instead of DO UPDATE.
WriteOnce(p) ==
  /\ worker[p].st \in Writes
  /\ rollup' = [rollup EXCEPT ![worker[p].key] = IF @ = {} THEN worker[p].snap ELSE @]
  /\ WroteTo(NextOf(p), p, worker[p].key)
  /\ UNCHANGED <<tx, events, queue, missed, failures, drops>>

\* Deviation: the worker claims again after the first bucket of its batch.
WriteFirstOnly(p) ==
  /\ worker[p].st \in Writes
  /\ rollup' = [rollup EXCEPT ![worker[p].key] = worker[p].snap]
  /\ WroteTo("claiming", p, worker[p].key)
  /\ UNCHANGED <<tx, events, queue, missed, failures, drops>>

\* ... and replaces the rollup row in a statement of its own, whatever was
\* written there since the reading.  A third moves the watermark.
Write(p) ==
  /\ worker[p].st \in Writes
  /\ UNCHANGED <<tx, events, queue, failures, drops>>
  /\ LET k == worker[p].key
         removed == IF worker[p].st = "outdated" THEN rollup[k] \ worker[p].snap ELSE {} IN
       /\ rollup' = [rollup EXCEPT ![k] = worker[p].snap]
       /\ WroteTo(NextOf(p), p, k)
       /\ Miss(removed \X {k})

-----------------------------------------------------------------------------
(* What the probe deletes, failures and retention.                         *)

\* What is given up with the repairs of the keys in K.
GivenUp(K) ==
  {fk \in events \X K : fk[2] \in KeysOf(fk[1])}

\* DELETE FROM rollup_repair_queue of its whole scope, the rows that came after
\* it had listed them included.
DeleteListed ==
  /\ worker[Probe].st = "deleting"
  /\ queue' = queue \ ProbeKeys
  /\ Overtake(queue \cap ProbeKeys)
  /\ worker' = [worker EXCEPT ![Probe] = NoRepair]
  /\ UNCHANGED <<events, rollup, failures, drops>>
  /\ Miss(GivenUp(queue \cap ProbeKeys))

\* cleanupPostgresProbe, one transaction: waits for open inserts in the scope,
\* whose rows refer to the ones it deletes, and is refused by any event there
\* that is not the probe's.
InScope(f) == KeysOf(f) \cap ProbeKeys # {}
CleanProbe ==
  /\ drops < MaxDrops
  /\ worker[Probe].st = "idle"
  /\ ProbeFacts # {} /\ ProbeFacts \subseteq events
  /\ \A f \in events : InScope(f) => f \in ProbeFacts
  /\ \A w \in Writers : tx[w].pos # 0 => ~InScope(tx[w].fact)
  /\ drops' = drops + 1
  /\ events' = events \ ProbeFacts
  /\ queue' = queue \ ProbeKeys
  /\ rollup' = [k \in Keys |-> IF k \in ProbeKeys THEN {} ELSE rollup[k]]
  /\ Overtake(queue \cap ProbeKeys)
  /\ UNCHANGED <<worker, failures>>
  /\ Miss({})

Failure ==
  /\ failures < MaxFailures
  /\ failures' = failures + 1

\* Keys a worker has claimed and not rewritten; the probe claims nothing.
Unwritten(p) ==
  IF p = Probe THEN {}
  ELSE worker[p].batch \cup IF worker[p].st \in Writes THEN {worker[p].key} ELSE {}

\* A statement fails, or the context is cancelled: RunRepairWorker returns with
\* the rest of its batch, and the job's next attempt claims anew; the probe is
\* over.
Fail(p) ==
  /\ worker[p].st # "idle"
  /\ Failure
  /\ worker' = [worker EXCEPT ![p] = NoRepair]
  /\ UNCHANGED <<tx, events, queue, rollup, drops>>
  /\ Miss(GivenUp(Unwritten(p)))

\* The process dies; PostgreSQL rolls its transactions back.
Crash ==
  /\ Failure
  /\ worker' = [p \in Recomputers |-> NoRepair]
  /\ tx' = [w \in Writers |-> NoTx]
  /\ UNCHANGED <<events, queue, rollup, drops>>
  /\ Miss(GivenUp(UNION {Unwritten(p) : p \in Workers}))

\* DropPartitionsOlderThan: DROP TABLE waits for open transactions on events.
\* The rollups of the month stay.  InsertFact recreates the partition for a
\* fact that arrives later.
DropMonth(m) ==
  /\ drops < MaxDrops
  /\ drops' = drops + 1
  /\ \A w \in Writers : tx[w].pos = 0
  /\ events' = {f \in events : MonthOf[f] # m}
  /\ UNCHANGED <<tx, queue, worker, rollup, failures>>
  /\ Miss({})

WriterStep(w) ==
  \/ \E f \in Facts : InsertEvent(w, f)
  \/ Enqueue(w)
  \/ Commit(w)
  \/ Abort(w)

RecomputeStep(p) == Read(p) \/ Write(p) \/ Fail(p)
RepairStep(p) == BeginRepair(p) \/ Claim(p) \/ EndRepair(p) \/ RecomputeStep(p)
ProbeStep == BeginProbe \/ DeleteListed \/ CleanProbe \/ RecomputeStep(Probe)

Next ==
  \/ \E w \in Writers : WriterStep(w)
  \/ \E p \in Workers : RepairStep(p)
  \/ ProbeStep
  \/ Crash
  \/ \E m \in Months : DropMonth(m)

Spec == Init /\ [][Next]_vars

ClaimOf(k) == k \in queue /\ (\E p \in Workers : Claim(p)) /\ k \notin queue'

\* Open transactions go on, and the job runs every minute.  A transaction that
\* waits for a lock is served eventually (PostgreSQL queues waiters), and so is
\* a queued bucket (the oldest are claimed first).
Fairness ==
  /\ \A w \in Writers : SF_vars(Enqueue(w)) /\ WF_vars(Commit(w))
  /\ \A k \in Keys : SF_vars(ClaimOf(k))
  /\ \A p \in Workers :
       WF_vars(Claim(p) \/ EndRepair(p) \/ Read(p) \/ Write(p))
  /\ WF_vars(\E p \in Workers : BeginRepair(p))

FairSpec == Spec /\ Fairness

-----------------------------------------------------------------------------
(* Properties.                                                             *)

\* Every variable holds a value its declaration in the code allows; a worker
\* that claims again has finished its batch, and what is written has a key.
TypeOK ==
  /\ tx \in [Writers -> Tx]
  /\ events \subseteq Facts
  /\ queue \subseteq Keys
  /\ worker \in [Recomputers -> Repair]
  /\ \A p \in Recomputers :
       /\ worker[p].st \in {"idle", "claiming"} => worker[p].batch = {}
       /\ worker[p].st \in Writes => worker[p].key \in Keys
  /\ rollup \in [Keys -> SUBSET Facts]
  /\ missed \subseteq Facts \X Keys
  /\ failures \in Nat /\ drops \in Nat

\* A worker will still compute k from the facts committed now, or has read it
\* with f in it.  The probe may give up, and does not count.
Repairing(k) == k \in queue \cup Claimed
CountedIn(f, k) == \E p \in Workers : Writing(p, k) /\ f \in worker[p].snap

\* Every committed fact of a resolved scope is counted in both its rollups, or
\* its bucket is queued, claimed or being written.  The only ways out are a
\* claim or a deletion that overtook the fact's transaction, repairs that were
\* given up, and an older reading that was written over a newer one
\* (repair.go 22-26, 83-121, 143-155; syntheticpipeline.go 667-675).
Accounted ==
  \A f \in events : \A k \in KeysOf(f) \ Unresolved :
    \/ f \in rollup[k]
    \/ Repairing(k)
    \/ CountedIn(f, k)
    \/ <<f, k>> \in missed

\* Until a partition is dropped or a probe cleaned up, a published rollup only
\* grows, whichever recomputations overlap; the one exception is a write whose
\* bucket another recomputation wrote after it was read (repair.go 83-121 reads
\* and writes in separate statements, and nothing compares the two).
WrittenOutdated(k) ==
  \E p \in Recomputers :
    /\ worker[p].st = "outdated" /\ worker[p].key = k
    /\ ~Writing(p, k)'
RollupsGrow == \A k \in Keys : rollup[k] \subseteq rollup'[k] \/ WrittenOutdated(k)
PublishedFactsStay == [][drops' = 0 => RollupsGrow]_vars

\* Concurrent inserts that share buckets never wait for each other in a cycle:
\* in every set of writers one waits for none of the others (rollup.go 50-63
\* visits the granularities in one order).
Waits(w, v) ==
  /\ tx[w].pos \in {1, 2}
  /\ EnqueueOrder(tx[w].fact)[tx[w].pos] \in tx[v].added
NoWaitCycle ==
  \A S \in SUBSET Writers : S # {} => \E w \in S : \A v \in S \ {w} : ~Waits(w, v)

\* A committed fact is counted in the end, unless its repair was missed for one
\* of those reasons or the fact is gone.
RepairsHappen ==
  \A f \in Facts : \A k \in KeysOf(f) \ Unresolved :
    f \in events ~> \/ f \in rollup[k]
                     \/ <<f, k>> \in missed
                     \/ f \notin events
===============================================================================
