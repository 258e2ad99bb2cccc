-------------------------- MODULE RollupRepair_proofs --------------------------
(* Theorems about RollupRepair, for every value of its constants. *)
EXTENDS RollupRepair, FiniteSetTheorems, TLAPS

LEMMA KeysTyped ==
  ASSUME NEW f \in Facts
  PROVE  /\ HourOf[f] \in Keys /\ DayOf[f] \in Keys
         /\ KeysOf(f) \subseteq Keys
         /\ EnqueueOrder(f)[1] = HourOf[f]
         /\ EnqueueOrder(f)[2] = DayOf[f]
  BY BucketAssumption DEF KeysOf, EnqueueOrder

\* A transaction about to enqueue or to commit is about a fact, has dealt with
\* the keys it has passed, and what it relies on is still queued unless
\* claimed or deleted.
TxShape ==
  \A w \in Writers :
    /\ tx[w].pos # 0 => tx[w].fact \in Facts
    /\ tx[w].pos = 0 => tx[w] = NoTx
    /\ tx[w].pos \in {2, 3} => HourOf[tx[w].fact] \in tx[w].added \cup tx[w].skipped
    /\ tx[w].pos = 3 => DayOf[tx[w].fact] \in tx[w].added \cup tx[w].skipped
    /\ tx[w].skipped \subseteq tx[w].stale \cup queue

\* f is counted in k, and whoever is about to write k without f has been
\* overtaken by a write.
Kept(f, k) ==
  /\ f \in rollup[k]
  /\ \A p \in Recomputers : Writing(p, k) /\ f \notin worker[p].snap => worker[p].st = "outdated"

Covered(f, k) == Kept(f, k) \/ Repairing(k) \/ CountedIn(f, k) \/ <<f, k>> \in missed

AllCovered == \A f \in events : \A k \in KeysOf(f) \ Unresolved : Covered(f, k)

IInv == TypeOK /\ TxShape /\ AllCovered

-----------------------------------------------------------------------------
LEMMA InitIInv == Init => IInv
<1> SUFFICES ASSUME Init PROVE IInv
  OBVIOUS
<1>1. TypeOK
  BY RepairBounds DEF Init, TypeOK, Tx, NoTx, Repair, NoRepair, Writes
<1>2. TxShape
  BY DEF Init, TxShape, NoTx
<1>3. AllCovered
  BY DEF Init, AllCovered
<1> QED
  BY <1>1, <1>2, <1>3 DEF IInv

\* The types, one lemma per part of the state that an action rewrites.
LEMMA TxTyped ==
  ASSUME TypeOK, NEW w \in Writers, NEW rec \in Tx, tx' = [tx EXCEPT ![w] = rec]
  PROVE  /\ tx' \in [Writers -> Tx]
         /\ tx'[w] = rec
         /\ \A v \in Writers \ {w} : tx'[v] = tx[v]
  BY DEF TypeOK

Fits(rec) ==
  /\ rec.st \in {"idle", "claiming"} => rec.batch = {}
  /\ rec.st \in Writes => rec.key \in Keys
WorkersTyped ==
  /\ worker \in [Recomputers -> Repair]
  /\ \A p \in Recomputers : Fits(worker[p])

LEMMA WorkerTyped ==
  ASSUME TypeOK, NEW p \in Recomputers, NEW rec \in Repair, Fits(rec),
         worker' = [worker EXCEPT ![p] = rec]
  PROVE  /\ WorkersTyped'
         /\ worker'[p] = rec
         /\ \A q \in Recomputers \ {p} : worker'[q] = worker[q]
<1>1. worker \in [Recomputers -> Repair] /\ \A q \in Recomputers : Fits(worker[q])
  BY DEF TypeOK, Fits
<1>2. /\ worker' \in [Recomputers -> Repair]
      /\ worker'[p] = rec
      /\ \A q \in Recomputers \ {p} : worker'[q] = worker[q]
  BY <1>1
<1>3. \A q \in Recomputers : Fits(worker'[q])
  BY <1>1, <1>2
<1> QED
  BY <1>2, <1>3 DEF WorkersTyped, Fits

LEMMA MissTyped ==
  ASSUME TypeOK, NEW new, new \subseteq Facts \X Keys, Miss(new)
  PROVE  missed' \subseteq Facts \X Keys
  BY DEF TypeOK, Miss

LEMMA GivenUpTyped ==
  ASSUME TypeOK, NEW K, K \subseteq Keys
  PROVE  GivenUp(K) \subseteq Facts \X Keys
  BY DEF TypeOK, GivenUp

LEMMA UnwrittenTyped ==
  ASSUME TypeOK, NEW p \in Recomputers
  PROVE  Unwritten(p) \subseteq Keys
  BY DEF TypeOK, Unwritten, Repair

\* What is missed once stays missed, unless it is queued again or counted.
LEMMA MissCovers ==
  ASSUME NEW new, Miss(new), NEW f \in events', NEW k, <<f, k>> \in missed \cup new
  PROVE  Covered(f, k)'
<1>1. CASE k \in queue'
  BY <1>1 DEF Covered, Repairing
<1>2. CASE Published(f, k)'
  BY <1>2 DEF Covered, Kept, Published
<1>3. CASE k \notin queue' /\ ~Published(f, k)'
  <2>1. <<f, k>> \in missed'
    BY <1>3 DEF Miss
  <2> QED
    BY <2>1 DEF Covered
<1> QED
  BY <1>1, <1>2, <1>3

\* Steps that only touch a transaction leave every committed fact covered.
LEMMA OnlyTx ==
  ASSUME AllCovered, UNCHANGED <<events, queue, worker, rollup, missed>>
  PROVE  AllCovered'
<1>1. Claimed' = Claimed
  BY DEF Claimed
<1>2. \A p, k : Writing(p, k)' <=> Writing(p, k)
  BY DEF Writing
<1>3. \A f \in events : \A k : Covered(f, k) => Covered(f, k)'
  BY <1>1, <1>2 DEF Covered, Kept, Repairing, CountedIn
<1> QED
  BY <1>3 DEF AllCovered

-----------------------------------------------------------------------------
LEMMA InsertEventStep ==
  ASSUME IInv, NEW w \in Writers, NEW f \in Facts, InsertEvent(w, f)
  PROVE  IInv'
<1> DEFINE rec == [pos |-> 1, fact |-> f, added |-> {}, skipped |-> {}, stale |-> {}]
<1>1. /\ rec \in Tx /\ rec.pos = 1 /\ rec.fact = f /\ rec.skipped = {}
      /\ tx' = [tx EXCEPT ![w] = rec]
  BY DEF InsertEvent, Tx
<1> HIDE DEF rec
<1>2. /\ tx' \in [Writers -> Tx]
      /\ tx'[w] = rec
      /\ \A v \in Writers \ {w} : tx'[v] = tx[v]
  BY <1>1, TxTyped DEF IInv
<1>3. UNCHANGED <<events, queue, worker, rollup, missed, failures, drops>>
  BY DEF InsertEvent
<1>4. TypeOK'
  BY <1>2, <1>3 DEF IInv, TypeOK
<1>5. TxShape'
  BY <1>1, <1>2, <1>3 DEF IInv, TxShape
<1> QED
  BY <1>3, <1>4, <1>5, OnlyTx DEF IInv

LEMMA EnqueueStep ==
  ASSUME IInv, NEW w \in Writers, Enqueue(w)
  PROVE  IInv'
<1> DEFINE f == tx[w].fact
           k == EnqueueOrder(f)[tx[w].pos]
           dealt == Visited(tx[w], k, k \in queue)
<1>1. tx[w] \in Tx /\ tx[w].pos \in {1, 2} /\ f \in Facts
  BY DEF IInv, TypeOK, TxShape, Enqueue
<1>2. /\ k \in Keys
      /\ tx[w].pos = 1 => k = HourOf[f]
      /\ tx[w].pos = 2 => k = DayOf[f]
  BY <1>1, KeysTyped
<1> HIDE DEF k, f
<1>3. /\ dealt \in Tx
      /\ dealt.pos = tx[w].pos + 1
      /\ dealt.fact = tx[w].fact
      /\ dealt.stale = tx[w].stale
      /\ tx[w].added \cup tx[w].skipped \cup {k} \subseteq dealt.added \cup dealt.skipped
      /\ dealt.skipped \subseteq tx[w].skipped \cup queue
  BY <1>1, <1>2 DEF Tx, Visited
<1>4. tx' = [tx EXCEPT ![w] = dealt]
  BY DEF Enqueue, k, f
<1> HIDE DEF dealt
<1>5. /\ tx' \in [Writers -> Tx]
      /\ tx'[w] = dealt
      /\ \A v \in Writers \ {w} : tx'[v] = tx[v]
  BY <1>3, <1>4, TxTyped DEF IInv
<1>6. UNCHANGED <<events, queue, worker, rollup, missed, failures, drops>>
  BY DEF Enqueue
<1>7. TypeOK'
  BY <1>5, <1>6 DEF IInv, TypeOK
<1>8. TxShape'
  <2>1. tx'[w].pos \in {2, 3} /\ tx'[w].fact = f /\ f \in Facts
    BY <1>1, <1>3, <1>5 DEF f
  <2>2. HourOf[f] \in dealt.added \cup dealt.skipped
    BY <1>1, <1>2, <1>3 DEF IInv, TxShape, f
  <2>3. dealt.pos = 3 => DayOf[f] \in dealt.added \cup dealt.skipped
    BY <1>1, <1>2, <1>3
  <2>4. dealt.skipped \subseteq dealt.stale \cup queue
    BY <1>3 DEF IInv, TxShape
  <2> QED
    BY <1>5, <1>6, <2>1, <2>2, <2>3, <2>4 DEF IInv, TxShape
<1> QED
  BY <1>6, <1>7, <1>8, OnlyTx DEF IInv

LEMMA CommitStep ==
  ASSUME IInv, NEW w \in Writers, Commit(w)
  PROVE  IInv'
<1>0. PICK f \in Facts : f = tx[w].fact
  BY DEF IInv, TxShape, Commit
<1> DEFINE new == {<<f, k>> : k \in tx[w].stale \ Claimed}
<1>1. tx[w] \in Tx /\ NoTx \in Tx
  BY DEF IInv, TypeOK, Tx, NoTx
<1>2. /\ tx' = [tx EXCEPT ![w] = NoTx]
      /\ events' = events \cup {f}
      /\ queue' = queue \cup tx[w].added
      /\ Miss(new)
      /\ UNCHANGED <<worker, rollup, failures, drops>>
  BY <1>0 DEF Commit
<1>n. new \subseteq Facts \X Keys
  BY <1>1 DEF Tx
<1>s. \A k \in tx[w].stale \ Claimed : <<f, k>> \in new
  OBVIOUS
<1> HIDE DEF new
<1>3. /\ tx' \in [Writers -> Tx]
      /\ tx'[w] = NoTx
      /\ \A v \in Writers \ {w} : tx'[v] = tx[v]
  BY <1>1, <1>2, TxTyped DEF IInv
<1>4. TypeOK'
  <2>1. events' \subseteq Facts /\ queue' \subseteq Keys
    BY <1>1, <1>2 DEF IInv, TypeOK, Tx
  <2>2. missed' \subseteq Facts \X Keys
    BY <1>2, <1>n, MissTyped DEF IInv
  <2> QED
    BY <1>2, <1>3, <2>1, <2>2 DEF IInv, TypeOK
<1>5. TxShape'
  BY <1>2, <1>3 DEF IInv, TxShape, NoTx
<1>c. Claimed' = Claimed /\ \A p, k : Writing(p, k)' <=> Writing(p, k)
  BY <1>2 DEF Claimed, Writing
<1>7. ASSUME NEW g \in events, NEW k \in KeysOf(g) \ Unresolved
      PROVE  Covered(g, k)'
  <2>1. Covered(g, k) /\ g \in events'
    BY <1>2 DEF IInv, AllCovered
  <2>2. CASE <<g, k>> \in missed
    BY <1>2, <2>1, <2>2, MissCovers
  <2>3. CASE <<g, k>> \notin missed
    BY <1>2, <1>c, <2>1, <2>3 DEF Covered, Kept, Repairing, CountedIn
  <2> QED
    BY <2>2, <2>3
<1>8. ASSUME NEW k \in KeysOf(f)
      PROVE  Covered(f, k)'
  <2>1. k \in tx[w].added \cup tx[w].skipped
    BY <1>0 DEF IInv, TxShape, Commit, KeysOf
  <2>2. k \in tx[w].added \cup queue \/ k \in tx[w].stale
    BY <2>1 DEF IInv, TxShape
  <2>3. CASE k \in tx[w].added \cup queue \cup Claimed
    BY <1>2, <1>c, <2>3 DEF Covered, Repairing
  <2>4. CASE k \in tx[w].stale \ Claimed
    BY <1>2, <1>s, <2>4, MissCovers
  <2> QED
    BY <2>2, <2>3, <2>4
<1>9. AllCovered'
  BY <1>2, <1>7, <1>8 DEF AllCovered
<1> QED
  BY <1>4, <1>5, <1>9 DEF IInv

LEMMA AbortStep ==
  ASSUME IInv, NEW w \in Writers, Abort(w)
  PROVE  IInv'
<1>1. NoTx \in Tx /\ tx' = [tx EXCEPT ![w] = NoTx]
  BY DEF Abort, Tx, NoTx
<1>2. /\ tx' \in [Writers -> Tx]
      /\ tx'[w] = NoTx
      /\ \A v \in Writers \ {w} : tx'[v] = tx[v]
  BY <1>1, TxTyped DEF IInv
<1>3. UNCHANGED <<events, queue, worker, rollup, missed, failures, drops>>
  BY DEF Abort
<1>4. TypeOK'
  BY <1>2, <1>3 DEF IInv, TypeOK
<1>5. TxShape'
  BY <1>2, <1>3 DEF IInv, TxShape, NoTx
<1> QED
  BY <1>3, <1>4, <1>5, OnlyTx DEF IInv

-----------------------------------------------------------------------------
(* Steps of a recomputation.                                               *)

\* A committed fact stays covered in k: each way it is covered is kept or
\* exchanged for another.
LEMMA StaysCovered ==
  ASSUME NEW f, NEW k, Covered(f, k),
         <<f, k>> \in missed => Covered(f, k)',
         f \in rollup[k] => f \in rollup'[k],
         Repairing(k) => Covered(f, k)',
         CountedIn(f, k) => Covered(f, k)',
         \A q \in Recomputers : Writing(q, k)' =>
           \/ Writing(q, k) /\ worker'[q] = worker[q]
           \/ f \in worker'[q].snap
           \/ worker'[q].st = "outdated"
  PROVE  Covered(f, k)'
<1>1. CASE Kept(f, k)
  BY <1>1 DEF Covered, Kept
<1> QED
  BY <1>1 DEF Covered

\* A step of p that neither ends nor begins a write, and keeps what is claimed.
LEMMA NoWrite ==
  ASSUME IInv, NEW p \in Recomputers, NEW rec \in Repair, Fits(rec),
         worker[p].st \notin Writes, rec.st \notin Writes,
         worker' = [worker EXCEPT ![p] = rec],
         UNCHANGED <<events, rollup, missed, failures, drops>>,
         queue' \subseteq queue,
         p = Probe => queue' = queue,
         p \in Workers => worker[p].batch \cup queue \subseteq rec.batch \cup queue',
         tx' \in [Writers -> Tx], TxShape'
  PROVE  IInv'
<1>1. /\ WorkersTyped' /\ worker'[p] = rec
      /\ \A q \in Recomputers \ {p} : worker'[q] = worker[q]
  BY WorkerTyped DEF IInv
<1>2. \A k : Repairing(k) => Repairing(k)'
  <2>1. CASE p \in Workers
    BY <1>1, <2>1 DEF Repairing, Claimed, Recomputers
  <2>2. CASE p = Probe
    BY <1>1, <2>2, BucketAssumption DEF Repairing, Claimed, Recomputers
  <2> QED
    BY <2>1, <2>2 DEF Recomputers
<1>3. \A q \in Recomputers : \A k : (Writing(q, k)' \/ Writing(q, k)) => q # p
  BY <1>1 DEF Writing
<1>4. ASSUME NEW f \in events, NEW k \in KeysOf(f) \ Unresolved
      PROVE  Covered(f, k)'
  <2>1. Covered(f, k)
    BY DEF IInv, AllCovered
  <2>2. <<f, k>> \in missed => Covered(f, k)'
    BY DEF Covered
  <2>3. Repairing(k) => Covered(f, k)'
    BY <1>2 DEF Covered
  <2>4. \A q \in Recomputers : Writing(q, k)' => Writing(q, k) /\ worker'[q] = worker[q]
    BY <1>1, <1>3 DEF Writing
  <2>5. CountedIn(f, k) => Covered(f, k)'
    BY <1>1, <1>3 DEF Covered, CountedIn, Writing, Recomputers
  <2> QED
    BY <2>1, <2>2, <2>3, <2>4, <2>5, StaysCovered
<1>5. AllCovered'
  BY <1>4 DEF AllCovered
<1>6. TypeOK'
  BY <1>1 DEF IInv, TypeOK, WorkersTyped, Fits
<1> QED
  BY <1>5, <1>6 DEF IInv

LEMMA BeginRepairStep ==
  ASSUME IInv, NEW p \in Workers, BeginRepair(p)
  PROVE  IInv'
<1> DEFINE rec == [worker[p] EXCEPT !.st = "claiming"]
<1>1. p \in Recomputers /\ worker[p] \in Repair /\ worker[p].st = "idle" /\ worker[p].batch = {}
  BY DEF IInv, TypeOK, BeginRepair, Recomputers
<1>2. rec \in Repair /\ Fits(rec) /\ rec.st = "claiming" /\ rec.batch = {}
  BY <1>1 DEF Repair, Fits, Writes
<1>3. /\ worker' = [worker EXCEPT ![p] = rec]
      /\ UNCHANGED <<tx, events, queue, rollup, missed, failures, drops>>
  BY DEF BeginRepair
<1> HIDE DEF rec
<1>4. tx' \in [Writers -> Tx] /\ TxShape'
  BY <1>3 DEF IInv, TypeOK, TxShape
<1>5. worker[p].st \notin Writes /\ rec.st \notin Writes
  BY <1>1, <1>2 DEF Writes
<1> QED
  BY <1>1, <1>2, <1>3, <1>4, <1>5, NoWrite, BucketAssumption

\* A transaction whose skipped keys have left the queue is marked.
LEMMA OvertakeTyped ==
  ASSUME IInv, NEW K, K \subseteq Keys, Overtake(K), queue \ K \subseteq queue'
  PROVE  /\ tx' \in [Writers -> Tx]
         /\ TxShape'
         /\ \A w \in Writers :
              /\ tx'[w].pos = tx[w].pos /\ tx'[w].fact = tx[w].fact
              /\ tx'[w].added = tx[w].added
<1>0. tx \in [Writers -> Tx]
  BY DEF IInv, TypeOK
<1>1. ASSUME NEW w \in Writers
      PROVE  /\ tx'[w] \in Tx
             /\ tx'[w].pos = tx[w].pos /\ tx'[w].fact = tx[w].fact
             /\ tx'[w].added = tx[w].added /\ tx'[w].skipped = tx[w].skipped
             /\ tx'[w].stale = tx[w].stale \cup (tx[w].skipped \cap K)
             /\ tx[w] = NoTx => tx'[w] = NoTx
  <2>1. tx'[w] = [tx[w] EXCEPT !.stale = tx[w].stale \cup (tx[w].skipped \cap K)]
    BY DEF Overtake
  <2>2. tx[w] \in Tx
    BY <1>0
  <2> QED
    BY <2>1, <2>2 DEF Tx, NoTx
<1>2. tx' \in [Writers -> Tx]
  <2>1. tx' = [w \in Writers |-> tx'[w]]
    BY DEF Overtake
  <2> QED
    BY <1>1, <2>1
<1>3. TxShape'
  BY <1>1 DEF IInv, TxShape
<1> QED
  BY <1>1, <1>2, <1>3

LEMMA ClaimStep ==
  ASSUME IInv, NEW p \in Workers, Claim(p)
  PROVE  IInv'
<1>1. PICK batch \in SUBSET queue :
        /\ queue' = queue \ batch
        /\ worker' = [worker EXCEPT ![p].st = "reading", ![p].batch = batch]
        /\ Overtake(batch)
  BY DEF Claim
<1> DEFINE rec == [worker[p] EXCEPT !.st = "reading", !.batch = batch]
<1>2. p \in Recomputers /\ worker[p] \in Repair /\ worker[p].st = "claiming" /\ worker[p].batch = {}
  BY DEF IInv, TypeOK, Claim, Recomputers
<1>3. batch \subseteq Keys
  BY DEF IInv, TypeOK
<1>4. rec \in Repair /\ Fits(rec) /\ rec.st = "reading" /\ rec.batch = batch
  BY <1>2, <1>3 DEF Repair, Fits, Writes
<1>5. worker' = [worker EXCEPT ![p] = rec]
  BY <1>1, <1>2 DEF IInv, TypeOK
<1> HIDE DEF rec
<1>6. tx' \in [Writers -> Tx] /\ TxShape'
  BY <1>1, <1>3, OvertakeTyped
<1>7. worker[p].st \notin Writes /\ rec.st \notin Writes
  BY <1>2, <1>4 DEF Writes
<1>8. UNCHANGED <<events, rollup, missed, failures, drops>>
  BY DEF Claim
<1> QED
  BY <1>1, <1>2, <1>4, <1>5, <1>6, <1>7, <1>8, NoWrite, BucketAssumption

LEMMA IdleTyped == NoRepair \in Repair /\ Fits(NoRepair) /\ NoRepair.st \notin Writes
  BY DEF NoRepair, Repair, Fits, Writes

LEMMA EndRepairStep ==
  ASSUME IInv, NEW p \in Workers, EndRepair(p)
  PROVE  IInv'
<1>1. /\ p \in Recomputers /\ worker[p].st \notin Writes /\ worker[p].batch = {}
      /\ p # Probe
  BY BucketAssumption DEF IInv, TypeOK, EndRepair, Recomputers, Writes
<1>2. /\ worker' = [worker EXCEPT ![p] = NoRepair]
      /\ UNCHANGED <<tx, events, queue, rollup, missed, failures, drops>>
  BY DEF EndRepair
<1>3. tx' \in [Writers -> Tx] /\ TxShape'
  BY <1>2 DEF IInv, TypeOK, TxShape
<1> QED
  BY <1>1, <1>2, <1>3, IdleTyped, NoWrite

LEMMA BeginProbeStep ==
  ASSUME IInv, BeginProbe
  PROVE  IInv'
<1> DEFINE rec == [worker[Probe] EXCEPT !.st = "reading", !.batch = queue \cap ProbeKeys]
<1>1. Probe \in Recomputers /\ worker[Probe] \in Repair /\ worker[Probe].st = "idle"
  BY DEF IInv, TypeOK, BeginProbe, Recomputers
<1>2. rec \in Repair /\ Fits(rec) /\ rec.st = "reading"
  BY <1>1, BucketAssumption DEF Repair, Fits, Writes
<1>3. /\ worker' = [worker EXCEPT ![Probe] = rec]
      /\ UNCHANGED <<tx, events, queue, rollup, missed, failures, drops>>
  BY DEF IInv, TypeOK, BeginProbe
<1> HIDE DEF rec
<1>4. tx' \in [Writers -> Tx] /\ TxShape'
  BY <1>3 DEF IInv, TypeOK, TxShape
<1>5. worker[Probe].st \notin Writes /\ rec.st \notin Writes
  BY <1>1, <1>2 DEF Writes
<1> QED
  BY <1>1, <1>2, <1>3, <1>4, <1>5, NoWrite, BucketAssumption

\* What is read holds every committed fact of the bucket.
LEMMA ReadStep ==
  ASSUME IInv, NEW p \in Recomputers, Read(p)
  PROVE  IInv'
<1>1. PICK k \in worker[p].batch :
        worker' = [worker EXCEPT ![p] = [st |-> "writing", batch |-> worker[p].batch \ {k},
                                         key |-> k, snap |-> Counted(k)]]
  BY DEF Read
<1>2. worker[p] \in Repair /\ worker[p].st = "reading" /\ worker[p].batch \subseteq Keys
  BY DEF IInv, TypeOK, Read, Repair
<1>3. Counted(k) \subseteq Facts
  BY DEF IInv, TypeOK, Counted
<1>4. PICK rec \in Repair : /\ rec.st = "writing" /\ rec.key = k /\ rec.snap = Counted(k)
                            /\ rec.batch = worker[p].batch \ {k}
                            /\ worker' = [worker EXCEPT ![p] = rec]
  <2> DEFINE r == [st |-> "writing", batch |-> worker[p].batch \ {k}, key |-> k, snap |-> Counted(k)]
  <2>1. r \in Repair
    BY <1>2, <1>3 DEF Repair
  <2> QED
    BY <1>1, <2>1
<1>5. Fits(rec)
  BY <1>2, <1>4 DEF Fits
<1>6. /\ WorkersTyped' /\ worker'[p] = rec
      /\ \A q \in Recomputers \ {p} : worker'[q] = worker[q]
  BY <1>4, <1>5, WorkerTyped DEF IInv
<1>7. UNCHANGED <<tx, events, queue, rollup, missed, failures, drops>>
  BY DEF Read
<1>8. ASSUME NEW f \in events, NEW j \in KeysOf(f) \ Unresolved
      PROVE  Covered(f, j)'
  <2>1. Covered(f, j)
    BY DEF IInv, AllCovered
  <2>2. <<f, j>> \in missed => Covered(f, j)'
    BY <1>7 DEF Covered
  <2>3. j = k => f \in worker'[p].snap
    BY <1>4, <1>6 DEF Counted
  <2>4. \A q \in Recomputers : Writing(q, j)' =>
          (Writing(q, j) /\ worker'[q] = worker[q]) \/ f \in worker'[q].snap
    BY <1>4, <1>6, <2>3 DEF Writing
  <2>5. CountedIn(f, j) => Covered(f, j)'
    BY <1>2, <1>6 DEF Covered, CountedIn, Writing, Recomputers, Writes
  <2>6. Repairing(j) => Covered(f, j)'
    <3>1. CASE p \in Workers /\ j = k
      <4>1. CountedIn(f, j)'
        BY <1>4, <1>6, <2>3, <3>1 DEF CountedIn, Writing, Writes
      <4> QED
        BY <4>1 DEF Covered
    <3>2. CASE p \notin Workers \/ j # k
      <4>1. Repairing(j) => Repairing(j)'
        BY <1>4, <1>6, <1>7, <3>2 DEF Repairing, Claimed, Recomputers
      <4> QED
        BY <4>1 DEF Covered
    <3> QED
      BY <3>1, <3>2
  <2> QED
    BY <1>7, <2>1, <2>2, <2>4, <2>5, <2>6, StaysCovered
<1>9. AllCovered'
  BY <1>7, <1>8 DEF AllCovered
<1>10. TypeOK'
  BY <1>6, <1>7 DEF IInv, TypeOK, WorkersTyped, Fits
<1>11. TxShape'
  BY <1>7 DEF IInv, TxShape
<1> QED
  BY <1>9, <1>10, <1>11 DEF IInv

\* What WroteTo does to the workers: p has no write left, other writers of the
\* key are outdated, and every batch is what it was.
LEMMA WroteTyped ==
  ASSUME IInv, NEW p \in Recomputers, worker[p].st \in Writes, NEW next,
         next \in {"reading", "deleting", "claiming"},
         next = "claiming" => worker[p].batch = {},
         WroteTo(next, p, worker[p].key)
  PROVE  /\ WorkersTyped'
         /\ \A k : ~Writing(p, k)'
         /\ \A q \in Recomputers \ {p} : \A k : Writing(q, k)' <=> Writing(q, k)
         /\ \A q \in Recomputers : worker'[q].batch = worker[q].batch
         /\ \A q \in Recomputers \ {p} : worker'[q].snap = worker[q].snap
         /\ \A q \in Recomputers \ {p} :
              Writing(q, worker[p].key) => worker'[q].st = "outdated"
         /\ \A q \in Recomputers \ {p} :
              worker[q].st # "writing" \/ worker[q].key # worker[p].key
                => worker'[q] = worker[q]
<1>1. PICK k \in Keys : k = worker[p].key
  BY DEF IInv, TypeOK
<1>2. worker \in [Recomputers -> Repair] /\ \A q \in Recomputers : Fits(worker[q])
  BY DEF IInv, TypeOK, Fits
<1>3. worker' = [q \in Recomputers |-> worker'[q]]
  BY DEF WroteTo
<1>4. /\ worker'[p] = [NoRepair EXCEPT !.batch = worker[p].batch, !.st = next]
      /\ worker'[p] \in Repair /\ Fits(worker'[p])
      /\ worker'[p].st = next /\ worker'[p].batch = worker[p].batch
  <2>1. worker'[p] = [NoRepair EXCEPT !.batch = worker[p].batch, !.st = next]
    BY DEF WroteTo
  <2> QED
    BY <1>2, <2>1 DEF NoRepair, Repair, Fits, Writes
<1>5. ASSUME NEW q \in Recomputers \ {p}
      PROVE  /\ worker'[q] \in Repair /\ Fits(worker'[q])
             /\ worker'[q].batch = worker[q].batch /\ worker'[q].key = worker[q].key
             /\ worker'[q].snap = worker[q].snap
             /\ worker'[q].st \in Writes <=> worker[q].st \in Writes
             /\ Writing(q, k) => worker'[q].st = "outdated"
             /\ ~Writing(q, k) \/ worker[q].st # "writing" => worker'[q] = worker[q]
  <2>1. worker'[q] = IF Writing(q, k) THEN [worker[q] EXCEPT !.st = "outdated"] ELSE worker[q]
    BY <1>1 DEF WroteTo
  <2>2. worker[q] \in Repair /\ Fits(worker[q])
    BY <1>2
  <2>3. CASE Writing(q, k)
    <3>1. worker[q].st \in Writes
      BY <2>3 DEF Writing
    <3>2. worker'[q] = [worker[q] EXCEPT !.st = "outdated"]
      BY <2>1, <2>3
    <3>3. /\ worker'[q] \in Repair /\ Fits(worker'[q])
          /\ worker'[q].batch = worker[q].batch /\ worker'[q].key = worker[q].key
          /\ worker'[q].snap = worker[q].snap /\ worker'[q].st = "outdated"
      BY <2>2, <3>1, <3>2 DEF Repair, Fits, Writes
    <3>4. worker[q].st # "writing" => worker'[q] = worker[q]
      BY <2>2, <3>1, <3>2 DEF Repair, Writes
    <3> QED
      BY <2>3, <3>1, <3>3, <3>4 DEF Writes
  <2>4. CASE ~Writing(q, k)
    BY <2>1, <2>2, <2>4
  <2> QED
    BY <2>3, <2>4
<1>6. WorkersTyped'
  BY <1>3, <1>4, <1>5 DEF WorkersTyped, Fits
<1>7. \A j : ~Writing(p, j)'
  BY <1>4 DEF Writing, Writes
<1>8. \A q \in Recomputers \ {p} : \A j : Writing(q, j)' <=> Writing(q, j)
  BY <1>5 DEF Writing
<1> QED
  BY <1>1, <1>4, <1>5, <1>6, <1>7, <1>8 DEF Writing

LEMMA NextOfTyped ==
  ASSUME NEW p \in Recomputers
  PROVE  /\ NextOf(p) \in {"reading", "deleting", "claiming"}
         /\ NextOf(p) = "claiming" => worker[p].batch = {}
  BY DEF NextOf

\* A write takes nothing back that was not missed, unless it was overtaken; and
\* then what it takes back is missed from now on.
LEMMA WriteStep ==
  ASSUME IInv, NEW p \in Recomputers, Write(p)
  PROVE  IInv'
<1>1. PICK k \in Keys : k = worker[p].key
  BY DEF IInv, TypeOK, Write
<1>2. PICK snap \in SUBSET Facts : snap = worker[p].snap
  BY DEF IInv, TypeOK, Repair
<1>3. PICK removed \in SUBSET Facts :
        removed = IF worker[p].st = "outdated" THEN rollup[k] \ snap ELSE {}
  BY DEF IInv, TypeOK
<1>4. /\ worker[p].st \in Writes
      /\ rollup' = [rollup EXCEPT ![k] = snap]
      /\ WroteTo(NextOf(p), p, worker[p].key)
      /\ Miss(removed \X {k})
      /\ UNCHANGED <<tx, events, queue, failures, drops>>
  BY <1>1, <1>2, <1>3 DEF Write
<1>5. /\ WorkersTyped'
      /\ \A j : ~Writing(p, j)'
      /\ \A q \in Recomputers \ {p} : \A j : Writing(q, j)' <=> Writing(q, j)
      /\ \A q \in Recomputers : worker'[q].batch = worker[q].batch
      /\ \A q \in Recomputers \ {p} : worker'[q].snap = worker[q].snap
      /\ \A q \in Recomputers \ {p} : Writing(q, k) => worker'[q].st = "outdated"
      /\ \A q \in Recomputers \ {p} :
           worker[q].st # "writing" \/ worker[q].key # k => worker'[q] = worker[q]
  BY <1>1, <1>4, NextOfTyped, WroteTyped
<1>6. rollup' \in [Keys -> SUBSET Facts] /\ rollup'[k] = snap
      /\ \A j \in Keys \ {k} : rollup'[j] = rollup[j]
  BY <1>4 DEF IInv, TypeOK
<1>7. Claimed' = Claimed
  BY <1>5 DEF Claimed, Recomputers
<1>8. ASSUME NEW f \in events, NEW j \in KeysOf(f) \ Unresolved
      PROVE  Covered(f, j)'
  <2>0. Covered(f, j) /\ f \in Facts /\ j \in Keys
    BY KeysTyped DEF IInv, AllCovered, TypeOK
  <2>1. CASE <<f, j>> \in missed
    BY <1>4, <2>1, MissCovers
  <2>2. CASE Repairing(j)
    BY <1>4, <1>7, <2>2 DEF Covered, Repairing
  <2>3. CASE j # k /\ Kept(f, j)
    <3>1. \A q \in Recomputers \ {p} : Writing(q, j) => worker'[q] = worker[q]
      BY <1>5, <2>3 DEF Writing
    <3> QED
      BY <1>5, <1>6, <2>0, <2>3, <3>1 DEF Covered, Kept
  <2>4. CASE f \in snap /\ j = k
    BY <1>5, <1>6, <2>4 DEF Covered, Kept
  <2>5. CASE f \notin snap /\ j = k /\ Kept(f, j)
    <3>1. worker[p].st = "outdated"
      BY <1>1, <1>2, <1>4, <2>5 DEF Kept, Writing
    <3>2. <<f, j>> \in removed \X {k}
      BY <1>3, <2>5, <3>1 DEF Kept
    <3> QED
      BY <1>4, <3>2, MissCovers
  <2>6. CASE CountedIn(f, j) /\ (j # k \/ f \notin snap)
    <3>1. PICK q \in Workers : Writing(q, j) /\ f \in worker[q].snap
      BY <2>6 DEF CountedIn
    <3>2. q # p /\ q \in Recomputers
      BY <1>1, <1>2, <2>6, <3>1 DEF Writing, Recomputers
    <3> QED
      BY <1>5, <3>1, <3>2 DEF Covered, CountedIn
  <2> QED
    BY <2>0, <2>1, <2>2, <2>3, <2>4, <2>5, <2>6 DEF Covered
<1>9. AllCovered'
  BY <1>4, <1>8 DEF AllCovered
<1>10. TypeOK'
  <2>1. missed' \subseteq Facts \X Keys
    BY <1>4, MissTyped DEF IInv
  <2> QED
    BY <1>4, <1>5, <1>6, <2>1 DEF IInv, TypeOK, WorkersTyped, Fits
<1>11. TxShape'
  BY <1>4 DEF IInv, TxShape
<1> QED
  BY <1>9, <1>10, <1>11 DEF IInv

-----------------------------------------------------------------------------
(* Deletions, failures and retention.                                      *)

LEMMA DeleteListedStep ==
  ASSUME IInv, DeleteListed
  PROVE  IInv'
<1> DEFINE K == queue \cap ProbeKeys
<1>1. /\ worker[Probe].st = "deleting" /\ Probe \in Recomputers
      /\ queue' = queue \ K
      /\ Overtake(K)
      /\ worker' = [worker EXCEPT ![Probe] = NoRepair]
      /\ UNCHANGED <<events, rollup, failures, drops>>
      /\ Miss(GivenUp(K))
  BY DEF DeleteListed, Recomputers
<1>2. K \subseteq Keys
  BY DEF IInv, TypeOK
<1> HIDE DEF K
<1>3. /\ WorkersTyped' /\ worker'[Probe] = NoRepair
      /\ \A q \in Recomputers \ {Probe} : worker'[q] = worker[q]
  BY <1>1, IdleTyped, WorkerTyped DEF IInv
<1>4. tx' \in [Writers -> Tx] /\ TxShape'
  BY <1>1, <1>2, OvertakeTyped
<1>5. Claimed' = Claimed
  BY <1>3, BucketAssumption DEF Claimed, Recomputers
<1>6. ASSUME NEW f \in events, NEW j \in KeysOf(f) \ Unresolved
      PROVE  Covered(f, j)'
  <2>1. Covered(f, j)
    BY DEF IInv, AllCovered
  <2>2. CASE j \in K
    <3>1. <<f, j>> \in GivenUp(K)
      BY <2>2 DEF GivenUp
    <3> QED
      BY <1>1, <3>1, MissCovers
  <2>3. CASE j \notin K
    <3>1. <<f, j>> \in missed => Covered(f, j)'
      BY <1>1, MissCovers
    <3>2. Repairing(j) => Covered(f, j)'
      BY <1>1, <1>5, <2>3 DEF Repairing, Covered
    <3>3. \A q \in Recomputers : Writing(q, j)' => Writing(q, j) /\ worker'[q] = worker[q]
      BY <1>3, IdleTyped DEF Writing
    <3>4. CountedIn(f, j) => Covered(f, j)'
      BY <1>3, BucketAssumption DEF CountedIn, Covered, Writing, Recomputers
    <3> QED
      BY <1>1, <2>1, <3>1, <3>2, <3>3, <3>4, StaysCovered
  <2> QED
    BY <2>2, <2>3
<1>7. AllCovered'
  BY <1>1, <1>6 DEF AllCovered
<1>8. TypeOK'
  <2>1. missed' \subseteq Facts \X Keys
    BY <1>1, <1>2, GivenUpTyped, MissTyped DEF IInv
  <2>2. queue' \subseteq Keys
    BY <1>1 DEF IInv, TypeOK
  <2> QED
    BY <1>1, <1>3, <1>4, <2>1, <2>2 DEF IInv, TypeOK, WorkersTyped, Fits
<1> QED
  BY <1>4, <1>7, <1>8 DEF IInv

\* No fact of its scope is left, so no row it deletes is relied on.
LEMMA CleanProbeStep ==
  ASSUME IInv, CleanProbe
  PROVE  IInv'
<1> DEFINE K == queue \cap ProbeKeys
<1>1. /\ queue' = queue \ K
      /\ events' = events \ ProbeFacts
      /\ rollup' = [k \in Keys |-> IF k \in ProbeKeys THEN {} ELSE rollup[k]]
      /\ drops' = drops + 1
      /\ Overtake(K)
      /\ UNCHANGED <<worker, failures>>
      /\ Miss({})
      /\ \A f \in events : InScope(f) => f \in ProbeFacts
  BY DEF CleanProbe
<1>2. K \subseteq Keys /\ K \subseteq ProbeKeys
  BY DEF IInv, TypeOK
<1> HIDE DEF K
<1>3. tx' \in [Writers -> Tx] /\ TxShape'
  BY <1>1, <1>2, OvertakeTyped
<1>4. Claimed' = Claimed
  BY <1>1 DEF Claimed
<1>5. ASSUME NEW f \in events', NEW j \in KeysOf(f) \ Unresolved
      PROVE  Covered(f, j)'
  <2>1. Covered(f, j) /\ f \in Facts /\ j \in Keys
    BY <1>1, KeysTyped DEF IInv, AllCovered, TypeOK
  <2>2. j \notin ProbeKeys
    BY <1>1, <2>1 DEF InScope
  <2>3. <<f, j>> \in missed => Covered(f, j)'
    BY <1>1, MissCovers
  <2>4. Repairing(j) => Covered(f, j)'
    BY <1>1, <1>2, <1>4, <2>2 DEF Repairing, Covered
  <2>5. \A q \in Recomputers : Writing(q, j)' => Writing(q, j) /\ worker'[q] = worker[q]
    BY <1>1 DEF Writing
  <2>6. CountedIn(f, j) => Covered(f, j)'
    BY <1>1 DEF CountedIn, Covered, Writing
  <2>7. f \in rollup[j] => f \in rollup'[j]
    BY <1>1, <2>1, <2>2
  <2> QED
    BY <2>1, <2>3, <2>4, <2>5, <2>6, <2>7, StaysCovered
<1>6. AllCovered'
  BY <1>5 DEF AllCovered
<1>7. TypeOK'
  <2>1. missed' \subseteq Facts \X Keys
    BY <1>1, MissTyped DEF IInv
  <2>2. queue' \subseteq Keys /\ events' \subseteq Facts /\ rollup' \in [Keys -> SUBSET Facts]
        /\ drops' \in Nat
    BY <1>1 DEF IInv, TypeOK
  <2> QED
    BY <1>1, <1>3, <2>1, <2>2 DEF IInv, TypeOK
<1> QED
  BY <1>3, <1>6, <1>7 DEF IInv

\* The rest of the batch of p is given up.
LEMMA FailStep ==
  ASSUME IInv, NEW p \in Recomputers, Fail(p)
  PROVE  IInv'
<1>1. /\ worker' = [worker EXCEPT ![p] = NoRepair]
      /\ UNCHANGED <<tx, events, queue, rollup, drops>>
      /\ Miss(GivenUp(Unwritten(p)))
      /\ failures' = failures + 1
  BY DEF Fail, Failure
<1>2. /\ WorkersTyped' /\ worker'[p] = NoRepair
      /\ \A q \in Recomputers \ {p} : worker'[q] = worker[q]
  BY <1>1, IdleTyped, WorkerTyped DEF IInv
<1>3. ASSUME NEW f \in events, NEW j \in KeysOf(f) \ Unresolved
      PROVE  Covered(f, j)'
  <2>1. Covered(f, j)
    BY DEF IInv, AllCovered
  <2>2. CASE j \in Unwritten(p)
    <3>1. <<f, j>> \in GivenUp(Unwritten(p))
      BY <2>2 DEF GivenUp
    <3> QED
      BY <1>1, <3>1, MissCovers
  <2>3. CASE j \notin Unwritten(p)
    <3>1. <<f, j>> \in missed => Covered(f, j)'
      BY <1>1, MissCovers
    <3>2. p \in Workers => j \notin worker[p].batch /\ ~Writing(p, j)
      BY <2>3, BucketAssumption DEF Unwritten, Writing
    <3>3. Repairing(j) => Covered(f, j)'
      BY <1>1, <1>2, <3>2 DEF Repairing, Claimed, Covered, Recomputers
    <3>4. \A q \in Recomputers : Writing(q, j)' => Writing(q, j) /\ worker'[q] = worker[q]
      BY <1>2, IdleTyped DEF Writing
    <3>5. CountedIn(f, j) => Covered(f, j)'
      BY <1>2, <3>2 DEF CountedIn, Covered, Writing, Recomputers
    <3> QED
      BY <1>1, <2>1, <3>1, <3>3, <3>4, <3>5, StaysCovered
  <2> QED
    BY <2>2, <2>3
<1>4. AllCovered'
  BY <1>1, <1>3 DEF AllCovered
<1>5. TypeOK'
  <2>1. missed' \subseteq Facts \X Keys
    BY <1>1, UnwrittenTyped, GivenUpTyped, MissTyped DEF IInv
  <2> QED
    BY <1>1, <1>2, <2>1 DEF IInv, TypeOK, WorkersTyped, Fits
<1>6. TxShape'
  BY <1>1 DEF IInv, TxShape
<1> QED
  BY <1>4, <1>5, <1>6 DEF IInv

\* Everything claimed and not written is given up.
LEMMA CrashStep ==
  ASSUME IInv, Crash
  PROVE  IInv'
<1> DEFINE K == UNION {Unwritten(p) : p \in Workers}
<1>1. /\ worker' = [p \in Recomputers |-> NoRepair]
      /\ tx' = [w \in Writers |-> NoTx]
      /\ UNCHANGED <<events, queue, rollup, drops>>
      /\ Miss(GivenUp(K))
      /\ failures' = failures + 1
  BY DEF Crash, Failure
<1>2. K \subseteq Keys /\ \A p \in Workers : Unwritten(p) \subseteq K
  BY UnwrittenTyped DEF IInv, Recomputers
<1> HIDE DEF K
<1>3. ASSUME NEW f \in events, NEW j \in KeysOf(f) \ Unresolved
      PROVE  Covered(f, j)'
  <2>1. Covered(f, j)
    BY DEF IInv, AllCovered
  <2>2. CASE j \in K
    <3>1. <<f, j>> \in GivenUp(K)
      BY <2>2 DEF GivenUp
    <3> QED
      BY <1>1, <3>1, MissCovers
  <2>3. CASE <<f, j>> \in missed
    BY <1>1, <2>3, MissCovers
  <2>4. CASE j \notin K
    <3>1. \A p \in Workers : j \notin worker[p].batch /\ ~Writing(p, j)
      BY <1>2, <2>4, BucketAssumption DEF Unwritten, Writing
    <3>2. Repairing(j) => j \in queue
      BY <3>1 DEF Repairing, Claimed
    <3>3. ~CountedIn(f, j)
      BY <3>1 DEF CountedIn
    <3>4. \A q \in Recomputers : ~Writing(q, j)'
      BY <1>1, IdleTyped DEF Writing
    <3> QED
      BY <1>1, <2>1, <2>3, <3>2, <3>3, <3>4 DEF Covered, Kept, Repairing
  <2> QED
    BY <2>2, <2>4
<1>4. AllCovered'
  BY <1>1, <1>3 DEF AllCovered
<1>5. TypeOK'
  <2>1. missed' \subseteq Facts \X Keys
    BY <1>1, <1>2, GivenUpTyped, MissTyped DEF IInv
  <2>2. tx' \in [Writers -> Tx] /\ worker' \in [Recomputers -> Repair]
    BY <1>1, IdleTyped DEF Tx, NoTx
  <2>3. \A p \in Recomputers : Fits(worker'[p])
    BY <1>1, IdleTyped
  <2> QED
    BY <1>1, <2>1, <2>2, <2>3 DEF IInv, TypeOK, Fits
<1>6. TxShape'
  BY <1>1 DEF TxShape, NoTx
<1> QED
  BY <1>4, <1>5, <1>6 DEF IInv

LEMMA DropMonthStep ==
  ASSUME IInv, NEW m \in Months, DropMonth(m)
  PROVE  IInv'
<1>1. /\ UNCHANGED <<tx, queue, worker, rollup, failures>>
      /\ events' = {f \in events : MonthOf[f] # m}
      /\ drops' = drops + 1
      /\ Miss({})
  BY DEF DropMonth
<1>2. Claimed' = Claimed /\ \A q, k : Writing(q, k)' <=> Writing(q, k)
  BY <1>1 DEF Claimed, Writing
<1>3. ASSUME NEW f \in events', NEW j \in KeysOf(f) \ Unresolved
      PROVE  Covered(f, j)'
  <2>1. Covered(f, j)
    BY <1>1 DEF IInv, AllCovered
  <2>2. <<f, j>> \in missed => Covered(f, j)'
    BY <1>1, MissCovers
  <2> QED
    BY <1>1, <1>2, <2>1, <2>2 DEF Covered, Kept, Repairing, CountedIn
<1>4. AllCovered'
  BY <1>3 DEF AllCovered
<1>5. TypeOK'
  <2>1. missed' \subseteq Facts \X Keys
    BY <1>1, MissTyped DEF IInv
  <2> QED
    BY <1>1, <2>1 DEF IInv, TypeOK
<1>6. TxShape'
  BY <1>1 DEF IInv, TxShape
<1> QED
  BY <1>4, <1>5, <1>6 DEF IInv

LEMMA StutterStep ==
  ASSUME IInv, UNCHANGED vars
  PROVE  IInv'
<1>1. UNCHANGED <<tx, events, queue, worker, rollup, missed, failures, drops>>
  BY DEF vars
<1>2. TypeOK'
  BY <1>1 DEF IInv, TypeOK
<1>3. TxShape'
  BY <1>1 DEF IInv, TxShape
<1>4. AllCovered'
  BY <1>1, OnlyTx DEF IInv
<1> QED
  BY <1>2, <1>3, <1>4 DEF IInv

-----------------------------------------------------------------------------
LEMMA NextIInv == IInv /\ [Next]_vars => IInv'
<1> SUFFICES ASSUME IInv, [Next]_vars PROVE IInv'
  OBVIOUS
<1>1. ASSUME NEW w \in Writers, WriterStep(w) PROVE IInv'
  BY <1>1, InsertEventStep, EnqueueStep, CommitStep, AbortStep DEF WriterStep
<1>2. ASSUME NEW p \in Recomputers, RecomputeStep(p) PROVE IInv'
  BY <1>2, ReadStep, WriteStep, FailStep DEF RecomputeStep
<1>3. ASSUME NEW p \in Workers, RepairStep(p) PROVE IInv'
  BY <1>2, <1>3, BeginRepairStep, ClaimStep, EndRepairStep DEF RepairStep, Recomputers
<1>4. CASE ProbeStep
  BY <1>2, <1>4, BeginProbeStep, DeleteListedStep, CleanProbeStep DEF ProbeStep, Recomputers
<1> QED
  BY <1>1, <1>3, <1>4, CrashStep, DropMonthStep, StutterStep DEF Next

\* Every state the repair machinery reaches holds values of the declared types.
THEOREM TypeCorrect == Spec => []TypeOK
  BY InitIInv, NextIInv, PTL DEF Spec, IInv

LEMMA CoveredAccounted == IInv => Accounted
  BY DEF IInv, AllCovered, Covered, Kept, Accounted

\* Whichever recomputations overlap, under a lease or without one, every
\* committed fact of a resolved scope is counted in both its buckets, or queued,
\* claimed or being written, but for the pairs in missed (repair.go 22-26,
\* 83-121; syntheticpipeline.go 641-736).
THEOREM RepairsAccounted == Spec => []Accounted
  BY InitIInv, NextIInv, CoveredAccounted, PTL DEF Spec

-----------------------------------------------------------------------------
\* Until something is dropped, rollups and readings count committed facts, and
\* a reading that no write has overtaken counts all its rollup does.
Fresh ==
  /\ \A k \in Keys : rollup[k] \subseteq Counted(k)
  /\ \A p \in Recomputers : \A k \in Keys : Writing(p, k) =>
       /\ worker[p].snap \subseteq Counted(k)
       /\ worker[p].st = "writing" => rollup[k] \subseteq worker[p].snap
Growing == drops = 0 => Fresh

LEMMA InitGrowing == Init => Growing
  BY DEF Init, Growing, Fresh, Writing, Writes, NoRepair

LEMMA CountedGrows ==
  ASSUME events \subseteq events'
  PROVE  \A k : Counted(k) \subseteq Counted(k)'
  BY DEF Counted

\* Whatever no step but a write does to the workers.
LEMMA StaysFresh ==
  ASSUME Fresh, events \subseteq events', rollup' = rollup,
         \A q \in Recomputers : \A k \in Keys : Writing(q, k)' =>
           Writing(q, k) /\ worker'[q] = worker[q]
  PROVE  Fresh'
<1>1. \A k : Counted(k) \subseteq Counted(k)'
  BY CountedGrows
<1> QED
  BY <1>1 DEF Fresh

LEMMA ReadFresh ==
  ASSUME IInv, Fresh, NEW p \in Recomputers, Read(p)
  PROVE  Fresh'
<1>1. PICK k \in worker[p].batch :
        worker' = [worker EXCEPT ![p] = [st |-> "writing", batch |-> worker[p].batch \ {k},
                                         key |-> k, snap |-> Counted(k)]]
  BY DEF Read
<1>2. worker \in [Recomputers -> Repair]
  BY DEF IInv, TypeOK
<1>3. UNCHANGED <<events, rollup>>
  BY DEF Read
<1>4. \A j : Counted(j)' = Counted(j)
  BY <1>3 DEF Counted
<1>5. /\ worker'[p].st = "writing" /\ worker'[p].key = k /\ worker'[p].snap = Counted(k)
      /\ \A q \in Recomputers \ {p} : worker'[q] = worker[q]
  BY <1>1, <1>2
<1> QED
  BY <1>3, <1>4, <1>5 DEF Fresh, Writing

LEMMA WriteFresh ==
  ASSUME IInv, Fresh, NEW p \in Recomputers, Write(p)
  PROVE  Fresh'
<1>1. PICK k \in Keys : k = worker[p].key
  BY DEF IInv, TypeOK, Write
<1>2. /\ worker[p].st \in Writes
      /\ rollup' = [rollup EXCEPT ![k] = worker[p].snap]
      /\ WroteTo(NextOf(p), p, worker[p].key)
      /\ UNCHANGED events
  BY <1>1 DEF Write
<1>3. /\ \A j : ~Writing(p, j)'
      /\ \A q \in Recomputers \ {p} : \A j : Writing(q, j)' <=> Writing(q, j)
      /\ \A q \in Recomputers \ {p} : worker'[q].snap = worker[q].snap
      /\ \A q \in Recomputers \ {p} : Writing(q, k) => worker'[q].st = "outdated"
      /\ \A q \in Recomputers \ {p} :
           worker[q].st # "writing" \/ worker[q].key # k => worker'[q] = worker[q]
  BY <1>1, <1>2, NextOfTyped, WroteTyped
<1>4. rollup'[k] = worker[p].snap /\ \A j \in Keys \ {k} : rollup'[j] = rollup[j]
  BY <1>2 DEF IInv, TypeOK
<1>5. Writing(p, k)
  BY <1>1, <1>2 DEF Writing
<1>6. \A j : Counted(j)' = Counted(j)
  BY <1>2 DEF Counted
<1>7. \A j \in Keys : rollup'[j] \subseteq Counted(j)
  BY <1>4, <1>5 DEF Fresh
<1>8. ASSUME NEW q \in Recomputers, NEW j \in Keys, Writing(q, j)'
      PROVE  /\ worker'[q].snap \subseteq Counted(j)
             /\ worker'[q].st = "writing" => rollup'[j] \subseteq worker'[q].snap
  <2>1. q # p /\ Writing(q, j)
    BY <1>3, <1>8
  <2>2. worker'[q].snap \subseteq Counted(j)
    BY <1>3, <2>1 DEF Fresh
  <2>3. CASE j = k
    BY <1>3, <2>1, <2>2, <2>3
  <2>4. CASE j # k
    BY <1>3, <1>4, <2>1, <2>2, <2>4 DEF Fresh, Writing
  <2> QED
    BY <2>3, <2>4
<1> QED
  BY <1>6, <1>7, <1>8 DEF Fresh

\* Every other step that drops nothing leaves the rollups and the writes alone.
LEMMA OtherFresh ==
  ASSUME IInv, [Next]_vars, drops' = drops,
         \A p \in Recomputers : ~Read(p) /\ ~Write(p)
  PROVE  /\ events \subseteq events' /\ rollup' = rollup
         /\ \A q \in Recomputers : \A k \in Keys : Writing(q, k)' =>
              Writing(q, k) /\ worker'[q] = worker[q]
<1>0. worker \in [Recomputers -> Repair] /\ drops \in Nat
  BY DEF IInv, TypeOK
<1>1. ASSUME NEW w \in Writers, WriterStep(w)
      PROVE  events \subseteq events' /\ UNCHANGED <<rollup, worker>>
  BY <1>1 DEF WriterStep, InsertEvent, Enqueue, Commit, Abort
<1>2. ASSUME NEW p \in Recomputers,
             Fail(p) \/ BeginRepair(p) \/ Claim(p) \/ EndRepair(p)
      PROVE  /\ UNCHANGED <<events, rollup>>
             /\ worker'[p].st \notin Writes
             /\ \A q \in Recomputers \ {p} : worker'[q] = worker[q]
  BY <1>0, <1>2 DEF Fail, BeginRepair, Claim, EndRepair, Repair, NoRepair, Writes
<1>3. ASSUME BeginProbe \/ DeleteListed
      PROVE  /\ UNCHANGED <<events, rollup>>
             /\ worker'[Probe].st \notin Writes
             /\ \A q \in Recomputers \ {Probe} : worker'[q] = worker[q]
  BY <1>0, <1>3 DEF BeginProbe, DeleteListed, Repair, NoRepair, Writes, Recomputers
<1>4. ASSUME Crash
      PROVE  /\ UNCHANGED <<events, rollup>>
             /\ \A q \in Recomputers : worker'[q].st \notin Writes
  BY <1>4 DEF Crash, NoRepair, Writes
<1>5. ~CleanProbe /\ \A m \in Months : ~DropMonth(m)
  BY <1>0 DEF CleanProbe, DropMonth
<1>6. CASE UNCHANGED vars
  BY <1>6 DEF vars, Writing
<1>7. CASE \E w \in Writers : WriterStep(w)
  BY <1>1, <1>7 DEF Writing
<1>8. CASE \E p \in Workers : RepairStep(p)
  BY <1>2, <1>8 DEF RepairStep, RecomputeStep, Writing, Recomputers
<1>9. CASE ProbeStep
  BY <1>2, <1>3, <1>5, <1>9 DEF ProbeStep, RecomputeStep, Writing, Recomputers
<1>10. CASE Crash
  BY <1>4, <1>10 DEF Writing
<1> QED
  BY <1>5, <1>6, <1>7, <1>8, <1>9, <1>10 DEF Next

\* Drops are only counted up.
LEMMA DropsCounted ==
  ASSUME IInv, [Next]_vars, drops' = 0
  PROVE  drops = 0 /\ drops' = drops
<1>1. drops \in Nat
  BY DEF IInv, TypeOK
<1>2. ~CleanProbe /\ \A m \in Months : ~DropMonth(m)
  BY <1>1 DEF CleanProbe, DropMonth
<1>3. drops' = drops
  BY <1>2 DEF Next, vars, WriterStep, InsertEvent, Enqueue, Commit, Abort, RepairStep, RecomputeStep,
              BeginRepair, Claim, EndRepair, Read, Write, Fail, ProbeStep, BeginProbe, DeleteListed, Crash
<1> QED
  BY <1>3

LEMMA NextGrowing == IInv /\ Growing /\ [Next]_vars => Growing'
<1> SUFFICES ASSUME IInv, Growing, [Next]_vars, drops' = 0 PROVE Fresh'
  BY DEF Growing
<1>1. drops' = drops /\ Fresh
  BY DropsCounted DEF Growing
<1>2. CASE \E p \in Recomputers : Read(p) \/ Write(p)
  BY <1>1, <1>2, ReadFresh, WriteFresh
<1>3. CASE \A p \in Recomputers : ~Read(p) /\ ~Write(p)
  BY <1>1, <1>3, OtherFresh, StaysFresh
<1> QED
  BY <1>2, <1>3

LEMMA StepGrows == IInv /\ Growing /\ [Next]_vars => (drops' = 0 => RollupsGrow)
<1> SUFFICES ASSUME IInv, Growing, [Next]_vars, drops' = 0, NEW k \in Keys
             PROVE  rollup[k] \subseteq rollup'[k] \/ WrittenOutdated(k)
  BY DEF RollupsGrow
<1>1. drops' = drops /\ Fresh
  BY DropsCounted DEF Growing
<1>2. ASSUME NEW p \in Recomputers, Write(p)
      PROVE  rollup[k] \subseteq rollup'[k] \/ WrittenOutdated(k)
  <2>1. PICK j \in Keys : j = worker[p].key
    BY <1>2 DEF IInv, TypeOK, Write
  <2>2. rollup'[j] = worker[p].snap /\ \A i \in Keys \ {j} : rollup'[i] = rollup[i]
    BY <1>2, <2>1 DEF Write, IInv, TypeOK
  <2>3. Writing(p, j) /\ worker[p].st \in Writes
    BY <1>2, <2>1 DEF Write, Writing
  <2>4. CASE k = j /\ worker[p].st = "outdated"
    <3>1. ~Writing(p, j)'
      BY <1>2, NextOfTyped, WroteTyped DEF Write
    <3> QED
      BY <2>1, <2>4, <3>1 DEF WrittenOutdated
  <2>5. CASE k = j /\ worker[p].st = "writing"
    BY <1>1, <2>2, <2>3, <2>5 DEF Fresh
  <2> QED
    BY <2>2, <2>3, <2>4, <2>5 DEF Writes
<1>3. CASE \A p \in Recomputers : ~Write(p)
  <2>1. rollup' = rollup
    <3>1. CASE \E p \in Recomputers : Read(p)
      BY <3>1 DEF Read
    <3> QED
      BY <1>1, <1>3, <3>1, OtherFresh
  <2> QED
    BY <2>1
<1> QED
  BY <1>2, <1>3

\* Until a partition is dropped or a probe cleaned up, what a bucket counts once
\* it counts from then on, however many recomputations overlap; only the write
\* of a reading that another write has overtaken may take something back
\* (repair.go 83-121).
THEOREM PublishedNeverShrinks == Spec => PublishedFactsStay
  BY InitIInv, NextIInv, InitGrowing, NextGrowing, StepGrows, PTL DEF Spec, PublishedFactsStay

-----------------------------------------------------------------------------
\* A transaction holds nothing at its first key, and its hourly key at most at
\* its second.
AddedInOrder ==
  \A w \in Writers :
    /\ tx[w].pos = 1 => tx[w].added = {}
    /\ tx[w].pos = 2 => tx[w].added \subseteq {HourOf[tx[w].fact]}

LEMMA InitAdded == Init => AddedInOrder
  BY DEF Init, AddedInOrder, NoTx

LEMMA NextAdded == IInv /\ AddedInOrder /\ [Next]_vars => AddedInOrder'
<1> SUFFICES ASSUME IInv, AddedInOrder, [Next]_vars PROVE AddedInOrder'
  OBVIOUS
<1>0. tx \in [Writers -> Tx]
  BY DEF IInv, TypeOK
<1>1. ASSUME NEW w \in Writers, NEW f \in Facts, InsertEvent(w, f) PROVE AddedInOrder'
  BY <1>0, <1>1 DEF InsertEvent, AddedInOrder
<1>2. ASSUME NEW w \in Writers, Enqueue(w) PROVE AddedInOrder'
  <2>1. tx[w].pos \in {1, 2} /\ tx[w].fact \in Facts
    BY <1>2 DEF Enqueue, IInv, TxShape
  <2>2. PICK rec : rec = tx'[w]
    OBVIOUS
  <2>3. \A v \in Writers \ {w} : tx'[v] = tx[v]
    BY <1>0, <1>2 DEF Enqueue
  <2>4. PICK k : k = EnqueueOrder(tx[w].fact)[tx[w].pos]
    OBVIOUS
  <2>5. tx'[w] = Visited(tx[w], k, k \in queue)
    BY <1>0, <1>2, <2>4 DEF Enqueue
  <2>6. /\ tx'[w].pos = tx[w].pos + 1 /\ tx'[w].fact = tx[w].fact
        /\ tx'[w].added \subseteq tx[w].added \cup {k}
    BY <2>5 DEF Visited
  <2>7. tx'[w].pos = 2 => tx'[w].added \subseteq {HourOf[tx'[w].fact]}
    <3> HAVE tx'[w].pos = 2
    <3>1. tx[w].pos = 1
      BY <2>1, <2>6
    <3>2. k = HourOf[tx[w].fact]
      BY <2>1, <2>4, <3>1, KeysTyped
    <3> QED
      BY <2>6, <3>1, <3>2 DEF AddedInOrder
  <2>8. tx'[w].pos # 1
    BY <2>1, <2>6
  <2> QED
    BY <2>3, <2>7, <2>8 DEF AddedInOrder
<1>3. ASSUME NEW w \in Writers, Commit(w) \/ Abort(w) PROVE AddedInOrder'
  BY <1>0, <1>3 DEF Commit, Abort, AddedInOrder, NoTx
<1>4. ASSUME NEW p \in Workers, RepairStep(p) PROVE AddedInOrder'
  <2>1. CASE Claim(p)
    <3>1. PICK batch \in SUBSET queue : Overtake(batch) /\ queue' = queue \ batch
      BY <2>1 DEF Claim
    <3>2. batch \subseteq Keys
      BY DEF IInv, TypeOK
    <3>3. \A w \in Writers :
            /\ tx'[w].pos = tx[w].pos /\ tx'[w].fact = tx[w].fact
            /\ tx'[w].added = tx[w].added
      BY <3>1, <3>2, OvertakeTyped
    <3> QED
      BY <3>3 DEF AddedInOrder
  <2>2. CASE BeginRepair(p) \/ EndRepair(p) \/ RecomputeStep(p)
    <3>1. UNCHANGED tx
      BY <2>2 DEF BeginRepair, EndRepair, RecomputeStep, Read, Write, Fail
    <3> QED
      BY <3>1 DEF AddedInOrder
  <2> QED
    BY <1>4, <2>1, <2>2 DEF RepairStep
<1>9. CASE ProbeStep
  <2>1. CASE DeleteListed \/ CleanProbe
    <3>1. queue \cap ProbeKeys \subseteq Keys
      BY DEF IInv, TypeOK
    <3>2. Overtake(queue \cap ProbeKeys) /\ queue \ (queue \cap ProbeKeys) \subseteq queue'
      BY <2>1 DEF DeleteListed, CleanProbe
    <3>3. \A w \in Writers :
            /\ tx'[w].pos = tx[w].pos /\ tx'[w].fact = tx[w].fact
            /\ tx'[w].added = tx[w].added
      BY <3>1, <3>2, OvertakeTyped
    <3> QED
      BY <3>3 DEF AddedInOrder
  <2>2. CASE BeginProbe \/ RecomputeStep(Probe)
    <3>1. UNCHANGED tx
      BY <2>2 DEF BeginProbe, RecomputeStep, Read, Write, Fail
    <3> QED
      BY <3>1 DEF AddedInOrder
  <2> QED
    BY <1>9, <2>1, <2>2 DEF ProbeStep
<1>5. CASE Crash
  BY <1>5 DEF Crash, AddedInOrder, NoTx
<1>6. ASSUME UNCHANGED tx PROVE AddedInOrder'
  BY <1>6 DEF AddedInOrder
<1>7. ASSUME NEW m \in Months, DropMonth(m) PROVE UNCHANGED tx
  BY <1>7 DEF DropMonth
<1>8. UNCHANGED vars => UNCHANGED tx
  BY DEF vars
<1> QED
  BY <1>1, <1>2, <1>3, <1>4, <1>5, <1>6, <1>7, <1>8, <1>9 DEF Next, WriterStep

\* A bucket is hourly or daily, so no waiting can come full circle.
LEMMA Acyclic == IInv /\ AddedInOrder => NoWaitCycle
<1> SUFFICES ASSUME IInv, AddedInOrder, NEW S \in SUBSET Writers, S # {}
             PROVE  \E w \in S : \A v \in S \ {w} : ~Waits(w, v)
  BY DEF NoWaitCycle
<1>1. CASE \E w \in S : tx[w].pos \notin {1, 2}
  BY <1>1 DEF Waits
<1>2. CASE \A w \in S : tx[w].pos \in {1, 2}
  <2>1. CASE \E w \in S : tx[w].pos = 2
    <3>1. PICK w \in S : tx[w].pos = 2
      BY <2>1
    <3>2. tx[w].fact \in Facts
      BY <3>1 DEF IInv, TxShape
    <3>3. PICK f \in Facts : f = tx[w].fact
      BY <3>2
    <3>4. ASSUME NEW v \in S \ {w}, Waits(w, v) PROVE FALSE
      <4>1. DayOf[f] \in tx[v].added
        BY <3>1, <3>3, <3>4, KeysTyped DEF Waits
      <4>2. PICK g \in Facts : tx[v].added \subseteq {HourOf[g]}
        BY <1>2, <3>3 DEF AddedInOrder, IInv, TxShape
      <4> QED
        BY <4>1, <4>2, BucketAssumption
    <3> QED
      BY <3>4
  <2>2. CASE \A w \in S : tx[w].pos = 1
    <3>1. PICK w \in S : TRUE
      OBVIOUS
    <3>2. \A v \in S : tx[v].added = {}
      BY <2>2 DEF AddedInOrder
    <3> QED
      BY <3>1, <3>2 DEF Waits
  <2> QED
    BY <1>2, <2>1, <2>2
<1> QED
  BY <1>1, <1>2

\* Transactions that insert facts never wait for each other in a cycle, however
\* many there are and whichever buckets they share (rollup.go 50-63: hourly
\* first, daily second).
THEOREM InsertsNeverDeadlock == Spec => []NoWaitCycle
  BY InitIInv, NextIInv, InitAdded, NextAdded, Acyclic, PTL DEF Spec
===============================================================================
