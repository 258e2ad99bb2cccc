-------------------------- MODULE IngressQueue_proofs --------------------------
(* Theorems about IngressQueue, for every value of its constants. *)
EXTENDS IngressQueue, SequenceTheorems, FiniteSetTheorems, TLAPS

(* What every goroutine's program counter says about the rest of its state. *)
WorkersBusy ==
  \A s \in Sources : worker[s].st # "idle" =>
    worker[s].caller \in Callers /\ worker[s].rec \in Records

CallsBusy == \A c \in Callers : call[c].pc # "idle" => call[c].rec \in Records

ReplayPlaced ==
  \A p \in Replayers : replay[p].st # "idle" => replay[p].at \in 1 .. Len(LaneOrder)

ReplayAtFrame ==
  \A p \in Replayers : replay[p].st = "committing" =>
    replay[p].pos \in 1 .. Len(spool[LaneAt(p)].frames)

MutexExclusive ==
  \A p, q \in Replayers : \A s \in Sources : Holds(p, s) /\ Holds(q, s) => p = q

\* Only the startup replay runs in a process that does not listen yet.
ColdProcess ==
  phase \in {"down", "starting"} =>
    /\ \A c \in Callers : call[c].pc = "idle"
    /\ \A s \in Sources : jobs[s] = << >> /\ worker[s].st = "idle"
    /\ \A p \in Replayers : replay[p].st # "idle" => phase = "starting" /\ p = Scheduler

Shape ==
  /\ TypeOK
  /\ WorkersBusy
  /\ CallsBusy
  /\ OneJobPerWaiter
  /\ ReplayPlaced
  /\ ReplayAtFrame
  /\ MutexExclusive
  /\ ColdProcess

-----------------------------------------------------------------------------
LEMMA AppendedFile ==
  ASSUME NEW file \in SpoolFile, NEW r \in Records
  PROVE  /\ Appended(file, r) \in SpoolFile
         /\ Spooled(file) \subseteq Spooled(Appended(file, r))
         /\ ~file.open => r \in Spooled(Appended(file, r))
         /\ ~file.open /\ ~Undecodable(file) => ~Undecodable(Appended(file, r))
<1> DEFINE frame == [rec |-> r, whole |-> TRUE]
           fs == file.frames
           gs == Append(fs, frame)
<1>1. /\ fs \in Seq(Frame)
      /\ frame \in Frame
      /\ file.open \in BOOLEAN
      /\ file.temp \in BOOLEAN
  BY DEF SpoolFile, Frame
<1>2. /\ gs \in Seq(Frame)
      /\ Len(gs) = Len(fs) + 1
      /\ Len(fs) \in Nat
      /\ gs[Len(gs)] = frame
      /\ \A i \in 1 .. Len(fs) : gs[i] = fs[i]
  BY <1>1
<1>3. CASE file.open
  <2>1. Appended(file, r) = [file EXCEPT !.open = FALSE]
    BY <1>3 DEF Appended
  <2> QED
    BY <1>1, <1>3, <2>1 DEF SpoolFile, Spooled
<1>4. CASE ~file.open
  <2>1. Appended(file, r) = [file EXCEPT !.frames = gs]
    BY <1>4 DEF Appended
  <2>2. Appended(file, r) \in SpoolFile /\ Appended(file, r).frames = gs
        /\ Appended(file, r).open = file.open
    BY <1>2, <2>1 DEF SpoolFile
  <2>3. Spooled(file) \subseteq Spooled(Appended(file, r))
    BY <1>2, <2>2 DEF Spooled
  <2>4. r \in Spooled(Appended(file, r))
    <3>1. Len(gs) \in 1 .. Len(gs) /\ gs[Len(gs)].whole /\ gs[Len(gs)].rec = r
      BY <1>2
    <3> QED
      BY <2>2, <3>1 DEF Spooled
  <2>5. ~Undecodable(file) => ~Undecodable(Appended(file, r))
    BY <1>2, <2>2 DEF Undecodable
  <2> QED
    BY <1>4, <2>2, <2>3, <2>4, <2>5
<1> QED
  BY <1>3, <1>4

LEMMA TornFile ==
  ASSUME NEW file \in SpoolFile, NEW r \in Records
  PROVE  /\ TornAppended(file, r) \in SpoolFile
         /\ Spooled(TornAppended(file, r)) = Spooled(file)
<1> DEFINE frame == [rec |-> r, whole |-> FALSE]
           fs == file.frames
           gs == Append(fs, frame)
<1>1. fs \in Seq(Frame) /\ frame \in Frame
  BY DEF SpoolFile, Frame
<1>2. /\ gs \in Seq(Frame)
      /\ Len(gs) = Len(fs) + 1
      /\ Len(fs) \in Nat
      /\ ~gs[Len(gs)].whole
      /\ \A i \in 1 .. Len(fs) : gs[i] = fs[i]
  BY <1>1
<1>3. CASE file.open
  BY <1>3 DEF TornAppended
<1>4. CASE ~file.open
  <2>1. TornAppended(file, r) = [file EXCEPT !.frames = gs, !.open = TRUE]
    BY <1>4 DEF TornAppended
  <2>2. TornAppended(file, r) \in SpoolFile /\ TornAppended(file, r).frames = gs
    BY <1>2, <2>1 DEF SpoolFile
  <2>3. {j \in 1 .. Len(gs) : gs[j].whole} = {j \in 1 .. Len(fs) : fs[j].whole}
    BY <1>2
  <2>4. \A j \in {i \in 1 .. Len(fs) : fs[i].whole} : gs[j].rec = fs[j].rec
    BY <1>2
  <2> QED
    BY <2>2, <2>3, <2>4 DEF Spooled
<1> QED
  BY <1>3, <1>4

LEMMA LaneInSources ==
  ASSUME NEW i \in 1 .. Len(LaneOrder)
  PROVE  LaneOrder[i] \in Sources
  BY LanesAssumption, ElementOfSeq

LEMMA SlotsTyped ==
  ASSUME inUse \in [Sources -> Int], outstanding \in Int, NEW s \in Sources
  PROVE  /\ [inUse EXCEPT ![s] = @ + 1] \in [Sources -> Int]
         /\ [inUse EXCEPT ![s] = @ - 1] \in [Sources -> Int]
         /\ outstanding + 1 \in Int
         /\ outstanding - 1 \in Int
<1>1. outstanding + 1 \in Int /\ outstanding - 1 \in Int
  OBVIOUS
<1>2. [inUse EXCEPT ![s] = @ + 1] \in [Sources -> Int]
  OBVIOUS
<1>3. [inUse EXCEPT ![s] = @ - 1] \in [Sources -> Int]
  OBVIOUS
<1> QED
  BY <1>1, <1>2, <1>3

LEMMA JobsTyped ==
  ASSUME jobs \in [Sources -> Seq(Job)], NEW s, NEW q \in Seq(Job)
  PROVE  [jobs EXCEPT ![s] = q] \in [Sources -> Seq(Job)]
  OBVIOUS

LEMMA JobFields ==
  ASSUME NEW queue \in Seq(Job), NEW i \in 1 .. Len(queue)
  PROVE  queue[i].caller \in Callers /\ queue[i].rec \in Records
<1>1. queue[i] \in Job
  BY ElementOfSeq
<1> QED
  BY <1>1 DEF Job

\* A lane's jobs stand as long as the goroutines that wait in it do.
LEMMA LaneJobsFrame ==
  ASSUME NEW queue \in Seq(Job), NEW w, NEW calls, NEW calls2, NEW s,
         LaneJobs(queue, w, calls, s),
         Answering(w) => w.caller \in Callers,
         \A c \in Callers : calls[c].pc = "waiting" /\ LaneOf[calls[c].rec] = s
                              => calls2[c] = calls[c]
  PROVE  LaneJobs(queue, w, calls2, s)
<1>1. \A i \in 1 .. Len(queue) : WaitsIn(calls2[queue[i].caller], queue[i].rec, s)
  BY JobFields DEF LaneJobs, WaitsIn
<1>2. Answering(w) => WaitsIn(calls2[w.caller], w.rec, s)
  BY DEF LaneJobs, WaitsIn
<1> QED
  BY <1>1, <1>2 DEF LaneJobs

LEMMA LaneJobsSend ==
  ASSUME NEW queue \in Seq(Job), NEW w, NEW calls, NEW calls2, NEW s, NEW job \in Job,
         LaneJobs(queue, w, calls, s),
         Answering(w) => w.caller \in Callers,
         calls[job.caller].pc # "waiting",
         WaitsIn(calls2[job.caller], job.rec, s),
         \A c \in Callers : c # job.caller => calls2[c] = calls[c]
  PROVE  LaneJobs(Append(queue, job), w, calls2, s)
<1> DEFINE longer == Append(queue, job)
           k == Len(queue)
<1>1. /\ Len(longer) = k + 1
      /\ \A i \in 1 .. k : longer[i] = queue[i]
      /\ longer[k + 1] = job
      /\ k \in Nat
  OBVIOUS
<1>2. \A i \in 1 .. k : queue[i].caller \in Callers /\ queue[i].caller # job.caller
  BY JobFields DEF LaneJobs, WaitsIn
<1>3. \A i \in 1 .. k : WaitsIn(calls2[queue[i].caller], queue[i].rec, s)
  BY <1>2 DEF LaneJobs
<1>4. Answering(w) => w.caller # job.caller /\ WaitsIn(calls2[w.caller], w.rec, s)
  BY DEF LaneJobs, WaitsIn
<1>5. /\ \A i, j \in 1 .. k : queue[i].caller = queue[j].caller => i = j
      /\ Answering(w) => \A i \in 1 .. k : queue[i].caller # w.caller
  BY DEF LaneJobs
<1> HIDE DEF longer, k
<1>6. \A i \in 1 .. Len(longer) : i \in 1 .. k \/ i = k + 1
  BY <1>1
<1>7. \A i \in 1 .. Len(longer) : WaitsIn(calls2[longer[i].caller], longer[i].rec, s)
  BY <1>1, <1>3, <1>6
<1>8. \A i, j \in 1 .. Len(longer) : longer[i].caller = longer[j].caller => i = j
  BY <1>1, <1>2, <1>5, <1>6
<1>9. Answering(w) => \A i \in 1 .. Len(longer) : longer[i].caller # w.caller
  BY <1>1, <1>4, <1>5, <1>6
<1> QED
  BY <1>4, <1>7, <1>8, <1>9 DEF LaneJobs, longer

LEMMA LaneJobsTake ==
  ASSUME NEW queue \in Seq(Job), queue # << >>, NEW w, NEW w2, NEW calls, NEW s,
         LaneJobs(queue, w, calls, s),
         w2.caller = Head(queue).caller, w2.rec = Head(queue).rec
  PROVE  LaneJobs(Tail(queue), w2, calls, s)
<1> DEFINE rest == Tail(queue)
           k == Len(queue)
<1>1. /\ Len(rest) = k - 1
      /\ k \in Nat \ {0}
      /\ Head(queue) = queue[1]
      /\ \A i \in 1 .. Len(rest) : rest[i] = queue[i + 1]
  OBVIOUS
<1>2. \A i \in 1 .. Len(rest) : i + 1 \in 1 .. k /\ i + 1 # 1
  BY <1>1
<1>3. 1 \in 1 .. k
  BY <1>1
<1>4. /\ \A i \in 1 .. k : WaitsIn(calls[queue[i].caller], queue[i].rec, s)
      /\ \A i, j \in 1 .. k : queue[i].caller = queue[j].caller => i = j
  BY DEF LaneJobs
<1> HIDE DEF rest, k
<1>5. \A i, j \in 1 .. Len(rest) : rest[i].caller = rest[j].caller => i = j
  <2> SUFFICES ASSUME NEW i \in 1 .. Len(rest), NEW j \in 1 .. Len(rest),
                      rest[i].caller = rest[j].caller
               PROVE  i = j
    OBVIOUS
  <2>1. i + 1 = j + 1
    BY <1>1, <1>2, <1>4
  <2> QED
    BY <1>1, <2>1
<1>6. \A i \in 1 .. Len(rest) : /\ WaitsIn(calls[rest[i].caller], rest[i].rec, s)
                                /\ rest[i].caller # w2.caller
  BY <1>1, <1>2, <1>3, <1>4
<1>7. WaitsIn(calls[w2.caller], w2.rec, s)
  BY <1>1, <1>3, <1>4
<1> QED
  BY <1>5, <1>6, <1>7 DEF LaneJobs, rest

LEMMA LaneJobsWork ==
  ASSUME NEW queue, NEW w, NEW w2, NEW calls, NEW s, LaneJobs(queue, w, calls, s),
         Answering(w2) => Answering(w) /\ w2.caller = w.caller /\ w2.rec = w.rec
  PROVE  LaneJobs(queue, w2, calls, s)
  BY DEF LaneJobs

LEMMA LaneJobsAnswer ==
  ASSUME NEW queue \in Seq(Job), NEW w, NEW w2, NEW calls, NEW calls2, NEW s,
         LaneJobs(queue, w, calls, s),
         Answering(w), ~Answering(w2),
         \A c \in Callers : c # w.caller => calls2[c] = calls[c]
  PROVE  LaneJobs(queue, w2, calls2, s)
<1>1. \A i \in 1 .. Len(queue) : queue[i].caller \in Callers /\ queue[i].caller # w.caller
  BY JobFields DEF LaneJobs
<1> QED
  BY <1>1 DEF LaneJobs

\* A goroutine that does not wait may change its state freely.
LEMMA SameJobs ==
  ASSUME TypeOK, WorkersBusy, OneJobPerWaiter, NEW c \in Callers,
         call[c].pc # "waiting", jobs' = jobs, worker' = worker,
         \A d \in Callers : d # c => call'[d] = call[d]
  PROVE  OneJobPerWaiter'
<1> SUFFICES ASSUME NEW s \in Sources PROVE LaneJobs(jobs[s], worker[s], call', s)
  BY DEF OneJobPerWaiter
<1>1. jobs[s] \in Seq(Job) /\ LaneJobs(jobs[s], worker[s], call, s)
  BY DEF TypeOK, OneJobPerWaiter
<1>2. Answering(worker[s]) => worker[s].caller \in Callers
  BY DEF WorkersBusy, Answering
<1>3. \A d \in Callers : call[d].pc = "waiting" /\ LaneOf[call[d].rec] = s => call'[d] = call[d]
  OBVIOUS
<1> QED
  BY <1>1, <1>2, <1>3, LaneJobsFrame

LEMMA CallTyped ==
  ASSUME call \in [Callers -> CallState], NEW c \in Callers,
         NEW pc \in {"idle", "reserved", "waiting", "acked", "refused"}
  PROVE  /\ [call EXCEPT ![c].pc = pc] \in [Callers -> CallState]
         /\ [call EXCEPT ![c] = IdleCall] \in [Callers -> CallState]
         /\ \A r \in Records :
              [call EXCEPT ![c] = [pc |-> pc, rec |-> r]] \in [Callers -> CallState]
  BY DEF CallState, IdleCall

LEMMA WorkerTyped ==
  ASSUME worker \in [Sources -> WorkerState], NEW s \in Sources,
         NEW st \in {"idle", "persisting", "spooling", "durable", "failed", "releasing"}
  PROVE  /\ [worker EXCEPT ![s].st = st] \in [Sources -> WorkerState]
         /\ [worker EXCEPT ![s] = IdleWorker] \in [Sources -> WorkerState]
  BY DEF WorkerState, IdleWorker

LEMMA ReplayTyped ==
  ASSUME replay \in [Replayers -> ReplayState], NEW p \in Replayers,
         NEW st \in {"idle", "opening", "committing", "draining", "renaming"}
  PROVE  /\ [replay EXCEPT ![p].st = st] \in [Replayers -> ReplayState]
         /\ [replay EXCEPT ![p] = IdleReplay] \in [Replayers -> ReplayState]
         /\ [replay EXCEPT ![p] = FirstLane] \in [Replayers -> ReplayState]
         /\ [replay EXCEPT ![p].pos = @ + 1] \in [Replayers -> ReplayState]
         /\ [replay EXCEPT ![p].st = st, ![p].pos = 1] \in [Replayers -> ReplayState]
         /\ [replay EXCEPT ![p] = [st |-> "opening", at |-> @.at + 1, pos |-> 0]]
              \in [Replayers -> ReplayState]
<1> USE DEF ReplayState, IdleReplay, FirstLane
<1>1. /\ [replay EXCEPT ![p].st = st] \in [Replayers -> ReplayState]
      /\ [replay EXCEPT ![p] = IdleReplay] \in [Replayers -> ReplayState]
      /\ [replay EXCEPT ![p] = FirstLane] \in [Replayers -> ReplayState]
  OBVIOUS
<1>2. [replay EXCEPT ![p].pos = @ + 1] \in [Replayers -> ReplayState]
  OBVIOUS
<1>3. [replay EXCEPT ![p].st = st, ![p].pos = 1] \in [Replayers -> ReplayState]
  OBVIOUS
<1>4. [replay EXCEPT ![p] = [st |-> "opening", at |-> @.at + 1, pos |-> 0]]
        \in [Replayers -> ReplayState]
  OBVIOUS
<1> QED
  BY <1>1, <1>2, <1>3, <1>4

LEMMA ReplayMoved ==
  ASSUME replay \in [Replayers -> ReplayState], NEW p \in Replayers, NEW st
  PROVE  /\ [replay EXCEPT ![p].st = st] =
              [replay EXCEPT ![p] = [st |-> st, at |-> replay[p].at, pos |-> replay[p].pos]]
         /\ [replay EXCEPT ![p].st = st, ![p].pos = 1] =
              [replay EXCEPT ![p] = [st |-> st, at |-> replay[p].at, pos |-> 1]]
         /\ [replay EXCEPT ![p].pos = @ + 1] =
              [replay EXCEPT ![p] = [st |-> replay[p].st, at |-> replay[p].at,
                                     pos |-> replay[p].pos + 1]]
<1> DEFINE r == replay[p]
<1>1. r \in ReplayState
  OBVIOUS
<1>2. [r EXCEPT !.st = st] = [st |-> st, at |-> r.at, pos |-> r.pos]
  BY <1>1 DEF ReplayState
<1>3. [r EXCEPT !.pos = r.pos + 1] = [st |-> r.st, at |-> r.at, pos |-> r.pos + 1]
  BY <1>1 DEF ReplayState
<1>4. [replay EXCEPT ![p].st = st] = [replay EXCEPT ![p] = [r EXCEPT !.st = st]]
  OBVIOUS
<1>5. [replay EXCEPT ![p].pos = @ + 1] = [replay EXCEPT ![p] = [r EXCEPT !.pos = r.pos + 1]]
  OBVIOUS
<1>6. [replay EXCEPT ![p].st = st, ![p].pos = 1] =
        [replay EXCEPT ![p] = [st |-> st, at |-> r.at, pos |-> 1]]
  <2> DEFINE f == [replay EXCEPT ![p].st = st]
             g == [replay EXCEPT ![p].st = st, ![p].pos = 1]
             x == [st |-> st, at |-> r.at, pos |-> 1]
  <2>1. f[p] = [st |-> st, at |-> r.at, pos |-> r.pos] /\ DOMAIN f = Replayers
    BY <1>2, <1>4
  <2>2. \A q \in Replayers \ {p} : f[q] = replay[q]
    OBVIOUS
  <2>3. g = [f EXCEPT ![p] = [f[p] EXCEPT !.pos = 1]]
    OBVIOUS
  <2>4. [f[p] EXCEPT !.pos = 1] = x
    <3>1. [[st |-> st, at |-> r.at, pos |-> r.pos] EXCEPT !.pos = 1] = x
      OBVIOUS
    <3> HIDE DEF f, x
    <3> QED
      BY <2>1, <3>1
  <2> HIDE DEF f, g, x
  <2>5. g = [f EXCEPT ![p] = x]
    BY <2>3, <2>4
  <2>6. f = [q \in Replayers |-> f[q]]
    BY DEF f
  <2>7. g = [replay EXCEPT ![p] = x]
    BY <2>1, <2>2, <2>5, <2>6
  <2> QED
    BY <2>7 DEF g, x
<1> QED
  BY <1>2, <1>3, <1>4, <1>5, <1>6

\* What every exit of the process establishes.
LEMMA GoneShape ==
  ASSUME ProcessGone, spool' \in [Sources -> SpoolFile]
  PROVE  /\ phase' \in Phases /\ accepting' \in BOOLEAN /\ laneOpen' \in BOOLEAN
         /\ call' \in [Callers -> CallState]
         /\ inUse' \in [Sources -> Int] /\ outstanding' \in Int
         /\ jobs' \in [Sources -> Seq(Job)]
         /\ worker' \in [Sources -> WorkerState]
         /\ replay' \in [Replayers -> ReplayState]
         /\ WorkersBusy' /\ CallsBusy' /\ OneJobPerWaiter'
         /\ ReplayPlaced' /\ ReplayAtFrame' /\ MutexExclusive' /\ ColdProcess'
<1> USE DEF ProcessGone
<1>1. phase' \in Phases /\ accepting' \in BOOLEAN /\ laneOpen' \in BOOLEAN
  BY DEF Phases
<1>2. call' \in [Callers -> CallState]
  BY DEF CallState, IdleCall
<1>3. inUse' \in [Sources -> Int] /\ outstanding' \in Int
  OBVIOUS
<1>4. jobs' \in [Sources -> Seq(Job)]
  <2>1. << >> \in Seq(Job)
    OBVIOUS
  <2> QED
    BY <2>1
<1>5. worker' \in [Sources -> WorkerState]
  BY DEF WorkerState, IdleWorker
<1>6. replay' \in [Replayers -> ReplayState]
  BY DEF ReplayState, IdleReplay
<1>7. /\ \A c \in Callers : call'[c].pc = "idle"
      /\ \A s \in Sources : worker'[s].st = "idle" /\ jobs'[s] = << >>
      /\ \A p \in Replayers : replay'[p].st = "idle"
  BY DEF IdleCall, IdleWorker, IdleReplay
<1>8. WorkersBusy' /\ CallsBusy' /\ ReplayPlaced' /\ ReplayAtFrame' /\ ColdProcess'
  BY <1>7 DEF WorkersBusy, CallsBusy, ReplayPlaced, ReplayAtFrame, ColdProcess
<1>9. MutexExclusive'
  BY <1>7 DEF MutexExclusive, Holds
<1>10. OneJobPerWaiter'
  BY <1>7 DEF OneJobPerWaiter, LaneJobs, Answering
<1> QED
  BY <1>1, <1>2, <1>3, <1>4, <1>5, <1>6, <1>8, <1>9, <1>10

\* Every step of a replay that does not end the process moves one replayer to
\* some state x and leaves the goroutines of the queue alone.
Holding == {"committing", "draining", "renaming"}

LEMMA PlaceShape ==
  ASSUME Shape, NEW p \in Replayers, NEW x \in ReplayState,
         replay' = [replay EXCEPT ![p] = x],
         x.st # "idle" => x.at \in 1 .. Len(LaneOrder),
         x.st = "committing" => x.pos \in 1 .. Len(spool'[LaneOrder[x.at]].frames),
         x.st \in Holding => \A q \in Replayers \ {p} : ~Holds(q, LaneOrder[x.at]),
         \A q \in Replayers \ {p} : replay[q].st = "committing" =>
           Len(spool'[LaneAt(q)].frames) = Len(spool[LaneAt(q)].frames),
         call' = call, inUse' = inUse, outstanding' = outstanding, jobs' = jobs,
         worker' = worker, dbUp' \in BOOLEAN, acked' = acked,
         checkpointed' = checkpointed, stops' \in Nat, outages' \in Nat,
         accepting' \in BOOLEAN, laneOpen' \in BOOLEAN, phase' \in Phases,
         phase' \in {"down", "starting"} =>
           /\ phase \in {"down", "starting"}
           /\ \A q \in Replayers \ {p} : replay[q].st = "idle"
           /\ x.st # "idle" => phase' = "starting" /\ p = Scheduler,
         spool' \in [Sources -> SpoolFile], faults' \in Nat,
         facts' \subseteq Records, settled' \subseteq facts'
  PROVE  Shape'
<1>1. /\ replay \in [Replayers -> ReplayState]
      /\ replay'[p] = x
      /\ \A q \in Replayers \ {p} : replay'[q] = replay[q]
  BY DEF Shape, TypeOK
<1>2. TypeOK'
  BY DEF Shape, TypeOK
<1>3. WorkersBusy' /\ CallsBusy' /\ OneJobPerWaiter'
  BY DEF Shape, WorkersBusy, CallsBusy, OneJobPerWaiter
<1>4. ReplayPlaced'
  BY <1>1 DEF Shape, ReplayPlaced
<1>5. ReplayAtFrame'
  BY <1>1 DEF Shape, ReplayAtFrame, LaneAt
<1>6. \A q \in Replayers \ {p}, s \in Sources : Holds(q, s)' <=> Holds(q, s)
  BY <1>1 DEF Holds, LaneAt
<1>7. \A s \in Sources : Holds(p, s)' => x.st \in Holding /\ s = LaneOrder[x.at]
  BY <1>1 DEF Holds, LaneAt, Holding
<1>8. MutexExclusive'
  BY <1>6, <1>7 DEF Shape, MutexExclusive
<1>9. ColdProcess'
  BY <1>1 DEF Shape, ColdProcess
<1> QED
  BY <1>2, <1>3, <1>4, <1>5, <1>8, <1>9 DEF Shape

\* A replayer that runs in a process without listeners runs alone.
LEMMA ReplayAlone ==
  ASSUME Shape, NEW p \in Replayers, replay[p].st # "idle"
  PROVE  phase \in {"down", "starting"} =>
           phase = "starting" /\ p = Scheduler /\ \A q \in Replayers \ {p} : replay[q].st = "idle"
  BY DEF Shape, ColdProcess

LEMMA GoneStep ==
  ASSUME Shape, ProcessGone, spool' \in [Sources -> SpoolFile],
         dbUp' = dbUp, acked' = acked, checkpointed' = checkpointed,
         stops' \in Nat, faults' \in Nat, outages' = outages,
         facts' \subseteq Records, settled' \subseteq facts'
  PROVE  Shape'
<1>1. TypeOK'
  BY GoneShape DEF Shape, TypeOK
<1> QED
  BY <1>1, GoneShape DEF Shape

LEMMA AbortStep ==
  ASSUME Shape, NEW p \in Replayers, replay[p].st # "idle", ReplayAbort(p),
         spool' \in [Sources -> SpoolFile],
         \A q \in Replayers \ {p} : replay[q].st = "committing" =>
           Len(spool'[LaneAt(q)].frames) = Len(spool[LaneAt(q)].frames),
         dbUp' = dbUp, acked' = acked, checkpointed' = checkpointed,
         stops' = stops, faults' \in Nat, outages' = outages,
         facts' \subseteq Records, settled' \subseteq facts'
  PROVE  Shape'
<1>1. CASE phase = "starting"
  <2>1. ProcessGone /\ stops' \in Nat
    BY <1>1 DEF ReplayAbort, Shape, TypeOK
  <2> QED
    BY <2>1, GoneStep
<1>2. CASE phase # "starting"
  <2>1. /\ replay' = [replay EXCEPT ![p] = IdleReplay]
        /\ UNCHANGED <<process, call, lanes, worker>>
    BY <1>2 DEF ReplayAbort
  <2>2. IdleReplay \in ReplayState /\ IdleReplay.st = "idle"
    BY DEF IdleReplay, ReplayState
  <2>3. /\ dbUp \in BOOLEAN /\ stops \in Nat /\ outages \in Nat
        /\ accepting \in BOOLEAN /\ laneOpen \in BOOLEAN /\ phase \in Phases
    BY DEF Shape, TypeOK
  <2>4. phase \notin {"down", "starting"}
    BY <1>2, ReplayAlone
  <2> QED
    BY <2>1, <2>2, <2>3, <2>4, PlaceShape DEF process, lanes, Holding
<1> QED
  BY <1>1, <1>2

LEMMA NextLaneStep ==
  ASSUME Shape, NEW p \in Replayers, replay[p].st # "idle", NextLane(p),
         spool' \in [Sources -> SpoolFile],
         \A q \in Replayers \ {p} : replay[q].st = "committing" =>
           Len(spool'[LaneAt(q)].frames) = Len(spool[LaneAt(q)].frames),
         dbUp' = dbUp, acked' = acked, checkpointed' = checkpointed,
         stops' = stops, faults' \in Nat, outages' = outages,
         facts' = facts, settled' = settled
  PROVE  Shape'
<1>1. /\ dbUp' \in BOOLEAN /\ stops' \in Nat /\ outages' \in Nat
      /\ facts' \subseteq Records /\ settled' \subseteq facts'
      /\ accepting' \in BOOLEAN /\ laneOpen' \in BOOLEAN
      /\ call' = call /\ inUse' = inUse /\ outstanding' = outstanding
      /\ jobs' = jobs /\ worker' = worker
  BY DEF Shape, TypeOK, NextLane, process, lanes
<1>2. /\ replay[p].at \in Nat /\ replay[p].at >= 1 /\ replay[p].at <= Len(LaneOrder)
      /\ Len(LaneOrder) \in Nat
  <2>1. Len(LaneOrder) \in Nat
    BY LanesAssumption
  <2>2. replay[p].at \in 1 .. Len(LaneOrder)
    BY DEF Shape, ReplayPlaced
  <2> QED
    BY <2>1, <2>2
<1>3. CASE replay[p].at < Len(LaneOrder)
  <2> DEFINE x == [st |-> "opening", at |-> replay[p].at + 1, pos |-> 0]
  <2>1. replay' = [replay EXCEPT ![p] = x] /\ phase' = phase
    BY <1>3 DEF NextLane, process
  <2>2. x \in ReplayState /\ x.at \in 1 .. Len(LaneOrder)
    BY <1>2, <1>3 DEF ReplayState
  <2>3. x.st = "opening" /\ phase' \in Phases
    BY <2>1 DEF Shape, TypeOK
  <2>4. phase' \in {"down", "starting"} =>
          /\ phase \in {"down", "starting"}
          /\ \A q \in Replayers \ {p} : replay[q].st = "idle"
          /\ x.st # "idle" => phase' = "starting" /\ p = Scheduler
    BY <2>1, ReplayAlone
  <2> HIDE DEF x
  <2> QED
    BY <1>1, <2>1, <2>2, <2>3, <2>4, PlaceShape DEF Holding
<1>4. CASE ~(replay[p].at < Len(LaneOrder))
  <2>1. /\ replay' = [replay EXCEPT ![p] = IdleReplay]
        /\ phase' = IF phase = "starting" THEN "serving" ELSE phase
    BY <1>4 DEF NextLane
  <2>2. IdleReplay \in ReplayState /\ IdleReplay.st = "idle"
    BY DEF IdleReplay, ReplayState
  <2>3. phase' \in Phases /\ phase' \notin {"down", "starting"}
    BY <2>1, ReplayAlone DEF Shape, TypeOK, Phases
  <2> QED
    BY <1>1, <2>1, <2>2, <2>3, PlaceShape DEF Holding
<1> QED
  BY <1>3, <1>4

LEMMA FirstLaneExists == 1 \in 1 .. Len(LaneOrder)
<1>1. Len(LaneOrder) \in Nat \ {0}
  BY LanesAssumption, EmptySeq
<1> QED
  BY <1>1

\* Steps that only move the process along, or touch the environment.
LEMMA PhaseStep ==
  ASSUME Shape, phase' \in Phases, phase' \in {"down", "starting"} => phase' = phase,
         accepting' \in BOOLEAN, laneOpen' \in BOOLEAN, dbUp' \in BOOLEAN,
         stops' \in Nat, faults' \in Nat, outages' \in Nat,
         UNCHANGED <<call, lanes, worker, spool, replay, database, history>>
  PROVE  Shape'
<1> USE DEF lanes, database, history
<1>1. TypeOK'
  BY DEF Shape, TypeOK
<1>2. WorkersBusy' /\ CallsBusy' /\ OneJobPerWaiter'
  BY DEF Shape, WorkersBusy, CallsBusy, OneJobPerWaiter
<1>3. ReplayPlaced' /\ ReplayAtFrame' /\ MutexExclusive'
  BY DEF Shape, ReplayPlaced, ReplayAtFrame, MutexExclusive, Holds, LaneAt
<1>4. ColdProcess'
  BY DEF Shape, ColdProcess
<1> QED
  BY <1>1, <1>2, <1>3, <1>4 DEF Shape

LEMMA CrashedFiles ==
  ASSUME TypeOK, WorkersBusy, Crash
  PROVE  spool' \in [Sources -> SpoolFile]
<1>1. PICK torn, written \in SUBSET {s \in Sources : worker[s].st = "spooling"
                                                     /\ MutexFree(s)
                                                     /\ HasRoom(spool[s])} :
        spool' = [s \in Sources |->
                    IF s \in torn THEN TornAppended(spool[s], worker[s].rec)
                    ELSE IF s \in written THEN Appended(spool[s], worker[s].rec)
                    ELSE spool[s]]
  BY DEF Crash
<1>2. \A s \in Sources : spool[s] \in SpoolFile
  BY DEF TypeOK
<1>3. \A s \in torn \cup written : s \in Sources /\ worker[s].rec \in Records
  BY DEF WorkersBusy
<1>4. \A s \in torn : TornAppended(spool[s], worker[s].rec) \in SpoolFile
  BY <1>2, <1>3, TornFile
<1>5. \A s \in written : Appended(spool[s], worker[s].rec) \in SpoolFile
  BY <1>2, <1>3, AppendedFile
<1> QED
  BY <1>1, <1>2, <1>4, <1>5

LEMMA InitShape == Init => Shape
<1> SUFFICES ASSUME Init PROVE Shape
  OBVIOUS
<1> USE DEF Init
<1>1. spool \in [Sources -> SpoolFile]
  BY DEF EmptySpool, SpoolFile
<1>2. jobs \in [Sources -> Seq(Job)]
  <2>1. << >> \in Seq(Job)
    OBVIOUS
  <2> QED
    BY <2>1
<1>3. /\ call \in [Callers -> CallState]
      /\ worker \in [Sources -> WorkerState]
      /\ replay \in [Replayers -> ReplayState]
  BY DEF IdleReplay, ReplayState, IdleCall, CallState, IdleWorker, WorkerState
<1>4. /\ phase \in Phases /\ inUse \in [Sources -> Int] /\ outstanding \in Int
      /\ stops \in Nat /\ faults \in Nat /\ outages \in Nat
  BY DEF Phases
<1>5. TypeOK
  BY <1>1, <1>2, <1>3, <1>4 DEF TypeOK
<1>6. WorkersBusy /\ CallsBusy
  BY DEF WorkersBusy, CallsBusy, IdleWorker, IdleCall
<1>7. ReplayPlaced /\ ReplayAtFrame /\ MutexExclusive
  BY DEF ReplayPlaced, ReplayAtFrame, MutexExclusive, Holds, IdleReplay
<1>8. ColdProcess
  BY DEF ColdProcess, IdleCall, IdleWorker, IdleReplay
<1>9. OneJobPerWaiter
  BY DEF OneJobPerWaiter, LaneJobs, Answering, IdleWorker
<1> QED
  BY <1>5, <1>6, <1>7, <1>8, <1>9 DEF Shape

LEMMA ShapeStep == Shape /\ [Next]_vars => Shape'
<1> SUFFICES ASSUME Shape, [Next]_vars PROVE Shape'
  OBVIOUS
<1> USE DEF process, lanes, database, history, budget
<1>0. TypeOK /\ WorkersBusy /\ CallsBusy /\ OneJobPerWaiter /\ ReplayPlaced
      /\ ReplayAtFrame /\ MutexExclusive /\ ColdProcess
  BY DEF Shape
<1>1. ASSUME NEW c \in Callers, NEW r \in Records, Reserve(c, r) PROVE Shape'
  <2> USE <1>1 DEF Reserve
  <2>0. LaneOf[r] \in Sources
    BY LanesAssumption
  <2>1. call' \in [Callers -> CallState]
    BY <1>0, CallTyped DEF TypeOK
  <2>2. inUse' \in [Sources -> Int] /\ outstanding' \in Int
    BY <1>0, <2>0, SlotsTyped DEF TypeOK
  <2>3. TypeOK'
    BY <1>0, <2>1, <2>2 DEF TypeOK
  <2>4. CallsBusy' /\ WorkersBusy'
    BY <1>0 DEF CallsBusy, WorkersBusy, TypeOK
  <2>5. ReplayPlaced' /\ ReplayAtFrame' /\ MutexExclusive'
    BY <1>0 DEF ReplayPlaced, ReplayAtFrame, MutexExclusive, Holds, LaneAt
  <2>6. ColdProcess'
    BY <1>0 DEF ColdProcess, Listening
  <2>20. OneJobPerWaiter'
    <3>1. call[c].pc # "waiting" /\ jobs' = jobs /\ worker' = worker
      OBVIOUS
    <3>2. \A d \in Callers : d # c => call'[d] = call[d]
      BY <1>0 DEF TypeOK
    <3> QED
      BY <1>0, <3>1, <3>2, SameJobs
  <2> QED
    BY <2>3, <2>4, <2>5, <2>6, <2>20 DEF Shape
<1>2. ASSUME NEW c \in Callers, NEW r \in Records, Refuse(c, r) PROVE Shape'
  <2> USE <1>2 DEF Refuse
  <2>1. call' \in [Callers -> CallState]
    BY <1>0, CallTyped DEF TypeOK
  <2>3. TypeOK'
    BY <1>0, <2>1 DEF TypeOK
  <2>4. CallsBusy' /\ WorkersBusy'
    BY <1>0 DEF CallsBusy, WorkersBusy, TypeOK
  <2>5. ReplayPlaced' /\ ReplayAtFrame' /\ MutexExclusive'
    BY <1>0 DEF ReplayPlaced, ReplayAtFrame, MutexExclusive, Holds, LaneAt
  <2>6. ColdProcess'
    BY <1>0 DEF ColdProcess, Listening
  <2>20. OneJobPerWaiter'
    <3>1. call[c].pc # "waiting" /\ jobs' = jobs /\ worker' = worker
      OBVIOUS
    <3>2. \A d \in Callers : d # c => call'[d] = call[d]
      BY <1>0 DEF TypeOK
    <3> QED
      BY <1>0, <3>1, <3>2, SameJobs
  <2> QED
    BY <2>3, <2>4, <2>5, <2>6, <2>20 DEF Shape
<1>3. ASSUME NEW c \in Callers, Commit(c) PROVE Shape'
  <2> DEFINE s == LaneOf[call[c].rec]
             job == [caller |-> c, rec |-> call[c].rec]
  <2> USE <1>3 DEF Commit
  <2>1. call' \in [Callers -> CallState]
    BY <1>0, CallTyped DEF TypeOK
  <2>2. call[c].rec \in Records /\ s \in Sources
    BY <1>0, LanesAssumption DEF CallsBusy
  <2>3. job \in Job /\ jobs[s] \in Seq(Job)
    BY <1>0, <2>2 DEF TypeOK, Job
  <2>4. Append(jobs[s], job) \in Seq(Job)
    BY <2>3
  <2>5. jobs' = [jobs EXCEPT ![s] = Append(jobs[s], job)]
    OBVIOUS
  <2>6. jobs' \in [Sources -> Seq(Job)]
    BY <1>0, <2>4, <2>5, JobsTyped DEF TypeOK
  <2>7. TypeOK'
    BY <1>0, <2>1, <2>6 DEF TypeOK
  <2>8. CallsBusy'
    BY <1>0, <2>2 DEF CallsBusy, TypeOK, CallState
  <2>9. WorkersBusy' /\ ReplayPlaced' /\ ReplayAtFrame' /\ MutexExclusive'
    BY <1>0 DEF WorkersBusy, ReplayPlaced, ReplayAtFrame, MutexExclusive, Holds, LaneAt
  <2>10. ColdProcess'
    BY <1>0 DEF ColdProcess
  <2>20. OneJobPerWaiter'
    <3> SUFFICES ASSUME NEW t \in Sources PROVE LaneJobs(jobs'[t], worker[t], call', t)
      BY DEF OneJobPerWaiter
    <3>1. \A d \in Callers : d # c => call'[d] = call[d]
      BY <1>0 DEF TypeOK
    <3>2. call'[c].pc = "waiting" /\ call'[c].rec = call[c].rec /\ call[c].pc # "waiting"
      BY <1>0 DEF TypeOK, CallState
    <3>3. jobs[t] \in Seq(Job) /\ LaneJobs(jobs[t], worker[t], call, t)
      BY <1>0 DEF TypeOK, OneJobPerWaiter
    <3>4. Answering(worker[t]) => worker[t].caller \in Callers
      BY <1>0 DEF WorkersBusy, Answering
    <3>5. CASE t # s
      <4>1. jobs'[t] = jobs[t]
        BY <1>0, <2>5, <3>5 DEF TypeOK
      <4>2. \A d \in Callers : call[d].pc = "waiting" /\ LaneOf[call[d].rec] = t => call'[d] = call[d]
        BY <3>1, <3>2
      <4> QED
        BY <3>3, <3>4, <4>1, <4>2, LaneJobsFrame
    <3>6. CASE t = s
      <4>1. jobs'[t] = Append(jobs[t], job)
        BY <1>0, <2>2, <2>5, <3>6 DEF TypeOK
      <4>2. WaitsIn(call'[job.caller], job.rec, t)
        BY <3>2, <3>6 DEF WaitsIn
      <4>3. /\ job \in Job /\ call[job.caller].pc # "waiting"
            /\ \A d \in Callers : d # job.caller => call'[d] = call[d]
        BY <2>3, <3>1, <3>2
      <4> HIDE <1>3 DEF job
      <4>4. LaneJobs(Append(jobs[t], job), worker[t], call', t)
        BY <3>3, <3>4, <4>2, <4>3, LaneJobsSend
      <4> QED
        BY <4>1, <4>4
    <3> QED
      BY <3>5, <3>6
  <2> QED
    BY <2>7, <2>8, <2>9, <2>10, <2>20 DEF Shape
<1>4. ASSUME NEW c \in Callers, Cancel(c) PROVE Shape'
  <2> USE <1>4 DEF Cancel, Release
  <2>0. LaneOf[call[c].rec] \in Sources
    BY <1>0, LanesAssumption DEF CallsBusy
  <2>1. call' \in [Callers -> CallState]
    BY <1>0, CallTyped DEF TypeOK
  <2>2. inUse' \in [Sources -> Int] /\ outstanding' \in Int
    BY <1>0, <2>0, SlotsTyped DEF TypeOK
  <2>3. TypeOK'
    BY <1>0, <2>1, <2>2 DEF TypeOK
  <2>4. CallsBusy' /\ WorkersBusy'
    BY <1>0 DEF CallsBusy, WorkersBusy, TypeOK, IdleCall
  <2>5. ReplayPlaced' /\ ReplayAtFrame' /\ MutexExclusive'
    BY <1>0 DEF ReplayPlaced, ReplayAtFrame, MutexExclusive, Holds, LaneAt
  <2>6. ColdProcess'
    BY <1>0 DEF ColdProcess
  <2>20. OneJobPerWaiter'
    <3>1. call[c].pc # "waiting" /\ jobs' = jobs /\ worker' = worker
      OBVIOUS
    <3>2. \A d \in Callers : d # c => call'[d] = call[d]
      BY <1>0 DEF TypeOK
    <3> QED
      BY <1>0, <3>1, <3>2, SameJobs
  <2> QED
    BY <2>3, <2>4, <2>5, <2>6, <2>20 DEF Shape
<1>5. ASSUME NEW c \in Callers, Return(c) PROVE Shape'
  <2> USE <1>5 DEF Return
  <2>1. call' \in [Callers -> CallState]
    BY <1>0, CallTyped DEF TypeOK
  <2>2. checkpointed' \subseteq Records
    <3>1. checkpointed' = checkpointed \/ checkpointed' = checkpointed \cup {call[c].rec}
      OBVIOUS
    <3>2. call[c].rec \in Records /\ checkpointed \subseteq Records
      BY <1>0 DEF CallsBusy, TypeOK
    <3> QED
      BY <3>1, <3>2
  <2>3. TypeOK'
    BY <1>0, <2>1, <2>2 DEF TypeOK
  <2>4. CallsBusy' /\ WorkersBusy'
    BY <1>0 DEF CallsBusy, WorkersBusy, TypeOK, IdleCall
  <2>5. ReplayPlaced' /\ ReplayAtFrame' /\ MutexExclusive'
    BY <1>0 DEF ReplayPlaced, ReplayAtFrame, MutexExclusive, Holds, LaneAt
  <2>6. ColdProcess'
    BY <1>0 DEF ColdProcess
  <2>20. OneJobPerWaiter'
    <3>1. call[c].pc # "waiting" /\ jobs' = jobs /\ worker' = worker
      OBVIOUS
    <3>2. \A d \in Callers : d # c => call'[d] = call[d]
      BY <1>0 DEF TypeOK
    <3> QED
      BY <1>0, <3>1, <3>2, SameJobs
  <2> QED
    BY <2>3, <2>4, <2>5, <2>6, <2>20 DEF Shape
<1>6. ASSUME NEW s \in Sources, WorkerTake(s) PROVE Shape'
  <2> DEFINE job == Head(jobs[s])
             busy == [st |-> "persisting", caller |-> job.caller, rec |-> job.rec]
  <2> USE <1>6 DEF WorkerTake
  <2>1. jobs[s] \in Seq(Job) /\ jobs[s] # << >>
    BY <1>0 DEF TypeOK
  <2>2. job \in Job /\ Tail(jobs[s]) \in Seq(Job)
    BY <2>1
  <2>3. job.caller \in Callers /\ job.rec \in Records
    BY <2>2 DEF Job
  <2>4. worker' = [worker EXCEPT ![s] = busy]
    OBVIOUS
  <2>5. worker' \in [Sources -> WorkerState]
    BY <1>0, <2>3, <2>4 DEF TypeOK, WorkerState
  <2>6. jobs' \in [Sources -> Seq(Job)]
    BY <1>0, <2>2, JobsTyped DEF TypeOK
  <2>7. TypeOK'
    BY <1>0, <2>5, <2>6 DEF TypeOK
  <2>8. WorkersBusy'
    BY <1>0, <2>3, <2>4 DEF WorkersBusy, TypeOK
  <2>9. CallsBusy' /\ ReplayPlaced' /\ ReplayAtFrame' /\ MutexExclusive'
    BY <1>0 DEF CallsBusy, ReplayPlaced, ReplayAtFrame, MutexExclusive, Holds, LaneAt
  <2>10. ColdProcess'
    BY <1>0 DEF ColdProcess
  <2>20. OneJobPerWaiter'
    <3> SUFFICES ASSUME NEW t \in Sources PROVE LaneJobs(jobs'[t], worker'[t], call, t)
      BY DEF OneJobPerWaiter
    <3>1. LaneJobs(jobs[t], worker[t], call, t)
      BY <1>0 DEF OneJobPerWaiter
    <3>2. CASE t # s
      BY <1>0, <2>4, <3>1, <3>2 DEF TypeOK
    <3>3. CASE t = s
      <4>1. jobs'[t] = Tail(jobs[t]) /\ worker'[t] = busy
        BY <1>0, <2>4, <3>3 DEF TypeOK
      <4>2. worker'[t].caller = Head(jobs[t]).caller /\ worker'[t].rec = Head(jobs[t]).rec
        BY <3>3, <4>1
      <4> QED
        BY <2>1, <3>1, <3>3, <4>1, <4>2, LaneJobsTake
    <3> QED
      BY <3>2, <3>3
  <2> QED
    BY <2>7, <2>8, <2>9, <2>10, <2>20 DEF Shape
<1>7. ASSUME NEW s \in Sources, WorkerPersist(s) PROVE Shape'
  <2>1. PICK o \in SinkOutcomes(worker[s].rec) :
          /\ Persist(worker[s].rec, o)
          /\ worker' = [worker EXCEPT ![s].st = IF o = "committed" THEN "durable" ELSE "spooling"]
    BY <1>7 DEF WorkerPersist
  <2>2. /\ worker[s].st = "persisting"
        /\ UNCHANGED <<process, call, lanes, spool, replay, dbUp, history, budget>>
    BY <1>7 DEF WorkerPersist
  <2>3. worker' \in [Sources -> WorkerState]
    BY <1>0, <2>1, WorkerTyped DEF TypeOK
  <2>4. worker[s].rec \in Records
    BY <1>0, <2>2 DEF WorkersBusy
  <2>5. facts' \subseteq Records /\ settled' \subseteq facts'
    BY <1>0, <2>1, <2>4 DEF TypeOK, Persist
  <2>6. TypeOK'
    BY <1>0, <2>2, <2>3, <2>5 DEF TypeOK
  <2>7. WorkersBusy'
    BY <1>0, <2>1, <2>2 DEF WorkersBusy, TypeOK, WorkerState
  <2>8. CallsBusy' /\ ReplayPlaced' /\ ReplayAtFrame' /\ MutexExclusive'
    BY <1>0, <2>2 DEF CallsBusy, ReplayPlaced, ReplayAtFrame, MutexExclusive, Holds, LaneAt
  <2>9. ColdProcess'
    BY <1>0, <2>1, <2>2 DEF ColdProcess
  <2>20. OneJobPerWaiter'
    <3>1. \A t \in Sources : t # s => worker'[t] = worker[t]
      BY <1>0, <2>1, <2>2 DEF TypeOK
    <3>2. /\ Answering(worker[s])
          /\ worker'[s].caller = worker[s].caller /\ worker'[s].rec = worker[s].rec
      BY <1>0, <2>1, <2>2 DEF TypeOK, WorkerState, Answering
    <3>3. \A t \in Sources : LaneJobs(jobs[t], worker'[t], call, t)
      BY <1>0, <3>1, <3>2, LaneJobsWork DEF OneJobPerWaiter
    <3> QED
      BY <2>2, <3>3 DEF OneJobPerWaiter
  <2> QED
    BY <2>6, <2>7, <2>8, <2>9, <2>20 DEF Shape
<1>8. ASSUME NEW s \in Sources, WorkerSpool(s) PROVE Shape'
  <2>1. /\ worker[s].st = "spooling" /\ MutexFree(s)
        /\ UNCHANGED <<process, call, lanes, replay, database, dbUp, history, stops, outages>>
    BY <1>8 DEF WorkerSpool
  <2>2. worker[s].rec \in Records /\ spool[s] \in SpoolFile /\ faults \in Nat
    BY <1>0, <2>1 DEF WorkersBusy, TypeOK
  <2>3. PICK st \in {"durable", "failed"} : worker' = [worker EXCEPT ![s].st = st]
    BY <1>8 DEF WorkerSpool, AppendOK, AppendFull, AppendFails
  <2>4. faults' \in Nat
    BY <1>8, <2>2 DEF WorkerSpool, AppendOK, AppendFull, AppendFails, Fault
  <2>5. PICK file \in SpoolFile : spool' = [spool EXCEPT ![s] = file]
    <3>1. \/ spool' = [spool EXCEPT ![s] = spool[s]]
          \/ spool' = [spool EXCEPT ![s] = Appended(spool[s], worker[s].rec)]
          \/ spool' = [spool EXCEPT ![s] = TornAppended(spool[s], worker[s].rec)]
      BY <1>0, <1>8 DEF WorkerSpool, AppendOK, AppendFull, AppendFails, TypeOK
    <3> QED
      BY <2>2, <3>1, AppendedFile, TornFile
  <2>6. worker' \in [Sources -> WorkerState]
    BY <1>0, <2>3, WorkerTyped DEF TypeOK
  <2>7. spool' \in [Sources -> SpoolFile]
    BY <1>0, <2>5 DEF TypeOK
  <2>8. TypeOK'
    BY <1>0, <2>1, <2>4, <2>6, <2>7 DEF TypeOK
  <2>9. WorkersBusy'
    BY <1>0, <2>1, <2>3 DEF WorkersBusy, TypeOK, WorkerState
  <2>10. CallsBusy' /\ ReplayPlaced' /\ MutexExclusive'
    BY <1>0, <2>1 DEF CallsBusy, ReplayPlaced, MutexExclusive, Holds, LaneAt
  <2>11. ReplayAtFrame'
    BY <1>0, <2>1, <2>5 DEF ReplayAtFrame, MutexFree, Holds, LaneAt, TypeOK
  <2>12. ColdProcess'
    BY <1>0, <2>1, <2>3 DEF ColdProcess
  <2>20. OneJobPerWaiter'
    <3>1. \A t \in Sources : t # s => worker'[t] = worker[t]
      BY <1>0, <2>1, <2>3 DEF TypeOK
    <3>2. /\ Answering(worker[s])
          /\ worker'[s].caller = worker[s].caller /\ worker'[s].rec = worker[s].rec
      BY <1>0, <2>1, <2>3 DEF TypeOK, WorkerState, Answering
    <3>3. \A t \in Sources : LaneJobs(jobs[t], worker'[t], call, t)
      BY <1>0, <3>1, <3>2, LaneJobsWork DEF OneJobPerWaiter
    <3> QED
      BY <2>1, <3>3 DEF OneJobPerWaiter
  <2> QED
    BY <2>8, <2>9, <2>10, <2>11, <2>12, <2>20 DEF Shape
<1>9. ASSUME NEW s \in Sources, WorkerAnswer(s) PROVE Shape'
  <2>1. /\ worker[s].st \in {"durable", "failed"}
        /\ worker' = [worker EXCEPT ![s].st = "releasing"]
        /\ UNCHANGED <<process, lanes, spool, replay, database, dbUp, checkpointed, budget>>
    BY <1>9 DEF WorkerAnswer
  <2>2. PICK pc \in {"acked", "refused"} : call' = [call EXCEPT ![worker[s].caller].pc = pc]
    BY <1>9 DEF WorkerAnswer
  <2>3. worker[s].rec \in Records /\ worker[s].caller \in Callers
    BY <1>0, <2>1 DEF WorkersBusy
  <2>4. call' \in [Callers -> CallState]
    BY <1>0, <2>2, <2>3, CallTyped DEF TypeOK
  <2>5. worker' \in [Sources -> WorkerState]
    BY <1>0, <2>1, WorkerTyped DEF TypeOK
  <2>6. acked' \subseteq Records
    BY <1>0, <1>9, <2>3 DEF TypeOK, WorkerAnswer
  <2>7. TypeOK'
    BY <1>0, <2>1, <2>4, <2>5, <2>6 DEF TypeOK
  <2>8. WorkersBusy'
    BY <1>0, <2>1 DEF WorkersBusy, TypeOK, WorkerState
  <2>9. CallsBusy'
    <3>1. \A c \in Callers : c # worker[s].caller => call'[c] = call[c]
      BY <1>0, <2>2 DEF TypeOK
    <3>2. call[worker[s].caller].pc # "idle" => call'[worker[s].caller].rec \in Records
      BY <1>0, <2>2, <2>3 DEF CallsBusy, TypeOK, CallState
    <3>3. call[worker[s].caller].pc # "idle"
      BY <1>0, <2>1 DEF OneJobPerWaiter, LaneJobs, Answering, WaitsIn
    <3> QED
      BY <1>0, <3>1, <3>2, <3>3 DEF CallsBusy
  <2>10. ReplayPlaced' /\ ReplayAtFrame' /\ MutexExclusive'
    BY <1>0, <2>1 DEF ReplayPlaced, ReplayAtFrame, MutexExclusive, Holds, LaneAt
  <2>11. ColdProcess'
    BY <1>0, <2>1 DEF ColdProcess
  <2>20. OneJobPerWaiter'
    <3> SUFFICES ASSUME NEW t \in Sources PROVE LaneJobs(jobs[t], worker'[t], call', t)
      BY <2>1 DEF OneJobPerWaiter
    <3>1. \A d \in Callers : d # worker[s].caller => call'[d] = call[d]
      BY <1>0, <2>2 DEF TypeOK
    <3>2. Answering(worker[s]) /\ ~Answering(worker'[s])
      BY <1>0, <2>1 DEF TypeOK, WorkerState, Answering
    <3>3. jobs[t] \in Seq(Job) /\ LaneJobs(jobs[t], worker[t], call, t)
      BY <1>0 DEF TypeOK, OneJobPerWaiter
    <3>4. CASE t = s
      BY <3>1, <3>2, <3>3, <3>4, LaneJobsAnswer
    <3>5. CASE t # s
      <4>1. worker'[t] = worker[t]
        BY <1>0, <2>1, <3>5 DEF TypeOK
      <4>2. Answering(worker[t]) => worker[t].caller \in Callers
        BY <1>0 DEF WorkersBusy, Answering
      <4>3. LaneOf[call[worker[s].caller].rec] = s
        BY <1>0, <3>2 DEF OneJobPerWaiter, LaneJobs, WaitsIn
      <4>4. \A d \in Callers : call[d].pc = "waiting" /\ LaneOf[call[d].rec] = t => call'[d] = call[d]
        BY <3>1, <3>5, <4>3
      <4> QED
        BY <3>3, <4>1, <4>2, <4>4, LaneJobsFrame
    <3> QED
      BY <3>4, <3>5
  <2> QED
    BY <2>7, <2>8, <2>9, <2>10, <2>11, <2>20 DEF Shape
<1>10. ASSUME NEW s \in Sources, WorkerRelease(s) PROVE Shape'
  <2> USE <1>10 DEF WorkerRelease, Release
  <2>1. worker' \in [Sources -> WorkerState]
    BY <1>0, WorkerTyped DEF TypeOK
  <2>2. inUse' \in [Sources -> Int] /\ outstanding' \in Int
    BY <1>0, SlotsTyped DEF TypeOK
  <2>3. TypeOK'
    BY <1>0, <2>1, <2>2 DEF TypeOK
  <2>4. CallsBusy' /\ WorkersBusy'
    BY <1>0 DEF CallsBusy, WorkersBusy, TypeOK, IdleWorker
  <2>5. ReplayPlaced' /\ ReplayAtFrame' /\ MutexExclusive'
    BY <1>0 DEF ReplayPlaced, ReplayAtFrame, MutexExclusive, Holds, LaneAt
  <2>6. ColdProcess'
    BY <1>0 DEF ColdProcess, IdleWorker
  <2>20. OneJobPerWaiter'
    <3>1. \A t \in Sources : t # s => worker'[t] = worker[t]
      BY <1>0 DEF TypeOK
    <3>2. ~Answering(worker'[s])
      BY <1>0 DEF TypeOK, IdleWorker, Answering
    <3>3. \A t \in Sources : ~Answering(worker'[t]) \/ worker'[t] = worker[t]
      BY <3>1, <3>2
    <3>4. \A t \in Sources : LaneJobs(jobs[t], worker'[t], call, t)
      <4> HIDE <1>10
      <4> QED
        BY <1>0, <3>3, LaneJobsWork DEF OneJobPerWaiter
    <3> QED
      BY <3>4 DEF OneJobPerWaiter
  <2> QED
    BY <2>3, <2>4, <2>5, <2>6, <2>20 DEF Shape
<1>11. ASSUME NEW p \in Replayers, ReplayBegin(p) PROVE Shape'
  <2>1. /\ replay' = [replay EXCEPT ![p] = FirstLane]
        /\ phase \in Listening
        /\ UNCHANGED <<process, call, lanes, worker, spool, database, dbUp, history, budget>>
    BY <1>11 DEF ReplayBegin, Listening
  <2>2. FirstLane \in ReplayState /\ FirstLane.st = "opening" /\ FirstLane.at \in 1 .. Len(LaneOrder)
    BY FirstLaneExists DEF FirstLane, ReplayState
  <2> QED
    BY <1>0, <2>1, <2>2, PlaceShape DEF Holding, Listening, Shape, TypeOK
<1>12. ASSUME NEW p \in Replayers, ReplayOpen(p) PROVE Shape'
  <2>1. /\ replay[p].st = "opening" /\ MutexFree(LaneAt(p))
        /\ UNCHANGED <<spool, database, dbUp, history, stops, outages>>
    BY <1>12 DEF ReplayOpen
  <2>2. spool' \in [Sources -> SpoolFile] /\ faults' \in Nat /\ facts' \subseteq Records
        /\ settled' \subseteq facts'
    BY <1>0, <1>12, <2>1 DEF ReplayOpen, Fault, TypeOK
  <2>3. CASE NextLane(p)
    BY <2>1, <2>2, <2>3, NextLaneStep
  <2>4. CASE ReplayAbort(p)
    BY <2>1, <2>2, <2>4, AbortStep
  <2>5. CASE /\ spool[LaneAt(p)].frames # << >>
             /\ replay' = [replay EXCEPT ![p].st = "committing", ![p].pos = 1]
             /\ UNCHANGED <<process, call, lanes, worker>>
    <3> DEFINE x == [st |-> "committing", at |-> replay[p].at, pos |-> 1]
    <3>1. replay[p] \in ReplayState /\ replay[p].at \in 1 .. Len(LaneOrder)
      BY <1>0, <2>1 DEF TypeOK, ReplayPlaced
    <3>2. x \in ReplayState /\ x.st = "committing" /\ x.at = replay[p].at /\ x.pos = 1
      BY <3>1 DEF ReplayState
    <3>3. replay' = [replay EXCEPT ![p] = x]
      BY <1>0, <2>5, ReplayMoved DEF TypeOK
    <3>4. x.pos \in 1 .. Len(spool[LaneOrder[x.at]].frames)
      <4>1. spool[LaneAt(p)].frames \in Seq(Frame)
        BY <1>0, <3>1, LaneInSources DEF TypeOK, LaneAt, SpoolFile
      <4>2. Len(spool[LaneAt(p)].frames) \in Nat \ {0}
        BY <2>5, <4>1, EmptySeq
      <4> QED
        BY <3>2, <4>2 DEF LaneAt
    <3>5. \A q \in Replayers \ {p} : ~Holds(q, LaneOrder[x.at])
      BY <2>1, <3>2 DEF MutexFree, LaneAt
    <3> HIDE DEF x
    <3>6. phase \in {"down", "starting"} =>
            phase = "starting" /\ p = Scheduler /\ \A q \in Replayers \ {p} : replay[q].st = "idle"
      BY <2>1, ReplayAlone
    <3>7. /\ phase' = phase /\ call' = call /\ inUse' = inUse /\ outstanding' = outstanding
          /\ jobs' = jobs /\ worker' = worker /\ spool' = spool /\ acked' = acked
          /\ checkpointed' = checkpointed
      BY <2>1, <2>5
    <3>8. /\ phase' \in Phases /\ accepting' \in BOOLEAN /\ laneOpen' \in BOOLEAN
          /\ dbUp' \in BOOLEAN /\ stops' \in Nat /\ outages' \in Nat
      BY <1>0, <2>1, <2>5 DEF TypeOK
    <3> QED
      BY <2>2, <3>1, <3>2, <3>3, <3>4, <3>5, <3>6, <3>7, <3>8, PlaceShape
  <2> QED
    BY <1>12, <2>3, <2>4, <2>5 DEF ReplayOpen
<1>13. ASSUME NEW p \in Replayers, ReplayLine(p) PROVE Shape'
  <2> DEFINE frames == spool[LaneAt(p)].frames
             frame == frames[replay[p].pos]
  <2>1. /\ replay[p].st = "committing"
        /\ UNCHANGED <<spool, dbUp, history, budget>>
    BY <1>13 DEF ReplayLine
  <2>2. /\ replay[p] \in ReplayState /\ replay[p].at \in 1 .. Len(LaneOrder)
        /\ replay[p].pos \in 1 .. Len(frames)
    BY <1>0, <2>1 DEF TypeOK, ReplayPlaced, ReplayAtFrame
  <2>3. frames \in Seq(Frame) /\ Len(frames) \in Nat
    BY <1>0, <2>2, LaneInSources DEF TypeOK, LaneAt, SpoolFile
  <2>4. frame.rec \in Records
    <3>1. frame \in Frame
      BY <2>2, <2>3, ElementOfSeq
    <3> QED
      BY <3>1 DEF Frame
  <2>5. facts' \subseteq Records /\ settled' \subseteq facts'
    BY <1>0, <1>13, <2>4 DEF ReplayLine, Persist, TypeOK
  <2>6. spool' \in [Sources -> SpoolFile] /\ faults' \in Nat
    BY <1>0, <2>1 DEF TypeOK
  <2>7. CASE ReplayAbort(p)
    BY <2>1, <2>5, <2>6, <2>7, AbortStep
  <2>8. CASE /\ replay' = IF replay[p].pos < Len(frames)
                            THEN [replay EXCEPT ![p].pos = @ + 1]
                            ELSE [replay EXCEPT ![p].st = "draining"]
             /\ UNCHANGED <<process, call, lanes, worker>>
    <3>1. PICK x \in ReplayState :
            /\ replay' = [replay EXCEPT ![p] = x]
            /\ x.st \in {"committing", "draining"} /\ x.at = replay[p].at
            /\ x.st = "committing" => x.pos \in 1 .. Len(frames)
      <4>1. CASE replay[p].pos < Len(frames)
        <5> DEFINE y == [st |-> "committing", at |-> replay[p].at, pos |-> replay[p].pos + 1]
        <5>a. replay' = [replay EXCEPT ![p].pos = @ + 1]
          BY <2>8, <4>1
        <5>1. replay' = [replay EXCEPT ![p] = y]
          BY <1>0, <2>1, <5>a, ReplayMoved DEF TypeOK
        <5>2. y \in ReplayState /\ y.pos \in 1 .. Len(frames)
          BY <2>2, <2>3, <4>1 DEF ReplayState
        <5> QED
          BY <5>1, <5>2
      <4>2. CASE ~(replay[p].pos < Len(frames))
        <5> DEFINE y == [st |-> "draining", at |-> replay[p].at, pos |-> replay[p].pos]
        <5>a. replay' = [replay EXCEPT ![p].st = "draining"]
          BY <2>8, <4>2
        <5>1. replay' = [replay EXCEPT ![p] = y]
          BY <1>0, <5>a, ReplayMoved DEF TypeOK
        <5>2. y \in ReplayState
          BY <2>2 DEF ReplayState
        <5> QED
          BY <5>1, <5>2
      <4> QED
        BY <4>1, <4>2
    <3>2. \A q \in Replayers \ {p} : ~Holds(q, LaneOrder[x.at])
      BY <1>0, <2>1, <2>2, <3>1, LaneInSources DEF MutexExclusive, Holds, LaneAt
    <3>3. phase \in {"down", "starting"} =>
            phase = "starting" /\ p = Scheduler /\ \A q \in Replayers \ {p} : replay[q].st = "idle"
      BY <2>1, ReplayAlone
    <3>4. x.st = "committing" => x.pos \in 1 .. Len(spool'[LaneOrder[x.at]].frames)
      BY <2>1, <3>1 DEF LaneAt
    <3>5. /\ UNCHANGED <<process, call, lanes, worker>>
          /\ dbUp' \in BOOLEAN /\ stops' \in Nat /\ outages' \in Nat
          /\ accepting' \in BOOLEAN /\ laneOpen' \in BOOLEAN /\ phase' \in Phases
      BY <1>0, <2>1, <2>8 DEF TypeOK
    <3> QED
      BY <1>0, <2>1, <2>2, <2>5, <2>6, <3>1, <3>2, <3>3, <3>4, <3>5, PlaceShape
  <2> QED
    BY <1>13, <2>7, <2>8 DEF ReplayLine
<1>14. ASSUME NEW p \in Replayers, ReplayDrain(p) PROVE Shape'
  <2> DEFINE s == LaneAt(p)
  <2>1. /\ replay[p].st = "draining"
        /\ UNCHANGED <<database, dbUp, history, stops, outages>>
    BY <1>14 DEF ReplayDrain
  <2>2. replay[p] \in ReplayState /\ replay[p].at \in 1 .. Len(LaneOrder) /\ s \in Sources
    BY <1>0, <2>1, LaneInSources DEF TypeOK, ReplayPlaced, LaneAt
  <2>3. faults' \in Nat /\ facts' \subseteq Records /\ settled' \subseteq facts'
    BY <1>0, <1>14, <2>1 DEF ReplayDrain, Fault, TypeOK
  <2>4. CASE ReplayAbort(p) /\ spool' = spool
    BY <1>0, <2>1, <2>3, <2>4, AbortStep DEF TypeOK
  <2>5. CASE /\ spool' = [spool EXCEPT ![s] = DrainCreated(@)]
             /\ replay' = [replay EXCEPT ![p].st = "renaming"]
             /\ UNCHANGED <<process, call, lanes, worker, faults>>
    <3> DEFINE x == [st |-> "renaming", at |-> replay[p].at, pos |-> replay[p].pos]
    <3>1. x \in ReplayState /\ x.st = "renaming" /\ x.at = replay[p].at
      BY <2>2 DEF ReplayState
    <3>2. replay' = [replay EXCEPT ![p] = x]
      BY <1>0, <2>5, ReplayMoved DEF TypeOK
    <3>3. spool' \in [Sources -> SpoolFile]
      BY <1>0, <2>2, <2>5 DEF TypeOK, SpoolFile, DrainCreated
    <3>4. \A t \in Sources : spool'[t].frames = spool[t].frames
      BY <1>0, <2>2, <2>5 DEF TypeOK, SpoolFile, DrainCreated
    <3>5. \A q \in Replayers \ {p} : replay[q].st = "committing" =>
            Len(spool'[LaneAt(q)].frames) = Len(spool[LaneAt(q)].frames)
      BY <1>0, <3>4, LaneInSources DEF ReplayPlaced, LaneAt
    <3>6. \A q \in Replayers \ {p} : ~Holds(q, LaneOrder[x.at])
      BY <1>0, <2>1, <2>2, <3>1, LaneInSources DEF MutexExclusive, Holds, LaneAt
    <3>7. phase \in {"down", "starting"} =>
            phase = "starting" /\ p = Scheduler /\ \A q \in Replayers \ {p} : replay[q].st = "idle"
      BY <2>1, ReplayAlone
    <3> HIDE DEF x
    <3> QED
      BY <1>0, <2>1, <2>2, <2>3, <2>5, <3>1, <3>2, <3>3, <3>5, <3>6, <3>7, PlaceShape
      DEF TypeOK
  <2> QED
    BY <1>14, <2>4, <2>5 DEF ReplayDrain
<1>15. ASSUME NEW p \in Replayers, ReplayRename(p) PROVE Shape'
  <2> DEFINE s == LaneAt(p)
  <2>1. /\ replay[p].st = "renaming"
        /\ UNCHANGED <<database, dbUp, history, stops, outages>>
    BY <1>15 DEF ReplayRename
  <2>2. replay[p].at \in 1 .. Len(LaneOrder) /\ s \in Sources /\ Holds(p, s)
    BY <1>0, <2>1, LaneInSources DEF ReplayPlaced, LaneAt, Holds
  <2>3. faults' \in Nat /\ facts' \subseteq Records /\ settled' \subseteq facts'
    BY <1>0, <1>15, <2>1 DEF ReplayRename, Fault, TypeOK
  <2>4. spool' = spool \/ spool' = [spool EXCEPT ![s] = EmptySpool]
    BY <1>15 DEF ReplayRename, DrainRenamed
  <2>5. EmptySpool \in SpoolFile
    BY DEF EmptySpool, SpoolFile
  <2>6. spool' \in [Sources -> SpoolFile]
    BY <1>0, <2>4, <2>5 DEF TypeOK
  <2>7. \A q \in Replayers \ {p} : replay[q].st = "committing" =>
          Len(spool'[LaneAt(q)].frames) = Len(spool[LaneAt(q)].frames)
    <3>1. \A q \in Replayers \ {p} : replay[q].st = "committing" =>
            LaneAt(q) \in Sources /\ LaneAt(q) # s
      BY <1>0, <2>2, LaneInSources DEF ReplayPlaced, MutexExclusive, Holds, LaneAt
    <3> QED
      BY <1>0, <2>4, <3>1 DEF TypeOK
  <2>8. CASE NextLane(p)
    BY <2>1, <2>3, <2>6, <2>7, <2>8, NextLaneStep
  <2>9. CASE ReplayAbort(p)
    BY <2>1, <2>3, <2>6, <2>7, <2>9, AbortStep
  <2> QED
    BY <1>15, <2>8, <2>9 DEF ReplayRename
<1>16. ASSUME Start PROVE Shape'
  <2> USE <1>16 DEF Start
  <2>1. FirstLane \in ReplayState /\ FirstLane.st = "opening" /\ FirstLane.at \in 1 .. Len(LaneOrder)
    BY FirstLaneExists DEF FirstLane, ReplayState
  <2>2. \A q \in Replayers : replay[q].st = "idle"
    BY <1>0 DEF ColdProcess
  <2>3. phase' = "starting" /\ phase' \in Phases /\ accepting' \in BOOLEAN /\ laneOpen' \in BOOLEAN
    BY DEF Phases
  <2>4. Scheduler \in Replayers
    BY ProcessAssumption
  <2>5. UNCHANGED <<call, lanes, worker, spool, database, dbUp, history, budget>>
        /\ replay' = [replay EXCEPT ![Scheduler] = FirstLane] /\ phase = "down"
    OBVIOUS
  <2> HIDE <1>16
  <2> QED
    BY <1>0, <2>1, <2>2, <2>3, <2>4, <2>5, PlaceShape DEF Holding, TypeOK
<1>17. ASSUME Crash PROVE Shape'
  <2>1. ProcessGone /\ UNCHANGED <<database, dbUp, history, faults, outages>>
    BY <1>17 DEF Crash
  <2>2. stops' \in Nat
    BY <1>0, <1>17 DEF Crash, Stop, TypeOK
  <2>3. spool' \in [Sources -> SpoolFile]
    BY <1>0, <1>17, CrashedFiles
  <2> QED
    BY <1>0, <2>1, <2>2, <2>3, GoneStep DEF TypeOK
<1>18. ASSUME StopAccepting PROVE Shape'
  <2>1. stops' \in Nat
    BY <1>0, <1>18 DEF StopAccepting, Stop, TypeOK
  <2> QED
    BY <1>0, <1>18, <2>1, PhaseStep DEF StopAccepting, Phases, TypeOK
<1>19. ASSUME DrainDone PROVE Shape'
  BY <1>0, <1>19, PhaseStep DEF DrainDone, Phases, TypeOK
<1>20. ASSUME DrainTimeout PROVE Shape'
  BY <1>0, <1>20, PhaseStep DEF DrainTimeout, Phases, TypeOK
<1>21. ASSUME Exit PROVE Shape'
  BY <1>0, <1>21, GoneStep DEF Exit, TypeOK
<1>22. ASSUME DatabaseFails PROVE Shape'
  <2>1. outages' \in Nat
    BY <1>0, <1>22 DEF DatabaseFails, TypeOK
  <2> QED
    BY <1>0, <1>22, <2>1, PhaseStep DEF DatabaseFails, TypeOK
<1>23. ASSUME DatabaseRecovers PROVE Shape'
  BY <1>0, <1>23, PhaseStep DEF DatabaseRecovers, TypeOK
<1>24. CASE UNCHANGED vars
  BY <1>0, <1>24, PhaseStep DEF vars, TypeOK
<1> QED
  BY <1>1, <1>2, <1>3, <1>4, <1>5, <1>6, <1>7, <1>8, <1>9, <1>10, <1>11, <1>12, <1>13,
     <1>14, <1>15, <1>16, <1>17, <1>18, <1>19, <1>20, <1>21, <1>22, <1>23, <1>24
  DEF Next, CallerStep, WorkerStep, ReplayStep, ProcessStep

THEOREM TypeCorrect == Spec => []TypeOK
<1>1. Shape => TypeOK
  BY DEF Shape
<1> QED
  BY <1>1, InitShape, ShapeStep, PTL DEF Spec

THEOREM AnswersReachTheirCaller == Spec => []OneJobPerWaiter
<1>1. Shape => OneJobPerWaiter
  BY DEF Shape
<1> QED
  BY <1>1, InitShape, ShapeStep, PTL DEF Spec
-----------------------------------------------------------------------------
(* AckedRetained, when a failed write leaves no prefix in the file.        *)

Retained == settled \cup AllSpooled

\* Lines a replay has passed are complete; so is a file it drains.
ReplayedSettled ==
  \A p \in Replayers :
    LET frames == spool[LaneAt(p)].frames IN
    /\ replay[p].st = "committing" =>
         \A i \in 1 .. Len(frames) : i < replay[p].pos => frames[i].rec \in settled
    /\ replay[p].st \in {"draining", "renaming"} =>
         \A i \in 1 .. Len(frames) : frames[i].rec \in settled

DurableRetained ==
  \A s \in Sources : worker[s].st = "durable" => worker[s].rec \in Retained

AckedCalls == \A c \in Callers : call[c].pc = "acked" => call[c].rec \in acked

TornHasFrame == \A s \in Sources : spool[s].open => spool[s].frames # << >>

\* No torn frame in the lanes the startup replay has passed, or while serving.
PassedWhole ==
  /\ ServingFramesWhole
  /\ phase = "starting" =>
       \A i \in 1 .. Len(LaneOrder) :
         i < replay[Scheduler].at => ~Undecodable(spool[LaneOrder[i]])

RetainedInv ==
  /\ Shape
  /\ ReplayedSettled
  /\ DurableRetained
  /\ AckedRetained
  /\ AckedCalls
  /\ TornHasFrame
  /\ PassedWhole
  /\ checkpointed \subseteq acked

-----------------------------------------------------------------------------
(* Which steps touch what.                                                 *)

LEMMA CallerFrame ==
  ASSUME NEW c \in Callers, CallerStep(c)
  PROVE  UNCHANGED <<phase, worker, spool, replay, facts, settled, acked>>
<1> USE DEF process, lanes, database, history, budget
<1>1. ASSUME NEW r \in Records, Reserve(c, r) \/ Refuse(c, r)
      PROVE  UNCHANGED <<phase, worker, spool, replay, facts, settled, acked>>
  BY <1>1 DEF Reserve, Refuse
<1>2. CASE Commit(c)
  BY <1>2 DEF Commit
<1>3. CASE Cancel(c)
  BY <1>3 DEF Cancel
<1>4. CASE Return(c)
  BY <1>4 DEF Return
<1> QED
  BY <1>1, <1>2, <1>3, <1>4 DEF CallerStep

LEMMA WorkerFrame ==
  ASSUME NEW s \in Sources, WorkerStep(s)
  PROVE  UNCHANGED <<phase, replay, checkpointed>>
<1> USE DEF process, lanes, database, history, budget
<1>1. CASE WorkerTake(s)
  BY <1>1 DEF WorkerTake
<1>2. CASE WorkerPersist(s)
  BY <1>2 DEF WorkerPersist
<1>3. CASE WorkerSpool(s)
  BY <1>3 DEF WorkerSpool
<1>4. CASE WorkerAnswer(s)
  BY <1>4 DEF WorkerAnswer
<1>5. CASE WorkerRelease(s)
  BY <1>5 DEF WorkerRelease
<1> QED
  BY <1>1, <1>2, <1>3, <1>4, <1>5 DEF WorkerStep

LEMMA ReplayFrame ==
  ASSUME NEW p \in Replayers, ReplayStep(p)
  PROVE  /\ UNCHANGED <<acked, checkpointed>>
         /\ \/ phase' = "down" /\ ProcessGone
            \/ UNCHANGED <<call, worker>>
<1> USE DEF process, lanes, database, history, budget
<1>1. CASE ReplayBegin(p)
  BY <1>1 DEF ReplayBegin
<1>2. CASE ReplayOpen(p)
  BY <1>2 DEF ReplayOpen, NextLane, ReplayAbort, ProcessGone
<1>3. CASE ReplayLine(p)
  BY <1>3 DEF ReplayLine, ReplayAbort, ProcessGone
<1>4. CASE ReplayDrain(p)
  BY <1>4 DEF ReplayDrain, ReplayAbort, ProcessGone
<1>5. CASE ReplayRename(p)
  BY <1>5 DEF ReplayRename, NextLane, ReplayAbort, ProcessGone
<1> QED
  BY <1>1, <1>2, <1>3, <1>4, <1>5 DEF ReplayStep

LEMMA ProcessFrame ==
  ASSUME ProcessStep \/ DatabaseFails \/ DatabaseRecovers \/ UNCHANGED vars
  PROVE  /\ UNCHANGED <<facts, settled, acked, checkpointed>>
         /\ Crash \/ UNCHANGED spool
         /\ \/ phase' = "down" /\ ProcessGone
            \/ UNCHANGED <<call, worker>>
<1> USE DEF process, lanes, database, history, budget
<1>1. CASE Start
  BY <1>1 DEF Start
<1>2. CASE Crash
  BY <1>2 DEF Crash, ProcessGone
<1>3. CASE Exit
  BY <1>3 DEF Exit, ProcessGone
<1>4. CASE StopAccepting \/ DrainDone \/ DrainTimeout
  BY <1>4 DEF StopAccepting, DrainDone, DrainTimeout
<1>5. CASE DatabaseFails \/ DatabaseRecovers \/ UNCHANGED vars
  BY <1>5 DEF DatabaseFails, DatabaseRecovers, vars
<1> QED
  BY <1>1, <1>2, <1>3, <1>4, <1>5 DEF ProcessStep

LEMMA SettledGrows == TypeOK /\ [Next]_vars => settled \subseteq settled'
<1> SUFFICES ASSUME TypeOK, [Next]_vars PROVE settled \subseteq settled'
  OBVIOUS
<1> USE DEF process, lanes, database, history, budget
<1>1. ASSUME NEW c \in Callers, CallerStep(c) PROVE settled \subseteq settled'
  BY <1>1, CallerFrame
<1>2. ASSUME NEW s \in Sources, WorkerStep(s) PROVE settled \subseteq settled'
  <2>1. CASE WorkerPersist(s)
    BY <2>1 DEF WorkerPersist, Persist
  <2>2. CASE WorkerTake(s) \/ WorkerSpool(s) \/ WorkerAnswer(s) \/ WorkerRelease(s)
    BY <2>2 DEF WorkerTake, WorkerSpool, WorkerAnswer, WorkerRelease
  <2> QED
    BY <1>2, <2>1, <2>2 DEF WorkerStep
<1>3. ASSUME NEW p \in Replayers, ReplayStep(p) PROVE settled \subseteq settled'
  <2>1. CASE ReplayLine(p)
    BY <2>1 DEF ReplayLine, Persist
  <2>2. CASE ReplayBegin(p) \/ ReplayOpen(p) \/ ReplayDrain(p) \/ ReplayRename(p)
    BY <2>2 DEF ReplayBegin, ReplayOpen, ReplayDrain, ReplayRename
  <2> QED
    BY <1>3, <2>1, <2>2 DEF ReplayStep
<1>4. CASE ProcessStep \/ DatabaseFails \/ DatabaseRecovers \/ UNCHANGED vars
  BY <1>4, ProcessFrame
<1> QED
  BY <1>1, <1>2, <1>3, <1>4 DEF Next

\* Everything that can happen to the file of one lane in one step.
FileStep(s) ==
  \/ spool'[s] = spool[s]
  \/ /\ worker[s].st = "spooling" /\ MutexFree(s)
     /\ spool'[s] = Appended(spool[s], worker[s].rec)
  \/ /\ worker[s].st = "spooling" /\ MutexFree(s) /\ phase' = "down"
     /\ spool'[s] = TornAppended(spool[s], worker[s].rec)
  \/ \E p \in Replayers : /\ Holds(p, s) /\ replay[p].st = "draining"
                          /\ spool'[s] = DrainCreated(spool[s])
  \/ \E p \in Replayers : /\ Holds(p, s) /\ replay[p].st = "renaming"
                          /\ spool'[s] = EmptySpool

LEMMA FileSteps ==
  ASSUME ~WriteFaults, TypeOK, [Next]_vars, NEW t \in Sources
  PROVE  FileStep(t)
<1> USE DEF process, lanes, database, history, budget
<1>1. ASSUME NEW c \in Callers, CallerStep(c) PROVE FileStep(t)
  BY <1>1, CallerFrame DEF FileStep
<1>2. ASSUME NEW s \in Sources, WorkerStep(s) PROVE FileStep(t)
  <2>1. CASE WorkerSpool(s)
    <3>1. \/ spool' = spool
          \/ spool' = [spool EXCEPT ![s] = Appended(spool[s], worker[s].rec)]
      BY <2>1 DEF WorkerSpool, AppendOK, AppendFull, AppendFails
    <3>2. worker[s].st = "spooling" /\ MutexFree(s)
      BY <2>1 DEF WorkerSpool
    <3> QED
      BY <3>1, <3>2 DEF FileStep, TypeOK
  <2>2. CASE WorkerTake(s) \/ WorkerPersist(s) \/ WorkerAnswer(s) \/ WorkerRelease(s)
    BY <2>2 DEF WorkerTake, WorkerPersist, WorkerAnswer, WorkerRelease, FileStep
  <2> QED
    BY <1>2, <2>1, <2>2 DEF WorkerStep
<1>3. ASSUME NEW p \in Replayers, ReplayStep(p) PROVE FileStep(t)
  <2>1. CASE ReplayDrain(p)
    <3>1. replay[p].st = "draining"
      BY <2>1 DEF ReplayDrain
    <3>2. \/ spool' = spool
          \/ spool' = [spool EXCEPT ![LaneAt(p)] = DrainCreated(spool[LaneAt(p)])]
      BY <2>1 DEF ReplayDrain
    <3>3. t = LaneAt(p) => Holds(p, t)
      BY <3>1 DEF Holds
    <3> QED
      BY <3>1, <3>2, <3>3 DEF FileStep, TypeOK
  <2>2. CASE ReplayRename(p)
    <3>1. replay[p].st = "renaming"
      BY <2>2 DEF ReplayRename
    <3>2. \/ spool' = spool
          \/ spool' = [spool EXCEPT ![LaneAt(p)] = EmptySpool]
      BY <2>2 DEF ReplayRename, DrainRenamed
    <3>3. t = LaneAt(p) => Holds(p, t)
      BY <3>1 DEF Holds
    <3> QED
      BY <3>1, <3>2, <3>3 DEF FileStep, TypeOK
  <2>3. CASE ReplayBegin(p) \/ ReplayOpen(p) \/ ReplayLine(p)
    BY <2>3 DEF ReplayBegin, ReplayOpen, ReplayLine, FileStep
  <2> QED
    BY <1>3, <2>1, <2>2, <2>3 DEF ReplayStep
<1>4. CASE ProcessStep \/ DatabaseFails \/ DatabaseRecovers \/ UNCHANGED vars
  <2>1. CASE UNCHANGED spool
    BY <2>1 DEF FileStep
  <2>2. CASE Crash
    BY <2>2 DEF Crash, ProcessGone, FileStep
  <2> QED
    BY <1>4, <2>1, <2>2, ProcessFrame
<1> QED
  BY <1>1, <1>2, <1>3, <1>4 DEF Next

\* Nothing retained is ever given up: a file is emptied only when every record
\* in it is complete.
LEMMA RetainedGrows ==
  ASSUME ~WriteFaults, Shape, ReplayedSettled, [Next]_vars
  PROVE  Retained \subseteq Retained'
<1>1. settled \subseteq settled'
  BY SettledGrows DEF Shape
<1>2. ASSUME NEW s \in Sources PROVE Spooled(spool[s]) \subseteq Spooled(spool'[s]) \cup settled'
  <2>1. spool[s] \in SpoolFile /\ (worker[s].st = "spooling" => worker[s].rec \in Records)
    BY DEF Shape, TypeOK, WorkersBusy
  <2>2. FileStep(s)
    BY FileSteps DEF Shape
  <2>3. CASE /\ worker[s].st = "spooling"
             /\ \/ spool'[s] = Appended(spool[s], worker[s].rec)
                \/ spool'[s] = TornAppended(spool[s], worker[s].rec)
    BY <2>1, <2>3, AppendedFile, TornFile
  <2>4. CASE spool'[s] = DrainCreated(spool[s])
    BY <2>1, <2>4 DEF DrainCreated, Spooled, SpoolFile
  <2>5. ASSUME NEW p \in Replayers, Holds(p, s), replay[p].st = "renaming"
        PROVE  Spooled(spool[s]) \subseteq settled'
    <3>1. \A i \in 1 .. Len(spool[s].frames) : spool[s].frames[i].rec \in settled
      BY <2>5 DEF ReplayedSettled, Holds
    <3> QED
      BY <1>1, <3>1 DEF Spooled
  <2> QED
    BY <2>2, <2>3, <2>4, <2>5 DEF FileStep
<1> QED
  BY <1>1, <1>2 DEF Retained, AllSpooled

-----------------------------------------------------------------------------
(* How one step can move a replayer, a worker, a caller and the listeners. *)
ReplayMove(p) ==
  \/ replay'[p] = replay[p]
  \/ replay'[p].st \in {"idle", "opening"}
  \/ replay'[p].st = "committing" /\ replay'[p].pos = 1
  \/ /\ replay[p].st = "committing" /\ replay'[p].at = replay[p].at
     /\ spool[LaneAt(p)].frames[replay[p].pos].rec \in settled'
     /\ \/ replay'[p].st = "committing" /\ replay'[p].pos = replay[p].pos + 1
        \/ /\ replay'[p].st = "draining"
           /\ ~(replay[p].pos < Len(spool[LaneAt(p)].frames))
  \/ /\ replay[p].st = "draining" /\ replay'[p].st = "renaming"
     /\ replay'[p].at = replay[p].at

LEMMA AbortMove ==
  ASSUME TypeOK, NEW q \in Replayers, ReplayAbort(q), NEW p \in Replayers
  PROVE  replay'[p] = replay[p] \/ replay'[p].st = "idle"
  BY DEF ReplayAbort, ProcessGone, IdleReplay, TypeOK

LEMMA NextLaneMove ==
  ASSUME TypeOK, NEW q \in Replayers, NextLane(q), NEW p \in Replayers
  PROVE  replay'[p] = replay[p] \/ replay'[p].st \in {"idle", "opening"}
  BY DEF NextLane, IdleReplay, TypeOK

LEMMA ReplayMoves ==
  ASSUME TypeOK, [Next]_vars, NEW p \in Replayers
  PROVE  ReplayMove(p)
<1> USE DEF process, lanes, database, history, budget
<1>0. replay \in [Replayers -> ReplayState]
  BY DEF TypeOK
<1>1. ASSUME NEW c \in Callers, CallerStep(c) PROVE ReplayMove(p)
  BY <1>1, CallerFrame DEF ReplayMove
<1>2. ASSUME NEW s \in Sources, WorkerStep(s) PROVE ReplayMove(p)
  BY <1>2, WorkerFrame DEF ReplayMove
<1>3. ASSUME NEW q \in Replayers, ReplayStep(q) PROVE ReplayMove(p)
  <2>1. CASE ReplayBegin(q)
    BY <1>0, <2>1 DEF ReplayBegin, FirstLane, ReplayMove
  <2>2. CASE ReplayOpen(q)
    <3>1. CASE ReplayAbort(q)
      BY <3>1, AbortMove DEF ReplayMove
    <3>2. CASE NextLane(q)
      BY <3>2, NextLaneMove DEF ReplayMove
    <3>3. CASE replay' = [replay EXCEPT ![q].st = "committing", ![q].pos = 1]
      <4>1. replay' = [replay EXCEPT ![q] = [st |-> "committing", at |-> replay[q].at, pos |-> 1]]
        BY <1>0, <3>3, ReplayMoved
      <4>2. replay'[p] = IF p = q THEN [st |-> "committing", at |-> replay[q].at, pos |-> 1]
                                  ELSE replay[p]
        BY <1>0, <4>1
      <4> QED
        BY <4>2 DEF ReplayMove
    <3> QED
      BY <2>2, <3>1, <3>2, <3>3 DEF ReplayOpen
  <2>3. CASE ReplayLine(q)
    <3> DEFINE frames == spool[LaneAt(q)].frames
    <3>1. CASE ReplayAbort(q)
      BY <3>1, AbortMove DEF ReplayMove
    <3>2. CASE /\ frames[replay[q].pos].rec \in settled'
               /\ replay' = IF replay[q].pos < Len(frames)
                              THEN [replay EXCEPT ![q].pos = @ + 1]
                              ELSE [replay EXCEPT ![q].st = "draining"]
      <4>1. replay[q].st = "committing"
        BY <2>3 DEF ReplayLine
      <4>a. frames[replay[q].pos].rec \in settled'
        BY <3>2
      <4>2. CASE replay[q].pos < Len(frames)
        <5>a. replay' = [replay EXCEPT ![q].pos = @ + 1]
          BY <3>2, <4>2
        <5>1. replay' = [replay EXCEPT ![q] = [st |-> replay[q].st, at |-> replay[q].at,
                                               pos |-> replay[q].pos + 1]]
          BY <1>0, <5>a, ReplayMoved
        <5> QED
          BY <1>0, <4>1, <4>a, <5>1 DEF ReplayMove
      <4>3. CASE ~(replay[q].pos < Len(frames))
        <5>a. replay' = [replay EXCEPT ![q].st = "draining"]
          BY <3>2, <4>3
        <5>1. replay' = [replay EXCEPT ![q] = [st |-> "draining", at |-> replay[q].at,
                                               pos |-> replay[q].pos]]
          BY <1>0, <5>a, ReplayMoved
        <5>2. replay'[p] = IF p = q THEN [st |-> "draining", at |-> replay[q].at,
                                          pos |-> replay[q].pos]
                                    ELSE replay[p]
          BY <1>0, <5>1
        <5> QED
          BY <4>1, <4>a, <4>3, <5>2 DEF ReplayMove
      <4> QED
        BY <4>2, <4>3
    <3> QED
      BY <2>3, <3>1, <3>2 DEF ReplayLine, LineReplayed, Persist
  <2>4. CASE ReplayDrain(q)
    <3>1. CASE ReplayAbort(q)
      BY <3>1, AbortMove DEF ReplayMove
    <3>2. CASE replay' = [replay EXCEPT ![q].st = "renaming"]
      <4>1. replay[q].st = "draining"
        BY <2>4 DEF ReplayDrain
      <4>2. replay' = [replay EXCEPT ![q] = [st |-> "renaming", at |-> replay[q].at,
                                             pos |-> replay[q].pos]]
        BY <1>0, <3>2, ReplayMoved
      <4>3. replay'[p] = IF p = q THEN [st |-> "renaming", at |-> replay[q].at,
                                        pos |-> replay[q].pos]
                                  ELSE replay[p]
        BY <1>0, <4>2
      <4> QED
        BY <4>1, <4>3 DEF ReplayMove
    <3> QED
      BY <2>4, <3>1, <3>2 DEF ReplayDrain
  <2>5. CASE ReplayRename(q)
    BY <2>5, AbortMove, NextLaneMove DEF ReplayRename, ReplayMove
  <2> QED
    BY <1>3, <2>1, <2>2, <2>3, <2>4, <2>5 DEF ReplayStep
<1>4. CASE ProcessStep \/ DatabaseFails \/ DatabaseRecovers \/ UNCHANGED vars
  <2>1. CASE Start
    BY <1>0, <2>1 DEF Start, FirstLane, ReplayMove
  <2>2. CASE Crash \/ Exit
    BY <2>2 DEF Crash, Exit, ProcessGone, IdleReplay, ReplayMove
  <2>3. CASE StopAccepting \/ DrainDone \/ DrainTimeout \/ DatabaseFails
             \/ DatabaseRecovers \/ UNCHANGED vars
    BY <2>3 DEF StopAccepting, DrainDone, DrainTimeout, DatabaseFails, DatabaseRecovers,
                vars, ReplayMove
  <2> QED
    BY <1>4, <2>1, <2>2, <2>3 DEF ProcessStep
<1> QED
  BY <1>1, <1>2, <1>3, <1>4 DEF Next

\* A file whose mutex a replay holds keeps its frames or loses them all.
LEMMA HeldFile ==
  ASSUME NEW p \in Replayers, NEW s \in Sources, Holds(p, s), FileStep(s),
         spool[s] \in SpoolFile
  PROVE  spool'[s].frames = spool[s].frames \/ spool'[s].frames = << >>
  BY DEF FileStep, MutexFree, DrainCreated, EmptySpool, SpoolFile

LEMMA ReplayedSettledStep ==
  ASSUME ~WriteFaults, Shape, ReplayedSettled, [Next]_vars
  PROVE  ReplayedSettled'
<1> SUFFICES ASSUME NEW p \in Replayers,
                    replay'[p].st \in Holding
             PROVE  LET frames == spool'[LaneOrder[replay'[p].at]].frames IN
                    /\ replay'[p].st = "committing" =>
                         \A i \in 1 .. Len(frames) : i < replay'[p].pos => frames[i].rec \in settled'
                    /\ replay'[p].st \in {"draining", "renaming"} =>
                         \A i \in 1 .. Len(frames) : frames[i].rec \in settled'
  BY DEF ReplayedSettled, LaneAt, Holding
<1> DEFINE s == LaneAt(p)
<1>1. settled \subseteq settled'
  BY SettledGrows DEF Shape
<1>2. ReplayMove(p)
  BY ReplayMoves DEF Shape
<1>3. CASE replay'[p].st = "committing" /\ replay'[p].pos = 1
  BY <1>3
<1>4. CASE \/ replay'[p] = replay[p]
           \/ replay[p].st \in Holding /\ replay'[p].at = replay[p].at
  <2>1. replay[p].st \in Holding /\ replay'[p].at = replay[p].at
    BY <1>4
  <2>2. s \in Sources /\ Holds(p, s) /\ spool[s] \in SpoolFile
    <3>1. replay[p].at \in 1 .. Len(LaneOrder)
      BY <2>1 DEF Shape, ReplayPlaced, Holding
    <3>2. s \in Sources
      BY <3>1, LaneInSources DEF LaneAt
    <3> QED
      BY <2>1, <3>2 DEF Holds, Holding, Shape, TypeOK
  <2>3. spool'[s].frames = spool[s].frames \/ spool'[s].frames = << >>
    BY <2>2, FileSteps, HeldFile DEF Shape
  <2>4. LaneOrder[replay'[p].at] = s
    BY <2>1 DEF LaneAt
  <2>5. CASE spool'[s].frames = << >>
    BY <2>4, <2>5
  <2>6. CASE spool'[s].frames = spool[s].frames
    <3> DEFINE frames == spool[s].frames
    <3>1. /\ replay[p].st = "committing" =>
               \A i \in 1 .. Len(frames) : i < replay[p].pos => frames[i].rec \in settled'
          /\ replay[p].st \in {"draining", "renaming"} =>
               \A i \in 1 .. Len(frames) : frames[i].rec \in settled'
      BY <1>1 DEF ReplayedSettled
    <3>2. replay[p].st = "committing" =>
            /\ replay[p].pos \in 1 .. Len(frames)
            /\ replay[p].pos \in Nat /\ Len(frames) \in Nat
      <4>1. Len(frames) \in Nat
        BY <2>2 DEF SpoolFile
      <4> QED
        BY <4>1 DEF Shape, ReplayAtFrame
    <3>3. CASE replay'[p] = replay[p]
      BY <2>4, <2>6, <3>1, <3>3
    <3>4. CASE replay[p].st = "committing" /\ frames[replay[p].pos].rec \in settled'
      <4>1. \A i \in 1 .. Len(frames) : i < replay[p].pos + 1 => frames[i].rec \in settled'
        BY <3>1, <3>2, <3>4
      <4>2. ~(replay[p].pos < Len(frames)) =>
               \A i \in 1 .. Len(frames) : frames[i].rec \in settled'
        BY <3>2, <3>4, <4>1
      <4> HIDE DEF frames, s
      <4> QED
        BY <1>2, <1>3, <2>4, <2>6, <3>3, <3>4, <4>1, <4>2 DEF ReplayMove, Holding, frames, s
    <3> QED
      BY <1>2, <1>3, <2>4, <2>6, <3>1, <3>3, <3>4 DEF ReplayMove, Holding
  <2> QED
    BY <2>3, <2>5, <2>6
<1> QED
  BY <1>2, <1>3, <1>4 DEF ReplayMove, Holding

\* A worker holds a durable record because its persist or its append did.
WorkerMove(s) ==
  worker'[s].st = "durable" =>
    \/ worker[s].st = "durable" /\ worker'[s].rec = worker[s].rec
    \/ worker'[s].rec \in settled'
    \/ /\ worker[s].st = "spooling" /\ worker'[s].rec = worker[s].rec
       /\ spool'[s] = Appended(spool[s], worker[s].rec)

LEMMA WorkerMoves ==
  ASSUME TypeOK, [Next]_vars, NEW t \in Sources
  PROVE  WorkerMove(t)
<1> USE DEF process, lanes, database, history, budget
<1>0. worker \in [Sources -> WorkerState] /\ spool \in [Sources -> SpoolFile]
  BY DEF TypeOK
<1>1. CASE UNCHANGED worker
  BY <1>1 DEF WorkerMove
<1>2. CASE ProcessGone
  BY <1>2 DEF ProcessGone, IdleWorker, WorkerMove
<1>3. ASSUME NEW s \in Sources, WorkerStep(s) PROVE WorkerMove(t)
  <2>1. CASE WorkerTake(s)
    BY <1>0, <2>1 DEF WorkerTake, WorkerMove
  <2>2. CASE WorkerPersist(s)
    <3>1. PICK o \in SinkOutcomes(worker[s].rec) :
            /\ Persist(worker[s].rec, o)
            /\ worker' = [worker EXCEPT ![s].st =
                            IF o = "committed" THEN "durable" ELSE "spooling"]
      BY <2>2 DEF WorkerPersist
    <3>2. worker'[t].rec = worker[t].rec
      BY <1>0, <3>1 DEF WorkerState
    <3>3. worker'[t].st = IF t = s THEN IF o = "committed" THEN "durable" ELSE "spooling"
                                   ELSE worker[t].st
      BY <1>0, <3>1 DEF WorkerState
    <3>4. o = "committed" => worker[s].rec \in settled'
      BY <3>1 DEF Persist
    <3> QED
      BY <3>2, <3>3, <3>4 DEF WorkerMove
  <2>3. CASE WorkerSpool(s)
    <3>1. CASE AppendOK(s)
      <4>1. worker'[t].rec = worker[t].rec
        BY <1>0, <3>1 DEF AppendOK, WorkerState
      <4>2. worker'[t].st = IF t = s THEN "durable" ELSE worker[t].st
        BY <1>0, <3>1 DEF AppendOK, WorkerState
      <4>3. worker[s].st = "spooling"
        BY <2>3 DEF WorkerSpool
      <4>4. spool'[s] = Appended(spool[s], worker[s].rec)
        BY <1>0, <3>1 DEF AppendOK
      <4> QED
        BY <4>1, <4>2, <4>3, <4>4 DEF WorkerMove
    <3>2. CASE worker' = [worker EXCEPT ![s].st = "failed"]
      BY <1>0, <3>2 DEF WorkerMove, WorkerState
    <3> QED
      BY <2>3, <3>1, <3>2 DEF WorkerSpool, AppendFull, AppendFails
  <2>4. CASE WorkerAnswer(s)
    BY <1>0, <2>4 DEF WorkerAnswer, WorkerMove, WorkerState
  <2>5. CASE WorkerRelease(s)
    BY <1>0, <2>5 DEF WorkerRelease, IdleWorker, WorkerMove
  <2> QED
    BY <1>3, <2>1, <2>2, <2>3, <2>4, <2>5 DEF WorkerStep
<1> QED
  BY <1>1, <1>2, <1>3, CallerFrame, ReplayFrame, ProcessFrame DEF Next

\* A busy worker means that the process listens.
LEMMA BusyListens ==
  ASSUME Shape, NEW s \in Sources, worker[s].st # "idle"
  PROVE  phase \in Listening
  BY DEF Shape, TypeOK, ColdProcess, Phases, Listening

LEMMA DurableRetainedStep ==
  ASSUME ~WriteFaults, Shape, ReplayedSettled, DurableRetained, ServingFramesWhole, [Next]_vars
  PROVE  DurableRetained'
<1> SUFFICES ASSUME NEW s \in Sources, worker'[s].st = "durable"
             PROVE  worker'[s].rec \in Retained'
  BY DEF DurableRetained
<1>1. Retained \subseteq Retained'
  BY RetainedGrows
<1>2. WorkerMove(s)
  BY WorkerMoves DEF Shape
<1>3. CASE worker[s].st = "durable" /\ worker'[s].rec = worker[s].rec
  BY <1>1, <1>3 DEF DurableRetained
<1>4. CASE worker'[s].rec \in settled'
  BY <1>4 DEF Retained
<1>5. CASE /\ worker[s].st = "spooling" /\ worker'[s].rec = worker[s].rec
           /\ spool'[s] = Appended(spool[s], worker[s].rec)
  <2>1. ~spool[s].open
    BY <1>5, BusyListens DEF ServingFramesWhole, Undecodable
  <2>2. spool[s] \in SpoolFile /\ worker[s].rec \in Records
    BY <1>5 DEF Shape, TypeOK, WorkersBusy
  <2>3. worker'[s].rec \in Spooled(spool'[s])
    BY <1>5, <2>1, <2>2, AppendedFile
  <2> QED
    BY <2>3 DEF Retained, AllSpooled
<1> QED
  BY <1>2, <1>3, <1>4, <1>5 DEF WorkerMove

\* Success is told by WorkerAnswer only, to the caller of the durable job.
Answered(s) ==
  /\ worker[s].st = "durable"
  /\ acked' = acked \cup {worker[s].rec}
  /\ call' = [call EXCEPT ![worker[s].caller].pc = "acked"]

AnswerMove ==
  \/ \E s \in Sources : Answered(s)
  \/ /\ acked' = acked
     /\ \A c \in Callers : call'[c].pc = "acked" => call'[c] = call[c]

LEMMA AnswerMoves == TypeOK /\ [Next]_vars => AnswerMove
<1> SUFFICES ASSUME TypeOK, [Next]_vars PROVE AnswerMove
  OBVIOUS
<1> USE DEF process, lanes, database, history, budget
<1>0. call \in [Callers -> CallState]
  BY DEF TypeOK
<1>1. ASSUME NEW c \in Callers, CallerStep(c) PROVE AnswerMove
  <2>1. acked' = acked
    BY <1>1, CallerFrame
  <2>2. ASSUME NEW r \in Records, Reserve(c, r) \/ Refuse(c, r) PROVE AnswerMove
    BY <1>0, <2>1, <2>2 DEF Reserve, Refuse, AnswerMove
  <2>3. CASE Commit(c)
    BY <1>0, <2>1, <2>3 DEF Commit, AnswerMove, CallState
  <2>4. CASE Cancel(c) \/ Return(c)
    BY <1>0, <2>1, <2>4 DEF Cancel, Return, IdleCall, AnswerMove
  <2> QED
    BY <1>1, <2>2, <2>3, <2>4 DEF CallerStep
<1>2. ASSUME NEW s \in Sources, WorkerStep(s) PROVE AnswerMove
  <2>1. CASE WorkerAnswer(s)
    <3>1. CASE worker[s].st = "durable"
      BY <2>1, <3>1 DEF WorkerAnswer, Answered, AnswerMove
    <3>2. CASE worker[s].st # "durable"
      <4>1. acked' = acked /\ call' = [call EXCEPT ![worker[s].caller].pc = "refused"]
        BY <2>1, <3>2 DEF WorkerAnswer
      <4> QED
        BY <1>0, <4>1 DEF AnswerMove, CallState
    <3> QED
      BY <3>1, <3>2
  <2>2. CASE WorkerTake(s) \/ WorkerPersist(s) \/ WorkerSpool(s) \/ WorkerRelease(s)
    BY <2>2 DEF WorkerTake, WorkerPersist, WorkerSpool, WorkerRelease, AnswerMove
  <2> QED
    BY <1>2, <2>1, <2>2 DEF WorkerStep
<1>3. CASE ProcessGone /\ acked' = acked
  BY <1>3 DEF ProcessGone, IdleCall, AnswerMove
<1>4. CASE UNCHANGED <<acked, call>>
  BY <1>4 DEF AnswerMove
<1> QED
  BY <1>1, <1>2, <1>3, <1>4, ReplayFrame, ProcessFrame DEF Next

LEMMA AckedStep ==
  ASSUME ~WriteFaults, Shape, ReplayedSettled, DurableRetained, AckedRetained, AckedCalls,
         [Next]_vars
  PROVE  AckedRetained' /\ AckedCalls'
<1>1. Retained \subseteq Retained'
  BY RetainedGrows
<1>2. CASE /\ acked' = acked
           /\ \A c \in Callers : call'[c].pc = "acked" => call'[c] = call[c]
  BY <1>1, <1>2 DEF AckedRetained, AckedCalls, Retained
<1>3. ASSUME NEW s \in Sources, Answered(s) PROVE AckedRetained' /\ AckedCalls'
  <2>1. worker[s].rec \in Retained
    BY <1>3 DEF Answered, DurableRetained
  <2>2. AckedRetained'
    BY <1>1, <1>3, <2>1 DEF Answered, AckedRetained, Retained
  <2>3. call[worker[s].caller].rec = worker[s].rec
    BY <1>3 DEF Answered, Shape, OneJobPerWaiter, LaneJobs, Answering, WaitsIn
  <2>4. \A c \in Callers : /\ call'[c].rec = call[c].rec
                           /\ c # worker[s].caller => call'[c] = call[c]
    BY <1>3 DEF Answered, Shape, TypeOK, CallState
  <2>5. AckedCalls'
    BY <1>3, <2>3, <2>4 DEF Answered, AckedCalls
  <2> QED
    BY <2>2, <2>5
<1> QED
  BY <1>2, <1>3, AnswerMoves DEF AnswerMove, Shape

LEMMA CheckpointStep ==
  ASSUME Shape, AckedCalls, checkpointed \subseteq acked, [Next]_vars
  PROVE  checkpointed' \subseteq acked'
<1> USE DEF process, lanes, database, history, budget
<1>1. acked \subseteq acked'
  BY AnswerMoves DEF AnswerMove, Answered, Shape
<1>2. ASSUME NEW c \in Callers, CallerStep(c) PROVE checkpointed' \subseteq acked'
  <2>1. CASE Return(c)
    BY <1>1, <2>1 DEF Return, AckedCalls
  <2>2. ASSUME NEW r \in Records, Reserve(c, r) \/ Refuse(c, r)
        PROVE  checkpointed' \subseteq acked'
    BY <1>1, <2>2 DEF Reserve, Refuse
  <2>3. CASE Commit(c) \/ Cancel(c)
    BY <1>1, <2>3 DEF Commit, Cancel
  <2> QED
    BY <1>2, <2>1, <2>2, <2>3 DEF CallerStep
<1>3. CASE checkpointed' = checkpointed
  BY <1>1, <1>3
<1> QED
  BY <1>2, <1>3, WorkerFrame, ReplayFrame, ProcessFrame DEF Next

-----------------------------------------------------------------------------
(* Torn frames.                                                            *)
LEMMA FramesKept ==
  ASSUME NEW file \in SpoolFile, NEW r \in Records, file.open => file.frames # << >>
  PROVE  /\ ~Appended(file, r).open
         /\ TornAppended(file, r).frames # << >>
<1>1. file.frames \in Seq(Frame)
  BY DEF SpoolFile
<1>2. ~Appended(file, r).open
  BY DEF Appended, SpoolFile
<1>3. CASE file.open
  BY <1>2, <1>3 DEF TornAppended
<1>4. CASE ~file.open
  <2> DEFINE f == [rec |-> r, whole |-> FALSE]
  <2>1. f \in Frame
    BY DEF Frame
  <2>2. TornAppended(file, r).frames = Append(file.frames, f)
    BY <1>4 DEF TornAppended, SpoolFile
  <2>3. Append(file.frames, f) # << >>
    <3> HIDE DEF f
    <3> QED
      BY <1>1, <2>1, AppendProperties, EmptySeq
  <2> QED
    BY <1>2, <2>2, <2>3
<1> QED
  BY <1>3, <1>4

LEMMA TornHasFrameStep ==
  ASSUME ~WriteFaults, Shape, TornHasFrame, [Next]_vars
  PROVE  TornHasFrame'
<1> SUFFICES ASSUME NEW s \in Sources, spool'[s].open PROVE spool'[s].frames # << >>
  BY DEF TornHasFrame
<1>1. spool[s] \in SpoolFile /\ (worker[s].st = "spooling" => worker[s].rec \in Records)
  BY DEF Shape, TypeOK, WorkersBusy
<1>2. spool[s].open => spool[s].frames # << >>
  BY DEF TornHasFrame
<1>3. FileStep(s)
  BY FileSteps DEF Shape
<1>4. CASE /\ worker[s].st = "spooling"
           /\ \/ spool'[s] = Appended(spool[s], worker[s].rec)
              \/ spool'[s] = TornAppended(spool[s], worker[s].rec)
  BY <1>1, <1>2, <1>4, FramesKept
<1>5. CASE spool'[s] = spool[s] \/ spool'[s] = EmptySpool
  BY <1>2, <1>5 DEF EmptySpool
<1>6. CASE spool'[s] = DrainCreated(spool[s])
  BY <1>1, <1>2, <1>6 DEF DrainCreated, SpoolFile
<1> QED
  BY <1>3, <1>4, <1>5, <1>6 DEF FileStep

\* Only the end of the process can tear a frame of a file that has none.
LEMMA WholeKept ==
  ASSUME ~WriteFaults, Shape, [Next]_vars, NEW s \in Sources, ~Undecodable(spool[s]),
         phase' # "down"
  PROVE  ~Undecodable(spool'[s])
<1>1. spool[s] \in SpoolFile /\ (worker[s].st = "spooling" => worker[s].rec \in Records)
  BY DEF Shape, TypeOK, WorkersBusy
<1>2. ~spool[s].open
  BY DEF Undecodable
<1>3. FileStep(s)
  BY FileSteps DEF Shape
<1>4. CASE worker[s].st = "spooling" /\ spool'[s] = Appended(spool[s], worker[s].rec)
  BY <1>1, <1>2, <1>4, AppendedFile
<1>5. CASE spool'[s] = EmptySpool
  BY <1>5 DEF EmptySpool, Undecodable
<1>6. CASE spool'[s] = DrainCreated(spool[s])
  BY <1>1, <1>6 DEF DrainCreated, SpoolFile, Undecodable
<1> QED
  BY <1>3, <1>4, <1>5, <1>6 DEF FileStep

\* How the phase and the startup replay move together.
StartMove ==
  \/ phase' = "down"
  \/ phase \in Listening
  \/ phase = "down" /\ phase' = "starting" /\ replay'[Scheduler].at = 1
  \/ /\ phase = "starting" /\ phase' = "starting"
     /\ replay'[Scheduler].at = replay[Scheduler].at
  \/ /\ phase = "starting" /\ replay[Scheduler].at \in 1 .. Len(LaneOrder)
     /\ \/ spool[LaneAt(Scheduler)].frames = << >> /\ spool' = spool
        \/ spool'[LaneAt(Scheduler)] = EmptySpool
     /\ \/ phase' = "starting" /\ replay'[Scheduler].at = replay[Scheduler].at + 1
        \/ phase' = "serving" /\ replay[Scheduler].at = Len(LaneOrder)

LEMMA PlaceInOrder ==
  ASSUME Shape, NEW p \in Replayers, replay[p].st # "idle"
  PROVE  /\ replay[p].at \in 1 .. Len(LaneOrder) /\ LaneAt(p) \in Sources
         /\ replay[p].at \in Nat /\ Len(LaneOrder) \in Nat
         /\ ~(replay[p].at < Len(LaneOrder)) => replay[p].at = Len(LaneOrder)
<1>1. replay[p].at \in 1 .. Len(LaneOrder) /\ Len(LaneOrder) \in Nat
  BY LanesAssumption DEF Shape, ReplayPlaced
<1> QED
  BY <1>1, LaneInSources DEF LaneAt

LEMMA StartMoves ==
  ASSUME Shape, [Next]_vars
  PROVE  StartMove
<1> SUFFICES ASSUME phase' # "down", phase \notin Listening PROVE StartMove
  BY DEF StartMove
<1> USE DEF process, lanes, database, history, budget
<1>0. /\ phase \in {"down", "starting"} /\ Scheduler \in Replayers
      /\ replay \in [Replayers -> ReplayState]
      /\ spool \in [Sources -> SpoolFile]
  BY ProcessAssumption DEF Shape, TypeOK, Phases, Listening
<1>1. ASSUME NEW c \in Callers, CallerStep(c) PROVE StartMove
  <2>1. call[c].pc = "idle" /\ phase \notin Listening
    BY <1>0 DEF Shape, ColdProcess
  <2>2. ~CallerStep(c)
    BY <2>1 DEF CallerStep, Reserve, Refuse, Commit, Cancel, Return
  <2> QED
    BY <1>1, <2>2
<1>2. ASSUME NEW s \in Sources, WorkerStep(s) PROVE StartMove
  <2>1. worker[s].st = "idle" /\ jobs[s] = << >>
    BY <1>0 DEF Shape, ColdProcess
  <2>2. ~WorkerStep(s)
    BY <2>1 DEF WorkerStep, WorkerTake, WorkerPersist, WorkerSpool, WorkerAnswer, WorkerRelease
  <2> QED
    BY <1>2, <2>2
<1>3. ASSUME NEW p \in Replayers, ReplayStep(p) PROVE StartMove
  <2>1. ~ReplayBegin(p)
    <3>1. phase \notin Listening /\ phase # "serving"
      BY <1>0
    <3> QED
      BY <3>1 DEF ReplayBegin
  <2>2. replay[p].st # "idle"
    BY <1>3, <2>1 DEF ReplayStep, ReplayOpen, ReplayLine, ReplayDrain, ReplayRename
  <2>3. phase = "starting" /\ p = Scheduler
    BY <1>0, <2>2, ReplayAlone
  <2>4. ~ReplayAbort(p)
    BY <2>3 DEF ReplayAbort, ProcessGone
  <2>5. /\ replay[p].at \in 1 .. Len(LaneOrder) /\ LaneAt(p) \in Sources
        /\ ~(replay[p].at < Len(LaneOrder)) => replay[p].at = Len(LaneOrder)
    BY <2>2, PlaceInOrder
  <2>6. NextLane(p) => \/ phase' = "starting" /\ replay'[p].at = replay[p].at + 1
                       \/ phase' = "serving" /\ replay[p].at = Len(LaneOrder)
    BY <1>0, <2>3, <2>5 DEF NextLane
  <2>7. CASE ReplayOpen(p)
    <3>1. CASE spool[LaneAt(p)].frames = << >> /\ NextLane(p)
      BY <2>3, <2>5, <2>6, <2>7, <3>1 DEF ReplayOpen, StartMove
    <3>2. CASE /\ replay' = [replay EXCEPT ![p].st = "committing", ![p].pos = 1]
               /\ phase' = phase
      <4>1. replay' = [replay EXCEPT ![p] = [st |-> "committing", at |-> replay[p].at, pos |-> 1]]
        BY <1>0, <3>2, ReplayMoved
      <4> QED
        BY <1>0, <2>3, <3>2, <4>1 DEF StartMove
    <3> QED
      BY <2>4, <2>7, <3>1, <3>2 DEF ReplayOpen
  <2>8. CASE ReplayLine(p)
    <3>1. /\ phase' = phase
          /\ \/ replay' = [replay EXCEPT ![p].pos = @ + 1]
             \/ replay' = [replay EXCEPT ![p].st = "draining"]
      BY <2>4, <2>8 DEF ReplayLine
    <3>2. replay'[p].at = replay[p].at
      BY <1>0, <3>1 DEF ReplayState
    <3> QED
      BY <2>3, <3>1, <3>2 DEF StartMove
  <2>9. CASE ReplayDrain(p)
    <3>1. phase' = phase /\ replay' = [replay EXCEPT ![p].st = "renaming"]
      BY <2>4, <2>9 DEF ReplayDrain
    <3>2. replay'[p].at = replay[p].at
      BY <1>0, <3>1 DEF ReplayState
    <3> QED
      BY <2>3, <3>1, <3>2 DEF StartMove
  <2>10. CASE ReplayRename(p)
    <3>1. spool' = [spool EXCEPT ![LaneAt(p)] = EmptySpool] /\ NextLane(p)
      BY <2>4, <2>10 DEF ReplayRename, DrainRenamed
    <3>2. spool'[LaneAt(p)] = EmptySpool
      BY <1>0, <2>5, <3>1
    <3> QED
      BY <2>3, <2>5, <2>6, <3>1, <3>2 DEF StartMove
  <2> QED
    BY <1>3, <2>1, <2>7, <2>8, <2>9, <2>10 DEF ReplayStep
<1>4. CASE ProcessStep \/ DatabaseFails \/ DatabaseRecovers \/ UNCHANGED vars
  <2>1. CASE Start
    BY <1>0, <2>1 DEF Start, FirstLane, StartMove
  <2>2. CASE Crash \/ Exit
    BY <2>2 DEF Crash, Exit, ProcessGone
  <2>3. CASE StopAccepting \/ DrainDone \/ DrainTimeout
    BY <1>0, <2>3 DEF StopAccepting, DrainDone, DrainTimeout
  <2>4. CASE DatabaseFails \/ DatabaseRecovers \/ UNCHANGED vars
    BY <1>0, <2>4 DEF DatabaseFails, DatabaseRecovers, vars, StartMove
  <2> QED
    BY <1>4, <2>1, <2>2, <2>3, <2>4 DEF ProcessStep
<1> QED
  BY <1>1, <1>2, <1>3, <1>4 DEF Next

LEMMA PassedWholeStep ==
  ASSUME ~WriteFaults, Shape, TornHasFrame, PassedWhole, [Next]_vars
  PROVE  PassedWhole'
<1> DEFINE at == replay[Scheduler].at
           Passed(n) == \A i \in 1 .. Len(LaneOrder) : i < n => ~Undecodable(spool[LaneOrder[i]])
           PassedNext(n) == \A i \in 1 .. Len(LaneOrder) :
                              i < n => ~Undecodable(spool'[LaneOrder[i]])
<1>1. CASE phase' = "down"
  BY <1>1 DEF PassedWhole, ServingFramesWhole, Listening
<1>2. CASE phase' # "down" /\ phase \in Listening
  <2>1. \A s \in Sources : ~Undecodable(spool'[s])
    BY <1>2, WholeKept DEF PassedWhole, ServingFramesWhole
  <2>2. \A i \in 1 .. Len(LaneOrder) : LaneOrder[i] \in Sources
    BY LaneInSources
  <2> QED
    BY <2>1, <2>2 DEF PassedWhole, ServingFramesWhole
<1>3. CASE phase = "down" /\ phase' = "starting" /\ replay'[Scheduler].at = 1
  BY <1>3 DEF PassedWhole, ServingFramesWhole, Listening
<1>4. ASSUME phase = "starting", phase' # "down" PROVE PassedNext(at)
  <2>1. Passed(at)
    BY <1>4 DEF PassedWhole
  <2> QED
    BY <1>4, <2>1, WholeKept, LaneInSources
<1>5. CASE /\ phase = "starting" /\ phase' = "starting"
           /\ replay'[Scheduler].at = at
  BY <1>4, <1>5 DEF PassedWhole, ServingFramesWhole, Listening
<1>6. CASE /\ phase = "starting" /\ at \in 1 .. Len(LaneOrder)
           /\ \/ spool[LaneAt(Scheduler)].frames = << >> /\ spool' = spool
              \/ spool'[LaneAt(Scheduler)] = EmptySpool
           /\ \/ phase' = "starting" /\ replay'[Scheduler].at = at + 1
              \/ phase' = "serving" /\ at = Len(LaneOrder)
  <2>1. ~Undecodable(spool'[LaneAt(Scheduler)])
    <3>1. LaneAt(Scheduler) \in Sources
      BY <1>6, LaneInSources DEF LaneAt
    <3>2. CASE spool[LaneAt(Scheduler)].frames = << >> /\ spool' = spool
      BY <3>1, <3>2 DEF TornHasFrame, Undecodable
    <3>3. CASE spool'[LaneAt(Scheduler)] = EmptySpool
      BY <3>3 DEF EmptySpool, Undecodable
    <3> QED
      BY <1>6, <3>2, <3>3
  <2>2. PassedNext(at + 1)
    <3>1. PassedNext(at)
      BY <1>4, <1>6
    <3>2. at \in Int /\ Len(LaneOrder) \in Nat
      BY <1>6, LanesAssumption
    <3> QED
      BY <2>1, <3>1, <3>2 DEF LaneAt
  <2>3. CASE phase' = "starting" /\ replay'[Scheduler].at = at + 1
    BY <2>2, <2>3 DEF PassedWhole, ServingFramesWhole, Listening
  <2>4. CASE phase' = "serving" /\ at = Len(LaneOrder)
    <3>1. Len(LaneOrder) \in Nat
      BY LanesAssumption
    <3>2. \A i \in 1 .. Len(LaneOrder) : ~Undecodable(spool'[LaneOrder[i]])
      BY <2>2, <2>4, <3>1
    <3>3. \A s \in Sources : ~Undecodable(spool'[s])
      BY <3>2, LanesAssumption
    <3> QED
      BY <2>4, <3>3 DEF PassedWhole, ServingFramesWhole
  <2> QED
    BY <1>6, <2>3, <2>4
<1> QED
  BY <1>1, <1>2, <1>3, <1>5, <1>6, StartMoves DEF StartMove

-----------------------------------------------------------------------------
LEMMA InitRetained == Init => RetainedInv
<1> SUFFICES ASSUME Init PROVE RetainedInv
  OBVIOUS
<1>1. Shape
  BY InitShape
<1>2. ReplayedSettled /\ DurableRetained /\ AckedCalls
  BY DEF Init, IdleReplay, IdleWorker, IdleCall, ReplayedSettled, DurableRetained, AckedCalls
<1>3. AckedRetained /\ checkpointed \subseteq acked
  BY DEF Init, AckedRetained
<1>4. TornHasFrame /\ PassedWhole
  BY DEF Init, EmptySpool, TornHasFrame, PassedWhole, ServingFramesWhole, Listening
<1> QED
  BY <1>1, <1>2, <1>3, <1>4 DEF RetainedInv

LEMMA RetainedStep == ~WriteFaults /\ RetainedInv /\ [Next]_vars => RetainedInv'
<1> SUFFICES ASSUME ~WriteFaults, RetainedInv, [Next]_vars PROVE RetainedInv'
  OBVIOUS
<1>1. /\ Shape /\ ReplayedSettled /\ DurableRetained /\ AckedRetained /\ AckedCalls
      /\ TornHasFrame /\ PassedWhole /\ ServingFramesWhole /\ checkpointed \subseteq acked
  BY DEF RetainedInv, PassedWhole
<1>2. Shape'
  BY <1>1, ShapeStep
<1>3. ReplayedSettled'
  BY <1>1, ReplayedSettledStep
<1>4. DurableRetained'
  BY <1>1, DurableRetainedStep
<1>5. AckedRetained' /\ AckedCalls'
  BY <1>1, AckedStep
<1>6. TornHasFrame'
  BY <1>1, TornHasFrameStep
<1>7. PassedWhole'
  BY <1>1, PassedWholeStep
<1>8. checkpointed' \subseteq acked'
  BY <1>1, CheckpointStep
<1> QED
  BY <1>2, <1>3, <1>4, <1>5, <1>6, <1>7, <1>8 DEF RetainedInv

\* While no failed write leaves a prefix in a spool file, whatever was answered
\* with success stays complete or spooled (PersistNormalizedFact, Append,
\* Replay and the drain, for any number of lanes, callers and replayers).
THEOREM AcknowledgedIsRetained ==
  ASSUME ~WriteFaults
  PROVE  Spec => []AckedRetained
<1>1. RetainedInv => AckedRetained
  BY DEF RetainedInv
<1>2. RetainedInv /\ [Next]_vars => RetainedInv'
  BY RetainedStep
<1> QED
  BY <1>1, <1>2, InitRetained, PTL DEF Spec

\* Under the same assumption a serving process never appends to a torn file:
\* the startup replay refuses to open the listeners beside one.
THEOREM ServesWholeFiles ==
  ASSUME ~WriteFaults
  PROVE  Spec => []ServingFramesWhole
<1>1. RetainedInv => ServingFramesWhole
  BY DEF RetainedInv, PassedWhole
<1>2. RetainedInv /\ [Next]_vars => RetainedInv'
  BY RetainedStep
<1> QED
  BY <1>1, <1>2, InitRetained, PTL DEF Spec

-----------------------------------------------------------------------------
(* The queue implements DurableHandoff.                                    *)
LEMMA SpooledTyped ==
  ASSUME NEW file \in SpoolFile
  PROVE  Spooled(file) \subseteq Records
<1>1. file.frames \in Seq(Frame)
  BY DEF SpoolFile
<1>2. \A i \in 1 .. Len(file.frames) : file.frames[i] \in Frame
  BY <1>1, ElementOfSeq
<1>3. \A i \in 1 .. Len(file.frames) : file.frames[i].rec \in Records
  BY <1>2 DEF Frame
<1> QED
  BY <1>3 DEF Spooled

\* What a client can see changes in Return and WorkerAnswer only.
LEMMA HistoryMoves ==
  ASSUME RetainedInv, [Next]_vars
  PROVE  \/ UNCHANGED <<acked, checkpointed>>
         \/ /\ UNCHANGED <<settled, spool, checkpointed>>
            /\ \E r \in Records : r \in Retained /\ acked' = acked \cup {r}
         \/ /\ UNCHANGED <<settled, spool, acked>>
            /\ \E r \in Records : r \in acked /\ checkpointed' = checkpointed \cup {r}
<1> DEFINE Goal == \/ UNCHANGED <<acked, checkpointed>>
                   \/ /\ UNCHANGED <<settled, spool, checkpointed>>
                      /\ \E r \in Records : r \in Retained /\ acked' = acked \cup {r}
                   \/ /\ UNCHANGED <<settled, spool, acked>>
                      /\ \E r \in Records : r \in acked /\ checkpointed' = checkpointed \cup {r}
<1> USE DEF process, lanes, database, history, budget
<1>1. ASSUME NEW c \in Callers, CallerStep(c) PROVE Goal
  <2>1. CASE Return(c)
    <3>1. call[c].rec \in Records
      BY <2>1 DEF Return, RetainedInv, Shape, CallsBusy
    <3>2. CASE call[c].pc = "acked" /\ checkpointed' = checkpointed \cup {call[c].rec}
      <4>1. call[c].rec \in acked
        BY <3>2 DEF RetainedInv, AckedCalls
      <4> QED
        BY <1>1, <3>1, <3>2, <4>1, CallerFrame
    <3> QED
      BY <2>1, <3>2 DEF Return
  <2>2. ASSUME NEW r \in Records, Reserve(c, r) \/ Refuse(c, r) PROVE Goal
    BY <2>2 DEF Reserve, Refuse
  <2>3. CASE Commit(c) \/ Cancel(c)
    BY <2>3 DEF Commit, Cancel
  <2> QED
    BY <1>1, <2>1, <2>2, <2>3 DEF CallerStep
<1>2. ASSUME NEW s \in Sources, WorkerStep(s) PROVE Goal
  <2>1. CASE WorkerAnswer(s)
    <3>1. CASE worker[s].st = "durable"
      <4>1. worker[s].rec \in Records /\ worker[s].rec \in Retained
        BY <3>1 DEF RetainedInv, Shape, WorkersBusy, DurableRetained
      <4> QED
        BY <2>1, <3>1, <4>1 DEF WorkerAnswer
    <3> QED
      BY <2>1, <3>1 DEF WorkerAnswer
  <2>2. CASE WorkerTake(s) \/ WorkerPersist(s) \/ WorkerSpool(s) \/ WorkerRelease(s)
    BY <2>2 DEF WorkerTake, WorkerPersist, WorkerSpool, WorkerRelease
  <2> QED
    BY <1>2, <2>1, <2>2 DEF WorkerStep
<1>3. CASE UNCHANGED <<acked, checkpointed>>
  BY <1>3
<1> QED
  BY <1>1, <1>2, <1>3, ReplayFrame, ProcessFrame DEF Next

LEMMA HandoffStep ==
  ASSUME ~WriteFaults, RetainedInv, [Next]_vars
  PROVE  [Handoff!HNext]_(Handoff!hvars)
<1> USE DEF Handoff!HNext, Handoff!hvars
<1>1. Retained \subseteq Retained'
  BY RetainedGrows DEF RetainedInv
<1>2. Retained' \subseteq Records
  <2>1. TypeOK'
    BY RetainedStep DEF RetainedInv, Shape
  <2> QED
    BY <2>1, SpooledTyped DEF TypeOK, Retained, AllSpooled
<1>3. CASE UNCHANGED <<acked, checkpointed>>
  <2> DEFINE rs == Retained' \ Retained
  <2>1. rs \in SUBSET Records /\ Retained' = Retained \cup rs
    BY <1>1, <1>2
  <2>2. Handoff!Own(rs)
    BY <1>3, <2>1 DEF Handoff!Own, Retained
  <2> QED
    BY <2>1, <2>2
<1>4. ASSUME NEW r \in Records, r \in Retained, acked' = acked \cup {r},
             UNCHANGED <<settled, spool, checkpointed>>
      PROVE  Handoff!Acknowledge(r)
  BY <1>4 DEF Handoff!Acknowledge, Retained, AllSpooled
<1>5. ASSUME NEW r \in Records, r \in acked, checkpointed' = checkpointed \cup {r},
             UNCHANGED <<settled, spool, acked>>
      PROVE  Handoff!MoveCheckpoint(r)
  BY <1>5 DEF Handoff!MoveCheckpoint, AllSpooled
<1> QED
  BY <1>3, <1>4, <1>5, HistoryMoves

LEMMA HandoffInit == Init => Handoff!HInit
  BY DEF Init, Handoff!HInit, AllSpooled, Spooled, EmptySpool

\* Every behaviour of the queue is one of the handoff promise: a submission is
\* answered with success only when its record is owned, a checkpoint moves only
\* past answered records, and no owned record is given up.
THEOREM QueueImplementsHandoff ==
  ASSUME ~WriteFaults
  PROVE  Spec => ImplementsHandoff
<1>1. RetainedInv /\ [Next]_vars => RetainedInv'
  BY RetainedStep
<1>2. RetainedInv /\ [Next]_vars => [Handoff!HNext]_(Handoff!hvars)
  BY HandoffStep
<1> QED
  BY <1>1, <1>2, InitRetained, HandoffInit, PTL DEF Spec, ImplementsHandoff, Handoff!HSpec

-----------------------------------------------------------------------------
-----------------------------------------------------------------------------
(* The slots of the lanes: who holds them, and who counts them.            *)

\* Who holds a slot of a lane, or of any lane, and which workers have answered
\* and not released.
Slot(s) == {c \in Callers : HoldsSlot(c, s)}
Held == {c \in Callers : call[c].pc \in {"reserved", "waiting"}}
Releasing == {s \in Sources : worker[s].st = "releasing"}
Bit(s) == IF worker[s].st = "releasing" THEN 1 ELSE 0

\* However many callers there may be, only finitely many hold something.
HeldFinite ==
  /\ \A s \in Sources : IsFiniteSet(Slot(s))
  /\ IsFiniteSet(Held) /\ IsFiniteSet(Releasing)

\* What each phase of the process says about the two gates of the queue.
Gates ==
  /\ phase \in {"draining", "closing"} => ~accepting
  /\ phase \in {"starting", "serving"} => accepting
  /\ phase \in {"starting", "serving", "draining"} => laneOpen

SlotInv == Shape /\ SlotAccounting /\ HeldFinite /\ Gates /\ ClosedQuiescent

-----------------------------------------------------------------------------
(* The sets of holders, when one caller moves.                             *)

OnlyMoves(c) == \A d \in Callers \ {c} : call'[d] = call[d]

LEMMA LaneOfCall ==
  ASSUME Shape, NEW c \in Callers, call[c].pc # "idle"
  PROVE  call[c].rec \in Records /\ LaneOf[call[c].rec] \in Sources
  BY LanesAssumption DEF Shape, CallsBusy

LEMMA KeepsSlot ==
  ASSUME NEW c \in Callers, OnlyMoves(c), call'[c].rec = call[c].rec,
         c \in Held <=> call'[c].pc \in {"reserved", "waiting"}
  PROVE  Held' = Held /\ \A s \in Sources : Slot(s)' = Slot(s)
<1>1. Held' = Held
  BY DEF Held, OnlyMoves
<1>2. ASSUME NEW s \in Sources PROVE Slot(s)' = Slot(s)
  BY DEF Held, Slot, HoldsSlot, OnlyMoves
<1> QED BY <1>1, <1>2

LEMMA WithoutSlot ==
  ASSUME NEW c \in Callers, OnlyMoves(c), c \notin Held, call'[c].pc \notin {"reserved", "waiting"}
  PROVE  Held' = Held /\ \A s \in Sources : Slot(s)' = Slot(s)
<1>1. Held' = Held
  BY DEF Held, OnlyMoves
<1>2. ASSUME NEW s \in Sources PROVE Slot(s)' = Slot(s)
  BY DEF Held, Slot, HoldsSlot, OnlyMoves
<1> QED BY <1>1, <1>2

LEMMA TakesSlot ==
  ASSUME NEW c \in Callers, OnlyMoves(c), c \notin Held, call'[c].pc \in {"reserved", "waiting"}
  PROVE  /\ Held' = Held \cup {c}
         /\ \A s \in Sources : /\ c \notin Slot(s)
                               /\ Slot(s)' = IF LaneOf[call'[c].rec] = s THEN Slot(s) \cup {c} ELSE Slot(s)
<1>1. Held' = Held \cup {c}
  BY DEF Held, OnlyMoves
<1>2. ASSUME NEW s \in Sources
      PROVE  c \notin Slot(s) /\ Slot(s)' = IF LaneOf[call'[c].rec] = s THEN Slot(s) \cup {c} ELSE Slot(s)
  BY DEF Held, Slot, HoldsSlot, OnlyMoves
<1> QED BY <1>1, <1>2

LEMMA GivesSlot ==
  ASSUME NEW c \in Callers, OnlyMoves(c), c \in Held, call'[c].pc \notin {"reserved", "waiting"}
  PROVE  /\ Held' = Held \ {c}
         /\ \A s \in Sources : /\ c \in Slot(s) <=> LaneOf[call[c].rec] = s
                               /\ Slot(s)' = IF LaneOf[call[c].rec] = s THEN Slot(s) \ {c} ELSE Slot(s)
<1>1. Held' = Held \ {c}
  BY DEF Held, OnlyMoves
<1>2. ASSUME NEW s \in Sources
      PROVE  /\ c \in Slot(s) <=> LaneOf[call[c].rec] = s
             /\ Slot(s)' = IF LaneOf[call[c].rec] = s THEN Slot(s) \ {c} ELSE Slot(s)
  BY DEF Held, Slot, HoldsSlot, OnlyMoves
<1> QED BY <1>1, <1>2

-----------------------------------------------------------------------------
(* What such a move does to the counts.                                    *)

LEMMA Counts ==
  ASSUME Shape, SlotAccounting, HeldFinite
  PROVE  /\ \A s \in Sources : /\ Cardinality(Slot(s)) \in Nat /\ inUse[s] \in Int /\ Capacity[s] \in Nat \ {0}
                               /\ inUse[s] <= Capacity[s] /\ inUse[s] = Cardinality(Slot(s)) + Bit(s)
         /\ Cardinality(Held) \in Nat /\ Cardinality(Releasing) \in Nat
         /\ outstanding = Cardinality(Held) + Cardinality(Releasing)
<1>1. \A s \in Sources : Cardinality(Slot(s)) \in Nat /\ inUse[s] \in Int /\ Capacity[s] \in Nat \ {0}
  BY FS_CardinalityType, LanesAssumption DEF HeldFinite, Shape, TypeOK
<1>2. \A s \in Sources : inUse[s] <= Capacity[s] /\ inUse[s] = Cardinality(Slot(s)) + Bit(s)
  BY DEF SlotAccounting, Slot, Bit
<1>3. Cardinality(Held) \in Nat /\ Cardinality(Releasing) \in Nat
  BY FS_CardinalityType DEF HeldFinite
<1>4. outstanding = Cardinality(Held) + Cardinality(Releasing)
  BY DEF SlotAccounting, Held, Releasing
<1> QED BY <1>1, <1>2, <1>3, <1>4

LEMMA Accounts ==
  ASSUME \A s \in Sources : /\ inUse'[s] <= Capacity[s]
                            /\ inUse'[s] = Cardinality(Slot(s)') + Bit(s)',
         outstanding' = Cardinality(Held') + Cardinality(Releasing')
  PROVE  SlotAccounting'
<1>1. \A s \in Sources : /\ Slot(s)' = {c \in Callers : HoldsSlot(c, s)}'
                         /\ Bit(s)' = IF worker'[s].st = "releasing" THEN 1 ELSE 0
  BY DEF Slot, Bit
<1>2. Held' = {c \in Callers : call'[c].pc \in {"reserved", "waiting"}}
  BY DEF Held
<1>3. Releasing' = {s \in Sources : worker'[s].st = "releasing"}
  BY DEF Releasing
<1> QED BY <1>1, <1>2, <1>3 DEF SlotAccounting

LEMMA SameWorkers ==
  ASSUME \A s \in Sources : worker'[s].st = "releasing" <=> worker[s].st = "releasing"
  PROVE  Releasing' = Releasing /\ \A s \in Sources : Bit(s)' = Bit(s)
<1>1. Releasing' = Releasing
  BY DEF Releasing
<1>2. \A s \in Sources : Bit(s)' = Bit(s)
  BY DEF Bit
<1> QED BY <1>1, <1>2

LEMMA NothingHeld ==
  ASSUME Shape, SlotAccounting, HeldFinite, Held' = Held, \A s \in Sources : Slot(s)' = Slot(s),
         \A s \in Sources : worker'[s].st = "releasing" <=> worker[s].st = "releasing",
         inUse' = inUse, outstanding' = outstanding
  PROVE  SlotAccounting' /\ HeldFinite'
<1>1. Releasing' = Releasing /\ \A s \in Sources : Bit(s)' = Bit(s)
  BY SameWorkers
<1>2. HeldFinite'
  BY <1>1 DEF HeldFinite
<1>3. SlotAccounting'
  BY <1>1, Counts, Accounts
<1> QED BY <1>2, <1>3

-----------------------------------------------------------------------------
(* The steps of a caller and of a worker.                                  *)

LEMMA CallSets ==
  ASSUME Shape, NEW c \in Callers, NEW x, call' = [call EXCEPT ![c] = x]
  PROVE  OnlyMoves(c) /\ call'[c] = x
BY DEF OnlyMoves, Shape, TypeOK

LEMMA CallMoves ==
  ASSUME Shape, NEW c \in Callers, NEW pc, call' = [call EXCEPT ![c].pc = pc]
  PROVE  OnlyMoves(c) /\ call'[c].pc = pc /\ call'[c].rec = call[c].rec
<1>1. call \in [Callers -> CallState] /\ call[c] \in CallState
  BY DEF Shape, TypeOK
<1>2. call'[c] = [call[c] EXCEPT !.pc = pc]
  BY <1>1
<1> QED BY <1>1, <1>2 DEF OnlyMoves, CallState

LEMMA ReserveSlots ==
  ASSUME Shape, SlotAccounting, HeldFinite, NEW c \in Callers, NEW r \in Records, Reserve(c, r)
  PROVE  SlotAccounting' /\ HeldFinite'
<1> DEFINE t == LaneOf[r]
           x == [pc |-> "reserved", rec |-> r]
<1>1. /\ call[c].pc = "idle" /\ inUse[t] < Capacity[t]
      /\ inUse' = [inUse EXCEPT ![t] = @ + 1] /\ outstanding' = outstanding + 1
      /\ call' = [call EXCEPT ![c] = x] /\ worker' = worker
  BY DEF Reserve
<1>2. OnlyMoves(c) /\ call'[c] = x
  BY <1>1, CallSets
<1>a. t \in Sources /\ c \notin Held
  BY <1>1, LanesAssumption DEF Held
<1>3. t \in Sources /\ c \notin Held /\ call'[c].pc \in {"reserved", "waiting"} /\ call'[c].rec = r
  BY <1>2, <1>a
<1>4. Held' = Held \cup {c}
      /\ \A s \in Sources : c \notin Slot(s) /\ Slot(s)' = IF t = s THEN Slot(s) \cup {c} ELSE Slot(s)
  BY <1>2, <1>3, TakesSlot
<1>5. Releasing' = Releasing /\ \A s \in Sources : Bit(s)' = Bit(s)
  BY <1>1, SameWorkers
<1>6. HeldFinite'
  BY <1>4, <1>5, FS_AddElement DEF HeldFinite
<1>7. Cardinality(Held') = Cardinality(Held) + 1
  BY <1>3, <1>4, FS_AddElement DEF HeldFinite
<1>8. ASSUME NEW s \in Sources
      PROVE  inUse'[s] <= Capacity[s] /\ inUse'[s] = Cardinality(Slot(s)') + Bit(s)'
  <2>1. CASE s = t
    <3>1. Cardinality(Slot(s)') = Cardinality(Slot(s)) + 1
      BY <1>4, <2>1, FS_AddElement DEF HeldFinite
    <3>2. inUse'[s] = inUse[s] + 1 /\ inUse[s] < Capacity[s]
      BY <1>1, <2>1 DEF Shape, TypeOK
    <3>3. Bit(s) \in {0, 1}
      BY DEF Bit
    <3> QED BY <1>5, <3>1, <3>2, <3>3, Counts
  <2>2. CASE s # t
    <3>1. inUse'[s] = inUse[s] /\ Slot(s)' = Slot(s)
      BY <1>1, <1>4, <2>2 DEF Shape, TypeOK
    <3> QED BY <1>5, <3>1, Counts
  <2> QED BY <2>1, <2>2
<1>9. outstanding' = Cardinality(Held') + Cardinality(Releasing')
  BY <1>1, <1>5, <1>7, Counts
<1> QED BY <1>6, <1>8, <1>9, Accounts

\* The release of the slot of a reservation that was never committed.
LEMMA CancelSlots ==
  ASSUME Shape, SlotAccounting, HeldFinite, NEW c \in Callers, Cancel(c)
  PROVE  SlotAccounting' /\ HeldFinite'
<1> DEFINE t == LaneOf[call[c].rec]
<1>1. /\ call[c].pc = "reserved" /\ call' = [call EXCEPT ![c] = IdleCall] /\ worker' = worker
      /\ inUse' = [inUse EXCEPT ![t] = @ - 1] /\ outstanding' = outstanding - 1
  BY DEF Cancel, Release
<1>a. OnlyMoves(c) /\ call'[c] = IdleCall
  BY <1>1, CallSets
<1>2. OnlyMoves(c) /\ call'[c].pc = "idle"
  BY <1>a DEF IdleCall
<1>3. t \in Sources /\ c \in Held
  BY <1>1, LaneOfCall DEF Held
<1>4. Held' = Held \ {c}
      /\ \A s \in Sources : /\ c \in Slot(s) <=> t = s
                            /\ Slot(s)' = IF t = s THEN Slot(s) \ {c} ELSE Slot(s)
  BY <1>2, <1>3, GivesSlot
<1>5. Releasing' = Releasing /\ \A s \in Sources : Bit(s)' = Bit(s)
  BY <1>1, SameWorkers
<1>6. HeldFinite'
  BY <1>4, <1>5, FS_RemoveElement DEF HeldFinite
<1>7. Cardinality(Held') = Cardinality(Held) - 1
  BY <1>3, <1>4, FS_RemoveElement DEF HeldFinite
<1>8. ASSUME NEW s \in Sources
      PROVE  inUse'[s] <= Capacity[s] /\ inUse'[s] = Cardinality(Slot(s)') + Bit(s)'
  <2>1. CASE s = t
    <3>1. Cardinality(Slot(s)') = Cardinality(Slot(s)) - 1
      BY <1>4, <2>1, FS_RemoveElement DEF HeldFinite
    <3>2. inUse'[s] = inUse[s] - 1
      BY <1>1, <2>1 DEF Shape, TypeOK
    <3>3. Bit(s) \in {0, 1}
      BY DEF Bit
    <3> QED BY <1>5, <3>1, <3>2, <3>3, Counts
  <2>2. CASE s # t
    <3>1. inUse'[s] = inUse[s] /\ Slot(s)' = Slot(s)
      BY <1>1, <1>4, <2>2 DEF Shape, TypeOK
    <3> QED BY <1>5, <3>1, Counts
  <2> QED BY <2>1, <2>2
<1>9. outstanding' = Cardinality(Held') + Cardinality(Releasing')
  BY <1>1, <1>5, <1>7, Counts
<1> QED BY <1>6, <1>8, <1>9, Accounts

\* The answer takes the slot from the caller to its worker...
LEMMA AnswerSlots ==
  ASSUME Shape, SlotAccounting, HeldFinite, NEW t \in Sources, WorkerAnswer(t)
  PROVE  SlotAccounting' /\ HeldFinite'
<1> DEFINE c == worker[t].caller
           pc == IF worker[t].st = "durable" THEN "acked" ELSE "refused"
<1>1. /\ worker[t].st \in {"durable", "failed"} /\ call' = [call EXCEPT ![c].pc = pc]
      /\ worker' = [worker EXCEPT ![t].st = "releasing"]
      /\ inUse' = inUse /\ outstanding' = outstanding
  BY DEF WorkerAnswer, lanes
<1>2. c \in Callers
  BY <1>1 DEF Shape, WorkersBusy
<1>3. c \in Held /\ LaneOf[call[c].rec] = t
  BY <1>1, <1>2 DEF Held, Shape, OneJobPerWaiter, LaneJobs, Answering, WaitsIn
<1>4. OnlyMoves(c) /\ call'[c].pc \notin {"reserved", "waiting"}
  BY <1>1, <1>2, CallMoves
<1> HIDE DEF c
<1>5. Held' = Held \ {c}
      /\ \A s \in Sources : /\ c \in Slot(s) <=> t = s
                            /\ Slot(s)' = IF t = s THEN Slot(s) \ {c} ELSE Slot(s)
  BY <1>2, <1>3, <1>4, GivesSlot
<1>6. \A s \in Sources : worker'[s].st = IF s = t THEN "releasing" ELSE worker[s].st
  BY <1>1 DEF Shape, TypeOK, WorkerState
<1>7. Releasing' = Releasing \cup {t} /\ t \notin Releasing
  BY <1>1, <1>6 DEF Releasing
<1>8. \A s \in Sources : Bit(s) \in {0, 1} /\ Bit(s)' = IF s = t THEN Bit(s) + 1 ELSE Bit(s)
  BY <1>1, <1>6 DEF Bit
<1>9. HeldFinite'
  BY <1>5, <1>7, FS_RemoveElement, FS_AddElement DEF HeldFinite
<1>10. Cardinality(Held') = Cardinality(Held) - 1 /\ Cardinality(Releasing') = Cardinality(Releasing) + 1
  BY <1>3, <1>5, <1>7, FS_RemoveElement, FS_AddElement DEF HeldFinite
<1>11. ASSUME NEW s \in Sources
       PROVE  inUse'[s] <= Capacity[s] /\ inUse'[s] = Cardinality(Slot(s)') + Bit(s)'
  <2>1. CASE s = t
    <3>1. Cardinality(Slot(s)') = Cardinality(Slot(s)) - 1
      BY <1>5, <2>1, FS_RemoveElement DEF HeldFinite
    <3> QED BY <1>1, <1>8, <2>1, <3>1, Counts
  <2>2. CASE s # t
    BY <1>1, <1>5, <1>8, <2>2, Counts
  <2> QED BY <2>1, <2>2
<1>12. outstanding' = Cardinality(Held') + Cardinality(Releasing')
  BY <1>1, <1>10, Counts
<1> QED BY <1>9, <1>11, <1>12, Accounts

\* ...which gives it back.
LEMMA ReleaseSlots ==
  ASSUME Shape, SlotAccounting, HeldFinite, NEW t \in Sources, WorkerRelease(t)
  PROVE  SlotAccounting' /\ HeldFinite'
<1>1. /\ worker[t].st = "releasing" /\ call' = call /\ worker' = [worker EXCEPT ![t] = IdleWorker]
      /\ inUse' = [inUse EXCEPT ![t] = @ - 1] /\ outstanding' = outstanding - 1
  BY DEF WorkerRelease, Release
<1>2. Held' = Held /\ \A s \in Sources : Slot(s)' = Slot(s)
  BY <1>1 DEF Held, Slot, HoldsSlot
<1>3. \A s \in Sources : worker'[s].st = IF s = t THEN "idle" ELSE worker[s].st
  BY <1>1 DEF Shape, TypeOK, IdleWorker
<1>4. Releasing' = Releasing \ {t} /\ t \in Releasing
  BY <1>1, <1>3 DEF Releasing
<1>5. \A s \in Sources : Bit(s) \in {0, 1} /\ Bit(s)' = IF s = t THEN Bit(s) - 1 ELSE Bit(s)
  BY <1>1, <1>3 DEF Bit
<1>6. HeldFinite'
  BY <1>2, <1>4, FS_RemoveElement DEF HeldFinite
<1>7. Cardinality(Releasing') = Cardinality(Releasing) - 1
  BY <1>4, FS_RemoveElement DEF HeldFinite
<1>8. ASSUME NEW s \in Sources
      PROVE  inUse'[s] <= Capacity[s] /\ inUse'[s] = Cardinality(Slot(s)') + Bit(s)'
  <2>1. inUse'[s] = IF s = t THEN inUse[s] - 1 ELSE inUse[s]
    BY <1>1 DEF Shape, TypeOK
  <2> QED BY <1>2, <1>5, <2>1, Counts
<1>9. outstanding' = Cardinality(Held') + Cardinality(Releasing')
  BY <1>1, <1>2, <1>7, Counts
<1> QED BY <1>6, <1>8, <1>9, Accounts

LEMMA GoneSlots ==
  ASSUME ProcessGone
  PROVE  SlotAccounting' /\ HeldFinite'
<1>1. \A c \in Callers : call'[c].pc = "idle"
  BY DEF ProcessGone, IdleCall
<1>2. \A s \in Sources : worker'[s].st = "idle" /\ inUse'[s] = 0
  BY DEF ProcessGone, IdleWorker
<1>3. Held' = {} /\ Releasing' = {} /\ \A s \in Sources : Slot(s)' = {} /\ Bit(s)' = 0
  BY <1>1, <1>2 DEF Held, Releasing, Slot, HoldsSlot, Bit
<1>4. HeldFinite'
  BY <1>3, FS_EmptySet DEF HeldFinite
<1>5. outstanding' = 0 /\ Cardinality({}) = 0
  BY FS_EmptySet DEF ProcessGone
<1>6. \A s \in Sources : 0 <= Capacity[s]
  BY LanesAssumption
<1>7. SlotAccounting'
  BY <1>2, <1>3, <1>5, <1>6, Accounts
<1> QED BY <1>4, <1>7

-----------------------------------------------------------------------------
(* The other steps.                                                        *)

\* A step of a replay, of the process or of the database.
LEMMA OtherSteps ==
  ASSUME [Next]_vars
  PROVE  \/ \E c \in Callers : CallerStep(c)
         \/ \E s \in Sources : WorkerStep(s)
         \/ ProcessGone
         \/ Start \/ StopAccepting \/ DrainDone \/ DrainTimeout
         \/ /\ UNCHANGED <<call, lanes, worker, accepting, laneOpen>>
            /\ phase' = phase \/ (phase = "starting" /\ phase' = "serving")
<1> USE DEF process, lanes, database, history, budget
<1> DEFINE Aside == /\ UNCHANGED <<call, lanes, worker, accepting, laneOpen>>
                    /\ phase' = phase \/ (phase = "starting" /\ phase' = "serving")
<1>1. ASSUME NEW p \in Replayers, ReplayStep(p) PROVE ProcessGone \/ Aside
  <2>1. NextLane(p) => Aside
    BY DEF NextLane
  <2>2. ReplayAbort(p) => ProcessGone \/ Aside
    BY DEF ReplayAbort
  <2>3. CASE ReplayBegin(p)
    BY <2>3 DEF ReplayBegin
  <2> HIDE DEF Aside
  <2>4. CASE ReplayOpen(p)
    <3>1. NextLane(p) \/ ReplayAbort(p) \/ UNCHANGED <<process, call, lanes, worker>>
      BY <2>4 DEF ReplayOpen
    <3> QED BY <2>1, <2>2, <3>1 DEF Aside
  <2>5. CASE ReplayLine(p)
    <3>1. ReplayAbort(p) \/ UNCHANGED <<process, call, lanes, worker>>
      BY <2>5 DEF ReplayLine
    <3> QED BY <2>2, <3>1 DEF Aside
  <2>6. CASE ReplayDrain(p)
    <3>1. ReplayAbort(p) \/ UNCHANGED <<process, call, lanes, worker>>
      BY <2>6 DEF ReplayDrain
    <3> QED BY <2>2, <3>1 DEF Aside
  <2>7. CASE ReplayRename(p)
    <3>1. NextLane(p) \/ ReplayAbort(p)
      BY <2>7 DEF ReplayRename
    <3> QED BY <2>1, <2>2, <3>1
  <2> QED BY <1>1, <2>3, <2>4, <2>5, <2>6, <2>7 DEF ReplayStep, Aside
<1>2. CASE ProcessStep
  BY <1>2 DEF ProcessStep, Crash, Exit
<1>3. CASE DatabaseFails \/ DatabaseRecovers \/ UNCHANGED vars
  BY <1>3 DEF DatabaseFails, DatabaseRecovers, vars
<1> QED BY <1>1, <1>2, <1>3 DEF Next

LEMMA SlotsStep ==
  ASSUME Shape, SlotAccounting, HeldFinite, [Next]_vars
  PROVE  SlotAccounting' /\ HeldFinite'
<1> DEFINE Goal == SlotAccounting' /\ HeldFinite'
<1>0. ASSUME call' = call, UNCHANGED <<inUse, outstanding>>,
             \A s \in Sources : worker'[s].st = "releasing" <=> worker[s].st = "releasing"
      PROVE  Goal
  <2>1. Held' = Held /\ \A s \in Sources : Slot(s)' = Slot(s)
    BY <1>0 DEF Held, Slot, HoldsSlot
  <2> QED BY <1>0, <2>1, NothingHeld
<1> HIDE DEF Goal
<1>1. ASSUME NEW c \in Callers, CallerStep(c) PROVE Goal
  <2>1. ASSUME NEW r \in Records, Reserve(c, r) PROVE Goal
    BY <2>1, ReserveSlots DEF Goal
  <2>2. CASE Cancel(c)
    BY <2>2, CancelSlots DEF Goal
  <2>3. ASSUME NEW r \in Records, Refuse(c, r) PROVE Goal
    <3> DEFINE x == [pc |-> "refused", rec |-> r]
    <3>1. /\ call[c].pc = "idle" /\ call' = [call EXCEPT ![c] = x]
          /\ worker' = worker /\ inUse' = inUse /\ outstanding' = outstanding
      BY <2>3 DEF Refuse, lanes
    <3>2. OnlyMoves(c) /\ call'[c] = x
      BY <3>1, CallSets
    <3>3. Held' = Held /\ \A s \in Sources : Slot(s)' = Slot(s)
      BY <3>1, <3>2, WithoutSlot DEF Held
    <3> QED BY <3>1, <3>3, NothingHeld DEF Goal
  <2>4. CASE Commit(c)
    <3>1. /\ call[c].pc = "reserved" /\ call' = [call EXCEPT ![c].pc = "waiting"]
          /\ worker' = worker /\ inUse' = inUse /\ outstanding' = outstanding
      BY <2>4 DEF Commit
    <3>2. OnlyMoves(c) /\ call'[c].pc = "waiting" /\ call'[c].rec = call[c].rec
      BY <3>1, CallMoves
    <3>3. Held' = Held /\ \A s \in Sources : Slot(s)' = Slot(s)
      BY <3>1, <3>2, KeepsSlot DEF Held
    <3> QED BY <3>1, <3>3, NothingHeld DEF Goal
  <2>5. CASE Return(c)
    <3>1. /\ call[c].pc \in {"acked", "refused"} /\ call' = [call EXCEPT ![c] = IdleCall]
          /\ worker' = worker /\ inUse' = inUse /\ outstanding' = outstanding
      BY <2>5 DEF Return, lanes
    <3>2. OnlyMoves(c) /\ call'[c] = IdleCall
      BY <3>1, CallSets
    <3>3. Held' = Held /\ \A s \in Sources : Slot(s)' = Slot(s)
      BY <3>1, <3>2, WithoutSlot DEF Held, IdleCall
    <3> QED BY <3>1, <3>3, NothingHeld DEF Goal
  <2> QED BY <1>1, <2>1, <2>2, <2>3, <2>4, <2>5 DEF CallerStep
<1>2. ASSUME NEW s \in Sources, WorkerStep(s) PROVE Goal
  <2>1. CASE WorkerAnswer(s)
    BY <2>1, AnswerSlots DEF Goal
  <2>2. CASE WorkerRelease(s)
    BY <2>2, ReleaseSlots DEF Goal
  <2>3. ASSUME call' = call, UNCHANGED <<inUse, outstanding>>, worker[s].st # "releasing",
               NEW x, x.st # "releasing", worker' = [worker EXCEPT ![s] = x]
        PROVE  Goal
    BY <1>0, <2>3 DEF Shape, TypeOK
  <2>4. CASE WorkerTake(s)
    <3> DEFINE x == [st |-> "persisting", caller |-> Head(jobs[s]).caller, rec |-> Head(jobs[s]).rec]
    <3>1. x.st # "releasing" /\ worker[s].st # "releasing" /\ worker' = [worker EXCEPT ![s] = x]
          /\ call' = call /\ UNCHANGED <<inUse, outstanding>>
      BY <2>4 DEF WorkerTake
    <3> QED BY <2>3, <3>1
  <2>5. ASSUME call' = call, UNCHANGED <<inUse, outstanding>>, worker[s].st # "releasing",
               NEW st, st # "releasing", worker' = [worker EXCEPT ![s].st = st]
        PROVE  Goal
    <3>1. worker \in [Sources -> WorkerState] /\ worker[s] \in WorkerState
      BY DEF Shape, TypeOK
    <3>2. \A u \in Sources : worker'[u].st = IF u = s THEN st ELSE worker[u].st
      BY <2>5, <3>1 DEF WorkerState
    <3> QED BY <1>0, <2>5, <3>2
  <2>6. CASE WorkerPersist(s)
    <3>1. \E st \in {"durable", "spooling"} : worker' = [worker EXCEPT ![s].st = st]
      BY <2>6 DEF WorkerPersist
    <3>2. worker[s].st # "releasing" /\ call' = call /\ UNCHANGED <<inUse, outstanding>>
      BY <2>6 DEF WorkerPersist, lanes
    <3> QED BY <2>5, <3>1, <3>2
  <2>7. CASE WorkerSpool(s)
    <3>1. \E st \in {"durable", "failed"} : worker' = [worker EXCEPT ![s].st = st]
      BY <2>7 DEF WorkerSpool, AppendOK, AppendFull, AppendFails
    <3>2. worker[s].st # "releasing" /\ call' = call /\ UNCHANGED <<inUse, outstanding>>
      BY <2>7 DEF WorkerSpool, lanes
    <3> QED BY <2>5, <3>1, <3>2
  <2> QED BY <1>2, <2>1, <2>2, <2>4, <2>6, <2>7 DEF WorkerStep
<1>3. CASE ProcessGone
  BY <1>3, GoneSlots DEF Goal
<1>4. CASE Start \/ StopAccepting \/ DrainDone \/ DrainTimeout
  BY <1>0, <1>4 DEF Start, StopAccepting, DrainDone, DrainTimeout, lanes, Goal
<1>5. CASE UNCHANGED <<call, lanes, worker>>
  BY <1>0, <1>5 DEF lanes, Goal
<1> QED BY <1>1, <1>2, <1>3, <1>4, <1>5, OtherSteps DEF Goal

-----------------------------------------------------------------------------
(* The gates, and what a closed queue holds.                               *)

LEMMA GatesKept ==
  ASSUME (\E c \in Callers : CallerStep(c)) \/ (\E s \in Sources : WorkerStep(s))
  PROVE  UNCHANGED process
<1>1. ASSUME NEW c \in Callers, CallerStep(c) PROVE UNCHANGED process
  BY <1>1 DEF CallerStep, Reserve, Refuse, Commit, Cancel, Return
<1>2. ASSUME NEW s \in Sources, WorkerStep(s) PROVE UNCHANGED process
  BY <1>2 DEF WorkerStep, WorkerTake, WorkerPersist, WorkerSpool, WorkerAnswer, WorkerRelease
<1> QED BY <1>1, <1>2

LEMMA GatesStep ==
  ASSUME Shape, Gates, [Next]_vars
  PROVE  Gates'
<1>1. CASE UNCHANGED process
  BY <1>1 DEF Gates, process
<1>2. CASE ProcessGone
  BY <1>2 DEF Gates, ProcessGone
<1>3. CASE Start \/ StopAccepting \/ DrainDone \/ DrainTimeout
  BY <1>3 DEF Gates, process, Start, StopAccepting, DrainDone, DrainTimeout
<1>4. CASE UNCHANGED <<accepting, laneOpen>> /\ phase = "starting" /\ phase' = "serving"
  BY <1>4 DEF Gates
<1> QED BY <1>1, <1>2, <1>3, <1>4, GatesKept, OtherSteps DEF process

\* A lane whose jobs wait for nobody has none.
LEMMA NoWaiterNoJob ==
  ASSUME Shape, \A c \in Callers : call[c].pc # "waiting", NEW s \in Sources
  PROVE  jobs[s] = << >> /\ ~Answering(worker[s])
<1>1. jobs[s] \in Seq(Job) /\ Len(jobs[s]) \in Nat
  BY DEF Shape, TypeOK
<1>2. ASSUME jobs[s] # << >> PROVE FALSE
  <2>1. 1 \in 1 .. Len(jobs[s])
    BY <1>1, <1>2, EmptySeq
  <2>2. jobs[s][1].caller \in Callers
    BY <1>1, <2>1, JobFields
  <2> QED BY <2>1, <2>2 DEF Shape, OneJobPerWaiter, LaneJobs, WaitsIn
<1>3. ~Answering(worker[s])
  BY DEF Shape, OneJobPerWaiter, LaneJobs, WaitsIn, WorkersBusy, Answering
<1> QED BY <1>2, <1>3

LEMMA NoneHeld ==
  ASSUME Shape, SlotAccounting, HeldFinite, outstanding = 0
  PROVE  \A c \in Callers : call[c].pc \notin {"reserved", "waiting"}
<1>1. Cardinality(Held) = 0
  BY Counts
<1>2. Held = {}
  BY <1>1, FS_EmptySet DEF HeldFinite
<1> QED BY <1>2 DEF Held

LEMMA QuiescentStep ==
  ASSUME SlotInv, [Next]_vars
  PROVE  ClosedQuiescent'
<1> SUFFICES ASSUME phase' \in Listening, ~laneOpen'
             PROVE  /\ \A c \in Callers : call'[c].pc \notin {"reserved", "waiting"}
                    /\ \A s \in Sources : jobs'[s] = << >>
  BY DEF ClosedQuiescent
<1> USE DEF SlotInv
<1> DEFINE Quiet == /\ \A c \in Callers : call[c].pc \notin {"reserved", "waiting"}
                    /\ \A s \in Sources : jobs[s] = << >>
<1>1. CASE DrainDone
  <2>1. outstanding = 0 /\ call' = call /\ jobs' = jobs
    BY <1>1 DEF DrainDone, lanes
  <2>2. \A c \in Callers : call[c].pc \notin {"reserved", "waiting"}
    BY <2>1, NoneHeld
  <2> QED BY <2>1, <2>2, NoWaiterNoJob
<1>2. CASE ~DrainDone /\ ~Start /\ ~ProcessGone
  <2>1. laneOpen' = laneOpen /\ (phase' = phase \/ phase \in {"starting", "serving", "draining"})
    BY <1>2, OtherSteps, GatesKept DEF process, StopAccepting, DrainTimeout
  <2>2. phase \in Listening /\ ~laneOpen /\ ~accepting
    BY <2>1 DEF Gates, Listening, Shape, TypeOK, Phases
  <2>3. Quiet
    BY <2>2 DEF ClosedQuiescent
  <2>4. CASE UNCHANGED <<call, lanes>>
    BY <2>3, <2>4 DEF lanes
  <2>5. ASSUME NEW c \in Callers, CallerStep(c)
        PROVE  jobs' = jobs /\ \A d \in Callers : call'[d].pc \notin {"reserved", "waiting"}
    <3>1. ~Commit(c) /\ ~Cancel(c) /\ \A r \in Records : ~Reserve(c, r)
      BY <2>2, <2>3 DEF Commit, Cancel, Reserve
    <3>2. OnlyMoves(c) /\ call'[c].pc \notin {"reserved", "waiting"} =>
            \A d \in Callers : call'[d].pc \notin {"reserved", "waiting"}
      BY <2>3 DEF OnlyMoves
    <3>3. ASSUME NEW r \in Records, Refuse(c, r)
          PROVE  jobs' = jobs /\ OnlyMoves(c) /\ call'[c].pc \notin {"reserved", "waiting"}
      <4> DEFINE x == [pc |-> "refused", rec |-> r]
      <4>1. jobs' = jobs /\ call' = [call EXCEPT ![c] = x]
        BY <3>3 DEF Refuse, lanes
      <4>2. OnlyMoves(c) /\ call'[c] = x
        BY <4>1, CallSets
      <4> QED BY <4>1, <4>2
    <3>4. ASSUME Return(c)
          PROVE  jobs' = jobs /\ OnlyMoves(c) /\ call'[c].pc \notin {"reserved", "waiting"}
      <4>1. jobs' = jobs /\ call' = [call EXCEPT ![c] = IdleCall]
        BY <3>4 DEF Return, lanes
      <4>2. OnlyMoves(c) /\ call'[c] = IdleCall
        BY <4>1, CallSets
      <4> QED BY <4>1, <4>2 DEF IdleCall
    <3> QED BY <2>5, <3>1, <3>2, <3>3, <3>4 DEF CallerStep
  <2>6. ASSUME NEW s \in Sources, WorkerStep(s) PROVE UNCHANGED <<call, jobs>>
    <3>1. jobs[s] = << >> /\ ~Answering(worker[s])
      BY <2>3, NoWaiterNoJob
    <3>2. ~WorkerTake(s) /\ ~WorkerPersist(s) /\ ~WorkerSpool(s) /\ ~WorkerAnswer(s)
      BY <3>1 DEF WorkerTake, WorkerPersist, WorkerSpool, WorkerAnswer, Answering
    <3> QED BY <2>6, <3>2 DEF WorkerStep, WorkerRelease
  <2>7. CASE StopAccepting \/ DrainTimeout
    BY <2>3, <2>7 DEF StopAccepting, DrainTimeout, lanes
  <2> QED BY <1>2, <2>3, <2>4, <2>5, <2>6, <2>7, OtherSteps
<1>3. ~Start /\ ~ProcessGone
  BY DEF Start, ProcessGone, Listening
<1> QED BY <1>1, <1>2, <1>3

-----------------------------------------------------------------------------
\* Every job in the channel of a lane belongs to a caller that holds a slot of
\* it, and so does a reservation: there is room for the job it will send.
LEMMA RoomToSend ==
  ASSUME SlotInv, NEW c \in Callers, call[c].pc = "reserved"
  PROVE  laneOpen /\ Len(jobs[LaneOf[call[c].rec]]) < Capacity[LaneOf[call[c].rec]]
<1> USE DEF SlotInv
<1> DEFINE s == LaneOf[call[c].rec]
           queue == jobs[s]
           n == Len(queue)
           f == [i \in 1 .. n |-> queue[i].caller]
           others == Slot(s) \ {c}
<1>1. s \in Sources
  BY LaneOfCall
<1>2. queue \in Seq(Job) /\ n \in Nat
  BY <1>1 DEF Shape, TypeOK
<1>3. LaneJobs(queue, worker[s], call, s)
  BY <1>1 DEF Shape, OneJobPerWaiter
<1> HIDE DEF s, queue
<1>4. ASSUME NEW i \in 1 .. n PROVE queue[i].caller \in others
  <2>1. queue[i].caller \in Callers /\ WaitsIn(call[queue[i].caller], queue[i].rec, s)
    BY <1>2, <1>3, JobFields DEF LaneJobs
  <2> QED BY <2>1 DEF WaitsIn, Slot, HoldsSlot
<1>5. \A i, j \in 1 .. n : queue[i].caller = queue[j].caller => i = j
  BY <1>3 DEF LaneJobs
<1>6. f \in Injection(1 .. n, others)
  BY <1>4, <1>5 DEF Injection, IsInjective
<1>7. c \in Slot(s) /\ IsFiniteSet(Slot(s))
  BY <1>1 DEF Slot, HoldsSlot, HeldFinite, s
<1>8. IsFiniteSet(others) /\ Cardinality(others) = Cardinality(Slot(s)) - 1
  BY <1>7, FS_RemoveElement
<1>9. IsFiniteSet(1 .. n) /\ Cardinality(1 .. n) = n
  BY <1>2, FS_Interval
<1>10. n <= Cardinality(others)
  BY <1>6, <1>8, <1>9, FS_Injection
<1>11. Cardinality(Slot(s)) <= Capacity[s] /\ Cardinality(Slot(s)) \in Nat /\ Capacity[s] \in Nat
  <2>1. Bit(s) \in {0, 1}
    BY DEF Bit
  <2> QED BY <1>1, <2>1, Counts
<1>12. n < Capacity[s]
  BY <1>2, <1>8, <1>10, <1>11
<1>13. laneOpen
  <2>1. phase \in Listening
    BY DEF Shape, TypeOK, ColdProcess, Phases, Listening
  <2> QED BY <2>1 DEF ClosedQuiescent
<1> QED BY <1>12, <1>13 DEF s, queue

LEMMA SlotInit == Init => SlotInv
<1> SUFFICES ASSUME Init PROVE SlotInv
  OBVIOUS
<1>1. \A c \in Callers : call[c].pc = "idle"
  BY DEF Init, IdleCall
<1>2. \A s \in Sources : worker[s].st = "idle" /\ inUse[s] = 0
  BY DEF Init, IdleWorker
<1>3. Held = {} /\ Releasing = {} /\ \A s \in Sources : Slot(s) = {} /\ Bit(s) = 0
  BY <1>1, <1>2 DEF Held, Releasing, Slot, HoldsSlot, Bit
<1>4. HeldFinite
  BY <1>3, FS_EmptySet DEF HeldFinite
<1>5. SlotAccounting
  <2>1. outstanding = 0 /\ Cardinality({}) = 0
    BY FS_EmptySet DEF Init
  <2>2. \A s \in Sources : 0 <= Capacity[s]
    BY LanesAssumption
  <2>3. \A s \in Sources : {c \in Callers : HoldsSlot(c, s)} = {} /\ worker[s].st # "releasing"
    BY <1>2, <1>3 DEF Slot
  <2>4. ASSUME NEW s \in Sources
        PROVE  /\ inUse[s] <= Capacity[s]
               /\ inUse[s] = Cardinality({c \in Callers : HoldsSlot(c, s)})
                             + IF worker[s].st = "releasing" THEN 1 ELSE 0
    <3>1. inUse[s] = 0 /\ 0 <= Capacity[s] /\ worker[s].st # "releasing"
      BY <1>2, <2>2, <2>3
    <3>2. Cardinality({c \in Callers : HoldsSlot(c, s)}) = 0
      BY <2>1, <2>3
    <3> QED BY <3>1, <3>2
  <2>5. outstanding = Cardinality(Held) + Cardinality(Releasing)
    <3>1. Cardinality(Held) = 0 /\ Cardinality(Releasing) = 0
      BY <1>3, <2>1
    <3> QED BY <2>1, <3>1
  <2> QED BY <2>4, <2>5 DEF SlotAccounting, Held, Releasing
<1>6. Gates /\ ClosedQuiescent
  BY DEF Init, Gates, ClosedQuiescent, Listening
<1> QED BY <1>4, <1>5, <1>6, InitShape DEF SlotInv

\* Slots, the WaitGroup, the room in the channels and the answers are accounted
\* for together (ReserveNormalizedFact, Commit, Cancel, release, runLane, Drain
\* and Close, for any number of callers and lanes of any capacity): each slot
\* in use is somebody's, a reservation can always send at once on an open
\* channel, and a closed queue has neither a job nor a waiting caller.
THEOREM SlotsAreAccounted == Spec => []QueueAccounted
<1>1. SlotInv /\ [Next]_vars => SlotInv'
  BY ShapeStep, SlotsStep, GatesStep, QuiescentStep DEF SlotInv
<1>2. SlotInv => QueueAccounted
  BY RoomToSend DEF SlotInv, QueueAccounted, ReservedSendsAtOnce, Shape
<1> QED BY <1>1, <1>2, SlotInit, PTL DEF Spec

-----------------------------------------------------------------------------
(* The startup replay.                                                     *)

\* The lanes behind the startup replay are empty: nothing can append to them
\* before the listeners open.
PassedEmpty ==
  phase = "starting" =>
    \A i \in 1 .. Len(LaneOrder) :
      i < replay[Scheduler].at => spool[LaneOrder[i]].frames = << >>

\* No step of a starting process adds a line to a file.
LEMMA QuietFiles ==
  ASSUME Shape, [Next]_vars, phase = "starting", phase' # "down", NEW t \in Sources
  PROVE  spool'[t].frames = spool[t].frames \/ spool'[t].frames = << >>
<1> DEFINE Goal == spool'[t].frames = spool[t].frames \/ spool'[t].frames = << >>
<1> USE DEF process, lanes, database, history, budget
<1>0. spool \in [Sources -> SpoolFile]
  BY DEF Shape, TypeOK
<1>1. ASSUME NEW c \in Callers, CallerStep(c) PROVE Goal
  BY <1>1, CallerFrame
<1>2. ASSUME NEW s \in Sources, WorkerStep(s) PROVE Goal
  <2>1. worker[s].st = "idle" /\ jobs[s] = << >>
    BY DEF Shape, ColdProcess, Listening
  <2>2. ~WorkerStep(s)
    BY <2>1 DEF WorkerStep, WorkerTake, WorkerPersist, WorkerSpool, WorkerAnswer, WorkerRelease
  <2> QED BY <1>2, <2>2
<1>3. ASSUME NEW p \in Replayers, ReplayStep(p) PROVE Goal
  <2>1. CASE ReplayDrain(p)
    <3>1. spool' = spool \/ spool' = [spool EXCEPT ![LaneAt(p)] = DrainCreated(spool[LaneAt(p)])]
      BY <2>1 DEF ReplayDrain
    <3>2. DrainCreated(spool[t]).frames = spool[t].frames
      BY <1>0 DEF DrainCreated, SpoolFile
    <3>3. spool'[t] = spool[t] \/ spool'[t] = DrainCreated(spool[t])
      BY <1>0, <3>1
    <3> QED BY <3>2, <3>3
  <2>2. CASE ReplayRename(p)
    <3>1. spool' = spool \/ spool' = [spool EXCEPT ![LaneAt(p)] = EmptySpool]
      BY <2>2 DEF ReplayRename, DrainRenamed
    <3>2. spool'[t] = spool[t] \/ spool'[t] = EmptySpool
      BY <1>0, <3>1
    <3> QED BY <3>2 DEF EmptySpool
  <2>3. CASE ReplayBegin(p) \/ ReplayOpen(p) \/ ReplayLine(p)
    BY <2>3 DEF ReplayBegin, ReplayOpen, ReplayLine
  <2> QED BY <1>3, <2>1, <2>2, <2>3 DEF ReplayStep
<1>4. CASE ProcessStep \/ DatabaseFails \/ DatabaseRecovers \/ UNCHANGED vars
  <2>1. ~Crash
    BY DEF Crash, ProcessGone
  <2> QED BY <1>4, <2>1, ProcessFrame
<1> QED BY <1>1, <1>2, <1>3, <1>4 DEF Next

\* A process that has begun to serve does not start again before it ends.
LEMMA Listens ==
  ASSUME [Next]_vars, phase \in Listening
  PROVE  phase' # "starting"
<1>1. CASE UNCHANGED phase
  BY <1>1 DEF Listening
<1>2. CASE ProcessGone
  BY <1>2 DEF ProcessGone
<1>3. CASE Start \/ StopAccepting \/ DrainDone \/ DrainTimeout
  BY <1>3 DEF Start, StopAccepting, DrainDone, DrainTimeout, Listening
<1> QED BY <1>1, <1>2, <1>3, GatesKept, OtherSteps DEF process

\* The lane the startup replay leaves is as empty as those behind it; when it
\* leaves the last one, they all are.
LEMMA PassedEmptyStep ==
  ASSUME Shape, PassedEmpty, [Next]_vars
  PROVE  /\ PassedEmpty'
         /\ phase = "starting" /\ phase' = "serving" =>
              \A s \in Sources : spool'[s].frames = << >>
<1> DEFINE at == replay[Scheduler].at
           PassedNext(n) == \A i \in 1 .. Len(LaneOrder) :
                              i < n => spool'[LaneOrder[i]].frames = << >>
           Goal == /\ PassedEmpty'
                   /\ phase = "starting" /\ phase' = "serving" =>
                        \A s \in Sources : spool'[s].frames = << >>
<1>1. CASE phase' = "down" \/ phase \in Listening
  <2>1. phase' # "starting" /\ ~(phase = "starting" /\ phase' = "serving")
    <3>1. phase \in Listening => phase' # "starting"
      BY Listens DEF Listening
    <3> QED BY <1>1, <3>1 DEF Listening
  <2> QED BY <2>1 DEF PassedEmpty
<1>2. CASE phase = "down" /\ phase' = "starting" /\ replay'[Scheduler].at = 1
  <2>1. \A i \in 1 .. Len(LaneOrder) : ~(i < 1)
    OBVIOUS
  <2> QED BY <1>2, <2>1 DEF PassedEmpty
<1>3. ASSUME phase = "starting", phase' # "down" PROVE PassedNext(at)
  <2>1. ASSUME NEW i \in 1 .. Len(LaneOrder), i < at PROVE spool'[LaneOrder[i]].frames = << >>
    BY <1>3, <2>1, QuietFiles, LaneInSources DEF PassedEmpty
  <2> QED BY <2>1
<1>4. CASE /\ phase = "starting" /\ phase' = "starting"
           /\ replay'[Scheduler].at = at
  BY <1>3, <1>4 DEF PassedEmpty
<1>5. CASE /\ phase = "starting" /\ at \in 1 .. Len(LaneOrder)
           /\ \/ spool[LaneAt(Scheduler)].frames = << >> /\ spool' = spool
              \/ spool'[LaneAt(Scheduler)] = EmptySpool
           /\ \/ phase' = "starting" /\ replay'[Scheduler].at = at + 1
              \/ phase' = "serving" /\ at = Len(LaneOrder)
  <2>1. spool'[LaneOrder[at]].frames = << >>
    BY <1>5 DEF EmptySpool, LaneAt
  <2>2. PassedNext(at + 1)
    <3>1. PassedNext(at)
      BY <1>3, <1>5
    <3>2. at \in Int /\ Len(LaneOrder) \in Nat
      BY <1>5, LanesAssumption
    <3> QED BY <2>1, <3>1, <3>2
  <2>3. CASE phase' = "starting" /\ replay'[Scheduler].at = at + 1
    BY <2>2, <2>3 DEF PassedEmpty
  <2>4. CASE phase' = "serving" /\ at = Len(LaneOrder)
    <3>1. Len(LaneOrder) \in Nat
      BY LanesAssumption
    <3>2. \A i \in 1 .. Len(LaneOrder) : spool'[LaneOrder[i]].frames = << >>
      BY <2>2, <2>4, <3>1
    <3>3. \A s \in Sources : spool'[s].frames = << >>
      BY <3>2, LanesAssumption
    <3> QED BY <2>4, <3>3 DEF PassedEmpty
  <2> QED BY <1>5, <2>3, <2>4
<1> QED BY <1>1, <1>2, <1>4, <1>5, StartMoves DEF StartMove

\* The listeners open on empty spools (NewAppliance replays every lane before
\* it serves): what was spooled before a stop is complete before anything new
\* is accepted, whatever failed or stopped before.
THEOREM ReplaysBeforeReady == Spec => ReplayBeforeReady
<1> DEFINE Ready == [phase = "starting" /\ phase' = "serving"
                       => \A s \in Sources : spool'[s].frames = << >>]_vars
           Inv == Shape /\ PassedEmpty
<1>1. Init => Inv
  <2>1. Init => PassedEmpty
    BY DEF Init, PassedEmpty
  <2> QED BY <2>1, InitShape
<1>2. Inv /\ [Next]_vars => Inv' /\ Ready
  BY ShapeStep, PassedEmptyStep
<1> QED BY <1>1, <1>2, PTL DEF Spec, ReplayBeforeReady
=============================================================================
