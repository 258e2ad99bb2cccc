----------------------------- MODULE IngressQueue -----------------------------
(***************************************************************************)
(* DurableIngressQueue (internal/runtime/queue.go) inside the appliance    *)
(* process that owns it (internal/runtime/assembly.go).                    *)
(*                                                                         *)
(* Request goroutines reserve a lane slot, send a job to the lane's worker *)
(* and wait; the worker hands the record to PostgreSQL and, when that      *)
(* fails, appends it to the lane's spool file.  ReplaySpools runs before   *)
(* the listeners open, every 15 seconds afterwards, and whenever an        *)
(* operator runs a projection repair; it holds the spool's mutex while it  *)
(* commits every line and drains the file.  Everything except the files,   *)
(* the database and what clients were told dies with the process.          *)
(***************************************************************************)
EXTENDS DurableSpool, Integers, FiniteSets

CONSTANTS
  Callers,      \* request goroutines (hooks, OTLP handlers, rollout watcher)
  Sources,      \* source kinds: one lane, worker and spool file each
  LaneOf,       \* the source kind of a record
  LaneOrder,    \* productionSources, the order in which lanes are replayed
  Capacity,     \* slots of a lane
  Replayers,    \* goroutines that may run ReplaySpools
  Scheduler,    \* the one that runs it at startup and then every 15 seconds
  Poison,       \* records PostgreSQL or a projection refuses every time
  WriteFaults,  \* whether write(2) may fail after writing a prefix
  None,         \* no record, no caller
  MaxStops,     \* bound: crashes and shutdowns
  MaxFaults,    \* bound: failing file operations
  MaxOutages    \* bound: times the database goes away

ASSUME LanesAssumption ==
  /\ LaneOf \in [Records -> Sources]
  /\ LaneOrder \in Seq(Sources)
  /\ \A s \in Sources : \E i \in 1 .. Len(LaneOrder) : LaneOrder[i] = s
  /\ LaneOrder # << >>
  /\ Capacity \in [Sources -> Nat \ {0}]

ASSUME ProcessAssumption ==
  /\ Scheduler \in Replayers
  /\ Poison \subseteq Records
  /\ None \notin Records \cup Callers
  /\ WriteFaults \in BOOLEAN
  /\ {MaxStops, MaxFaults, MaxOutages} \subseteq Nat

VARIABLES
  phase,        \* of the process: down, starting, serving, draining, closing
  accepting,    \* DurableIngressQueue.accepting
  laneOpen,     \* FALSE once Close has closed the job channels
  call,         \* what each request goroutine is doing, and with which record
  inUse,        \* queueLane.inUse
  outstanding,  \* the WaitGroup that Drain and Close wait for
  jobs,         \* queueLane.jobs: channel contents
  worker,       \* the goroutine of runLane
  spool,        \* the spool file of each lane
  replay,       \* progress of each ReplaySpools call
  facts,        \* records whose canonical fact PostgreSQL holds
  settled,      \* records whose projections are complete as well
  dbUp,
  acked,        \* history: records whose submission was answered with success
  checkpointed, \* history: records the local checkpoint moved past
  stops, faults, outages

process == <<phase, accepting, laneOpen>>
lanes == <<inUse, outstanding, jobs>>
database == <<facts, settled>>
history == <<acked, checkpointed>>
budget == <<stops, faults, outages>>

vars == <<process, call, lanes, worker, spool, replay, database, dbUp,
          history, budget>>

-----------------------------------------------------------------------------
Phases == {"down", "starting", "serving", "draining", "closing"}
Listening == {"serving", "draining", "closing"}

CallState == [pc : {"idle", "reserved", "waiting", "acked", "refused"},
              rec : Records \cup {None}]
IdleCall == [pc |-> "idle", rec |-> None]

Job == [caller : Callers, rec : Records]

WorkerState ==
  [st : {"idle", "persisting", "spooling", "durable", "failed", "releasing"},
   caller : Callers \cup {None}, rec : Records \cup {None}]
IdleWorker == [st |-> "idle", caller |-> None, rec |-> None]

ReplayState == [st : {"idle", "opening", "committing", "draining", "renaming"},
                at : Nat, pos : Nat]
IdleReplay == [st |-> "idle", at |-> 0, pos |-> 0]
FirstLane == [st |-> "opening", at |-> 1, pos |-> 0]

Init ==
  /\ phase = "down"
  /\ accepting = FALSE
  /\ laneOpen = FALSE
  /\ call = [c \in Callers |-> IdleCall]
  /\ inUse = [s \in Sources |-> 0]
  /\ outstanding = 0
  /\ jobs = [s \in Sources |-> << >>]
  /\ worker = [s \in Sources |-> IdleWorker]
  /\ spool = [s \in Sources |-> EmptySpool]
  /\ replay = [p \in Replayers |-> IdleReplay]
  /\ facts = {}
  /\ settled = {}
  /\ dbUp = TRUE
  /\ acked = {}
  /\ checkpointed = {}
  /\ stops = 0
  /\ faults = 0
  /\ outages = 0

\* What is left of the process's memory when it has exited.
ProcessGone ==
  /\ phase' = "down"
  /\ accepting' = FALSE
  /\ laneOpen' = FALSE
  /\ call' = [c \in Callers |-> IdleCall]
  /\ inUse' = [s \in Sources |-> 0]
  /\ outstanding' = 0
  /\ jobs' = [s \in Sources |-> << >>]
  /\ worker' = [s \in Sources |-> IdleWorker]
  /\ replay' = [p \in Replayers |-> IdleReplay]

-----------------------------------------------------------------------------
(* The sink: ObservabilityHandoff.PersistNormalizedFact.  It commits the   *)
(* canonical fact first and its projections in a second transaction, so an *)
(* error may leave the fact behind ("pending").  A closed pool fails every *)
(* call that has no connection yet.                                        *)
SinkOutcomes(r) ==
  IF dbUp /\ r \notin Poison
    THEN IF phase = "closing" THEN {"committed", "pending", "failed"}
                              ELSE {"committed"}
    ELSE {"pending", "failed"}

\* Deviation: the projections are committed before the fact.
PersistProjectionsFirst(r, outcome) ==
  /\ settled' = IF outcome = "failed" THEN settled ELSE settled \cup {r}
  /\ facts' = IF outcome = "committed" THEN facts \cup {r} ELSE facts

Persist(r, outcome) ==
  /\ facts' = IF outcome = "failed" THEN facts ELSE facts \cup {r}
  /\ settled' = IF outcome = "committed" THEN settled \cup {r} ELSE settled

\* DurableSpool.mu is held from the read of the file to the end of the drain.
LaneAt(p) == LaneOrder[replay[p].at]
Holds(p, s) ==
  /\ replay[p].st \in {"committing", "draining", "renaming"}
  /\ LaneAt(p) = s
MutexFree(s) == \A p \in Replayers : ~Holds(p, s)

Fault ==
  /\ faults < MaxFaults
  /\ faults' = faults + 1

-----------------------------------------------------------------------------
(* Request goroutines.                                                     *)

\* Deviation: the slot is taken without looking at accepting.
ReserveUnchecked(c, r) ==
  LET s == LaneOf[r] IN
  /\ phase \in Listening
  /\ call[c].pc = "idle"
  /\ inUse[s] < Capacity[s]
  /\ inUse' = [inUse EXCEPT ![s] = @ + 1]
  /\ outstanding' = outstanding + 1
  /\ call' = [call EXCEPT ![c] = [pc |-> "reserved", rec |-> r]]
  /\ UNCHANGED <<process, jobs, worker, spool, replay, database, dbUp, history, budget>>

\* ReserveNormalizedFact, success: the slot is taken under stateMu.RLock, so
\* StopAccepting cannot come between the test of accepting and the increment.
Reserve(c, r) ==
  LET s == LaneOf[r] IN
  /\ phase \in Listening
  /\ call[c].pc = "idle"
  /\ accepting
  /\ inUse[s] < Capacity[s]
  /\ inUse' = [inUse EXCEPT ![s] = @ + 1]
  /\ outstanding' = outstanding + 1
  /\ call' = [call EXCEPT ![c] = [pc |-> "reserved", rec |-> r]]
  /\ UNCHANGED <<process, jobs, worker, spool, replay, database, dbUp, history, budget>>

\* ReserveNormalizedFact, ErrBackpressure or ErrDurabilityUnavailable.
Refuse(c, r) ==
  /\ phase \in Listening
  /\ call[c].pc = "idle"
  /\ accepting => inUse[LaneOf[r]] >= Capacity[LaneOf[r]]
  /\ call' = [call EXCEPT ![c] = [pc |-> "refused", rec |-> r]]
  /\ UNCHANGED <<process, lanes, worker, spool, replay, database, dbUp, history, budget>>

\* queueReservation.Commit up to the send: it blocks while the channel is full.
Commit(c) ==
  LET s == LaneOf[call[c].rec] IN
  /\ call[c].pc = "reserved"
  /\ Len(jobs[s]) < Capacity[s]
  /\ jobs' = [jobs EXCEPT ![s] = Append(@, [caller |-> c, rec |-> call[c].rec])]
  /\ call' = [call EXCEPT ![c].pc = "waiting"]
  /\ UNCHANGED <<process, inUse, outstanding, worker, spool, replay, database, dbUp, history, budget>>

\* release: the slot first, the WaitGroup after it.
Release(s) ==
  /\ inUse' = [inUse EXCEPT ![s] = @ - 1]
  /\ outstanding' = outstanding - 1

\* Deviation: Cancel does not test completed.
CancelCompleted(c) ==
  /\ call[c].pc \in {"reserved", "acked", "refused"}
  /\ Release(LaneOf[call[c].rec])
  /\ call' = [call EXCEPT ![c] = IdleCall]
  /\ UNCHANGED <<process, jobs, worker, spool, replay, database, dbUp, history, budget>>

\* Cancel of a reservation that was never committed; after Commit it is a no-op.
Cancel(c) ==
  /\ call[c].pc = "reserved"
  /\ Release(LaneOf[call[c].rec])
  /\ call' = [call EXCEPT ![c] = IdleCall]
  /\ UNCHANGED <<process, jobs, worker, spool, replay, database, dbUp, history, budget>>

\* Deviation: the checkpoint moves whatever Commit returned.
ReturnUnchecked(c) ==
  /\ call[c].pc \in {"acked", "refused"}
  /\ checkpointed' = checkpointed \cup {call[c].rec}
  /\ call' = [call EXCEPT ![c] = IdleCall]
  /\ UNCHANGED <<process, lanes, worker, spool, replay, database, dbUp, acked, budget>>

\* The rest of ingestSafeForInstallation: after a success the compact store
\* moves its checkpoint, and its failure is swallowed.  The deferred Cancel
\* finds the reservation completed.
Return(c) ==
  /\ call[c].pc \in {"acked", "refused"}
  /\ \/ /\ call[c].pc = "acked"
        /\ checkpointed' = checkpointed \cup {call[c].rec}
     \/ UNCHANGED checkpointed
  /\ call' = [call EXCEPT ![c] = IdleCall]
  /\ UNCHANGED <<process, lanes, worker, spool, replay, database, dbUp, acked, budget>>

-----------------------------------------------------------------------------
(* runLane, one worker per lane.                                           *)

\* Deviation: the job stays in the channel.
WorkerPeek(s) ==
  /\ worker[s].st = "idle"
  /\ jobs[s] # << >>
  /\ worker' = [worker EXCEPT ![s] = [st |-> "persisting",
                                      caller |-> Head(jobs[s]).caller,
                                      rec |-> Head(jobs[s]).rec]]
  /\ UNCHANGED <<process, call, lanes, spool, replay, database, dbUp, history, budget>>

WorkerTake(s) ==
  /\ worker[s].st = "idle"
  /\ jobs[s] # << >>
  /\ worker' = [worker EXCEPT ![s] = [st |-> "persisting",
                                      caller |-> Head(jobs[s]).caller,
                                      rec |-> Head(jobs[s]).rec]]
  /\ jobs' = [jobs EXCEPT ![s] = Tail(@)]
  /\ UNCHANGED <<process, call, inUse, outstanding, spool, replay, database, dbUp, history, budget>>

WorkerPersist(s) ==
  /\ worker[s].st = "persisting"
  /\ \E o \in SinkOutcomes(worker[s].rec) :
       /\ Persist(worker[s].rec, o)
       /\ worker' = [worker EXCEPT ![s].st =
                       IF o = "committed" THEN "durable" ELSE "spooling"]
  /\ UNCHANGED <<process, call, lanes, spool, replay, dbUp, history, budget>>

\* DurableSpool.Append, one critical section of DurableSpool.mu.
AppendOK(s) ==
  /\ HasRoom(spool[s])
  /\ spool' = [spool EXCEPT ![s] = Appended(@, worker[s].rec)]
  /\ worker' = [worker EXCEPT ![s].st = "durable"]
  /\ UNCHANGED faults

AppendFull(s) ==
  /\ ~HasRoom(spool[s])
  /\ worker' = [worker EXCEPT ![s].st = "failed"]
  /\ UNCHANGED <<spool, faults>>

\* An error before the first byte, after the last one (fsync), or in between.
AppendFails(s) ==
  /\ Fault
  /\ \/ UNCHANGED spool
     \/ /\ HasRoom(spool[s])
        /\ spool' = [spool EXCEPT ![s] = Appended(@, worker[s].rec)]
     \/ /\ HasRoom(spool[s])
        /\ WriteFaults
        /\ spool' = [spool EXCEPT ![s] = TornAppended(@, worker[s].rec)]
  /\ worker' = [worker EXCEPT ![s].st = "failed"]

WorkerSpool(s) ==
  /\ worker[s].st = "spooling"
  /\ MutexFree(s)
  /\ AppendOK(s) \/ AppendFull(s) \/ AppendFails(s)
  /\ UNCHANGED <<process, call, lanes, replay, database, dbUp, history, stops, outages>>

\* Deviation: a job that failed gets no answer.
WorkerAnswerSuccess(s) ==
  /\ worker[s].st = "durable"
  /\ call' = [call EXCEPT ![worker[s].caller].pc = "acked"]
  /\ acked' = acked \cup {worker[s].rec}
  /\ worker' = [worker EXCEPT ![s].st = "releasing"]
  /\ UNCHANGED <<process, lanes, spool, replay, database, dbUp, checkpointed, budget>>

\* job.result <- err: the channel is buffered, so the worker never waits.
WorkerAnswer(s) ==
  /\ worker[s].st \in {"durable", "failed"}
  /\ call' = [call EXCEPT ![worker[s].caller].pc =
                IF worker[s].st = "durable" THEN "acked" ELSE "refused"]
  /\ acked' = IF worker[s].st = "durable" THEN acked \cup {worker[s].rec} ELSE acked
  /\ worker' = [worker EXCEPT ![s].st = "releasing"]
  /\ UNCHANGED <<process, lanes, spool, replay, database, dbUp, checkpointed, budget>>

WorkerRelease(s) ==
  /\ worker[s].st = "releasing"
  /\ Release(s)
  /\ worker' = [worker EXCEPT ![s] = IdleWorker]
  /\ UNCHANGED <<process, call, jobs, spool, replay, database, dbUp, history, budget>>

-----------------------------------------------------------------------------
(* ReplaySpools and DurableSpool.Replay.                                   *)

\* The scheduler's ticker may still be chosen after the context is done; an
\* operator's repair needs the API listener.
ReplayBegin(p) ==
  /\ phase \in IF p = Scheduler THEN Listening ELSE {"serving"}
  /\ replay[p].st = "idle"
  /\ replay' = [replay EXCEPT ![p] = FirstLane]
  /\ UNCHANGED <<process, call, lanes, worker, spool, database, dbUp, history, budget>>

\* Deviation: the pass ends with the first lane.
NextLaneNever(p) ==
  /\ replay' = [replay EXCEPT ![p] = IdleReplay]
  /\ phase' = IF phase = "starting" THEN "serving" ELSE phase
  /\ UNCHANGED <<accepting, laneOpen, call, lanes, worker>>

\* The next lane; after the last one a startup replay opens the listeners.
NextLane(p) ==
  IF replay[p].at < Len(LaneOrder)
    THEN /\ replay' = [replay EXCEPT ![p] = [st |-> "opening", at |-> @.at + 1, pos |-> 0]]
         /\ UNCHANGED <<process, call, lanes, worker>>
    ELSE /\ replay' = [replay EXCEPT ![p] = IdleReplay]
         /\ phase' = IF phase = "starting" THEN "serving" ELSE phase
         /\ UNCHANGED <<accepting, laneOpen, call, lanes, worker>>

\* Deviation: startup ignores the error as the scheduler does.
ReplayAbortIgnored(p) ==
  /\ replay' = [replay EXCEPT ![p] = IdleReplay]
  /\ phase' = IF phase = "starting" THEN "serving" ELSE phase
  /\ UNCHANGED <<accepting, laneOpen, call, lanes, worker>>

\* Deviation: startup gives up but the process does not exit.
ReplayAbortHangs(p) ==
  /\ replay' = [replay EXCEPT ![p] = IdleReplay]
  /\ UNCHANGED <<process, call, lanes, worker>>

\* The first error ends the whole pass: later lanes are not tried.  The
\* scheduler ignores it; NewAppliance gives up and the process exits.
ReplayAbort(p) ==
  IF phase = "starting"
    THEN ProcessGone
    ELSE /\ replay' = [replay EXCEPT ![p] = IdleReplay]
         /\ UNCHANGED <<process, call, lanes, worker>>

\* readSecureSpool: no file and an empty one hold nothing to replay; a file that
\* cannot be opened or read ends the pass, as one that ends in half a line does.
ReplayOpen(p) ==
  LET file == spool[LaneAt(p)] IN
  /\ replay[p].st = "opening"
  /\ MutexFree(LaneAt(p))
  /\ \/ /\ file.frames = << >>
        /\ NextLane(p)
        /\ UNCHANGED faults
     \/ /\ file.open
        /\ ReplayAbort(p)
        /\ UNCHANGED faults
     \/ /\ Fault
        /\ ReplayAbort(p)
     \/ /\ file.frames # << >>
        /\ ~file.open
        /\ replay' = [replay EXCEPT ![p].st = "committing", ![p].pos = 1]
        /\ UNCHANGED <<process, call, lanes, worker, faults>>
  /\ UNCHANGED <<spool, database, dbUp, history, stops, outages>>

\* Deviation: a durable fact counts as replayed before its projections do.
LineReplayedIfDurable(outcome) == outcome # "failed"

\* The commit callback returned nil.
LineReplayed(outcome) == outcome = "committed"

\* One line: decode it, hand it to the sink; the last line leads to the drain.
ReplayLine(p) ==
  LET frames == spool[LaneAt(p)].frames
      frame == frames[replay[p].pos] IN
  /\ replay[p].st = "committing"
  /\ \/ /\ ~frame.whole
        /\ ReplayAbort(p)
        /\ UNCHANGED database
     \/ /\ frame.whole
        /\ \E o \in SinkOutcomes(frame.rec) :
             /\ Persist(frame.rec, o)
             /\ IF LineReplayed(o)
                  THEN /\ replay' = IF replay[p].pos < Len(frames)
                                      THEN [replay EXCEPT ![p].pos = @ + 1]
                                      ELSE [replay EXCEPT ![p].st = "draining"]
                       /\ UNCHANGED <<process, call, lanes, worker>>
                  ELSE ReplayAbort(p)
  /\ UNCHANGED <<spool, dbUp, history, budget>>

\* drainSecureSpool opens "<name>.drained" with O_EXCL ...
ReplayDrain(p) ==
  LET s == LaneAt(p) IN
  /\ replay[p].st = "draining"
  /\ \/ /\ ~spool[s].temp
        /\ spool' = [spool EXCEPT ![s] = DrainCreated(@)]
        /\ replay' = [replay EXCEPT ![p].st = "renaming"]
        /\ UNCHANGED <<process, call, lanes, worker, faults>>
     \/ /\ spool[s].temp
        /\ ReplayAbort(p)
        /\ UNCHANGED <<spool, faults>>
     \/ /\ Fault
        /\ ReplayAbort(p)
        /\ UNCHANGED spool
  /\ UNCHANGED <<database, dbUp, history, stops, outages>>

\* ... and renames it over the spool.  A failing fsync or rename leaves the
\* temporary file where it is; a failing directory fsync comes too late.
ReplayRename(p) ==
  LET s == LaneAt(p) IN
  /\ replay[p].st = "renaming"
  /\ \/ /\ spool' = [spool EXCEPT ![s] = DrainRenamed(@)]
        /\ NextLane(p)
        /\ UNCHANGED faults
     \/ /\ Fault
        /\ ReplayAbort(p)
        /\ spool' = spool \/ spool' = [spool EXCEPT ![s] = DrainRenamed(@)]
  /\ UNCHANGED <<database, dbUp, history, stops, outages>>

-----------------------------------------------------------------------------
(* The process and its environment.                                        *)

\* NewAppliance: ping, migrations, a fresh queue with running workers, and
\* then ReplaySpools before anything can reach the queue.
Start ==
  /\ phase = "down"
  /\ dbUp
  /\ phase' = "starting"
  /\ accepting' = TRUE
  /\ laneOpen' = TRUE
  /\ replay' = [replay EXCEPT ![Scheduler] = FirstLane]
  /\ UNCHANGED <<call, lanes, worker, spool, database, dbUp, history, budget>>

Stop ==
  /\ stops < MaxStops
  /\ stops' = stops + 1

\* The process or its host dies.  An append in progress may leave nothing, a
\* prefix, or the whole record in the file.
Crash ==
  /\ phase # "down"
  /\ Stop
  /\ \E torn, written \in SUBSET {s \in Sources : worker[s].st = "spooling"
                                                  /\ MutexFree(s)
                                                  /\ HasRoom(spool[s])} :
       /\ torn \cap written = {}
       /\ spool' = [s \in Sources |->
                      IF s \in torn THEN TornAppended(spool[s], worker[s].rec)
                      ELSE IF s \in written THEN Appended(spool[s], worker[s].rec)
                      ELSE spool[s]]
  /\ ProcessGone
  /\ UNCHANGED <<database, dbUp, history, faults, outages>>

\* Appliance.Shutdown, from a signal or from an error of a supervised loop.
StopAccepting ==
  /\ phase = "serving"
  /\ Stop
  /\ phase' = "draining"
  /\ accepting' = FALSE
  /\ UNCHANGED <<laneOpen, call, lanes, worker, spool, replay, database, dbUp, history, faults, outages>>

\* Deviation: Close does not wait for the WaitGroup.
DrainSkipped ==
  /\ phase = "draining"
  /\ laneOpen' = FALSE
  /\ phase' = "closing"
  /\ UNCHANGED <<accepting, call, lanes, worker, spool, replay, database, dbUp, history, budget>>

\* Drain saw the WaitGroup at zero; Close closes the channels.
DrainDone ==
  /\ phase = "draining"
  /\ outstanding = 0
  /\ laneOpen' = FALSE
  /\ phase' = "closing"
  /\ UNCHANGED <<accepting, call, lanes, worker, spool, replay, database, dbUp, history, budget>>

\* ingress_drain_timeout: Close is skipped and the workers are left running.
DrainTimeout ==
  /\ phase = "draining"
  /\ phase' = "closing"
  /\ UNCHANGED <<accepting, laneOpen, call, lanes, worker, spool, replay, database, dbUp, history, budget>>

\* Pool.Close and the return of main; Close first waits for idle workers.
Exit ==
  /\ phase = "closing"
  /\ ~laneOpen => \A s \in Sources : worker[s].st = "idle" /\ jobs[s] = << >>
  /\ ProcessGone
  /\ UNCHANGED <<spool, database, dbUp, history, budget>>

DatabaseFails ==
  /\ dbUp
  /\ outages < MaxOutages
  /\ outages' = outages + 1
  /\ dbUp' = FALSE
  /\ UNCHANGED <<process, call, lanes, worker, spool, replay, database, history, stops, faults>>

DatabaseRecovers ==
  /\ ~dbUp
  /\ dbUp' = TRUE
  /\ UNCHANGED <<process, call, lanes, worker, spool, replay, database, history, budget>>

CallerStep(c) ==
  \/ \E r \in Records : Reserve(c, r) \/ Refuse(c, r)
  \/ Commit(c)
  \/ Cancel(c)
  \/ Return(c)

WorkerStep(s) ==
  WorkerTake(s) \/ WorkerPersist(s) \/ WorkerSpool(s) \/ WorkerAnswer(s) \/ WorkerRelease(s)

ReplayStep(p) ==
  ReplayBegin(p) \/ ReplayOpen(p) \/ ReplayLine(p) \/ ReplayDrain(p) \/ ReplayRename(p)

ProcessStep == Start \/ Crash \/ StopAccepting \/ DrainDone \/ DrainTimeout \/ Exit

Next ==
  \/ \E c \in Callers : CallerStep(c)
  \/ \E s \in Sources : WorkerStep(s)
  \/ \E p \in Replayers : ReplayStep(p)
  \/ ProcessStep
  \/ DatabaseFails
  \/ DatabaseRecovers

Spec == Init /\ [][Next]_vars

-----------------------------------------------------------------------------
(* Fairness: runnable goroutines run; sync.Mutex hands itself over to a    *)
(* waiter that has starved, hence SF where the spool mutex is taken; the   *)
(* container is restarted (restart: always) and outages end.  Nothing is   *)
(* assumed of clients, operators, crashes or faults.                       *)
Fairness ==
  /\ \A c \in Callers : WF_vars(Commit(c)) /\ WF_vars(Return(c))
  /\ \A s \in Sources :
       /\ WF_vars(WorkerTake(s) \/ WorkerPersist(s) \/ WorkerAnswer(s) \/ WorkerRelease(s))
       /\ SF_vars(WorkerSpool(s))
  /\ \A p \in Replayers :
       /\ WF_vars(ReplayLine(p) \/ ReplayDrain(p) \/ ReplayRename(p))
       /\ SF_vars(ReplayOpen(p))
  /\ WF_vars(ReplayBegin(Scheduler))
  /\ WF_vars(Start)
  /\ WF_vars(DrainDone \/ DrainTimeout)
  /\ WF_vars(Exit)
  /\ WF_vars(DatabaseRecovers)

FairSpec == Spec /\ Fairness

-----------------------------------------------------------------------------
(* Properties.                                                             *)

\* Every variable holds a value its declaration in the code allows.  inUse and
\* outstanding are signed: that they stay in range is SlotAccounting's business.
TypeOK ==
  /\ phase \in Phases
  /\ accepting \in BOOLEAN
  /\ laneOpen \in BOOLEAN
  /\ call \in [Callers -> CallState]
  /\ inUse \in [Sources -> Int]
  /\ outstanding \in Int
  /\ jobs \in [Sources -> Seq(Job)]
  /\ worker \in [Sources -> WorkerState]
  /\ spool \in [Sources -> SpoolFile]
  /\ replay \in [Replayers -> ReplayState]
  /\ facts \subseteq Records
  /\ settled \subseteq facts
  /\ dbUp \in BOOLEAN
  /\ acked \subseteq Records
  /\ checkpointed \subseteq Records
  /\ stops \in Nat /\ faults \in Nat /\ outages \in Nat

AllSpooled == UNION {Spooled(spool[s]) : s \in Sources}

\* A record whose submission was answered with success is complete in
\* PostgreSQL or still has its retry record in a spool file, through every
\* crash, outage, replay and drain (queue.go:49-51, ADR 0020 decision 1).
AckedRetained == acked \subseteq settled \cup AllSpooled

\* The queue implements the handoff promise; a record is owned once it is
\* complete or has a retry record.
Handoff == INSTANCE DurableHandoff WITH owned <- settled \cup AllSpooled
ImplementsHandoff == Handoff!HSpec

\* A lane never lends more slots than it has, and they are held by exactly the
\* goroutines that hold a reservation, wait for an answer, or have given one
\* and not released yet; the WaitGroup that shutdown waits for counts the same
\* goroutines over all lanes.
HoldsSlot(c, s) == call[c].pc \in {"reserved", "waiting"} /\ LaneOf[call[c].rec] = s
SlotAccounting ==
  /\ \A s \in Sources : inUse[s] <= Capacity[s]
  /\ \A s \in Sources :
       inUse[s] = Cardinality({c \in Callers : HoldsSlot(c, s)})
                  + IF worker[s].st = "releasing" THEN 1 ELSE 0
  /\ outstanding = Cardinality({c \in Callers : call[c].pc \in {"reserved", "waiting"}})
                   + Cardinality({s \in Sources : worker[s].st = "releasing"})

\* Every queued or running job belongs to one goroutine that waits for its
\* result channel, with the record that goroutine submitted, in that record's
\* lane, and no goroutine has two: an answer reaches the request it is for.
Answering(w) == w.st \in {"persisting", "spooling", "durable", "failed"}
WaitsIn(state, r, s) == state.pc = "waiting" /\ state.rec = r /\ LaneOf[r] = s
LaneJobs(queue, w, calls, s) ==
  /\ \A i \in 1 .. Len(queue) : WaitsIn(calls[queue[i].caller], queue[i].rec, s)
  /\ \A i, j \in 1 .. Len(queue) : queue[i].caller = queue[j].caller => i = j
  /\ Answering(w) =>
       /\ WaitsIn(calls[w.caller], w.rec, s)
       /\ \A i \in 1 .. Len(queue) : queue[i].caller # w.caller
OneJobPerWaiter == \A s \in Sources : LaneJobs(jobs[s], worker[s], call, s)

\* A reservation guarantees room in the channel: Commit never blocks in its
\* send, and never sends on a channel Close has closed.
ReservedSendsAtOnce ==
  \A c \in Callers : call[c].pc = "reserved" =>
    laneOpen /\ LET s == LaneOf[call[c].rec] IN Len(jobs[s]) < Capacity[s]

\* Once the channels are closed nobody waits for an answer.
ClosedQuiescent ==
  phase \in Listening /\ ~laneOpen =>
    /\ \A c \in Callers : call[c].pc \notin {"reserved", "waiting"}
    /\ \A s \in Sources : jobs[s] = << >>

\* A process that serves never has a spool file with a torn last frame, so an
\* append cannot be glued to one (holds when a failed write leaves no prefix).
ServingFramesWhole == phase \in Listening => \A s \in Sources : ~Undecodable(spool[s])

\* The listeners open only when the startup replay has emptied every lane
\* (restart: "replay_before_listener_readiness").
ReplayBeforeReady ==
  [][phase = "starting" /\ phase' = "serving"
       => \A s \in Sources : spool'[s].frames = << >>]_vars

\* A request that waits for durability is answered, or its process ends.
WaiterAnswered ==
  \A c \in Callers : call[c].pc = "waiting" ~> call[c].pc # "waiting"

Obstructed(s) == spool[s].temp \/ Undecodable(spool[s])
EventuallyClear == <>[](\A s \in Sources : ~Obstructed(s))

\* When no spool file stays obstructed, every spooled record is completed by
\* the retries ("supervised_every_15_seconds") ...
RetriesSettle ==
  EventuallyClear => \A r \in Records : (r \in AllSpooled) ~> (r \in settled)

\* ... and the appliance comes back after every stop.
ReturnsToService == EventuallyClear => []<>(phase = "serving")

\* Slots, channel room and answers are accounted for together: every slot in
\* use belongs to a call or its worker, no committed send can block, each
\* waiting caller has exactly one job that will answer it, and no caller waits
\* and no job is queued once the channels are closed.
QueueAccounted == SlotAccounting /\ ReservedSendsAtOnce /\ OneJobPerWaiter /\ ClosedQuiescent

\* After an outage, a crash or a shutdown the appliance serves again and what
\* it spooled is completed.
ServiceRecovers == RetriesSettle /\ ReturnsToService
===============================================================================
