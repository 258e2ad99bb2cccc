--------------------------------- MODULE Soak ---------------------------------
(***************************************************************************)
(* The accelerated soak: the orchestration and its evidence file           *)
(* (internal/runtime/soak.go) and the driver that works on a running       *)
(* appliance over HTTP and docker (cmd/kansoku/soak.go).                   *)
(*                                                                         *)
(* Every cycle ingests an event, queries and backs up at the same time;    *)
(* after some of them a real fault is executed and recovered from.  The    *)
(* driver only sees counts: one count of facts stands for the durability   *)
(* of every acknowledged event.  The appliance is here what the soak is    *)
(* to judge, so it may also misbehave.                                     *)
(***************************************************************************)
EXTENDS Naturals, Sequences, FiniteSets

CONSTANTS
  MaxCycle,     \* SoakLogicalDays * SoakCyclesPerDay
  FaultAt,      \* [cycle -> fault executed after it]
  MaxRun,       \* times an operator runs the soak
  MaxMisdeed    \* acknowledged facts lost, and facts of someone else, in one behaviour

ASSUME SoakAssumption == MaxCycle \in Nat \ {0} /\ DOMAIN FaultAt \subseteq 1 .. MaxCycle

VARIABLES
  soak,        \* the run: [phase, cycle, call, ledger, faults, todo, read, held]
  appliance,   \* [app, db: running?, facts, spool, job: not yet terminal?]
  disk,        \* the evidence path: [file, tmp]
  soakRuns,
  misdeeds

soakVars == <<soak, appliance, disk, soakRuns, misdeeds>>

Calls == {"ingest", "query", "backup"}
Probes == <<"durable", "facts", "depth", "jobs", "safe", "backup">>
Counts == {"durable", "facts", "depth", "jobs", "safe", "backup"}
Foreign == 0
NoEvidence == [acked |-> {}, held |-> {}, faults |-> {}]

NewSoak == [phase |-> "cycle", cycle |-> 1, call |-> [c \in Calls |-> "running"], ledger |-> {},
            faults |-> {}, todo |-> Probes, read |-> [p \in Counts |-> 0], held |-> {}]

SoakInit ==
  /\ soak = [NewSoak EXCEPT !.phase = "idle"] /\ soakRuns = 0 /\ misdeeds = 0
  /\ appliance = [app |-> TRUE, db |-> TRUE, facts |-> {}, spool |-> {}, job |-> FALSE]
  /\ disk = [file |-> NoEvidence, tmp |-> FALSE]

-----------------------------------------------------------------------------
Fails == soak' = [soak EXCEPT !.phase = "failed"]

RunAcceleratedSoak ==
  /\ soak.phase \in {"idle", "failed", "pass"} /\ soakRuns < MaxRun
  /\ soakRuns' = soakRuns + 1 /\ soak' = NewSoak
  /\ UNCHANGED <<appliance, disk, misdeeds>>

Calling(c) == soak.phase = "cycle" /\ soak.call[c] = "running"
Returns(c, how) == soak' = [soak EXCEPT !.call[c] = how]

\* driver.Ingest: the event has the identity of its cycle, in every run.  It is
\* acknowledged when it is stored or, where that fails, spooled; a late answer
\* is an error although the event is there.
IngestCycle ==
  /\ Calling("ingest")
  /\ \/ Returns("ingest", "error") /\ UNCHANGED appliance
     \/ /\ appliance.app /\ \E how \in {"ok", "error"} : Returns("ingest", how)
        /\ \/ appliance.db /\ appliance' = [appliance EXCEPT !.facts = @ \cup {soak.cycle}]
           \/ appliance' = [appliance EXCEPT !.spool = @ \cup {soak.cycle}]
  /\ UNCHANGED <<disk, soakRuns, misdeeds>>

\* QueryRollup takes an unavailable analytics path for an answer.
QueryRollup ==
  /\ Calling("query")
  /\ Returns("query", IF appliance.app THEN "ok" ELSE "error")
  /\ UNCHANGED <<appliance, disk, soakRuns, misdeeds>>

\* BackupCountSnapshot: what the backup counted is not looked at.
BackupCountSnapshot ==
  /\ Calling("backup")
  /\ \E how \in {"ok", "error"} :
       (how = "ok" => appliance.app /\ appliance.db) /\ Returns("backup", how)
  /\ UNCHANGED <<appliance, disk, soakRuns, misdeeds>>

NextCycle(s) ==
  IF s.cycle = MaxCycle THEN [s EXCEPT !.phase = "judge"]
  ELSE [s EXCEPT !.phase = "cycle", !.cycle = @ + 1, !.call = [c \in Calls |-> "running"]]

\* wg.Wait, and what follows it.
CycleEnds ==
  /\ soak.phase = "cycle" /\ \A c \in Calls : soak.call[c] # "running"
  /\ IF \E c \in Calls : soak.call[c] = "error" THEN Fails
     ELSE LET s == [soak EXCEPT !.ledger = @ \cup {soak.cycle}] IN
          soak' = IF s.cycle \in DOMAIN FaultAt THEN [s EXCEPT !.phase = "fault"] ELSE NextCycle(s)
  /\ UNCHANGED <<appliance, disk, soakRuns, misdeeds>>

\* docker returns when the containers run again, not when they serve.
ExecuteFault ==
  /\ soak.phase = "fault"
  /\ LET fault == FaultAt[soak.cycle] IN
     \/ Fails /\ UNCHANGED appliance
     \/ /\ soak' = [soak EXCEPT !.phase = "recover", !.faults = @ \cup {fault}]
        /\ appliance' = [appliance EXCEPT !.app = @ /\ fault = "database_restart",
                                          !.db = @ /\ fault = "process_restart"]
  /\ UNCHANGED <<disk, soakRuns, misdeeds>>

\* Recover polls the health until its core dimensions pass, or gives up.
HealthAllPass == appliance.app /\ appliance.db
Recover ==
  /\ soak.phase = "recover"
  /\ Fails \/ (HealthAllPass /\ soak' = NextCycle(soak))
  /\ UNCHANGED <<appliance, disk, soakRuns, misdeeds>>

\* IsDurable of all events reads the count of facts once; then come the reads
\* of Snapshot.  A job may go on beyond the deadline it is given.
CountOf(probe) ==
  CASE probe \in {"durable", "facts", "backup"} -> Cardinality(appliance.facts)
    [] probe = "depth" -> Cardinality(appliance.spool)
    [] probe = "jobs" -> IF appliance.job THEN 1 ELSE 0
    [] probe = "safe" -> 1
Probe ==
  /\ soak.phase = "judge" /\ soak.todo # <<>>
  /\ LET p == Head(soak.todo) IN
     \/ Fails
     \/ /\ appliance.app /\ appliance.db
        /\ soak' = [soak EXCEPT !.todo = Tail(@), !.read[p] = CountOf(p),
                                !.held = IF p = "backup" THEN appliance.facts ELSE @]
  /\ UNCHANGED <<appliance, disk, soakRuns, misdeeds>>

AssertionsWithoutCount(r) == r.durable >= 1 /\ r.depth = 0 /\ r.jobs = 0 /\ r.backup = r.facts
Assertions(r) ==
  /\ r.durable >= 1                              \* acknowledged_equals_durable_or_spooled
  /\ r.facts = Cardinality(soak.ledger)          \* event_fact_count_no_inflation
  /\ r.backup = r.facts                          \* backup_counts_match_source_snapshot
  /\ r.depth = 0 /\ r.jobs = 0                   \* all_spools_empty..., all_jobs_terminal

\* writeSoakEvidence: a file that was left half written stands in the way of
\* every later one.
WriteEvidence ==
  /\ soak.phase = "judge" /\ soak.todo = <<>>
  /\ IF Assertions(soak.read) /\ ~disk.tmp
     THEN soak' = [soak EXCEPT !.phase = "written"] /\ disk' = [disk EXCEPT !.tmp = TRUE]
     ELSE Fails /\ UNCHANGED disk
  /\ UNCHANGED <<appliance, soakRuns, misdeeds>>

PublishEvidence ==
  /\ soak.phase = "written"
  /\ soak' = [soak EXCEPT !.phase = "pass"]
  /\ disk' = [tmp |-> FALSE,
              file |-> [acked |-> soak.ledger, held |-> soak.held, faults |-> soak.faults]]
  /\ UNCHANGED <<appliance, soakRuns, misdeeds>>

\* The operator's process is killed.
SoakDies ==
  /\ soak.phase \notin {"idle", "failed", "pass"} /\ Fails
  /\ UNCHANGED <<appliance, disk, soakRuns, misdeeds>>

-----------------------------------------------------------------------------
\* A process that starts replays the spools before it listens, and ends the
\* jobs that were interrupted.
ApplianceStarts ==
  /\ \/ ~appliance.db /\ appliance' = [appliance EXCEPT !.db = TRUE]
     \/ /\ ~appliance.app /\ appliance.db
        /\ appliance' = [app |-> TRUE, db |-> TRUE, facts |-> appliance.facts \cup appliance.spool,
                         spool |-> {}, job |-> FALSE]
  /\ UNCHANGED <<soak, disk, soakRuns, misdeeds>>

JobRuns ==
  /\ appliance.app /\ appliance.db
  /\ appliance' = [appliance EXCEPT !.job = ~@]
  /\ UNCHANGED <<soak, disk, soakRuns, misdeeds>>

\* What a soak is there to find, and what it must not be confused by.
ApplianceMisbehaves ==
  /\ misdeeds < MaxMisdeed /\ misdeeds' = misdeeds + 1
  /\ \/ \E e \in appliance.facts : appliance' = [appliance EXCEPT !.facts = @ \ {e}]
     \/ \E e \in appliance.spool : appliance' = [appliance EXCEPT !.spool = @ \ {e}]
     \/ appliance' = [appliance EXCEPT !.facts = @ \cup {Foreign}]
  /\ UNCHANGED <<soak, disk, soakRuns>>

SoakNext ==
  \/ RunAcceleratedSoak \/ IngestCycle \/ QueryRollup \/ BackupCountSnapshot \/ CycleEnds \/ ExecuteFault
  \/ Recover \/ Probe \/ WriteEvidence \/ PublishEvidence \/ SoakDies
  \/ ApplianceStarts \/ JobRuns \/ ApplianceMisbehaves

-----------------------------------------------------------------------------
SoakTypeOK ==
  /\ soak.phase \in {"idle", "cycle", "fault", "recover", "judge", "written", "pass", "failed"}
  /\ soak.cycle \in 1 .. MaxCycle /\ soak.ledger \subseteq 1 .. MaxCycle
  /\ appliance.facts \subseteq 0 .. MaxCycle /\ appliance.spool \subseteq 1 .. MaxCycle

\* A published pass is earned: every cycle was acknowledged, every fault was
\* executed, and the database of the final backup held every acknowledged
\* event.  (An event that is gone can be hidden from a count only by a fact of
\* someone else: the soak has a stack of its own.)
PassIsEarned == disk.file # NoEvidence =>
  /\ disk.file.acked = 1 .. MaxCycle
  /\ disk.file.faults = {FaultAt[c] : c \in DOMAIN FaultAt}
  /\ Cardinality(disk.file.held) = MaxCycle
  /\ disk.file.acked \subseteq disk.file.held \/ Foreign \in disk.file.held
=============================================================================
