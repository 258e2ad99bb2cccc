------------------------------ MODULE AuditRun ------------------------------
(***************************************************************************)
(* The integrity audit: scheduler instances that share one database take   *)
(* the advisory lock, evaluate their checks one after the other, and end   *)
(* the run, its incidents and its signed report in one transaction.  A     *)
(* process may crash anywhere; the next start marks what it left behind    *)
(* and reuses the passes that are still fresh.                             *)
(*                                                                         *)
(* A run's time is the moment its trigger fired, which is also when its    *)
(* checks say they observed; the clock is at the latest trigger.           *)
(***************************************************************************)
EXTENDS Naturals, Sequences, SequencesExt, FiniteSets

CONSTANTS Auditor,       \* the scheduler instances
          Checks,        \* the checks of a full run, in the order of their stages
          StartupChecks, \* those of the reduced run at a start, in that order
          DriftChecks,   \* those a changed fingerprint names, in that order
          Free,          \* nobody holds the lock
          Window,        \* how long a pass stays fresh
          Deployments,   \* the sets of instances an installation may have
          Bound          \* for so many instances, the last clock and version, and
                         \* how many findings, crashes and faults (database errors
                         \* and cancelled contexts) there are

Final == "stage11"                  \* the check the finalization itself is
Engine == "engine"                  \* the target of a stage that cannot list its own

\* Every check has a target of its own, which bears its name.
ASSUME AuditAssumption ==
  /\ {Final, Engine} \cap Range(Checks) = {}
  /\ Checks \in Seq(Range(Checks)) /\ Free \notin Auditor /\ Window \in Nat
  /\ StartupChecks \in Seq(Range(Checks)) /\ DriftChecks \in Seq(Range(Checks))
  /\ \A d \in Deployments : d \subseteq Auditor /\ IsFiniteSet(d) /\ Cardinality(d) \in DOMAIN Bound
  /\ Bound \in Seq([clock : Nat, version : Nat, findings : Nat, crashes : Nat, faults : Nat])

VARIABLES deployed,   \* the instances this installation has
          clock,
          holder,     \* who holds the advisory lock, or Free
          runs,       \* the rows of audit runs
          rows,       \* per run, the rows of its checks
          incidents,
          baseline,   \* the fingerprints stored, 0 before the first
          version,    \* the fingerprints a provider observes now
          auditor,    \* what each instance is doing
          crashes, faults

auditVars == <<deployed, clock, holder, runs, rows, incidents, baseline, version,
               auditor, crashes, faults>>

Check == Range(Checks)
Class == {"red", "yellow"}          \* failure classes that mean breakage, and the others
Failure == Class \cup {"unlisted"}  \* how a row fails: by its check, or before it
Terminal == {"passed", "degraded", "failed", "cancelled"}
Bare == [at |-> 0, status |-> "none"]
NoPrior == [c \in Check |-> 0]
Off == [pc |-> "down", run |-> 0, at |-> 0, seen |-> 0, todo |-> <<>>,
        prior |-> NoPrior, listed |-> {}]
Idle == [Off EXCEPT !.pc = "idle"]

AuditInit ==
  /\ deployed \in Deployments
  /\ clock = 0 /\ holder = Free /\ runs = <<>> /\ rows = <<>> /\ incidents = {}
  /\ baseline = 0 /\ version = 1
  /\ auditor = [a \in Auditor |-> Off] /\ crashes = 0 /\ faults = 0

Limit == Bound[Cardinality(deployed)]
At(a, label) == auditor[a].pc = label
Becomes(a, state) == auditor' = [auditor EXCEPT ![a] = state]
Goes(a, label) == Becomes(a, [auditor[a] EXCEPT !.pc = label])
Fails == faults < Limit.faults /\ faults' = faults + 1

\* The run a is in, its row and the rows of its checks.
Run(a) == auditor[a].run
Write(a, c, row) == rows' = [rows EXCEPT ![Run(a)] = [@ EXCEPT ![c] = row]]

\* A start, any time after the last trigger, asks whether some session holds
\* the lock; if one does, the running rows belong to it.  Otherwise it lists
\* them, marks each and keeps their fresh passes.
Boot(a) ==
  /\ a \in deployed /\ At(a, "down")
  /\ \E now \in clock + 1 .. Limit.clock + 1 :
       Becomes(a, [auditor[a] EXCEPT !.at = now, !.pc = IF holder = Free THEN "list" ELSE "startup"])
  /\ UNCHANGED <<deployed, clock, holder, runs, rows, incidents, baseline, version, crashes, faults>>

ListRunning(a) ==
  /\ At(a, "list")
  /\ Becomes(a, [auditor[a] EXCEPT !.pc = "mark",
                                    !.listed = {r \in DOMAIN runs : runs[r].state = "running"}])
  /\ UNCHANGED <<deployed, clock, holder, runs, rows, incidents, baseline, version, crashes, faults>>

Interrupted(r) == [runs[r] EXCEPT !.state = "failed", !.reason = "crash_recovery"]
InterruptedAll(listed) == [r \in DOMAIN runs |-> Interrupted(r)]
MarkInterrupted(listed) == [r \in DOMAIN runs |-> IF r \in listed THEN Interrupted(r) ELSE runs[r]]

\* The newest fresh pass of each check among the runs that were interrupted.
PassesOfAnyAge(listed, c, now) == {rows[r][c].at : r \in {q \in listed : rows[q][c].status = "pass"}}
Passes(listed, c, now) == {rows[r][c].at : r \in {q \in listed : rows[q][c].status = "pass"
                                                               /\ now - rows[q][c].at <= Window}}
IsNewest(t, times) == IF times = {} THEN t = 0 ELSE t \in times /\ \A u \in times : u <= t
Reused(listed, now) == {p \in [Check -> 0 .. clock] : \A c \in Check : IsNewest(p[c], Passes(listed, c, now))}

MarkStale(a) ==
  /\ At(a, "mark")
  /\ runs' = MarkInterrupted(auditor[a].listed)
  /\ \E prior \in Reused(auditor[a].listed, auditor[a].at) :
       Becomes(a, [auditor[a] EXCEPT !.pc = "startup", !.listed = {}, !.prior = prior])
  /\ UNCHANGED <<deployed, clock, holder, rows, incidents, baseline, version, crashes, faults>>

\* A trigger fires: the fingerprints are observed and the run it will be is
\* fixed before the lock is tried.  A version check starts no run without a
\* baseline, or when nothing changed.
Fires(a, now, plan) ==
  /\ now <= Limit.clock /\ clock' = IF now > clock THEN now ELSE clock
  /\ Becomes(a, [auditor[a] EXCEPT !.pc = "lock", !.at = now, !.seen = version, !.todo = plan])
  /\ UNCHANGED <<deployed, holder, runs, rows, incidents, baseline, version, crashes, faults>>

RunOnStartup(a) == At(a, "startup") /\ Fires(a, auditor[a].at, StartupChecks)
RunScheduledDaily(a) == At(a, "idle") /\ Fires(a, clock + 1, Checks)
Drifted == baseline # 0 /\ baseline # version
RunOnVersionCheck(a) == At(a, "idle") /\ Drifted /\ Fires(a, clock + 1, DriftChecks)

\* The lock is tried once; an instance that does not get it records the
\* attempt and starts no run.
LockIgnored == TRUE
LockFree == holder = Free
AcquireLock(a) ==
  /\ At(a, "lock") /\ LockFree
  /\ holder' = a
  /\ runs' = Append(runs, [state |-> "scheduled", reason |-> "none", at |-> auditor[a].at,
                           seen |-> auditor[a].seen, asked |-> Range(auditor[a].todo), report |-> "none"])
  /\ rows' = Append(rows, [c \in Check \cup {Final} |-> Bare])
  /\ Becomes(a, [auditor[a] EXCEPT !.pc = "start", !.run = Len(runs) + 1])
  /\ UNCHANGED <<deployed, clock, incidents, baseline, version, crashes, faults>>

AlreadyRunning(a) ==
  /\ At(a, "lock") /\ ~LockFree
  /\ Becomes(a, Idle)
  /\ UNCHANGED <<deployed, clock, holder, runs, rows, incidents, baseline, version, crashes, faults>>

StartRun(a) ==
  /\ At(a, "start")
  /\ runs' = [runs EXCEPT ![Run(a)] = [@ EXCEPT !.state = "running"]]
  /\ Goes(a, "evaluate")
  /\ UNCHANGED <<deployed, clock, holder, rows, incidents, baseline, version, crashes, faults>>

\* One check: a fresh pass of an interrupted run is taken over with the time
\* it was observed, or a pending row is written and then its outcome.
Reusable(a, c) == auditor[a].prior[c] # 0
Next1(a) == Head(auditor[a].todo)
Evaluating(a) == At(a, "evaluate") /\ auditor[a].todo # <<>>
Done(a) == Becomes(a, [auditor[a] EXCEPT !.pc = "evaluate", !.todo = Tail(auditor[a].todo)])

ReusePass(a) ==
  /\ Evaluating(a) /\ Reusable(a, Next1(a))
  /\ Write(a, Next1(a), [at |-> auditor[a].prior[Next1(a)], status |-> "pass"])
  /\ Done(a)
  /\ UNCHANGED <<deployed, clock, holder, runs, incidents, baseline, version, crashes, faults>>

WritePending(a) ==
  /\ Evaluating(a) /\ ~Reusable(a, Next1(a))
  /\ Write(a, Next1(a), [at |-> 0, status |-> "pending"])
  /\ Goes(a, "pending")
  /\ UNCHANGED <<deployed, clock, holder, runs, incidents, baseline, version, crashes, faults>>

\* A check that cannot list its targets leaves one failing row for its stage,
\* whose target is the engine.
Findings == {f \in (DOMAIN rows) \X Check : rows[f[1]][f[2]].status \in Failure}
ListTargetsFails(a) ==
  /\ Evaluating(a) /\ Cardinality(Findings) < Limit.findings
  /\ Write(a, Next1(a), [at |-> auditor[a].at, status |-> "unlisted"])
  /\ Done(a)
  /\ UNCHANGED <<deployed, clock, holder, runs, incidents, baseline, version, crashes, faults>>

Evaluate(a) ==
  /\ At(a, "pending")
  /\ \E found \in Class \cup {"pass"} :
       /\ found # "pass" => Cardinality(Findings) < Limit.findings
       /\ Write(a, Next1(a), [at |-> auditor[a].at, status |-> found])
  /\ Done(a)
  /\ UNCHANGED <<deployed, clock, holder, runs, incidents, baseline, version, crashes, faults>>

\* What the checks that have an outcome make of the run.
Found(r) == {c \in Check : rows[r][c].status \in Class \cup {"pass"}}
Unlisted(seen) == {c \in Check : seen[c].status = "unlisted"}
Broken(r) == Unlisted(rows[r]) # {} \/ \E c \in Found(r) : rows[r][c].status = "red"
OutcomeOfBreakage(r) == IF Broken(r) THEN "failed" ELSE "passed"
Outcome(r) == IF Broken(r) THEN "failed"
              ELSE IF \E c \in Found(r) : rows[r][c].status = "yellow" THEN "degraded" ELSE "passed"

\* The newest incident of a key, which is a target and a failure class.
OfKey(inc, target, class) == {i \in inc : i.target = target /\ i.class = class}
Latest(inc, target, class) == CHOOSE i \in OfKey(inc, target, class) :
                                \A j \in OfKey(inc, target, class) : j.first <= i.first
HasOpen(inc, target, class) == OfKey(inc, target, class) # {} /\ Latest(inc, target, class).resolved = 0

\* A finding extends the open incident of its key and has it refer to itself,
\* or opens one; a resolved incident keeps its row.
Opened(inc, r, target, c, class, t) ==
  IF HasOpen(inc, target, class)
  THEN LET i == Latest(inc, target, class)
           to == IF t > i.to THEN t ELSE i.to
       IN  (inc \ {i}) \cup {[i EXCEPT !.to = to, !.ref = r, !.check = c]}
  ELSE inc \cup {[target |-> target, check |-> c, class |-> class, first |-> t, to |-> t,
                 ref |-> r, resolved |-> 0]}

\* A pass closes the open incidents of its target that refer to its check, but
\* only as evidence that is newer than the interval and of a later run;
\* otherwise everything fails.
RecoversAnyPass(i, r, t) == TRUE
Recovers(i, r, t) == t > i.to /\ i.ref # r
Closing(inc, c) == {i \in {Latest(inc, c, class) : class \in {k \in Class : HasOpen(inc, c, k)}} : i.check = c}
Closed(inc, c, t) == (inc \ Closing(inc, c)) \cup {[i EXCEPT !.resolved = t] : i \in Closing(inc, c)}

\* Each row of a run touches the incidents of its target, and the targets of
\* its checks are apart; one recovery that is refused refuses all.
Passed(seen) == {c \in DOMAIN seen : seen[c].status = "pass"}
On(target) == {i \in incidents : i.target = target}
Follows(r, c, outcome) ==
  CASE outcome.status \in Class -> Opened(On(c), r, c, c, outcome.status, outcome.at)
    [] outcome.status = "pass"  -> Closed(On(c), c, outcome.at)
    [] OTHER -> On(c)

\* The stages that could not list their targets share a key: the last of them
\* is what its incident refers to.
Newest(times) == CHOOSE t \in times : \A u \in times : u <= t
LastOf(cs) == Checks[Newest({n \in DOMAIN Checks : Checks[n] \in cs})]
EngineFollows(r, seen) ==
  LET last == LastOf(Unlisted(seen))
  IN  IF Unlisted(seen) = {} THEN On(Engine) ELSE Opened(On(Engine), r, Engine, last, "red", seen[last].at)

ReconciledPasses(r, seen) ==
  [ok |-> TRUE, inc |-> On(Engine) \cup UNION {IF seen[c].status = "pass" THEN Closed(On(c), c, seen[c].at)
                                                ELSE On(c) : c \in DOMAIN seen}]
Reconciled(r, seen) ==
  [ok |-> \A c \in Passed(seen) : \A i \in Closing(On(c), c) : Recovers(i, r, seen[c].at),
   inc |-> EngineFollows(r, seen) \cup UNION {Follows(r, c, seen[c]) : c \in DOMAIN seen}]

\* The end of a run: incidents, report, stage-11 row and terminal state are
\* one transaction.
Finalize(a, state, reason) ==
  LET r == Run(a)
      done == Reconciled(r, rows[r])
  IN  /\ done.ok
      /\ incidents' = done.inc
      /\ Write(a, Final, [at |-> auditor[a].at, status |-> "pass"])
      /\ runs' = [runs EXCEPT ![r] = [@ EXCEPT !.state = state, !.reason = reason, !.report = state]]
      /\ holder' = Free
      /\ Becomes(a, IF state = "passed" THEN [Idle EXCEPT !.pc = "store", !.seen = auditor[a].seen] ELSE Idle)
      /\ UNCHANGED <<deployed, clock, baseline, version, crashes>>

\* After the last check the run ends with its outcome.  A context that is
\* cancelled ends it as cancelled, also then, and a row that cannot be written
\* as failed, with what was found so far.
Complete(a) ==
  /\ At(a, "evaluate") /\ auditor[a].todo = <<>> /\ Finalize(a, Outcome(Run(a)), "none")
  /\ UNCHANGED faults

InStages(a) == auditor[a].pc \in {"evaluate", "pending"}
Cancel(a) == InStages(a) /\ Fails /\ Finalize(a, "cancelled", "operator_cancelled")
StageFails(a) == InStages(a) /\ auditor[a].todo # <<>> /\ Fails /\ Finalize(a, "failed", "stage_timeout")

\* That transaction fails, for the database or for a recovery it refuses.
FinalizeFails(a) ==
  /\ InStages(a)
  /\ \/ Fails
     \/ ~Reconciled(Run(a), rows[Run(a)]).ok /\ UNCHANGED faults
  /\ Goes(a, "failing")
  /\ UNCHANGED <<deployed, clock, holder, runs, rows, incidents, baseline, version, crashes>>

\* Then the run is to end as failed with an incident of its own.
FinalFailure(a) == [rows[Run(a)] EXCEPT ![Final] = [at |-> auditor[a].at, status |-> "red"]]
FinalizeFailure(a) ==
  LET r == Run(a)
      done == Reconciled(r, FinalFailure(a))
  IN  /\ At(a, "failing") /\ done.ok
      /\ incidents' = done.inc
      /\ rows' = [rows EXCEPT ![r] = FinalFailure(a)]
      /\ runs' = [runs EXCEPT ![r] = [@ EXCEPT !.state = "failed", !.reason = "red_tier"]]
      /\ holder' = Free
      /\ Becomes(a, Idle)
      /\ UNCHANGED <<deployed, clock, baseline, version, crashes, faults>>

\* When that fails as well the row stays running, the lock is released, and
\* the error ends the process.
RunLeftRunning(a) ==
  /\ At(a, "failing")
  /\ \/ Fails
     \/ ~Reconciled(Run(a), FinalFailure(a)).ok /\ UNCHANGED faults
  /\ holder' = Free /\ Becomes(a, Off)
  /\ UNCHANGED <<deployed, clock, runs, rows, incidents, baseline, version, crashes>>

StoreObserved(a) ==
  /\ At(a, "store") /\ baseline' = version /\ Becomes(a, Idle)
  /\ UNCHANGED <<deployed, clock, holder, runs, rows, incidents, version, crashes, faults>>

\* The fingerprints a passed run started from become the baseline.
StoreFingerprints(a) ==
  /\ At(a, "store") /\ baseline' = auditor[a].seen /\ Becomes(a, Idle)
  /\ UNCHANGED <<deployed, clock, holder, runs, rows, incidents, version, crashes, faults>>

\* A session that ends gives its lock back; rows stay as they are.
AuditCrash(a) ==
  /\ auditor[a].pc # "down" /\ crashes < Limit.crashes /\ crashes' = crashes + 1
  /\ holder' = IF holder = a THEN Free ELSE holder
  /\ Becomes(a, Off)
  /\ UNCHANGED <<deployed, clock, runs, rows, incidents, baseline, version, faults>>

\* An upgrade, or a changed configuration, changes what a provider observes.
Upgrade ==
  /\ version < Limit.version /\ version' = version + 1
  /\ UNCHANGED <<deployed, clock, holder, runs, rows, incidents, baseline, auditor, crashes, faults>>

Starts(a) == Boot(a) \/ ListRunning(a) \/ MarkStale(a)
Works(a) ==
  \/ RunOnStartup(a) \/ RunScheduledDaily(a) \/ RunOnVersionCheck(a)
  \/ AcquireLock(a) \/ AlreadyRunning(a) \/ StartRun(a)
  \/ ReusePass(a) \/ WritePending(a) \/ ListTargetsFails(a) \/ Evaluate(a) \/ Cancel(a) \/ StageFails(a)
Ends(a) == Complete(a) \/ FinalizeFails(a) \/ FinalizeFailure(a) \/ RunLeftRunning(a) \/ StoreFingerprints(a)

AuditNext == Upgrade \/ \E a \in Auditor : Starts(a) \/ Works(a) \/ Ends(a) \/ AuditCrash(a)

-----------------------------------------------------------------------------
AuditTypeOK ==
  /\ clock \in 0 .. Limit.clock /\ holder \in Auditor \cup {Free}
  /\ Len(runs) = Len(rows)
  /\ \A r \in DOMAIN runs : /\ runs[r].state \in Terminal \cup {"scheduled", "running"}
                            /\ runs[r].report \in Terminal \cup {"none"}
  /\ \A i \in incidents : i.target \in Check \cup {Final, Engine} /\ i.class \in Class
  /\ \A a \in Auditor : Run(a) \in 0 .. Len(runs)

\* Whoever works on a run holds the lock, and its row is the newest: no second
\* instance evaluates checks or writes incidents beside it.
Live(a) == auditor[a].pc \in {"start", "evaluate", "pending", "failing"}
OneLiveRun == \A a \in Auditor : Live(a) => holder = a /\ Run(a) = Len(runs)

Alone == Cardinality(deployed) = 1

\* A run that passed has a pass of every check it was asked for, observed no
\* longer than the freshness window before it, reused ones included.
PassedIsEarned ==
  \A r \in DOMAIN runs : runs[r].state = "passed" =>
    \A c \in runs[r].asked : rows[r][c].status = "pass" /\ runs[r].at - rows[r][c].at <= Window

\* The incidents agree with the newest reconciled evidence of a check: after a
\* failure one is open for it, after a pass none is.
Reconciles(r) == rows[r][Final].status # "none"
Ended(c) == {r \in DOMAIN runs : c \in Found(r) /\ Reconciles(r)}
OpenFor(target) == {i \in incidents : i.target = target /\ i.resolved = 0}
ChecksFollowed ==
  Alone => \A c \in Check : Ended(c) # {} =>
    (rows[Newest(Ended(c))][c].status = "pass") = (OpenFor(c) = {})

\* Once a stage could not list its targets the engine's incident is open for
\* good, and refers to the last stage of the newest run in which one could not:
\* of the other stages that failed so it says nothing.
EndedUnlisted == {r \in DOMAIN runs : Unlisted(rows[r]) # {} /\ Reconciles(r)}
EngineFollowed ==
  EndedUnlisted # {} =>
    LET r == Newest(EndedUnlisted)
    IN  \E i \in OpenFor(Engine) : i.ref = r /\ i.check = LastOf(Unlisted(rows[r]))

\* Whatever an incident refers to is a row that failed in its way.
Failed(i) == rows[i.ref][i.check].status = IF i.target = Engine THEN "unlisted" ELSE i.class
IncidentsFollowEvidence ==
  ChecksFollowed /\ EngineFollowed /\ \A i \in incidents : Failed(i)

\* A closed incident was closed by evidence from after everything it covers;
\* with one instance, which never looks back, the open one of a key is its
\* newest and no two cover the same moment.
IncidentsAreIntervals ==
  /\ \A i \in incidents : i.resolved = 0 \/ i.resolved > i.to
  /\ Alone => \A i, j \in incidents : i.target = j.target /\ i.class = j.class /\ i # j =>
       i.first # j.first /\ (i.resolved = 0 => j.first < i.first)

\* With one instance a signed report says what its run's row says.
ReportAgrees == Alone => \A r \in DOMAIN runs : runs[r].report # "none" => runs[r].state = runs[r].report

\* With one instance a run that ended stays as it ended.
TerminalRunsStay ==
  [][Alone => \A r \in DOMAIN runs : runs[r].state \in Terminal =>
       runs'[r].state = runs[r].state /\ runs'[r].reason = runs[r].reason]_auditVars

\* The stored baseline is one that a passed run started from.
BaselineWasRun == baseline # 0 => \E r \in DOMAIN runs : runs[r].report = "passed" /\ runs[r].seen = baseline

\* A run that lost its process is ended by the next start.
Abandoned(r) == runs[r].state = "running" /\ \A a \in Auditor : ~(Live(a) /\ Run(a) = r)
InterruptedRunsEnd ==
  (Alone /\ \E r \in DOMAIN runs : Abandoned(r)) ~> ~(\E r \in DOMAIN runs : Abandoned(r))

\* What is stored of the runs agrees: incidents with the evidence and with each
\* other, reports with their rows, the baseline with the run that gave it.
RecordsAgree == IncidentsFollowEvidence /\ IncidentsAreIntervals /\ ReportAgrees /\ BaselineWasRun

\* A run that ended stays as it ended, and one whose process is gone is ended.
RunsSettle == TerminalRunsStay /\ InterruptedRunsEnd
=============================================================================
