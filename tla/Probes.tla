------------------------------- MODULE Probes -------------------------------
(***************************************************************************)
(* The two checks that act: the synthetic probe sends four records through *)
(* the public ingress, finds them in PostgreSQL, in a rollup and removes   *)
(* them again (syntheticpipeline.go); the live canary lets an observer run *)
(* a provider under a gate, a budget and a cleanup (livecanary.go).        *)
(*                                                                         *)
(* All probes share one dimension scope: the same hour, rollup rows and    *)
(* rows that events refer to.  The repair job and the spool replay run     *)
(* beside them.                                                            *)
(***************************************************************************)
EXTENDS Naturals, Sequences, SequencesExt, FiniteSets

CONSTANTS MaxProbe,     \* probes sent
          MaxSlip,      \* outages, refused sends, failed statements and cleanups, crashes
          Cooldown,     \* of the canary's recipe
          MaxMoment     \* audits that reach the canary

ASSUME ProbeAssumption == {MaxProbe, MaxSlip, Cooldown, MaxMoment} \subseteq Nat

VARIABLES
  probe,      \* the probe being evaluated: todo is what it recomputes, snap what
              \* it has read for that, answer the hour's row as it was read back
  verdicts,   \* what each probe was said to be, and what a passed one has seen
  facts,      \* events with their evidence: {<<probe, lane>>}
  spooled,    \* acknowledged, not yet in PostgreSQL
  repairs,    \* rollup_repair_queue rows of the scope: {granularity}
  rollup,     \* the hour's row: the events it counts, and who wrote it; the
              \* daily row is written alike and nothing reads it here
  job,        \* the minute's repair job: batch is what it has claimed
  slips,
  gate,       \* authorization row: [enabled, credentials, consent, started, status]
  canary,     \* the evaluation: [at, outcome]
  observer,   \* an observer's goroutine is awaited
  abandoned,  \* another was left behind: "no", "running", "ended"
  residue,    \* it has left something in its workspace
  moment,     \* time of the current audit
  observed    \* history: the moments an observer was started

probeVars == <<probe, verdicts, facts, spooled, repairs, rollup, job, slips>>
canaryVars == <<gate, canary, observer, abandoned, residue, moment, observed>>

Lanes == <<"hook", "log", "span", "metric">>
Granularity == {"hourly", "daily"}
\* by "late": from a reading the probe has written over since.
NoRow == [by |-> "nobody", of |-> {}]
ProbeIdle == [at |-> "idle", n |-> 0, sent |-> 0, found |-> {}, todo |-> <<>>, snap |-> {},
              answer |-> NoRow]
JobIdle == [at |-> "idle", batch |-> {}, g |-> "hourly", snap |-> {}]

ProbeInit ==
  /\ probe = ProbeIdle /\ verdicts = <<>> /\ job = JobIdle
  /\ facts = {} /\ spooled = {} /\ repairs = {} /\ rollup = NoRow
  /\ slips = 0

Slips == slips < MaxSlip /\ slips' = slips + 1
FoundOf(n) == {f \in facts : f[1] = n}

ProbeBegins ==
  /\ probe.at = "idle" /\ Len(verdicts) < MaxProbe
  /\ probe' = [ProbeIdle EXCEPT !.at = "send", !.n = Len(verdicts) + 1]
  /\ UNCHANGED <<verdicts, facts, spooled, repairs, rollup, job, slips>>

\* One send after the other; the acknowledged record is in the database with
\* its repair rows, or spooled in an outage, or both when the answer of its
\* commit was lost.
NextLane == <<probe.n, Lanes[probe.sent + 1]>>
SendTo(next) ==
  probe' = [probe EXCEPT !.sent = @ + 1, !.at = IF probe.sent + 1 = Len(Lanes) THEN next ELSE "send"]
SendAccepted ==
  /\ probe.at = "send" /\ SendTo("scope")
  /\ facts' = facts \cup {NextLane} /\ repairs' = Granularity
  /\ UNCHANGED <<verdicts, spooled, rollup, job, slips>>

SendSpooled ==
  /\ probe.at = "send" /\ Slips /\ SendTo("scope")
  /\ spooled' = spooled \cup {NextLane}
  /\ \/ UNCHANGED <<facts, repairs>>
     \/ facts' = facts \cup {NextLane} /\ repairs' = Granularity
  /\ UNCHANGED <<verdicts, rollup, job>>

\* A lane that is full or a statement that fails ends the probe; what was sent
\* before is the cleanup's.
ProbeGivesUp ==
  /\ probe.at \in {"send", "scope", "verify", "read", "write", "delete", "query", "pending"}
  /\ Slips
  /\ probe' = [probe EXCEPT !.at = "cleanup"]
  /\ UNCHANGED <<verdicts, facts, spooled, repairs, rollup, job>>

\* The scope exists when all four events are found by their native identity.
ScopeOfAny(n) == FoundOf(n) # {}
Scope(n) == Cardinality(FoundOf(n)) = Len(Lanes)
FindScope ==
  /\ probe.at = "scope"
  /\ probe' = [probe EXCEPT !.at = IF Scope(probe.n) THEN "verify" ELSE "cleanup",
                            !.found = {f[2] : f \in FoundOf(probe.n)}]
  /\ UNCHANGED <<verdicts, facts, spooled, repairs, rollup, job, slips>>

\* Both repair rows must still wait.  The probe claims neither: it lists them
\* (ORDER BY granularity), recomputes one after the other, and deletes every
\* row of its scope then.
VerifyRepairs ==
  /\ probe.at = "verify"
  /\ probe' = IF repairs = Granularity
              THEN [probe EXCEPT !.at = "read", !.todo = <<"daily", "hourly">>]
              ELSE [probe EXCEPT !.at = "cleanup"]
  /\ UNCHANGED <<verdicts, facts, spooled, repairs, rollup, job, slips>>

ReadBucket ==
  /\ probe.at = "read"
  /\ probe' = [probe EXCEPT !.at = "write", !.snap = facts]
  /\ UNCHANGED <<verdicts, facts, spooled, repairs, rollup, job, slips>>

\* What the job has read of the bucket is late from now on.
WriteBucket ==
  /\ probe.at = "write"
  /\ rollup' = IF Head(probe.todo) = "hourly" THEN [by |-> "probe", of |-> probe.snap] ELSE rollup
  /\ probe' = [probe EXCEPT !.at = IF probe.todo = <<"hourly">> THEN "delete" ELSE "read",
                            !.todo = Tail(@), !.snap = {}]
  /\ job' = IF job.at = "writing" /\ job.g = Head(probe.todo) THEN [job EXCEPT !.at = "late"] ELSE job
  /\ UNCHANGED <<verdicts, facts, spooled, repairs, slips>>

DeleteRepairs ==
  /\ probe.at = "delete" /\ repairs' = {}
  /\ probe' = [probe EXCEPT !.at = "query"]
  /\ UNCHANGED <<verdicts, facts, spooled, rollup, job, slips>>

\* The hour's row must count four; another statement then counts the repairs
\* of it that wait again.
QueryRollup ==
  /\ probe.at = "query"
  /\ probe' = [probe EXCEPT
       !.at = IF Cardinality(rollup.of) = Len(Lanes) THEN "pending" ELSE "cleanup",
       !.answer = rollup]
  /\ UNCHANGED <<verdicts, facts, spooled, repairs, rollup, job, slips>>

CountPending ==
  /\ probe.at = "pending"
  /\ probe' = [probe EXCEPT !.at = IF "hourly" \notin repairs THEN "passed" ELSE "cleanup"]
  /\ UNCHANGED <<verdicts, facts, spooled, repairs, rollup, job, slips>>

\* The deferred cleanup looks for the scope again and deletes it in one
\* transaction, with the rows its events refer to.  Without a scope nothing is
\* deleted; an event of another probe refers to the same rows and refuses.
Cleaning == probe.at \in {"cleanup", "passed"}
OnlyItsOwn == \A f \in facts : f[1] = probe.n
Verdict(passed) ==
  Append(verdicts, [passed |-> passed, crashed |-> FALSE,
                    found |-> IF passed THEN probe.found ELSE {},
                    answer |-> IF passed THEN probe.answer ELSE NoRow])
CleanupProbe ==
  /\ Cleaning /\ Scope(probe.n) /\ OnlyItsOwn
  /\ facts' = {} /\ repairs' = {} /\ rollup' = NoRow
  /\ verdicts' = Verdict(probe.at = "passed") /\ probe' = ProbeIdle
  /\ UNCHANGED <<spooled, job, slips>>

CleanupFails ==
  /\ Cleaning
  /\ \/ Slips
     \/ ~(Scope(probe.n) /\ OnlyItsOwn) /\ UNCHANGED slips
  /\ verdicts' = Verdict(FALSE) /\ probe' = ProbeIdle
  /\ UNCHANGED <<facts, spooled, repairs, rollup, job>>

\* The job of the same process dies with it, and what it had claimed is lost.
ProbeCrash ==
  /\ probe.at # "idle" /\ Slips
  /\ probe' = ProbeIdle /\ job' = JobIdle
  /\ verdicts' = Append(verdicts, [passed |-> FALSE, found |-> {}, answer |-> NoRow, crashed |-> TRUE])
  /\ UNCHANGED <<facts, spooled, repairs, rollup>>

\* Beside it: the minute's job claims what waits, which deletes it, and reads
\* and writes one bucket after the other; the replay stores what is spooled
\* record by record, and enqueues even what was there.
JobClaims ==
  /\ job.at = "idle" /\ repairs # {} /\ repairs' = {}
  /\ job' = [JobIdle EXCEPT !.at = "reading", !.batch = repairs]
  /\ UNCHANGED <<probe, verdicts, facts, spooled, rollup, slips>>

JobReads ==
  /\ job.at = "reading"
  /\ \E g \in job.batch :
       job' = [at |-> "writing", batch |-> job.batch \ {g}, g |-> g, snap |-> facts]
  /\ UNCHANGED <<probe, verdicts, facts, spooled, repairs, rollup, slips>>

JobWrites ==
  /\ job.at \in {"writing", "late"}
  /\ rollup' = IF job.g = "hourly"
               THEN [by |-> IF job.at = "late" THEN "late" ELSE "job", of |-> job.snap]
               ELSE rollup
  /\ job' = [JobIdle EXCEPT !.at = IF job.batch = {} THEN "idle" ELSE "reading", !.batch = job.batch]
  /\ UNCHANGED <<probe, verdicts, facts, spooled, repairs, slips>>

JobFails ==
  /\ job.at # "idle" /\ Slips /\ job' = JobIdle
  /\ UNCHANGED <<probe, verdicts, facts, spooled, repairs, rollup>>

ReplaySpool ==
  /\ \E f \in spooled : facts' = facts \cup {f} /\ spooled' = spooled \ {f}
  /\ repairs' = Granularity
  /\ UNCHANGED <<probe, verdicts, rollup, job, slips>>

ProbeNext ==
  \/ ProbeBegins \/ SendAccepted \/ SendSpooled \/ ProbeGivesUp \/ FindScope
  \/ VerifyRepairs \/ ReadBucket \/ WriteBucket \/ DeleteRepairs \/ QueryRollup \/ CountPending
  \/ CleanupProbe \/ CleanupFails \/ ProbeCrash
  \/ JobClaims \/ JobReads \/ JobWrites \/ JobFails \/ ReplaySpool

-----------------------------------------------------------------------------
CanaryInit ==
  /\ gate \in {[enabled |-> on, authorized |-> FALSE, started |-> 0, status |-> "none"] : on \in BOOLEAN}
  /\ canary = [at |-> "idle", outcome |-> "none"] /\ observer = FALSE /\ abandoned = "no" /\ residue = FALSE
  /\ moment = 1 /\ observed = {}

\* Credentials and consent are confirmed; the cooldown is left alone.
RecordAuthorization ==
  /\ ~gate.authorized /\ gate' = [gate EXCEPT !.authorized = TRUE]
  /\ UNCHANGED <<canary, observer, abandoned, residue, moment, observed>>

Authorize == /\ gate.enabled /\ gate.authorized
             /\ gate.started = 0 \/ moment - gate.started >= Cooldown

\* An audit reaches the recipe: a closed gate skips it, an open one is closed
\* for the cooldown before anything runs.
CanarySkipped ==
  /\ canary.at = "idle" /\ moment < MaxMoment /\ ~Authorize /\ moment' = moment + 1
  /\ canary' = [canary EXCEPT !.outcome = "skipped"]
  /\ UNCHANGED <<gate, observer, abandoned, residue, observed>>

MarkStartedLater ==
  /\ canary.at = "idle" /\ moment < MaxMoment /\ Authorize
  /\ observer' = TRUE /\ observed' = observed \cup {moment}
  /\ canary' = [at |-> "observe", outcome |-> "none"]
  /\ UNCHANGED <<gate, abandoned, residue, moment>>
MarkStarted ==
  /\ canary.at = "idle" /\ moment < MaxMoment /\ Authorize
  /\ gate' = [gate EXCEPT !.started = moment]
  /\ canary' = [at |-> "observe", outcome |-> "none"]
  /\ observer' = TRUE /\ observed' = observed \cup {moment}
  /\ UNCHANGED <<abandoned, residue, moment>>

MarkStartedFails ==
  /\ canary.at = "idle" /\ moment < MaxMoment /\ Authorize /\ moment' = moment + 1
  /\ canary' = [canary EXCEPT !.outcome = "fail"]
  /\ UNCHANGED <<gate, observer, abandoned, residue, observed>>

ObserverWorks ==
  /\ (observer \/ abandoned = "running") /\ ~residue /\ residue' = TRUE
  /\ UNCHANGED <<gate, canary, observer, abandoned, moment, observed>>

\* It returns its events, an error or an exceeded budget; the check waits no
\* longer than the budget and leaves the goroutine behind.
Expected == <<"skill", "tool">>
Reports == {Expected, Reverse(Expected), <<"skill">>, <<"skill", "tool", "tool">>}
DAGMatches(events) == events = Expected
ObserverReturns ==
  /\ observer /\ observer' = FALSE
  /\ \E events \in Reports, exceeded \in BOOLEAN :
       canary' = [at |-> "cleanup",
                  outcome |-> IF DAGMatches(events) /\ ~exceeded THEN "pass" ELSE "fail"]
  /\ UNCHANGED <<gate, abandoned, residue, moment, observed>>

ObserverTimesOut ==
  /\ observer /\ observer' = FALSE /\ abandoned' = "running"
  /\ canary' = [at |-> "cleanup", outcome |-> "fail"]
  /\ UNCHANGED <<gate, residue, moment, observed>>

ObserverEndsLate ==
  /\ abandoned = "running" /\ abandoned' = "ended"
  /\ UNCHANGED <<gate, canary, observer, residue, moment, observed>>

\* The deferred cleanup always runs; its failure or panic is the outcome.
CanaryCleanup ==
  /\ canary.at = "cleanup"
  /\ \/ residue' = FALSE /\ canary' = [canary EXCEPT !.at = "finish"]
     \/ canary' = [at |-> "finish", outcome |-> "fail"] /\ UNCHANGED residue
  /\ UNCHANGED <<gate, observer, abandoned, moment, observed>>

MarkFinished ==
  /\ canary.at = "finish" /\ moment' = moment + 1
  /\ \/ /\ gate' = [gate EXCEPT !.status = canary.outcome]
        /\ canary' = [canary EXCEPT !.at = "idle"]
     \/ canary' = [at |-> "idle", outcome |-> "fail"] /\ UNCHANGED gate
  /\ UNCHANGED <<observer, abandoned, residue, observed>>

CanaryCrash ==
  /\ canary.at # "idle" /\ canary' = [at |-> "idle", outcome |-> "none"]
  /\ observer' = FALSE /\ moment' = moment + 1
  /\ abandoned' = IF abandoned = "no" THEN "no" ELSE "ended"
  /\ UNCHANGED <<gate, residue, observed>>

CanaryNext ==
  \/ RecordAuthorization \/ CanarySkipped \/ MarkStarted \/ MarkStartedFails
  \/ ObserverWorks \/ ObserverReturns \/ ObserverTimesOut \/ ObserverEndsLate
  \/ CanaryCleanup \/ MarkFinished \/ CanaryCrash

-----------------------------------------------------------------------------
ProbesTypeOK ==
  /\ probe.sent \in 0 .. Len(Lanes) /\ Len(verdicts) <= MaxProbe
  /\ \A f \in facts \cup spooled : f[1] \in 1 .. MaxProbe /\ f[2] \in Range(Lanes)
  /\ repairs \cup job.batch \subseteq Granularity
  /\ canary.outcome \in {"none", "skipped", "pass", "fail"} /\ moment \in 1 .. MaxMoment + 1
  /\ gate.status \in {"none", "pass", "fail"}

\* A probe passes only if each of its four records was in the database, and the
\* hour's row it read back counted exactly them: all four, and nothing a probe
\* before it left.  The one way to be fooled is a reading of the repair job that
\* was written after the probe had written the row itself (repair.go 83-121).
Records(n) == {<<n, lane>> : lane \in Range(Lanes)}
PassIsWholePath == \A n \in DOMAIN verdicts : verdicts[n].passed =>
  /\ verdicts[n].found = Range(Lanes)
  /\ verdicts[n].answer.by # "late" => verdicts[n].answer.of = Records(n)

\* "Synthetic probe records must be purged, never left lingering": when
\* every probe came to its end, none of their facts is in the database.
ProbeLeavesNothing ==
  probe.at = "idle" /\ (\A n \in DOMAIN verdicts : ~verdicts[n].crashed) => facts = {}

\* The observer runs with recorded consent only and never twice within the
\* cooldown, whatever crashed after it was started.
CanaryIsPaced ==
  /\ observed # {} => gate.enabled /\ gate.authorized
  /\ \A s, t \in observed : s < t => t - s >= Cooldown

\* A canary passes only when its observer had come back and the cleanup after
\* it succeeded; only an observer left behind earlier can still spoil it.
PassedCanaryIsClean ==
  canary.at = "idle" /\ canary.outcome = "pass" => ~observer /\ (residue => abandoned # "no")

\* The checks that act say passed only of what they have seen and cleaned up.
ProbesAreBounded == PassIsWholePath /\ CanaryIsPaced /\ PassedCanaryIsClean
=============================================================================
