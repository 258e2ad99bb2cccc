------------------------------- MODULE JobLease -------------------------------
(***************************************************************************)
(* The leased runs of one scheduled job (internal/runtime/jobs.go) and the *)
(* scheduler that calls them (assembly.go runJobScheduler).  The rows of   *)
(* runtime_job_runs are shared by every process of the appliance: the      *)
(* serving process and the one-shot commands, which build the same         *)
(* appliance and recover expired leases on their way up but run no job.    *)
(*                                                                         *)
(* A row belongs to one incarnation of a process (newOpaqueID("worker")),  *)
(* so the row of a dead incarnation has no owner any more: orphan keeps    *)
(* its remaining lease.  The partial unique index allows one running row.  *)
(* Time is counted in half leases, the renewal interval.                   *)
(***************************************************************************)
EXTENDS Naturals, FiniteSets

CONSTANTS Worker,       \* the processes that may serve
          MaxAttempts   \* attempts of one Run call (3 in the code)

ASSUME JobAssumption == MaxAttempts \in Nat \ {0}

\* The lease in renewal intervals: the ticker fires every half lease.
Lease == 2

VARIABLES
  stage,     \* what the scheduler goroutine of each process is doing
  row,       \* the state of its latest row in runtime_job_runs
  left,      \* what is left of that row's lease
  attempt,   \* the attempt of the current Run call
  result,    \* what the handler returned
  asked,     \* its context was cancelled (SIGTERM)
  orphan     \* {} or {rest of the lease} of a running row without a process

jobVars == <<stage, row, left, attempt, result, asked, orphan>>

Terminal == {"passed", "failed", "cancelled", "interrupted", "already_running"}
HandlerOn == {"handling", "stopping"}

JobInit ==
  /\ stage = [w \in Worker |-> "down"]
  /\ row = [w \in Worker |-> "none"]
  /\ left = [w \in Worker |-> 0]
  /\ attempt = [w \in Worker |-> 0]
  /\ result = [w \in Worker |-> "none"]
  /\ asked = [w \in Worker |-> FALSE]
  /\ orphan = {}

\* The rows a lease protects: those the unique index ranges over.
RunningRows == {w \in Worker : row[w] = "running"}

-----------------------------------------------------------------------------
\* UPDATE ... WHERE state='running' AND lease_expires_at < now, at the start of
\* any process that builds the appliance, the one-shot commands included.
Recovered(r) == [w \in Worker |->
  IF r[w] = "running" /\ left[w] = 0 THEN "interrupted" ELSE r[w]]
RecoverInterrupted ==
  /\ row' = Recovered(row)
  /\ orphan' = orphan \ {0}

StartServing(w) ==
  /\ stage[w] = "down"
  /\ row' = [Recovered(row) EXCEPT ![w] = "none"]
  /\ orphan' = orphan \ {0}
  /\ stage' = [stage EXCEPT ![w] = "idle"]
  /\ asked' = [asked EXCEPT ![w] = FALSE]
  /\ UNCHANGED <<left, attempt, result>>

RunCommand ==
  /\ RecoverInterrupted
  /\ UNCHANGED <<stage, left, attempt, result, asked>>

\* The ticker of the job fires: Run makes its first attempt.
JobTicker(w) ==
  /\ stage[w] = "idle" /\ ~asked[w]
  /\ stage' = [stage EXCEPT ![w] = "inserting"]
  /\ attempt' = [attempt EXCEPT ![w] = 1]
  /\ UNCHANGED <<row, left, result, asked, orphan>>

InsertRun(w) ==
  /\ stage[w] = "inserting" /\ ~asked[w]
  /\ row' = [row EXCEPT ![w] = "scheduled"]
  /\ stage' = [stage EXCEPT ![w] = "acquiring"]
  /\ UNCHANGED <<left, attempt, result, asked, orphan>>

\* UPDATE ... SET state='running': the unique index admits it, or the row
\* becomes already_running and the Run call is over.
AdmittedOverExpired == (\A w \in RunningRows : left[w] = 0) /\ orphan \subseteq {0}
Admitted == RunningRows = {} /\ orphan = {}
AcquireLease(w) ==
  /\ stage[w] = "acquiring" /\ ~asked[w]
  /\ IF Admitted
     THEN /\ row' = [row EXCEPT ![w] = "running"]
          /\ left' = [left EXCEPT ![w] = Lease]
          /\ stage' = [stage EXCEPT ![w] = "handling"]
     ELSE /\ row' = [row EXCEPT ![w] = "already_running"]
          /\ stage' = [stage EXCEPT ![w] = "idle"]
          /\ UNCHANGED left
  /\ UNCHANGED <<attempt, result, asked, orphan>>

RenewLeaseUnchecked(w) ==
  /\ stage[w] = "handling" /\ left[w] < Lease
  /\ left' = [left EXCEPT ![w] = IF row[w] = "running" THEN Lease ELSE @]
  /\ UNCHANGED <<stage, row, attempt, result, asked, orphan>>

\* ticker.C inside runWithLeaseRenewal: the update must hit the one row that is
\* still running and still owned, otherwise the handler is cancelled.
RenewLease(w) ==
  /\ stage[w] = "handling" /\ left[w] < Lease
  /\ \/ /\ row[w] = "running"
        /\ left' = [left EXCEPT ![w] = Lease]
        /\ UNCHANGED <<stage, result>>
     \/ \* zero rows, or the database refused the statement
        /\ stage' = [stage EXCEPT ![w] = "stopping"]
        /\ result' = [result EXCEPT ![w] = "lease_renewal_failed"]
        /\ UNCHANGED left
  /\ UNCHANGED <<row, attempt, asked, orphan>>

\* <-ctx.Done(): the handler is cancelled and waited for.
NoticeShutdown(w) ==
  /\ stage[w] = "handling" /\ asked[w]
  /\ stage' = [stage EXCEPT ![w] = "stopping"]
  /\ result' = [result EXCEPT ![w] = "cancelled"]
  /\ UNCHANGED <<row, left, attempt, asked, orphan>>

HandlerReturns(w) ==
  /\ stage[w] \in HandlerOn
  /\ IF stage[w] = "handling"
     THEN \E r \in {"ok", "job_failed"} : result' = [result EXCEPT ![w] = r]
     ELSE UNCHANGED result
  /\ stage' = [stage EXCEPT ![w] = "finishing"]
  /\ UNCHANGED <<row, left, attempt, asked, orphan>>

FinalState(w) ==
  IF result[w] = "ok" THEN "passed"
  ELSE IF result[w] = "cancelled" \/ asked[w] THEN "cancelled" ELSE "failed"

\* UPDATE ... WHERE job_run_id=$1 AND lease_owner_id=$7: an interrupted row has
\* no owner, so its former owner changes nothing.
FinishedByAnyone(w) == [row EXCEPT ![w] = FinalState(w)]
Finished(w) == IF row[w] = "running" THEN [row EXCEPT ![w] = FinalState(w)] ELSE row

MayRetry(w) == ~asked[w] /\ attempt[w] < MaxAttempts

\* The terminal update, the row read back and the retry decision of Run.
FinishRun(w) ==
  /\ stage[w] = "finishing"
  /\ row' = Finished(w)
  /\ LET again == row'[w] = "failed" /\ MayRetry(w) IN
     /\ stage' = [stage EXCEPT ![w] = IF again THEN "inserting" ELSE "idle"]
     /\ attempt' = [attempt EXCEPT ![w] = IF again THEN @ + 1 ELSE 0]
  /\ result' = [result EXCEPT ![w] = "none"]
  /\ UNCHANGED <<left, asked, orphan>>

AskShutdown(w) ==
  /\ stage[w] # "down" /\ ~asked[w]
  /\ asked' = [asked EXCEPT ![w] = TRUE]
  /\ UNCHANGED <<stage, row, left, attempt, result, orphan>>

\* The process ends: a crash, a shutdown that does not wait for the scheduler,
\* or a database error in Run, which the scheduler reports and which stops the
\* appliance.  The row keeps the state it had.
ProcessEnds(w) ==
  /\ stage[w] # "down"
  /\ orphan' = IF row[w] = "running" THEN {left[w]} ELSE orphan
  /\ stage' = [stage EXCEPT ![w] = "down"]
  /\ row' = [row EXCEPT ![w] = "none"]
  /\ left' = [left EXCEPT ![w] = 0]
  /\ attempt' = [attempt EXCEPT ![w] = 0]
  /\ result' = [result EXCEPT ![w] = "none"]
  /\ asked' = [asked EXCEPT ![w] = FALSE]

\* Half a lease of time passes.  A process may be late for its ticker.
TimePasses ==
  /\ \/ \E w \in RunningRows : left[w] > 0
     \/ \E n \in orphan : n > 0
  /\ left' = [w \in Worker |-> IF left[w] > 0 THEN left[w] - 1 ELSE 0]
  /\ orphan' = {IF n > 0 THEN n - 1 ELSE 0 : n \in orphan}
  /\ UNCHANGED <<stage, row, attempt, result, asked>>

JobNext ==
  \/ RunCommand \/ TimePasses
  \/ \E w \in Worker :
       \/ StartServing(w) \/ JobTicker(w) \/ InsertRun(w) \/ AcquireLease(w)
       \/ RenewLease(w) \/ NoticeShutdown(w) \/ HandlerReturns(w)
       \/ FinishRun(w) \/ AskShutdown(w) \/ ProcessEnds(w)

-----------------------------------------------------------------------------
JobTypeOK ==
  /\ stage \in [Worker -> {"down", "idle", "inserting", "acquiring",
                           "handling", "stopping", "finishing"}]
  /\ row \in [Worker -> {"none", "scheduled", "running"} \cup Terminal]
  /\ left \in [Worker -> 0 .. Lease]
  /\ attempt \in [Worker -> 0 .. MaxAttempts]
  /\ result \in [Worker -> {"none", "ok", "job_failed", "cancelled",
                            "lease_renewal_failed"}]
  /\ asked \in [Worker -> BOOLEAN]
  /\ orphan \subseteq 0 .. Lease

\* At any time one running row at most exists for the job, whoever died, was
\* slow or recovered what of whom: the row of a dead process keeps excluding
\* the others until a start finds its lease expired.
OneLiveLease == Cardinality(RunningRows) + Cardinality(orphan) <= 1

\* A row that reached a terminal state is history: a former owner whose lease
\* was recovered by another process cannot turn "interrupted" into a result.
TerminalRowsStay == [][\A w \in Worker :
  row[w] \in Terminal => row'[w] \in {row[w], "none", "scheduled"}]_jobVars

\* A handler that lost its row does not go on for ever: the next renewal finds
\* no row and cancels it, or the process ends.
LostLeaseStopsHandler == \A w \in Worker :
  (stage[w] = "handling" /\ row[w] # "running") ~> (stage[w] \notin HandlerOn)

\* Who lost the lease has lost: its row stays as another process ended it, and
\* its handler stops.
LostLeaseIsLost == TerminalRowsStay /\ LostLeaseStopsHandler
=============================================================================
