----------------------------- MODULE MCIntegrity -----------------------------
(***************************************************************************)
(* The integrity engine: the runs of its scheduler, the two checks that    *)
(* act, and what the others conclude.  A behaviour follows one of them     *)
(* (focus); a run takes its checks' outcomes as they come.                 *)
(***************************************************************************)
EXTENDS AuditRun, Probes, AuditChecks

VARIABLE focus

vars == <<focus, auditVars, probeVars, canaryVars, checkVars>>

\* One instance with room for three triggers, a crash and a fault, or two
\* that share the database.
TwoChecks == <<"config", "parser">>
ConfigCheck == <<"config">>
ParserCheck == <<"parser">>
AloneOrTogether == {{CHOOSE a \in Auditor : TRUE}, Auditor}
Bounds == <<[clock |-> 3, version |-> 2, findings |-> 2, crashes |-> 1, faults |-> 1],
            [clock |-> 2, version |-> 1, findings |-> 1, crashes |-> 1, faults |-> 0]>>

\* A restore test may be older than a backup.
Ages == [cadence |-> 1, lag |-> 1, repair |-> 1, watermark |-> 1, backup |-> 1, restore |-> 2, window |-> 1]

Init ==
  /\ focus \in {"audit", "probe", "canary", "health"}
  /\ AuditInit /\ ProbeInit /\ CanaryInit /\ CheckInit
  \* What the others start from does not matter.
  /\ focus # "audit" => deployed = Auditor
  /\ focus # "canary" => gate.enabled
  /\ focus # "health" => dimension = "configuration" /\ supported

Next ==
  /\ UNCHANGED focus
  /\ \/ focus = "audit" /\ AuditNext /\ UNCHANGED <<probeVars, canaryVars, checkVars>>
     \/ focus = "probe" /\ ProbeNext /\ UNCHANGED <<auditVars, canaryVars, checkVars>>
     \/ focus = "canary" /\ CanaryNext /\ UNCHANGED <<auditVars, probeVars, checkVars>>
     \/ focus = "health" /\ CheckNext /\ UNCHANGED <<auditVars, probeVars, canaryVars>>

\* A process that was started goes through its start.
Spec ==
  /\ Init /\ [][Next]_vars
  /\ \A a \in Auditor :
       WF_vars(focus = "audit" /\ Starts(a) /\ UNCHANGED <<focus, probeVars, canaryVars, checkVars>>)

\* All parts keep their types.
IntegrityTypeOK == AuditTypeOK /\ ProbesTypeOK /\ ChecksTypeOK
=============================================================================
