---------------------------- MODULE AuditChecks ----------------------------
(***************************************************************************)
(* What the checks of an audit conclude and what the health API makes of   *)
(* it.  The evidence of a check changes under it, its outcome is a row, a  *)
(* finding is an incident, and the health of a dimension is derived from   *)
(* the newest rows and the open incidents.  The backup cycle keeps the     *)
(* evidence of stage 9.  A behaviour follows the checks of one dimension;  *)
(* their findings may show in another.                                     *)
(***************************************************************************)
EXTENDS Naturals, Sequences, SequencesExt, FiniteSets

CONSTANTS LastHour,   \* the last moment
          Budget,     \* per evidence with an age, how old it may get
          MaxChange   \* changes of the evidence and audits cut short

Aged == {"cadence", "lag", "repair", "watermark", "backup", "restore", "window"}
ASSUME CheckAssumption == LastHour \in Nat \ {0} /\ MaxChange \in Nat /\ Budget \in [Aged -> Nat]

VARIABLES dimension,  \* the health dimension whose checks are followed
          supported,  \* the capability is supported
          hour, evidence, changed,
          row,        \* per check its newest row: [status, class, at, sound]
          todo,       \* the checks the current audit has still to do
          evaluating, \* the first of them has its pending row
          alarms,     \* the open incidents: {[check, class, first]}
          lastTest,   \* history: the newest restore test that ran
          judged      \* history: per check what the last finished audit that judged it found

checkVars == <<dimension, supported, hour, evidence, changed, row, todo, evaluating, alarms, lastTest, judged>>

\* The checks of a stage, one per target, and the stages of a dimension.
Stages == [configuration |-> <<{"host"}>>, connectivity |-> <<{"endpoint"}>>,
           event_freshness |-> <<{"source"}>>, schema_compatibility |-> <<{"fixtures"}, {"lag"}>>,
           reconciliation_coverage |-> <<{"sessions"}>>,
           storage_rollup_health |-> <<{"rollup"}, {"retention", "backup", "restore"}>>,
           parser_fixture_status |-> <<{"fixtures"}>>,
           privacy_canary |-> <<{"retention", "backup", "restore"}>>]
Followed == DOMAIN Stages \ {"parser_fixture_status", "privacy_canary"}   \* parts of two others
Examined == UNION Range(Stages[dimension])
Order == SelectSeq(<<"host", "endpoint", "source", "fixtures", "sessions", "lag",
                     "rollup", "retention", "backup", "restore">>, LAMBDA c : c \in Examined)

Red == {"endpoint_unreachable", "hook_removed_disabled_or_untrusted", "otlp_misconfigured",
        "permission_denied", "watermark_stall", "parser_incompatibility", "unknown_schema",
        "duplicate_evidence_anomaly", "ingest_lag", "rollup_stale", "formula_version_mismatch",
        "db_integrity_violation", "retention_job_failed", "backup_stale", "restore_test_failed",
        "reconciliation_mismatch"}
NotRun == [status |-> "none", class |-> "none", at |-> 0, sound |-> FALSE]

\* What evidence there may be; ages are moments, 0 for never.
Lane == {"agrees", "degraded", "mismatch", "unknown_tolerance"}
Replay == {"failed", "unsupported", "invalid", "decoded"}
Values ==
  [host |-> [executable : BOOLEAN, root : BOOLEAN, plan : {"none", "same", "drifted"},
             inventory : {"ok", "failed", "cached_enabled"}],
   endpoint |-> [kind : {"hook", "otlp"}, trusted : BOOLEAN, probe : {"ok", "mismatch", "unreachable"}],
   source |-> [known : BOOLEAN, inactive : BOOLEAN, gap : BOOLEAN, cadence : BOOLEAN, active : {0}],
   fixtures |-> [expected : Replay, outside : Replay],
   lag |-> [schema : BOOLEAN, replayed : BOOLEAN, inflated : BOOLEAN, late : BOOLEAN, received : {0}],
   sessions |-> [lanes : SUBSET Lane, tolerant : BOOLEAN, before : {"none", "agrees", "degraded"}],
   rollup |-> [deep : BOOLEAN, oldest : {0}, watermark : {0}, formulas : BOOLEAN, migrated : BOOLEAN],
   retention |-> [overdue : BOOLEAN],
   backup |-> [at : {0}, checksum : {FALSE}],
   restore |-> [at : {0}, ran : {FALSE}, passed : {FALSE}]]
Plain ==
  [host |-> [executable |-> TRUE, root |-> TRUE, plan |-> "same", inventory |-> "ok"],
   endpoint |-> [kind |-> "otlp", trusted |-> TRUE, probe |-> "ok"],
   source |-> [known |-> TRUE, inactive |-> FALSE, gap |-> FALSE, cadence |-> TRUE, active |-> 0],
   fixtures |-> [expected |-> "decoded", outside |-> "unsupported"],
   lag |-> [schema |-> TRUE, replayed |-> FALSE, inflated |-> FALSE, late |-> FALSE, received |-> 0],
   sessions |-> [lanes |-> {"agrees"}, tolerant |-> FALSE, before |-> "none"],
   rollup |-> [deep |-> FALSE, oldest |-> 0, watermark |-> 0, formulas |-> TRUE, migrated |-> TRUE],
   retention |-> [overdue |-> FALSE],
   backup |-> [at |-> 0, checksum |-> FALSE],
   restore |-> [at |-> 0, ran |-> FALSE, passed |-> FALSE]]

CheckInit ==
  /\ dimension \in Followed /\ supported \in BOOLEAN
  /\ hour = 1 /\ evidence = Plain /\ changed = 0
  /\ row = [c \in Examined |-> NotRun] /\ todo = <<>> /\ evaluating = FALSE /\ alarms = {}
  /\ lastTest = [at |-> 0, passed |-> FALSE] /\ judged = [c \in Examined |-> "none"]

Over(kind, at) == hour - at > Budget[kind]

-----------------------------------------------------------------------------
(* The outcome of each check: "pass", "skipped" or a failure class.        *)

\* Four findings are collected and the first that failed names the class.
HostOutcome(e) ==
  IF ~e.executable THEN "endpoint_unreachable"
  ELSE IF ~e.root THEN "permission_denied"
  ELSE IF e.plan = "drifted" THEN "hook_removed_disabled_or_untrusted"
  ELSE IF e.inventory = "failed" THEN "endpoint_unreachable"
  ELSE IF e.inventory = "cached_enabled" THEN "permission_denied" ELSE "pass"

EndpointOutcome(e) ==
  IF ~e.trusted THEN IF e.kind = "hook" THEN "hook_removed_disabled_or_untrusted" ELSE "otlp_misconfigured"
  ELSE IF e.probe = "unreachable" THEN "endpoint_unreachable"
  ELSE IF e.kind = "otlp" /\ e.probe = "mismatch" THEN "otlp_misconfigured" ELSE "pass"

\* An inactive source is silent for a reason.  A gap stalls any other; the
\* passing of time only one that declares a cadence, counted from its last
\* activity or from its discovery.
Discovered == 1
Stalled(e) == e.gap \/ (e.cadence /\ Over("cadence", IF e.active = 0 THEN Discovered ELSE e.active))
SourceOutcome(e) ==
  IF ~e.known THEN "eligibility_unknown"
  ELSE IF e.inactive THEN "pass" ELSE IF Stalled(e) THEN "watermark_stall" ELSE "pass"

\* A case inside the manifest must decode, one outside it must not; a shape
\* nobody has seen is only counted.
FixturesOutcome(e) ==
  IF e.expected \in {"failed", "invalid"} \/ e.outside \notin {"failed", "unsupported"}
  THEN "parser_incompatibility" ELSE "pass"

LagOutcome(e) ==
  IF ~e.schema THEN "unknown_schema"
  ELSE IF e.replayed /\ e.inflated THEN "duplicate_evidence_anomaly"
  ELSE IF e.late \/ (e.received # 0 /\ Over("lag", e.received)) THEN "ingest_lag" ELSE "pass"

\* The worst class of the window's sessions decides.  It may be no worse than
\* under the previous version, and a share of lanes may be degraded only if
\* the declared minimum is below one.
Severity == [none |-> 0, agrees |-> 0, degraded |-> 1, mismatch |-> 2, unknown_tolerance |-> 3]
Worst(lanes) == CHOOSE l \in lanes : \A m \in lanes : Severity[m] <= Severity[l]
SessionsOutcome(e) ==
  IF e.lanes = {} THEN "skipped"
  ELSE IF Worst(e.lanes) = "unknown_tolerance"
          \/ (e.before # "none" /\ Severity[Worst(e.lanes)] > Severity[e.before])
          \/ Worst(e.lanes) = "mismatch" \/ (~e.tolerant /\ e.lanes # {"agrees"})
  THEN "reconciliation_mismatch" ELSE "pass"

RollupOutcome(e) ==
  IF e.deep \/ (e.oldest # 0 /\ Over("repair", e.oldest))
     \/ (e.watermark # 0 /\ Over("watermark", e.watermark)) THEN "rollup_stale"
  ELSE IF ~e.formulas THEN "formula_version_mismatch"
  ELSE IF ~e.migrated THEN "db_integrity_violation" ELSE "pass"

BackupOutcome(e) == IF e.at = 0 \/ ~e.checksum \/ Over("backup", e.at) THEN "backup_stale" ELSE "pass"
RestoreOutcome(e) == IF ~e.ran \/ ~e.passed \/ Over("restore", e.at) THEN "restore_test_failed" ELSE "pass"

Outcomes(c) ==
  CASE c = "host" -> HostOutcome(evidence.host)
    [] c = "endpoint" -> EndpointOutcome(evidence.endpoint)
    [] c = "source" -> SourceOutcome(evidence.source)
    [] c = "fixtures" -> FixturesOutcome(evidence.fixtures)
    [] c = "lag" -> LagOutcome(evidence.lag)
    [] c = "sessions" -> SessionsOutcome(evidence.sessions)
    [] c = "rollup" -> RollupOutcome(evidence.rollup)
    [] c = "retention" -> IF evidence.retention.overdue THEN "retention_job_failed" ELSE "pass"
    [] c = "backup" -> BackupOutcome(evidence.backup)
    [] c = "restore" -> RestoreOutcome(evidence.restore)

-----------------------------------------------------------------------------
(* The evidence changes.                                                   *)

Changes == changed < MaxChange /\ changed' = changed + 1
HourPasses == /\ hour < LastHour /\ hour' = hour + 1
           /\ UNCHANGED <<dimension, supported, evidence, changed, row, todo, evaluating, alarms, lastTest, judged>>

\* Something about a check's subject becomes different; its times stay.
Timed == {"active", "received", "at", "oldest", "watermark"}
EvidenceChanges ==
  /\ Changes
  /\ \E c \in Examined : \E v \in Values[c] :
       /\ c \notin {"backup", "restore"}
       /\ evidence' = [evidence EXCEPT ![c] = [f \in DOMAIN @ |-> IF f \in Timed THEN @[f] ELSE v[f]]]
  /\ UNCHANGED <<dimension, supported, hour, row, todo, evaluating, alarms, lastTest, judged>>

\* The source is active, an event is received, a repair is enqueued or a
\* watermark is left behind.
SourceMoves ==
  /\ Changes
  /\ \/ "source" \in Examined /\ evidence' = [evidence EXCEPT !.source.active = hour]
     \/ "lag" \in Examined /\ evidence' = [evidence EXCEPT !.lag.received = hour]
     \/ "rollup" \in Examined /\ \E at \in {0, hour} : evidence' = [evidence EXCEPT !.rollup.oldest = at]
     \/ "rollup" \in Examined /\ \E at \in {0, hour} : evidence' = [evidence EXCEPT !.rollup.watermark = at]
  /\ UNCHANGED <<dimension, supported, hour, row, todo, evaluating, alarms, lastTest, judged>>

\* A backup cycle: the backup, and a restore test when a scratch database is
\* given and the checksum holds.  One that ran no test keeps what is recorded
\* of the last.
PersistKeepingPass(old, at, ran, passed) ==
  [at |-> IF ran THEN at ELSE old.at, ran |-> old.ran \/ ran, passed |-> old.passed \/ passed]
PersistRestore(old, at, ran, passed) ==
  [at |-> IF ran THEN at ELSE old.at, ran |-> old.ran \/ ran,
   passed |-> IF ran THEN passed ELSE old.passed]
RunBackupCycle ==
  /\ "backup" \in Examined /\ Changes
  /\ \E checksum, scratch, passed \in BOOLEAN :
       LET ran == scratch /\ checksum
       IN  /\ evidence' = [evidence EXCEPT !.backup = [at |-> hour, checksum |-> checksum],
                                           !.restore = PersistRestore(@, hour, ran, ran /\ passed)]
           /\ lastTest' = IF ran THEN [at |-> hour, passed |-> passed] ELSE lastTest
  /\ UNCHANGED <<dimension, supported, hour, row, todo, evaluating, alarms, judged>>

-----------------------------------------------------------------------------
(* The audit.                                                              *)

\* What a reader would call sound, for the record of a row.
Within(kind, at) == at # 0 /\ hour - at <= Budget[kind]
Sound(c) ==
  LET e == evidence[c] IN
  CASE c = "host" -> e.executable /\ e.root /\ e.plan # "drifted" /\ e.inventory = "ok"
    [] c = "endpoint" -> e.trusted /\ (e.probe = "ok" \/ (e.kind = "hook" /\ e.probe # "unreachable"))
    [] c = "source" -> e.known /\ (e.inactive \/ (~e.gap /\ (e.cadence => Within("cadence", IF e.active = 0 THEN Discovered ELSE e.active))))
    [] c = "fixtures" -> e.expected \notin {"failed", "invalid"} /\ e.outside \in {"failed", "unsupported"}
    [] c = "lag" -> e.schema /\ ~(e.replayed /\ e.inflated) /\ ~e.late /\ (e.received = 0 \/ Within("lag", e.received))
    [] c = "sessions" -> \/ e.lanes = {"agrees"}
                         \/ /\ e.lanes \subseteq {"agrees", "degraded"} /\ "degraded" \in e.lanes
                            /\ e.tolerant /\ e.before # "agrees"
    [] c = "rollup" -> /\ ~e.deep /\ e.formulas /\ e.migrated
                       /\ (e.oldest = 0 \/ Within("repair", e.oldest))
                       /\ (e.watermark = 0 \/ Within("watermark", e.watermark))
    [] c = "retention" -> ~e.overdue
    [] c = "backup" -> e.checksum /\ Within("backup", e.at)
    [] c = "restore" -> lastTest.passed /\ Within("restore", lastTest.at)

AuditBegins ==
  /\ todo = <<>> /\ todo' = Order
  /\ UNCHANGED <<dimension, supported, hour, evidence, changed, row, evaluating, alarms, lastTest, judged>>

PendingRow ==
  /\ todo # <<>> /\ ~evaluating /\ evaluating' = TRUE
  /\ row' = [row EXCEPT ![Head(todo)] = [NotRun EXCEPT !.status = "pending", !.at = hour]]
  /\ UNCHANGED <<dimension, supported, hour, evidence, changed, todo, alarms, lastTest, judged>>

AlarmsOf(c) == {a \in alarms : a.check = c}
Alarm(c, outcome) == [check |-> c, class |-> outcome.class, first |-> outcome.at]
ReportedUnlessPassed(c, outcome) ==
  IF outcome.status = "pass" THEN {} ELSE AlarmsOf(c) \cup {Alarm(c, outcome)}

\* A finding opens the incident of its class, a pass resolves those of its
\* check; both count when the run ends.
Reported(c, outcome) ==
  CASE outcome.status = "fail" ->
         IF \E a \in AlarmsOf(c) : a.class = outcome.class THEN AlarmsOf(c) ELSE AlarmsOf(c) \cup {Alarm(c, outcome)}
    [] outcome.status = "pass" -> {}
    [] OTHER -> AlarmsOf(c)

EvaluateRow ==
  /\ evaluating /\ evaluating' = FALSE
  /\ LET c == Head(todo)
         outcome == Outcomes(c)
     IN  row' = [row EXCEPT ![c] =
           [status |-> IF outcome \in {"pass", "skipped"} THEN outcome ELSE "fail",
            class |-> outcome, at |-> hour, sound |-> Sound(c)]]
  /\ todo' = Tail(todo)
  /\ alarms' = IF todo' = <<>> THEN UNION {Reported(c, row'[c]) : c \in Examined} ELSE alarms
  /\ judged' = IF todo' = <<>>
                THEN [c \in Examined |-> IF row'[c].status = "skipped" THEN judged[c] ELSE row'[c].class]
                ELSE judged
  /\ UNCHANGED <<dimension, supported, hour, evidence, changed, lastTest>>

\* A run that is cut short leaves its rows and reports nothing.
AuditInterrupted ==
  /\ Changes /\ todo # <<>> /\ todo' = <<>> /\ evaluating' = FALSE
  /\ UNCHANGED <<dimension, supported, hour, evidence, row, alarms, lastTest, judged>>

CheckNext ==
  \/ HourPasses \/ EvidenceChanges \/ SourceMoves \/ RunBackupCycle
  \/ AuditBegins \/ PendingRow \/ EvaluateRow \/ AuditInterrupted

-----------------------------------------------------------------------------
(* The health of a dimension, as a set: which of several failing checks    *)
(* the derivation meets first is the order of a map.                       *)

Color(class) == IF class \in Red THEN "red" ELSE "yellow"
Seen(d) == {c \in Examined \cap UNION Range(Stages[d]) : row[c].status \in {"pass", "fail"}}
Failing(d) == {c \in Seen(d) : row[c].status = "fail"}
StagePassed(d, checks) == /\ checks \cap Seen(d) # {}
                          /\ \A c \in checks \cap Seen(d) : row[c].status = "pass" /\ ~Over("window", row[c].at)
DeriveDimension(d) ==
  IF ~supported \/ Seen(d) = {} THEN {"gray"}
  ELSE IF Failing(d) # {} THEN {Color(row[c].class) : c \in Failing(d)}
  ELSE IF \A s \in DOMAIN Stages[d] : StagePassed(d, Stages[d][s]) THEN {"green"} ELSE {"yellow"}

\* The dimensions of a failure class, whichever check found it.
FailureClassDimensions(class) ==
  CASE class \in {"endpoint_unreachable", "hook_removed_disabled_or_untrusted", "otlp_misconfigured"} -> {"connectivity"}
    [] class = "permission_denied" -> {"configuration"}
    [] class \in {"watermark_stall", "eligibility_unknown", "duplicate_evidence_anomaly", "ingest_lag"} -> {"event_freshness"}
    [] class = "parser_incompatibility" -> {"schema_compatibility", "parser_fixture_status"}
    [] class = "unknown_schema" -> {"schema_compatibility"}
    [] class \in {"rollup_stale", "formula_version_mismatch", "db_integrity_violation",
                  "retention_job_failed", "backup_stale", "restore_test_failed"} -> {"storage_rollup_health"}
    [] class = "reconciliation_mismatch" -> {"reconciliation_coverage"}
    [] OTHER -> {}

\* Each open incident then sets the state of the dimensions of its class, the
\* one first seen last wins.
Telling(d) == {a \in alarms : d \in FailureClassDimensions(a.class)}
Overlaying(d) == {a \in Telling(d) : \A b \in Telling(d) : b.first <= a.first}
DeriveHealth(d) == IF Telling(d) = {} THEN DeriveDimension(d) ELSE {Color(a.class) : a \in Overlaying(d)}

-----------------------------------------------------------------------------
ChecksTypeOK ==
  /\ hour \in 1 .. LastHour /\ changed \in 0 .. MaxChange
  /\ DOMAIN evidence = DOMAIN Values
  /\ \A c \in Examined : row[c].status \in {"none", "pending", "pass", "fail", "skipped"}
  /\ \A a \in alarms : a.check \in Examined /\ a.class \in Red \cup {"eligibility_unknown"}

\* Green is earned: no finding of the dimension's classes is the last word on a
\* check, and every stage has a newest outcome, all of them passes on evidence
\* that was sound and within the window.  In particular the storage is green
\* only while the newest restore test that ran did pass.
Examiners(checks) == {c \in checks \cap Examined : row[c].status \notin {"none", "pending", "skipped"}}
GreenIsEarned ==
  \A d \in DOMAIN Stages : "green" \in DeriveHealth(d) =>
    /\ supported
    /\ \A c \in Examined : d \notin FailureClassDimensions(judged[c])
    /\ \A s \in DOMAIN Stages[d] :
         /\ Examiners(Stages[d][s]) # {}
         /\ \A c \in Examiners(Stages[d][s]) : row[c].sound /\ hour - row[c].at <= Budget["window"]

\* A finding of a finished audit shows in every dimension of its class until a
\* finished audit sees the check pass, whatever rows are written in between;
\* that of the newest row in the dimensions of its stage.
Shows(d) == DeriveHealth(d) \subseteq {"red", "yellow"}
FindingsShow ==
  /\ \A c \in Examined : \A d \in FailureClassDimensions(judged[c]) : Shows(d)
  /\ supported => \A d \in DOMAIN Stages : Failing(d) # {} => Shows(d)

\* An outcome says what its evidence was.
OutcomesAreSound ==
  \A c \in Examined : row[c].status \in {"pass", "fail"} => (row[c].status = "pass") = row[c].sound

HealthIsHonest == GreenIsEarned /\ FindingsShow /\ OutcomesAreSound
=============================================================================
