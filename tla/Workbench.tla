------------------------------- MODULE Workbench -------------------------------
(***************************************************************************)
(* The incidents an operator works on: how they grow, are triaged, are     *)
(* found recovered and lose their details to retention, what the daily     *)
(* audit says of their rows, and how a client pages through them while     *)
(* they change                                                             *)
(*   PersistQuarantineMetadata     dataplatform/observability_handoff.go   *)
(*   SetIncidentTriage, RecordIngressRecovery, IncidentWorkbenchAuditCheck *)
(*                                 integrity/incident_workbench.go         *)
(*   ApplyIncidentMetadataRetention  runtime/incident_retention.go         *)
(*   ListIncidents, ListIncidentOccurrences, ListQuarantine                *)
(*                                 dataplatform/incident_workbench.go      *)
(*   the handlers and their cursors  runtime/api_incidents.go              *)
(* Nothing in the program calls RecordIngressRecovery; it is modelled as   *)
(* the operation it offers.  A query's filters are left out: they choose   *)
(* rows, not their order.                                                  *)
(***************************************************************************)
EXTENDS Naturals, Sequences, SequencesExt, FiniteSetsExt

CONSTANTS
  Found,       \* what is found: [number -> [incident, component]]; a quarantined
               \* payload shape has a manifests, evidence about a component has none
  Triage,      \* triage states an operator may set
  Horizon,     \* thirty days in ticks: the least retention, and what the audit looks back
  MaxClock,    \* bound on the ticks of a behaviour
  MaxFound,    \* bound on the occurrences of a behaviour
  MaxEvidence  \* bound on the events, and on the checks, kept at a time

ASSUME WorkbenchAssumption ==
  /\ Horizon \in Nat \ {0} /\ MaxClock \in Nat \ {0} /\ MaxFound \in Nat
  /\ DOMAIN Found \subseteq Nat /\ \A q \in DOMAIN Found : Found[q].incident \in Nat

Case == {Found[q].incident : q \in DOMAIN Found}
ByComponent(i) == \A q \in DOMAIN Found : Found[q].incident = i => Found[q].component
NoCase == [state |-> "none", triage |-> "new", seen |-> 0, count |-> 0, excluded |-> 0,
           recovered |-> 0, run |-> 0]
NoManifest == [seen |-> 0, disposition |-> "none"]
\* Every key is below the position of a first page.
FirstPage == <<MaxClock + 1, 0>>
Away == [list |-> "none", cursor |-> FirstPage, got |-> <<>>, began |-> {}]   \* began: history

VARIABLES
  clock,     \* time, in ticks
  cases,     \* the rows of incidents
  details,   \* incident_occurrences: <<when observed, what was found>>
  manifests,  \* quarantine_structural_manifests: [found -> [seen, disposition]]
  evidence,  \* when the stored source.observed events were observed
  passes,    \* when the passing core_ingestion checks of finished runs were made
  reader     \* a client that pages through a list

workVars == <<clock, cases, details, manifests, evidence, passes, reader>>

WorkInit ==
  /\ clock = 1
  /\ cases = [i \in Case |-> NoCase]
  /\ details = {}
  /\ manifests = [q \in DOMAIN Found |-> NoManifest]
  /\ evidence = {} /\ passes = {}
  /\ reader = Away

Later(a, b) == IF a < b THEN b ELSE a
DetailsOf(i) == {d \in details : Found[d[2]].incident = i}

-----------------------------------------------------------------------------
\* A resolved incident that recurs is opened again only when it is about a
\* component; an unknown schema stays resolved.
StateWhenSeen(i) == IF cases[i].state = "resolved" /\ ~ByComponent(i) THEN "resolved" ELSE "open"

TimesFound == FoldSet(LAMBDA j, n : n + cases[j].count, 0, Case)

\* What was found may be handed over late or again: its occurrence is stored
\* once, and only a stored one counts.
PersistFound(q, at) ==
  LET i == Found[q].incident  m == manifests[q] IN
  /\ at <= clock /\ <<at, q>> \notin details
  /\ TimesFound < MaxFound
  /\ details' = details \cup {<<at, q>>}
  /\ cases' = [cases EXCEPT ![i] = [@ EXCEPT
       !.state = StateWhenSeen(i), !.seen = Later(cases[i].seen, at),
       !.count = cases[i].count + 1]]
  /\ manifests' = IF Found[q].component THEN manifests
                 ELSE [manifests EXCEPT ![q] =
                   [seen |-> Later(m.seen, at),
                    disposition |-> IF m.seen = 0 THEN "unresolved" ELSE m.disposition]]
  /\ UNCHANGED <<clock, evidence, passes, reader>>

\* A supported observation, and a targeted check that passes.
Supported ==
  /\ Cardinality(evidence) < MaxEvidence
  /\ evidence' = evidence \cup {clock}
  /\ UNCHANGED <<clock, cases, details, manifests, passes, reader>>

CheckPasses ==
  /\ Cardinality(passes) < MaxEvidence
  /\ passes' = passes \cup {clock}
  /\ UNCHANGED <<clock, cases, details, manifests, evidence, reader>>

SetIncidentTriage(i, t) ==
  /\ cases[i].state # "none"
  /\ cases' = [cases EXCEPT ![i].triage = t]
  /\ UNCHANGED <<clock, details, manifests, evidence, passes, reader>>

RecoversAnyTime(i, e, p) == e \in evidence /\ p \in passes /\ e <= p

\* Newer evidence than the last occurrence, and a check that passed after it.
\* A resolved incident is left as it is.
Recovers(i, e, p) == cases[i].seen < e /\ e \in evidence /\ p \in passes /\ e < p
RecordIngressRecovery(i, e, p) ==
  /\ cases[i].state = "open" /\ Recovers(i, e, p)
  /\ cases' = [cases EXCEPT ![i] =
       [@ EXCEPT !.state = "resolved", !.recovered = e, !.run = p]]
  /\ manifests' = [q \in DOMAIN Found |->
       IF Found[q].incident = i /\ manifests[q].seen > 0
       THEN [manifests[q] EXCEPT !.disposition = "supported"] ELSE manifests[q]]
  /\ UNCHANGED <<clock, details, evidence, passes, reader>>

\* What a retention of some days leaves behind: an occurrence is deleted into
\* its incident's exclusions, in one transaction with the old manifests.
\* Facts lose their old events in a run of its own.
Cutoff(days) == IF clock > days THEN clock - days ELSE 0
ApplyIncidentMetadataRetention(days) ==
  LET gone == {d \in details : d[1] < Cutoff(days)} IN
  /\ gone # {} \/ \E q \in DOMAIN Found : manifests[q].seen \in 1 .. Cutoff(days) - 1
  /\ details' = details \ gone
  /\ cases' = [i \in Case |-> [cases[i] EXCEPT
       !.excluded = @ + Cardinality({d \in gone : Found[d[2]].incident = i})]]
  /\ manifests' = [q \in DOMAIN Found |->
       IF manifests[q].seen < Cutoff(days) THEN NoManifest ELSE manifests[q]]
  /\ reader' = IF reader.list = "incidents" THEN reader
               ELSE [reader EXCEPT !.began = {r \in @ : r[1] >= Cutoff(days)}]
  /\ UNCHANGED <<clock, evidence, passes>>

ApplyFactRetention(days) ==
  /\ evidence' = {e \in evidence : e >= Cutoff(days)} /\ evidence' # evidence
  /\ UNCHANGED <<clock, cases, details, manifests, passes, reader>>

\* What IncidentWorkbenchAuditCheck.Evaluate reports: the recovery it looks for is one of
\* the incident's own capability, and RecordIngressRecovery's is always
\* core_ingestion.
Miscounted(i) == cases[i].count # cases[i].excluded + Cardinality(DetailsOf(i))
Ungrounded(i) ==
  /\ cases[i].state = "resolved" /\ cases[i].run # 0
  /\ cases[i].recovered + Horizon > clock
  /\ ~ /\ cases[i].recovered \in evidence
       /\ ~ByComponent(i) /\ cases[i].run \in passes /\ cases[i].recovered < cases[i].run
Stale(i) == cases[i].state = "open" /\ cases[i].seen + Horizon < clock
AuditFinds ==
  IF (\E d \in details : cases[Found[d[2]].incident].state = "none")
     \/ (\E i \in Case : Miscounted(i) \/ Ungrounded(i)) THEN "db_integrity_violation"
  ELSE IF \E i \in Case : Stale(i) THEN "unknown_schema" ELSE "pass"

-----------------------------------------------------------------------------
\* The rows of each list by their keys: when last seen, then the identifier.
IncidentRows == {<<cases[i].seen, i>> : i \in {j \in Case : cases[j].state # "none"}}
QuarantineRows == {<<manifests[q].seen, q>> : q \in {r \in DOMAIN Found : manifests[r].seen > 0}}
OccurrenceRows == DetailsOf(1)
Rows(list) == CASE list = "incidents" -> IncidentRows
                [] list = "quarantine" -> QuarantineRows
                [] list = "occurrences" -> OccurrenceRows
                [] list = "none" -> {}
Below(a, b) == a[1] < b[1] \/ (a[1] = b[1] /\ a[2] < b[2])

\* The cursor an answer carries is signed for its list: shown for another one it
\* is refused, so a reader has a position only in the list it reads.
CursorFits(list) == reader.list \in {list, "none"}

\* One page of one row.
Page(list, cursor) == {r \in Rows(list) : Below(r, cursor)}
ReadPage(list) ==
  LET left == Page(list, reader.cursor) IN
  /\ CursorFits(list)
  /\ left # {}
  /\ \E r \in left :
       /\ \A s \in left \ {r} : Below(s, r)
       /\ reader' = [list |-> list, cursor |-> r, got |-> Append(reader.got, r),
                     began |-> IF reader.list = "none" THEN Rows(list) ELSE reader.began]
  /\ UNCHANGED <<clock, cases, details, manifests, evidence, passes>>

ListIncidents == ReadPage("incidents")
ListQuarantine == ReadPage("quarantine")
ListIncidentOccurrences == ReadPage("occurrences")

\* No row is left below the cursor: the answer said has_more = false.
ReaderIsDone == reader.list # "none" /\ Page(reader.list, reader.cursor) = {}
ReadAgain ==
  /\ ReaderIsDone /\ reader' = Away
  /\ UNCHANGED <<clock, cases, details, manifests, evidence, passes>>

ClockTicks ==
  /\ clock < MaxClock /\ clock' = clock + 1
  /\ UNCHANGED <<cases, details, manifests, evidence, passes, reader>>

WorkNext ==
  \/ \E q \in DOMAIN Found, at \in 1 .. MaxClock : PersistFound(q, at)
  \/ Supported \/ CheckPasses \/ ReadAgain \/ ClockTicks
  \/ \E i \in Case, t \in Triage : SetIncidentTriage(i, t)
  \/ \E i \in Case, e \in evidence, p \in passes : RecordIngressRecovery(i, e, p)
  \/ \E days \in Horizon .. Horizon + 1 :
       ApplyIncidentMetadataRetention(days) \/ ApplyFactRetention(days)
  \/ ListIncidents \/ ListQuarantine \/ ListIncidentOccurrences

-----------------------------------------------------------------------------
WorkTypeOK ==
  /\ clock \in 1 .. MaxClock
  /\ \A i \in Case : /\ cases[i].state \in {"none", "open", "resolved"}
                     /\ cases[i].triage \in Triage \cup {"new"}
                     /\ cases[i].seen \in 0 .. clock /\ cases[i].count \in Nat
  /\ details \subseteq (1 .. MaxClock) \X DOMAIN Found
  /\ evidence \subseteq 1 .. clock /\ passes \subseteq 1 .. clock

\* The daily audit finds the rows in order whatever late evidence, recoveries
\* and the two retentions did in between: an incident's count is what is kept
\* of its occurrences and what was taken out, and the event and the check a
\* recovery rests on outlive the thirty days in which it is asked for.  An
\* incident about a component is the exception the code has: its recovery rests
\* on a check of another capability.
RowsAreInOrder == AuditFinds = "db_integrity_violation" =>
  \E i \in Case : ByComponent(i) /\ Ungrounded(i)

\* Who follows the cursors to the end is shown no incident, manifest or
\* occurrence twice, and every row that was there at the start and has not moved
\* or been deleted meanwhile: what is inserted or seen again in between shifts
\* nothing (contracts/incidents/model.yaml:28).  A shape is shown again only when
\* retention had deleted its manifest in between and older news of it came late.
PagesAreStable ==
  /\ \A m, n \in DOMAIN reader.got : m # n => reader.got[m] # reader.got[n]
  /\ \A m, n \in DOMAIN reader.got : m < n /\ reader.got[m][2] = reader.got[n][2] =>
       CASE reader.list = "incidents" -> FALSE
         [] reader.list = "quarantine" -> reader.got[m][1] + Horizon < clock
         [] OTHER -> TRUE
  /\ ReaderIsDone => \A r \in reader.began : r \in Rows(reader.list) => r \in ToSet(reader.got)

WorkbenchHolds == RowsAreInOrder /\ PagesAreStable
=============================================================================
