------------------------------ MODULE Observatory ------------------------------
(***************************************************************************)
(* What the skill and plugin pages tell of the components                  *)
(* (internal/dataplatform/skill_observatory.go, plugin_observatory.go,     *)
(* plane_support.go; internal/runtime/api_skills.go, api_plugins.go).      *)
(*                                                                         *)
(* A list of a window is one statement over the assertions and the         *)
(* inventory, and a second one over what is still open; a profile repeats  *)
(* the list and then reads more.  Each statement sees what is stored when  *)
(* it runs: snapshots and lifecycle events are stored between them.        *)
(***************************************************************************)
EXTENDS ComponentInventory

CONSTANTS
  Enabled,      \* [snapshot -> the components it says are enabled]
  Declaration,  \* what the adapters of the installation say of their exposed plane
  Windows,      \* the windows that are asked for: [from, to], to not included
  ProfileLimit, \* assertions a profile lists at most
  MaxReports

ASSUME ObservatoryAssumption ==
  /\ \A w \in Windows : w.from \in Int /\ w.to \in Int
  /\ \A u \in DOMAIN Use : Use[u].at \in Int

VARIABLES
  plane,       \* agent_component_plane_support of the exposed plane
  report,      \* the request being served
  told,        \* <<component, window>>: an answer has called it used or active
  reports      \* requests so far

observatoryVars == <<plane, report, told, reports>>

Kind == {"skill", "plugin"}
OfKind(kind) == {c \in Components : Component[c].kind = kind}
NoReport == [at |-> "idle", kind |-> None, about |-> None, window |-> None, rows |-> <<>>,
             open |-> {}, listed |-> {}, own |-> {}]

ObservatoryInit == plane = "undeclared" /\ report = NoReport /\ told = {} /\ reports = 0

-----------------------------------------------------------------------------
During(w) == {u \in Uses : history[u] # <<>> /\ w.from <= Use[u].at /\ Use[u].at < w.to}
Within(v, w) == w.from <= v.from /\ v.to <= w.to

\* component_assertion_current_resolution: the latest version counts.
Means(r, c) == r = [state |-> "exact", component |-> c]
ResolvedTo(c, w) == {u \in During(w) : Means(Latest(u), c)}
FirstResolvedTo(c, w) == {u \in During(w) : Means(history[u][1], c)}
Of(stage, uses) == {u \in uses : Use[u].stage = stage}
ActivityOf(p, w) == {u \in During(w) : <<u, p>> \in children}

\* component_observation_windows: persistProjections adds one, a microsecond
\* long, with an exposure that is exact at once; one resolved later has none.
CompleteExposure(c, w) == \E u \in Of("exposed", FirstResolvedTo(c, w)) : Use[u].complete

IsEnabled(c) == c \in Enabled[current[c].snap]
SnapshotComplete(c) == Snapshot[current[c].snap].complete

\* Cold eligibility has two paths; an undeclared plane is a supported one.
SkillEligible(c, w) ==
  /\ IsEnabled(c)
  /\ IF plane = "unsupported" THEN SnapshotComplete(c)
     ELSE CompleteExposure(c, w) /\ Of("exposed", ResolvedTo(c, w)) # {}

State(eligible, idle, busy, uses) ==
  IF ~eligible THEN "not_observed" ELSE IF uses = {} THEN idle ELSE busy

SkillRow(c, w) == LET uses == Of("invoked", ResolvedTo(c, w)) IN
  [uses |-> uses, state |-> State(SkillEligible(c, w), "cold", "used", uses)]

\* A plugin counts when its current snapshot is complete and bundles something.
Bundled(p) == {c \in Snapshot[current[p].snap].nodes : Component[c].plugin = p}
PluginRow(p, w) ==
  LET uses == Of("loaded", ResolvedTo(p, w)) \cup ActivityOf(p, w)
      known == SnapshotComplete(p) /\ Bundled(p) # {}
  IN [uses |-> uses,
      state |-> IF known /\ ~IsEnabled(p) THEN "disabled" ELSE State(known, "cold", "active", uses)]

Rows(kind, w) == [c \in Present(current) \cap OfKind(kind) |->
                    IF kind = "plugin" THEN PluginRow(c, w) ELSE SkillRow(c, w)]

\* The first statement of SkillObservatory or PluginObservatory.
ReadRows(kind, about, w) ==
  /\ report.at = "idle" /\ reports < MaxReports /\ reports' = reports + 1
  /\ report' = [NoReport EXCEPT !.at = "rows", !.kind = kind, !.about = about, !.window = w,
                                !.rows = Rows(kind, w)]
  /\ UNCHANGED <<plane, told>>

\* The second: open identities of the kind.  A list is answered, a profile goes
\* on with the row it is about or is not found.
ReadOpen ==
  /\ report.at = "rows"
  /\ report' = [report EXCEPT
       !.at = IF report.about \in DOMAIN report.rows THEN "profile" ELSE "answered",
       !.open = {u \in During(report.window) : /\ Use[u].kind = report.kind
                                               /\ Latest(u).state \in {"unresolved", "ambiguous"}}]
  /\ UNCHANGED <<plane, told, reports>>

\* ORDER BY observed_at DESC ... LIMIT: the newest, when there are more.
Lists(listed, uses) ==
  \/ listed = uses /\ Cardinality(listed) <= ProfileLimit
  \/ /\ Cardinality(listed) = ProfileLimit
     /\ \A u \in uses \ listed, v \in listed : Use[u].at <= Use[v].at

ReadSkillProfileAtIngest == LET uses == FirstResolvedTo(report.about, report.window) IN
  /\ report.at = "profile" /\ report.kind = "skill"
  /\ \E listed \in SUBSET uses : /\ Lists(listed, uses)
                                 /\ report' = [report EXCEPT !.at = "answered", !.listed = listed]
  /\ UNCHANGED <<plane, told, reports>>

\* SkillProfile: the newest assertions that mean the skill now.
ReadSkillProfile == LET uses == ResolvedTo(report.about, report.window) IN
  /\ report.at = "profile" /\ report.kind = "skill"
  /\ \E listed \in SUBSET uses : /\ Lists(listed, uses)
                                 /\ report' = [report EXCEPT !.at = "answered", !.listed = listed]
  /\ UNCHANGED <<plane, told, reports>>

\* PluginProfile: the children its current snapshot bundles, with the uses that
\* were theirs when they were stored; and then the newest that were its own.
ReadPluginProfile == LET p == report.about IN
  /\ report.at = "profile" /\ report.kind = "plugin"
  /\ report' = [report EXCEPT !.at = "children",
       !.listed = IF current[p].at = 0 THEN {}
                  ELSE UNION {Of("invoked", FirstResolvedTo(c, report.window)) : c \in Bundled(p)}]
  /\ UNCHANGED <<plane, told, reports>>

ReadPluginAssertions ==
  LET uses == FirstResolvedTo(report.about, report.window) \cup ActivityOf(report.about, report.window)
  IN  /\ report.at = "children"
      /\ \E own \in SUBSET uses : /\ Lists(own, uses)
                                  /\ report' = [report EXCEPT !.at = "answered", !.own = own]
      /\ UNCHANGED <<plane, told, reports>>

\* The handler writes the answer: the list, or the row of the profile.
AnsweredRows == IF report.about = None THEN DOMAIN report.rows ELSE DOMAIN report.rows \cap {report.about}
Answer ==
  /\ report.at = "answered" /\ report' = NoReport
  /\ told' = told \cup {<<c, report.window>> : c \in {d \in AnsweredRows : report.rows[d].state \in {"used", "active"}}}
  /\ UNCHANGED <<plane, reports>>

\* The pool, the statement timeout, the budget or the caller's deadline: 503.
ReadFails ==
  /\ report.at \in {"rows", "profile", "children"} /\ report' = NoReport
  /\ UNCHANGED <<plane, told, reports>>

\* UpsertComponentPlaneSupport: a scan first stores what its adapter declares.
UpsertComponentPlaneSupport(d) == plane' = d /\ UNCHANGED <<report, told, reports>>

ObservatoryNext ==
  \/ \E kind \in Kind, w \in Windows : \E about \in OfKind(kind) \cup {None} : ReadRows(kind, about, w)
  \/ ReadOpen \/ ReadSkillProfile \/ ReadPluginProfile \/ ReadPluginAssertions \/ Answer \/ ReadFails
  \/ \E d \in Declaration : UpsertComponentPlaneSupport(d)

-----------------------------------------------------------------------------
ObservatoryTypeOK ==
  /\ report.at \in {"idle", "rows", "profile", "children", "answered"}
  /\ DOMAIN report.rows \subseteq Components /\ told \subseteq Components \X Windows

\* What was told is not taken back: a component an answer has called used in a
\* window is never called cold in a later one that covers it, whatever scans,
\* uses and declarations come between them (at most it can no longer be told).
UsesAreNotTakenBack ==
  \A c \in DOMAIN report.rows, v \in Windows :
    report.rows[c].state = "cold" /\ <<c, v>> \in told => ~Within(v, report.window)

\* The statements of a page agree although the store moves between them.  No
\* use is both counted in a row and reported as open; a use the row of a skill
\* counts is in its profile, or older than all the profile has room for; and a
\* plugin's shows no use that is not its child's, or its own, by now.
ProfilesAgree ==
  /\ \A c \in DOMAIN report.rows : report.rows[c].uses \cap report.open = {}
  /\ report.at = "answered" /\ report.kind = "skill" /\ report.about \in DOMAIN report.rows =>
       \A u \in report.rows[report.about].uses \ report.listed :
         /\ Cardinality(report.listed) = ProfileLimit
         /\ \A v \in report.listed : Use[u].at <= Use[v].at
  /\ report.kind = "plugin" =>
       /\ \A u \in report.listed : \E c \in Components : /\ Component[c].plugin = report.about
                                                         /\ u \in ResolvedTo(c, report.window)
       /\ report.own \subseteq ResolvedTo(report.about, report.window) \cup ActivityOf(report.about, report.window)

ObservatoryHolds == UsesAreNotTakenBack /\ ProfilesAgree
=============================================================================
