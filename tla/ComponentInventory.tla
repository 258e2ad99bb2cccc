-------------------------- MODULE ComponentInventory --------------------------
(***************************************************************************)
(* Which component an observation is about                                 *)
(* (internal/dataplatform/inventory.go and the component part of           *)
(* observability_handoff.go; internal/runtime/inventory.go).               *)
(*                                                                         *)
(* Scans store inventory snapshots and refresh the current projection of   *)
(* one installation.  A lifecycle event first looks its component up in    *)
(* that projection and later, in a transaction of its own, stores an       *)
(* assertion with the result; a new snapshot resolves again what was not   *)
(* resolved.  What stays unresolved, or is outside a vocabulary, opens an  *)
(* incident, as a quarantined payload does.                                *)
(***************************************************************************)
EXTENDS Integers, Sequences, FiniteSets

CONSTANTS
  Component,   \* [id -> [kind, name, qualified, scope, plugin]]; plugin: its owner or None
  Snapshot,    \* [id -> [at, complete, nodes, cached]]
  Use,         \* [evidence id -> [kind, name, qualified, scope, stage, at]] of the lifecycle events
  Quarantined, \* [id -> [key, incident]] of the quarantined payloads, key: its occurrence
  Vocabulary,  \* source scopes of the adapter SDK
  None,
  MaxHandOver  \* times an event or payload is handed over

ASSUME InventoryAssumption ==
  /\ None \notin DOMAIN Component /\ MaxHandOver \in Nat
  /\ \A s \in DOMAIN Snapshot : /\ Snapshot[s].at \in Nat \ {0} /\ Snapshot[s].complete \in BOOLEAN
                                /\ Snapshot[s].nodes \subseteq DOMAIN Component

VARIABLES
  taken,       \* stored snapshots
  current,     \* component_inventory_state: [component -> [at, snap]], at = 0: no row
  found,       \* per use: what its handler resolved, or None
  history,     \* per use: the resolutions of its assertion, oldest first
  lifecycle,   \* component_lifecycle_events: [use -> component or None]
  children,    \* plugin child activity: <<use, plugin>>
  occurrences, \* incident_occurrences: <<incident, key>>
  incidents,   \* occurrence_count: [incident -> Nat]
  manifests,   \* [quarantine id -> occurrence_count]
  handed       \* times handed over: [use or quarantine id -> Nat]

inventoryVars == <<taken, current, found, history, lifecycle, children, occurrences,
                   incidents, manifests, handed>>

Components == DOMAIN Component
Uses == DOMAIN Use
Incident == {"unresolved", "ambiguous", "redacted", "scope_unknown"}
              \cup {Quarantined[q].incident : q \in DOMAIN Quarantined}
NoRow == [at |-> 0, snap |-> None]

InventoryInit ==
  /\ taken = {} /\ current = [c \in Components |-> NoRow]
  /\ found = [u \in Uses |-> None] /\ history = [u \in Uses |-> <<>>]
  /\ lifecycle = [u \in Uses |-> None] /\ children = {}
  /\ occurrences = {} /\ incidents = [i \in Incident |-> 0]
  /\ manifests = [q \in DOMAIN Quarantined |-> 0]
  /\ handed = [x \in Uses \cup DOMAIN Quarantined |-> 0]

-----------------------------------------------------------------------------
Present(state) == {c \in Components : state[c].at > 0}
Named(u, c) ==
  /\ Component[c].kind = Use[u].kind
  /\ IF Use[u].qualified # None THEN Component[c].qualified = Use[u].qualified
                                ELSE Component[c].name = Use[u].name

\* canonicalSourceScopeFilter: only a scope of the vocabulary narrows.
InScope(u, c) == Use[u].scope \in Vocabulary => Component[c].scope = Use[u].scope

Resolution(candidates) ==
  CASE candidates = {} -> [state |-> "unresolved", component |-> None]
    [] Cardinality(candidates) = 1 ->
         [state |-> "exact", component |-> CHOOSE c \in candidates : TRUE]
    [] OTHER -> [state |-> "ambiguous", component |-> None]

\* resolveInventoryLifecycleComponent: the lookup, before the fact is stored.
Resolve(u) ==
  /\ found[u] = None /\ handed[u] < MaxHandOver
  /\ handed' = [handed EXCEPT ![u] = @ + 1]
  /\ found' = [found EXCEPT ![u] =
       IF Use[u].name = None THEN [state |-> "redacted", component |-> None]
       ELSE Resolution({c \in Present(current) : Named(u, c) /\ InScope(u, c)})]
  /\ UNCHANGED <<taken, current, history, lifecycle, children, occurrences, incidents, manifests>>

\* The plugin whose current snapshot row bundles the component.
PluginsOf(c) == {p \in {Component[c].plugin} \ {None} :
                   current[p].at > 0 /\ c \in Snapshot[current[p].snap].nodes}

Reported(u, r) ==
  (IF Use[u].scope \notin Vocabulary \cup {None} THEN {"scope_unknown"} ELSE {})
    \cup (IF r.state # "exact" THEN {r.state} ELSE {})

OccurEverySend(new) ==
  /\ occurrences' = occurrences \cup new
  /\ incidents' = [i \in Incident |-> incidents[i] + Cardinality({o \in new : o[1] = i})]

\* An occurrence opens its incident or counts once more, if it is new.
Occur(new) ==
  /\ occurrences' = occurrences \cup new
  /\ incidents' = [i \in Incident |->
       incidents[i] + Cardinality({o \in new \ occurrences : o[1] = i})]

PersistLifecycleUnreported(u) == LET r == found[u] IN
  /\ r # None /\ found' = [found EXCEPT ![u] = None]
  /\ history' = [history EXCEPT ![u] = IF @ = <<>> THEN <<r>> ELSE @]
  /\ UNCHANGED <<taken, current, lifecycle, children, occurrences, incidents, manifests, handed>>

\* persistProjections of a lifecycle event, one transaction: the lifecycle row
\* of an exact component, the assertion once per evidence, and with a new
\* assertion its incidents and the activity of the plugin that owns it.
PersistLifecycle(u) == LET r == found[u] IN
  /\ r # None /\ found' = [found EXCEPT ![u] = None]
  /\ lifecycle' = [lifecycle EXCEPT ![u] =
       IF @ = None /\ Use[u].stage # "requested" THEN r.component ELSE @]
  /\ IF history[u] # <<>> THEN UNCHANGED <<history, occurrences, incidents, children>>
     ELSE /\ history' = [history EXCEPT ![u] = <<r>>]
          /\ Occur({<<i, u>> : i \in Reported(u, r)})
          /\ children' = children \cup
               (IF r.state = "exact" /\ Use[u].stage = "invoked"
                THEN {<<u, p>> : p \in PluginsOf(r.component)} ELSE {})
  /\ UNCHANGED <<taken, current, manifests, handed>>

\* An error anywhere between: the caller hands the event over again.
LifecycleFails(u) ==
  /\ found[u] # None /\ found' = [found EXCEPT ![u] = None]
  /\ UNCHANGED <<taken, current, history, lifecycle, children, occurrences, incidents,
                 manifests, handed>>

\* PersistQuarantineMetadata, one transaction keyed by the occurrence.
PersistQuarantine(q) == LET o == <<Quarantined[q].incident, Quarantined[q].key>> IN
  /\ handed[q] < MaxHandOver /\ handed' = [handed EXCEPT ![q] = @ + 1]
  /\ Occur({o})
  /\ manifests' = [manifests EXCEPT ![q] = IF o \in occurrences THEN @ ELSE @ + 1]
  /\ UNCHANGED <<taken, current, found, history, lifecycle, children>>

-----------------------------------------------------------------------------
\* Rows after a snapshot: written only when no row is newer, pruned only by a
\* complete one.
NewestAt == {current[c].at : c \in Components}
RefreshesAlways(s) == TRUE
Refreshes(s) == \A at \in NewestAt : at <= Snapshot[s].at
Refreshed(s) == LET snap == Snapshot[s] IN [c \in Components |->
  IF ~Refreshes(s) THEN current[c]
  ELSE IF c \in snap.nodes \ snap.cached THEN [at |-> snap.at, snap |-> s]
  ELSE IF snap.complete THEN NoRow ELSE current[c]]

Latest(u) == history[u][Len(history[u])]
ReResolvedAll(state, u) == LET r == Resolution({c \in Present(state) : Named(u, c)}) IN
  IF history[u] = <<>> \/ Use[u].qualified = None \/ r = Latest(u) THEN history[u]
  ELSE Append(history[u], r)

ReResolvedOnce(state, u) == LET r == Resolution({c \in Present(state) : Named(u, c)}) IN
  IF Len(history[u]) # 1 \/ Use[u].qualified = None \/ r = Latest(u)
       \/ Latest(u).state \notin {"unresolved", "ambiguous"}
  THEN history[u] ELSE Append(history[u], r)

\* reResolveComponentAssertions: open assertions with a qualified identity get
\* a new version when the answer changed.  The scope filter is not applied.
ReResolved(state, u) == LET r == Resolution({c \in Present(state) : Named(u, c)}) IN
  IF \/ history[u] = <<>> \/ Use[u].qualified = None
     \/ Latest(u).state \notin {"unresolved", "ambiguous"} \/ r = Latest(u)
  THEN history[u] ELSE Append(history[u], r)

PersistSnapshotUnstored(s) ==
  /\ current' = Refreshed(s)
  /\ history' = [u \in Uses |-> ReResolved(current', u)]
  /\ UNCHANGED <<taken, found, lifecycle, children, occurrences, incidents, manifests, handed>>

\* PersistInventorySnapshot, one transaction; a snapshot may be stored again.
PersistSnapshot(s) ==
  /\ taken' = taken \cup {s}
  /\ current' = Refreshed(s)
  /\ history' = [u \in Uses |-> ReResolved(current', u)]
  /\ UNCHANGED <<found, lifecycle, children, occurrences, incidents, manifests, handed>>

InventoryNext ==
  \/ \E u \in Uses : Resolve(u) \/ PersistLifecycle(u) \/ LifecycleFails(u)
  \/ \E q \in DOMAIN Quarantined : PersistQuarantine(q)
  \/ \E s \in DOMAIN Snapshot : PersistSnapshot(s)

SnapshotStored == \E s \in DOMAIN Snapshot : PersistSnapshot(s)

-----------------------------------------------------------------------------
InventoryTypeOK ==
  /\ \A c \in Components : current[c] = NoRow \/ current[c].snap \in taken
  /\ \A u \in Uses : handed[u] \in 0 .. MaxHandOver
       /\ \A i \in DOMAIN history[u] : history[u][i].component \in Components \cup {None}

\* A complete scan decides what is current: every component of the newest
\* complete snapshot is there and nothing older is, whatever older snapshot is
\* stored again later (inventory.go: "an older replay cannot erase newer
\* state").  After one that found nothing but caches there is no row left to
\* tell it is newer, and an older snapshot does bring its components back.
CurrentFollowsNewest == \A s \in taken :
  /\ Snapshot[s].complete /\ Snapshot[s].nodes \ Snapshot[s].cached # {}
  /\ \A other \in taken \ {s} : Snapshot[other].at < Snapshot[s].at
  => Present(current) = Snapshot[s].nodes \ Snapshot[s].cached

\* A resolution is settled once it is exact: later snapshots only ever resolve
\* what was open, so that counts by component do not move under a reader.
ExactIsFinal == [][\A u \in Uses :
  history[u] # <<>> /\ Latest(u).state = "exact" => history'[u] = history[u]]_inventoryVars

\* However often the source, the lane or the operator hands the same evidence
\* over, an incident counts its occurrences exactly, and a manifest its own.
IncidentsCountOccurrences ==
  /\ \A i \in Incident : incidents[i] = Cardinality({o \in occurrences : o[1] = i})
  /\ \A q \in DOMAIN Quarantined : manifests[q] <= 1

\* Nothing that was not understood disappears: an assertion stored without its
\* component, or with a scope outside the vocabulary, has its incident.
NotUnderstoodIsReported == \A u \in Uses : history[u] # <<>> =>
  \A i \in Reported(u, history[u][1]) : <<i, u>> \in occurrences

\* A lookup that raced a snapshot is repaired by the scans that follow: when
\* one component stays the only one an assertion can mean, the assertion ends
\* up exact.  (Only those with a qualified identity; the others stay open.)
Unique(u) == Cardinality({c \in Present(current) : Named(u, c)}) = 1
OpenAssertionsSettle == \A u \in Uses : Use[u].qualified # None =>
  (<>[](Unique(u) /\ history[u] # <<>>) => <>(history[u] # <<>> /\ Latest(u).state = "exact"))

\* What the projections show agrees with what was taken in: the newest scan,
\* each occurrence once, and everything that was not understood.
ProjectionsAgree == CurrentFollowsNewest /\ IncidentsCountOccurrences /\ NotUnderstoodIsReported

\* An assertion settles: what is open becomes exact when it can, and stays so.
AssertionsSettle == ExactIsFinal /\ OpenAssertionsSettle
=============================================================================
