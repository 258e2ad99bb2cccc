------------------------------ MODULE Installer ------------------------------
(***************************************************************************)
(* Plans for the configuration file of an agent                            *)
(* (internal/installer/protocol.go; the plans that runtime/plans.go        *)
(* previews and applies).  Two targets share one file: a telemetry plan    *)
(* and a hook plan of one agent own disjoint keys of it.  Nothing writes   *)
(* the real file (AuthorizeRealWrite refuses every write): file is the     *)
(* configuration a caller passes as current and gets back materialized,    *)
(* and its user edits it between any two steps.                            *)
(*                                                                         *)
(* Digests of canonical maps are the maps themselves, so a plan and its    *)
(* approval are compared by what they say.                                 *)
(***************************************************************************)
EXTENDS Naturals, FiniteSets

CONSTANTS
  Target,     \* [id -> [required, forbidden, never]]: key -> value; keys; keys
  Key,        \* the keys of the file
  Value,      \* values its user gives them
  Unset,      \* a key that is not there
  MaxPlans    \* bound on the plans of a behaviour

ASSUME InstallerAssumption == \A t \in DOMAIN Target :
  /\ DOMAIN Target[t].required \subseteq Key
  /\ \A k \in DOMAIN Target[t].required : Target[t].required[k] \notin Value \cup {Unset}
  /\ Target[t].forbidden \cup Target[t].never \subseteq Key
  /\ DOMAIN Target[t].required \cap Target[t].never = {}   \* contradictory_target_spec
  /\ \A other \in DOMAIN Target :                          \* as targetSpecs lists them
       /\ other # t => DOMAIN Target[t].required \cap DOMAIN Target[other].required = {}
       /\ DOMAIN Target[t].required \cap Target[other].forbidden = {}

VARIABLES
  file,      \* the configuration: [key -> value or Unset]
  built,     \* plans: [target, original, planned, discloses]
  approved,  \* approvals: the plan each is bound to
  backups,   \* configurations kept to return to
  under,     \* history: plans applied and not taken back
  settled,   \* history: targets whose keys nobody but their plans has touched since
  wish       \* history: what the user last made of each key

installVars == <<file, built, approved, backups, under, settled, wish>>

Owned(t) == DOMAIN Target[t].required
Empty == [k \in Key |-> Unset]

InstallInit ==
  /\ file = Empty /\ wish = Empty
  /\ built = {} /\ approved = {} /\ backups = {} /\ under = {} /\ settled = {}

-----------------------------------------------------------------------------
\* containsForbidden, for every forbidden entry of the target.
Unsafe(t, config) == \E k \in Target[t].forbidden : config[k] # Unset

Planned(t, config) == [k \in Key |->
  IF k \in Owned(t) THEN Target[t].required[k] ELSE config[k]]

\* buildTargetPlan: unsafe_existing_target_setting refuses the plan; a key the
\* user must set himself is disclosed and left alone.
BuildPlan(t) ==
  LET p == [target |-> t, original |-> file, planned |-> Planned(t, file),
            discloses |-> {k \in Target[t].never : file[k] # Unset}] IN
  /\ ~Unsafe(t, file)
  /\ p \notin built /\ Cardinality(built) < MaxPlans
  /\ built' = built \cup {p} /\ backups' = backups \cup {file}
  /\ UNCHANGED <<file, approved, under, settled, wish>>

\* Approve: consent to one target and to both digests.
Approve(p) ==
  /\ approved' = approved \cup {p}
  /\ UNCHANGED <<file, built, backups, under, settled, wish>>

\* validateApproval, then the file must be what the plan was made from.
ValidApproval(p, a) == a = p
SimulateApply(p, a) ==
  /\ ValidApproval(p, a) /\ file = p.original
  /\ file' = p.planned
  /\ under' = under \cup {p} /\ settled' = settled \cup {p.target}
  /\ UNCHANGED <<built, approved, backups, wish>>

MayRestoreOwned(p, backup) ==
  /\ \A k \in Owned(p.target) : file[k] = p.planned[k]
  /\ backup = p.original

\* simulateRestore, of a rollback and of a removal: the file must be what the
\* plan made, and the backup what it was made from.
MayRestore(p, backup) == file = p.planned /\ backup = p.original
SimulateRestore(p, a, backup) ==
  /\ ValidApproval(p, a) /\ MayRestore(p, backup)
  /\ file' = backup
  /\ under' = under \ {p} /\ settled' = settled \ {p.target}
  /\ UNCHANGED <<built, approved, backups, wish>>

\* The user edits one key.  Had he given a key the very value a plan sets,
\* digests could not tell the two apart, and SimulateRestore would take back a
\* plan that was never applied; Value has no such value.
UserEdits(k, v) ==
  /\ file[k] # v
  /\ file' = [file EXCEPT ![k] = v] /\ wish' = [wish EXCEPT ![k] = v]
  /\ settled' = {t \in settled : k \notin Owned(t)}
  /\ UNCHANGED <<built, approved, backups, under>>

InstallNext ==
  \/ \E t \in DOMAIN Target : BuildPlan(t)
  \/ \E p \in built : Approve(p) \/ \E a \in approved : SimulateApply(p, a)
  \/ \E p \in built, a \in approved, backup \in backups : SimulateRestore(p, a, backup)
  \/ \E k \in Key, v \in Value \cup {Unset} : UserEdits(k, v)

\* VerifyEffectiveSettings, given a canary of the planned file and no override
\* of the environment: what is in effect has the required settings and nothing
\* forbidden.
Verifies(t, config) ==
  /\ \A k \in Owned(t) : config[k] = Target[t].required[k]
  /\ ~Unsafe(t, config)

-----------------------------------------------------------------------------
InstallTypeOK ==
  /\ \A k \in Key : file[k] \in Value \cup {Unset}
       \/ \E t \in DOMAIN Target : k \in Owned(t) /\ file[k] = Target[t].required[k]
  /\ wish \in [Key -> Value \cup {Unset}]
  /\ \A p \in built : p.target \in DOMAIN Target /\ p.original \in backups
  /\ approved \subseteq built /\ under \subseteq approved
  /\ settled \subseteq DOMAIN Target

\* Nothing of the user's is lost: a key that no plan in force owns has the
\* value the user gave it last, however often plans were applied, taken back,
\* and applied again over his edits.
UserKeysKept == \A k \in Key :
  (\A p \in under : k \notin Owned(p.target)) => file[k] = wish[k]

\* Plans that share a file do not undo each other: what one target set stays
\* set, and it verifies unless the user himself put something unsafe there.
SiblingsKept == \A t \in settled :
  Verifies(t, file) \/ \E k \in Target[t].forbidden : wish[k] # Unset

PlansOwnOnlyTheirs == UserKeysKept /\ SiblingsKept
=============================================================================
