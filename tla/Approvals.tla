------------------------------- MODULE Approvals -------------------------------
(***************************************************************************)
(* The guarded operations: a preview, then one approval of it.             *)
(*   plan        PlanManager.Preview / Apply            (runtime/plans.go) *)
(*   retention   PreviewRetention / ApplyRetention     (runtime/backup.go) *)
(*   projection  PreviewProjectionRepair / ApplyProjectionRepair           *)
(*                                         (runtime/projection_repair.go)  *)
(* Previews and the nonces already used live in memory, one set for plans  *)
(* and one for the other two; the approval ledger is a table whose         *)
(* request_id and nonce are unique.  A plan is applied under the mutex of  *)
(* its manager; the other two release theirs before they touch the table.  *)
(***************************************************************************)
EXTENDS Naturals, FiniteSets

CONSTANTS Preview,      \* request identifiers, each drawn once
          Nonce,        \* approval nonces an operator may send
          Caller,       \* concurrent HTTP requests
          MaxPreviews   \* maxOpenPreviews

ASSUME ApprovalAssumption == MaxPreviews \in Nat \ {0}

Operation == {"plan", "retention", "projection"}
NoPreview == "no preview"

VARIABLES
  kind,      \* the operation each request identifier was drawn for
  open,      \* the previews held in memory
  expired,   \* previews whose ten minutes are over
  used,      \* the nonces each of the two services remembers
  ledger,    \* runtime_operation_approvals: result of each request
  ledgerNonce, \* and the nonce it consumed
  request,   \* what each caller is doing: [at, id, nonce]
  effects    \* history: how often an effect ran, by request and nonce

approvalVars == <<kind, open, expired, used, ledger, ledgerNonce, request, effects>>

Service(op) == IF op = "plan" THEN "plans" ELSE "operations"
Idle == [at |-> "idle", id |-> NoPreview, nonce |-> NoPreview]

ApprovalInit ==
  /\ kind = [p \in Preview |-> "unused"]
  /\ open = {} /\ expired = {}
  /\ used = [s \in {"plans", "operations"} |-> {}]
  /\ ledger = [p \in Preview |-> "none"]
  /\ ledgerNonce = [p \in Preview |-> NoPreview]
  /\ request = [c \in Caller |-> Idle]
  /\ effects = [p \in Preview |-> [n \in Nonce |-> 0]]

Of(op) == {p \in open : kind[p] = op}

\* The mutex of PlanManager is held from the lookup to the last UPDATE.
PlanBusy == \E c \in Caller :
  request[c].at # "idle" /\ kind[request[c].id] = "plan"

-----------------------------------------------------------------------------
\* Preview of plans and of projection repairs first forgets what expired.
PreviewPurging(op, p) ==
  LET kept == open \ (Of(op) \cap expired) IN
  /\ op \in {"plan", "projection"}
  /\ op = "plan" => ~PlanBusy
  /\ kind[p] = "unused"
  /\ IF Cardinality(Of(op) \ expired) < MaxPreviews
     THEN open' = kept \cup {p} /\ kind' = [kind EXCEPT ![p] = op]
     ELSE open' = kept /\ UNCHANGED kind      \* preview_capacity_exhausted
  /\ UNCHANGED <<expired, used, ledger, ledgerNonce, request, effects>>

\* PreviewRetention forgets nothing: an abandoned preview keeps its place.
PreviewRetentionOneMore(p) ==
  /\ kind[p] = "unused"
  /\ Cardinality(Of("retention")) <= MaxPreviews
  /\ open' = open \cup {p} /\ kind' = [kind EXCEPT ![p] = "retention"]
  /\ UNCHANGED <<expired, used, ledger, ledgerNonce, request, effects>>

PreviewRetention(p) ==
  /\ kind[p] = "unused"
  /\ Cardinality(Of("retention")) < MaxPreviews
  /\ open' = open \cup {p} /\ kind' = [kind EXCEPT ![p] = "retention"]
  /\ UNCHANGED <<expired, used, ledger, ledgerNonce, request, effects>>

PreviewExpires(p) ==
  /\ p \in open \ expired
  /\ expired' = expired \cup {p}
  /\ UNCHANGED <<kind, open, used, ledger, ledgerNonce, request, effects>>

\* The in-memory checks: known, not expired, nonce fresh.  The operator may
\* also send parameters that do not bind to the preview, or (plans) a current
\* configuration that no longer yields the same plan; those change nothing.
Fresh(p, n) == p \in open \ expired /\ n \notin used[Service(kind[p])]

DropExpired(c, p) ==
  /\ request[c].at = "idle"
  /\ kind[p] # "plan" \/ ~PlanBusy
  /\ p \in open \cap expired
  /\ open' = open \ {p}
  /\ UNCHANGED <<kind, expired, used, ledger, ledgerNonce, request, effects>>

\* ApplyRetention and ApplyProjectionRepair consume preview and nonce in memory
\* before the table is asked.
BeginOperation(c, p, n) ==
  /\ request[c].at = "idle" /\ Fresh(p, n) /\ kind[p] # "plan"
  /\ used' = [used EXCEPT !["operations"] = @ \cup {n}]
  /\ open' = open \ {p}
  /\ request' = [request EXCEPT ![c] = [at |-> "inserting", id |-> p, nonce |-> n]]
  /\ UNCHANGED <<kind, expired, ledger, ledgerNonce, effects>>

BeginPlan(c, p, n) ==
  /\ request[c].at = "idle" /\ Fresh(p, n) /\ kind[p] = "plan" /\ ~PlanBusy
  /\ request' = [request EXCEPT ![c] = [at |-> "inserting", id |-> p, nonce |-> n]]
  /\ UNCHANGED <<kind, open, expired, used, ledger, ledgerNonce, effects>>

\* INSERT INTO runtime_operation_approvals: primary key and UNIQUE nonce.
InsertableOncePerRequest(p, n) == ledger[p] = "none"
Insertable(p, n) == ledger[p] = "none" /\ \A q \in Preview : ledgerNonce[q] # n

InsertApprovalUnlessAway(c) ==
  LET p == request[c].id  n == request[c].nonce IN
  /\ request[c].at = "inserting"
  /\ request' = [request EXCEPT ![c].at = "working"]
  /\ IF Insertable(p, n)
     THEN /\ ledger' = [ledger EXCEPT ![p] = "approved"]
          /\ ledgerNonce' = [ledgerNonce EXCEPT ![p] = n]
     ELSE UNCHANGED <<ledger, ledgerNonce>>
  /\ UNCHANGED <<kind, open, expired, used, effects>>

InsertApproval(c) ==
  LET p == request[c].id  n == request[c].nonce IN
  /\ request[c].at = "inserting"
  /\ \/ /\ Insertable(p, n)
        /\ ledger' = [ledger EXCEPT ![p] = "approved"]
        /\ ledgerNonce' = [ledgerNonce EXCEPT ![p] = n]
        /\ used' = [used EXCEPT ![Service(kind[p])] = @ \cup {n}]
        /\ request' = [request EXCEPT ![c].at = "working"]
     \/ \* approval_persistence_failed: a duplicate, or the database is away
        /\ request' = [request EXCEPT ![c] = Idle]
        /\ UNCHANGED <<ledger, ledgerNonce, used>>
  /\ UNCHANGED <<kind, open, expired, effects>>

Effect(c) == effects' = [effects EXCEPT ![request[c].id][request[c].nonce] = @ + 1]
\* The closing UPDATE is best effort: its error is dropped.
Record(c, result) ==
  ledger' \in {ledger, [ledger EXCEPT ![request[c].id] = result]}

\* SimulateApply, then the ledger; only a success forgets the preview.
WorkPlan(c) ==
  /\ request[c].at = "working" /\ kind[request[c].id] = "plan"
  /\ Effect(c)
  /\ \/ open' = open \ {request[c].id} /\ Record(c, "applied")
     \/ UNCHANGED open /\ Record(c, "failed")
  /\ request' = [request EXCEPT ![c] = Idle]
  /\ UNCHANGED <<kind, expired, used, ledgerNonce>>

\* dataplatform.ApplyRetention, then 'applied', then the incident metadata.
WorkRetention(c) ==
  /\ request[c].at = "working" /\ kind[request[c].id] = "retention"
  /\ Effect(c)
  /\ \/ Record(c, "failed") /\ request' = [request EXCEPT ![c] = Idle]
     \/ Record(c, "applied") /\ request' = [request EXCEPT ![c].at = "expiring"]
  /\ UNCHANGED <<kind, open, expired, used, ledgerNonce>>

ExpireMetadata(c) ==
  /\ request[c].at = "expiring"
  /\ UNCHANGED ledger \/ Record(c, "failed")
  /\ request' = [request EXCEPT ![c] = Idle]
  /\ UNCHANGED <<kind, open, expired, used, ledgerNonce, effects>>

\* One database replay and one spool replay, both attempted; 'applied' only if
\* both succeeded and no receipt is left.
WorkProjection(c) ==
  /\ request[c].at = "working" /\ kind[request[c].id] = "projection"
  /\ Effect(c)
  /\ Record(c, "applied") \/ Record(c, "failed")
  /\ request' = [request EXCEPT ![c] = Idle]
  /\ UNCHANGED <<kind, open, expired, used, ledgerNonce>>

\* The process dies and starts again: memory is empty, the table is not.
ApprovalCrash ==
  /\ open' = {} /\ used' = [s \in DOMAIN used |-> {}]
  /\ request' = [c \in Caller |-> Idle]
  /\ UNCHANGED <<kind, expired, ledger, ledgerNonce, effects>>

ApprovalNext ==
  \/ \E p \in Preview :
       \/ PreviewPurging("plan", p) \/ PreviewPurging("projection", p)
       \/ PreviewRetention(p) \/ PreviewExpires(p)
       \/ \E c \in Caller : DropExpired(c, p)
       \/ \E c \in Caller, n \in Nonce : BeginOperation(c, p, n) \/ BeginPlan(c, p, n)
  \/ \E c \in Caller :
       \/ InsertApproval(c) \/ WorkPlan(c) \/ WorkRetention(c)
       \/ ExpireMetadata(c) \/ WorkProjection(c)
  \/ ApprovalCrash

ApprovalSpec == ApprovalInit /\ [][ApprovalNext]_approvalVars

-----------------------------------------------------------------------------
ApprovalTypeOK ==
  /\ kind \in [Preview -> Operation \cup {"unused"}]
  /\ open \subseteq Preview /\ expired \subseteq Preview
  /\ \A op \in Operation : Cardinality(Of(op)) <= MaxPreviews
  /\ used \in [{"plans", "operations"} -> SUBSET Nonce]
  /\ ledger \in [Preview -> {"none", "approved", "applied", "failed"}]
  /\ ledgerNonce \in [Preview -> Nonce \cup {NoPreview}]
  /\ request \in [Caller -> [at : {"idle", "inserting", "working", "expiring"},
       id : Preview \cup {NoPreview}, nonce : Nonce \cup {NoPreview}]]
  /\ effects \in [Preview -> [Nonce -> Nat]]

\* One approval, one effect: whatever is sent twice, by two callers at once or
\* again after a crash that emptied both memories, no preview is carried out
\* twice and no nonce buys a second effect.
ConsumedOnce == \A p, q \in Preview, n, m \in Nonce :
  /\ effects[p][n] <= 1
  /\ effects[p][n] > 0 /\ effects[q][m] > 0 => ((p = q) <=> (n = m))

\* Every effect has left its approval in the ledger, where a crash cannot
\* reach it: nothing ran that the audit trail does not show.
EffectsAreRecorded == \A p \in Preview, n \in Nonce :
  effects[p][n] > 0 => ledger[p] # "none" /\ ledgerNonce[p] = n

\* An approval, its effect and its row in the ledger are one to one.
ApprovalsAccounted == ConsumedOnce /\ EffectsAreRecorded
=============================================================================
