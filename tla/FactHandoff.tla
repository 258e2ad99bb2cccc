----------------------------- MODULE FactHandoff -----------------------------
(***************************************************************************)
(* How one fact reaches the database                                       *)
(* (internal/dataplatform/observability_handoff.go, ingest.go,             *)
(* projection_repair.go).                                                  *)
(*                                                                         *)
(* The workers of the lanes and the replays of the spools call             *)
(* PersistNormalizedFact: dimensions, then the fact, its evidence and a    *)
(* receipt in one transaction, then the projections one statement after    *)
(* the other, then the receipt is deleted.  An operator's repair runs the  *)
(* projections of the receipts that are left.  Every statement takes a     *)
(* connection of the pool; the transaction of the fact keeps its own while *)
(* EnsurePartition asks for another.                                       *)
(***************************************************************************)
EXTENDS Integers, Sequences, FiniteSets

CONSTANTS
  Evidence,   \* [evidence id -> [event, type]]: what may be handed over
  Legacy,     \* evidence that may have a receipt from before receipts kept an input
  Worker,     \* concurrent callers of PersistNormalizedFact
  Repair,     \* the caller of ReplayPendingProjections
  Conns,      \* connections of the pool
  Batch,      \* MaxProjectionRepairBatch
  MaxCall,    \* calls per evidence
  MaxFault    \* statements that fail, and crashes

ASSUME PoolAssumption ==
  Conns \in Nat \ {0} /\ Repair \notin Worker /\ DOMAIN Evidence # {} /\ MaxCall \in Nat

Id == DOMAIN Evidence
Event(e) == Evidence[e].event
Caller == Worker \cup {Repair}

\* persistProjections: the statements an event of each type needs, in order;
\* persistSourceWatermark comes before them.
\* A tool call of an MCP server is asserted per evidence, all else per event.
Statements(type) ==
  CASE type = "prompt.submitted" -> <<"prompt_features">>
    [] type = "tool.decided"     -> <<"tool_decisions", "sessions">>
    [] type = "tool.called"      -> <<"tool_calls">>
    [] type = "mcp.called"       -> <<"tool_calls", "mcp_call_assertions">>
    [] type = "model.requested"  -> <<"model_operations">>
    [] type = "model.responded"  -> <<"model_operations", "token_usage", "cost_estimates">>
    [] type = "source.observed"  -> <<"turns", "hook_registrations", "sessions">>
    [] OTHER                     -> <<"sessions">>
Derived(e) == <<"source_watermarks">> \o Statements(Evidence[e].type)
RowOf(e, table) == <<table, IF table = "mcp_call_assertions" THEN e ELSE Event(e)>>
RowsOf(e) == {RowOf(e, Derived(e)[i]) : i \in DOMAIN Derived(e)}

VARIABLES
  events,     \* committed facts
  seen,       \* per evidence: times InsertFact committed it
  receipts,   \* per evidence: "none" | "pending" | "retryable"
  input,      \* evidence whose receipt holds its projection input
  rows,       \* derived rows: <<table, key>>
  caller,     \* per caller: [at, e, step]
  batch,      \* receipts the repair has read and not finished
  held,       \* connections that open transactions keep
  calls,      \* per evidence: calls so far
  faults

factVars == <<events, seen, receipts, input, rows, caller, batch, held, calls, faults>>

AtRest == [at |-> "idle", e |-> CHOOSE e \in Id : TRUE, step |-> 1]

FactInit ==
  /\ seen \in {[e \in Id |-> IF e \in old THEN 1 ELSE 0] : old \in SUBSET Legacy}
  /\ events = {Event(e) : e \in {x \in Id : seen[x] = 1}}
  /\ receipts = [e \in Id |-> IF seen[e] = 1 THEN "pending" ELSE "none"]
  /\ input = {} /\ rows = {}
  /\ caller = [c \in Caller |-> AtRest]
  /\ batch = {} /\ held = 0 /\ calls = [e \in Id |-> 0] /\ faults = 0

-----------------------------------------------------------------------------
\* Transactions of InsertFact hold a connection from Begin to the end; all
\* other statements take one only while they run.
Available == held < Conns
InTransaction == {c \in Caller : caller[c].at \in {"begun", "partitioned"}}

Moves(c, to) == caller' = [caller EXCEPT ![c].at = to]
Returns(c) == caller' = [caller EXCEPT ![c] = AtRest]
Fault == faults < MaxFault /\ faults' = faults + 1

HandOver(w, e) ==
  /\ caller[w].at = "idle" /\ calls[e] < MaxCall
  /\ caller' = [caller EXCEPT ![w] = [at |-> "ready", e |-> e, step |-> 1]]
  /\ calls' = [calls EXCEPT ![e] = @ + 1]
  /\ UNCHANGED <<events, seen, receipts, input, rows, batch, faults, held>>

\* EnsureDimensions has run (insert-or-ignore statements, each on its own).
Begin(w) ==
  /\ caller[w].at = "ready" /\ Available /\ Moves(w, "begun")
  /\ held' = held + 1
  /\ UNCHANGED <<events, seen, receipts, input, rows, batch, calls, faults>>

\* EnsurePartition runs on the pool, not on the transaction.
EnsurePartition(w) ==
  /\ caller[w].at = "begun" /\ Available /\ Moves(w, "partitioned")
  /\ UNCHANGED <<events, seen, receipts, input, rows, batch, held, calls, faults>>

\* Evidence that corroborates a known fact ends here: nothing is projected,
\* and its receipt stays.
Corroborates(e) == Event(e) \in events /\ seen[e] = 0

InsertFact(w) == LET e == caller[w].e IN
  /\ caller[w].at = "partitioned"
  /\ events' = events \cup {Event(e)} /\ seen' = [seen EXCEPT ![e] = @ + 1]
  /\ receipts' = [receipts EXCEPT ![e] = IF @ = "none" THEN "pending" ELSE @]
  /\ input' = input \cup {e} /\ held' = held - 1
  /\ IF Corroborates(e) THEN Returns(w) ELSE Moves(w, "project")
  /\ UNCHANGED <<rows, batch, calls, faults>>

HandOverLeaks(w) ==
  /\ caller[w].at \in {"ready", "begun", "partitioned"}
  /\ Fault /\ Returns(w)
  /\ UNCHANGED <<events, seen, receipts, input, rows, batch, held, calls>>

\* Before the commit any error, also the deadline while every connection is
\* taken, rolls back and is the caller's to retry.
HandOverFails(w) ==
  /\ caller[w].at \in {"ready", "begun", "partitioned"}
  /\ Fault /\ Returns(w)
  /\ held' = IF w \in InTransaction THEN held - 1 ELSE held
  /\ UNCHANGED <<events, seen, receipts, input, rows, batch, calls>>

-----------------------------------------------------------------------------
\* One statement after the other; an insert of a row that is there is ignored.
Project(c) == LET e == caller[c].e IN
  /\ caller[c].at = "project" /\ Available
  /\ rows' = rows \cup {RowOf(e, Derived(e)[caller[c].step])}
  /\ IF caller[c].step = Len(Derived(e)) THEN Moves(c, "receipt")
     ELSE caller' = [caller EXCEPT ![c].step = @ + 1]
  /\ UNCHANGED <<events, seen, receipts, input, batch, held, calls, faults>>
DeleteReceipt(c) == LET e == caller[c].e IN
  /\ caller[c].at = "receipt" /\ Available
  /\ receipts' = [receipts EXCEPT ![e] = "none"] /\ input' = input \ {e}
  /\ Returns(c)
  /\ UNCHANGED <<events, seen, rows, batch, held, calls, faults>>

ProjectionFailureIgnored(c) ==
  /\ caller[c].at \in {"project", "receipt"}
  /\ Fault /\ Moves(c, "receipt")
  /\ UNCHANGED <<events, seen, receipts, input, rows, batch, held, calls>>

\* markProjectionFailure, whose own errors are ignored; the worker's record
\* goes to the spool, the repair goes on with the next row.
ProjectionFails(c) == LET e == caller[c].e IN
  /\ caller[c].at \in {"project", "receipt"}
  /\ Fault
  /\ \/ UNCHANGED receipts
     \/ receipts' = [receipts EXCEPT ![e] = IF @ = "none" THEN @ ELSE "retryable"]
  /\ Returns(c)
  /\ UNCHANGED <<events, seen, input, rows, batch, held, calls>>

-----------------------------------------------------------------------------
\* ReplayPendingProjections reads at most Batch receipts that have an input...
Waiting == {e \in Id : receipts[e] \in {"pending", "retryable"} /\ e \in input}
ReadReceipts ==
  /\ caller[Repair].at = "idle" /\ batch = {} /\ Available
  /\ batch' \in {s \in SUBSET Waiting : Cardinality(s) \in 1 .. Batch}
  /\ UNCHANGED <<events, seen, receipts, input, rows, caller, held, calls, faults>>
RepairRowAgain(e) ==
  /\ caller[Repair].at = "idle" /\ e \in batch
  /\ batch' = batch \ {e}
  /\ caller' = [caller EXCEPT ![Repair] = [at |-> "ready", e |-> e, step |-> 1]]
  /\ UNCHANGED <<events, seen, receipts, input, rows, held, calls, faults>>

\* ...and takes each row through the projections, never through InsertFact.
RepairRow(e) ==
  /\ caller[Repair].at = "idle" /\ e \in batch
  /\ batch' = batch \ {e}
  /\ caller' = [caller EXCEPT ![Repair] = [at |-> "project", e |-> e, step |-> 1]]
  /\ UNCHANGED <<events, seen, receipts, input, rows, held, calls, faults>>

\* The process dies: its transactions roll back, its callers are gone.
FactCrash ==
  /\ Fault
  /\ caller' = [c \in Caller |-> AtRest] /\ batch' = {} /\ held' = 0
  /\ UNCHANGED <<events, seen, receipts, input, rows, calls>>

Handles(w) == Begin(w) \/ EnsurePartition(w) \/ InsertFact(w) \/ HandOverFails(w)
Projects(c) == Project(c) \/ DeleteReceipt(c) \/ ProjectionFails(c)

FactNext ==
  \/ \E w \in Worker, e \in Id : HandOver(w, e)
  \/ \E c \in Caller : Handles(c) \/ Projects(c)
  \/ ReadReceipts \/ \E e \in Id : RepairRow(e)
  \/ FactCrash

-----------------------------------------------------------------------------
FactTypeOK ==
  /\ \A e \in Id : receipts[e] \in {"none", "pending", "retryable"}
       /\ seen[e] \in 0 .. MaxCall + 1
       /\ calls[e] \in 0 .. MaxCall
  /\ \A c \in Caller : caller[c].e \in Id /\ caller[c].step \in 1 .. Len(Derived(caller[c].e))
  /\ input \subseteq {e \in Id : receipts[e] # "none"}

\* A receipt is removed only after all derived projections succeeded (the
\* comment of migration 0012): whatever fails, crashes, is replayed by a lane
\* and repaired by the operator at the same time, committed evidence without a
\* receipt has every row its event derives.
ReceiptCoversProjections == \A e \in Id :
  seen[e] > 0 /\ receipts[e] = "none" => RowsOf(e) \subseteq rows

\* Neither a retry nor the repair invents evidence: the replay count of an
\* evidence never exceeds the hand-overs of its source.
ReplayCountNotInflated == \A e \in Id :
  seen[e] <= calls[e] + (IF e \in Legacy THEN 1 ELSE 0)

\* Every failure, commit and crash gives its connection back, and the
\* transactions that wait for a second one never hold all of them: InsertFact
\* cannot deadlock on the pool as long as fewer callers than connections run it.
PoolNeverExhausted ==
  /\ held = Cardinality(InTransaction)
  /\ (\E w \in Caller : caller[w].at = "begun") => held < Conns

\* Retries and the operator's repair cost what they must and no more: counts
\* of evidence are those of its source, and no connection is kept or awaited
\* in a circle.
RepairCostsNothing == ReplayCountNotInflated /\ PoolNeverExhausted
=============================================================================
