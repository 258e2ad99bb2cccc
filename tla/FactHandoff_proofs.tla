--------------------------- MODULE FactHandoff_proofs ---------------------------
(***************************************************************************)
(* Proofs about how facts are made and kept, for any evidence, callers,    *)
(* pool and faults. Of the hand-over: types, receipts that cover what is   *)
(* not projected, counts that are those of the sources, and connections    *)
(* that come back. Of the App Server streams: types, and answers that are  *)
(* true of the facts and of the row. Of the inventory: projections that    *)
(* agree with the scans and occurrences taken in, and answers that stay    *)
(* once they are exact. Of the pages: what was told is not taken back, and *)
(* the statements of a profile agree.                                      *)
(***************************************************************************)
EXTENDS MCFacts, HostScan_proofs, FiniteSetTheorems, SequenceTheorems, TLAPS

FactSpec == FactInit /\ [][FactNext]_factVars

Handing == {"ready", "begun", "partitioned"}
CallerState == [at : Handing \cup {"idle", "project", "receipt"}, e : Id, step : Nat]

Types ==
  /\ seen \in [Id -> Nat] /\ calls \in [Id -> 0 .. MaxCall]
  /\ receipts \in [Id -> {"none", "pending", "retryable"}]
  /\ caller \in [Caller -> CallerState]
  /\ \A c \in Caller : caller[c].step \in 1 .. Len(Derived(caller[c].e))
  /\ batch \subseteq Id /\ input \subseteq {e \in Id : receipts[e] # "none"}

\* A hand-over projects from the first statement on, and the repair hands over
\* nothing.
Orderly ==
  /\ \A c \in Caller : caller[c].at \in Handing => caller[c].step = 1
  /\ caller[Repair].at \notin Handing

\* What a caller has projected is there when it gets to the receipt.
Done(c) == \A i \in 1 .. caller[c].step - 1 : RowOf(caller[c].e, Derived(caller[c].e)[i]) \in rows
Projected == \A c \in Caller :
  /\ caller[c].at = "project" => Done(c)
  /\ caller[c].at = "receipt" => RowsOf(caller[c].e) \subseteq rows

\* Every hand-over that has not committed stands for a call that is not counted.
InFlight(e) == {c \in Caller : caller[c].at \in Handing /\ caller[c].e = e}
Old(e) == IF e \in Legacy THEN 1 ELSE 0
Counted == \A e \in Id :
  /\ IsFiniteSet(InFlight(e))
  /\ seen[e] + Cardinality(InFlight(e)) <= calls[e] + Old(e)

Held == IsFiniteSet(InTransaction) /\ held = Cardinality(InTransaction)

FactInv == Types /\ Orderly /\ Projected /\ ReceiptCoversProjections /\ Counted /\ Held

USE PoolAssumption
USE DEF Handing, Caller

-----------------------------------------------------------------------------
Table ==
  {"source_watermarks", "prompt_features", "tool_decisions", "sessions", "tool_calls",
   "mcp_call_assertions", "model_operations", "token_usage", "cost_estimates", "turns",
   "hook_registrations"}

LEMMA StatementsAreTables == \A type : Statements(type) \in Seq(Table)
<1> TAKE type
<1>1. \A x \in Table, y \in Table, z \in Table :
        <<x>> \in Seq(Table) /\ <<x, y>> \in Seq(Table) /\ <<x, y, z>> \in Seq(Table)
  OBVIOUS
<1>2. \/ \E x \in Table : Statements(type) = <<x>>
      \/ \E x \in Table, y \in Table : Statements(type) = <<x, y>>
      \/ \E x \in Table, y \in Table, z \in Table : Statements(type) = <<x, y, z>>
  BY DEF Statements, Table
<1> QED BY <1>1, <1>2

LEMMA DerivedIsSeq == \A e \in Id : Derived(e) \in Seq(Table) /\ Len(Derived(e)) \in Nat \ {0}
<1> TAKE e \in Id
<1>1. Statements(Evidence[e].type) \in Seq(Table)
  BY StatementsAreTables
<1>2. <<"source_watermarks">> \in Seq(Table) /\ Len(<<"source_watermarks">>) = 1
  BY DEF Table
<1>3. Len(Statements(Evidence[e].type)) \in Nat
  BY <1>1, LenProperties
<1> QED BY <1>1, <1>2, <1>3, ConcatProperties DEF Derived

LEMMA RestIsTyped == AtRest \in CallerState /\ AtRest.at = "idle" /\ AtRest.step = 1 /\ AtRest.e \in Id
<1>1. (CHOOSE e \in Id : TRUE) \in Id
  BY DEF Id
<1> QED BY <1>1 DEF AtRest, CallerState

LEMMA InitInv == FactInit => FactInv
<1> SUFFICES ASSUME FactInit PROVE FactInv
  OBVIOUS
<1> PICK old \in SUBSET Legacy : seen = [e \in Id |-> IF e \in old THEN 1 ELSE 0]
  BY DEF FactInit
<1> HIDE DEF AtRest
<1>1. Types
  <2>1. \A c \in Caller : caller[c].step \in 1 .. Len(Derived(caller[c].e))
    BY RestIsTyped, DerivedIsSeq DEF FactInit
  <2> QED BY <2>1, RestIsTyped DEF FactInit, Types
<1>2. \A c \in Caller : caller[c].at = "idle"
  BY RestIsTyped DEF FactInit
<1>3. Orderly /\ Projected
  BY <1>2 DEF Orderly, Projected
<1>4. ReceiptCoversProjections
  BY DEF FactInit, ReceiptCoversProjections
<1>5. InTransaction = {} /\ \A e \in Id : InFlight(e) = {}
  BY <1>2 DEF InTransaction, InFlight
<1>6. Held
  BY <1>5, FS_EmptySet DEF Held, FactInit
<1>7. Counted
  <2> SUFFICES ASSUME NEW e \in Id
               PROVE  IsFiniteSet(InFlight(e)) /\ seen[e] + Cardinality(InFlight(e)) <= calls[e] + Old(e)
    BY DEF Counted
  <2>1. seen[e] \in Nat /\ seen[e] <= Old(e) /\ Old(e) \in Nat
    BY DEF Old
  <2>2. calls[e] = 0
    BY DEF FactInit
  <2>3. IsFiniteSet(InFlight(e)) /\ Cardinality(InFlight(e)) = 0
    BY <1>5, FS_EmptySet
  <2> QED BY <2>1, <2>2, <2>3
<1> QED BY <1>1, <1>3, <1>4, <1>6, <1>7 DEF FactInv

-----------------------------------------------------------------------------
\* Most steps change one caller.
Alone(c) == \A d \in Caller \ {c} : caller'[d] = caller[d]

LEMMA Moved ==
  ASSUME Types, NEW c \in Caller, NEW to \in Handing \cup {"idle", "project", "receipt"}, Moves(c, to)
  PROVE  /\ caller' \in [Caller -> CallerState] /\ Alone(c)
         /\ caller'[c].at = to /\ caller'[c].e = caller[c].e /\ caller'[c].step = caller[c].step
<1>1. [caller[c] EXCEPT !.at = to] \in CallerState
  <2> DEFINE s == caller[c]
  <2>1. s \in CallerState
    BY DEF Types
  <2> HIDE DEF s
  <2> QED BY <2>1 DEF CallerState, s
<1>2. caller' = [caller EXCEPT ![c] = [caller[c] EXCEPT !.at = to]]
  BY DEF Moves
<1>3. caller' \in [Caller -> CallerState] /\ caller'[c] = [caller[c] EXCEPT !.at = to]
  BY <1>1, <1>2 DEF Types
<1> QED BY <1>2, <1>3 DEF Types, Alone, CallerState

LEMMA Returned ==
  ASSUME Types, NEW c \in Caller, Returns(c)
  PROVE  /\ caller' \in [Caller -> CallerState] /\ Alone(c)
         /\ caller'[c].at = "idle" /\ caller'[c].e \in Id /\ caller'[c].step = 1
BY RestIsTyped DEF Types, Returns, Alone

\* A caller that begins something is at its first statement.
LEMMA StepsStay ==
  ASSUME Types, NEW w \in Caller, Alone(w), caller'[w].e \in Id, caller'[w].step = 1
  PROVE  \A c \in Caller : caller'[c].step \in 1 .. Len(Derived(caller'[c].e))
<1> SUFFICES ASSUME NEW c \in Caller PROVE caller'[c].step \in 1 .. Len(Derived(caller'[c].e))
  OBVIOUS
<1>1. CASE c = w
  <2>1. Len(Derived(caller'[w].e)) \in Nat \ {0}
    BY DerivedIsSeq
  <2> DEFINE n == Len(Derived(caller'[w].e))
  <2> HIDE DEF n
  <2>2. n \in Nat \ {0} => 1 \in 1 .. n
    OBVIOUS
  <2> QED BY <1>1, <2>1, <2>2 DEF n
<1>2. CASE c # w
  <2>1. caller'[c] = caller[c]
    BY <1>2 DEF Alone
  <2>2. caller[c].step \in 1 .. Len(Derived(caller[c].e))
    BY DEF Types
  <2> QED BY <2>1, <2>2
<1> QED BY <1>1, <1>2

\* The sets of callers in a hand-over, when one caller changes.
LEMMA SameSets ==
  ASSUME Types, NEW c \in Caller, Alone(c),
         caller[c].at \notin Handing, caller'[c].at \notin Handing
  PROVE  InTransaction' = InTransaction /\ \A e \in Id : InFlight(e)' = InFlight(e)
BY DEF Alone, InTransaction, InFlight

LEMMA LeftSets ==
  ASSUME Types, NEW c \in Caller, Alone(c), caller'[c].at \notin Handing
  PROVE  /\ InTransaction' = InTransaction \ {c}
         /\ \A e \in Id : InFlight(e)' = InFlight(e) \ {c}
BY DEF Alone, InTransaction, InFlight

\* A hand-over that ends gives its connection back and is in flight no more.
LEMMA Left ==
  ASSUME Types, Counted, Held, NEW c \in Caller, Alone(c),
         caller[c].at \in Handing, caller'[c].at \notin Handing, UNCHANGED calls,
         held' = (IF c \in InTransaction THEN held - 1 ELSE held),
         \/ UNCHANGED seen
         \/ seen' = [seen EXCEPT ![caller[c].e] = @ + 1]
  PROVE  Counted' /\ Held'
<1>1. caller[c].e \in Id
  BY DEF Types, CallerState
<1>2. Held'
  BY LeftSets, FS_RemoveElement DEF Held
<1>3. ASSUME NEW e \in Id
      PROVE  IsFiniteSet(InFlight(e)') /\ seen'[e] + Cardinality(InFlight(e)') <= calls'[e] + Old(e)
  <2> DEFINE many == Cardinality(InFlight(e))
             now == Cardinality(InFlight(e) \ {c})
  <2>1. IsFiniteSet(InFlight(e)) /\ seen[e] + many <= calls[e] + Old(e)
    BY DEF Counted
  <2>2. InFlight(e)' = InFlight(e) \ {c} /\ IsFiniteSet(InFlight(e) \ {c})
    BY <2>1, LeftSets, FS_RemoveElement
  <2>3. now = IF e = caller[c].e THEN many - 1 ELSE many
    BY <2>1, FS_RemoveElement DEF InFlight
  <2>4. many \in Nat /\ seen[e] \in Nat /\ calls[e] \in Nat /\ Old(e) \in Nat
    BY <2>1, FS_CardinalityType DEF Types, Old
  <2>5. seen'[e] = seen[e] \/ (e = caller[c].e /\ seen'[e] = seen[e] + 1)
    BY <1>1 DEF Types
  <2> HIDE DEF many, now
  <2>6. seen'[e] + now <= calls[e] + Old(e)
    BY <2>1, <2>3, <2>4, <2>5
  <2> QED BY <2>2, <2>6 DEF now
<1> QED BY <1>2, <1>3 DEF Counted

-----------------------------------------------------------------------------
LEMMA HandOverStep ==
  ASSUME FactInv, NEW w \in Worker, NEW e \in Id, HandOver(w, e)
  PROVE  FactInv'
<1> USE DEF FactInv
<1>1. /\ caller' \in [Caller -> CallerState] /\ Alone(w) /\ caller[w].at = "idle"
      /\ caller'[w].at = "ready" /\ caller'[w].e = e /\ caller'[w].step = 1
  BY DEF HandOver, Types, CallerState, Alone
<1>2. /\ calls' \in [Id -> 0 .. MaxCall] /\ calls'[e] = calls[e] + 1
      /\ \A f \in Id \ {e} : calls'[f] = calls[f]
  BY DEF HandOver, Types
<1>3. Types'
  <2>1. caller'[w].step \in 1 .. Len(Derived(caller'[w].e))
    BY <1>1, DerivedIsSeq
  <2>2. \A c \in Caller \ {w} : caller'[c].step \in 1 .. Len(Derived(caller'[c].e))
    BY <1>1 DEF Types, Alone
  <2> QED BY <1>1, <1>2, <2>1, <2>2 DEF HandOver, Types
<1>4. Orderly' /\ Projected' /\ ReceiptCoversProjections'
  BY <1>1 DEF HandOver, Orderly, Projected, Done, Alone, ReceiptCoversProjections
<1>5. InTransaction' = InTransaction /\ w \notin InFlight(e) /\ InFlight(e)' = InFlight(e) \cup {w}
      /\ \A f \in Id \ {e} : InFlight(f)' = InFlight(f)
  BY <1>1 DEF InTransaction, InFlight, Alone
<1>6. Held'
  BY <1>5 DEF Held, HandOver
<1>7. Counted'
  <2>1. \A f \in Id \ {e} : IsFiniteSet(InFlight(f)') /\ seen'[f] + Cardinality(InFlight(f)') <= calls'[f] + Old(f)
    BY <1>2, <1>5 DEF Counted, HandOver
  <2> DEFINE many == Cardinality(InFlight(e))
             now == Cardinality(InFlight(e) \cup {w})
  <2>2. IsFiniteSet(InFlight(e)) /\ seen[e] + many <= calls[e] + Old(e)
    BY DEF Counted
  <2>3. IsFiniteSet(InFlight(e) \cup {w}) /\ now = many + 1
    BY <2>2, <1>5, FS_AddElement
  <2>4. many \in Nat /\ seen[e] \in Nat /\ calls[e] \in Nat /\ Old(e) \in Nat
    BY <2>2, FS_CardinalityType DEF Types, Old
  <2> HIDE DEF many, now
  <2>5. seen[e] + now <= calls'[e] + Old(e)
    BY <2>2, <2>3, <2>4, <1>2
  <2>6. seen' = seen
    BY DEF HandOver
  <2> QED BY <2>1, <2>3, <2>5, <2>6, <1>5 DEF Counted, now
<1> QED BY <1>3, <1>4, <1>6, <1>7

LEMMA BeginStep ==
  ASSUME FactInv, NEW w \in Caller, Begin(w) \/ EnsurePartition(w)
  PROVE  FactInv'
<1> USE DEF FactInv
<1>1. /\ UNCHANGED <<events, seen, receipts, input, rows, batch, calls, faults>>
      /\ caller[w].at \in Handing
      /\ \/ caller[w].at = "ready" /\ Moves(w, "begun") /\ held' = held + 1
         \/ caller[w].at = "begun" /\ Moves(w, "partitioned") /\ held' = held
  BY DEF Begin, EnsurePartition
<1>2. /\ caller' \in [Caller -> CallerState] /\ Alone(w)
      /\ caller'[w].at \in Handing /\ caller'[w].e = caller[w].e /\ caller'[w].step = caller[w].step
  BY <1>1, Moved
<1>3. Types'
  BY <1>1, <1>2 DEF Types, Alone
<1>4. Orderly' /\ Projected' /\ ReceiptCoversProjections'
  BY <1>1, <1>2 DEF Orderly, Projected, Done, Alone, ReceiptCoversProjections
<1>5. \A e \in Id : InFlight(e)' = InFlight(e)
  BY <1>1, <1>2 DEF InFlight, Alone
<1>6. Counted'
  BY <1>1, <1>5 DEF Counted
<1>7. Held'
  <2>1. CASE caller[w].at = "ready" /\ Moves(w, "begun") /\ held' = held + 1
    <3>1. w \notin InTransaction /\ InTransaction' = InTransaction \cup {w}
      BY <2>1, Moved DEF InTransaction, Alone
    <3> QED BY <2>1, <3>1, FS_AddElement DEF Held
  <2>2. CASE caller[w].at = "begun" /\ Moves(w, "partitioned") /\ held' = held
    <3>1. InTransaction' = InTransaction
      BY <2>2, Moved DEF InTransaction, Alone
    <3> QED BY <2>2, <3>1 DEF Held
  <2> QED BY <1>1, <2>1, <2>2
<1> QED BY <1>3, <1>4, <1>6, <1>7

\* The commit of the fact leaves a receipt behind.
LEMMA InsertStep ==
  ASSUME FactInv, NEW w \in Caller, InsertFact(w)
  PROVE  FactInv'
<1> USE DEF FactInv
<1> DEFINE e == caller[w].e
<1>1. e \in Id /\ caller[w].at = "partitioned" /\ caller[w].step = 1 /\ w \in InTransaction
  BY DEF InsertFact, Types, CallerState, Orderly, InTransaction
<1>2. /\ seen' = [seen EXCEPT ![e] = @ + 1]
      /\ receipts' = [receipts EXCEPT ![e] = IF @ = "none" THEN "pending" ELSE @]
      /\ input' = input \cup {e} /\ held' = held - 1 /\ UNCHANGED <<rows, batch, calls, faults>>
      /\ Returns(w) \/ Moves(w, "project")
  BY DEF InsertFact
<1>3. /\ caller' \in [Caller -> CallerState] /\ Alone(w)
      /\ caller'[w].at \in {"idle", "project"} /\ caller'[w].e \in Id /\ caller'[w].step = 1
  BY <1>1, <1>2, Moved, Returned
<1>4. /\ receipts' \in [Id -> {"none", "pending", "retryable"}]
      /\ receipts'[e] # "none" /\ \A f \in Id \ {e} : receipts'[f] = receipts[f]
      /\ \A f \in Id : receipts[f] # "none" => receipts'[f] # "none"
  BY <1>1, <1>2 DEF Types
<1>5. seen' \in [Id -> Nat] /\ \A f \in Id \ {e} : seen'[f] = seen[f]
  BY <1>1, <1>2 DEF Types
<1>6. Types'
  <2>1. \A c \in Caller : caller'[c].step \in 1 .. Len(Derived(caller'[c].e))
    BY <1>3, StepsStay
  <2>2. calls' \in [Id -> 0 .. MaxCall] /\ batch' \subseteq Id
    BY <1>2 DEF Types
  <2>3. input' \subseteq {f \in Id : receipts'[f] # "none"}
    BY <1>1, <1>2, <1>4 DEF Types
  <2> QED BY <1>3, <1>4, <1>5, <2>1, <2>2, <2>3 DEF Types
<1>7. Orderly'
  BY <1>3 DEF Orderly, Alone
<1>8. Projected'
  BY <1>2, <1>3 DEF Projected, Done, Alone
<1>9. ReceiptCoversProjections'
  BY <1>2, <1>4, <1>5 DEF ReceiptCoversProjections
<1>10. Counted' /\ Held'
  BY <1>1, <1>2, <1>3, Left
<1> QED BY <1>6, <1>7, <1>8, <1>9, <1>10

LEMMA FailStep ==
  ASSUME FactInv, NEW w \in Caller, HandOverFails(w)
  PROVE  FactInv'
<1> USE DEF FactInv
<1>1. /\ caller[w].at \in Handing /\ Returns(w)
      /\ held' = (IF w \in InTransaction THEN held - 1 ELSE held)
      /\ UNCHANGED <<events, seen, receipts, input, rows, batch, calls>>
  BY DEF HandOverFails
<1>2. /\ caller' \in [Caller -> CallerState] /\ Alone(w)
      /\ caller'[w].at = "idle" /\ caller'[w].e \in Id /\ caller'[w].step = 1
  BY <1>1, Returned
<1>3. Types'
  <2>1. \A c \in Caller : caller'[c].step \in 1 .. Len(Derived(caller'[c].e))
    BY <1>2, StepsStay
  <2>2. /\ seen' \in [Id -> Nat] /\ calls' \in [Id -> 0 .. MaxCall]
        /\ receipts' \in [Id -> {"none", "pending", "retryable"}]
        /\ batch' \subseteq Id /\ input' \subseteq {e \in Id : receipts'[e] # "none"}
    BY <1>1 DEF Types
  <2> QED BY <1>2, <2>1, <2>2 DEF Types
<1>4. Orderly' /\ Projected' /\ ReceiptCoversProjections'
  BY <1>1, <1>2 DEF Orderly, Projected, Done, Alone, ReceiptCoversProjections
<1>5. Counted' /\ Held'
  BY <1>1, <1>2, Left
<1> QED BY <1>3, <1>4, <1>5

\* Callers outside a hand-over: rows only grow, and a receipt goes only when
\* they are all there.
LEMMA OutsideStep ==
  ASSUME FactInv, NEW c \in Caller, Alone(c),
         caller[c].at \notin Handing, caller'[c].at \notin Handing,
         caller' \in [Caller -> CallerState],
         caller'[c].step \in 1 .. Len(Derived(caller'[c].e)),
         batch' \subseteq Id, input' \subseteq {e \in Id : receipts'[e] # "none"},
         receipts' \in [Id -> {"none", "pending", "retryable"}],
         rows \subseteq rows', UNCHANGED <<seen, calls, held>>,
         caller'[c].at = "project" => Done(c)',
         caller'[c].at = "receipt" => (RowsOf(caller[c].e) \subseteq rows)',
         \A e \in Id : receipts'[e] = "none" => receipts[e] = "none" \/ RowsOf(e) \subseteq rows
  PROVE  FactInv'
<1> USE DEF FactInv
<1>1. Types'
  BY DEF Types, Alone
<1>2. Orderly'
  BY DEF Orderly, Alone
<1>3. Projected'
  BY DEF Projected, Done, Alone
<1>4. ReceiptCoversProjections'
  BY DEF ReceiptCoversProjections
<1>5. Counted' /\ Held'
  BY SameSets DEF Counted, Held
<1> QED BY <1>1, <1>2, <1>3, <1>4, <1>5

LEMMA ProjectStep ==
  ASSUME FactInv, NEW c \in Caller, Project(c)
  PROVE  FactInv'
<1> USE DEF FactInv
<1> DEFINE e == caller[c].e
           s == caller[c].step
<1>1. e \in Id /\ s \in Nat /\ s \in 1 .. Len(Derived(e)) /\ Len(Derived(e)) \in Nat
  BY DerivedIsSeq DEF Types, CallerState
<1>2. /\ caller[c].at = "project" /\ rows' = rows \cup {RowOf(e, Derived(e)[s])}
      /\ UNCHANGED <<seen, receipts, input, batch, held, calls>>
  BY DEF Project
<1>3. \A i \in 1 .. s : RowOf(e, Derived(e)[i]) \in rows'
  BY <1>1, <1>2 DEF Projected, Done
<1>4. DOMAIN Derived(e) = 1 .. Len(Derived(e))
  BY <1>1, DerivedIsSeq
<1>5. CASE s = Len(Derived(e)) /\ Moves(c, "receipt")
  <2>1. RowsOf(e) \subseteq rows'
    BY <1>3, <1>4, <1>5 DEF RowsOf
  <2>2. /\ caller' \in [Caller -> CallerState] /\ Alone(c) /\ caller'[c].at = "receipt"
        /\ caller'[c].e = e /\ caller'[c].step = s
    BY <1>5, Moved
  <2>3. (RowsOf(caller[c].e) \subseteq rows)'
    BY <2>1, <2>2 DEF RowsOf, RowOf
  <2> HIDE DEF e, s
  <2> QED BY <1>1, <1>2, <2>2, <2>3, OutsideStep DEF Types, e
<1>6. CASE s # Len(Derived(e)) /\ caller' = [caller EXCEPT ![c].step = @ + 1]
  <2>4. caller \in [Caller -> CallerState] /\ caller' = [caller EXCEPT ![c].step = s + 1]
    BY <1>6 DEF Types
  <2>5. [caller[c] EXCEPT !.step = s + 1] \in CallerState
    BY <1>1, <2>4 DEF CallerState
  <2>6. caller'[c] = [caller[c] EXCEPT !.step = s + 1]
    BY <2>4
  <2>7. caller'[c].at = caller[c].at /\ caller'[c].e = caller[c].e /\ caller'[c].step = caller[c].step + 1
    BY <2>4, <2>6 DEF CallerState
  <2>1. /\ caller' \in [Caller -> CallerState] /\ Alone(c) /\ caller'[c].at = "project"
        /\ caller'[c].e = e /\ caller'[c].step = s + 1
    BY <1>2, <2>4, <2>5, <2>7 DEF Alone
  <2>2. s + 1 \in 1 .. Len(Derived(e)) /\ s + 1 - 1 = s
    BY <1>1, <1>6
  <2>3. Done(c)'
    <3>1. \A i \in 1 .. caller'[c].step - 1 : RowOf(caller'[c].e, Derived(caller'[c].e)[i]) \in rows'
      BY <1>1, <1>3, <2>1
    <3> QED BY <3>1 DEF Done, RowOf, Derived, Statements
  <2> HIDE DEF e, s
  <2> QED BY <1>1, <1>2, <2>1, <2>2, <2>3, OutsideStep DEF Types
<1> QED BY <1>5, <1>6 DEF Project

LEMMA ReceiptStep ==
  ASSUME FactInv, NEW c \in Caller, DeleteReceipt(c)
  PROVE  FactInv'
<1> USE DEF FactInv
<1> DEFINE e == caller[c].e
<1>1. e \in Id /\ caller[c].at = "receipt" /\ RowsOf(e) \subseteq rows
  BY DEF DeleteReceipt, Types, CallerState, Projected
<1>2. /\ receipts' = [receipts EXCEPT ![e] = "none"] /\ input' = input \ {e} /\ Returns(c)
      /\ UNCHANGED <<seen, rows, batch, held, calls>>
  BY DEF DeleteReceipt
<1>3. /\ receipts' \in [Id -> {"none", "pending", "retryable"}]
      /\ \A f \in Id \ {e} : receipts'[f] = receipts[f]
      /\ input' \subseteq {f \in Id : receipts'[f] # "none"}
  BY <1>1, <1>2 DEF Types
<1>4. /\ caller' \in [Caller -> CallerState] /\ Alone(c)
      /\ caller'[c].at = "idle" /\ caller'[c].e \in Id /\ caller'[c].step = 1
  BY <1>2, Returned
<1>5. caller'[c].step \in 1 .. Len(Derived(caller'[c].e))
  BY <1>4, DerivedIsSeq
<1>6. \A f \in Id : receipts'[f] = "none" => receipts[f] = "none" \/ RowsOf(f) \subseteq rows
  BY <1>1, <1>3
<1> HIDE DEF e
<1> QED BY <1>1, <1>2, <1>3, <1>4, <1>5, <1>6, OutsideStep DEF Types

LEMMA ProjectionFailsStep ==
  ASSUME FactInv, NEW c \in Caller, ProjectionFails(c)
  PROVE  FactInv'
<1> USE DEF FactInv
<1> DEFINE e == caller[c].e
<1>1. e \in Id /\ caller[c].at \in {"project", "receipt"} /\ Returns(c)
      /\ UNCHANGED <<seen, input, rows, batch, held, calls>>
  BY DEF ProjectionFails, Types, CallerState
<1>2. /\ receipts' \in [Id -> {"none", "pending", "retryable"}]
      /\ \A f \in Id : receipts'[f] = "none" <=> receipts[f] = "none"
  BY <1>1 DEF ProjectionFails, Types
<1>3. input' \subseteq {f \in Id : receipts'[f] # "none"}
  BY <1>1, <1>2 DEF Types
<1>4. /\ caller' \in [Caller -> CallerState] /\ Alone(c)
      /\ caller'[c].at = "idle" /\ caller'[c].e \in Id /\ caller'[c].step = 1
  BY <1>1, Returned
<1>5. caller'[c].step \in 1 .. Len(Derived(caller'[c].e))
  BY <1>4, DerivedIsSeq
<1> HIDE DEF e
<1> QED BY <1>1, <1>2, <1>3, <1>4, <1>5, OutsideStep DEF Types

LEMMA RepairStep ==
  ASSUME FactInv, ReadReceipts \/ \E e \in Id : RepairRow(e)
  PROVE  FactInv'
<1> USE DEF FactInv
<1>1. CASE ReadReceipts
  <2>1. UNCHANGED <<events, seen, receipts, input, rows, caller, held, calls>> /\ batch' \subseteq Id
    BY <1>1 DEF ReadReceipts, Waiting
  <2>2. Types' /\ Orderly' /\ Projected' /\ ReceiptCoversProjections'
    BY <2>1 DEF Types, Orderly, Projected, Done, ReceiptCoversProjections
  <2>3. Counted' /\ Held'
    BY <2>1 DEF Counted, Held, InFlight, InTransaction
  <2> QED BY <2>2, <2>3
<1>2. ASSUME NEW e \in Id, RepairRow(e) PROVE FactInv'
  <2>1. /\ caller[Repair].at = "idle" /\ batch' = batch \ {e} /\ Repair \in Caller
        /\ caller' = [caller EXCEPT ![Repair] = [at |-> "project", e |-> e, step |-> 1]]
        /\ UNCHANGED <<events, seen, receipts, input, rows, held, calls, faults>>
    BY <1>2 DEF RepairRow
  <2>2. /\ caller' \in [Caller -> CallerState] /\ Alone(Repair)
        /\ caller'[Repair].at = "project" /\ caller'[Repair].e = e /\ caller'[Repair].step = 1
    BY <2>1 DEF Types, CallerState, Alone
  <2>3. caller'[Repair].step \in 1 .. Len(Derived(caller'[Repair].e)) /\ Done(Repair)'
    BY <2>2, DerivedIsSeq DEF Done
  <2> QED BY <2>1, <2>2, <2>3, OutsideStep DEF Types
<1> QED BY <1>1, <1>2

LEMMA CrashStep ==
  ASSUME FactInv, FactCrash
  PROVE  FactInv'
<1> USE DEF FactInv
<1> HIDE DEF AtRest
<1>1. /\ caller' = [c \in Caller |-> AtRest] /\ batch' = {} /\ held' = 0
      /\ UNCHANGED <<events, seen, receipts, input, rows, calls>>
  BY DEF FactCrash
<1>2. Types'
  <2>1. \A c \in Caller : caller'[c].step \in 1 .. Len(Derived(caller'[c].e))
    BY <1>1, RestIsTyped, DerivedIsSeq
  <2> QED BY <1>1, <2>1, RestIsTyped DEF Types
<1>3. \A c \in Caller : caller'[c].at = "idle"
  BY <1>1, RestIsTyped
<1>4. Orderly' /\ Projected' /\ ReceiptCoversProjections'
  BY <1>1, <1>3 DEF Orderly, Projected, ReceiptCoversProjections
<1>5. InTransaction' = {} /\ \A e \in Id : InFlight(e)' = {}
  BY <1>3 DEF InTransaction, InFlight
<1>6. Held'
  BY <1>1, <1>5, FS_EmptySet DEF Held
<1>7. Counted'
  <2> SUFFICES ASSUME NEW e \in Id
               PROVE  IsFiniteSet(InFlight(e)') /\ seen[e] + Cardinality(InFlight(e)') <= calls[e] + Old(e)
    BY <1>1 DEF Counted
  <2>3. IsFiniteSet(InFlight(e)') /\ Cardinality(InFlight(e)') = 0
    BY <1>5, FS_EmptySet
  <2>1. IsFiniteSet(InFlight(e)) /\ seen[e] + Cardinality(InFlight(e)) <= calls[e] + Old(e)
    BY DEF Counted
  <2>2. Cardinality(InFlight(e)) \in Nat /\ seen[e] \in Nat /\ calls[e] \in Nat /\ Old(e) \in Nat
    BY <2>1, FS_CardinalityType DEF Types, Old
  <2> QED BY <2>1, <2>2, <2>3
<1> QED BY <1>2, <1>4, <1>6, <1>7

LEMMA InvStep == FactInv /\ [FactNext]_factVars => FactInv'
<1> SUFFICES ASSUME FactInv, [FactNext]_factVars PROVE FactInv'
  OBVIOUS
<1>1. CASE UNCHANGED factVars
  <2>1. (Types /\ Orderly /\ Projected /\ ReceiptCoversProjections)'
    BY <1>1 DEF factVars, FactInv, Types, Orderly, Projected, Done, ReceiptCoversProjections
  <2>2. Counted' /\ Held'
    BY <1>1 DEF factVars, FactInv, Counted, Held, InFlight, InTransaction
  <2> QED BY <2>1, <2>2 DEF FactInv
<1>2. ASSUME NEW w \in Worker, NEW e \in Id, HandOver(w, e) PROVE FactInv'
  BY <1>2, HandOverStep
<1>3. ASSUME NEW c \in Caller, Handles(c) PROVE FactInv'
  BY <1>3, BeginStep, InsertStep, FailStep DEF Handles
<1>4. ASSUME NEW c \in Caller, Projects(c) PROVE FactInv'
  BY <1>4, ProjectStep, ReceiptStep, ProjectionFailsStep DEF Projects
<1>5. CASE ReadReceipts \/ \E e \in Id : RepairRow(e)
  BY <1>5, RepairStep
<1>6. CASE FactCrash
  BY <1>6, CrashStep
<1> QED BY <1>1, <1>2, <1>3, <1>4, <1>5, <1>6 DEF FactNext

LEMMA Invariant == FactSpec => []FactInv
BY InitInv, InvStep, PTL DEF FactSpec

-----------------------------------------------------------------------------
\* Whatever fails, crashes, is replayed by a lane and repaired by the operator
\* at the same time, committed evidence without a receipt has every row its
\* event derives.
THEOREM ReceiptsCover == FactSpec => []ReceiptCoversProjections
<1>1. FactInv => ReceiptCoversProjections
  BY DEF FactInv
<1> QED BY <1>1, Invariant, PTL

LEMMA CountsAreTrue == FactInv => ReplayCountNotInflated
<1> SUFFICES ASSUME FactInv, NEW e \in Id PROVE seen[e] <= calls[e] + Old(e)
  BY DEF ReplayCountNotInflated, Old
<1>1. IsFiniteSet(InFlight(e)) /\ seen[e] + Cardinality(InFlight(e)) <= calls[e] + Old(e)
  BY DEF FactInv, Counted
<1>2. Cardinality(InFlight(e)) \in Nat /\ seen[e] \in Nat /\ calls[e] \in Nat /\ Old(e) \in Nat
  BY <1>1, FS_CardinalityType DEF FactInv, Types, Old
<1> QED BY <1>1, <1>2

\* Types, the bound of the replay count included.
THEOREM FactsTyped == FactSpec => []FactTypeOK
<1>1. FactInv => FactTypeOK
  <2> SUFFICES ASSUME FactInv PROVE FactTypeOK
    OBVIOUS
  <2>1. ASSUME NEW e \in Id PROVE seen[e] \in 0 .. MaxCall + 1
    <3>1. seen[e] \in Nat /\ calls[e] \in 0 .. MaxCall
      BY DEF FactInv, Types
    <3>2. seen[e] <= calls[e] + Old(e) /\ Old(e) \in 0 .. 1
      BY CountsAreTrue DEF ReplayCountNotInflated, Old
    <3> QED BY <3>1, <3>2
  <2> QED BY <2>1 DEF FactInv, Types, CallerState, FactTypeOK
<1> QED BY <1>1, Invariant, PTL

\* With fewer concurrent hand-overs than connections, a transaction that waits
\* for the connection of its partition is served, and neither a retry nor the
\* repair counts evidence the source did not send.
FewCallers == IsFiniteSet(Worker) /\ Cardinality(Worker) < Conns
THEOREM RepairsCostNothing ==
  ASSUME FewCallers
  PROVE  FactSpec => []RepairCostsNothing
<1>1. FactInv => RepairCostsNothing
  <2> SUFFICES ASSUME FactInv PROVE RepairCostsNothing
    OBVIOUS
  <2>1. InTransaction \in SUBSET Worker
    BY DEF FactInv, Orderly, InTransaction
  <2>2. Cardinality(InTransaction) <= Cardinality(Worker) /\ IsFiniteSet(InTransaction)
    BY <2>1, FS_Subset DEF FewCallers
  <2>3. Cardinality(InTransaction) \in Nat /\ Cardinality(Worker) \in Nat
    BY <2>2, FS_CardinalityType DEF FewCallers
  <2>4. held < Conns
    BY <2>2, <2>3 DEF FewCallers, FactInv, Held
  <2> QED BY <2>4, CountsAreTrue DEF RepairCostsNothing, PoolNeverExhausted, FactInv, Held
<1> QED BY <1>1, Invariant, PTL

-----------------------------------------------------------------------------
-----------------------------------------------------------------------------
(* App Server streams.                                                     *)

StreamSpec == StreamInit /\ [][StreamNext]_streamVars

Names == {"requested", "installed", "enabled", "child installed", "child enabled", "exposed",
          "turn", "invoked", "loaded", "response_error", "invalid_frame",
          "pending_request_limit_exceeded", "missing_terminal", "contradictory_terminal",
          "frame_limit_exceeded", "frame_too_large_or_stream_error"}
Record == [kind : {"fact", "reject"}, id : Names \cup McpCall, outcome : Outcomes \cup {"unknown", "none"}]

\* A fact names an outcome only when the frames agree on it.
Earned(s, id, outcome) == outcome # "unknown" => outcome \in Outcomes /\ Terminals(s, id) = {outcome}
Honest(s) == {r \in Record : r.kind = "fact" => Earned(s, r.id, r.outcome)}

Endings == {"none", "ok", "stream", "busy", "invalid", "cancelled"}
Asked == {f.id : f \in {g \in FrameSet : g.kind = "request"}}
CallState == [started : BOOLEAN, terminals : SUBSET Outcomes]
BridgeState ==
  [at : {"idle", "reading", "done"}, next : Nat \ {0}, emit : Seq(Record), ends : Endings,
   lifecycle : Lifecycles, accepted : Nat, rejected : Nat, pending : SUBSET Asked,
   order : Seq(McpCall), calls : [McpCall -> CallState], context : {"live", "deadline", "gone"}]

\* What the frames before the n-th say of a call.
About(s, c, n) ==
  {j \in DOMAIN Frames[s] : j < n /\ Frames[s][j].kind \in {"started", "terminal"} /\ Frames[s][j].call = c}
Heard(s, c, n) == {Frames[s][j].outcome : j \in {k \in About(s, c, n) : Frames[s][k].kind = "terminal"}}

\* At the end of a stream a call waits in the order, or what it has come to is stored
\* among the facts D or in hand, and counted if it did not end in one way.
Delivered(s, c, D) == \E t \in D : t.id = <<s, c>>
InHand(b, c) == \E i \in DOMAIN b.emit : b.emit[i].kind = "fact" /\ b.emit[i].id = c
Objects(b) == b.rejected > 0 \/ \E i \in DOMAIN b.emit : b.emit[i].kind = "reject"
ServedCall(s, b, c, D) ==
  /\ Delivered(s, c, D) \/ InHand(b, c)
  /\ Cardinality(Terminals(s, c)) = 1 \/ Objects(b)
Waits(b, c) == \E i \in DOMAIN b.order : b.order[i] = c

\* A bridge knows what it has read.
Follows(s, b) == \A c \in McpCall :
  /\ b.calls[c].terminals = Heard(s, c, b.next)
  /\ b.calls[c] = NoCall <=> About(s, c, b.next) = {}
  /\ b.ends = "none" /\ About(s, c, b.next) # {} => Waits(b, c)

BridgeShape(s, b) ==
  /\ b \in BridgeState /\ b.emit \in Seq(Honest(s))
  /\ IsFiniteSet(b.pending) /\ Cardinality(b.pending) <= MaxPending
BridgeEnds(s, b, D) ==
  /\ b.at = "reading" /\ b.ends = "ok" => b.next \notin DOMAIN Frames[s]
  /\ b.ends = "ok" => \A c \in CallsOf(s) : Waits(b, c) \/ ServedCall(s, b, c, D)
  /\ b.at = "done" => b.emit = <<>> /\ b.order = <<>>
  /\ b.at = "done" /\ b.ends = "ok" /\ b.rejected = 0 => b.lifecycle = "reconciled"
BridgeInv(s, b, D) ==
  /\ BridgeShape(s, b)
  /\ b.at = "reading" => Follows(s, b)
  /\ BridgeEnds(s, b, D)
  /\ b.accepted > 0 => D # {}

\* An answer of 200 without a rejection.
AnswerState == [status : {0, 200, 408, 422, 503}, rejected : Nat, lifecycle : Lifecycles \cup {"none"}]
HandlerState == [at : {"waiting", "serving", "answered"}, answer : AnswerState]
AnswerInv(s, h, D) ==
  /\ h \in HandlerState
  /\ h.answer.status = 200 /\ h.answer.rejected = 0 =>
       /\ h.answer.lifecycle = "reconciled"
       /\ \A c \in CallsOf(s) : Cardinality(Terminals(s, c)) = 1 /\ Delivered(s, c, D)

RowState == [state : {"configured", "producing", "degraded"},
             value : {"not_observed", "unknown", "observed"}, succeeded : BOOLEAN]
RowInv(r, D) ==
  /\ r \in RowState
  /\ r.state = "producing" => r.succeeded /\ r.value = "observed"
  /\ r.succeeded => D # {}

\* A fact is stored once, and honestly.
StoreInv(D) ==
  /\ \A t, u \in D : t.id = u.id => t = u
  /\ \A t \in D : Earned(t.id[1], t.id[2], t.outcome)

StreamInv ==
  /\ handler \in [Stream -> HandlerState] /\ bridge \in [Stream -> BridgeState]
  /\ \A s \in Stream : BridgeInv(s, bridge[s], delivered) /\ AnswerInv(s, handler[s], delivered)
  /\ RowInv(sourceRow, delivered) /\ StoreInv(delivered)

USE StreamAssumption

-----------------------------------------------------------------------------
(* Frames and calls                                                       *)

LEMMA FrameFacts ==
  ASSUME NEW s \in Stream
  PROVE  /\ Len(Frames[s]) \in Nat /\ DOMAIN Frames[s] = 1 .. Len(Frames[s])
         /\ \A i \in DOMAIN Frames[s] :
              /\ Frames[s][i] \in FrameSet
              /\ Frames[s][i].kind \in {"started", "terminal"} => Frames[s][i].call \in McpCall
              /\ Frames[s][i].kind = "terminal" => Frames[s][i].outcome \in Outcomes
<1>1. Frames[s] \in Seq(FrameSet)
  OBVIOUS
<1>2. Len(Frames[s]) \in Nat /\ DOMAIN Frames[s] = 1 .. Len(Frames[s])
  BY <1>1, LenProperties
<1>3. ASSUME NEW i \in DOMAIN Frames[s]
      PROVE  /\ Frames[s][i] \in FrameSet
             /\ Frames[s][i].kind \in {"started", "terminal"} => Frames[s][i].call \in McpCall
             /\ Frames[s][i].kind = "terminal" => Frames[s][i].outcome \in Outcomes
  <2>1. Frames[s][i] \in FrameSet
    BY <1>1, <1>2, <1>3, ElementOfSeq
  <2> HIDE DEF FrameSet
  <2>2. Frames[s][i].kind \in {"started", "terminal"} => Frames[s][i].call \in McpCall
    BY <2>1 DEF McpCall
  <2> QED BY <2>1, <2>2
<1> QED BY <1>2, <1>3

\* At the end of a stream everything it says of a call has been heard.
LEMMA AllHeard ==
  ASSUME NEW s \in Stream, NEW n \in Nat \ {0}, n \notin DOMAIN Frames[s], NEW c
  PROVE  /\ Heard(s, c, n) = Terminals(s, c)
         /\ c \in CallsOf(s) <=> About(s, c, n) # {}
<1>1. /\ Len(Frames[s]) \in Nat /\ DOMAIN Frames[s] = 1 .. Len(Frames[s])
  BY FrameFacts
<1>2. \A i \in DOMAIN Frames[s] : i < n
  BY <1>1
<1>3. About(s, c, n) = {j \in DOMAIN Frames[s] : Frames[s][j].kind \in {"started", "terminal"} /\ Frames[s][j].call = c}
  BY <1>2 DEF About
<1>4. Heard(s, c, n) = Terminals(s, c)
  BY <1>3 DEF Heard, Terminals, FramesOf
<1>5. c \in CallsOf(s) <=> About(s, c, n) # {}
  BY <1>3 DEF CallsOf, FramesOf
<1> QED BY <1>4, <1>5

LEMMA CallsAreMcp ==
  ASSUME NEW s \in Stream, NEW c \in CallsOf(s)
  PROVE  c \in McpCall /\ Terminals(s, c) \subseteq Outcomes
<1>1. c \in McpCall
  BY FrameFacts DEF CallsOf, FramesOf
<1>2. Terminals(s, c) \subseteq Outcomes
  BY FrameFacts DEF Terminals, FramesOf
<1> QED BY <1>1, <1>2

LEMMA OneOutcome ==
  ASSUME NEW S \in SUBSET Outcomes
  PROVE  /\ IsFiniteSet(S) /\ Cardinality(S) \in Nat
         /\ Cardinality(S) = 1 <=> \E o : S = {o}
<1>1. IsFiniteSet(Outcomes)
  <2>1. IsFiniteSet({"succeeded"}) /\ IsFiniteSet({"failed"})
    BY FS_Singleton
  <2>2. Outcomes = {"succeeded"} \cup {"failed"}
    BY DEF Outcomes
  <2> QED BY <2>1, <2>2, FS_Union
<1>2. IsFiniteSet(S)
  BY <1>1, FS_Subset
<1> QED BY <1>2, FS_CardinalityType, FS_Singleton
-----------------------------------------------------------------------------
(* What the bridge hands to the sink                                       *)

LEMMA PlainRecord ==
  ASSUME NEW s \in Stream, NEW id \in Names
  PROVE  Fact(id, "unknown") \in Honest(s) /\ Reject(id) \in Honest(s)
BY DEF Fact, Reject, Honest, Record, Earned

LEMMA OneOrTwo ==
  ASSUME NEW S, NEW x \in S, NEW y \in S
  PROVE  <<>> \in Seq(S) /\ <<x>> \in Seq(S) /\ <<x, y>> \in Seq(S)
OBVIOUS

LEMMA SeqGrows ==
  ASSUME NEW S, NEW T, S \subseteq T, NEW q \in Seq(S)
  PROVE  q \in Seq(T)
OBVIOUS

LEMMA FrameIsHonest ==
  ASSUME NEW s \in Stream, NEW b, NEW f \in FrameSet
  PROVE  FrameRecords(b, f) \in Seq(Honest(s))
<1> DEFINE S == Honest(s)
<1>1. \A id \in Names : Fact(id, "unknown") \in S /\ Reject(id) \in S
  BY PlainRecord
<1> HIDE DEF S
<1>2. \A id \in Names : <<Fact(id, "unknown")>> \in Seq(S) /\ <<Reject(id)>> \in Seq(S) /\ <<>> \in Seq(S)
  BY <1>1, OneOrTwo
<1>3. PluginRecords(f) \in Seq(S)
  <2> DEFINE If(cond, id) == IF cond THEN <<Fact(id, "unknown")>> ELSE <<>>
             r1 == <<Fact("requested", "unknown")>>
             r2 == If(f.installed, "installed")
             r3 == If(f.enabled, "enabled")
             r4 == If(f.installed, "child installed")
             r5 == If(f.enabled /\ f.child, "child enabled")
  <2>1. r1 \in Seq(S) /\ r2 \in Seq(S) /\ r3 \in Seq(S) /\ r4 \in Seq(S) /\ r5 \in Seq(S)
    BY <1>2 DEF Names
  <2>2. PluginRecords(f) = r1 \o r2 \o r3 \o r4 \o r5
    BY DEF PluginRecords
  <2> HIDE DEF r1, r2, r3, r4, r5
  <2>3. r1 \o r2 \in Seq(S)
    BY <2>1, ConcatProperties
  <2>4. r1 \o r2 \o r3 \in Seq(S)
    BY <2>1, <2>3, ConcatProperties
  <2>5. r1 \o r2 \o r3 \o r4 \in Seq(S)
    BY <2>1, <2>4, ConcatProperties
  <2>6. r1 \o r2 \o r3 \o r4 \o r5 \in Seq(S)
    BY <2>1, <2>5, ConcatProperties
  <2> QED BY <2>2, <2>6
<1>4. f.kind = "response" => ResponseRecords(f) \in Seq(S)
  BY <1>2, <1>3 DEF ResponseRecords, Names
<1>5. <<Fact("invoked", "unknown"), Fact("loaded", "unknown")>> \in Seq(S)
  BY <1>1, OneOrTwo DEF Names
<1>6. FrameRecords(b, f) \in Seq(S)
  BY <1>2, <1>4, <1>5 DEF FrameRecords, Names
<1> QED BY <1>6 DEF S

\* What a call comes to: its fact, and a rejection unless it has ended in one way.
LEMMA ReconcileIsHonest ==
  ASSUME NEW s \in Stream, NEW c \in McpCall, NEW kept \in [McpCall -> CallState],
         kept[c].terminals = Terminals(s, c)
  PROVE  /\ Reconcile(c, kept) \in Seq(Honest(s))
         /\ \E i \in DOMAIN Reconcile(c, kept) :
              Reconcile(c, kept)[i].kind = "fact" /\ Reconcile(c, kept)[i].id = c
         /\ \/ Cardinality(Terminals(s, c)) = 1
            \/ \E i \in DOMAIN Reconcile(c, kept) : Reconcile(c, kept)[i].kind = "reject"
<1> PICK said : said = kept[c].terminals
  OBVIOUS
<1>1. said \in SUBSET Outcomes /\ said = Terminals(s, c)
  BY DEF CallState
<1>2. ASSUME NEW outcome \in Outcomes \cup {"unknown"}, Earned(s, c, outcome)
      PROVE  Fact(c, outcome) \in Honest(s)
  BY <1>2 DEF Fact, Honest, Record
<1>3. Fact(c, "unknown") \in Honest(s)
  BY <1>2 DEF Earned
<1>4. Reject("missing_terminal") \in Honest(s) /\ Reject("contradictory_terminal") \in Honest(s)
  BY PlainRecord DEF Names
<1>5. \A x, y : /\ 1 \in DOMAIN <<x>> /\ <<x>>[1] = x
                /\ 1 \in DOMAIN <<x, y>> /\ <<x, y>>[1] = x
                /\ 2 \in DOMAIN <<x, y>> /\ <<x, y>>[2] = y
  OBVIOUS
<1>6. \A category : Fact(c, "unknown").kind = "fact" /\ Fact(c, "unknown").id = c
                    /\ Reject(category).kind = "reject"
  BY DEF Fact, Reject
<1> PICK S : S = Honest(s)
  OBVIOUS
<1>7. CASE said = {} \/ Cardinality(said) # 1
  <2>1. PICK category \in {"missing_terminal", "contradictory_terminal"} :
          Reconcile(c, kept) = <<Fact(c, "unknown"), Reject(category)>>
    <3>1. CASE said = {}
      <4>1. Cardinality(said) = 0
        BY <3>1, FS_EmptySet
      <4> QED BY <3>1, <4>1 DEF Reconcile
    <3>2. CASE said # {} /\ Cardinality(said) # 1
      BY <3>2 DEF Reconcile
    <3> QED BY <1>7, <3>1, <3>2
  <2> PICK x, y : x = Fact(c, "unknown") /\ y = Reject(category)
    OBVIOUS
  <2>2. <<x, y>> \in Seq(S)
    BY <1>3, <1>4, OneOrTwo
  <2>3. x.kind = "fact" /\ x.id = c /\ y.kind = "reject"
    BY <1>6
  <2>4. Reconcile(c, kept) = <<x, y>>
    BY <2>1
  <2> QED BY <1>5, <2>2, <2>3, <2>4
<1>8. CASE said # {} /\ Cardinality(said) = 1
  <2> PICK o : o = CHOOSE x \in said : TRUE
    OBVIOUS
  <2>1. o \in said
    BY <1>8
  <2>2. said = {o}
    BY <1>1, <1>8, <2>1, OneOutcome
  <2>3. Earned(s, c, o) /\ o \in Outcomes
    BY <1>1, <2>1, <2>2 DEF Earned
  <2> PICK x : x = Fact(c, o)
    OBVIOUS
  <2>4. Reconcile(c, kept) = <<x>>
    BY <1>8 DEF Reconcile
  <2>5. <<x>> \in Seq(S)
    BY <1>2, <2>3, OneOrTwo
  <2>6. x.kind = "fact" /\ x.id = c
    BY DEF Fact
  <2>7. Cardinality(Terminals(s, c)) = 1
    BY <1>1, <1>8
  <2>8. Reconcile(c, kept)[1].kind = "fact" /\ Reconcile(c, kept)[1].id = c /\ 1 \in DOMAIN Reconcile(c, kept)
    BY <1>5, <2>4, <2>6
  <2> QED BY <2>4, <2>5, <2>7, <2>8
<1> QED BY <1>7, <1>8
-----------------------------------------------------------------------------
(* What a bridge does keeps what it knows                                  *)

LEMMA BridgeFields ==
  ASSUME NEW b \in BridgeState
  PROVE  /\ b.at \in {"idle", "reading", "done"} /\ b.next \in Nat \ {0} /\ b.emit \in Seq(Record)
         /\ b.ends \in Endings /\ b.lifecycle \in Lifecycles /\ b.accepted \in Nat /\ b.rejected \in Nat
         /\ b.pending \in SUBSET Asked /\ b.order \in Seq(McpCall) /\ b.calls \in [McpCall -> CallState]
         /\ b.context \in {"live", "deadline", "gone"}
BY DEF BridgeState

LEMMA FreshBridge ==
  ASSUME NEW s \in Stream, NEW D
  PROVE  BridgeInv(s, NewBridge, D)
<1>1. <<>> \in Seq(Record) /\ <<>> \in Seq(Honest(s)) /\ <<>> \in Seq(McpCall)
  OBVIOUS
<1>2. [c \in McpCall |-> NoCall] \in [McpCall -> CallState]
  BY DEF NoCall, CallState
<1>3. NewBridge \in BridgeState
  BY <1>1, <1>2 DEF NewBridge, BridgeState, Endings, Lifecycles
<1>4. IsFiniteSet({}) /\ Cardinality({}) = 0
  BY FS_EmptySet
<1>5. BridgeShape(s, NewBridge)
  BY <1>1, <1>3, <1>4 DEF BridgeShape, NewBridge
<1>6. NewBridge.at = "idle" /\ NewBridge.ends = "none" /\ NewBridge.accepted = 0
  BY DEF NewBridge
<1>7. BridgeEnds(s, NewBridge, D)
  BY <1>6 DEF BridgeEnds
<1> QED BY <1>5, <1>6, <1>7 DEF BridgeInv

\* A bridge that has read nothing has heard nothing.
LEMMA ConnectKeeps ==
  ASSUME NEW s \in Stream, NEW D
  PROVE  BridgeInv(s, [NewBridge EXCEPT !.at = "reading", !.lifecycle = "connected"], D)
<1> PICK b : b = [NewBridge EXCEPT !.at = "reading", !.lifecycle = "connected"]
  OBVIOUS
<1>1. BridgeInv(s, NewBridge, D)
  BY FreshBridge
<1>2. NewBridge \in BridgeState
  BY <1>1 DEF BridgeInv, BridgeShape
<1>3. /\ b \in BridgeState /\ b.at = "reading" /\ b.next = 1 /\ b.emit = NewBridge.emit /\ b.ends = "none"
      /\ b.accepted = 0 /\ b.pending = NewBridge.pending
      /\ b.calls = [c \in McpCall |-> NoCall]
  BY <1>2 DEF NewBridge, BridgeState, Lifecycles
<1>4. BridgeShape(s, b)
  BY <1>1, <1>3 DEF BridgeInv, BridgeShape
<1>5. \A c : About(s, c, 1) = {}
  BY FrameFacts DEF About
<1>6. \A c : Heard(s, c, 1) = {}
  BY <1>5 DEF Heard
<1>7. \A c \in McpCall : b.calls[c] = NoCall /\ b.calls[c].terminals = {}
  <2>1. \A c \in McpCall : b.calls[c] = NoCall
    BY <1>3
  <2>2. NoCall.terminals = {}
    BY DEF NoCall
  <2> QED BY <2>1, <2>2
<1>8. Follows(s, b)
  BY <1>3, <1>5, <1>6, <1>7 DEF Follows
<1>9. BridgeEnds(s, b, D)
  BY <1>3 DEF BridgeEnds
<1>10. BridgeInv(s, b, D)
  BY <1>3, <1>4, <1>8, <1>9 DEF BridgeInv
<1> QED BY <1>10

\* A frame is of a call, and ends it.
OfCall(f, c) == f.kind \in {"started", "terminal"} /\ f.call = c
EndsCall(f, c) == f.kind = "terminal" /\ f.call = c

\* One frame more.
LEMMA AboutNext ==
  ASSUME NEW s \in Stream, NEW n \in DOMAIN Frames[s], NEW c, NEW f, f = Frames[s][n]
  PROVE  /\ OfCall(f, c) => About(s, c, n + 1) = About(s, c, n) \cup {n}
         /\ ~OfCall(f, c) => About(s, c, n + 1) = About(s, c, n)
         /\ EndsCall(f, c) => Heard(s, c, n + 1) = Heard(s, c, n) \cup {f.outcome}
         /\ ~EndsCall(f, c) => Heard(s, c, n + 1) = Heard(s, c, n)
<1>1. DOMAIN Frames[s] \subseteq Nat
  BY FrameFacts
<1>2. /\ OfCall(f, c) => About(s, c, n + 1) = About(s, c, n) \cup {n}
      /\ ~OfCall(f, c) => About(s, c, n + 1) = About(s, c, n)
  BY <1>1 DEF About, OfCall
<1>3. n \notin About(s, c, n)
  BY <1>1 DEF About
<1>4. /\ EndsCall(f, c) => Heard(s, c, n + 1) = Heard(s, c, n) \cup {f.outcome}
      /\ ~EndsCall(f, c) => Heard(s, c, n + 1) = Heard(s, c, n)
  BY <1>2, <1>3 DEF Heard, OfCall, EndsCall
<1> QED BY <1>2, <1>4

LEMMA ObservedCall ==
  ASSUME NEW kept \in [McpCall -> CallState], NEW f \in FrameSet, NEW c \in McpCall
  PROVE  /\ Observe(kept, f) \in [McpCall -> CallState]
         /\ EndsCall(f, c) => Observe(kept, f)[c].terminals = kept[c].terminals \cup {f.outcome}
         /\ ~EndsCall(f, c) => Observe(kept, f)[c].terminals = kept[c].terminals
         /\ OfCall(f, c) => Observe(kept, f)[c] # NoCall
         /\ ~OfCall(f, c) => Observe(kept, f)[c] = kept[c]
<1> PICK d : d = f.call
  OBVIOUS
<1>1. ASSUME NEW q \in McpCall
      PROVE  /\ kept[q] \in CallState /\ kept[q] = [started |-> kept[q].started, terminals |-> kept[q].terminals]
             /\ kept[q].started \in BOOLEAN /\ kept[q].terminals \in SUBSET Outcomes
  <2>1. kept[q] \in CallState
    OBVIOUS
  <2> QED BY <2>1 DEF CallState
<1>2. CASE f.kind = "started"
  <2>1. d \in McpCall
    BY <1>2 DEF McpCall
  <2> PICK w : w = kept[d]
    OBVIOUS
  <2> PICK v : v = [w EXCEPT !.started = TRUE]
    OBVIOUS
  <2>6. w = [started |-> w.started, terminals |-> w.terminals]
    BY <1>1, <2>1
  <2>2. v = [started |-> TRUE, terminals |-> w.terminals]
    BY <2>6
  <2>3. v \in CallState /\ v.terminals = kept[d].terminals /\ v.started
    BY <1>1, <2>1, <2>2 DEF CallState
  <2>4. v # NoCall
    <3>1. ~NoCall.started
      BY DEF NoCall
    <3> QED BY <2>3, <3>1
  <2>5. Observe(kept, f) = [kept EXCEPT ![d] = v]
    BY <1>2 DEF Observe
  <2> QED BY <1>2, <2>1, <2>3, <2>4, <2>5 DEF OfCall, EndsCall
<1>3. CASE f.kind = "terminal"
  <2>1. d \in McpCall /\ f.outcome \in Outcomes
    BY <1>3 DEF McpCall
  <2> PICK w : w = kept[d]
    OBVIOUS
  <2> PICK v : v = [w EXCEPT !.terminals = w.terminals \cup {f.outcome}]
    OBVIOUS
  <2>6. w = [started |-> w.started, terminals |-> w.terminals]
    BY <1>1, <2>1
  <2>2. v = [started |-> w.started, terminals |-> w.terminals \cup {f.outcome}]
    BY <2>6
  <2>3. v \in CallState /\ v.terminals = kept[d].terminals \cup {f.outcome}
    BY <1>1, <2>1, <2>2 DEF CallState
  <2>4. v # NoCall
    <3>1. NoCall.terminals = {}
      BY DEF NoCall
    <3> QED BY <2>3, <3>1
  <2>5. Observe(kept, f) = [kept EXCEPT ![d] = v]
    BY <1>3 DEF Observe
  <2>7. Observe(kept, f) \in [McpCall -> CallState]
    BY <2>3, <2>5
  <2>8. CASE d = c
    BY <1>3, <2>1, <2>3, <2>4, <2>5, <2>7, <2>8 DEF OfCall, EndsCall
  <2>9. CASE d # c
    BY <1>3, <2>1, <2>5, <2>7, <2>9 DEF OfCall, EndsCall
  <2> QED BY <2>8, <2>9
<1>4. CASE f.kind \notin {"started", "terminal"}
  <2>1. Observe(kept, f) = kept
    BY <1>4 DEF Observe
  <2> QED BY <1>4, <2>1 DEF OfCall, EndsCall
<1> QED BY <1>2, <1>3, <1>4

LEMMA WaitsAfter ==
  ASSUME NEW b \in BridgeState, NEW f \in FrameSet, NEW c
  PROVE  /\ OrderAfter(b, f) \in Seq(McpCall)
         /\ Waits(b, c) => Waits([order |-> OrderAfter(b, f)], c)
         /\ OfCall(f, c) /\ b.calls[c] = NoCall => Waits([order |-> OrderAfter(b, f)], c)
<1> PICK o : o = b.order
  OBVIOUS
<1>1. o \in Seq(McpCall)
  BY BridgeFields
<1>2. CASE f.kind \in {"started", "terminal"} /\ b.calls[f.call] = NoCall
  <2> PICK d : d = f.call
    OBVIOUS
  <2>1. d \in McpCall
    BY <1>2 DEF McpCall
  <2>2. OrderAfter(b, f) = Append(o, d)
    BY <1>2 DEF OrderAfter
  <2>3. /\ Append(o, d) \in Seq(McpCall) /\ DOMAIN Append(o, d) = 1 .. (Len(o) + 1)
        /\ DOMAIN o = 1 .. Len(o) /\ Len(o) \in Nat
        /\ \A i \in 1 .. Len(o) : Append(o, d)[i] = o[i]
        /\ Append(o, d)[Len(o) + 1] = d
    BY <1>1, <2>1
  <2>4. \A i \in DOMAIN o : i \in DOMAIN Append(o, d) /\ Append(o, d)[i] = o[i]
    BY <2>3
  <2>5. Len(o) + 1 \in DOMAIN Append(o, d)
    BY <2>3
  <2> QED BY <2>2, <2>3, <2>4, <2>5 DEF Waits, OfCall
<1>3. CASE ~(f.kind \in {"started", "terminal"} /\ b.calls[f.call] = NoCall)
  <2>1. OrderAfter(b, f) = o
    BY <1>3 DEF OrderAfter
  <2> QED BY <1>1, <1>3, <2>1 DEF Waits, OfCall
<1> QED BY <1>2, <1>3

LEMMA PendingIsBounded ==
  ASSUME NEW b \in BridgeState, NEW f \in FrameSet,
         IsFiniteSet(b.pending), Cardinality(b.pending) <= MaxPending
  PROVE  LET p == PendingAfter(b, f) IN
         p \in SUBSET Asked /\ IsFiniteSet(p) /\ Cardinality(p) <= MaxPending
<1> PICK p : p = b.pending
  OBVIOUS
<1>1. p \in SUBSET Asked /\ IsFiniteSet(p) /\ Cardinality(p) \in Nat /\ Cardinality(p) <= MaxPending
  BY BridgeFields, FS_CardinalityType
<1>2. CASE f.kind = "request" /\ Cardinality(p) < MaxPending
  <2>1. f.id \in Asked
    BY <1>2 DEF Asked
  <2>2. /\ IsFiniteSet(p \cup {f.id})
        /\ Cardinality(p \cup {f.id}) = Cardinality(p) \/ Cardinality(p \cup {f.id}) = Cardinality(p) + 1
    BY <1>1, FS_AddElement
  <2>3. Cardinality(p \cup {f.id}) <= MaxPending
    BY <1>1, <1>2, <2>2
  <2>4. PendingAfter(b, f) = p \cup {f.id}
    BY <1>2 DEF PendingAfter
  <2> QED BY <1>1, <2>1, <2>2, <2>3, <2>4
<1>3. CASE f.kind = "response"
  <2>1. IsFiniteSet(p \ {f.id}) /\ Cardinality(p \ {f.id}) <= Cardinality(p) /\ Cardinality(p \ {f.id}) \in Nat
    <3> PICK q : q = p \ {f.id}
      OBVIOUS
    <3>1. q \subseteq p
      OBVIOUS
    <3> QED BY <1>1, <3>1, FS_Subset, FS_CardinalityType
  <2>2. PendingAfter(b, f) = p \ {f.id}
    BY <1>3 DEF PendingAfter
  <2> QED BY <1>1, <2>1, <2>2
<1>4. CASE ~(f.kind = "request" /\ Cardinality(p) < MaxPending) /\ f.kind # "response"
  <2>1. PendingAfter(b, f) = p
    BY <1>4 DEF PendingAfter
  <2> QED BY <1>1, <2>1
<1> QED BY <1>2, <1>3, <1>4

LEMMA FollowsOn ==
  ASSUME NEW s \in Stream, NEW b \in BridgeState, Follows(s, b), b.ends = "none",
         NEW k \in DOMAIN Frames[s], b.next = k, NEW f \in FrameSet, f = Frames[s][k],
         NEW n, n.next = k + 1, n.calls = Observe(b.calls, f), n.order = OrderAfter(b, f)
  PROVE  Follows(s, n)
<1> SUFFICES ASSUME NEW c \in McpCall
             PROVE  /\ n.calls[c].terminals = Heard(s, c, k + 1)
                    /\ n.calls[c] = NoCall <=> About(s, c, k + 1) = {}
                    /\ About(s, c, k + 1) # {} => Waits(n, c)
  BY DEF Follows
<1>1. /\ b.calls[c].terminals = Heard(s, c, k)
      /\ b.calls[c] = NoCall <=> About(s, c, k) = {}
      /\ About(s, c, k) # {} => Waits(b, c)
  BY DEF Follows
<1>2. /\ OfCall(f, c) => About(s, c, k + 1) = About(s, c, k) \cup {k}
      /\ ~OfCall(f, c) => About(s, c, k + 1) = About(s, c, k)
      /\ EndsCall(f, c) => Heard(s, c, k + 1) = Heard(s, c, k) \cup {f.outcome}
      /\ ~EndsCall(f, c) => Heard(s, c, k + 1) = Heard(s, c, k)
  BY AboutNext
<1>3. b.calls \in [McpCall -> CallState]
  BY BridgeFields
<1>4. /\ EndsCall(f, c) => n.calls[c].terminals = b.calls[c].terminals \cup {f.outcome}
      /\ ~EndsCall(f, c) => n.calls[c].terminals = b.calls[c].terminals
      /\ OfCall(f, c) => n.calls[c] # NoCall
      /\ ~OfCall(f, c) => n.calls[c] = b.calls[c]
  BY <1>3, ObservedCall
<1>5. Waits([order |-> OrderAfter(b, f)], c) => Waits(n, c)
  BY DEF Waits
<1>6. /\ Waits(b, c) => Waits(n, c)
      /\ OfCall(f, c) /\ b.calls[c] = NoCall => Waits(n, c)
  BY <1>5, WaitsAfter
<1>7. n.calls[c].terminals = Heard(s, c, k + 1)
  BY <1>1, <1>2, <1>4
<1>8. n.calls[c] = NoCall <=> About(s, c, k + 1) = {}
  BY <1>1, <1>2, <1>4
<1>9. About(s, c, k + 1) # {} => Waits(n, c)
  BY <1>1, <1>2, <1>6
<1> QED BY <1>7, <1>8, <1>9

\* One turn of the loop.
LEMMA ReadKeeps ==
  ASSUME NEW s \in Stream, NEW D, NEW b, BridgeInv(s, b, D), b.at = "reading", b.ends = "none",
         b.next \in DOMAIN Frames[s], NEW f, f = Frames[s][b.next]
  PROVE  BridgeInv(s, [b EXCEPT !.next = b.next + 1, !.emit = FrameRecords(b, f), !.pending = PendingAfter(b, f),
                                !.calls = Observe(b.calls, f), !.order = OrderAfter(b, f)], D)
<1> PICK n : n = [b EXCEPT !.next = b.next + 1, !.emit = FrameRecords(b, f), !.pending = PendingAfter(b, f),
                           !.calls = Observe(b.calls, f), !.order = OrderAfter(b, f)]
  OBVIOUS
<1>1. b \in BridgeState /\ IsFiniteSet(b.pending) /\ Cardinality(b.pending) <= MaxPending /\ Follows(s, b)
  BY DEF BridgeInv, BridgeShape
<1>2. f \in FrameSet
  BY FrameFacts
<1>3. PendingAfter(b, f) \in SUBSET Asked /\ IsFiniteSet(PendingAfter(b, f)) /\ Cardinality(PendingAfter(b, f)) <= MaxPending
  BY <1>1, <1>2, PendingIsBounded
<1>4. FrameRecords(b, f) \in Seq(Honest(s)) /\ FrameRecords(b, f) \in Seq(Record)
  <2>1. FrameRecords(b, f) \in Seq(Honest(s))
    BY <1>2, FrameIsHonest
  <2>2. Honest(s) \subseteq Record
    BY DEF Honest
  <2> QED BY <2>1, <2>2, SeqGrows
<1>5. b.calls \in [McpCall -> CallState] /\ b.next \in Nat \ {0} /\ b.next + 1 \in Nat \ {0}
  BY <1>1, BridgeFields
<1>6. Observe(b.calls, f) \in [McpCall -> CallState]
  <2>1. CASE McpCall = {}
    <3>1. ~(f.kind \in {"started", "terminal"})
      BY <1>2, <2>1 DEF McpCall
    <3> QED BY <1>5, <3>1 DEF Observe
  <2>2. CASE McpCall # {}
    BY <1>2, <1>5, <2>2, ObservedCall
  <2> QED BY <2>1, <2>2
<1>7. OrderAfter(b, f) \in Seq(McpCall)
  BY <1>1, <1>2, WaitsAfter
<1>8. /\ n \in BridgeState /\ n.next = b.next + 1 /\ n.emit = FrameRecords(b, f) /\ n.pending = PendingAfter(b, f)
      /\ n.calls = Observe(b.calls, f) /\ n.order = OrderAfter(b, f)
      /\ n.at = b.at /\ n.ends = b.ends /\ n.accepted = b.accepted
  BY <1>1, <1>3, <1>4, <1>5, <1>6, <1>7 DEF BridgeState
<1>9. BridgeShape(s, n)
  BY <1>3, <1>4, <1>8 DEF BridgeShape
<1>10. Follows(s, n)
  <2>1. /\ b.next \in DOMAIN Frames[s] /\ b.ends = "none" /\ f = Frames[s][b.next]
        /\ n.next = b.next + 1 /\ n.calls = Observe(b.calls, f) /\ n.order = OrderAfter(b, f)
        /\ b \in BridgeState /\ Follows(s, b)
    BY <1>1, <1>8
  <2> PICK k : k = b.next
    OBVIOUS
  <2>2. k \in DOMAIN Frames[s] /\ f = Frames[s][k] /\ n.next = k + 1 /\ b.next = k
    BY <2>1
  <2> QED BY <1>2, <2>1, <2>2, FollowsOn
<1>11. BridgeEnds(s, n, D)
  BY <1>8 DEF BridgeEnds
<1>12. n.accepted > 0 => D # {}
  BY <1>8 DEF BridgeInv
<1>13. BridgeInv(s, n, D)
  BY <1>9, <1>10, <1>11, <1>12 DEF BridgeInv
<1> QED BY <1>13

\* A bridge that stops reading for another reason than the end of the body.
LEMMA StopsKeeps ==
  ASSUME NEW s \in Stream, NEW D, NEW b, BridgeInv(s, b, D), b.at = "reading",
         NEW ends \in Endings \ {"none", "ok"}, NEW emit \in Seq(Honest(s)), NEW stage \in Lifecycles
  PROVE  BridgeInv(s, [b EXCEPT !.ends = ends, !.emit = emit, !.lifecycle = stage], D)
<1> DEFINE n == [b EXCEPT !.ends = ends, !.emit = emit, !.lifecycle = stage]
<1>1. b \in BridgeState /\ BridgeShape(s, b) /\ Follows(s, b)
  BY DEF BridgeInv, BridgeShape
<1>2. emit \in Seq(Record)
  <2>1. Honest(s) \subseteq Record
    BY DEF Honest
  <2> QED BY <2>1, SeqGrows
<1>3. /\ n \in BridgeState /\ n.at = "reading" /\ n.ends = ends /\ n.emit = emit /\ n.next = b.next
      /\ n.calls = b.calls /\ n.pending = b.pending /\ n.accepted = b.accepted
  BY <1>1, <1>2 DEF BridgeState
<1> HIDE DEF n
<1>4. BridgeShape(s, n)
  BY <1>1, <1>3 DEF BridgeShape
<1>5. Follows(s, n)
  BY <1>1, <1>3 DEF Follows
<1>6. BridgeEnds(s, n, D)
  BY <1>3 DEF BridgeEnds
<1>7. BridgeInv(s, n, D)
  BY <1>3, <1>4, <1>5, <1>6 DEF BridgeInv
<1> QED BY <1>7 DEF n

\* At the end of the body every call it names waits to be reconciled.
LEMMA EndKeeps ==
  ASSUME NEW s \in Stream, NEW D, NEW b, BridgeInv(s, b, D), b.at = "reading", b.ends = "none",
         b.next \notin DOMAIN Frames[s]
  PROVE  BridgeInv(s, [b EXCEPT !.ends = "ok"], D)
<1> DEFINE n == [b EXCEPT !.ends = "ok"]
<1>1. b \in BridgeState /\ BridgeShape(s, b) /\ Follows(s, b)
  BY DEF BridgeInv, BridgeShape
<1>2. /\ n \in BridgeState /\ n.at = "reading" /\ n.ends = "ok" /\ n.emit = b.emit /\ n.next = b.next
      /\ n.calls = b.calls /\ n.pending = b.pending /\ n.accepted = b.accepted /\ n.order = b.order
  BY <1>1 DEF BridgeState, Endings
<1> HIDE DEF n
<1>3. BridgeShape(s, n)
  BY <1>1, <1>2 DEF BridgeShape
<1>4. Follows(s, n)
  BY <1>1, <1>2 DEF Follows
<1>5. ASSUME NEW c \in CallsOf(s)
      PROVE  Waits(n, c)
  <2>1. b.next \in Nat \ {0}
    BY <1>1, BridgeFields
  <2>2. About(s, c, b.next) # {} /\ c \in McpCall
    BY <2>1, AllHeard, CallsAreMcp
  <2>3. Waits(b, c)
    BY <1>1, <2>2 DEF Follows
  <2> QED BY <1>2, <2>3 DEF Waits
<1>6. BridgeEnds(s, n, D)
  BY <1>2, <1>5 DEF BridgeEnds
<1>7. BridgeInv(s, n, D)
  BY <1>2, <1>3, <1>4, <1>6 DEF BridgeInv
<1> QED BY <1>7 DEF n

LEMMA HeadOrTail ==
  ASSUME NEW S, NEW q \in Seq(S), q # <<>>
  PROVE  /\ Head(q) = q[1] /\ Head(q) \in S /\ Tail(q) \in Seq(S)
         /\ DOMAIN q = 1 .. Len(q) /\ Len(q) \in Nat \ {0}
         /\ \A i \in DOMAIN q : i = 1 \/ (i - 1 \in DOMAIN Tail(q) /\ Tail(q)[i - 1] = q[i])
         /\ \A i \in DOMAIN Tail(q) : i + 1 \in DOMAIN q /\ Tail(q)[i] = q[i + 1]
<1>1. Len(q) \in Nat \ {0} /\ DOMAIN q = 1 .. Len(q)
  BY EmptySeq, LenProperties
<1>2. /\ Head(q) \in S /\ Head(q) = q[1] /\ Tail(q) \in Seq(S) /\ Len(Tail(q)) = Len(q) - 1
      /\ \A i \in 1 .. Len(Tail(q)) : Tail(q)[i] = q[i + 1]
  BY <1>1, HeadTailProperties
<1>3. DOMAIN Tail(q) = 1 .. Len(q) - 1
  BY <1>1, <1>2, LenProperties
<1> QED BY <1>1, <1>2, <1>3

\* The call that is reconciled is in hand, and counted unless it ended in one way.
LEMMA ReconcileKeeps ==
  ASSUME NEW s \in Stream, NEW D, NEW b, BridgeInv(s, b, D), b.at = "reading", b.ends = "ok",
         b.emit = <<>>, b.order # <<>>, NEW c0, c0 = Head(b.order)
  PROVE  BridgeInv(s, [b EXCEPT !.emit = Reconcile(c0, b.calls), !.order = Tail(b.order)], D)
<1> DEFINE n == [b EXCEPT !.emit = Reconcile(c0, b.calls), !.order = Tail(b.order)]
<1>1. b \in BridgeState /\ BridgeShape(s, b) /\ Follows(s, b) /\ BridgeEnds(s, b, D)
  BY DEF BridgeInv, BridgeShape
<1> PICK order : order = b.order
  OBVIOUS
<1>2. /\ order \in Seq(McpCall) /\ order # <<>> /\ c0 = Head(order)
      /\ b.next \in Nat \ {0} /\ b.calls \in [McpCall -> CallState]
  BY <1>1, BridgeFields
<1>3. /\ c0 = order[1] /\ c0 \in McpCall /\ Tail(order) \in Seq(McpCall)
      /\ \A i \in DOMAIN order : i = 1 \/ (i - 1 \in DOMAIN Tail(order) /\ Tail(order)[i - 1] = order[i])
  BY <1>2, HeadOrTail
<1>4. b.calls[c0].terminals = Terminals(s, c0)
  <2>1. b.next \notin DOMAIN Frames[s]
    BY <1>1 DEF BridgeEnds
  <2>2. Heard(s, c0, b.next) = Terminals(s, c0)
    BY <1>2, <2>1, AllHeard
  <2> QED BY <1>1, <1>3, <2>2 DEF Follows
<1> PICK emit : emit = Reconcile(c0, b.calls)
  OBVIOUS
<1>5. /\ emit \in Seq(Honest(s))
      /\ \E i \in DOMAIN emit : emit[i].kind = "fact" /\ emit[i].id = c0
      /\ Cardinality(Terminals(s, c0)) = 1 \/ \E i \in DOMAIN emit : emit[i].kind = "reject"
  BY <1>2, <1>3, <1>4, ReconcileIsHonest
<1>6. emit \in Seq(Record)
  <2>1. Honest(s) \subseteq Record
    BY DEF Honest
  <2> QED BY <1>5, <2>1, SeqGrows
<1>7. /\ n \in BridgeState /\ n.at = "reading" /\ n.ends = "ok" /\ n.emit = emit /\ n.next = b.next
      /\ n.calls = b.calls /\ n.pending = b.pending /\ n.accepted = b.accepted /\ n.order = Tail(order)
      /\ n.rejected = b.rejected
  BY <1>1, <1>3, <1>6 DEF BridgeState
<1> HIDE DEF n
<1>8. BridgeShape(s, n)
  BY <1>1, <1>5, <1>7 DEF BridgeShape
<1>9. Follows(s, n)
  BY <1>1, <1>7 DEF Follows
<1>10. ASSUME NEW c \in CallsOf(s)
       PROVE  Waits(n, c) \/ ServedCall(s, n, c, D)
  <2>1. Waits(b, c) \/ ServedCall(s, b, c, D)
    BY <1>1 DEF BridgeEnds
  <2>2. CASE c = c0
    BY <1>5, <1>7, <2>2 DEF ServedCall, InHand, Objects
  <2>3. CASE c # c0 /\ Waits(b, c)
    <3>1. PICK i \in DOMAIN order : order[i] = c
      BY <2>3 DEF Waits
    <3>2. i - 1 \in DOMAIN Tail(order) /\ Tail(order)[i - 1] = c
      BY <1>3, <2>3, <3>1
    <3> QED BY <1>7, <3>2 DEF Waits
  <2>4. CASE ServedCall(s, b, c, D)
    <3>1. ~InHand(b, c) /\ (Objects(b) => b.rejected > 0)
      BY DEF InHand, Objects
    <3>2. Delivered(s, c, D) /\ (Cardinality(Terminals(s, c)) = 1 \/ n.rejected > 0)
      BY <1>7, <2>4, <3>1 DEF ServedCall
    <3> QED BY <3>2 DEF ServedCall, Objects
  <2> QED BY <2>1, <2>2, <2>3, <2>4
<1>11. BridgeEnds(s, n, D)
  BY <1>1, <1>7, <1>10 DEF BridgeEnds
<1>12. n.accepted > 0 => D # {}
  BY <1>7 DEF BridgeInv
<1>13. BridgeInv(s, n, D)
  BY <1>7, <1>8, <1>9, <1>11, <1>12 DEF BridgeInv
<1> QED BY <1>13 DEF n

\* What a bridge is when it has handed a record over.
TakenFrom(n, b) ==
  /\ n \in BridgeState /\ n.emit = Tail(b.emit)
  /\ n.at = b.at /\ n.next = b.next /\ n.ends = b.ends /\ n.pending = b.pending
  /\ n.order = b.order /\ n.calls = b.calls

WithFact(b, k, l) == [b EXCEPT !.emit = Tail(b.emit), !.accepted = k, !.lifecycle = l]
WithRejection(b, k, l) == [b EXCEPT !.emit = Tail(b.emit), !.rejected = k, !.lifecycle = l]

LEMMA Taken ==
  ASSUME NEW b \in BridgeState, Tail(b.emit) \in Seq(Record), NEW l \in Lifecycles, NEW k \in Nat
  PROVE  /\ TakenFrom(WithFact(b, k, l), b)
         /\ WithFact(b, k, l).rejected = b.rejected
BY DEF BridgeState, TakenFrom, WithFact

LEMMA Refused ==
  ASSUME NEW b \in BridgeState, Tail(b.emit) \in Seq(Record), NEW l \in Lifecycles, NEW k \in Nat
  PROVE  /\ TakenFrom(WithRejection(b, k, l), b)
         /\ WithRejection(b, k, l).rejected = k
         /\ WithRejection(b, k, l).accepted = b.accepted
BY DEF BridgeState, TakenFrom, WithRejection

\* The sink takes the record in hand: what was in hand of a call is stored, and a
\* rejection is counted.
LEMMA StoreKeeps ==
  ASSUME NEW s \in Stream, NEW D, NEW E, D \subseteq E, NEW b, BridgeInv(s, b, D), b.at = "reading",
         b.emit # <<>>, NEW e, e = Head(b.emit),
         NEW n, TakenFrom(n, b),
         IF e.kind = "fact" THEN Delivered(s, e.id, E) /\ n.rejected = b.rejected
                            ELSE n.rejected = b.rejected + 1 /\ n.accepted = b.accepted
  PROVE  BridgeInv(s, n, E)
<1> PICK emit : emit = b.emit
  OBVIOUS
<1>1. /\ b \in BridgeState /\ BridgeShape(s, b) /\ Follows(s, b) /\ BridgeEnds(s, b, D)
      /\ emit \in Seq(Honest(s)) /\ b.rejected \in Nat
  BY BridgeFields DEF BridgeInv, BridgeShape
<1>0. /\ n \in BridgeState /\ n.emit = Tail(b.emit) /\ n.at = b.at /\ n.next = b.next /\ n.ends = b.ends
      /\ n.pending = b.pending /\ n.order = b.order /\ n.calls = b.calls
  BY DEF TakenFrom
<1>2. /\ e = emit[1] /\ e \in Honest(s) /\ Tail(emit) \in Seq(Honest(s))
      /\ \A i \in DOMAIN emit : i = 1 \/ (i - 1 \in DOMAIN Tail(emit) /\ Tail(emit)[i - 1] = emit[i])
  <2> PICK S : S = Honest(s)
    OBVIOUS
  <2>1. emit \in Seq(S) /\ emit # <<>> /\ e = Head(emit)
    BY <1>1
  <2>2. /\ e = emit[1] /\ e \in S /\ Tail(emit) \in Seq(S)
        /\ \A i \in DOMAIN emit : i = 1 \/ (i - 1 \in DOMAIN Tail(emit) /\ Tail(emit)[i - 1] = emit[i])
    BY <2>1, HeadOrTail
  <2> QED BY <2>2
<1>3. e.kind \in {"fact", "reject"}
  BY <1>2 DEF Honest, Record
<1>4. BridgeShape(s, n)
  BY <1>0, <1>1, <1>2 DEF BridgeShape
<1>5. Follows(s, n)
  BY <1>0, <1>1 DEF Follows, Waits
<1>6. ASSUME NEW c
      PROVE  /\ InHand(b, c) => InHand(n, c) \/ Delivered(s, c, E)
             /\ Objects(b) => Objects(n)
             /\ Delivered(s, c, D) => Delivered(s, c, E)
  <2>1. InHand(b, c) => InHand(n, c) \/ Delivered(s, c, E)
    <3> SUFFICES ASSUME NEW i \in DOMAIN emit, emit[i].kind = "fact", emit[i].id = c
                 PROVE  InHand(n, c) \/ Delivered(s, c, E)
      BY DEF InHand
    <3>1. CASE i = 1
      BY <1>2, <3>1
    <3>2. CASE i # 1
      <4>1. n.emit = Tail(emit)
        BY <1>0
      <4>2. i - 1 \in DOMAIN Tail(emit) /\ Tail(emit)[i - 1] = emit[i]
        BY <1>2, <3>2
      <4>3. i - 1 \in DOMAIN n.emit /\ n.emit[i - 1].kind = "fact" /\ n.emit[i - 1].id = c
        BY <4>1, <4>2
      <4> QED BY <4>3 DEF InHand
    <3> QED BY <3>1, <3>2
  <2>2. Objects(b) => Objects(n)
    <3>1. CASE e.kind = "reject"
      <4>1. n.rejected > 0
        BY <1>1, <3>1
      <4> QED BY <4>1 DEF Objects
    <3>2. CASE e.kind = "fact"
      <4>1. \A i \in DOMAIN emit : emit[i].kind = "reject" =>
              i - 1 \in DOMAIN n.emit /\ n.emit[i - 1].kind = "reject"
        BY <1>0, <1>2, <3>2
      <4> QED BY <3>2, <4>1 DEF Objects
    <3> QED BY <1>3, <3>1, <3>2
  <2>3. Delivered(s, c, D) => Delivered(s, c, E)
    BY DEF Delivered
  <2> QED BY <2>1, <2>2, <2>3
<1>7. \A c \in CallsOf(s) : ServedCall(s, b, c, D) => ServedCall(s, n, c, E)
  BY <1>6 DEF ServedCall
<1>8. \A c : Waits(b, c) <=> Waits(n, c)
  BY <1>0 DEF Waits
<1>9. BridgeEnds(s, n, E)
  BY <1>0, <1>1, <1>7, <1>8 DEF BridgeEnds
<1>10. n.accepted > 0 => E # {}
  BY <1>3 DEF BridgeInv, Delivered
<1> QED BY <1>0, <1>4, <1>5, <1>9, <1>10 DEF BridgeInv

\* What a bridge comes to when it returns.
LEMMA ReturnKeeps ==
  ASSUME NEW s \in Stream, NEW D, NEW b, BridgeInv(s, b, D), b.emit = <<>>, b.ends # "none",
         b.ends = "ok" => b.order = <<>>,
         NEW stage, stage = IF b.ends = "ok" /\ b.rejected = 0 THEN "reconciled" ELSE b.lifecycle
  PROVE  BridgeInv(s, [NewBridge EXCEPT !.at = "done", !.ends = b.ends, !.context = b.context,
                         !.accepted = b.accepted, !.rejected = b.rejected, !.lifecycle = stage], D)
<1> DEFINE n == [NewBridge EXCEPT !.at = "done", !.ends = b.ends, !.context = b.context,
                   !.accepted = b.accepted, !.rejected = b.rejected, !.lifecycle = stage]
<1>1. b \in BridgeState /\ BridgeEnds(s, b, D)
  BY DEF BridgeInv, BridgeShape
<1>2. NewBridge \in BridgeState /\ BridgeShape(s, NewBridge)
  BY FreshBridge DEF BridgeInv, BridgeShape
<1>3. stage \in Lifecycles
  BY <1>1, BridgeFields DEF Lifecycles
<1>4. /\ b.ends \in Endings /\ b.context \in {"live", "deadline", "gone"} /\ b.accepted \in Nat /\ b.rejected \in Nat
  BY <1>1, BridgeFields
<1>5. n \in BridgeState
  BY <1>2, <1>3, <1>4 DEF BridgeState
<1>6. /\ n.at = "done" /\ n.ends = b.ends /\ n.accepted = b.accepted /\ n.rejected = b.rejected
      /\ n.lifecycle = stage /\ n.emit = NewBridge.emit /\ n.order = NewBridge.order
      /\ n.pending = NewBridge.pending
  BY <1>2 DEF BridgeState
<1>7. NewBridge.emit = <<>> /\ NewBridge.order = <<>>
  BY DEF NewBridge
<1> HIDE DEF n
<1>8. BridgeShape(s, n)
  BY <1>2, <1>5, <1>6 DEF BridgeShape
<1>9. ASSUME NEW c \in CallsOf(s), b.ends = "ok"
      PROVE  ServedCall(s, n, c, D)
  <2>1. ServedCall(s, b, c, D)
    BY <1>1, <1>9 DEF BridgeEnds, Waits
  <2>2. n.emit = b.emit /\ n.rejected = b.rejected
    BY <1>6, <1>7
  <2> QED BY <2>1, <2>2 DEF ServedCall, InHand, Objects
<1>10. BridgeEnds(s, n, D)
  BY <1>6, <1>7, <1>9 DEF BridgeEnds
<1>11. BridgeInv(s, n, D)
  BY <1>6, <1>8, <1>10 DEF BridgeInv
<1> QED BY <1>11 DEF n

LEMMA ContextKeeps ==
  ASSUME NEW s \in Stream, NEW D, NEW b, BridgeInv(s, b, D), NEW how \in {"deadline", "gone"}
  PROVE  BridgeInv(s, [b EXCEPT !.context = how], D)
<1> DEFINE n == [b EXCEPT !.context = how]
<1>1. b \in BridgeState
  BY DEF BridgeInv, BridgeShape
<1>2. /\ n \in BridgeState /\ n.at = b.at /\ n.ends = b.ends /\ n.emit = b.emit /\ n.next = b.next
      /\ n.calls = b.calls /\ n.pending = b.pending /\ n.accepted = b.accepted /\ n.order = b.order
      /\ n.rejected = b.rejected /\ n.lifecycle = b.lifecycle
  BY <1>1 DEF BridgeState
<1> HIDE DEF n
<1>3. BridgeShape(s, n)
  BY <1>2 DEF BridgeInv, BridgeShape
<1>4. b.at = "reading" => Follows(s, n)
  BY <1>2 DEF BridgeInv, Follows, Waits
<1>5. \A c : /\ Waits(b, c) <=> Waits(n, c)
             /\ ServedCall(s, b, c, D) <=> ServedCall(s, n, c, D)
  BY <1>2 DEF Waits, ServedCall, InHand, Objects
<1>6. BridgeEnds(s, n, D)
  BY <1>2, <1>5 DEF BridgeInv, BridgeEnds
<1>7. BridgeInv(s, n, D)
  BY <1>2, <1>3, <1>4, <1>6 DEF BridgeInv
<1> QED BY <1>7 DEF n

\* Facts are never taken away.
LEMMA FactsOnlyGrow ==
  ASSUME NEW s \in Stream, NEW D, NEW E, D \subseteq E
  PROVE  /\ \A b : BridgeInv(s, b, D) => BridgeInv(s, b, E)
         /\ \A h : AnswerInv(s, h, D) => AnswerInv(s, h, E)
         /\ \A r : RowInv(r, D) => RowInv(r, E)
<1>1. \A c : Delivered(s, c, D) => Delivered(s, c, E)
  BY DEF Delivered
<1>2. \A b, c : ServedCall(s, b, c, D) => ServedCall(s, b, c, E)
  BY <1>1 DEF ServedCall
<1>3. \A b : BridgeEnds(s, b, D) => BridgeEnds(s, b, E)
  BY <1>2 DEF BridgeEnds
<1>4. D # {} => E # {}
  OBVIOUS
<1>5. \A b : BridgeInv(s, b, D) => BridgeInv(s, b, E)
  BY <1>3, <1>4 DEF BridgeInv
<1>6. \A h : AnswerInv(s, h, D) => AnswerInv(s, h, E)
  BY <1>1 DEF AnswerInv
<1>7. \A r : RowInv(r, D) => RowInv(r, E)
  BY <1>4 DEF RowInv
<1> QED BY <1>5, <1>6, <1>7

-----------------------------------------------------------------------------
(* The steps                                                               *)

\* A step of one stream: what its bridge and its handler become.
LEMMA StreamKeeps ==
  ASSUME StreamInv, NEW s \in Stream, NEW b, NEW h, NEW E, delivered \subseteq E,
         BridgeInv(s, b, E), AnswerInv(s, h, E), StoreInv(E), RowInv(sourceRow', E),
         bridge' = [bridge EXCEPT ![s] = b], handler' = [handler EXCEPT ![s] = h], delivered' = E
  PROVE  StreamInv'
<1>1. b \in BridgeState /\ h \in HandlerState
  BY DEF BridgeInv, BridgeShape, AnswerInv
<1>2. handler' \in [Stream -> HandlerState] /\ bridge' \in [Stream -> BridgeState]
  BY <1>1 DEF StreamInv
<1>3. ASSUME NEW q \in Stream
      PROVE  BridgeInv(q, bridge'[q], E) /\ AnswerInv(q, handler'[q], E)
  <2>1. CASE q = s
    <3>1. bridge'[q] = b /\ handler'[q] = h
      BY <2>1 DEF StreamInv
    <3> QED BY <2>1, <3>1
  <2>2. CASE q # s
    <3>1. bridge'[q] = bridge[q] /\ handler'[q] = handler[q]
      BY <2>2 DEF StreamInv
    <3>2. BridgeInv(q, bridge[q], delivered) /\ AnswerInv(q, handler[q], delivered)
      BY DEF StreamInv
    <3> QED BY <3>1, <3>2, FactsOnlyGrow
  <2> QED BY <2>1, <2>2
<1> QED BY <1>2, <1>3 DEF StreamInv

\* A step of a bridge alone.
LEMMA ChangeKeeps ==
  ASSUME StreamInv, NEW s \in Stream, NEW b, BridgeInv(s, b, delivered),
         bridge' = [bridge EXCEPT ![s] = b], UNCHANGED <<handler, delivered, sourceRow>>
  PROVE  StreamInv'
<1> PICK E : E = delivered
  OBVIOUS
<1> PICK h : h = handler[s]
  OBVIOUS
<1>1. handler' = [handler EXCEPT ![s] = h] /\ delivered' = E /\ delivered \subseteq E
  BY DEF StreamInv
<1>2. BridgeInv(s, b, E) /\ AnswerInv(s, h, E) /\ StoreInv(E) /\ RowInv(sourceRow', E)
  BY DEF StreamInv
<1> QED BY <1>1, <1>2, StreamKeeps

LEMMA StreamInitInv == StreamInit => StreamInv
<1> SUFFICES ASSUME StreamInit PROVE StreamInv
  OBVIOUS
<1>1. [at |-> "waiting", answer |-> NoAnswerYet] \in HandlerState
  BY DEF HandlerState, AnswerState, NoAnswerYet
<1> PICK h : h = [at |-> "waiting", answer |-> NoAnswerYet]
  OBVIOUS
<1>2. h \in HandlerState /\ h.answer.status # 200
  BY <1>1 DEF NoAnswerYet
<1>3. \A s \in Stream : handler[s] = h /\ bridge[s] = NewBridge
  BY DEF StreamInit
<1>4. \A s \in Stream : AnswerInv(s, h, {}) /\ BridgeInv(s, NewBridge, {})
  BY <1>2, FreshBridge DEF AnswerInv
<1>5. \A s \in Stream : NewBridge \in BridgeState
  BY <1>4 DEF BridgeInv, BridgeShape
<1>6. handler \in [Stream -> HandlerState] /\ bridge \in [Stream -> BridgeState]
  BY <1>1, <1>5 DEF StreamInit
<1>7. RowInv(sourceRow, {}) /\ StoreInv({})
  BY DEF StreamInit, RowInv, RowState, StoreInv
<1> QED BY <1>3, <1>4, <1>6, <1>7 DEF StreamInit, StreamInv

LEMMA ConnectStep == ASSUME StreamInv, NEW s \in Stream, Connect(s) PROVE StreamInv'
<1> PICK b : b = [NewBridge EXCEPT !.at = "reading", !.lifecycle = "connected"]
  OBVIOUS
<1> PICK h : h = [at |-> "serving", answer |-> NoAnswerYet]
  OBVIOUS
<1> PICK E : E = delivered
  OBVIOUS
<1>1. BridgeInv(s, b, E)
  BY ConnectKeeps
<1>2. h \in HandlerState /\ h.answer.status # 200
  BY DEF HandlerState, AnswerState, NoAnswerYet
<1>3. AnswerInv(s, h, E)
  BY <1>2 DEF AnswerInv
<1>4. /\ bridge' = [bridge EXCEPT ![s] = b] /\ handler' = [handler EXCEPT ![s] = h]
      /\ delivered' = E /\ sourceRow' = sourceRow
  BY DEF Connect
<1>5. StoreInv(E) /\ RowInv(sourceRow', E)
  BY <1>4 DEF StreamInv
<1> QED BY <1>1, <1>3, <1>4, <1>5, StreamKeeps

LEMMA ReadFrameStep == ASSUME StreamInv, NEW s \in Stream, ReadFrame(s) PROVE StreamInv'
<1> PICK b : b = bridge[s]
  OBVIOUS
<1> PICK f : f = Frames[s][b.next]
  OBVIOUS
<1>1. /\ BridgeInv(s, b, delivered) /\ b \in BridgeState /\ b.at = "reading" /\ b.emit = <<>> /\ b.ends = "none"
      /\ b.next \in DOMAIN Frames[s]
  BY DEF StreamInv, ReadFrame, AwaitsFrame
<1> DEFINE n == IF b.context # "live" THEN [b EXCEPT !.ends = "cancelled", !.lifecycle = "degraded"]
                ELSE IF b.next > MaxFrames
                THEN [b EXCEPT !.ends = "stream", !.emit = <<Reject("frame_limit_exceeded")>>]
                ELSE [b EXCEPT !.next = b.next + 1, !.emit = FrameRecords(b, f), !.pending = PendingAfter(b, f),
                               !.calls = Observe(b.calls, f), !.order = OrderAfter(b, f)]
<1>2. bridge' = [bridge EXCEPT ![s] = n] /\ UNCHANGED <<handler, delivered, sourceRow>>
  BY DEF ReadFrame, Change
<1>3. CASE b.context # "live"
  <2> PICK m : m = [b EXCEPT !.ends = "cancelled", !.emit = <<>>, !.lifecycle = "degraded"]
    OBVIOUS
  <2>1. BridgeInv(s, m, delivered)
    <3>1. <<>> \in Seq(Honest(s)) /\ "cancelled" \in Endings \ {"none", "ok"} /\ "degraded" \in Lifecycles
      BY DEF Endings, Lifecycles
    <3> QED BY <1>1, <3>1, StopsKeeps
  <2>2. n = m
    BY <1>1, <1>3 DEF BridgeState
  <2> HIDE DEF n
  <2> QED BY <1>2, <2>1, <2>2, ChangeKeeps
<1>4. CASE b.context = "live" /\ b.next > MaxFrames
  <2> PICK emit : emit = <<Reject("frame_limit_exceeded")>>
    OBVIOUS
  <2> PICK m : m = [b EXCEPT !.ends = "stream", !.emit = emit, !.lifecycle = b.lifecycle]
    OBVIOUS
  <2>1. BridgeInv(s, m, delivered)
    <3>1. Reject("frame_limit_exceeded") \in Honest(s)
      BY PlainRecord DEF Names
    <3>2. emit \in Seq(Honest(s)) /\ "stream" \in Endings \ {"none", "ok"} /\ b.lifecycle \in Lifecycles
      BY <1>1, <3>1, OneOrTwo, BridgeFields DEF Endings
    <3> QED BY <1>1, <3>2, StopsKeeps
  <2>2. n = m
    BY <1>1, <1>4 DEF BridgeState
  <2> HIDE DEF n
  <2> QED BY <1>2, <2>1, <2>2, ChangeKeeps
<1>5. CASE b.context = "live" /\ ~(b.next > MaxFrames)
  <2> PICK m : m = [b EXCEPT !.next = b.next + 1, !.emit = FrameRecords(b, f), !.pending = PendingAfter(b, f),
                             !.calls = Observe(b.calls, f), !.order = OrderAfter(b, f)]
    OBVIOUS
  <2>1. BridgeInv(s, m, delivered)
    BY <1>1, ReadKeeps
  <2>2. n = m
    BY <1>5
  <2> HIDE DEF n
  <2> QED BY <1>2, <2>1, <2>2, ChangeKeeps
<1> QED BY <1>3, <1>4, <1>5

LEMMA EndStep == ASSUME StreamInv, NEW s \in Stream, EndOfStream(s) PROVE StreamInv'
<1> PICK b : b = bridge[s]
  OBVIOUS
<1>1. BridgeInv(s, b, delivered) /\ b.at = "reading" /\ b.ends = "none" /\ b.next \notin DOMAIN Frames[s]
  BY DEF StreamInv, EndOfStream, AwaitsFrame
<1> PICK n : n = [b EXCEPT !.ends = "ok"]
  OBVIOUS
<1>2. BridgeInv(s, n, delivered)
  BY <1>1, EndKeeps
<1>3. bridge' = [bridge EXCEPT ![s] = n] /\ UNCHANGED <<handler, delivered, sourceRow>>
  BY DEF EndOfStream, Change
<1> QED BY <1>2, <1>3, ChangeKeeps

LEMMA ReconcileStep == ASSUME StreamInv, NEW s \in Stream, ReconcileCall(s) PROVE StreamInv'
<1> PICK b : b = bridge[s]
  OBVIOUS
<1>1. /\ BridgeInv(s, b, delivered) /\ b.at = "reading" /\ b.ends = "ok" /\ b.emit = <<>> /\ b.order # <<>>
  BY DEF StreamInv, ReconcileCall
<1> PICK c0 : c0 = Head(b.order)
  OBVIOUS
<1> PICK n : n = [b EXCEPT !.emit = Reconcile(c0, b.calls), !.order = Tail(b.order)]
  OBVIOUS
<1>2. BridgeInv(s, n, delivered)
  BY <1>1, ReconcileKeeps
<1>3. bridge' = [bridge EXCEPT ![s] = n] /\ UNCHANGED <<handler, delivered, sourceRow>>
  BY DEF ReconcileCall, Change
<1> QED BY <1>2, <1>3, ChangeKeeps

LEMMA BreakStep == ASSUME StreamInv, NEW s \in Stream, StreamBreaks(s) PROVE StreamInv'
<1> PICK b : b = bridge[s]
  OBVIOUS
<1>1. BridgeInv(s, b, delivered) /\ b \in BridgeState /\ b.at = "reading"
  BY DEF StreamInv, StreamBreaks, AwaitsFrame
<1> PICK emit : emit = <<Reject("frame_too_large_or_stream_error")>>
  OBVIOUS
<1> PICK m : m = [b EXCEPT !.ends = "stream", !.emit = emit, !.lifecycle = b.lifecycle]
  OBVIOUS
<1>2. BridgeInv(s, m, delivered)
  <2>1. Reject("frame_too_large_or_stream_error") \in Honest(s)
    BY PlainRecord DEF Names
  <2>2. emit \in Seq(Honest(s)) /\ "stream" \in Endings \ {"none", "ok"} /\ b.lifecycle \in Lifecycles
    BY <1>1, <2>1, OneOrTwo, BridgeFields DEF Endings
  <2> QED BY <1>1, <2>2, StopsKeeps
<1>3. m = [b EXCEPT !.ends = "stream", !.emit = emit]
  BY <1>1 DEF BridgeState
<1>4. bridge' = [bridge EXCEPT ![s] = m] /\ UNCHANGED <<handler, delivered, sourceRow>>
  BY <1>3 DEF StreamBreaks, Change
<1> QED BY <1>2, <1>4, ChangeKeeps

LEMMA SinkFailsStep == ASSUME StreamInv, NEW s \in Stream, SinkFails(s) PROVE StreamInv'
<1> PICK b : b = bridge[s]
  OBVIOUS
<1>1. BridgeInv(s, b, delivered) /\ b \in BridgeState /\ b.at = "reading"
  BY DEF StreamInv, SinkFails
<1>2. PICK why \in {"busy", "invalid"} :
        Change(s, [b EXCEPT !.emit = <<>>, !.ends = IF b.ends = "stream" THEN b.ends ELSE why,
                            !.lifecycle = IF Head(b.emit).kind = "fact" THEN "degraded" ELSE b.lifecycle])
  BY DEF SinkFails
<1> PICK ends : ends = IF b.ends = "stream" THEN b.ends ELSE why
  OBVIOUS
<1> PICK stage : stage = IF Head(b.emit).kind = "fact" THEN "degraded" ELSE b.lifecycle
  OBVIOUS
<1> PICK m : m = [b EXCEPT !.ends = ends, !.emit = <<>>, !.lifecycle = stage]
  OBVIOUS
<1>3. BridgeInv(s, m, delivered)
  <2>1. <<>> \in Seq(Honest(s)) /\ ends \in Endings \ {"none", "ok"} /\ stage \in Lifecycles
    BY <1>1, BridgeFields DEF Endings, Lifecycles
  <2> QED BY <1>1, <2>1, StopsKeeps
<1>4. m = [b EXCEPT !.emit = <<>>, !.ends = ends, !.lifecycle = stage]
  BY <1>1 DEF BridgeState
<1>5. bridge' = [bridge EXCEPT ![s] = m] /\ UNCHANGED <<handler, delivered, sourceRow>>
  BY <1>2, <1>4 DEF Change
<1> QED BY <1>3, <1>5, ChangeKeeps

LEMMA StoreStep == ASSUME StreamInv, NEW s \in Stream, Store(s) PROVE StreamInv'
<1> PICK b : b = bridge[s]
  OBVIOUS
<1>1. BridgeInv(s, b, delivered) /\ b \in BridgeState /\ b.at = "reading" /\ b.emit # <<>>
  BY DEF StreamInv, Store
<1> PICK e : e = Head(b.emit)
  OBVIOUS
<1>2. e \in Honest(s) /\ Tail(b.emit) \in Seq(Record)
  <2> PICK S : S = Honest(s)
    OBVIOUS
  <2>1. b.emit \in Seq(S) /\ b.emit \in Seq(Record)
    BY <1>1, BridgeFields DEF BridgeInv, BridgeShape
  <2>2. e \in S
    BY <1>1, <2>1, HeadOrTail
  <2>3. Tail(b.emit) \in Seq(Record)
    BY <1>1, <2>1, HeadOrTail
  <2> QED BY <2>2, <2>3
<1>3. b.accepted \in Nat /\ b.rejected \in Nat
  BY <1>1, BridgeFields
<1> PICK h : h = handler[s]
  OBVIOUS
<1> PICK D : D = delivered
  OBVIOUS
<1>4. AnswerInv(s, h, D) /\ StoreInv(D) /\ handler' = [handler EXCEPT ![s] = h] /\ sourceRow' = sourceRow /\ RowInv(sourceRow, D)
  BY DEF StreamInv, Store
<1>5. CASE e.kind = "fact"
  <2> DEFINE t == [id |-> <<s, e.id>>, outcome |-> e.outcome]
  <2> PICK E : E = IF \E u \in D : u.id = <<s, e.id>> THEN D ELSE D \cup {t}
    OBVIOUS
  <2> PICK k, l : k = b.accepted + 1 /\ l = "producing"
    OBVIOUS
  <2> PICK n : n = WithFact(b, k, l)
    OBVIOUS
  <2>1. delivered' = E
    BY <1>5 DEF Store
  <2>2. bridge' = [bridge EXCEPT ![s] = n]
    BY <1>5 DEF Store, WithFact
  <2>3. t.id = <<s, e.id>> /\ t.outcome = e.outcome /\ t.id[1] = s /\ t.id[2] = e.id
    OBVIOUS
  <2>4. Earned(s, e.id, e.outcome)
    BY <1>2, <1>5 DEF Honest
  <2>5. Earned(t.id[1], t.id[2], t.outcome)
    BY <2>3, <2>4
  <2> HIDE DEF t
  <2>6. D \subseteq E /\ Delivered(s, e.id, E)
    BY <2>3 DEF Delivered
  <2>7. StoreInv(E)
    <3>1. CASE \E u \in D : u.id = <<s, e.id>>
      BY <1>4, <3>1
    <3>2. CASE ~\E u \in D : u.id = <<s, e.id>>
      <4>1. E = D \cup {t}
        BY <3>2
      <4>2. \A u, v \in E : u.id = v.id => u = v
        BY <1>4, <2>3, <3>2, <4>1 DEF StoreInv
      <4>3. \A u \in E : Earned(u.id[1], u.id[2], u.outcome)
        BY <1>4, <2>5, <4>1 DEF StoreInv
      <4> QED BY <4>2, <4>3 DEF StoreInv
    <3> QED BY <3>1, <3>2
  <2>8. TakenFrom(n, b) /\ n.rejected = b.rejected
    <3>1. k \in Nat /\ l \in Lifecycles
      BY <1>3 DEF Lifecycles
    <3>2. /\ TakenFrom(WithFact(b, k, l), b)
          /\ WithFact(b, k, l).rejected = b.rejected
      BY <1>1, <1>2, <3>1, Taken
    <3> QED BY <3>2
  <2>9. BridgeInv(s, n, E)
    <3>1. D \subseteq E /\ BridgeInv(s, b, D)
      BY <1>1, <2>6
    <3> QED BY <1>1, <1>5, <2>6, <2>8, <3>1, StoreKeeps
  <2>10. AnswerInv(s, h, E) /\ RowInv(sourceRow', E)
    BY <1>4, <2>6, FactsOnlyGrow
  <2>11. delivered \subseteq E
    BY <2>6
  <2> QED BY <1>4, <2>1, <2>2, <2>7, <2>9, <2>10, <2>11, StreamKeeps
<1>6. CASE e.kind # "fact"
  <2> PICK k, l : k = b.rejected + 1 /\ l = "degraded"
    OBVIOUS
  <2> PICK n : n = WithRejection(b, k, l)
    OBVIOUS
  <2>1. bridge' = [bridge EXCEPT ![s] = n] /\ UNCHANGED <<handler, delivered, sourceRow>>
    BY <1>6 DEF Store, WithRejection
  <2>2. TakenFrom(n, b) /\ n.rejected = b.rejected + 1 /\ n.accepted = b.accepted
    <3>1. k \in Nat /\ l \in Lifecycles
      BY <1>3 DEF Lifecycles
    <3>2. /\ TakenFrom(WithRejection(b, k, l), b)
          /\ WithRejection(b, k, l).rejected = k
          /\ WithRejection(b, k, l).accepted = b.accepted
      BY <1>1, <1>2, <3>1, Refused
    <3> QED BY <3>2
  <2>3. BridgeInv(s, n, D)
    <3>1. BridgeInv(s, b, D) /\ D \subseteq D
      BY <1>1
    <3>2. e.kind # "fact" /\ n.rejected = b.rejected + 1 /\ n.accepted = b.accepted /\ TakenFrom(n, b)
      BY <1>6, <2>2
    <3> QED BY <1>1, <3>1, <3>2, StoreKeeps
  <2> QED BY <2>1, <2>3, ChangeKeeps
<1> QED BY <1>5, <1>6

LEMMA ReturnStep == ASSUME StreamInv, NEW s \in Stream, ConnectReturns(s) PROVE StreamInv'
<1> PICK b : b = bridge[s]
  OBVIOUS
<1>1. /\ BridgeInv(s, b, delivered) /\ b.emit = <<>> /\ b.ends # "none" /\ (b.ends = "ok" => b.order = <<>>)
  BY DEF StreamInv, ConnectReturns
<1> PICK stage : stage = IF b.ends = "ok" /\ b.rejected = 0 THEN "reconciled" ELSE b.lifecycle
  OBVIOUS
<1> PICK m : m = [NewBridge EXCEPT !.at = "done", !.ends = b.ends, !.context = b.context,
                    !.accepted = b.accepted, !.rejected = b.rejected, !.lifecycle = stage]
  OBVIOUS
<1>2. BridgeInv(s, m, delivered) /\ BridgeInv(s, NewBridge, delivered)
  BY <1>1, ReturnKeeps, FreshBridge
<1> PICK n : n = IF handler[s].at = "answered" THEN NewBridge ELSE m
  OBVIOUS
<1>3. bridge' = [bridge EXCEPT ![s] = n] /\ UNCHANGED <<handler, delivered, sourceRow>>
  BY DEF ConnectReturns, Change
<1>4. BridgeInv(s, n, delivered)
  BY <1>2
<1> QED BY <1>3, <1>4, ChangeKeeps

LEMMA ContextStep ==
  ASSUME StreamInv, NEW s \in Stream, NEW how \in {"deadline", "gone"}, ContextEnds(s, how)
  PROVE  StreamInv'
<1> PICK b : b = bridge[s]
  OBVIOUS
<1> PICK n : n = [b EXCEPT !.context = how]
  OBVIOUS
<1>1. BridgeInv(s, n, delivered)
  BY ContextKeeps DEF StreamInv
<1>2. bridge' = [bridge EXCEPT ![s] = n] /\ UNCHANGED <<handler, delivered, sourceRow>>
  BY DEF ContextEnds
<1> QED BY <1>1, <1>2, ChangeKeeps

LEMMA SaysAnswered ==
  ASSUME NEW g \in HandlerState, NEW a \in AnswerState
  PROVE  /\ [g EXCEPT !.at = "answered", !.answer = a] \in HandlerState
         /\ [g EXCEPT !.at = "answered", !.answer = a].answer = a
BY DEF HandlerState

WithError(g, status) == [g EXCEPT !.at = "answered", !.answer = [g.answer EXCEPT !.status = status]]

LEMMA AnsweredError ==
  ASSUME NEW g \in HandlerState, NEW status \in {408, 422, 503}
  PROVE  /\ WithError(g, status) \in HandlerState
         /\ WithError(g, status).answer.status # 200
<1> PICK a : a = [g.answer EXCEPT !.status = status]
  OBVIOUS
<1>1. g.answer \in AnswerState
  BY DEF HandlerState
<1>2. a \in AnswerState /\ a.status = status
  BY <1>1 DEF AnswerState
<1>3. /\ [g EXCEPT !.at = "answered", !.answer = a] \in HandlerState
      /\ [g EXCEPT !.at = "answered", !.answer = a].answer = a
  BY <1>2, SaysAnswered
<1>4. WithError(g, status) = [g EXCEPT !.at = "answered", !.answer = a]
  BY DEF WithError
<1>5. WithError(g, status) \in HandlerState /\ WithError(g, status).answer = a
  BY <1>3, <1>4
<1>6. status # 200
  OBVIOUS
<1> QED BY <1>2, <1>5, <1>6

Answers(s, status) == handler' = [handler EXCEPT ![s].at = "answered", ![s].answer.status = status]
Becomes(s, h) == handler' = [handler EXCEPT ![s] = h]

LEMMA AnswersOne ==
  ASSUME StreamInv, NEW s \in Stream, NEW status, Answers(s, status)
  PROVE  Becomes(s, WithError(handler[s], status))
BY DEF StreamInv, WithError, Answers, Becomes

\* What ServeHTTP makes of an error or of what the bridge returned: an answer that
\* is true, and a row that follows it.
LEMMA AnswerErrorKeeps ==
  ASSUME StreamInv, NEW s \in Stream, NEW why, AnswerError(s, why), NEW b, BridgeInv(s, b, delivered),
         bridge' = [bridge EXCEPT ![s] = b]
  PROVE  StreamInv'
<1> PICK status : status = StatusOf(why)
  OBVIOUS
<1> PICK g : g = handler[s]
  OBVIOUS
<1> PICK h : h = WithError(g, status)
  OBVIOUS
<1>1. g \in HandlerState
  BY DEF StreamInv
<1>2. status \in {408, 422, 503}
  BY DEF StatusOf
<1>3. h \in HandlerState /\ h.answer.status # 200
  <2>1. /\ WithError(g, status) \in HandlerState
        /\ WithError(g, status).answer.status # 200
    BY <1>1, <1>2, AnsweredError
  <2> QED BY <2>1
<1>4. AnswerInv(s, h, delivered)
  BY <1>3 DEF AnswerInv
<1>5. handler' = [handler EXCEPT ![s] = h] /\ delivered' = delivered
  BY <1>1 DEF AnswerError, StreamInv, WithError
<1>6. RowInv(sourceRow', delivered)
  <2>1. CASE UNCHANGED sourceRow
    BY <2>1 DEF StreamInv
  <2>2. CASE Persist("degraded", IF bridge[s].accepted > 0 THEN "observed" ELSE "unknown")
    <3> PICK value \in {"observed", "unknown"} : value = IF bridge[s].accepted > 0 THEN "observed" ELSE "unknown"
      OBVIOUS
    <3>1. sourceRow \in RowState /\ (sourceRow.succeeded => delivered # {})
      BY DEF StreamInv, RowInv
    <3>2. sourceRow.succeeded \in BOOLEAN
      BY <3>1 DEF RowState
    <3>3. sourceRow' = [state |-> "degraded", value |-> value,
                        succeeded |-> sourceRow.succeeded \/ "degraded" = "producing"]
      BY <2>2 DEF Persist
    <3>4. (sourceRow.succeeded \/ "degraded" = "producing") = sourceRow.succeeded
      BY <3>2
    <3>5. sourceRow' = [state |-> "degraded", value |-> value, succeeded |-> sourceRow.succeeded]
      BY <3>3, <3>4
    <3>6. sourceRow'.state = "degraded" /\ sourceRow'.succeeded = sourceRow.succeeded
      BY <3>5
    <3>7. sourceRow' \in RowState
      BY <3>2, <3>5 DEF RowState
    <3> QED BY <3>1, <3>6, <3>7 DEF RowInv
  <2> QED BY <2>1, <2>2 DEF AnswerError
<1>7. StoreInv(delivered)
  BY DEF StreamInv
<1> PICK E : E = delivered
  OBVIOUS
<1> QED BY <1>4, <1>5, <1>6, <1>7, StreamKeeps

LEMMA AnswerOkKeeps ==
  ASSUME StreamInv, NEW s \in Stream, bridge[s].at = "done", bridge[s].ends = "ok", AnswerOk(s),
         bridge' = [bridge EXCEPT ![s] = NewBridge]
  PROVE  StreamInv'
<1> PICK b : b = bridge[s]
  OBVIOUS
<1>1. /\ BridgeInv(s, b, delivered) /\ b \in BridgeState /\ b.at = "done" /\ b.ends = "ok"
      /\ handler[s] \in HandlerState /\ StoreInv(delivered)
  BY DEF StreamInv
<1>2. /\ b.emit = <<>> /\ b.order = <<>> /\ (b.rejected = 0 => b.lifecycle = "reconciled")
      /\ \A c \in CallsOf(s) : Waits(b, c) \/ ServedCall(s, b, c, delivered)
      /\ b.accepted > 0 => delivered # {}
      /\ b.rejected \in Nat /\ b.accepted \in Nat /\ b.lifecycle \in Lifecycles
  BY <1>1, BridgeFields DEF BridgeInv, BridgeEnds
<1>3. BridgeInv(s, NewBridge, delivered) /\ delivered' = delivered
  BY FreshBridge DEF AnswerOk
<1>4. CASE /\ Persist(StateOf(b), ValueOf(b))
           /\ handler' = [handler EXCEPT ![s].at = "answered", ![s].answer =
                [status |-> 200, rejected |-> b.rejected, lifecycle |-> b.lifecycle]]
  <2> PICK answer : answer = [status |-> 200, rejected |-> b.rejected, lifecycle |-> b.lifecycle]
    OBVIOUS
  <2> PICK h : h = [handler[s] EXCEPT !.at = "answered", !.answer = answer]
    OBVIOUS
  <2>1. answer \in AnswerState
    BY <1>2 DEF AnswerState
  <2>2. h \in HandlerState /\ h.answer = answer
    BY <1>1, <2>1, SaysAnswered
  <2>3. handler' = [handler EXCEPT ![s] = h]
    BY <1>1, <1>4 DEF StreamInv
  <2>4. ASSUME b.rejected = 0, NEW c \in CallsOf(s)
        PROVE  Cardinality(Terminals(s, c)) = 1 /\ Delivered(s, c, delivered)
    <3>1. ~Waits(b, c) /\ ~InHand(b, c) /\ ~Objects(b)
      BY <1>2, <2>4 DEF Waits, InHand, Objects
    <3> QED BY <1>2, <3>1 DEF ServedCall
  <2>5. AnswerInv(s, h, delivered)
    BY <1>2, <2>2, <2>4 DEF AnswerInv
  <2>6. RowInv(sourceRow', delivered)
    <3>1. /\ StateOf(b) \in {"configured", "producing", "degraded"} /\ ValueOf(b) \in {"not_observed", "unknown", "observed"}
          /\ StateOf(b) = "producing" => b.accepted > 0 /\ ValueOf(b) = "observed"
      <4>1. StateOf(b) \in {"configured", "producing", "degraded"}
        BY DEF StateOf
      <4>2. ValueOf(b) \in {"not_observed", "unknown", "observed"}
        BY DEF ValueOf
      <4>3. StateOf(b) = "producing" => b.accepted > 0
        BY DEF StateOf
      <4>4. b.accepted > 0 => ValueOf(b) = "observed"
        BY DEF ValueOf
      <4> QED BY <4>1, <4>2, <4>3, <4>4
    <3>2. sourceRow \in RowState /\ (sourceRow.succeeded => delivered # {})
      BY DEF StreamInv, RowInv
    <3>3. sourceRow.succeeded \in BOOLEAN
      BY <3>2 DEF RowState
    <3> PICK state, value : state = StateOf(b) /\ value = ValueOf(b)
      OBVIOUS
    <3> PICK succeeded \in BOOLEAN : succeeded <=> (sourceRow.succeeded \/ state = "producing")
      OBVIOUS
    <3>4. sourceRow' = [state |-> state, value |-> value, succeeded |-> succeeded]
      <4>1. (sourceRow.succeeded \/ state = "producing") = succeeded
        BY <3>3
      <4> QED BY <1>4, <4>1 DEF Persist
    <3>5. sourceRow'.state = state /\ sourceRow'.value = value /\ sourceRow'.succeeded = succeeded /\ sourceRow' \in RowState
      BY <3>1, <3>4 DEF RowState
    <3>6. state = "producing" => succeeded /\ value = "observed"
      BY <3>1
    <3>7. succeeded => delivered # {}
      BY <1>2, <3>1, <3>2
    <3> QED BY <3>5, <3>6, <3>7 DEF RowInv
  <2> PICK E : E = delivered
    OBVIOUS
  <2> QED BY <1>1, <1>3, <2>3, <2>5, <2>6, StreamKeeps
<1>5. CASE /\ handler' = [handler EXCEPT ![s].at = "answered", ![s].answer.status = 503]
           /\ UNCHANGED sourceRow
  <2> PICK g, status : g = handler[s] /\ status = 503
    OBVIOUS
  <2> PICK h : h = WithError(g, status)
    OBVIOUS
  <2>1. h \in HandlerState /\ h.answer.status # 200
    <3>1. g \in HandlerState /\ status \in {408, 422, 503}
      BY <1>1
    <3>2. /\ WithError(g, status) \in HandlerState
          /\ WithError(g, status).answer.status # 200
      BY <3>1, AnsweredError
    <3> QED BY <3>2
  <2>2. handler' = [handler EXCEPT ![s] = h]
    <3>1. Answers(s, status)
      BY <1>5 DEF Answers
    <3>2. Becomes(s, WithError(handler[s], status))
      BY <3>1, AnswersOne
    <3> QED BY <3>2 DEF Becomes
  <2>3. AnswerInv(s, h, delivered)
    BY <2>1 DEF AnswerInv
  <2>4. RowInv(sourceRow', delivered)
    BY <1>5 DEF StreamInv
  <2> PICK E : E = delivered
    OBVIOUS
  <2> QED BY <1>1, <1>3, <2>2, <2>3, <2>4, StreamKeeps
<1> QED BY <1>4, <1>5 DEF AnswerOk

LEMMA ResultStep == ASSUME StreamInv, NEW s \in Stream, AnswerResult(s) PROVE StreamInv'
<1>1. bridge[s].at = "done" /\ bridge' = [bridge EXCEPT ![s] = NewBridge]
  BY DEF AnswerResult
<1>2. CASE bridge[s].ends = "ok"
  BY <1>1, <1>2, AnswerOkKeeps DEF AnswerResult
<1>3. CASE bridge[s].ends # "ok"
  <2> PICK why : why = IF bridge[s].ends = "cancelled" THEN bridge[s].context ELSE bridge[s].ends
    OBVIOUS
  <2>1. AnswerError(s, why)
    BY <1>3 DEF AnswerResult
  <2>2. BridgeInv(s, NewBridge, delivered)
    BY FreshBridge
  <2> QED BY <1>1, <2>1, <2>2, AnswerErrorKeeps
<1> QED BY <1>2, <1>3

LEMMA AnswerContextStep == ASSUME StreamInv, NEW s \in Stream, AnswerContext(s) PROVE StreamInv'
<1> PICK b : b = IF bridge[s].at = "done" THEN NewBridge ELSE bridge[s]
  OBVIOUS
<1>1. BridgeInv(s, b, delivered)
  BY FreshBridge DEF StreamInv
<1>2. bridge' = [bridge EXCEPT ![s] = b]
  BY DEF AnswerContext
<1> PICK why : why = bridge[s].context
  OBVIOUS
<1>3. AnswerError(s, why)
  BY DEF AnswerContext
<1> QED BY <1>1, <1>2, <1>3, AnswerErrorKeeps

LEMMA StreamInvStep == StreamInv /\ [StreamNext]_streamVars => StreamInv'
<1> SUFFICES ASSUME StreamInv, [StreamNext]_streamVars PROVE StreamInv'
  OBVIOUS
<1>1. CASE StreamNext
  BY <1>1, ConnectStep, ReadFrameStep, EndStep, ReconcileStep, BreakStep, StoreStep, SinkFailsStep, ReturnStep,
     ResultStep, AnswerContextStep, ContextStep DEF StreamNext
<1>2. CASE UNCHANGED streamVars
  <2>1. UNCHANGED <<handler, bridge, delivered, sourceRow>>
    BY <1>2 DEF streamVars
  <2> QED BY <2>1 DEF StreamInv
<1> QED BY <1>1, <1>2

LEMMA StreamTypes == StreamInv => StreamTypeOK
<1> SUFFICES ASSUME StreamInv PROVE StreamTypeOK
  OBVIOUS
<1>1. ASSUME NEW s \in Stream
      PROVE  /\ handler[s].at \in {"waiting", "serving", "answered"}
             /\ handler[s].answer.status \in {0, 200, 408, 422, 503}
             /\ bridge[s].at \in {"idle", "reading", "done"} /\ bridge[s].lifecycle \in Lifecycles
             /\ Cardinality(bridge[s].pending) <= MaxPending
  <2>1. handler[s] \in HandlerState /\ bridge[s] \in BridgeState /\ BridgeShape(s, bridge[s])
    BY DEF StreamInv, BridgeInv
  <2> QED BY <2>1 DEF HandlerState, AnswerState, BridgeState, BridgeShape
<1>2. sourceRow \in RowState
  BY DEF StreamInv, RowInv
<1> QED BY <1>1, <1>2 DEF StreamTypeOK, RowState

LEMMA AnswersTrue == StreamInv => StreamAnswersAreTrue
<1> SUFFICES ASSUME StreamInv PROVE StreamAnswersAreTrue
  OBVIOUS
<1>1. CompleteIsComplete
  <2>1. \A s \in Stream : AnswerInv(s, handler[s], delivered)
    BY DEF StreamInv
  <2> QED BY <2>1 DEF CompleteIsComplete, AnswerInv, Delivered
<1>2. OutcomesAreEarned
  <2>1. StoreInv(delivered)
    BY DEF StreamInv
  <2> QED BY <2>1 DEF OutcomesAreEarned, StoreInv, Earned
<1>3. RowFollowsAnswers
  BY DEF StreamInv, RowInv, RowFollowsAnswers
<1> QED BY <1>1, <1>2, <1>3 DEF StreamAnswersAreTrue

LEMMA StreamInvariant == StreamSpec => []StreamInv
BY StreamInitInv, StreamInvStep, PTL DEF StreamSpec

\* A handler, its bridge and the health row of the source hold what their declarations
\* allow, and a bridge never remembers more requests than its limit.
THEOREM StreamTyped == StreamSpec => []StreamTypeOK
BY StreamInvariant, StreamTypes, PTL

\* Whatever the streams say, and however they break off, are given up and are sent
\* again: 200 without a rejection means that every call is stored and has ended in one
\* way, a stored outcome is the one the frames agree on, and the row kept the source
\* producing only when something was stored.
THEOREM StreamAnswersStayTrue == StreamSpec => []StreamAnswersAreTrue
BY StreamInvariant, AnswersTrue, PTL

HIDE StreamAssumption

-----------------------------------------------------------------------------
-----------------------------------------------------------------------------
(* Which component an observation is about.                                *)

InventorySpec == InventoryInit /\ [][InventoryNext]_inventoryVars

USE InventoryAssumption

AnswerKinds == {"exact", "unresolved", "ambiguous", "redacted"}
Resolved == [state : AnswerKinds, component : Components \cup {None}]
FitsTaken(entry) == entry = NoRow \/ (entry.snap \in taken /\ entry.at = Snapshot[entry.snap].at)

\* The rows are those of the newest scan, if it was complete and found something.
Shows(s) == \A c \in Components :
  current[c] = IF c \in Snapshot[s].nodes \ Snapshot[s].cached THEN [at |-> Snapshot[s].at, snap |-> s] ELSE NoRow
Decides(s) ==
  /\ Snapshot[s].complete /\ Snapshot[s].nodes \ Snapshot[s].cached # {}
  /\ \A other \in taken \ {s} : Snapshot[other].at < Snapshot[s].at
RowsInv ==
  /\ taken \subseteq DOMAIN Snapshot /\ DOMAIN current = Components
  /\ \A c \in Components : FitsTaken(current[c])
  /\ \A s \in taken : Decides(s) => Shows(s)

OccurrenceOf(q) == <<Quarantined[q].incident, Quarantined[q].key>>
CountsInv ==
  /\ IsFiniteSet(occurrences) /\ DOMAIN incidents = Incident
  /\ \A i \in Incident : incidents[i] = Cardinality({o \in occurrences : o[1] = i})
  /\ manifests \in [DOMAIN Quarantined -> 0 .. 1]
  /\ \A q \in DOMAIN Quarantined : manifests[q] = 1 => OccurrenceOf(q) \in occurrences

\* Only the last answer of an assertion may be exact.
Versions(h) ==
  /\ h \in Seq(Resolved)
  /\ \A i \in 1 .. Len(h) : i < Len(h) => h[i].state \in {"unresolved", "ambiguous"}
AssertionsInv ==
  /\ DOMAIN found = Uses /\ \A u \in Uses : found[u] \in Resolved \cup {None}
  /\ DOMAIN history = Uses /\ \A u \in Uses : Versions(history[u])
  /\ handed \in [Uses \cup DOMAIN Quarantined -> 0 .. MaxHandOver]
  /\ NotUnderstoodIsReported

InventoryInv == RowsInv /\ CountsInv /\ AssertionsInv

LEMMA InventoryInitInv == InventoryInit => InventoryInv
<1> SUFFICES ASSUME InventoryInit PROVE InventoryInv
  OBVIOUS
<1>1. RowsInv
  BY DEF InventoryInit, RowsInv, FitsTaken
<1>2. CountsInv
  <2>1. IsFiniteSet({}) /\ Cardinality({}) = 0
    BY FS_EmptySet
  <2>2. \A i : {o \in {} : o[1] = i} = {}
    OBVIOUS
  <2> QED BY <2>1, <2>2 DEF InventoryInit, CountsInv
<1>3. AssertionsInv
  <2>1. \A u \in Uses : history[u] = <<>> /\ found[u] = None
    BY DEF InventoryInit
  <2>2. Versions(<<>>)
    BY DEF Versions
  <2>3. handed \in [Uses \cup DOMAIN Quarantined -> 0 .. MaxHandOver]
    BY DEF InventoryInit
  <2>4. DOMAIN found = Uses /\ DOMAIN history = Uses
    BY DEF InventoryInit
  <2>5. NotUnderstoodIsReported
    BY <2>1 DEF NotUnderstoodIsReported
  <2> QED BY <2>1, <2>2, <2>3, <2>4, <2>5 DEF AssertionsInv
<1> QED BY <1>1, <1>2, <1>3 DEF InventoryInv

\* A component that is looked for is one of those there are.
LEMMA ResolutionTyped ==
  ASSUME NEW candidates \in SUBSET Components
  PROVE  /\ Resolution(candidates) \in Resolved
         /\ Resolution(candidates).state \in {"exact", "unresolved", "ambiguous"}
<1>1. CASE candidates = {}
  BY <1>1 DEF Resolution, Resolved, AnswerKinds
<1>2. CASE candidates # {} /\ Cardinality(candidates) = 1
  <2>1. (CHOOSE c \in candidates : TRUE) \in candidates
    BY <1>2
  <2>2. Resolution(candidates) = [state |-> "exact", component |-> CHOOSE c \in candidates : TRUE]
    BY <1>2 DEF Resolution
  <2> QED BY <2>1, <2>2 DEF Resolved, AnswerKinds
<1>3. CASE candidates # {} /\ Cardinality(candidates) # 1
  <2>1. Resolution(candidates) = [state |-> "ambiguous", component |-> None]
    BY <1>3 DEF Resolution
  <2> QED BY <2>1 DEF Resolved, AnswerKinds
<1> QED BY <1>1, <1>2, <1>3

-----------------------------------------------------------------------------
(* Counting occurrences.                                                   *)

LEMMA OccurCounts ==
  ASSUME CountsInv, NEW new, IsFiniteSet(new), Occur(new)
  PROVE  /\ IsFiniteSet(occurrences') /\ DOMAIN incidents' = Incident
         /\ \A i \in Incident : incidents'[i] = Cardinality({o \in occurrences' : o[1] = i})
         /\ occurrences \subseteq occurrences' /\ new \subseteq occurrences'
<1>0. occurrences' = occurrences \cup new
  BY DEF Occur
<1>1. IsFiniteSet(occurrences')
  BY <1>0, FS_Union DEF CountsInv
<1>2. ASSUME NEW i \in Incident PROVE incidents'[i] = Cardinality({o \in occurrences' : o[1] = i})
  <2> DEFINE old == {o \in occurrences : o[1] = i}  more == {o \in new \ occurrences : o[1] = i}
  <2>1. IsFiniteSet(old)
    BY FS_Subset DEF CountsInv
  <2>2. IsFiniteSet(more)
    BY FS_Subset
  <2>3. old \cap more = {} /\ {o \in occurrences' : o[1] = i} = old \cup more
    BY <1>0
  <2>4. incidents'[i] = Cardinality(old) + Cardinality(more)
    BY <1>2 DEF Occur, CountsInv
  <2>5. Cardinality(old \cup more) = Cardinality(old) + Cardinality(more) - Cardinality(old \cap more)
    <3> HIDE DEF old, more
    <3> QED BY <2>1, <2>2, FS_Union
  <2>6. Cardinality(old \cap more) = 0
    BY <2>3, FS_EmptySet
  <2>7. Cardinality(old) \in Nat /\ Cardinality(more) \in Nat
    BY <2>1, <2>2, FS_CardinalityType
  <2>8. Cardinality({o \in occurrences' : o[1] = i}) = Cardinality(old \cup more)
    BY <2>3
  <2> HIDE DEF old, more
  <2>9. PICK n, m : n = Cardinality(old) /\ m = Cardinality(more) /\ n \in Nat /\ m \in Nat
    BY <2>7
  <2>10. Cardinality(old \cup more) = n + m
    BY <2>5, <2>6, <2>9
  <2> QED BY <2>4, <2>8, <2>9, <2>10
<1>3. DOMAIN incidents' = Incident
  BY DEF Occur
<1> QED BY <1>0, <1>1, <1>2, <1>3

LEMMA CountsLeft == ASSUME CountsInv, UNCHANGED <<occurrences, incidents, manifests>> PROVE CountsInv'
BY DEF CountsInv, OccurrenceOf

\* An assertion reports less than four things.
LEMMA ReportsAreFinite == \A u, r : IsFiniteSet({<<i, u>> : i \in Reported(u, r)})
<1> TAKE u, r
<1>1. {<<i, u>> : i \in Reported(u, r)} \subseteq {<<"scope_unknown", u>>} \cup {<<r.state, u>>}
  BY DEF Reported
<1>2. IsFiniteSet({<<"scope_unknown", u>>}) /\ IsFiniteSet({<<r.state, u>>})
  BY FS_Singleton
<1>3. IsFiniteSet({<<"scope_unknown", u>>} \cup {<<r.state, u>>})
  BY <1>2, FS_Union
<1> QED BY <1>1, <1>3, FS_Subset

-----------------------------------------------------------------------------
LEMMA QuarantineStep == ASSUME InventoryInv, NEW q \in DOMAIN Quarantined, PersistQuarantine(q) PROVE InventoryInv'
<1>1. PICK o : o = OccurrenceOf(q)
  OBVIOUS
<1>2. Occur({o}) /\ manifests' = [manifests EXCEPT ![q] = IF o \in occurrences THEN manifests[q] ELSE manifests[q] + 1]
  BY <1>1 DEF PersistQuarantine, OccurrenceOf
<1>3. IsFiniteSet({o})
  BY FS_Singleton
<1>4. /\ IsFiniteSet(occurrences') /\ DOMAIN incidents' = Incident
      /\ \A i \in Incident : incidents'[i] = Cardinality({x \in occurrences' : x[1] = i})
      /\ occurrences \subseteq occurrences' /\ {o} \subseteq occurrences'
  BY <1>2, <1>3, OccurCounts DEF InventoryInv
<1>5. manifests \in [DOMAIN Quarantined -> 0 .. 1] /\ (manifests[q] = 1 => o \in occurrences)
  BY <1>1 DEF InventoryInv, CountsInv
<1>6. manifests' \in [DOMAIN Quarantined -> 0 .. 1]
  BY <1>2, <1>5
<1>7. \A x \in DOMAIN Quarantined : manifests'[x] = 1 => OccurrenceOf(x) \in occurrences'
  <2> TAKE x \in DOMAIN Quarantined
  <2>1. CASE x = q
    BY <1>1, <1>4, <2>1
  <2>2. CASE x # q
    <3>1. manifests'[x] = manifests[x]
      BY <1>2, <1>5, <2>2
    <3> QED BY <1>4, <3>1 DEF InventoryInv, CountsInv
  <2> QED BY <2>1, <2>2
<1>8. CountsInv'
  BY <1>4, <1>6, <1>7 DEF CountsInv, OccurrenceOf
<1>9. UNCHANGED <<taken, current, found, history>>
  BY DEF PersistQuarantine
<1>10. handed' \in [Uses \cup DOMAIN Quarantined -> 0 .. MaxHandOver]
  BY DEF PersistQuarantine, InventoryInv, AssertionsInv
<1>11. NotUnderstoodIsReported'
  BY <1>4, <1>9 DEF InventoryInv, AssertionsInv, NotUnderstoodIsReported
<1>12. AssertionsInv'
  BY <1>9, <1>10, <1>11 DEF InventoryInv, AssertionsInv
<1>13. RowsInv'
  BY <1>9 DEF InventoryInv, RowsInv, FitsTaken, Decides, Shows
<1> QED BY <1>8, <1>12, <1>13 DEF InventoryInv

LEMMA RowsLeft == ASSUME RowsInv, UNCHANGED <<taken, current>> PROVE RowsInv'
BY DEF RowsInv, FitsTaken, Decides, Shows

LEMMA ResolveStep == ASSUME InventoryInv, NEW u \in Uses, Resolve(u) PROVE InventoryInv'
<1>1. PICK r : /\ r = IF Use[u].name = None THEN [state |-> "redacted", component |-> None]
                      ELSE Resolution({c \in Present(current) : Named(u, c) /\ InScope(u, c)})
  OBVIOUS
<1>2. r \in Resolved
  <2>1. {c \in Present(current) : Named(u, c) /\ InScope(u, c)} \in SUBSET Components
    BY DEF Present
  <2>2. Resolution({c \in Present(current) : Named(u, c) /\ InScope(u, c)}) \in Resolved
    BY <2>1, ResolutionTyped
  <2> QED BY <1>1, <2>2 DEF Resolved, AnswerKinds
<1>3. found' = [found EXCEPT ![u] = r] /\ UNCHANGED <<taken, current, history, occurrences, incidents, manifests>>
  BY <1>1 DEF Resolve
<1>4. handed' \in [Uses \cup DOMAIN Quarantined -> 0 .. MaxHandOver]
  BY DEF Resolve, InventoryInv, AssertionsInv
<1>5. DOMAIN found' = Uses /\ \A x \in Uses : found'[x] \in Resolved \cup {None}
  BY <1>2, <1>3 DEF InventoryInv, AssertionsInv
<1>6. NotUnderstoodIsReported'
  BY <1>3 DEF InventoryInv, AssertionsInv, NotUnderstoodIsReported
<1>7. AssertionsInv'
  BY <1>3, <1>4, <1>5, <1>6 DEF InventoryInv, AssertionsInv
<1> QED BY <1>3, <1>7, RowsLeft, CountsLeft DEF InventoryInv

LEMMA LifecycleStep == ASSUME InventoryInv, NEW u \in Uses, PersistLifecycle(u) \/ LifecycleFails(u) PROVE InventoryInv'
<1>0. /\ found[u] \in Resolved /\ found' = [found EXCEPT ![u] = None]
      /\ UNCHANGED <<taken, current, manifests, handed>>
  BY DEF PersistLifecycle, LifecycleFails, InventoryInv, AssertionsInv
<1>1. DOMAIN found' = Uses /\ \A x \in Uses : found'[x] \in Resolved \cup {None}
  BY <1>0 DEF InventoryInv, AssertionsInv
<1>2. RowsInv'
  BY <1>0, RowsLeft DEF InventoryInv
<1>3. CASE UNCHANGED <<history, occurrences, incidents>>
  <2>1. NotUnderstoodIsReported'
    BY <1>3 DEF InventoryInv, AssertionsInv, NotUnderstoodIsReported
  <2>2. AssertionsInv'
    BY <1>0, <1>1, <1>3, <2>1 DEF InventoryInv, AssertionsInv
  <2> QED BY <1>0, <1>2, <1>3, <2>2, CountsLeft DEF InventoryInv
<1>4. ASSUME history[u] = <<>>, history' = [history EXCEPT ![u] = <<found[u]>>],
             Occur({<<i, u>> : i \in Reported(u, found[u])})
      PROVE  InventoryInv'
  <2>1. PICK r, new : r = found[u] /\ new = {<<i, u>> : i \in Reported(u, found[u])}
    OBVIOUS
  <2>2. /\ IsFiniteSet(occurrences') /\ DOMAIN incidents' = Incident
        /\ \A i \in Incident : incidents'[i] = Cardinality({x \in occurrences' : x[1] = i})
        /\ occurrences \subseteq occurrences' /\ new \subseteq occurrences'
    BY <1>4, <2>1, ReportsAreFinite, OccurCounts DEF InventoryInv
  <2>3. CountsInv'
    BY <1>0, <2>2 DEF InventoryInv, CountsInv, OccurrenceOf
  <2>4. DOMAIN history' = Uses /\ \A x \in Uses : history'[x] = IF x = u THEN <<r>> ELSE history[x]
    BY <1>4, <2>1 DEF InventoryInv, AssertionsInv
  <2>5. Versions(<<r>>)
    BY <1>0, <2>1 DEF Versions
  <2>6. \A x \in Uses : Versions(history'[x])
    BY <2>4, <2>5 DEF InventoryInv, AssertionsInv
  <2>7. NotUnderstoodIsReported'
    <3>1. ASSUME NEW x \in Uses, history'[x] # <<>>, NEW i \in Reported(x, history'[x][1])
          PROVE  <<i, x>> \in occurrences'
      <4>1. CASE x = u
        BY <2>1, <2>2, <2>4, <3>1, <4>1
      <4>2. CASE x # u
        BY <2>2, <2>4, <3>1, <4>2 DEF InventoryInv, AssertionsInv, NotUnderstoodIsReported
      <4> QED BY <4>1, <4>2
    <3> QED BY <3>1 DEF NotUnderstoodIsReported
  <2>8. AssertionsInv'
    BY <1>0, <1>1, <2>4, <2>6, <2>7 DEF InventoryInv, AssertionsInv
  <2> QED BY <1>2, <2>3, <2>8 DEF InventoryInv
<1>5. CASE PersistLifecycle(u) /\ history[u] = <<>>
  BY <1>4, <1>5 DEF PersistLifecycle
<1>6. CASE PersistLifecycle(u) /\ history[u] # <<>>
  BY <1>3, <1>6 DEF PersistLifecycle
<1>7. CASE LifecycleFails(u)
  BY <1>3, <1>7 DEF LifecycleFails
<1> QED BY <1>5, <1>6, <1>7

-----------------------------------------------------------------------------
(* A snapshot is stored.                                                   *)

LEMMA SnapshotRows == ASSUME RowsInv, NEW x \in DOMAIN Snapshot, PersistSnapshot(x) PROVE RowsInv'
<1>0. /\ taken' = taken \cup {x} /\ current' = Refreshed(x)
      /\ Snapshot[x].at \in Nat \ {0} /\ Snapshot[x].nodes \subseteq Components
  BY DEF PersistSnapshot, Components
<1>1. \A c \in Components : current[c] = NoRow \/ (current[c].snap \in taken /\ current[c].at = Snapshot[current[c].snap].at)
  BY DEF RowsInv, FitsTaken
<1>2. /\ ~Refreshes(x) => current' = [c \in Components |-> current[c]]
      /\ Refreshes(x) => current' = [c \in Components |->
           IF c \in Snapshot[x].nodes \ Snapshot[x].cached THEN [at |-> Snapshot[x].at, snap |-> x]
           ELSE IF Snapshot[x].complete THEN NoRow ELSE current[c]]
  BY <1>0 DEF Refreshed
<1>3. DOMAIN current' = Components /\ taken' \subseteq DOMAIN Snapshot
  BY <1>0, <1>2 DEF RowsInv
<1>4. \A c \in Components : FitsTaken(current[c])'
  <2> TAKE c \in Components
  <2>1. CASE current'[c] = current[c]
    BY <1>0, <1>1, <2>1 DEF FitsTaken
  <2>2. CASE current'[c] = NoRow \/ current'[c] = [at |-> Snapshot[x].at, snap |-> x]
    BY <1>0, <2>2 DEF FitsTaken
  <2> QED BY <1>2, <2>1, <2>2
<1>5. ASSUME NEW s \in taken', Decides(s)' PROVE Shows(s)'
  <2>0. /\ Snapshot[s].complete /\ Snapshot[s].nodes \ Snapshot[s].cached # {}
        /\ \A other \in taken' \ {s} : Snapshot[other].at < Snapshot[s].at
    BY <1>5 DEF Decides
  <2>1. CASE x = s
    <3>1. \A c \in Components : current[c].at <= Snapshot[s].at
      <4> TAKE c \in Components
      <4>1. CASE current[c] = NoRow
        BY <1>0, <2>1, <4>1 DEF NoRow
      <4>2. CASE current[c].snap \in taken /\ current[c].at = Snapshot[current[c].snap].at
        BY <1>0, <2>0, <2>1, <4>2 DEF RowsInv
      <4> QED BY <1>1, <4>1, <4>2
    <3>2. Refreshes(x)
      BY <2>1, <3>1 DEF Refreshes, NewestAt
    <3> QED BY <1>2, <2>0, <2>1, <3>2 DEF Shows
  <2>2. CASE x # s
    <3>1. s \in taken /\ Decides(s)
      BY <1>0, <2>0, <2>2 DEF Decides
    <3>2. Shows(s)
      BY <3>1 DEF RowsInv
    <3>3. PICK c \in Components : c \in Snapshot[s].nodes \ Snapshot[s].cached
      <4>1. Snapshot[s].nodes \subseteq Components
        BY <3>1 DEF RowsInv, Components
      <4> QED BY <2>0, <4>1
    <3>4. current[c].at = Snapshot[s].at
      BY <3>2, <3>3 DEF Shows
    <3>5. Snapshot[x].at < Snapshot[s].at /\ Snapshot[s].at \in Nat
      BY <1>0, <1>3, <2>0, <2>2
    <3>6. Snapshot[s].at \in NewestAt
      BY <3>4 DEF NewestAt
    <3>7. ~Refreshes(x)
      BY <1>0, <3>5, <3>6 DEF Refreshes
    <3>8. \A d \in Components : current'[d] = current[d]
      BY <1>2, <3>7
    <3> QED BY <3>2, <3>8 DEF Shows
  <2> QED BY <2>1, <2>2
<1> QED BY <1>3, <1>4, <1>5 DEF RowsInv

\* An assertion that is open gets another version or stays.
Extends(h, new) == new = h \/ (\E r \in Resolved : /\ h # <<>> /\ h[Len(h)].state \in {"unresolved", "ambiguous"}
                                                   /\ new = Append(h, r))

LEMMA ReResolvedExtends ==
  ASSUME NEW state, NEW u \in Uses, Versions(history[u]) PROVE Extends(history[u], ReResolved(state, u))
<1>1. PICK r : r = Resolution({c \in Present(state) : Named(u, c)})
  OBVIOUS
<1>2. r \in Resolved
  <2>1. {c \in Present(state) : Named(u, c)} \in SUBSET Components
    BY DEF Present
  <2> QED BY <1>1, <2>1, ResolutionTyped
<1>3. \/ ReResolved(state, u) = history[u]
      \/ /\ history[u] # <<>> /\ Latest(u).state \in {"unresolved", "ambiguous"}
         /\ ReResolved(state, u) = Append(history[u], r)
  BY <1>1 DEF ReResolved
<1> QED BY <1>2, <1>3 DEF Extends, Latest

LEMMA ExtendedVersions ==
  ASSUME NEW h, NEW new, Versions(h), Extends(h, new)
  PROVE  Versions(new) /\ (h # <<>> => new # <<>> /\ new[1] = h[1]) /\ (h = <<>> => new = <<>>)
<1>1. CASE new = h
  BY <1>1
<1>2. ASSUME NEW r \in Resolved, h # <<>>, h[Len(h)].state \in {"unresolved", "ambiguous"}, new = Append(h, r)
      PROVE  Versions(new) /\ new # <<>> /\ new[1] = h[1]
  <2>1. h \in Seq(Resolved) /\ Len(h) \in Nat \ {0}
    BY <1>2, EmptySeq DEF Versions
  <2>2. /\ new \in Seq(Resolved) /\ Len(new) = Len(h) + 1
        /\ \A i \in 1 .. Len(h) : new[i] = h[i]
    BY <1>2, <2>1
  <2>3. ASSUME NEW i \in 1 .. Len(new), i < Len(new) PROVE new[i].state \in {"unresolved", "ambiguous"}
    <3>1. i \in 1 .. Len(h) /\ new[i] = h[i]
      BY <2>1, <2>2, <2>3
    <3>2. i = Len(h) \/ i < Len(h)
      BY <2>1, <3>1
    <3> QED BY <1>2, <3>1, <3>2 DEF Versions
  <2>4. new # <<>> /\ new[1] = h[1]
    BY <2>1, <2>2
  <2> QED BY <2>2, <2>3, <2>4 DEF Versions
<1> QED BY <1>1, <1>2 DEF Extends

LEMMA SnapshotStep == ASSUME InventoryInv, NEW x \in DOMAIN Snapshot, PersistSnapshot(x) PROVE InventoryInv'
<1>1. RowsInv'
  BY SnapshotRows DEF InventoryInv
<1>2. CountsInv'
  BY CountsLeft DEF InventoryInv, PersistSnapshot
<1>3. DOMAIN history' = Uses /\ \A u \in Uses : history'[u] = ReResolved(current', u)
  BY DEF PersistSnapshot
<1>4. \A u \in Uses : Extends(history[u], history'[u])
  BY <1>3, ReResolvedExtends DEF InventoryInv, AssertionsInv
<1>5. \A u \in Uses : /\ Versions(history'[u]) /\ (history[u] # <<>> => history'[u][1] = history[u][1])
                      /\ (history[u] = <<>> => history'[u] = <<>>)
  BY <1>4, ExtendedVersions DEF InventoryInv, AssertionsInv
<1>6. UNCHANGED <<found, handed, occurrences>>
  BY DEF PersistSnapshot
<1>7. NotUnderstoodIsReported'
  <2>1. ASSUME NEW u \in Uses, history'[u] # <<>>, NEW i \in Reported(u, history'[u][1])
        PROVE  <<i, u>> \in occurrences'
    <3>1. history[u] # <<>> /\ history'[u][1] = history[u][1]
      BY <1>5, <2>1
    <3> QED BY <1>6, <2>1, <3>1 DEF InventoryInv, AssertionsInv, NotUnderstoodIsReported
  <2> QED BY <2>1 DEF NotUnderstoodIsReported
<1>8. AssertionsInv'
  BY <1>3, <1>5, <1>6, <1>7 DEF InventoryInv, AssertionsInv
<1> QED BY <1>1, <1>2, <1>8 DEF InventoryInv

LEMMA InventoryInvStep == InventoryInv /\ [InventoryNext]_inventoryVars => InventoryInv'
<1> SUFFICES ASSUME InventoryInv, [InventoryNext]_inventoryVars PROVE InventoryInv'
  OBVIOUS
<1>1. CASE InventoryNext
  BY <1>1, ResolveStep, LifecycleStep, QuarantineStep, SnapshotStep DEF InventoryNext
<1>2. CASE UNCHANGED inventoryVars
  <2>1. UNCHANGED <<taken, current, found, history, occurrences, incidents, manifests, handed>>
    BY <1>2 DEF inventoryVars
  <2>2. NotUnderstoodIsReported'
    BY <2>1 DEF InventoryInv, AssertionsInv, NotUnderstoodIsReported
  <2>3. AssertionsInv'
    BY <2>1, <2>2 DEF InventoryInv, AssertionsInv
  <2> QED BY <2>1, <2>3, RowsLeft, CountsLeft DEF InventoryInv
<1> QED BY <1>1, <1>2

LEMMA InventoryInvariant == InventorySpec => []InventoryInv
BY InventoryInitInv, InventoryInvStep, PTL DEF InventorySpec

LEMMA InventoryFacts == InventoryInv => InventoryTypeOK /\ ProjectionsAgree
<1> SUFFICES ASSUME InventoryInv PROVE InventoryTypeOK /\ ProjectionsAgree
  OBVIOUS
<1>1. InventoryTypeOK
  <2>1. \A c \in Components : current[c] = NoRow \/ current[c].snap \in taken
    BY DEF InventoryInv, RowsInv, FitsTaken
  <2>2. ASSUME NEW u \in Uses, NEW i \in DOMAIN history[u] PROVE history[u][i].component \in Components \cup {None}
    <3>1. history[u] \in Seq(Resolved)
      BY DEF InventoryInv, AssertionsInv, Versions
    <3>2. history[u][i] \in Resolved
      BY <2>2, <3>1
    <3> QED BY <3>2 DEF Resolved
  <2>3. \A u \in Uses : handed[u] \in 0 .. MaxHandOver
    BY DEF InventoryInv, AssertionsInv
  <2> QED BY <2>1, <2>2, <2>3 DEF InventoryTypeOK
<1>2. CurrentFollowsNewest
  <2> SUFFICES ASSUME NEW s \in taken, Decides(s) PROVE Present(current) = Snapshot[s].nodes \ Snapshot[s].cached
    BY DEF CurrentFollowsNewest, Decides
  <2>1. Shows(s) /\ s \in DOMAIN Snapshot
    BY DEF InventoryInv, RowsInv
  <2>2. Snapshot[s].at \in Nat \ {0} /\ Snapshot[s].nodes \subseteq Components /\ NoRow.at = 0
    BY <2>1 DEF NoRow, Components
  <2> QED BY <2>1, <2>2 DEF Shows, Present
<1>3. IncidentsCountOccurrences
  BY DEF InventoryInv, CountsInv, IncidentsCountOccurrences
<1>4. NotUnderstoodIsReported
  BY DEF InventoryInv, AssertionsInv
<1> QED BY <1>1, <1>2, <1>3, <1>4 DEF ProjectionsAgree

\* Rows come from scans that were taken in, and what was resolved is a component.
THEOREM InventoryTyped == InventorySpec => []InventoryTypeOK
BY InventoryInvariant, InventoryFacts, PTL

\* In whatever order scans are stored, stored again and raced by lookups, however often
\* the same evidence is handed over: the newest complete scan decides what is current,
\* an occurrence is counted once, and everything that was not understood is reported.
THEOREM ProjectionsStayTrue == InventorySpec => []ProjectionsAgree
BY InventoryInvariant, InventoryFacts, PTL

\* What an assertion may do in a step: be stored, or be extended while it is open.
LEMMA AssertionsGrow ==
  ASSUME InventoryInv, [InventoryNext]_inventoryVars, NEW u \in Uses
  PROVE  history[u] = <<>> \/ Extends(history[u], history'[u])
<1>1. CASE UNCHANGED history
  BY <1>1 DEF Extends
<1>2. ASSUME NEW x \in DOMAIN Snapshot, PersistSnapshot(x) PROVE Extends(history[u], history'[u])
  BY <1>2, ReResolvedExtends DEF PersistSnapshot, InventoryInv, AssertionsInv
<1>3. ASSUME NEW x \in Uses, PersistLifecycle(x) PROVE history[u] = <<>> \/ history'[u] = history[u]
  BY <1>3 DEF PersistLifecycle, InventoryInv, AssertionsInv
<1>4. CASE UNCHANGED inventoryVars
  BY <1>1, <1>4 DEF inventoryVars
<1>5. CASE \E x \in Uses : Resolve(x) \/ LifecycleFails(x)
  BY <1>1, <1>5 DEF Resolve, LifecycleFails
<1>6. CASE \E x \in DOMAIN Quarantined : PersistQuarantine(x)
  BY <1>1, <1>6 DEF PersistQuarantine
<1> QED BY <1>2, <1>3, <1>4, <1>5, <1>6 DEF InventoryNext, Extends

\* No step takes an exact answer back.
THEOREM ExactStays == InventorySpec => ExactIsFinal
<1>1. InventoryInv /\ [InventoryNext]_inventoryVars =>
        [\A u \in Uses : history[u] # <<>> /\ Latest(u).state = "exact" => history'[u] = history[u]]_inventoryVars
  <2> SUFFICES ASSUME InventoryInv, [InventoryNext]_inventoryVars, NEW u \in Uses, history[u] # <<>>, Latest(u).state = "exact"
               PROVE  history'[u] = history[u]
    OBVIOUS
  <2> QED BY AssertionsGrow DEF Extends, Latest
<1> QED BY <1>1, InventoryInvariant, PTL DEF InventorySpec, ExactIsFinal

-----------------------------------------------------------------------------
(* What the skill and plugin pages tell.                                   *)

\* Scans and events are stored between the statements of a page.
PagesVars == <<inventoryVars, observatoryVars>>
PagesNext == (InventoryNext /\ UNCHANGED observatoryVars) \/ (ObservatoryNext /\ UNCHANGED inventoryVars)
PagesSpec == InventoryInit /\ ObservatoryInit /\ [][PagesNext]_PagesVars

USE ObservatoryAssumption

CountedIn(c, w) == IF Component[c].kind = "plugin" THEN Of("loaded", ResolvedTo(c, w)) \cup ActivityOf(c, w)
                 ELSE Of("invoked", ResolvedTo(c, w))
Mine(c, w) == ResolvedTo(c, w) \cup ActivityOf(c, w)
Exact(u) == u \in Uses /\ history[u] # <<>> /\ Latest(u).state = "exact"

\* What was told has a use in its window now.
ToldInv ==
  /\ told \subseteq Components \X Windows
  /\ \A c \in Components, v \in Windows : <<c, v>> \in told => CountedIn(c, v) # {}

\* A child's activity was stored with an exact answer.
ChildInv == \A u, p : <<u, p>> \in children => Exact(u)

\* So has what the rows that were read will tell; what they count is exact, and a
\* skill's is so while its profile is read.
ReadInv(w) ==
  \A c \in DOMAIN report.rows :
    /\ report.rows[c].state = "cold" => \A v \in Windows : <<c, v>> \in told => ~Within(v, w)
    /\ report.rows[c].state \in {"used", "active"} => CountedIn(c, w) # {}
    /\ \A u \in report.rows[c].uses : Exact(u) /\ u \notin report.open
    /\ report.at \in {"rows", "profile"} /\ report.kind = "skill" => report.rows[c].uses \subseteq ResolvedTo(c, w)

\* What a profile shows belongs there.
SkillRoom ==
  report.at = "answered" /\ report.kind = "skill" /\ report.about \in DOMAIN report.rows =>
    \A u \in report.rows[report.about].uses \ report.listed :
      Cardinality(report.listed) = ProfileLimit /\ \A v \in report.listed : Use[u].at <= Use[v].at
ChildrenShown(w) ==
  report.kind = "plugin" =>
    /\ \A u \in report.listed : \E c \in Components : Component[c].plugin = report.about /\ u \in ResolvedTo(c, w)
    /\ \A p : p = report.about => report.own \subseteq Mine(p, w)

ReportFields == {"at", "kind", "about", "window", "rows", "open", "listed", "own"}
Labels == {"idle", "rows", "profile", "children", "answered"}
Serving ==
  /\ DOMAIN report = ReportFields /\ report.at \in Labels /\ DOMAIN report.rows \subseteq Components
  /\ report.at = "idle" => report = NoReport
  /\ report.at # "idle" => report.window \in Windows
  /\ report.at \in {"profile", "children"} => report.about \in DOMAIN report.rows
  /\ report.at = "children" => report.kind = "plugin"
  /\ report.at \in {"rows", "profile"} => report.listed = {}
  /\ report.at \in {"rows", "profile", "children"} => report.own = {}
PagesInv ==
  /\ InventoryInv /\ ChildInv /\ Serving /\ ToldInv /\ SkillRoom
  /\ \A w : w = report.window => ReadInv(w) /\ ChildrenShown(w)

LEMMA NothingServed ==
  ASSUME report = NoReport PROVE Serving /\ SkillRoom /\ \A w : ReadInv(w) /\ ChildrenShown(w)
<1>1. /\ DOMAIN report = ReportFields /\ report.at = "idle" /\ DOMAIN report.rows = {}
      /\ report.listed = {} /\ report.own = {}
  BY DEF NoReport, ReportFields
<1>2. Serving /\ SkillRoom
  BY <1>1 DEF Serving, Labels, SkillRoom
<1>3. \A w : ReadInv(w) /\ ChildrenShown(w)
  BY <1>1 DEF ReadInv, ChildrenShown
<1> QED BY <1>2, <1>3

LEMMA PagesInitInv == InventoryInit /\ ObservatoryInit => PagesInv
<1> SUFFICES ASSUME InventoryInit, ObservatoryInit PROVE PagesInv
  OBVIOUS
<1>1. InventoryInv
  BY InventoryInitInv
<1>2. report = NoReport /\ ToldInv /\ ChildInv
  BY DEF InventoryInit, ObservatoryInit, ToldInv, ChildInv
<1> QED BY <1>1, <1>2, NothingServed DEF PagesInv

\* The store only adds to what pages count.
Grown(c, w) == /\ ResolvedTo(c, w) \subseteq ResolvedTo(c, w)' /\ ActivityOf(c, w) \subseteq ActivityOf(c, w)'
               /\ CountedIn(c, w) \subseteq CountedIn(c, w)' /\ Mine(c, w) \subseteq Mine(c, w)'
Grows == (\A u : Exact(u) => Exact(u)') /\ \A c, w : Grown(c, w)

LEMMA StoreGrows ==
  ASSUME InventoryInv, [InventoryNext]_inventoryVars
  PROVE  Grows
<1>1. ASSUME NEW u \in Uses, history[u] # <<>>
      PROVE  /\ history'[u] # <<>> /\ history'[u][1] = history[u][1]
             /\ Latest(u).state = "exact" => history'[u] = history[u]
  <2>1. Extends(history[u], history'[u])
    BY <1>1, AssertionsGrow
  <2>2. Versions(history[u])
    BY DEF InventoryInv, AssertionsInv
  <2>3. history'[u] # <<>> /\ history'[u][1] = history[u][1]
    BY <1>1, <2>1, <2>2, ExtendedVersions
  <2> QED BY <2>1, <2>3 DEF Extends, Latest
<1>2. ASSUME NEW c, NEW w PROVE ResolvedTo(c, w) \subseteq ResolvedTo(c, w)'
  <2>1. ASSUME NEW u \in ResolvedTo(c, w) PROVE u \in ResolvedTo(c, w)'
    <3>1. u \in During(w) /\ u \in Uses /\ history[u] # <<>> /\ Latest(u) = [state |-> "exact", component |-> c]
      BY <2>1 DEF ResolvedTo, During, Means
    <3>2. history'[u] = history[u]
      BY <1>1, <3>1
    <3>3. u \in During(w)'
      BY <3>1, <3>2 DEF During
    <3> QED BY <3>1, <3>2, <3>3 DEF ResolvedTo, Latest, Means
  <2> QED BY <2>1
<1>3. ASSUME NEW c, NEW w PROVE ActivityOf(c, w) \subseteq ActivityOf(c, w)'
  <2>1. children \subseteq children'
    BY DEF InventoryNext, Resolve, PersistLifecycle, LifecycleFails, PersistQuarantine, PersistSnapshot, inventoryVars
  <2>2. During(w) \subseteq During(w)'
    BY <1>1 DEF During
  <2> QED BY <2>1, <2>2 DEF ActivityOf
<1>4. \A c, w : Grown(c, w)
  BY <1>2, <1>3 DEF Grown, CountedIn, Mine, Of
<1>5. \A u : Exact(u) => Exact(u)'
  BY <1>1 DEF Exact, Latest
<1> QED BY <1>4, <1>5 DEF Grows

\* A request moves nothing in the store.
LEMMA StoreRests ==
  ASSUME UNCHANGED inventoryVars
  PROVE  /\ Grows /\ history' = history /\ (ChildInv => ChildInv')
         /\ \A c, w : /\ ResolvedTo(c, w)' = ResolvedTo(c, w) /\ CountedIn(c, w)' = CountedIn(c, w)
                      /\ ActivityOf(c, w)' = ActivityOf(c, w)
<1>1. history' = history /\ children' = children
  BY DEF inventoryVars
<1>2. \A w : During(w)' = During(w)
  BY <1>1 DEF During
<1>3. \A c, w : /\ ResolvedTo(c, w)' = ResolvedTo(c, w) /\ Mine(c, w)' = Mine(c, w)
                /\ ActivityOf(c, w)' = ActivityOf(c, w) /\ CountedIn(c, w)' = CountedIn(c, w)
  BY <1>1, <1>2 DEF ResolvedTo, ActivityOf, CountedIn, Mine, Of, Latest
<1>4. \A u : Exact(u) => Exact(u)'
  BY <1>1 DEF Exact, Latest
<1> QED BY <1>1, <1>3, <1>4 DEF Grows, Grown, ChildInv

\* A use of a window is one of every window that covers it.
LEMMA Wider ==
  ASSUME NEW v \in Windows, NEW w \in Windows, Within(v, w), NEW c
  PROVE  CountedIn(c, v) \subseteq CountedIn(c, w)
<1>1. During(v) \subseteq During(w)
  <2>1. \A u \in Uses : Use[u].at \in Int
    BY DEF Uses
  <2>2. v.from \in Int /\ v.to \in Int /\ w.from \in Int /\ w.to \in Int
    OBVIOUS
  <2> QED BY <2>1, <2>2 DEF During, Within
<1> QED BY <1>1 DEF CountedIn, ResolvedTo, ActivityOf, Of

\* An exact answer is the last.
LEMMA FirstIsLast ==
  ASSUME InventoryInv, NEW u \in Uses, history[u] # <<>>, history[u][1].state = "exact" PROVE Latest(u) = history[u][1]
<1>1. history[u] \in Seq(Resolved) /\ \A i \in 1 .. Len(history[u]) : i < Len(history[u]) => history[u][i].state \in {"unresolved", "ambiguous"}
  BY DEF InventoryInv, AssertionsInv, Versions
<1>2. PICK n : n = Len(history[u])
  OBVIOUS
<1>3. n \in Nat \ {0}
  BY <1>1, <1>2, EmptySeq
<1>4. ~(1 < n)
  BY <1>1, <1>2, <1>3
<1>5. n = 1
  BY <1>3, <1>4
<1> QED BY <1>2, <1>5 DEF Latest

LEMMA StoredWere == ASSUME InventoryInv, NEW c, NEW w PROVE FirstResolvedTo(c, w) \subseteq ResolvedTo(c, w)
BY FirstIsLast DEF FirstResolvedTo, ResolvedTo, During, Means

-----------------------------------------------------------------------------
\* What is served stays true while the store grows under it.
LEMMA ServedStays ==
  ASSUME PagesInv, InventoryInv', ChildInv', Grows, UNCHANGED <<report, told>> PROVE PagesInv'
<1>1. PICK w : w = report.window
  OBVIOUS
<1>2. ReadInv(w) /\ ChildrenShown(w)
  BY <1>1 DEF PagesInv
<1>3. Serving' /\ SkillRoom'
  BY DEF PagesInv, Serving, SkillRoom
<1>4. ToldInv'
  <2>1. \A c, v : CountedIn(c, v) # {} => CountedIn(c, v)' # {}
    BY DEF Grows, Grown
  <2> QED BY <2>1 DEF PagesInv, ToldInv
<1>5. ReadInv(w)'
  <2> SUFFICES ASSUME NEW c \in DOMAIN report.rows
               PROVE  /\ report.rows[c].state = "cold" => \A v \in Windows : <<c, v>> \in told => ~Within(v, w)
                      /\ report.rows[c].state \in {"used", "active"} => CountedIn(c, w)' # {}
                      /\ \A u \in report.rows[c].uses : Exact(u)' /\ u \notin report.open
                      /\ report.at \in {"rows", "profile"} /\ report.kind = "skill" =>
                           report.rows[c].uses \subseteq ResolvedTo(c, w)'
    BY DEF ReadInv
  <2>1. CountedIn(c, w) \subseteq CountedIn(c, w)' /\ ResolvedTo(c, w) \subseteq ResolvedTo(c, w)'
    BY DEF Grows, Grown
  <2>2. \A u : Exact(u) => Exact(u)'
    BY DEF Grows
  <2> QED BY <1>2, <2>1, <2>2 DEF ReadInv
<1>6. ChildrenShown(w)'
  <2>1. \A c : ResolvedTo(c, w) \subseteq ResolvedTo(c, w)' /\ Mine(c, w) \subseteq Mine(c, w)'
    BY DEF Grows, Grown
  <2> QED BY <1>2, <2>1 DEF ChildrenShown
<1> QED BY <1>1, <1>3, <1>4, <1>5, <1>6 DEF PagesInv

LEMMA ChildStored == ASSUME InventoryInv, ChildInv, Grows, [InventoryNext]_inventoryVars PROVE ChildInv'
<1> SUFFICES ASSUME NEW u, NEW p, <<u, p>> \in children' PROVE Exact(u)'
  BY DEF ChildInv
<1>1. CASE <<u, p>> \in children
  BY <1>1 DEF ChildInv, Grows
<1>2. CASE <<u, p>> \notin children
  <2>1. PICK x \in Uses : PersistLifecycle(x)
    BY <1>2 DEF InventoryNext, Resolve, LifecycleFails, PersistQuarantine, PersistSnapshot, inventoryVars
  <2>2. PICK r : r = found[x]
    OBVIOUS
  <2>3. u = x /\ r.state = "exact" /\ history' = [history EXCEPT ![x] = <<r>>]
    BY <1>2, <2>1, <2>2 DEF PersistLifecycle
  <2>4. history'[x] = <<r>>
    BY <2>3 DEF InventoryInv, AssertionsInv
  <2>5. Len(<<r>>) = 1 /\ <<r>>[1] = r /\ <<r>> # <<>>
    OBVIOUS
  <2> QED BY <2>3, <2>4, <2>5 DEF Exact, Latest
<1> QED BY <1>1, <1>2

LEMMA StoredBetween == ASSUME PagesInv, [InventoryNext]_inventoryVars, UNCHANGED observatoryVars PROVE PagesInv'
<1>1. InventoryInv' /\ UNCHANGED <<report, told>>
  BY InventoryInvStep DEF PagesInv, observatoryVars
<1>2. Grows
  BY StoreGrows DEF PagesInv
<1>3. ChildInv'
  BY <1>2, ChildStored DEF PagesInv
<1> QED BY <1>1, <1>2, <1>3, ServedStays

\* A row that was read tells what is stored.
LEMMA RowsTell ==
  ASSUME NEW kind, NEW w, NEW c \in DOMAIN Rows(kind, w)
  PROVE  /\ c \in Components
         /\ Rows(kind, w)[c].state = "cold" => CountedIn(c, w) = {}
         /\ Rows(kind, w)[c].state \in {"used", "active"} => CountedIn(c, w) # {}
         /\ Rows(kind, w)[c].uses = CountedIn(c, w) /\ (kind = "skill" => Rows(kind, w)[c].uses \subseteq ResolvedTo(c, w))
<1>1. c \in Components /\ Component[c].kind = kind
  BY DEF Rows, Present, OfKind
<1>2. CASE kind = "plugin"
  <2>1. Rows(kind, w)[c] = PluginRow(c, w)
    BY <1>2 DEF Rows
  <2> QED BY <1>1, <1>2, <2>1 DEF PluginRow, State, CountedIn
<1>3. CASE kind # "plugin"
  <2>1. Rows(kind, w)[c] = SkillRow(c, w)
    BY <1>3 DEF Rows
  <2> QED BY <1>1, <1>3, <2>1 DEF SkillRow, State, CountedIn, Of
<1> QED BY <1>2, <1>3

\* What is counted is exact, for children by the event that stored them.
LEMMA CountedExact ==
  ASSUME ChildInv, NEW c, NEW w, NEW u \in CountedIn(c, w) PROVE Exact(u)
<1>1. CASE u \in ResolvedTo(c, w)
  BY <1>1 DEF ResolvedTo, During, Means, Exact
<1>2. CASE u \in ActivityOf(c, w)
  BY <1>2 DEF ActivityOf, ChildInv
<1> QED BY <1>1, <1>2 DEF CountedIn, Of

-----------------------------------------------------------------------------
LEMMA ReadRowsStep ==
  ASSUME PagesInv, NEW kind \in Kind, NEW about, NEW w \in Windows, ReadRows(kind, about, w), UNCHANGED inventoryVars
  PROVE  PagesInv'
<1>0. InventoryInv' /\ told' = told
  BY InventoryInvStep DEF PagesInv, ReadRows, inventoryVars
<1>1. /\ Grows /\ ChildInv' /\ \A c, v : ResolvedTo(c, v)' = ResolvedTo(c, v) /\ CountedIn(c, v)' = CountedIn(c, v)
  BY StoreRests DEF PagesInv
<1>2. PICK shown : shown = Rows(kind, w)
  OBVIOUS
<1>3. /\ DOMAIN report' = ReportFields /\ report'.at = "rows" /\ report'.kind = kind /\ report'.window = w
      /\ report'.rows = shown /\ report'.open = {} /\ report'.listed = {} /\ report'.own = {}
  BY <1>2 DEF ReadRows, ReportFields, NoReport
<1>4. ASSUME NEW c \in DOMAIN shown
      PROVE  /\ c \in Components
             /\ shown[c].state = "cold" => CountedIn(c, w) = {}
             /\ shown[c].state \in {"used", "active"} => CountedIn(c, w) # {}
             /\ \A u \in shown[c].uses : Exact(u)
             /\ kind = "skill" => shown[c].uses \subseteq ResolvedTo(c, w)
  BY <1>2, RowsTell, CountedExact DEF PagesInv
<1>5. Serving' /\ SkillRoom'
  BY <1>3, <1>4 DEF Serving, SkillRoom, Labels
<1>6. ToldInv'
  BY <1>0, <1>1 DEF PagesInv, ToldInv
<1>7. ReadInv(w)'
  <2>1. ASSUME NEW c \in DOMAIN shown, shown[c].state = "cold", NEW v \in Windows, <<c, v>> \in told, Within(v, w)
        PROVE  FALSE
    <3>1. CountedIn(c, v) \subseteq CountedIn(c, w)
      BY <2>1, Wider
    <3>2. CountedIn(c, v) # {} /\ CountedIn(c, w) = {}
      BY <1>4, <2>1 DEF PagesInv, ToldInv
    <3> QED BY <3>1, <3>2
  <2>2. \A u : Exact(u) => Exact(u)'
    BY <1>1 DEF Grows
  <2> QED BY <1>0, <1>1, <1>3, <1>4, <2>1, <2>2 DEF ReadInv
<1>8. ChildrenShown(w)'
  BY <1>3 DEF ChildrenShown
<1> QED BY <1>0, <1>1, <1>3, <1>5, <1>6, <1>7, <1>8 DEF PagesInv

\* A statement that leaves the rows leaves what they tell.
LEMMA RowsStay ==
  ASSUME PagesInv, UNCHANGED inventoryVars, told' = told, report.at # "idle",
         report'.at \in Labels \ {"idle"}, report'.at = "rows" => report.at = "rows",
         report'.at = "profile" => report.at \in {"rows", "profile"},
         DOMAIN report' = ReportFields, report'.kind = report.kind, report'.about = report.about,
         report'.window = report.window, report'.rows = report.rows,
         \A u \in report'.open : u \in report.open \/ ~Exact(u),
         report'.at \in {"profile", "children"} => report.about \in DOMAIN report.rows,
         report'.at = "children" => report.kind = "plugin",
         report'.at \in {"rows", "profile"} => report'.listed = {},
         report'.at \in {"rows", "profile", "children"} => report'.own = {},
         SkillRoom', \A w : w = report.window => ChildrenShown(w)'
  PROVE  PagesInv'
<1>0. InventoryInv'
  BY InventoryInvStep DEF PagesInv
<1>1. /\ Grows /\ ChildInv' /\ \A c, v : ResolvedTo(c, v)' = ResolvedTo(c, v) /\ CountedIn(c, v)' = CountedIn(c, v)
  BY StoreRests DEF PagesInv
<1>2. PICK w : w = report.window
  OBVIOUS
<1>3. ReadInv(w)
  BY <1>2 DEF PagesInv
<1>4. ReadInv(w)'
  <2>1. \A u : Exact(u) => Exact(u)'
    BY <1>1 DEF Grows
  <2>2. \A c \in DOMAIN report.rows : \A u \in report.rows[c].uses : Exact(u)' /\ u \notin report'.open
    BY <1>3, <2>1 DEF ReadInv
  <2> QED BY <1>1, <1>3, <2>2 DEF ReadInv, Labels
<1>5. ToldInv' /\ Serving'
  BY <1>1 DEF PagesInv, ToldInv, Serving, Labels
<1> QED BY <1>0, <1>1, <1>2, <1>4, <1>5 DEF PagesInv

LEMMA ReadOpenStep == ASSUME PagesInv, ReadOpen, UNCHANGED inventoryVars PROVE PagesInv'
<1>1. PICK open : open = {u \in During(report.window) : /\ Use[u].kind = report.kind
                                                       /\ Latest(u).state \in {"unresolved", "ambiguous"}}
  OBVIOUS
<1>2. /\ DOMAIN report' = ReportFields /\ report'.at \in {"profile", "answered"} /\ report.at = "rows"
      /\ report'.kind = report.kind /\ report'.about = report.about /\ report'.window = report.window
      /\ report'.rows = report.rows /\ report'.open = open
      /\ report'.listed = report.listed /\ report'.own = report.own /\ told' = told
      /\ report'.at = "answered" <=> report.about \notin DOMAIN report.rows
  BY <1>1 DEF ReadOpen, ReportFields, PagesInv, Serving
<1>3. report.listed = {} /\ report.own = {}
  BY <1>2 DEF PagesInv, Serving
<1>4. \A u \in open : ~Exact(u)
  BY <1>1 DEF Exact
<1>5. SkillRoom' /\ \A w : ChildrenShown(w)'
  BY <1>2, <1>3 DEF SkillRoom, ChildrenShown
<1> QED BY <1>2, <1>3, <1>4, <1>5, RowsStay DEF Labels

\* A statement of a profile adds what it lists to the answer.
LEMMA ProfileStep ==
  ASSUME PagesInv, UNCHANGED inventoryVars, told' = told, report.at \in {"profile", "children"},
         NEW at \in {"children", "answered"}, NEW listed, NEW own,
         report' = [report EXCEPT !.at = at, !.listed = listed, !.own = own],
         at = "children" => own = {} /\ report.kind = "plugin",
         SkillRoom', \A w : w = report.window => ChildrenShown(w)'
  PROVE  PagesInv'
<1>1. /\ DOMAIN report' = ReportFields /\ report'.at = at /\ report'.kind = report.kind
      /\ report'.about = report.about /\ report'.window = report.window /\ report'.rows = report.rows
      /\ report'.open = report.open /\ report'.listed = listed /\ report'.own = own
  BY DEF PagesInv, Serving, ReportFields
<1>2. report.about \in DOMAIN report.rows
  BY DEF PagesInv, Serving
<1> QED BY <1>1, <1>2, RowsStay DEF Labels

LEMMA SkillProfileStep == ASSUME PagesInv, ReadSkillProfile, UNCHANGED inventoryVars PROVE PagesInv'
<1>1. PICK w, uses : w = report.window /\ uses = ResolvedTo(report.about, w)
  OBVIOUS
<1>2. /\ report.at = "profile" /\ report.kind = "skill" /\ told' = told
      /\ \E listed \in SUBSET uses : /\ Lists(listed, uses)
                                     /\ report' = [report EXCEPT !.at = "answered", !.listed = listed]
  BY <1>1 DEF ReadSkillProfile
<1>3. PICK listed \in SUBSET uses : /\ Lists(listed, uses)
                                    /\ report' = [report EXCEPT !.at = "answered", !.listed = listed]
  BY <1>2
<1>4. DOMAIN report = ReportFields /\ report.own = {} /\ report.about \in DOMAIN report.rows
  BY <1>2 DEF PagesInv, Serving
<1>5. report.rows[report.about].uses \subseteq uses
  BY <1>1, <1>2, <1>4 DEF PagesInv, ReadInv
<1>6. /\ report'.at = "answered" /\ report'.kind = "skill" /\ report'.rows = report.rows
      /\ report'.about = report.about /\ report'.listed = listed
  BY <1>2, <1>3, <1>4 DEF ReportFields
<1>7. SkillRoom'
  <2>1. \A u \in report.rows[report.about].uses \ listed :
          Cardinality(listed) = ProfileLimit /\ \A v \in listed : Use[u].at <= Use[v].at
    BY <1>3, <1>5 DEF Lists
  <2> QED BY <1>6, <2>1 DEF SkillRoom
<1>8. \A v : ChildrenShown(v)'
  BY <1>6 DEF ChildrenShown
<1>9. report' = [report EXCEPT !.at = "answered", !.listed = listed, !.own = {}]
  BY <1>3, <1>4 DEF ReportFields
<1> QED BY <1>2, <1>7, <1>8, <1>9, ProfileStep

LEMMA PluginProfileStep == ASSUME PagesInv, ReadPluginProfile, UNCHANGED inventoryVars PROVE PagesInv'
<1>1. PICK w, p : w = report.window /\ p = report.about
  OBVIOUS
<1>2. PICK listed : listed = IF current[p].at = 0 THEN {} ELSE UNION {Of("invoked", FirstResolvedTo(c, w)) : c \in Bundled(p)}
  OBVIOUS
<1>3. /\ report.at = "profile" /\ report.kind = "plugin" /\ told' = told
      /\ report' = [report EXCEPT !.at = "children", !.listed = listed]
  BY <1>1, <1>2 DEF ReadPluginProfile
<1>4. DOMAIN report = ReportFields /\ report.own = {} /\ p \in Components
  BY <1>1, <1>3 DEF PagesInv, Serving
<1>5. /\ report'.at = "children" /\ report'.about = p /\ report'.listed = listed /\ report'.own = {}
      /\ report'.kind = "plugin"
  BY <1>1, <1>3, <1>4 DEF ReportFields
<1>6. ASSUME NEW u \in listed PROVE \E c \in Components : Component[c].plugin = p /\ u \in ResolvedTo(c, w)
  <2>1. current[p].at # 0
    BY <1>2
  <2>2. PICK c \in Bundled(p) : u \in FirstResolvedTo(c, w)
    BY <1>2, <2>1 DEF Of
  <2>3. c \in Components
    BY <1>4, <2>1 DEF Bundled, PagesInv, InventoryInv, RowsInv, FitsTaken, NoRow, Components
  <2>4. u \in ResolvedTo(c, w)
    BY <2>2, StoredWere DEF PagesInv
  <2> QED BY <2>2, <2>3, <2>4 DEF Bundled
<1>7. \A v : v = report.window => ChildrenShown(v)'
  <2>1. \A u \in listed : \E c \in Components : Component[c].plugin = p /\ u \in ResolvedTo(c, w)'
    BY <1>6, StoreRests
  <2> QED BY <1>1, <1>5, <2>1 DEF ChildrenShown
<1>8. SkillRoom'
  BY <1>5 DEF SkillRoom
<1>9. report' = [report EXCEPT !.at = "children", !.listed = listed, !.own = {}]
  BY <1>3, <1>4 DEF ReportFields
<1> QED BY <1>3, <1>7, <1>8, <1>9, ProfileStep

LEMMA PluginAssertionsStep == ASSUME PagesInv, ReadPluginAssertions, UNCHANGED inventoryVars PROVE PagesInv'
<1>1. PICK w, p : w = report.window /\ p = report.about
  OBVIOUS
<1>2. PICK own \in SUBSET (FirstResolvedTo(p, w) \cup ActivityOf(p, w)) : report' = [report EXCEPT !.at = "answered", !.own = own]
  BY <1>1 DEF ReadPluginAssertions
<1>3. report.at = "children" /\ told' = told /\ DOMAIN report = ReportFields
  BY DEF ReadPluginAssertions, PagesInv, Serving
<1>4. /\ report'.at = "answered" /\ report'.about = p /\ report'.listed = report.listed /\ report'.own = own
      /\ report'.kind = report.kind /\ report'.rows = report.rows
  BY <1>1, <1>2, <1>3 DEF ReportFields
<1>5. report.kind = "plugin"
  BY <1>3 DEF PagesInv, Serving
<1>6. own \subseteq Mine(p, w)'
  <2>1. own \subseteq Mine(p, w)
    BY <1>2, StoredWere DEF PagesInv, Mine
  <2>2. Mine(p, w) \subseteq Mine(p, w)'
    BY StoreRests DEF Grows, Grown
  <2> QED BY <2>1, <2>2
<1>7. \A v : v = report.window => ChildrenShown(v)'
  <2>1. ChildrenShown(w)
    BY <1>1 DEF PagesInv
  <2>2. \A c : ResolvedTo(c, w)' = ResolvedTo(c, w)
    BY StoreRests
  <2>3. \A u \in report.listed : \E c \in Components : Component[c].plugin = p /\ u \in ResolvedTo(c, w)'
    BY <1>1, <1>5, <2>1, <2>2 DEF ChildrenShown
  <2> QED BY <1>1, <1>4, <1>6, <2>3 DEF ChildrenShown
<1>8. SkillRoom'
  BY <1>4, <1>5 DEF SkillRoom
<1>9. report' = [report EXCEPT !.at = "answered", !.listed = report.listed, !.own = own]
  BY <1>2, <1>3 DEF ReportFields
<1> QED BY <1>3, <1>7, <1>8, <1>9, ProfileStep

\* The handler answers, or the request fails: nothing is served.
LEMMA PageEnds == ASSUME PagesInv, Answer \/ ReadFails, UNCHANGED inventoryVars PROVE PagesInv'
<1>0. InventoryInv' /\ report' = NoReport
  BY InventoryInvStep DEF PagesInv, Answer, ReadFails, inventoryVars
<1>1. ChildInv' /\ \A c, v : CountedIn(c, v)' = CountedIn(c, v)
  BY StoreRests DEF PagesInv
<1>2. PICK w : w = report.window
  OBVIOUS
<1>3. ASSUME NEW t \in told', t \notin told PROVE \E c \in Components : t = <<c, w>> /\ w \in Windows /\ CountedIn(c, w) # {}
  <2>1. Answer
    BY <1>3 DEF ReadFails
  <2>2. PICK c \in DOMAIN report.rows : report.rows[c].state \in {"used", "active"} /\ t = <<c, w>>
    BY <1>2, <1>3, <2>1 DEF Answer, AnsweredRows
  <2>3. c \in Components /\ w \in Windows
    BY <1>2, <2>1 DEF PagesInv, Serving, Answer
  <2> QED BY <1>2, <2>2, <2>3 DEF PagesInv, ReadInv
<1>4. ToldInv'
  <2>1. \A t \in told' : t \in Components \X Windows
    BY <1>3 DEF PagesInv, ToldInv
  <2>2. ASSUME NEW c \in Components, NEW v \in Windows, <<c, v>> \in told' PROVE CountedIn(c, v)' # {}
    BY <1>1, <1>3, <2>2 DEF PagesInv, ToldInv
  <2> QED BY <2>1, <2>2 DEF ToldInv
<1>5. Serving' /\ SkillRoom' /\ \A v : ReadInv(v)' /\ ChildrenShown(v)'
  <2>1. /\ DOMAIN report' = ReportFields /\ report'.at = "idle" /\ DOMAIN report'.rows = {}
        /\ report'.listed = {} /\ report'.own = {}
    BY <1>0 DEF NoReport, ReportFields
  <2>2. Serving' /\ SkillRoom'
    BY <1>0, <2>1 DEF Serving, Labels, SkillRoom, NoReport
  <2>3. \A v : ReadInv(v)' /\ ChildrenShown(v)'
    BY <2>1 DEF ReadInv, ChildrenShown
  <2> QED BY <2>2, <2>3
<1> QED BY <1>0, <1>1, <1>4, <1>5 DEF PagesInv

LEMMA PagesInvStep == PagesInv /\ [PagesNext]_PagesVars => PagesInv'
<1> SUFFICES ASSUME PagesInv, [PagesNext]_PagesVars PROVE PagesInv'
  OBVIOUS
<1>1. CASE [InventoryNext]_inventoryVars /\ UNCHANGED observatoryVars
  BY <1>1, StoredBetween
<1>2. CASE ObservatoryNext /\ UNCHANGED inventoryVars
  <2>1. ASSUME NEW kind \in Kind, NEW w \in Windows, NEW about, ReadRows(kind, about, w) PROVE PagesInv'
    BY <1>2, <2>1, ReadRowsStep
  <2>2. CASE ReadOpen
    BY <1>2, <2>2, ReadOpenStep
  <2>3. CASE ReadSkillProfile \/ ReadPluginProfile \/ ReadPluginAssertions
    BY <1>2, <2>3, SkillProfileStep, PluginProfileStep, PluginAssertionsStep
  <2>4. CASE Answer \/ ReadFails
    BY <1>2, <2>4, PageEnds
  <2>5. ASSUME NEW d \in Declaration, UpsertComponentPlaneSupport(d) PROVE PagesInv'
    <3>1. InventoryInv' /\ UNCHANGED <<report, told>>
      BY <1>2, <2>5, InventoryInvStep DEF PagesInv, UpsertComponentPlaneSupport
    <3>2. Grows /\ ChildInv'
      BY <1>2, StoreRests DEF PagesInv
    <3> QED BY <3>1, <3>2, ServedStays
  <2> QED BY <1>2, <2>1, <2>2, <2>3, <2>4, <2>5 DEF ObservatoryNext
<1> QED BY <1>1, <1>2 DEF PagesNext, PagesVars

LEMMA PagesFacts == PagesInv => ObservatoryTypeOK /\ ObservatoryHolds
<1> SUFFICES ASSUME PagesInv PROVE ObservatoryTypeOK /\ ObservatoryHolds
  OBVIOUS
<1>1. PICK w : w = report.window
  OBVIOUS
<1>2. ReadInv(w) /\ ChildrenShown(w)
  BY <1>1 DEF PagesInv
<1>3. ObservatoryTypeOK
  BY DEF PagesInv, Serving, ToldInv, ObservatoryTypeOK, Labels
<1>4. UsesAreNotTakenBack
  BY <1>1, <1>2 DEF UsesAreNotTakenBack, ReadInv
<1>5. ProfilesAgree
  <2>1. \A c \in DOMAIN report.rows : report.rows[c].uses \cap report.open = {}
    BY <1>2 DEF ReadInv
  <2>2. SkillRoom
    BY DEF PagesInv
  <2>3. report.kind = "plugin" =>
          /\ \A u \in report.listed : \E c \in Components : /\ Component[c].plugin = report.about
                                                            /\ u \in ResolvedTo(c, report.window)
          /\ report.own \subseteq ResolvedTo(report.about, report.window) \cup ActivityOf(report.about, report.window)
    BY <1>1, <1>2 DEF ChildrenShown, Mine
  <2> QED BY <2>1, <2>2, <2>3 DEF ProfilesAgree, SkillRoom
<1> QED BY <1>3, <1>4, <1>5 DEF ObservatoryHolds

LEMMA PagesInvariant == PagesSpec => []PagesInv
BY PagesInitInv, PagesInvStep, PTL DEF PagesSpec

\* The pages keep their types (skill_observatory.go, plugin_observatory.go).
THEOREM PagesTyped == PagesSpec => []ObservatoryTypeOK
BY PagesInvariant, PagesFacts, PTL

\* Whatever snapshots and events are stored between the statements of a page: a
\* component told as used in a window is not told as cold in one that covers it, no use
\* is both counted and open, and a profile shows what the row above it counts, or the
\* newest there is room for.
THEOREM PagesStayTrue == PagesSpec => []ObservatoryHolds
BY PagesInvariant, PagesFacts, PTL

HIDE ObservatoryAssumption
HIDE InventoryAssumption

-----------------------------------------------------------------------------
(* The parts side by side.                                                 *)

LEMMA PartsBegin == Init => FactInit /\ StreamInit /\ InventoryInit /\ ObservatoryInit
BY DEF Init

\* A step of the whole is one of each part, or leaves it alone.
LEMMA PartsStep ==
  [Next]_vars => /\ [FactNext]_factVars /\ [StreamNext]_streamVars
                 /\ [InventoryNext]_inventoryVars /\ [PagesNext]_PagesVars
<1>1. CASE UNCHANGED vars
  BY <1>1 DEF vars, PagesVars
<1>2. CASE Next
  <2>1. [FactNext]_factVars /\ [StreamNext]_streamVars
    BY <1>2 DEF Next
  <2>2. StoredOnce => InventoryNext
    BY DEF StoredOnce, InventoryNext
  <2>3. \/ InventoryNext /\ UNCHANGED observatoryVars
        \/ ObservatoryNext /\ UNCHANGED inventoryVars
        \/ UNCHANGED <<inventoryVars, observatoryVars>>
    BY <1>2, <2>2 DEF Next
  <2> QED BY <2>1, <2>3 DEF PagesNext, PagesVars
<1> QED BY <1>1, <1>2

LEMMA SpecSteps == Spec => Init /\ [][Next]_vars
BY PTL DEF Spec

LEMMA PartsOfSpec == Spec => FactSpec /\ StreamSpec /\ InventorySpec /\ PagesSpec
BY SpecSteps, PartsBegin, PartsStep, PTL DEF FactSpec, StreamSpec, InventorySpec, PagesSpec

\* Receipts cover what is not projected, and streams are answered with the truth, in
\* the whole as in the parts.
THEOREM FactsAreTrue == Spec => [](ReceiptCoversProjections /\ StreamAnswersAreTrue)
BY PartsOfSpec, ReceiptsCover, StreamAnswersStayTrue, PTL

\* So are the projections true to the scans, and the pages to both.
THEOREM PagesAreTrue == Spec => [](ProjectionsAgree /\ ObservatoryHolds)
BY PartsOfSpec, ProjectionsStayTrue, PagesStayTrue, PTL

\* No exact assertion changes in the whole either.
THEOREM ExactIsKept == Spec => ExactIsFinal
BY PartsOfSpec, ExactStays, PTL

\* With fewer hand-overs than connections, no repair costs anything in the whole.
THEOREM RepairsStayFree == ASSUME FewCallers PROVE Spec => []RepairCostsNothing
BY PartsOfSpec, RepairsCostNothing, PTL

\* There is a scan only where one is looked at.
Scanned ==
  IF focus = "scan" THEN ScanInv
  ELSE scan = NoScan /\ row = [state |-> "none", snapshot |-> NoSnapshot]

LEMMA ScannedInit == Init => Scanned
BY ScanInvInit DEF Init, NoTarget, Scanned

LEMMA ScannedStep == Scanned /\ [Next]_vars => Scanned'
<1> SUFFICES ASSUME Scanned, [Next]_vars PROVE Scanned'
  OBVIOUS
<1>1. CASE focus = "scan"
  <2>1. focus' = "scan" /\ [ScanNext]_scanVars
    BY <1>1 DEF Next, vars
  <2> QED BY <1>1, <2>1, ScanInvStep, ScanInvRests DEF Scanned, scanVars
<1>2. CASE focus # "scan"
  <2>1. focus' = focus /\ UNCHANGED scanVars
    BY <1>2 DEF Next, vars
  <2> QED BY <1>2, <2>1 DEF Scanned, scanVars
<1> QED BY <1>1, <1>2

LEMMA ScannedFacts == Scanned => ScanTypeOK /\ ScanHolds
<1> SUFFICES ASSUME Scanned PROVE ScanTypeOK /\ ScanHolds
  OBVIOUS
<1>1. CASE focus = "scan"
  BY <1>1, ScanFacts DEF Scanned
<1>2. CASE focus # "scan"
  <2>1. scan.phase = "idle" /\ scan.left = MaxCached /\ row.state = "none"
    BY <1>2 DEF Scanned, NoScan
  <2>2. MaxCached \in 0 .. MaxCached
    BY ScanAssumption
  <2>3. ScanHolds
    BY <2>1 DEF ScanHolds, CompleteIsWhole, OwnershipIsCertain, EnabledIsGranted, Answered
  <2> QED BY <2>1, <2>2, <2>3 DEF ScanTypeOK
<1> QED BY <1>1, <1>2

LEMMA ScannedAlways == Spec => [](ScanTypeOK /\ ScanHolds)
BY SpecSteps, ScannedInit, ScannedStep, ScannedFacts, PTL

\* The parts keep their types together.
THEOREM PartsTyped == Spec => []FactsTypeOK
<1>1. FactTypeOK /\ InventoryTypeOK /\ ObservatoryTypeOK /\ StreamTypeOK /\ ScanTypeOK => FactsTypeOK
  BY DEF FactsTypeOK
<1> QED BY <1>1, PartsOfSpec, FactsTyped, InventoryTyped, PagesTyped, StreamTyped, ScannedAlways, PTL

\* Whatever is edited while hosts are scanned, in whatever order scans and events are
\* stored, and whenever pages are served: what is shown is what was there.
THEOREM InventoryStaysTrue == Spec => []InventoryIsTrue
<1>1. ScanHolds /\ ProjectionsAgree /\ ObservatoryHolds => InventoryIsTrue
  BY DEF InventoryIsTrue
<1> QED BY <1>1, PagesAreTrue, ScannedAlways, PTL
===============================================================================
