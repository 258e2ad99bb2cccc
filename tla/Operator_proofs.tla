---------------------------- MODULE Operator_proofs ----------------------------
(***************************************************************************)
(* What an operator relies on, for every value of the constants: that the  *)
(* schema is the one his build knows, that plans own only their keys, that *)
(* the guards of the HTTP API admit what they should, that incidents are   *)
(* in order while he reads them; and that all parts of MCOperations keep   *)
(* what its run checks of them together.                                   *)
(***************************************************************************)
EXTENDS MCOperations, Operations_proofs

-----------------------------------------------------------------------------
-----------------------------------------------------------------------------
(* Migrations.                                                             *)

MigrateSpec == MigrateInit /\ [][MigrateNext]_migrationVars

SumsOf(b, of) == {Build[b][of][v] : v \in DOMAIN Build[b][of]}
Sums == UNION {UNION {SumsOf(b, of) : of \in 1 .. 3} : b \in DOMAIN Build}
LedgerRow == (1 .. 3) \X (Nat \ {0}) \X Sums

\* What the primary keys and the transactions keep: a version is in its ledger
\* once, changed the schema once, and after the versions before it.
SchemaInOrder ==
  /\ schema \in Seq(LedgerRow)
  /\ ledgers = {schema[i] : i \in DOMAIN schema}
  /\ IsFiniteSet(ledgers) /\ Cardinality(ledgers) = Len(schema)
  /\ \A r, s \in ledgers : r[1] = s[1] /\ r[2] = s[2] => r = s
  /\ \A i, j \in DOMAIN schema : schema[i] = schema[j] => i = j
  /\ \A i \in DOMAIN schema : \A v \in 1 .. schema[i][2] - 1 :
       \E j \in DOMAIN schema : j < i /\ schema[j][1] = schema[i][1] /\ schema[j][2] = v

\* How far a process has come, by the rows it has seen or written.
Has(of, v, sum) == \E entry \in ledgers : entry[1] = of /\ entry[2] = v /\ Matches(of, entry[3], sum)
HasUpTo(b, of, n) == \A v \in 1 .. n : Has(of, v, Build[b][of][v])
HasLedger(b, of) == \A v \in DOMAIN Build[b][of] : Has(of, v, Build[b][of][v])
Came(s) ==
  /\ s.read \subseteq ledgers
  /\ s.at \in {"reading", "migrating"} => \A of \in 1 .. s.of - 1 : HasLedger(s.build, of)
  /\ s.at = "migrating" =>
       /\ s.next \in 1 .. Len(Build[s.build][s.of]) + 1
       /\ HasUpTo(s.build, s.of, s.next - 1)
       /\ \A entry \in s.read : entry[1] = s.of
  /\ s.at = "migrated" => \A of \in 1 .. 3 : HasLedger(s.build, of)

StarterShape == [at : {"off", "reading", "migrating", "migrated"}, build : DOMAIN Build, of : 1 .. 3,
                 read : SUBSET ledgers, next : Nat \ {0}]
MigrateInv ==
  /\ MigrateTypeOK /\ SchemaInOrder
  /\ starter \in [Starter -> StarterShape]
  /\ \A p \in Starter : Came(starter[p])

USE MigrationAssumption

-----------------------------------------------------------------------------
LEMMA SchemaKnown == MigrateInv => SchemaIsKnown
<1> SUFFICES ASSUME MigrateInv PROVE SchemaIsKnown
  OBVIOUS
<1>1. ASSUME NEW entry \in ledgers, NEW v \in 1 .. entry[2] - 1
      PROVE  \E earlier \in ledgers : /\ earlier[1] = entry[1] /\ earlier[2] = v
                                     /\ Position(earlier) < Position(entry)
  <2>1. PICK i \in DOMAIN schema : entry = schema[i]
    BY DEF MigrateInv, SchemaInOrder
  <2>2. PICK j \in DOMAIN schema : j < i /\ schema[j][1] = schema[i][1] /\ schema[j][2] = v
    BY <1>1, <2>1 DEF MigrateInv, SchemaInOrder
  <2>3. ASSUME NEW k \in DOMAIN schema PROVE Position(schema[k]) = k
    BY DEF MigrateInv, SchemaInOrder, Position
  <2>4. schema[j] \in ledgers
    BY DEF MigrateInv, SchemaInOrder
  <2> QED BY <2>1, <2>2, <2>3, <2>4
<1>2. LedgersTellTheSchema
  BY <1>1 DEF LedgersTellTheSchema, MigrateInv, SchemaInOrder
<1>3. GoesOnMigrated
  BY DEF GoesOnMigrated, MigrateInv, Came, HasLedger, Has
<1> QED BY <1>2, <1>3 DEF SchemaIsKnown

LEMMA MigrateInitInv == MigrateInit => MigrateInv
<1> SUFFICES ASSUME MigrateInit PROVE MigrateInv
  OBVIOUS
<1>1. schema = << >> /\ ledgers = {} /\ \A p \in Starter : starter[p] = NotStarted
  BY DEF MigrateInit
<1>2. DOMAIN schema = {} /\ Len(schema) = 0 /\ schema \in Seq(LedgerRow)
  BY <1>1, EmptySeq
<1>3. SchemaInOrder
  BY <1>1, <1>2, FS_EmptySet DEF SchemaInOrder
<1>4. MigrateTypeOK /\ starter \in [Starter -> StarterShape] /\ \A p \in Starter : Came(starter[p])
  BY <1>1 DEF MigrateInit, NotStarted, MigrateTypeOK, StarterShape, Came
<1> QED BY <1>3, <1>4 DEF MigrateInv

\* Rows are never taken away, so who has come far stays far.
LEMMA StaysCame ==
  ASSUME ledgers \subseteq ledgers', NEW s, Came(s)
  PROVE  Came(s)'
<1>1. ASSUME NEW of, NEW v, NEW sum, Has(of, v, sum) PROVE Has(of, v, sum)'
  BY <1>1 DEF Has, Matches
<1> QED BY <1>1 DEF Came, HasLedger, HasUpTo

\* One process moves; what the transactions keep is shown on its own.
LEMMA OneMoves ==
  ASSUME MigrateInv, NEW p \in Starter, NEW s, starter' = [starter EXCEPT ![p] = s],
         s \in StarterShape', Came(s)', ledgers \subseteq ledgers', SchemaInOrder',
         begun' \in 0 .. MaxMigrate
  PROVE  MigrateInv'
<1>1. ASSUME NEW q \in Starter, NEW c, c = starter'[q] PROVE c \in StarterShape' /\ Came(c)'
  <2>1. CASE q = p
    <3>1. c = s
      BY <1>1, <2>1 DEF MigrateInv
    <3> QED BY <3>1
  <2>2. CASE q # p
    <3>1. c = starter[q]
      BY <1>1, <2>2 DEF MigrateInv
    <3>2. c \in StarterShape /\ Came(c)
      BY <3>1 DEF MigrateInv
    <3>3. Came(c)'
      BY <3>2, StaysCame
    <3>4. c \in StarterShape'
      BY <3>2 DEF StarterShape
    <3> QED BY <3>3, <3>4
  <2> QED BY <2>1, <2>2
<1>2. starter' \in [Starter -> StarterShape']
  BY <1>1 DEF MigrateInv
<1>3. MigrateTypeOK'
  BY <1>1 DEF MigrateTypeOK, StarterShape
<1>4. (\A q \in Starter : Came(starter[q]))'
  <2> SUFFICES ASSUME NEW q \in Starter' PROVE Came(starter[q])'
    OBVIOUS
  <2>1. PICK c : c = starter'[q]
    OBVIOUS
  <2>2. Came(c)'
    BY <1>1, <2>1
  <2> QED BY <2>1, <2>2 DEF Came
<1> QED BY <1>2, <1>3, <1>4 DEF MigrateInv

\* The ledgers stay as they are.
LEMMA OneLooks ==
  ASSUME MigrateInv, NEW p \in Starter, NEW s, starter' = [starter EXCEPT ![p] = s],
         s \in StarterShape, Came(s), UNCHANGED <<ledgers, schema>>, begun' \in 0 .. MaxMigrate
  PROVE  MigrateInv'
<1>1. SchemaInOrder'
  BY DEF MigrateInv, SchemaInOrder
<1>2. Came(s)' /\ s \in StarterShape'
  BY StaysCame DEF StarterShape
<1> QED BY <1>1, <1>2, OneMoves

LEMMA OffIsCame ==
  ASSUME MigrateInv
  PROVE  NotStarted \in StarterShape /\ Came(NotStarted)
BY DEF NotStarted, StarterShape, Came

LEMMA StartStep == ASSUME MigrateInv, NEW p \in Starter, StartMigrating(p) PROVE MigrateInv'
<1>1. PICK b \in DOMAIN Build : starter' = [starter EXCEPT ![p] = [NotStarted EXCEPT !.at = "reading", !.build = b]]
  BY DEF StartMigrating
<1>2. PICK s : s = [NotStarted EXCEPT !.at = "reading", !.build = b]
  OBVIOUS
<1>3. s = [at |-> "reading", build |-> b, of |-> 1, read |-> {}, next |-> 1]
  BY <1>2 DEF NotStarted
<1>5. s \in StarterShape
  BY <1>3 DEF StarterShape
<1>6. Came(s)
  BY <1>3 DEF Came
<1>4. begun' \in 0 .. MaxMigrate
  BY DEF StartMigrating, MigrateInv, MigrateTypeOK
<1>7. starter' = [starter EXCEPT ![p] = s] /\ UNCHANGED <<ledgers, schema>>
  BY <1>1, <1>2 DEF StartMigrating
<1> QED BY <1>4, <1>5, <1>6, <1>7, OneLooks

LEMMA ReadStep == ASSUME MigrateInv, NEW p \in Starter, ReadLedger(p) PROVE MigrateInv'
<1>1. starter[p] \in StarterShape /\ Came(starter[p]) /\ starter[p].at = "reading"
  BY DEF MigrateInv, ReadLedger
<1>2. PICK s : s = [starter[p] EXCEPT !.at = "migrating", !.next = 1,
                                      !.read = {entry \in ledgers : entry[1] = starter[p].of}]
  OBVIOUS
<1>3. starter' = [starter EXCEPT ![p] = s]
  BY <1>2, <1>1 DEF MigrateInv, ReadLedger, StarterShape
<1>4. s \in StarterShape
  <2>1. s = [at |-> "migrating", build |-> starter[p].build, of |-> starter[p].of,
             read |-> {entry \in ledgers : entry[1] = starter[p].of}, next |-> 1]
    BY <1>1, <1>2 DEF StarterShape
  <2>2. {entry \in ledgers : entry[1] = starter[p].of} \in SUBSET ledgers
    OBVIOUS
  <2> QED BY <1>1, <2>1, <2>2 DEF StarterShape
<1>5. s.at = "migrating" /\ s.next = 1 /\ s.of = starter[p].of /\ s.build = starter[p].build
      /\ s.read = {entry \in ledgers : entry[1] = s.of}
  BY <1>1, <1>2 DEF StarterShape
<1>6. s.next \in 1 .. Len(Build[s.build][s.of]) + 1
  <2>1. s.build \in DOMAIN Build /\ s.of \in 1 .. 3
    BY <1>4 DEF StarterShape
  <2> QED BY <1>5, <2>1
<1>7. Came(s)
  BY <1>1, <1>5, <1>6 DEF Came, HasUpTo
<1>8. begun' \in 0 .. MaxMigrate
  BY DEF ReadLedger, MigrateInv, MigrateTypeOK
<1> QED BY <1>3, <1>4, <1>7, <1>8, OneLooks DEF ReadLedger

LEMMA LeaveStep == ASSUME MigrateInv, NEW p \in Starter, LeaveMigrating(p) PROVE MigrateInv'
<1>1. begun' \in 0 .. MaxMigrate
  BY DEF LeaveMigrating, MigrateInv, MigrateTypeOK
<1> QED BY <1>1, OffIsCame, OneLooks DEF LeaveMigrating, Stops

LEMMA PassStep == ASSUME MigrateInv, NEW p \in Starter, PassApplied(p) PROVE MigrateInv'
<1> DEFINE t == starter[p]
<1>1. t \in StarterShape /\ Came(t) /\ t.at = "migrating"
  BY DEF MigrateInv, PassApplied
<1>2. begun' \in 0 .. MaxMigrate /\ UNCHANGED <<ledgers, schema>>
  BY DEF PassApplied, MigrateInv, MigrateTypeOK
<1>3. CASE Stops(p)
  BY <1>2, <1>3, OffIsCame, OneLooks DEF Stops
<1>4. CASE ~ Stops(p)
  <2>1. /\ \A entry \in ReadRow(p) : Matches(entry[1], entry[3], Embedded(p)[t.next])
        /\ starter' = [starter EXCEPT ![p].next = @ + 1]
        /\ t.next \in DOMAIN Embedded(p) /\ ReadRow(p) # {}
    BY <1>4 DEF PassApplied
  <2>11. PICK s : s = [t EXCEPT !.next = @ + 1]
    OBVIOUS
  <2>2. s = [at |-> "migrating", build |-> t.build, of |-> t.of, read |-> t.read,
             next |-> t.next + 1]
    BY <1>1, <2>11 DEF StarterShape
  <2>3. starter' = [starter EXCEPT ![p] = s]
    BY <2>1, <2>11
  <2>4. s \in StarterShape
    BY <1>1, <2>2 DEF StarterShape
  <2>5. Embedded(p) = Build[t.build][t.of] /\ t.build \in DOMAIN Build /\ t.of \in 1 .. 3
    BY <1>1 DEF Embedded, StarterShape
  <2>6. t.next \in 1 .. Len(Build[t.build][t.of]) /\ t.next \in Nat
    BY <1>1, <2>1, <2>5 DEF StarterShape
  <2>7. Has(t.of, t.next, Build[t.build][t.of][t.next])
    <3>1. PICK entry : entry \in t.read /\ entry[2] = t.next
      BY <2>1 DEF ReadRow
    <3>2. entry \in ledgers /\ entry[1] = t.of
      BY <1>1, <3>1 DEF Came
    <3>3. Matches(entry[1], entry[3], Embedded(p)[t.next])
      BY <2>1, <3>1 DEF ReadRow
    <3> QED BY <2>5, <3>1, <3>2, <3>3 DEF Has
  <2>8. HasUpTo(t.build, t.of, t.next)
    BY <1>1, <2>6, <2>7 DEF Came, HasUpTo
  <2>9. s.next - 1 = t.next /\ s.next \in 1 .. Len(Build[t.build][t.of]) + 1
    <3>1. PICK n \in Nat : n = Len(Build[t.build][t.of]) /\ DOMAIN Build[t.build][t.of] = 1 .. n
      BY <2>5
    <3>2. t.next \in 1 .. n + 1 /\ t.next \in 1 .. n
      BY <1>1, <2>6, <3>1 DEF Came
    <3>3. s.next = t.next + 1
      BY <2>2
    <3>4. PICK m \in Nat : m = t.next
      BY <3>2
    <3>5. s.next = m + 1 /\ m + 1 \in 1 .. n + 1 /\ m + 1 - 1 = m
      BY <3>2, <3>3, <3>4
    <3> QED BY <3>1, <3>4, <3>5
  <2>10. Came(s)
    BY <1>1, <2>2, <2>8, <2>9 DEF Came
  <2> QED BY <1>2, <2>3, <2>4, <2>10, OneLooks
<1> QED BY <1>3, <1>4

LEMMA NextStep == ASSUME MigrateInv, NEW p \in Starter, NextLedger(p) PROVE MigrateInv'
<1> DEFINE t == starter[p]
<1>1. t \in StarterShape /\ Came(t) /\ t.at = "migrating" /\ t.next \notin DOMAIN Embedded(p)
  BY DEF MigrateInv, NextLedger
<1>2. begun' \in 0 .. MaxMigrate /\ UNCHANGED <<ledgers, schema>>
  BY DEF NextLedger, MigrateInv, MigrateTypeOK
<1>3. Embedded(p) = Build[t.build][t.of] /\ t.build \in DOMAIN Build /\ t.of \in 1 .. 3
  BY <1>1 DEF Embedded, StarterShape
<1>4. DOMAIN Build[t.build][t.of] = 1 .. t.next - 1
  <2>1. PICK n \in Nat : n = Len(Build[t.build][t.of]) /\ DOMAIN Build[t.build][t.of] = 1 .. n
    BY <1>3
  <2>2. t.next \in 1 .. n + 1
    BY <1>1, <2>1 DEF Came
  <2>3. t.next \notin 1 .. n
    BY <1>1, <1>3, <2>1
  <2>4. t.next = n + 1
    BY <2>2, <2>3
  <2>5. n = t.next - 1
    BY <2>4
  <2> QED BY <2>1, <2>5
<1>5. HasLedger(t.build, t.of)
  BY <1>1, <1>4 DEF Came, HasUpTo, HasLedger
<1>6. \A of \in 1 .. t.of : HasLedger(t.build, of)
  BY <1>1, <1>3, <1>5 DEF Came
<1>7. CASE t.of = 3
  <2>5. PICK s : s = [t EXCEPT !.at = "migrated"]
    OBVIOUS
  <2>1. s = [at |-> "migrated", build |-> t.build, of |-> t.of, read |-> t.read, next |-> t.next]
    BY <1>1, <2>5 DEF StarterShape
  <2>2. starter' = [starter EXCEPT ![p] = s]
    BY <1>7, <2>5 DEF NextLedger
  <2>3. s \in StarterShape
    BY <1>1, <2>1 DEF StarterShape
  <2>4. Came(s)
    BY <1>1, <1>6, <1>7, <2>1 DEF Came
  <2> QED BY <1>2, <2>2, <2>3, <2>4, OneLooks
<1>8. CASE t.of # 3
  <2>5. PICK s : s = [t EXCEPT !.at = "reading", !.of = t.of + 1]
    OBVIOUS
  <2>1. s = [at |-> "reading", build |-> t.build, of |-> t.of + 1, read |-> t.read, next |-> t.next]
    BY <1>1, <2>5 DEF StarterShape
  <2>2. starter' = [starter EXCEPT ![p] = s]
    <3>1. starter' = [starter EXCEPT ![p] = [starter[p] EXCEPT !.at = "reading", !.of = starter[p].of + 1]]
      BY <1>8 DEF NextLedger
    <3> QED BY <2>5, <3>1
  <2>3. s \in StarterShape
    BY <1>1, <1>3, <1>8, <2>1 DEF StarterShape
  <2>4. Came(s)
    BY <1>1, <1>3, <1>6, <1>8, <2>1 DEF Came
  <2> QED BY <1>2, <2>2, <2>3, <2>4, OneLooks
<1> QED BY <1>7, <1>8

LEMMA RowIsAppended ==
  ASSUME SchemaInOrder, NEW r \in LedgerRow,
         \A other \in ledgers : ~ (other[1] = r[1] /\ other[2] = r[2]),
         \A v \in 1 .. r[2] - 1 : \E j \in DOMAIN schema : schema[j][1] = r[1] /\ schema[j][2] = v,
         ledgers' = ledgers \cup {r}, schema' = Append(schema, r)
  PROVE  SchemaInOrder' /\ r \in ledgers' /\ ledgers \subseteq ledgers'
<1> DEFINE n == Len(schema)
<1>1. schema \in Seq(LedgerRow) /\ n \in Nat /\ DOMAIN schema = 1 .. n
  BY DEF SchemaInOrder
<1>2. /\ schema' \in Seq(LedgerRow) /\ Len(schema') = n + 1 /\ DOMAIN schema' = 1 .. n + 1
      /\ \A i \in 1 .. n : schema'[i] = schema[i]
      /\ schema'[n + 1] = r
  BY <1>1, AppendProperties
<1>3. \A i \in 1 .. n : schema[i] \in ledgers /\ schema[i] # r
  BY <1>1 DEF SchemaInOrder
<1>4. r \notin ledgers
  OBVIOUS
<1>5. IsFiniteSet(ledgers') /\ Cardinality(ledgers') = Len(schema')
  <2>1. IsFiniteSet(ledgers) /\ Cardinality(ledgers) = n
    BY DEF SchemaInOrder
  <2>2. IsFiniteSet(ledgers \cup {r}) /\ Cardinality(ledgers \cup {r}) = n + 1
    BY <1>4, <2>1, FS_AddElement
  <2> QED BY <1>2, <2>2
<1>6. ledgers' = {schema'[i] : i \in DOMAIN schema'}
  <2>1. \A x \in ledgers' : \E i \in DOMAIN schema' : schema'[i] = x
    <3>1. \A x \in ledgers : \E i \in 1 .. n : schema[i] = x
      BY <1>1 DEF SchemaInOrder
    <3>2. n + 1 \in DOMAIN schema' /\ 1 .. n \subseteq DOMAIN schema'
      BY <1>1, <1>2
    <3> QED BY <1>2, <3>1, <3>2
  <2>2. \A i \in DOMAIN schema' : schema'[i] \in ledgers'
    BY <1>1, <1>2, <1>3
  <2> QED BY <2>1, <2>2
<1>7. \A x, y \in ledgers' : x[1] = y[1] /\ x[2] = y[2] => x = y
  BY DEF SchemaInOrder
<1>8. \A i, j \in DOMAIN schema' : schema'[i] = schema'[j] => i = j
  BY <1>1, <1>2, <1>3 DEF SchemaInOrder
<1>9. ASSUME NEW i \in DOMAIN schema', NEW v \in 1 .. schema'[i][2] - 1
      PROVE  \E j \in DOMAIN schema' : j < i /\ schema'[j][1] = schema'[i][1] /\ schema'[j][2] = v
  <2>1. CASE i = n + 1
    <3>1. schema'[i] = r
      BY <1>2, <2>1
    <3>2. PICK j \in 1 .. n : schema[j][1] = r[1] /\ schema[j][2] = v
      BY <1>1, <1>9, <3>1
    <3>3. j \in DOMAIN schema' /\ schema'[j] = schema[j] /\ j < i
      BY <1>1, <1>2, <2>1
    <3> QED BY <3>1, <3>2, <3>3
  <2>2. CASE i \in 1 .. n
    <3>1. v \in 1 .. schema[i][2] - 1
      BY <1>2, <1>9, <2>2
    <3>2. PICK j \in 1 .. n : j < i /\ schema[j][1] = schema[i][1] /\ schema[j][2] = v
      <4>1. \A k \in DOMAIN schema : \A w \in 1 .. schema[k][2] - 1 :
              \E j \in DOMAIN schema : j < k /\ schema[j][1] = schema[k][1] /\ schema[j][2] = w
        BY DEF SchemaInOrder
      <4>2. i \in DOMAIN schema
        BY <1>1, <2>2
      <4>3. \E j \in DOMAIN schema : j < i /\ schema[j][1] = schema[i][1] /\ schema[j][2] = v
        BY <3>1, <4>1, <4>2
      <4> QED BY <1>1, <4>3
    <3>3. schema'[j] = schema[j] /\ schema'[i] = schema[i] /\ j \in DOMAIN schema'
      BY <1>1, <1>2, <2>2, <3>2
    <3> QED BY <3>2, <3>3
  <2> QED BY <1>1, <1>2, <2>1, <2>2
<1>10. SchemaInOrder'
  BY <1>2, <1>5, <1>6, <1>7, <1>8, <1>9 DEF SchemaInOrder
<1> QED BY <1>10

\* The transaction: the next version of the ledger, which no row of it is yet.
LEMMA ApplyStep == ASSUME MigrateInv, NEW p \in Starter, ApplyMigration(p) PROVE MigrateInv'
<1> DEFINE t == starter[p]
           entry == <<t.of, t.next, Embedded(p)[t.next]>>
<1>1. t \in StarterShape /\ Came(t) /\ t.at = "migrating" /\ t.next \in DOMAIN Embedded(p)
  BY DEF MigrateInv, ApplyMigration
<1>2. begun' \in 0 .. MaxMigrate
  BY DEF ApplyMigration, MigrateInv, MigrateTypeOK
<1>3. CASE \E other \in ledgers : other[1] = entry[1] /\ other[2] = entry[2]
  <2>1. Stops(p) /\ UNCHANGED <<ledgers, schema>>
    BY <1>3 DEF ApplyMigration
  <2> QED BY <1>2, <2>1, OffIsCame, OneLooks DEF Stops
<1>4. CASE ~ \E other \in ledgers : other[1] = entry[1] /\ other[2] = entry[2]
  <2>1. /\ ledgers' = ledgers \cup {entry} /\ schema' = Append(schema, entry)
        /\ starter' = [starter EXCEPT ![p].next = @ + 1]
    BY <1>4 DEF ApplyMigration
  <2>2. Embedded(p) = Build[t.build][t.of] /\ t.build \in DOMAIN Build /\ t.of \in 1 .. 3
    BY <1>1 DEF Embedded, StarterShape
  <2>3. PICK n \in Nat : n = Len(Build[t.build][t.of]) /\ DOMAIN Build[t.build][t.of] = 1 .. n
    BY <2>2
  <2>4. t.next \in 1 .. n + 1 /\ t.next \in 1 .. n /\ t.next \in Nat \ {0}
    BY <1>1, <2>2, <2>3 DEF Came, StarterShape
  <2>5. PICK r : r = entry
    OBVIOUS
  <2>6. r[1] = t.of /\ r[2] = t.next /\ r[3] = Build[t.build][t.of][t.next] /\ r \in LedgerRow
    <3>1. Build[t.build][t.of][t.next] \in Sums
      <4>1. PICK b, of : b = t.build /\ of = t.of
        OBVIOUS
      <4>2. Build[b][of][t.next] \in SumsOf(b, of)
        BY <2>3, <2>4, <4>1 DEF SumsOf
      <4>3. b \in DOMAIN Build /\ of \in 1 .. 3
        BY <2>2, <4>1
      <4>4. SumsOf(b, of) \subseteq Sums
        BY <4>3 DEF Sums
      <4> QED BY <4>1, <4>2, <4>4
    <3> QED BY <2>2, <2>4, <2>5, <3>1 DEF LedgerRow
  <2>7. \A v \in 1 .. r[2] - 1 : \E j \in DOMAIN schema : schema[j][1] = r[1] /\ schema[j][2] = v
    <3>1. SUFFICES ASSUME NEW v \in 1 .. t.next - 1
                   PROVE  \E j \in DOMAIN schema : schema[j][1] = t.of /\ schema[j][2] = v
      BY <2>6
    <3>2. HasUpTo(t.build, t.of, t.next - 1)
      BY <1>1 DEF Came
    <3>3. PICK known \in ledgers : known[1] = t.of /\ known[2] = v
      BY <3>2 DEF HasUpTo, Has
    <3> QED BY <3>3 DEF MigrateInv, SchemaInOrder
  <2>8. SchemaInOrder' /\ r \in ledgers' /\ ledgers \subseteq ledgers'
    BY <1>4, <2>1, <2>5, <2>6, <2>7, RowIsAppended DEF MigrateInv
  <2>9. PICK s : s = [t EXCEPT !.next = @ + 1]
    OBVIOUS
  <2>10. s = [at |-> "migrating", build |-> t.build, of |-> t.of, read |-> t.read, next |-> t.next + 1]
    BY <1>1, <2>9 DEF StarterShape
  <2>11. starter' = [starter EXCEPT ![p] = s]
    BY <2>1, <2>9
  <2>12. s \in StarterShape'
    BY <1>1, <2>8, <2>10 DEF StarterShape
  <2>13. Came(s)'
    <3>1. PICK c : c = t
      OBVIOUS
    <3>2. Came(c)' /\ c.at = "migrating"
      BY <1>1, <2>8, <3>1, StaysCame
    <3>3. HasUpTo(t.build, t.of, t.next - 1)
      BY <1>1 DEF Came
    <3>4. PICK b, of, m : b = t.build /\ of = t.of /\ m = t.next
      OBVIOUS
    <3>5. ASSUME NEW v \in 1 .. m PROVE Has(of, v, Build[b][of][v])'
      <4>1. CASE v = m
        BY <2>6, <2>8, <3>4, <4>1 DEF Has, Matches
      <4>2. CASE v # m
        <5>1. v \in 1 .. t.next - 1
          BY <2>4, <3>4, <4>2
        <5>2. Has(of, v, Build[b][of][v])
          BY <3>3, <3>4, <5>1 DEF HasUpTo
        <5> QED BY <2>8, <5>2 DEF Has, Matches
      <4> QED BY <4>1, <4>2
    <3>6. HasUpTo(b, of, m)'
      BY <3>5 DEF HasUpTo
    <3>7. s.next - 1 = m /\ s.build = b /\ s.of = of /\ s.read = c.read
          /\ s.at = "migrating" /\ n = Len(Build[b][of]) /\ c.build = b /\ c.of = of
      BY <2>3, <2>4, <2>10, <3>1, <3>4
    <3>8. s.next = m + 1 /\ m \in 1 .. n
      BY <2>4, <2>10, <3>4
    <3>9. s.next \in 1 .. n + 1
      BY <3>8
    <3> QED BY <3>2, <3>6, <3>7, <3>9 DEF Came
  <2> QED BY <1>2, <2>8, <2>11, <2>12, <2>13, OneMoves
<1> QED BY <1>3, <1>4

LEMMA MigrateInvStep == MigrateInv /\ [MigrateNext]_migrationVars => MigrateInv'
<1> SUFFICES ASSUME MigrateInv, [MigrateNext]_migrationVars PROVE MigrateInv'
  OBVIOUS
<1>1. CASE MigrateNext
  <2>1. PICK p \in Starter : \/ StartMigrating(p) \/ ReadLedger(p) \/ PassApplied(p) \/ ApplyMigration(p)
                             \/ NextLedger(p) \/ LeaveMigrating(p)
    BY <1>1 DEF MigrateNext
  <2> QED BY <2>1, StartStep, ReadStep, PassStep, ApplyStep, NextStep, LeaveStep
<1>2. CASE UNCHANGED migrationVars
  <2>1. ledgers' = ledgers /\ schema' = schema /\ starter' = starter /\ begun' = begun
    BY <1>2 DEF migrationVars
  <2>2. SchemaInOrder' /\ MigrateTypeOK'
    BY <2>1 DEF MigrateInv, SchemaInOrder, MigrateTypeOK
  <2>3. StarterShape' = StarterShape
    BY <2>1 DEF StarterShape
  <2>4. (\A p \in Starter : Came(starter[p]))'
    <3> SUFFICES ASSUME NEW p \in Starter' PROVE Came(starter[p])'
      OBVIOUS
    <3>1. PICK s : s = starter[p]
      OBVIOUS
    <3>2. Came(s)
      BY <3>1 DEF MigrateInv
    <3>3. Came(s)'
      BY <2>1, <3>2 DEF Came, HasLedger, HasUpTo, Has
    <3>4. starter'[p] = s
      BY <2>1, <3>1
    <3> QED BY <3>3, <3>4 DEF Came
  <2> QED BY <2>1, <2>2, <2>3, <2>4 DEF MigrateInv
<1> QED BY <1>1, <1>2

LEMMA MigrateInvariant == MigrateSpec => []MigrateInv
BY MigrateInitInv, MigrateInvStep, PTL DEF MigrateSpec

\* Every process that migrates is at a step of it, whatever builds there are.
THEOREM MigrateTyped == MigrateSpec => []MigrateTypeOK
<1>1. MigrateInv => MigrateTypeOK
  BY DEF MigrateInv
<1> QED BY MigrateInvariant, <1>1, PTL

\* Whatever processes of whatever builds migrate at once, and wherever each ends: the
\* ledgers tell what changed the schema, in order, and who goes on has its schema.
THEOREM SchemaStaysKnown == MigrateSpec => []SchemaIsKnown
BY MigrateInvariant, SchemaKnown, PTL

HIDE MigrationAssumption

-----------------------------------------------------------------------------
-----------------------------------------------------------------------------
(* Installer protocol.                                                     *)

InstallSpec == InstallInit /\ [][InstallNext]_installVars

\* A file: to every key a value of its user's or of a plan's.
Configured(config) ==
  /\ config = [k \in Key |-> config[k]]
  /\ \A k \in Key : config[k] \in Value \cup {Unset}
       \/ \E t \in DOMAIN Target : k \in Owned(t) /\ config[k] = Target[t].required[k]

PlansAreMade == \A p \in built :
  /\ p.target \in DOMAIN Target /\ p.original \in backups
  /\ p.planned = Planned(p.target, p.original)

\* A key that has not the value its user gave it: a plan in force was made when it
\* had, so that taking the plans back, in any order, ends with that value.
WishIsKept == \A k \in Key : file[k] # wish[k] =>
  \E p \in under : k \in Owned(p.target) /\ p.original[k] = wish[k]

TargetsStaySet == \A t \in settled : \A k \in Owned(t) : file[k] = Target[t].required[k]

InstallInv ==
  /\ Configured(file) /\ \A c \in backups : Configured(c)
  /\ wish \in [Key -> Value \cup {Unset}]
  /\ PlansAreMade /\ approved \subseteq built /\ under \subseteq approved
  /\ settled \subseteq DOMAIN Target
  /\ WishIsKept /\ TargetsStaySet

USE InstallerAssumption

-----------------------------------------------------------------------------
LEMMA InstallTypes == InstallInv => InstallTypeOK
BY DEF InstallInv, InstallTypeOK, Configured, PlansAreMade

LEMMA OnlyTheirs == InstallInv => PlansOwnOnlyTheirs
<1> SUFFICES ASSUME InstallInv PROVE PlansOwnOnlyTheirs
  OBVIOUS
<1>1. UserKeysKept
  BY DEF UserKeysKept, InstallInv, WishIsKept
<1>2. SiblingsKept
  <2>1. SUFFICES ASSUME NEW t \in settled, ~ \E k \in Target[t].forbidden : wish[k] # Unset
                 PROVE  Verifies(t, file)
    BY DEF SiblingsKept
  <2>2. t \in DOMAIN Target
    BY DEF InstallInv
  <2>3. ASSUME NEW k \in Target[t].forbidden PROVE file[k] = Unset
    <3>1. k \in Key /\ wish[k] = Unset
      BY <2>1, <2>2
    <3>2. CASE file[k] # wish[k]
      <4>1. PICK p \in under : k \in Owned(p.target)
        BY <3>1, <3>2 DEF InstallInv, WishIsKept
      <4>2. p.target \in DOMAIN Target
        BY DEF InstallInv, PlansAreMade
      <4> QED BY <2>2, <4>1, <4>2 DEF Owned
    <3> QED BY <3>1, <3>2
  <2> QED BY <2>3 DEF Verifies, Unsafe, InstallInv, TargetsStaySet
<1> QED BY <1>1, <1>2 DEF PlansOwnOnlyTheirs

LEMMA InstallInitInv == InstallInit => InstallInv
BY DEF InstallInit, InstallInv, Empty, Configured, PlansAreMade, WishIsKept, TargetsStaySet

\* What a plan makes of a file is a file.
LEMMA PlannedIsConfigured ==
  ASSUME NEW t \in DOMAIN Target, NEW c, Configured(c)
  PROVE  /\ Configured(Planned(t, c))
         /\ \A k \in Key : Planned(t, c)[k] = IF k \in Owned(t) THEN Target[t].required[k] ELSE c[k]
BY DEF Planned, Configured, Owned

LEMMA OwnedApart ==
  ASSUME NEW t \in DOMAIN Target, NEW u \in DOMAIN Target, t # u, NEW k \in Owned(t)
  PROVE  k \notin Owned(u)
BY DEF Owned

LEMMA BuildStep == ASSUME InstallInv, NEW t \in DOMAIN Target, BuildPlan(t) PROVE InstallInv'
<1> DEFINE p == [target |-> t, original |-> file, planned |-> Planned(t, file),
                 discloses |-> {k \in Target[t].never : file[k] # Unset}]
<1>1. /\ built' = built \cup {p} /\ backups' = backups \cup {file}
      /\ UNCHANGED <<file, approved, under, settled, wish>>
  BY DEF BuildPlan
<1>2. PlansAreMade'
  <2>1. p.target = t /\ p.original = file /\ p.planned = Planned(t, file)
    OBVIOUS
  <2> HIDE DEF p
  <2>2. ASSUME NEW q \in built'
        PROVE  q.target \in DOMAIN Target /\ q.original \in backups' /\ q.planned = Planned(q.target, q.original)
    BY <1>1, <2>1 DEF InstallInv, PlansAreMade
  <2> QED BY <2>2 DEF PlansAreMade, Planned
<1>3. approved' \subseteq built'
  BY <1>1 DEF InstallInv
<1>4. (\A c \in backups : Configured(c))'
  BY <1>1 DEF InstallInv, Configured
<1>5. Configured(file)' /\ WishIsKept' /\ TargetsStaySet'
  BY <1>1 DEF InstallInv, Configured, WishIsKept, TargetsStaySet
<1> QED BY <1>1, <1>2, <1>3, <1>4, <1>5 DEF InstallInv

LEMMA FileStays ==
  ASSUME InstallInv, UNCHANGED <<file, backups, built, under, settled, wish>>
  PROVE  /\ Configured(file)' /\ (\A c \in backups : Configured(c))'
         /\ PlansAreMade' /\ WishIsKept' /\ TargetsStaySet'
<1>1. Configured(file)'
  BY DEF InstallInv, Configured
<1>2. (\A c \in backups : Configured(c))'
  BY DEF InstallInv, Configured
<1>3. PlansAreMade'
  BY DEF InstallInv, PlansAreMade
<1>4. WishIsKept'
  BY DEF InstallInv, WishIsKept
<1>5. TargetsStaySet'
  BY DEF InstallInv, TargetsStaySet
<1> QED BY <1>1, <1>2, <1>3, <1>4, <1>5

LEMMA ApproveStep == ASSUME InstallInv, NEW p \in built, Approve(p) PROVE InstallInv'
<1>1. approved' = approved \cup {p} /\ UNCHANGED <<file, backups, built, under, settled, wish>>
  BY DEF Approve
<1> QED BY <1>1, FileStays DEF InstallInv

LEMMA ApplyPlanStep ==
  ASSUME InstallInv, NEW p \in built, NEW a \in approved, SimulateApply(p, a)
  PROVE  InstallInv'
<1>1. /\ p \in approved /\ file = p.original /\ file' = p.planned
      /\ under' = under \cup {p} /\ settled' = settled \cup {p.target}
      /\ UNCHANGED <<built, approved, backups, wish>>
  BY DEF SimulateApply, ValidApproval
<1>2. p.target \in DOMAIN Target /\ p.planned = Planned(p.target, file)
  BY <1>1 DEF InstallInv, PlansAreMade
<1>3. /\ Configured(file')
      /\ \A k \in Key : file'[k] = IF k \in Owned(p.target) THEN Target[p.target].required[k] ELSE file[k]
  BY <1>1, <1>2, PlannedIsConfigured DEF InstallInv
<1>4. WishIsKept'
  <2>1. SUFFICES ASSUME NEW k \in Key, file'[k] # wish[k]
                 PROVE  \E q \in under' : k \in Owned(q.target) /\ q.original[k] = wish[k]
    BY <1>1 DEF WishIsKept
  <2>2. CASE file[k] = wish[k]
    BY <1>1, <1>3, <2>1, <2>2
  <2>3. CASE file[k] # wish[k]
    BY <1>1, <2>3 DEF InstallInv, WishIsKept
  <2> QED BY <2>2, <2>3
<1>5. TargetsStaySet'
  <2>1. SUFFICES ASSUME NEW t \in settled', NEW k \in Owned(t) PROVE file'[k] = Target[t].required[k]
    BY DEF TargetsStaySet
  <2>2. t \in DOMAIN Target /\ k \in Key
    BY <1>1, <1>2 DEF InstallInv, Owned
  <2>3. CASE t = p.target
    BY <1>3, <2>2, <2>3
  <2>4. CASE t # p.target
    <3>1. k \notin Owned(p.target)
      BY <1>2, <2>2, <2>4, OwnedApart
    <3>2. file[k] = Target[t].required[k]
      BY <1>1, <2>4 DEF InstallInv, TargetsStaySet
    <3> QED BY <1>3, <2>2, <3>1, <3>2
  <2> QED BY <2>3, <2>4
<1>6. (\A c \in backups : Configured(c))' /\ PlansAreMade' /\ Configured(file)'
  BY <1>1, <1>3 DEF InstallInv, Configured, PlansAreMade
<1> QED BY <1>1, <1>2, <1>4, <1>5, <1>6 DEF InstallInv

LEMMA TakeBackStep ==
  ASSUME InstallInv, NEW p \in built, NEW a \in approved, NEW b \in backups, SimulateRestore(p, a, b)
  PROVE  InstallInv'
<1>1. /\ file = p.planned /\ file' = p.original
      /\ under' = under \ {p} /\ settled' = settled \ {p.target}
      /\ UNCHANGED <<built, approved, backups, wish>>
  BY DEF SimulateRestore, MayRestore
<1>2. p.target \in DOMAIN Target /\ p.planned = Planned(p.target, p.original) /\ Configured(p.original)
  BY <1>1 DEF InstallInv, PlansAreMade
<1>3. \A k \in Key : file[k] = IF k \in Owned(p.target) THEN Target[p.target].required[k] ELSE p.original[k]
  BY <1>1, <1>2, PlannedIsConfigured
<1>4. WishIsKept'
  <2>1. SUFFICES ASSUME NEW k \in Key, file'[k] # wish[k]
                 PROVE  \E q \in under' : k \in Owned(q.target) /\ q.original[k] = wish[k]
    BY <1>1 DEF WishIsKept
  <2>2. file[k] # wish[k]
    <3>1. CASE k \in Owned(p.target)
      <4>1. file[k] \notin Value \cup {Unset}
        BY <1>2, <1>3, <3>1 DEF Owned
      <4> QED BY <4>1 DEF InstallInv
    <3>2. CASE k \notin Owned(p.target)
      BY <1>1, <1>3, <2>1, <3>2
    <3> QED BY <3>1, <3>2
  <2>3. PICK q \in under : k \in Owned(q.target) /\ q.original[k] = wish[k]
    BY <2>2 DEF InstallInv, WishIsKept
  <2> QED BY <1>1, <2>1, <2>3
<1>5. TargetsStaySet'
  <2>1. SUFFICES ASSUME NEW t \in settled', NEW k \in Owned(t) PROVE file'[k] = Target[t].required[k]
    BY DEF TargetsStaySet
  <2>2. t \in settled /\ t # p.target /\ t \in DOMAIN Target /\ k \in Key
    BY <1>1 DEF InstallInv, Owned
  <2>3. k \notin Owned(p.target) /\ file[k] = Target[t].required[k]
    BY <1>2, <2>2, OwnedApart DEF InstallInv, TargetsStaySet
  <2> QED BY <1>1, <1>3, <2>2, <2>3
<1>6. (\A c \in backups : Configured(c))' /\ PlansAreMade' /\ Configured(file)'
  BY <1>1, <1>2 DEF InstallInv, Configured, PlansAreMade
<1> QED BY <1>1, <1>4, <1>5, <1>6 DEF InstallInv

LEMMA EditStep ==
  ASSUME InstallInv, NEW k \in Key, NEW v \in Value \cup {Unset}, UserEdits(k, v)
  PROVE  InstallInv'
<1>1. /\ file' = [file EXCEPT ![k] = v] /\ wish' = [wish EXCEPT ![k] = v]
      /\ settled' = {t \in settled : k \notin Owned(t)}
      /\ UNCHANGED <<built, approved, backups, under>>
  BY DEF UserEdits
<1>2. file = [j \in Key |-> file[j]]
  BY DEF InstallInv, Configured
<1>3. file'[k] = v /\ wish'[k] = v
      /\ \A j \in Key : j # k => file'[j] = file[j] /\ wish'[j] = wish[j]
  BY <1>1, <1>2 DEF InstallInv
<1>4. Configured(file')
  <2>1. file' = [j \in Key |-> file'[j]]
    BY <1>1, <1>2
  <2> QED BY <1>3, <2>1 DEF InstallInv, Configured
<1>5. WishIsKept' /\ TargetsStaySet'
  BY <1>1, <1>3 DEF InstallInv, WishIsKept, TargetsStaySet, Owned
<1>6. (\A c \in backups : Configured(c))' /\ PlansAreMade' /\ Configured(file)'
  BY <1>1, <1>4 DEF InstallInv, Configured, PlansAreMade
<1> QED BY <1>1, <1>5, <1>6 DEF InstallInv

LEMMA InstallInvStep == InstallInv /\ [InstallNext]_installVars => InstallInv'
<1> SUFFICES ASSUME InstallInv, [InstallNext]_installVars PROVE InstallInv'
  OBVIOUS
<1>1. CASE InstallNext
  BY <1>1, BuildStep, ApproveStep, ApplyPlanStep, TakeBackStep, EditStep DEF InstallNext
<1>2. CASE UNCHANGED installVars
  <2>1. UNCHANGED <<file, backups, built, approved, under, settled, wish>>
    BY <1>2 DEF installVars
  <2> QED BY <2>1, FileStays DEF InstallInv
<1> QED BY <1>1, <1>2

LEMMA InstallInvariant == InstallSpec => []InstallInv
BY InstallInitInv, InstallInvStep, PTL DEF InstallSpec

\* Every key of the file has a value of the user's or of a plan's, and a plan in
\* force was approved.
THEOREM InstallTyped == InstallSpec => []InstallTypeOK
BY InstallInvariant, InstallTypes, PTL

\* Whatever targets there are, and however often plans are applied, taken back and
\* edited over: what the user set is not lost, and what a sibling set stays.
THEOREM PlansStayOutOfOthers == InstallSpec => []PlansOwnOnlyTheirs
BY InstallInvariant, OnlyTheirs, PTL

HIDE InstallerAssumption

-----------------------------------------------------------------------------
-----------------------------------------------------------------------------
(* Local guards.                                                           *)

GuardSpec == GuardInit /\ [][GuardNext]_guardVars

\* The requests of the window that is open, and those before it.
Current(w, s) == {x \in s : x[1] =< w.age}
Former(w, s) == {x \in s : x[1] > w.age}

\* An open window let in no more than it counts, the first of them when it began; of
\* the window before it, the first is older than a window by then.
WindowOpen(w, s) ==
  /\ Cardinality(Current(w, s)) =< w.count /\ Cardinality(Current(w, s)) =< Limit
  /\ Cardinality(Former(w, s)) < Limit
  /\ \E x \in s : x[1] = w.age
WindowOver(w, s) == Cardinality(s) < Limit /\ Latest(s) = {}

GuardPair(w, s) ==
  /\ w \in [age : 0 .. Window, count : 0 .. Limit + 1] /\ s \subseteq Ages \X (1 .. Limit)
  /\ IsFiniteSet(s)
  /\ w.age < Window => WindowOpen(w, s)
  /\ w.age = Window => WindowOver(w, s)

GuardInv ==
  /\ window \in [Guard -> [Peer -> [age : 0 .. Window, count : 0 .. Limit + 1]]]
  /\ counted \in [Guard -> [Peer -> SUBSET (Ages \X (1 .. Limit))]]
  /\ \A g \in Guard, p \in Peer : GuardPair(window[g][p], counted[g][p])
  /\ last.answer \in {0, 200, 400, 401, 403, 405, 421, 429}
  /\ ChangesAreAuthorized

USE GuardAssumption

-----------------------------------------------------------------------------
LEMMA PartIsFinite ==
  ASSUME NEW s, IsFiniteSet(s), NEW t, t \subseteq s
  PROVE  IsFiniteSet(t) /\ Cardinality(t) \in Nat /\ Cardinality(t) =< Cardinality(s) /\ Cardinality(s) \in Nat
BY FS_Subset, FS_CardinalityType

LEMMA AttemptsBounded ==
  ASSUME NEW w, NEW s, GuardPair(w, s) PROVE Cardinality(s) < 2 * Limit
<1>1. CASE w.age < Window
  <2> DEFINE A == Current(w, s)
             B == Former(w, s)
  <2>1. A \subseteq s /\ B \subseteq s /\ IsFiniteSet(s)
    BY DEF GuardPair, Current, Former
  <2>2. IsFiniteSet(A) /\ IsFiniteSet(B) /\ Cardinality(A) \in Nat /\ Cardinality(B) \in Nat
    BY <2>1, PartIsFinite
  <2>3. A \cup B = s /\ A \cap B = {}
    <3>1. \A x \in s : x[1] \in Int /\ w.age \in Int
      BY DEF GuardPair, Ages
    <3> QED BY <3>1 DEF Current, Former
  <2>4. Cardinality(A \cup B) = Cardinality(A) + Cardinality(B) - Cardinality(A \cap B)
    BY <2>2, FS_Union
  <2>5. Cardinality(A) =< Limit /\ Cardinality(B) < Limit
    BY <1>1 DEF GuardPair, WindowOpen
  <2> HIDE DEF A, B
  <2>6. Cardinality(s) = Cardinality(A) + Cardinality(B)
    <3>1. Cardinality({}) = 0
      BY FS_EmptySet
    <3>2. Cardinality(A \cap B) = 0 /\ Cardinality(A \cup B) = Cardinality(s)
      BY <2>3, <3>1
    <3> QED BY <2>2, <2>4, <3>2
  <2> QED BY <2>2, <2>5, <2>6
<1>2. CASE w.age = Window
  <2>1. Cardinality(s) < Limit /\ Cardinality(s) \in Nat
    BY <1>2, PartIsFinite DEF GuardPair, WindowOver
  <2> QED BY <2>1
<1>3. w.age \in 0 .. Window
  BY DEF GuardPair
<1> QED BY <1>1, <1>2, <1>3

LEMMA GuardInitInv == GuardInit => GuardInv
<1> SUFFICES ASSUME GuardInit PROVE GuardInv
  OBVIOUS
<1>1. GuardPair([age |-> Window, count |-> 0], {})
  BY FS_EmptySet DEF GuardPair, WindowOver, Latest
<1> QED BY <1>1 DEF GuardInit, GuardInv, NoRequest, ChangesAreAuthorized

-----------------------------------------------------------------------------
(* A request that is counted. *)

\* One element more.
LEMMA OneMore ==
  ASSUME NEW s, IsFiniteSet(s), NEW x
  PROVE  /\ IsFiniteSet(s \cup {x}) /\ Cardinality(s \cup {x}) =< Cardinality(s) + 1
         /\ Cardinality(s) \in Nat /\ Cardinality(s \cup {x}) \in Nat
BY FS_AddElement, FS_CardinalityType

\* A first request opens a window.
LEMMA OpensWindow ==
  ASSUME NEW w, NEW s, GuardPair(w, s), w.age = Window
  PROVE  Counted(w).count =< Limit /\ GuardPair(Counted(w), Attempt(s))
<1> DEFINE v == [age |-> 0, count |-> 1]
           e == <<0, 1>>
<1>1. Counted(w) = v /\ v.age = 0 /\ v.count = 1
  BY DEF Counted
<1>2. Latest(s) = {} /\ Cardinality(s) < Limit /\ IsFiniteSet(s)
  BY DEF GuardPair, WindowOver
<1>3. Attempt(s) = s \cup {e}
  BY <1>2, FS_EmptySet DEF Attempt
<1>4. s \cup {e} \subseteq Ages \X (1 .. Limit)
  BY DEF GuardPair, Ages
<1>5. Current(v, s \cup {e}) = {e} /\ Former(v, s \cup {e}) = s
  <2>1. \A x \in s : x[1] \in Nat /\ x[1] # 0
    BY <1>2 DEF GuardPair, Ages, Latest
  <2> QED BY <1>1, <2>1 DEF Current, Former
<1>6. Cardinality({e}) = 1 /\ IsFiniteSet(s \cup {e})
  BY <1>2, FS_Singleton, OneMore
<1>7. WindowOpen(v, s \cup {e})
  <2>1. e \in s \cup {e} /\ e[1] = v.age
    OBVIOUS
  <2> HIDE DEF v, e
  <2>2. Cardinality(Current(v, s \cup {e})) = 1 /\ Cardinality(Former(v, s \cup {e})) < Limit
    BY <1>2, <1>5, <1>6
  <2> QED BY <1>1, <2>1, <2>2 DEF WindowOpen
<1>8. v \in [age : 0 .. Window, count : 0 .. Limit + 1]
  OBVIOUS
<1> QED BY <1>1, <1>3, <1>4, <1>6, <1>7, <1>8 DEF GuardPair

\* A request of the open window, within its limit.
LEMMA CountsInWindow ==
  ASSUME NEW w, NEW s, GuardPair(w, s), w.age < Window, w.count + 1 =< Limit
  PROVE  GuardPair(Counted(w), Attempt(s))
<1> DEFINE v == [w EXCEPT !.count = @ + 1]
           n == Cardinality(Latest(s)) + 1
           e == <<0, n>>
<1>1. Counted(w) = v /\ v.age = w.age /\ v.count = w.count + 1 /\ w.age \in 0 .. Window /\ w.count \in Nat
      /\ v \in [age : 0 .. Window, count : 0 .. Limit + 1]
  BY DEF Counted, GuardPair
<1>2. Attempt(s) = s \cup {e}
  BY DEF Attempt
<1>3. IsFiniteSet(s) /\ \A x \in s : x[1] \in Nat
  BY DEF GuardPair, Ages
<1>4. /\ IsFiniteSet(Current(w, s)) /\ Cardinality(Current(w, s)) \in Nat
      /\ Cardinality(Latest(s)) \in Nat /\ Cardinality(Latest(s)) =< Cardinality(Current(w, s))
  <2>1. Current(w, s) \subseteq s /\ Latest(s) \subseteq Current(w, s)
    BY <1>1, <1>3 DEF Current, Latest
  <2>2. IsFiniteSet(Current(w, s))
    BY <1>3, <2>1, PartIsFinite
  <2> QED BY <2>1, <2>2, PartIsFinite
<1>5. Cardinality(Current(w, s)) =< w.count /\ Cardinality(Former(w, s)) < Limit /\ \E x \in s : x[1] = w.age
  BY DEF GuardPair, WindowOpen
<1>6. n \in 1 .. Limit
  BY <1>1, <1>4, <1>5
<1> HIDE DEF n
<1>7. s \cup {e} \subseteq Ages \X (1 .. Limit)
  BY <1>6 DEF GuardPair, Ages
<1>8. e[1] = 0
  OBVIOUS
<1> HIDE DEF e, v
<1>9. Current(v, s \cup {e}) = Current(w, s) \cup {e} /\ Former(v, s \cup {e}) = Former(w, s)
  BY <1>1, <1>8 DEF Current, Former
<1>10. Cardinality(Current(w, s) \cup {e}) =< Cardinality(Current(w, s)) + 1
       /\ Cardinality(Current(w, s) \cup {e}) \in Nat
  BY <1>4, OneMore
<1>11. WindowOpen(v, s \cup {e})
  <2>1. \E x \in s \cup {e} : x[1] = v.age
    BY <1>1, <1>5
  <2>2. Cardinality(Current(w, s) \cup {e}) =< v.count /\ Cardinality(Current(w, s) \cup {e}) =< Limit
    BY <1>1, <1>4, <1>5, <1>10
  <2> QED BY <1>5, <1>9, <2>1, <2>2 DEF WindowOpen
<1>12. IsFiniteSet(s \cup {e})
  BY <1>3, OneMore
<1> QED BY <1>1, <1>2, <1>7, <1>11, <1>12 DEF GuardPair

\* One that is refused for its rate is counted, and shows nothing.
LEMMA CountsRefused ==
  ASSUME NEW w, NEW s, GuardPair(w, s), w.age < Window, w.count =< Limit
  PROVE  GuardPair(Counted(w), s)
<1> DEFINE v == [w EXCEPT !.count = @ + 1]
<1>1. Counted(w) = v /\ v.age = w.age /\ v.count = w.count + 1 /\ w.count \in Nat
      /\ v \in [age : 0 .. Window, count : 0 .. Limit + 1]
  BY DEF Counted, GuardPair
<1> HIDE DEF v
<1>2. Current(v, s) = Current(w, s) /\ Former(v, s) = Former(w, s)
  BY <1>1 DEF Current, Former
<1>3. Cardinality(Current(w, s)) \in Nat
  <2>1. Current(w, s) \subseteq s /\ IsFiniteSet(s)
    BY DEF Current, GuardPair
  <2> QED BY <2>1, PartIsFinite
<1>4. WindowOpen(v, s)
  BY <1>1, <1>2, <1>3 DEF GuardPair, WindowOpen
<1> QED BY <1>1, <1>4 DEF GuardPair

-----------------------------------------------------------------------------
(* Time passes. *)

LEMMA OlderShape ==
  ASSUME NEW s, s \subseteq Ages \X (1 .. Limit), IsFiniteSet(s)
  PROVE  /\ Older(s) \subseteq Ages \X (1 .. Limit) /\ IsFiniteSet(Older(s))
         /\ \A x \in Older(s) : \E y \in s : x = <<y[1] + 1, y[2]>> /\ y[1] < Window - 1
<1>1. \A x \in Older(s) : \E y \in s : x = <<y[1] + 1, y[2]>> /\ y[1] < Window - 1
  BY DEF Older, Young
<1>2. Older(s) \subseteq Ages \X (1 .. Limit)
  BY <1>1 DEF Ages
<1>3. IsFiniteSet(Ages \X (1 .. Limit))
  <2>1. IsFiniteSet(Ages) /\ IsFiniteSet(1 .. Limit)
    BY FS_Interval DEF Ages
  <2> QED BY <2>1, FS_Product
<1> QED BY <1>1, <1>2, <1>3, FS_Subset

\* To grow older is to grow no more.
LEMMA OlderIsNotMore ==
  ASSUME NEW s, s \subseteq Ages \X (1 .. Limit), IsFiniteSet(s), NEW t,
         \A x \in t : \E y \in s : x = <<y[1] + 1, y[2]>>
  PROVE  IsFiniteSet(t) /\ Cardinality(t) =< Cardinality(s) /\ Cardinality(t) \in Nat /\ Cardinality(s) \in Nat
<1> DEFINE Shift(x) == <<x[1] + 1, x[2]>>
           u == {Shift(x) : x \in s}
           f == [x \in s |-> Shift(x)]
<1>1. f \in [s -> u]
  OBVIOUS
<1>2. \A z \in u : \E x \in s : f[x] = z
  OBVIOUS
<1> HIDE DEF f
<1>3. f \in Surjection(s, u)
  BY <1>1, <1>2 DEF Surjection
<1>4. IsFiniteSet(u) /\ Cardinality(u) =< Cardinality(s)
  BY <1>3, FS_Surjection
<1>5. t \subseteq u
  OBVIOUS
<1> HIDE DEF u
<1>6. IsFiniteSet(t) /\ Cardinality(t) \in Nat /\ Cardinality(t) =< Cardinality(u) /\ Cardinality(u) \in Nat
  BY <1>4, <1>5, PartIsFinite
<1>7. Cardinality(s) \in Nat
  BY FS_CardinalityType
<1> QED BY <1>4, <1>6, <1>7

LEMMA PairAges ==
  ASSUME NEW w, NEW s, GuardPair(w, s),
         NEW v, v = [w EXCEPT !.age = IF @ < Window THEN @ + 1 ELSE @]
  PROVE  GuardPair(v, Older(s))
<1>1. /\ v.age = (IF w.age < Window THEN w.age + 1 ELSE w.age) /\ v.count = w.count
      /\ v \in [age : 0 .. Window, count : 0 .. Limit + 1] /\ w.age \in 0 .. Window
  BY DEF GuardPair
<1>2. s \subseteq Ages \X (1 .. Limit) /\ IsFiniteSet(s)
  BY DEF GuardPair
<1>3. /\ Older(s) \subseteq Ages \X (1 .. Limit) /\ IsFiniteSet(Older(s))
      /\ \A x \in Older(s) : \E y \in s : x = <<y[1] + 1, y[2]>> /\ y[1] < Window - 1
  BY <1>2, OlderShape
<1>4. \A x \in s : x[1] \in Ages
  BY <1>2
<1>5. Latest(Older(s)) = {}
  BY <1>3, <1>4 DEF Latest, Ages
<1>6. CASE w.age = Window
  <2>1. Cardinality(Older(s)) =< Cardinality(s) /\ Cardinality(Older(s)) \in Nat /\ Cardinality(s) \in Nat
    BY <1>2, <1>3, OlderIsNotMore
  <2>2. Cardinality(s) < Limit
    BY <1>6 DEF GuardPair, WindowOver
  <2> QED BY <1>1, <1>3, <1>5, <1>6, <2>1, <2>2 DEF GuardPair, WindowOver
<1>7. CASE w.age = Window - 1
  <2>1. WindowOpen(w, s) /\ v.age = Window
    BY <1>1, <1>7 DEF GuardPair
  <2>2. PICK first \in s : first[1] = w.age
    BY <2>1 DEF WindowOpen
  <2>3. \A x \in Older(s) : \E y \in Current(w, s) \ {first} : x = <<y[1] + 1, y[2]>>
    BY <1>1, <1>3, <1>4, <1>7, <2>2 DEF Current, Ages
  <2>4. IsFiniteSet(Current(w, s)) /\ first \in Current(w, s) /\ Current(w, s) \subseteq s
    <3>1. Current(w, s) \subseteq s /\ first \in Current(w, s)
      BY <1>1, <2>2 DEF Current
    <3> QED BY <1>2, <3>1, FS_Subset
  <2>5. /\ IsFiniteSet(Current(w, s) \ {first})
        /\ Cardinality(Current(w, s) \ {first}) = Cardinality(Current(w, s)) - 1
    BY <2>4, FS_RemoveElement
  <2>6. Cardinality(Older(s)) =< Cardinality(Current(w, s) \ {first}) /\ Cardinality(Older(s)) \in Nat
        /\ Cardinality(Current(w, s) \ {first}) \in Nat
    <3>1. Current(w, s) \ {first} \subseteq Ages \X (1 .. Limit)
      BY <1>2, <2>4
    <3> QED BY <2>3, <2>5, <3>1, OlderIsNotMore
  <2>7. Cardinality(Current(w, s)) =< Limit /\ Cardinality(Current(w, s)) \in Nat
    BY <2>1, <2>4, FS_CardinalityType DEF WindowOpen
  <2>8. Cardinality(Older(s)) < Limit
    BY <2>5, <2>6, <2>7
  <2> QED BY <1>1, <1>3, <1>5, <2>1, <2>8 DEF GuardPair, WindowOver
<1>8. CASE w.age < Window - 1
  <2>1. WindowOpen(w, s) /\ v.age = w.age + 1 /\ v.age < Window
    BY <1>1, <1>8 DEF GuardPair
  <2>2. \A x \in Current(v, Older(s)) : \E y \in Current(w, s) : x = <<y[1] + 1, y[2]>>
    BY <1>1, <1>3, <1>4, <2>1 DEF Current, Ages
  <2>3. \A x \in Former(v, Older(s)) : \E y \in Former(w, s) : x = <<y[1] + 1, y[2]>>
    BY <1>1, <1>3, <1>4, <2>1 DEF Former, Ages
  <2>4. /\ Current(w, s) \subseteq Ages \X (1 .. Limit) /\ IsFiniteSet(Current(w, s))
        /\ Former(w, s) \subseteq Ages \X (1 .. Limit) /\ IsFiniteSet(Former(w, s))
    <3>1. Current(w, s) \subseteq s /\ Former(w, s) \subseteq s
      BY DEF Current, Former
    <3> QED BY <1>2, <3>1, FS_Subset
  <2>5. /\ Cardinality(Current(v, Older(s))) =< Cardinality(Current(w, s))
        /\ Cardinality(Current(v, Older(s))) \in Nat /\ Cardinality(Current(w, s)) \in Nat
    BY <2>2, <2>4, OlderIsNotMore
  <2>6. /\ Cardinality(Former(v, Older(s))) =< Cardinality(Former(w, s))
        /\ Cardinality(Former(v, Older(s))) \in Nat /\ Cardinality(Former(w, s)) \in Nat
    BY <2>3, <2>4, OlderIsNotMore
  <2>7. \E x \in Older(s) : x[1] = v.age
    <3>1. PICK y \in s : y[1] = w.age
      BY <2>1 DEF WindowOpen
    <3>2. y \in Young(s)
      BY <1>8, <3>1 DEF Young
    <3>3. <<y[1] + 1, y[2]>> \in Older(s)
      BY <3>2 DEF Older
    <3> QED BY <2>1, <3>1, <3>3
  <2>8. WindowOpen(v, Older(s))
    <3>1. w.count \in Nat /\ v.count = w.count
      BY <1>1 DEF GuardPair
    <3> QED BY <2>1, <2>5, <2>6, <2>7, <3>1 DEF WindowOpen
  <2> QED BY <1>1, <1>3, <2>1, <2>8 DEF GuardPair
<1> QED BY <1>1, <1>6, <1>7, <1>8

-----------------------------------------------------------------------------
(* The steps. *)

LEMMA GuardKnown == ASSUME NEW r \in Request PROVE GuardOf(r) \in Guard /\ r.peer \in Peer
BY DEF GuardOf, Guard, Peer

\* What is served is what its guard lets through.
LEMMA ServedIsAuthorized ==
  ASSUME NEW r \in Request, Refusal(r) = 0, Credentials(r) = 200, r.method \in Changing
  PROVE  IF r.path = "ingress" THEN r.bearer = "ingress" /\ r.origin = "none"
         ELSE r.bearer = "mutation" /\ r.csrf /\ r.origin = "own"
<1>1. MethodFits(r) /\ OriginFits(r)
  BY DEF Refusal
<1>2. r.bearer = GuardOf(r) /\ (GuardOf(r) = "mutation" => r.csrf)
  BY DEF Credentials
<1>3. CASE r.path = "ingress"
  <2>1. GuardOf(r) = "ingress"
    BY <1>3 DEF GuardOf
  <2> QED BY <1>1, <1>2, <1>3, <2>1 DEF OriginFits
<1>4. CASE r.path # "ingress"
  <2>1. GuardOf(r) \in {"read", "mutation"}
    BY <1>4 DEF GuardOf
  <2>2. GuardOf(r) # "read"
    BY <1>1 DEF MethodFits, Changing
  <2>3. GuardOf(r) = "mutation" /\ r.origin = "own"
    BY <1>1, <2>1, <2>2 DEF OriginFits
  <2>4. r.csrf
    BY <1>2, <2>3, Zenon
  <2> QED BY <1>2, <1>4, <2>3, <2>4, Zenon
<1> QED BY <1>3, <1>4

LEMMA WrapStep == ASSUME GuardInv, NEW r \in Request, Wrap(r) PROVE GuardInv'
<1> DEFINE g == GuardOf(r)
           p == r.peer
           w == window[g][p]
           s == counted[g][p]
<1>1. g \in Guard /\ p \in Peer /\ GuardPair(w, s)
  BY GuardKnown DEF GuardInv
<1>2. CASE Refusal(r) # 0
  <2>1. last' = [answer |-> Refusal(r), request |-> r] /\ UNCHANGED <<window, counted>>
    BY <1>2 DEF Wrap
  <2>2. Refusal(r) \in {400, 403, 405, 421}
    BY <1>2 DEF Refusal
  <2>3. last'.answer \in {400, 403, 405, 421}
    BY <2>1, <2>2
  <2> QED BY <2>1, <2>3 DEF GuardInv, ChangesAreAuthorized
<1>3. CASE Refusal(r) = 0
  <2>1. /\ w.count =< Limit
        /\ window' = [window EXCEPT ![g][p] = Counted(w)]
        /\ counted' = IF Counted(w).count =< Limit THEN [counted EXCEPT ![g][p] = Attempt(s)] ELSE counted
        /\ last' = [answer |-> IF Counted(w).count =< Limit THEN Credentials(r) ELSE 429, request |-> r]
    BY <1>3 DEF Wrap
  <2>2. PICK t : t = IF Counted(w).count =< Limit THEN Attempt(s) ELSE s
    OBVIOUS
  <2>3. GuardPair(Counted(w), t)
    <3>1. CASE w.age = Window
      BY <1>1, <2>2, <3>1, OpensWindow
    <3>2. CASE w.age < Window
      <4>1. Counted(w).count = w.count + 1
        BY <1>1, <3>2 DEF Counted, GuardPair
      <4> QED BY <1>1, <2>1, <2>2, <3>2, <4>1, CountsInWindow, CountsRefused
    <3>3. w.age \in 0 .. Window
      BY <1>1 DEF GuardPair
    <3> QED BY <3>1, <3>2, <3>3
  <2>4. counted' = [counted EXCEPT ![g][p] = t]
    <3>1. CASE Counted(w).count =< Limit
      BY <2>1, <2>2, <3>1
    <3>2. CASE ~ (Counted(w).count =< Limit)
      <4>1. counted[g] \in [Peer -> SUBSET (Ages \X (1 .. Limit))] /\ counted \in [Guard -> [Peer -> SUBSET (Ages \X (1 .. Limit))]]
        BY <1>1 DEF GuardInv
      <4>2. [counted[g] EXCEPT ![p] = counted[g][p]] = counted[g]
        BY <1>1, <4>1
      <4>3. [counted EXCEPT ![g] = counted[g]] = counted
        BY <1>1, <4>1
      <4>4. [counted EXCEPT ![g][p] = counted[g][p]] = counted
        BY <4>2, <4>3
      <4> QED BY <2>1, <2>2, <3>2, <4>4
    <3> QED BY <3>1, <3>2
  <2>5. ASSUME NEW h \in Guard, NEW q \in Peer PROVE GuardPair(window'[h][q], counted'[h][q])
    <3>1. CASE h = g /\ q = p
      <4>1. window'[h][q] = Counted(w) /\ counted'[h][q] = t
        BY <1>1, <2>1, <2>4, <3>1 DEF GuardInv
      <4> QED BY <2>3, <4>1
    <3>2. CASE ~ (h = g /\ q = p)
      <4>1. window'[h][q] = window[h][q] /\ counted'[h][q] = counted[h][q]
        BY <1>1, <2>1, <2>4, <3>2 DEF GuardInv
      <4> QED BY <4>1 DEF GuardInv
    <3> QED BY <3>1, <3>2
  <2>6. /\ window' \in [Guard -> [Peer -> [age : 0 .. Window, count : 0 .. Limit + 1]]]
        /\ counted' \in [Guard -> [Peer -> SUBSET (Ages \X (1 .. Limit))]]
    <3>1. Counted(w) \in [age : 0 .. Window, count : 0 .. Limit + 1] /\ t \in SUBSET (Ages \X (1 .. Limit))
      BY <2>3 DEF GuardPair
    <3> HIDE DEF w, s
    <3> QED BY <1>1, <2>1, <2>4, <3>1 DEF GuardInv
  <2>7. last'.answer \in {0, 200, 400, 401, 403, 405, 421, 429}
    <3>1. Credentials(r) \in {200, 401, 403}
      BY DEF Credentials
    <3> QED BY <2>1, <3>1
  <2>8. ChangesAreAuthorized'
    <3>1. last'.answer = 200 => Credentials(r) = 200
      BY <2>1
    <3>2. last'.request = r
      BY <2>1
    <3> QED BY <1>3, <3>1, <3>2, ServedIsAuthorized DEF ChangesAreAuthorized
  <2> QED BY <2>5, <2>6, <2>7, <2>8 DEF GuardInv
<1> QED BY <1>2, <1>3

LEMMA AgesStep == ASSUME GuardInv, WindowAges PROVE GuardInv'
<1>1. ASSUME NEW g \in Guard, NEW p \in Peer PROVE GuardPair(window'[g][p], counted'[g][p])
  <2>1. /\ window'[g][p] = [window[g][p] EXCEPT !.age = IF @ < Window THEN @ + 1 ELSE @]
        /\ counted'[g][p] = Older(counted[g][p])
    BY DEF WindowAges
  <2>2. GuardPair(window[g][p], counted[g][p])
    BY DEF GuardInv
  <2> QED BY <2>1, <2>2, PairAges
<1>2. /\ window' \in [Guard -> [Peer -> [age : 0 .. Window, count : 0 .. Limit + 1]]]
      /\ counted' \in [Guard -> [Peer -> SUBSET (Ages \X (1 .. Limit))]]
  <2>1. /\ window' = [g \in Guard |-> [p \in Peer |-> window'[g][p]]]
        /\ counted' = [g \in Guard |-> [p \in Peer |-> counted'[g][p]]]
    BY DEF WindowAges
  <2>2. \A g \in Guard, p \in Peer : /\ window'[g][p] \in [age : 0 .. Window, count : 0 .. Limit + 1]
                                     /\ counted'[g][p] \in SUBSET (Ages \X (1 .. Limit))
    BY <1>1 DEF GuardPair
  <2> QED BY <2>1, <2>2
<1>3. last'.answer = 0
  BY DEF WindowAges, NoRequest
<1> QED BY <1>1, <1>2, <1>3 DEF GuardInv, ChangesAreAuthorized

LEMMA GuardInvStep == GuardInv /\ [GuardNext]_guardVars => GuardInv'
<1> SUFFICES ASSUME GuardInv, [GuardNext]_guardVars PROVE GuardInv'
  OBVIOUS
<1>1. CASE GuardNext
  BY <1>1, WrapStep, AgesStep DEF GuardNext
<1>2. CASE UNCHANGED guardVars
  BY <1>2 DEF guardVars, GuardInv, ChangesAreAuthorized
<1> QED BY <1>1, <1>2

LEMMA GuardInvariant == GuardSpec => []GuardInv
BY GuardInitInv, GuardInvStep, PTL DEF GuardSpec

LEMMA GuardFacts == GuardInv => GuardTypeOK /\ GuardHolds
<1> SUFFICES ASSUME GuardInv PROVE GuardTypeOK /\ GuardHolds
  OBVIOUS
<1>1. GuardTypeOK
  BY DEF GuardInv, GuardTypeOK
<1>2. AttemptsAreBounded
  BY AttemptsBounded DEF GuardInv, AttemptsAreBounded
<1> QED BY <1>1, <1>2 DEF GuardHolds, GuardInv

\* Every peer's window at every guard counts up to its limit, and every answer is one
\* the guard gives.
THEOREM GuardTyped == GuardSpec => []GuardTypeOK
BY GuardInvariant, GuardFacts, PTL

\* Whatever clients send, and wherever a window falls: a peer shows credentials to a
\* guard fewer than two limits' worth of times in a window's time, and what changes
\* something was authorized to.
THEOREM GuardsHold == GuardSpec => []GuardHolds
BY GuardInvariant, GuardFacts, PTL

HIDE GuardAssumption

-----------------------------------------------------------------------------
-----------------------------------------------------------------------------
(* Incident workbench.                                                     *)

WorkSpec == WorkInit /\ [][WorkNext]_workVars

RowKey == Nat \X Nat
ListNames == {"incidents", "quarantine", "occurrences", "none"}

\* The rows: an incident counts what is kept of its occurrences and what was taken out,
\* and a recovery rests on what is still there as long as it is asked for.
CaseShape == [state : {"none", "open", "resolved"}, triage : Triage \cup {"new"}, seen : Nat, count : Nat,
              excluded : Nat, recovered : Nat, run : Nat]
CountsKept(c, i) == c.count = c.excluded + Cardinality(DetailsOf(i))
Grounded(c, i) ==
  c.state = "resolved" /\ c.run # 0 /\ c.recovered + Horizon > clock /\ ~ ByComponent(i) =>
    c.recovered \in evidence /\ c.run \in passes /\ c.recovered < c.run

RowsInv ==
  /\ clock \in 1 .. MaxClock
  /\ cases \in [Case -> CaseShape] /\ \A i \in Case : cases[i].seen =< clock
  /\ manifests \in [DOMAIN Found -> [seen : Nat, disposition : {"none", "unresolved", "supported"}]]
  /\ \A q \in DOMAIN Found : manifests[q].seen =< clock
  /\ IsFiniteSet(details) /\ details \subseteq (1 .. MaxClock) \X DOMAIN Found
  /\ \A d \in details : d[1] =< clock /\ cases[Found[d[2]].incident].state # "none"
  /\ evidence \subseteq 1 .. clock /\ passes \subseteq 1 .. clock
  /\ \A i \in Case : CountsKept(cases[i], i) /\ Grounded(cases[i], i)

\* A row that was shown, or was there at the start: it is where it was, or higher.
StillThere(list, r) ==
  CASE list = "incidents" -> r[2] \in Case /\ cases[r[2]].state # "none" /\ r[1] =< cases[r[2]].seen
    [] list = "quarantine" -> r[2] \in DOMAIN Found /\ r[1] =< manifests[r[2]].seen
    [] list = "occurrences" -> r \in DetailsOf(1)
    [] list = "none" -> FALSE
Aged(r) == r[1] + Horizon < clock

ReaderShape == [list : ListNames, cursor : RowKey, got : Seq(RowKey), began : SUBSET RowKey]
ReaderInv(r) ==
  /\ r \in ReaderShape
  /\ r.list = "none" => r.got = << >> /\ r.began = {} /\ r.cursor = FirstPage
  /\ \A m \in DOMAIN r.got : r.cursor = r.got[m] \/ Below(r.cursor, r.got[m])
  /\ \A m, n \in DOMAIN r.got : m < n => Below(r.got[n], r.got[m])
  /\ r.list = "incidents" => \A m \in DOMAIN r.got : StillThere(r.list, r.got[m])
  /\ r.list = "quarantine" => \A m \in DOMAIN r.got : StillThere(r.list, r.got[m]) \/ Aged(r.got[m])
  /\ \A m, n \in DOMAIN r.got : m < n /\ r.got[m][2] = r.got[n][2] =>
       r.list # "incidents" /\ (r.list = "quarantine" => Aged(r.got[m]))
  /\ \A b \in r.began : StillThere(r.list, b)
  /\ \A b \in r.began : b \in Rows(r.list) =>
       Below(b, r.cursor) \/ \E m \in DOMAIN r.got : r.got[m] = b

WorkInv == RowsInv /\ ReaderInv(reader)

USE WorkbenchAssumption

-----------------------------------------------------------------------------
LEMMA BelowOrders ==
  ASSUME NEW a \in RowKey, NEW b \in RowKey
  PROVE  /\ ~ (Below(a, b) /\ Below(b, a)) /\ ~ Below(a, a)
         /\ Below(a, b) \/ Below(b, a) \/ a = b
         /\ \A c \in RowKey : Below(a, b) /\ Below(b, c) => Below(a, c)
BY DEF Below, RowKey

LEMMA RowsAreKeys ==
  ASSUME RowsInv, NEW list \in ListNames
  PROVE  /\ \A r \in Rows(list) : r \in RowKey /\ r[1] =< clock /\ Below(r, FirstPage) /\ StillThere(list, r)
<1>1. Case \subseteq Nat
  BY DEF Case
<1>2. CASE list = "incidents"
  <2>1. ASSUME NEW r \in IncidentRows
        PROVE  r \in RowKey /\ r[1] =< clock /\ Below(r, FirstPage) /\ StillThere("incidents", r)
    <3>1. PICK i \in Case : r = <<cases[i].seen, i>> /\ cases[i].state # "none"
      BY DEF IncidentRows
    <3>2. cases[i].seen \in Nat /\ cases[i].seen =< clock /\ i \in Nat
      BY <1>1 DEF RowsInv, CaseShape
    <3> QED BY <3>1, <3>2 DEF RowsInv, RowKey, Below, FirstPage, StillThere
  <2> QED BY <1>2, <2>1 DEF Rows
<1>3. CASE list = "quarantine"
  <2>1. ASSUME NEW r \in QuarantineRows
        PROVE  r \in RowKey /\ r[1] =< clock /\ Below(r, FirstPage) /\ StillThere("quarantine", r)
    <3>1. PICK q \in DOMAIN Found : r = <<manifests[q].seen, q>>
      BY DEF QuarantineRows
    <3>2. manifests[q].seen \in Nat /\ manifests[q].seen =< clock /\ q \in Nat
      BY DEF RowsInv
    <3> QED BY <3>1, <3>2 DEF RowsInv, RowKey, Below, FirstPage, StillThere
  <2> QED BY <1>3, <2>1 DEF Rows
<1>4. CASE list = "occurrences"
  <2>1. ASSUME NEW r \in OccurrenceRows
        PROVE  r \in RowKey /\ r[1] =< clock /\ Below(r, FirstPage) /\ StillThere("occurrences", r)
    <3>1. r \in details /\ r \in DetailsOf(1)
      BY DEF OccurrenceRows, DetailsOf
    <3>2. r \in RowKey /\ r[1] =< clock
      BY <3>1 DEF RowsInv, RowKey
    <3> QED BY <3>1, <3>2 DEF RowsInv, RowKey, Below, FirstPage, StillThere
  <2> QED BY <1>4, <2>1 DEF Rows
<1>5. CASE list = "none"
  BY <1>5 DEF Rows
<1> QED BY <1>2, <1>3, <1>4, <1>5 DEF ListNames

-----------------------------------------------------------------------------
(* What the invariant says of the properties. *)

LEMMA RowsOrdered == RowsInv => RowsAreInOrder
<1> SUFFICES ASSUME RowsInv, AuditFinds = "db_integrity_violation"
             PROVE  \E i \in Case : ByComponent(i) /\ Ungrounded(i)
  BY DEF RowsAreInOrder
<1>1. ~ \E d \in details : cases[Found[d[2]].incident].state = "none"
  BY DEF RowsInv
<1>2. \A i \in Case : ~ Miscounted(i)
  BY DEF RowsInv, Miscounted, CountsKept
<1>3. \A i \in Case : ~ ByComponent(i) => ~ Ungrounded(i)
  BY DEF RowsInv, Ungrounded, Grounded
<1> QED BY <1>1, <1>2, <1>3 DEF AuditFinds

LEMMA PagesStable == WorkInv => PagesAreStable
<1> SUFFICES ASSUME WorkInv PROVE PagesAreStable
  OBVIOUS
<1> DEFINE got == reader.got
<1>1. ReaderInv(reader) /\ reader.list \in ListNames /\ got \in Seq(RowKey) /\ \A m \in DOMAIN got : m \in Int /\ got[m] \in RowKey
  BY DEF WorkInv, ReaderInv, ReaderShape
<1>2. \A m, n \in DOMAIN got : m # n => got[m] # got[n]
  BY <1>1, BelowOrders DEF ReaderInv
<1>3. \A m, n \in DOMAIN got : m < n /\ got[m][2] = got[n][2] =>
       CASE reader.list = "incidents" -> FALSE
         [] reader.list = "quarantine" -> got[m][1] + Horizon < clock
         [] OTHER -> TRUE
  BY <1>1 DEF ReaderInv, Aged
<1>4. ReaderIsDone => \A r \in reader.began : r \in Rows(reader.list) => r \in ToSet(got)
  BY <1>1 DEF ReaderIsDone, ReaderInv, Page, ToSet
<1> QED BY <1>2, <1>3, <1>4 DEF PagesAreStable

LEMMA WorkTypes == RowsInv => WorkTypeOK
BY DEF RowsInv, WorkTypeOK, CaseShape

LEMMA WorkInitInv == WorkInit => WorkInv
<1> SUFFICES ASSUME WorkInit PROVE WorkInv
  OBVIOUS
<1>1. \A i \in Case : cases[i] = NoCase /\ DetailsOf(i) = {}
  BY DEF WorkInit, DetailsOf
<1>2. NoCase \in CaseShape
  BY DEF NoCase, CaseShape
<1>3. \A i \in Case : CountsKept(cases[i], i) /\ Grounded(cases[i], i)
  <2>1. NoCase.count = 0 /\ NoCase.excluded = 0 /\ NoCase.state = "none"
    BY DEF NoCase
  <2>2. \A i \in Case : Cardinality(DetailsOf(i)) = 0
    BY <1>1, FS_EmptySet
  <2> QED BY <1>1, <2>1, <2>2 DEF CountsKept, Grounded
<1>4. RowsInv
  BY <1>1, <1>2, <1>3, FS_EmptySet DEF RowsInv, WorkInit, NoCase, NoManifest
<1>5. ReaderInv(Away)
  BY EmptySeq DEF ReaderInv, ReaderShape, Away, FirstPage, RowKey, ListNames
<1> QED BY <1>4, <1>5 DEF WorkInv, WorkInit

-----------------------------------------------------------------------------
(* A client that pages. *)

\* What does not move the reader: its rows stay or rise, time passes.
LEMMA ReaderStands ==
  ASSUME RowsInv, NEW r, ReaderInv(r), NEW began \in SUBSET r.began,
         clock' \in Nat, clock =< clock',
         \A b \in began : StillThere(r.list, b) => StillThere(r.list, b)',
         \A b \in began : StillThere(r.list, b) /\ b \in Rows(r.list)' => b \in Rows(r.list),
         r.list = "incidents" => \A b \in RowKey : StillThere(r.list, b) => StillThere(r.list, b)',
         r.list = "quarantine" =>
           \A b \in RowKey : StillThere(r.list, b) => StillThere(r.list, b)' \/ Aged(b)',
         NEW s, s = [r EXCEPT !.began = began]
  PROVE  ReaderInv(s)'
<1>1. /\ s.list = r.list /\ s.cursor = r.cursor /\ s.got = r.got /\ s.began = began
      /\ s \in ReaderShape /\ r \in ReaderShape
  BY DEF ReaderInv, ReaderShape
<1>2. \A m \in DOMAIN r.got : r.got[m] \in RowKey
  BY <1>1 DEF ReaderShape
<1>3. clock \in Nat
  BY DEF RowsInv
<1>4. \A b \in RowKey : Aged(b) => Aged(b)'
  BY <1>3 DEF Aged, RowKey
<1>5. s.list = "none" => s.got = << >> /\ s.began = {} /\ s.cursor = FirstPage
  BY <1>1 DEF ReaderInv
<1>6. /\ \A m \in DOMAIN s.got : s.cursor = s.got[m] \/ Below(s.cursor, s.got[m])
      /\ \A m, n \in DOMAIN s.got : m < n => Below(s.got[n], s.got[m])
  BY <1>1 DEF ReaderInv
<1>7. s.list = "incidents" => \A m \in DOMAIN s.got : StillThere(s.list, s.got[m])'
  BY <1>1, <1>2 DEF ReaderInv
<1>8. s.list = "quarantine" =>
        \A m \in DOMAIN s.got : StillThere(s.list, s.got[m])' \/ Aged(s.got[m])'
  BY <1>1, <1>2, <1>4 DEF ReaderInv
<1>9. \A m, n \in DOMAIN s.got : m < n /\ s.got[m][2] = s.got[n][2] =>
        s.list # "incidents" /\ (s.list = "quarantine" => Aged(s.got[m])')
  BY <1>1, <1>2, <1>4 DEF ReaderInv
<1>10. \A b \in s.began : StillThere(s.list, b)'
  BY <1>1 DEF ReaderInv
<1>11. \A b \in s.began : b \in Rows(s.list)' => Below(b, s.cursor) \/ \E m \in DOMAIN s.got : s.got[m] = b
  BY <1>1 DEF ReaderInv
<1> QED BY <1>1, <1>5, <1>6, <1>7, <1>8, <1>9, <1>10, <1>11 DEF ReaderInv

\* Steps after which every row is still there, or higher.
RowsRise ==
  /\ \A i \in Case : /\ cases[i].state # "none" => cases'[i].state # "none"
                     /\ cases[i].seen =< cases'[i].seen
  /\ \A q \in DOMAIN Found : manifests[q].seen =< manifests'[q].seen
  /\ details \subseteq details'

LEMMA RisenStay ==
  ASSUME RowsInv, RowsInv', RowsRise, NEW list \in ListNames, NEW b, b \in RowKey
  PROVE  /\ StillThere(list, b) => StillThere(list, b)'
         /\ StillThere(list, b) /\ b \in Rows(list)' => b \in Rows(list)
<1>0. /\ \A i \in Case : cases[i].seen \in Nat /\ cases'[i].seen \in Nat
      /\ \A q \in DOMAIN Found : manifests[q].seen \in Nat /\ manifests'[q].seen \in Nat
      /\ b[1] \in Nat
  BY DEF RowsInv, CaseShape, RowKey
<1>1. CASE list = "incidents"
  <2>1. StillThere(list, b) => StillThere(list, b)'
    BY <1>0, <1>1 DEF StillThere, RowsRise
  <2>2. ASSUME StillThere(list, b), b \in Rows(list)' PROVE b \in Rows(list)
    <3>1. PICK i \in Case : b = <<cases'[i].seen, i>> /\ cases'[i].state # "none"
      BY <1>1, <2>2 DEF Rows, IncidentRows
    <3>2. b[1] = cases'[i].seen /\ b[2] = i
      BY <3>1
    <3>3. cases[i].state # "none" /\ b[1] =< cases[i].seen
      BY <1>1, <2>2, <3>2 DEF StillThere
    <3>4. cases[i].seen = cases'[i].seen
      BY <1>0, <3>2, <3>3 DEF RowsRise
    <3> QED BY <1>1, <3>1, <3>3, <3>4 DEF Rows, IncidentRows
  <2> QED BY <2>1, <2>2
<1>2. CASE list = "quarantine"
  <2>1. StillThere(list, b) => StillThere(list, b)'
    BY <1>0, <1>2 DEF StillThere, RowsRise
  <2>2. ASSUME StillThere(list, b), b \in Rows(list)' PROVE b \in Rows(list)
    <3>1. PICK q \in DOMAIN Found : b = <<manifests'[q].seen, q>> /\ manifests'[q].seen > 0
      BY <1>2, <2>2 DEF Rows, QuarantineRows
    <3>2. b[1] = manifests'[q].seen /\ b[2] = q
      BY <3>1
    <3>3. b[1] =< manifests[q].seen
      BY <1>2, <2>2, <3>2 DEF StillThere
    <3>4. manifests[q].seen = manifests'[q].seen
      BY <1>0, <3>2, <3>3 DEF RowsRise
    <3> QED BY <1>2, <3>1, <3>4 DEF Rows, QuarantineRows
  <2> QED BY <2>1, <2>2
<1>3. CASE list = "occurrences"
  BY <1>3 DEF StillThere, Rows, OccurrenceRows, DetailsOf, RowsRise
<1>4. CASE list = "none"
  BY <1>4 DEF StillThere, Rows
<1> QED BY <1>1, <1>2, <1>3, <1>4 DEF ListNames

LEMMA ReaderWaits ==
  ASSUME WorkInv, RowsInv', RowsRise, clock =< clock', UNCHANGED reader
  PROVE  WorkInv'
<1>1. PICK r : r = reader
  OBVIOUS
<1>2. ReaderInv(r) /\ RowsInv /\ r \in ReaderShape /\ r.list \in ListNames /\ r.began \subseteq RowKey
  BY <1>1 DEF WorkInv, ReaderInv, ReaderShape
<1>3. r = [r EXCEPT !.began = r.began]
  BY <1>2 DEF ReaderShape
<1>4. clock' \in Nat
  BY DEF RowsInv
<1>5. /\ \A b \in r.began : StillThere(r.list, b) => StillThere(r.list, b)'
      /\ \A b \in r.began : StillThere(r.list, b) /\ b \in Rows(r.list)' => b \in Rows(r.list)
      /\ \A b \in RowKey : StillThere(r.list, b) => StillThere(r.list, b)'
  BY <1>2, RisenStay DEF ListNames
<1>6. ReaderInv(r)'
  BY <1>2, <1>3, <1>4, <1>5, ReaderStands
<1> QED BY <1>1, <1>6 DEF WorkInv, ReaderInv

LEMMA NothingMoved ==
  ASSUME UNCHANGED <<clock, cases, details, manifests, evidence, passes>>
  PROVE  (RowsInv => RowsInv') /\ \A s : ReaderInv(s) => ReaderInv(s)'
<1>1. \A i \in Case : DetailsOf(i)' = DetailsOf(i)
  BY DEF DetailsOf
<1>2. RowsInv => RowsInv'
  BY <1>1 DEF RowsInv, CountsKept, Grounded
<1>3. \A list, b : StillThere(list, b)' <=> StillThere(list, b)
  BY DEF StillThere, DetailsOf
<1>4. \A list : Rows(list)' = Rows(list)
  BY DEF Rows, IncidentRows, QuarantineRows, OccurrenceRows, DetailsOf
<1>5. \A b : Aged(b)' <=> Aged(b)
  BY DEF Aged
<1> QED BY <1>2, <1>3, <1>4, <1>5 DEF ReaderInv

\* One page: the highest row below the cursor.
LEMMA PageIsRead ==
  ASSUME RowsInv, NEW r, ReaderInv(r), NEW list \in ListNames \ {"none"}, r.list \in {list, "none"},
         NEW line \in Page(list, r.cursor), \A other \in Page(list, r.cursor) \ {line} : Below(other, line),
         NEW s, s = [list |-> list, cursor |-> line, got |-> Append(r.got, line),
                     began |-> IF r.list = "none" THEN Rows(list) ELSE r.began]
  PROVE  ReaderInv(s)
<1> DEFINE n == Len(r.got)
<1>1. r \in ReaderShape /\ r.cursor \in RowKey /\ r.got \in Seq(RowKey) /\ n \in Nat /\ DOMAIN r.got = 1 .. n
  BY DEF ReaderInv, ReaderShape
<1>2. line \in Rows(list) /\ Below(line, r.cursor) /\ line \in RowKey /\ StillThere(list, line)
  BY RowsAreKeys DEF Page
<1>3. /\ s.list = list /\ s.cursor = line /\ s.got = Append(r.got, line)
      /\ s.began = IF r.list = "none" THEN Rows(list) ELSE r.began
  OBVIOUS
<1>4. /\ s.got \in Seq(RowKey) /\ Len(s.got) = n + 1 /\ DOMAIN s.got = 1 .. n + 1
      /\ \A m \in 1 .. n : s.got[m] = r.got[m]
      /\ s.got[n + 1] = line
  BY <1>1, <1>2, <1>3, AppendProperties
<1>5. \A m \in 1 .. n : r.got[m] \in RowKey /\ Below(line, r.got[m])
  BY <1>1, <1>2, BelowOrders DEF ReaderInv
<1>6. s \in ReaderShape
  <2>1. s.began \in SUBSET RowKey
    BY <1>1, <1>3, RowsAreKeys DEF ReaderShape
  <2>2. Append(r.got, line) \in Seq(RowKey)
    BY <1>3, <1>4
  <2> QED BY <1>2, <1>3, <2>1, <2>2 DEF ReaderShape
<1>7. /\ \A m \in DOMAIN s.got : s.cursor = s.got[m] \/ Below(s.cursor, s.got[m])
      /\ \A m, o \in DOMAIN s.got : m < o => Below(s.got[o], s.got[m])
  <2>1. \A m \in 1 .. n + 1 : m \in 1 .. n \/ m = n + 1
    BY <1>1
  <2>2. \A m, o \in 1 .. n : m < o => Below(r.got[o], r.got[m])
    BY <1>1 DEF ReaderInv
  <2>3. ~ \E m \in 1 .. n : n + 1 < m
    BY <1>1
  <2> QED BY <1>1, <1>3, <1>4, <1>5, <2>1, <2>2, <2>3
<1>8. r.list = "none" => n = 0 /\ r.began = {}
  BY <1>1 DEF ReaderInv
<1>9. /\ s.list = "incidents" => \A m \in DOMAIN s.got : StillThere(s.list, s.got[m])
      /\ s.list = "quarantine" => \A m \in DOMAIN s.got : StillThere(s.list, s.got[m]) \/ Aged(s.got[m])
  BY <1>1, <1>2, <1>3, <1>4, <1>8 DEF ReaderInv
<1>10. ASSUME NEW m \in DOMAIN s.got, NEW o \in DOMAIN s.got, m < o, s.got[m][2] = s.got[o][2]
       PROVE  s.list # "incidents" /\ (s.list = "quarantine" => Aged(s.got[m]))
  <2>1. m \in 1 .. n /\ s.got[m] = r.got[m] /\ r.got[m] \in RowKey
    BY <1>1, <1>4, <1>10
  <2>2. r.list = list
    BY <1>1, <1>8, <2>1
  <2>3. CASE o \in 1 .. n
    BY <1>1, <1>3, <1>4, <1>10, <2>1, <2>2, <2>3 DEF ReaderInv
  <2>4. CASE o = n + 1
    <3>1. line[2] = r.got[m][2] /\ Below(line, r.got[m]) /\ s.got[m] = r.got[m]
      BY <1>4, <1>5, <1>10, <2>1, <2>4
    <3>2. line[1] < r.got[m][1]
      BY <1>2, <2>1, <3>1 DEF Below, RowKey
    <3>3. list = "incidents" => line[1] = cases[line[2]].seen
      BY <1>2 DEF Rows, IncidentRows
    <3>4. list = "quarantine" => line[1] = manifests[line[2]].seen
      BY <1>2 DEF Rows, QuarantineRows
    <3>5. line[1] \in Nat /\ r.got[m][1] \in Nat
      BY <1>2, <2>1 DEF RowKey
    <3>6. list # "incidents"
      <4>1. SUFFICES ASSUME list = "incidents" PROVE FALSE
        OBVIOUS
      <4>2. StillThere(list, r.got[m])
        BY <1>1, <2>1, <2>2, <4>1 DEF ReaderInv
      <4> QED BY <3>1, <3>2, <3>3, <3>5, <4>1, <4>2 DEF StillThere
    <3>7. list = "quarantine" => Aged(r.got[m])
      <4>1. SUFFICES ASSUME list = "quarantine", ~ Aged(r.got[m]) PROVE FALSE
        OBVIOUS
      <4>2. StillThere(list, r.got[m])
        BY <1>1, <2>1, <2>2, <4>1 DEF ReaderInv
      <4> QED BY <3>1, <3>2, <3>4, <3>5, <4>1, <4>2 DEF StillThere
    <3> QED BY <1>3, <3>1, <3>6, <3>7
  <2> QED BY <1>4, <2>3, <2>4, <1>1
<1>11. \A b \in s.began : StillThere(s.list, b)
  BY <1>3, RowsAreKeys DEF ReaderInv
<1>12. ASSUME NEW b \in s.began, b \in Rows(list)
       PROVE  Below(b, line) \/ \E m \in DOMAIN s.got : s.got[m] = b
  <2>1. CASE Below(b, r.cursor)
    <3>1. b \in Page(list, r.cursor)
      BY <1>12, <2>1 DEF Page
    <3>2. b = line \/ Below(b, line)
      BY <3>1
    <3>3. n + 1 \in DOMAIN s.got
      BY <1>1, <1>4
    <3> QED BY <1>4, <3>2, <3>3
  <2>2. CASE ~ Below(b, r.cursor)
    <3>1. r.list # "none"
      <4>1. SUFFICES ASSUME r.list = "none" PROVE FALSE
        OBVIOUS
      <4>2. r.cursor = FirstPage
        BY <4>1 DEF ReaderInv
      <4> QED BY <1>12, <2>2, <4>2, RowsAreKeys
    <3>2. r.list = list /\ b \in r.began
      BY <1>3, <1>12, <3>1
    <3>3. PICK m \in DOMAIN r.got : r.got[m] = b
      BY <1>12, <2>2, <3>2 DEF ReaderInv
    <3> QED BY <1>1, <1>4, <3>3
  <2> QED BY <2>1, <2>2
<1> QED BY <1>3, <1>6, <1>7, <1>9, <1>10, <1>11, <1>12 DEF ReaderInv

LEMMA PageStep == ASSUME WorkInv, NEW list \in ListNames \ {"none"}, ReadPage(list) PROVE WorkInv'
<1>1. /\ UNCHANGED <<clock, cases, details, manifests, evidence, passes>> /\ reader.list \in {list, "none"}
      /\ \E line \in Page(list, reader.cursor) :
           /\ \A other \in Page(list, reader.cursor) \ {line} : Below(other, line)
           /\ reader' = [list |-> list, cursor |-> line, got |-> Append(reader.got, line),
                         began |-> IF reader.list = "none" THEN Rows(list) ELSE reader.began]
  BY DEF ReadPage, CursorFits
<1>2. PICK line \in Page(list, reader.cursor) :
           /\ \A other \in Page(list, reader.cursor) \ {line} : Below(other, line)
           /\ reader' = [list |-> list, cursor |-> line, got |-> Append(reader.got, line),
                         began |-> IF reader.list = "none" THEN Rows(list) ELSE reader.began]
  BY <1>1
<1>3. PICK s : s = reader'
  OBVIOUS
<1>4. ReaderInv(s)
  BY <1>1, <1>2, <1>3, PageIsRead DEF WorkInv
<1>5. RowsInv' /\ ReaderInv(s)'
  BY <1>1, <1>4, NothingMoved DEF WorkInv
<1> QED BY <1>3, <1>5 DEF WorkInv, ReaderInv

LEMMA AgainStep == ASSUME WorkInv, ReadAgain PROVE WorkInv'
<1>1. UNCHANGED <<clock, cases, details, manifests, evidence, passes>> /\ reader' = Away
  BY DEF ReadAgain
<1>2. RowsInv'
  BY <1>1, NothingMoved DEF WorkInv
<1>3. ReaderInv(Away)
  BY EmptySeq DEF ReaderInv, ReaderShape, Away, FirstPage, RowKey, ListNames
<1>4. PICK s : s = Away
  OBVIOUS
<1>5. ReaderInv(s)'
  BY <1>1, <1>3, <1>4, NothingMoved
<1> QED BY <1>1, <1>2, <1>4, <1>5 DEF WorkInv, ReaderInv

-----------------------------------------------------------------------------
(* The rows. *)

LEMMA DetailsFinite ==
  ASSUME RowsInv, NEW i \in Case
  PROVE  IsFiniteSet(DetailsOf(i)) /\ Cardinality(DetailsOf(i)) \in Nat
<1>1. DetailsOf(i) \subseteq details
  BY DEF DetailsOf
<1> QED BY <1>1, FS_Subset, FS_CardinalityType DEF RowsInv

LEMMA PersistStep ==
  ASSUME WorkInv, NEW q \in DOMAIN Found, NEW at \in 1 .. MaxClock, PersistFound(q, at) PROVE WorkInv'
<1>0. PICK i : i = Found[q].incident
  OBVIOUS
<1>20. PICK c : c = [cases[i] EXCEPT !.state = StateWhenSeen(i), !.seen = Later(cases[i].seen, at),
                                     !.count = cases[i].count + 1]
  OBVIOUS
<1> DEFINE m == manifests[q]
           f == [seen |-> Later(m.seen, at), disposition |-> IF m.seen = 0 THEN "unresolved" ELSE m.disposition]
<1>21. PICK d : d = <<at, q>>
  OBVIOUS
<1>1. /\ at =< clock /\ d \notin details /\ details' = details \cup {d}
      /\ cases' = [cases EXCEPT ![i] = c]
      /\ manifests' = (IF Found[q].component THEN manifests ELSE [manifests EXCEPT ![q] = f])
      /\ UNCHANGED <<clock, evidence, passes, reader>>
  BY <1>0, <1>20, <1>21 DEF PersistFound
<1>2. RowsInv /\ i \in Case /\ cases \in [Case -> CaseShape] /\ clock \in Nat /\ clock \in 1 .. MaxClock
  BY <1>0 DEF WorkInv, RowsInv, Case
<1>3. cases[i] \in CaseShape /\ cases[i].seen =< clock /\ at \in Nat
  BY <1>2 DEF RowsInv
<1>5. StateWhenSeen(i) \in {"open", "resolved"} /\ Later(cases[i].seen, at) \in Nat
      /\ Later(cases[i].seen, at) =< clock /\ cases[i].seen =< Later(cases[i].seen, at)
  BY <1>1, <1>2, <1>3 DEF StateWhenSeen, Later, CaseShape
<1>6. /\ c \in CaseShape /\ c.state = StateWhenSeen(i) /\ c.seen = Later(cases[i].seen, at)
      /\ c.count = cases[i].count + 1
      /\ c.excluded = cases[i].excluded /\ c.recovered = cases[i].recovered /\ c.run = cases[i].run
  <2>1. PICK st, sn : st = StateWhenSeen(i) /\ sn = Later(cases[i].seen, at)
    OBVIOUS
  <2>2. st \in {"none", "open", "resolved"} /\ sn \in Nat /\ cases[i].count + 1 \in Nat
    BY <1>3, <1>5, <2>1 DEF CaseShape
  <2>3. c = [cases[i] EXCEPT !.state = st, !.seen = sn, !.count = cases[i].count + 1]
    BY <1>20, <2>1
  <2>4. c.state = st /\ c.seen = sn /\ c.count = cases[i].count + 1
        /\ c.excluded = cases[i].excluded /\ c.recovered = cases[i].recovered /\ c.run = cases[i].run
    BY <1>3, <2>3 DEF CaseShape
  <2>5. c \in CaseShape
    BY <1>3, <2>2, <2>3 DEF CaseShape
  <2> QED BY <2>1, <2>4, <2>5
<1>7. c.state # "none" /\ c.seen =< clock /\ cases[i].seen =< c.seen
  BY <1>5, <1>6
<1>8. /\ cases' \in [Case -> CaseShape] /\ cases'[i] = c
      /\ \A j \in Case : j # i => cases'[j] = cases[j]
  BY <1>1, <1>2, <1>6
<1>9. /\ manifests' \in [DOMAIN Found -> [seen : Nat, disposition : {"none", "unresolved", "supported"}]]
      /\ \A p \in DOMAIN Found : manifests'[p].seen =< clock /\ manifests[p].seen =< manifests'[p].seen
  <2>1. /\ manifests \in [DOMAIN Found -> [seen : Nat, disposition : {"none", "unresolved", "supported"}]]
        /\ \A p \in DOMAIN Found : manifests[p].seen =< clock /\ manifests[p].seen \in Nat
    BY <1>2 DEF RowsInv
  <2>2. f \in [seen : Nat, disposition : {"none", "unresolved", "supported"}] /\ f.seen =< clock /\ m.seen =< f.seen
    BY <1>1, <1>2, <1>3, <2>1 DEF Later
  <2> HIDE DEF f
  <2>3. CASE Found[q].component
    BY <1>1, <2>1, <2>3
  <2>4. CASE ~ Found[q].component
    BY <1>1, <2>1, <2>2, <2>4
  <2> QED BY <2>3, <2>4
<1>10. d[1] = at /\ d[2] = q /\ d \in (1 .. MaxClock) \X DOMAIN Found
  BY <1>21
<1>11. DetailsOf(i)' = DetailsOf(i) \cup {d} /\ \A j \in Case : j # i => DetailsOf(j)' = DetailsOf(j)
  BY <1>0, <1>1, <1>10 DEF DetailsOf
<1>12. d \notin DetailsOf(i) /\ IsFiniteSet(DetailsOf(i))
  BY <1>1, <1>2, DetailsFinite DEF DetailsOf
<1>13. Cardinality(DetailsOf(i) \cup {d}) = Cardinality(DetailsOf(i)) + 1
  BY <1>12, FS_AddElement
<1>14. ASSUME NEW j \in Case PROVE (CountsKept(cases[j], j) /\ Grounded(cases[j], j))'
  <2>1. CountsKept(cases[j], j) /\ Grounded(cases[j], j) /\ cases[j] \in CaseShape
    BY <1>2 DEF RowsInv
  <2>2. CASE j # i
    BY <1>1, <1>8, <1>11, <2>1, <2>2 DEF CountsKept, Grounded
  <2>3. CASE j = i
    <3>1. Cardinality(DetailsOf(i)) \in Nat
      BY <1>2, DetailsFinite
    <3>2. cases[i].count \in Nat /\ cases[i].excluded \in Nat
      BY <1>3 DEF CaseShape
    <3>3. CountsKept(c, i)'
      BY <1>6, <1>11, <1>13, <2>1, <2>3, <3>1, <3>2 DEF CountsKept
    <3>4. c.state = "resolved" /\ ~ ByComponent(i) => cases[i].state = "resolved"
      BY <1>6 DEF StateWhenSeen
    <3>5. Grounded(c, i)'
      BY <1>1, <1>6, <2>1, <2>3, <3>4 DEF Grounded
    <3> QED BY <1>8, <2>3, <3>3, <3>5 DEF CountsKept, Grounded
  <2> QED BY <2>2, <2>3
<1>15. IsFiniteSet(details')
  BY <1>1, <1>2, FS_AddElement DEF RowsInv
<1>16. \A e \in details' : e[1] =< clock /\ cases'[Found[e[2]].incident].state # "none"
  <2>1. SUFFICES ASSUME NEW e \in details' PROVE e[1] =< clock /\ cases'[Found[e[2]].incident].state # "none"
    OBVIOUS
  <2>2. CASE e = d
    BY <1>0, <1>1, <1>7, <1>8, <1>10, <2>2
  <2>3. CASE e \in details
    <3>1. e[1] =< clock /\ cases[Found[e[2]].incident].state # "none" /\ e[2] \in DOMAIN Found
      BY <1>2, <2>3 DEF RowsInv
    <3>2. Found[e[2]].incident \in Case
      BY <3>1 DEF Case
    <3> QED BY <1>7, <1>8, <3>1, <3>2
  <2> QED BY <1>1, <2>2, <2>3
<1>17. \A j \in Case : cases'[j].seen =< clock
  BY <1>2, <1>7, <1>8 DEF RowsInv
<1>18. RowsInv'
  <2>1. details' \subseteq (1 .. MaxClock) \X DOMAIN Found
    BY <1>1, <1>2, <1>10 DEF RowsInv
  <2>2. (\A j \in Case : CountsKept(cases[j], j) /\ Grounded(cases[j], j))'
    BY <1>14
  <2>3. clock' = clock /\ evidence' = evidence /\ passes' = passes
    BY <1>1
  <2> QED BY <1>2, <1>8, <1>9, <1>15, <1>16, <1>17, <2>1, <2>2, <2>3 DEF RowsInv
<1>19. RowsRise
  <2>1. \A j \in Case : /\ cases[j].state # "none" => cases'[j].state # "none"
                        /\ cases[j].seen =< cases'[j].seen
    <3>1. \A j \in Case : cases[j].seen \in Nat
      BY <1>2 DEF CaseShape
    <3> QED BY <1>7, <1>8, <3>1
  <2> QED BY <1>1, <1>9, <2>1 DEF RowsRise
<1> QED BY <1>1, <1>2, <1>18, <1>19, ReaderWaits

\* Steps that touch neither the occurrences nor the reader.
LEMMA EvidenceMoves ==
  ASSUME WorkInv, clock' \in 1 .. MaxClock, clock =< clock',
         UNCHANGED <<cases, details, manifests, reader>>,
         evidence' \subseteq 1 .. clock', passes \subseteq passes', passes' \subseteq 1 .. clock',
         \A e \in evidence : e + Horizon > clock' => e \in evidence'
  PROVE  WorkInv'
<1>1. RowsInv /\ clock \in 1 .. MaxClock /\ \A i \in Case : DetailsOf(i)' = DetailsOf(i)
  BY DEF WorkInv, RowsInv, DetailsOf
<1>2. ASSUME NEW i \in Case PROVE (CountsKept(cases[i], i) /\ Grounded(cases[i], i))'
  <2>1. CountsKept(cases[i], i) /\ Grounded(cases[i], i) /\ cases[i] \in CaseShape
    BY <1>1 DEF RowsInv
  <2>2. CountsKept(cases[i], i)'
    BY <1>1, <2>1 DEF CountsKept
  <2>3. cases[i].recovered + Horizon > clock' => cases[i].recovered + Horizon > clock
    BY <1>1, <2>1 DEF CaseShape
  <2>4. Grounded(cases[i], i)'
    BY <2>1, <2>3 DEF Grounded
  <2> QED BY <2>2, <2>4
<1>3. /\ \A i \in Case : cases[i].seen \in Nat /\ cases[i].seen =< clock'
      /\ \A q \in DOMAIN Found : manifests[q].seen \in Nat /\ manifests[q].seen =< clock'
      /\ \A d \in details : d[1] =< clock'
  BY <1>1 DEF RowsInv, CaseShape
<1>4. RowsInv'
  BY <1>1, <1>2, <1>3 DEF RowsInv
<1>5. RowsRise
  BY <1>3 DEF RowsRise
<1> QED BY <1>4, <1>5, ReaderWaits

LEMMA OtherSteps ==
  ASSUME WorkInv, Supported \/ CheckPasses \/ ClockTicks \/ \E days \in Horizon .. Horizon + 1 : ApplyFactRetention(days)
  PROVE  WorkInv'
<1>1. clock \in 1 .. MaxClock /\ evidence \subseteq 1 .. clock /\ passes \subseteq 1 .. clock
  BY DEF WorkInv, RowsInv
<1>6. clock \in 1 .. clock /\ clock =< clock
  BY <1>1
<1>2. CASE Supported
  <2>1. evidence' = evidence \cup {clock} /\ clock' = clock /\ passes' = passes
        /\ UNCHANGED <<cases, details, manifests, reader>>
    BY <1>2 DEF Supported
  <2>2. evidence' \subseteq 1 .. clock' /\ \A e \in evidence : e + Horizon > clock' => e \in evidence'
    BY <1>1, <1>6, <2>1
  <2> QED BY <1>1, <1>6, <2>1, <2>2, EvidenceMoves
<1>3. CASE CheckPasses
  <2>1. passes' = passes \cup {clock} /\ clock' = clock /\ evidence' = evidence
        /\ UNCHANGED <<cases, details, manifests, reader>>
    BY <1>3 DEF CheckPasses
  <2>2. passes' \subseteq 1 .. clock' /\ passes \subseteq passes'
    BY <1>1, <1>6, <2>1
  <2> QED BY <1>1, <1>6, <2>1, <2>2, EvidenceMoves
<1>4. CASE ClockTicks
  <2>1. clock' \in 1 .. MaxClock /\ clock =< clock' /\ evidence \subseteq 1 .. clock' /\ passes \subseteq 1 .. clock'
    BY <1>1, <1>4 DEF ClockTicks
  <2>2. UNCHANGED <<cases, details, manifests, evidence, passes, reader>>
    BY <1>4 DEF ClockTicks
  <2> QED BY <2>1, <2>2, EvidenceMoves
<1>5. ASSUME NEW days \in Horizon .. Horizon + 1, ApplyFactRetention(days) PROVE WorkInv'
  <2>1. \A e \in evidence : e + Horizon > clock => e >= Cutoff(days)
    BY <1>1 DEF Cutoff
  <2>2. /\ evidence' = {e \in evidence : e >= Cutoff(days)} /\ clock' = clock
        /\ UNCHANGED <<cases, details, manifests, passes, reader>>
    BY <1>5 DEF ApplyFactRetention
  <2>3. evidence' \subseteq 1 .. clock' /\ \A e \in evidence : e + Horizon > clock' => e \in evidence'
    BY <1>1, <2>1, <2>2
  <2> QED BY <1>1, <1>6, <2>2, <2>3, EvidenceMoves
<1> QED BY <1>2, <1>3, <1>4, <1>5

LEMMA CaseSteps ==
  ASSUME WorkInv, NEW i \in Case, NEW c \in CaseShape, cases' = [cases EXCEPT ![i] = c],
         c.state # "none", c.seen = cases[i].seen, c.count = cases[i].count, c.excluded = cases[i].excluded,
         Grounded(c, i), UNCHANGED <<clock, details, evidence, passes, reader>>,
         manifests' \in [DOMAIN Found -> [seen : Nat, disposition : {"none", "unresolved", "supported"}]],
         \A q \in DOMAIN Found : manifests'[q].seen = manifests[q].seen
  PROVE  WorkInv'
<1>1. RowsInv /\ cases \in [Case -> CaseShape] /\ \A j \in Case : DetailsOf(j)' = DetailsOf(j)
  BY DEF WorkInv, RowsInv, DetailsOf
<1>2. cases' \in [Case -> CaseShape] /\ cases'[i] = c /\ \A j \in Case : j # i => cases'[j] = cases[j]
  BY <1>1
<1>3. ASSUME NEW j \in Case PROVE (CountsKept(cases[j], j) /\ Grounded(cases[j], j))'
  <2>1. CountsKept(cases[j], j) /\ Grounded(cases[j], j)
    BY <1>1 DEF RowsInv
  <2> QED BY <1>1, <1>2, <2>1 DEF CountsKept, Grounded
<1>4. \A d \in details : d[1] =< clock /\ cases'[Found[d[2]].incident].state # "none"
  <2>1. SUFFICES ASSUME NEW d \in details PROVE d[1] =< clock /\ cases'[Found[d[2]].incident].state # "none"
    OBVIOUS
  <2>2. d[1] =< clock /\ cases[Found[d[2]].incident].state # "none" /\ d[2] \in DOMAIN Found
    BY <1>1 DEF RowsInv
  <2>3. Found[d[2]].incident \in Case
    BY <2>2 DEF Case
  <2> QED BY <1>2, <2>2, <2>3
<1>5. /\ \A j \in Case : cases'[j].seen = cases[j].seen /\ cases[j].seen \in Nat
      /\ \A q \in DOMAIN Found : manifests[q].seen \in Nat
  BY <1>1, <1>2 DEF RowsInv, CaseShape
<1>6. RowsInv'
  BY <1>1, <1>2, <1>3, <1>4, <1>5 DEF RowsInv
<1>7. RowsRise
  BY <1>2, <1>5 DEF RowsRise
<1>8. clock =< clock'
  BY <1>1 DEF RowsInv
<1> QED BY <1>6, <1>7, <1>8, ReaderWaits

LEMMA TriageStep ==
  ASSUME WorkInv, NEW i \in Case, NEW t \in Triage, SetIncidentTriage(i, t) PROVE WorkInv'
<1>1. RowsInv /\ cases[i] \in CaseShape /\ cases \in [Case -> CaseShape] /\ Grounded(cases[i], i)
  BY DEF WorkInv, RowsInv
<1>2. PICK c : c = [cases[i] EXCEPT !.triage = t]
  OBVIOUS
<1>3. /\ cases' = [cases EXCEPT ![i] = c] /\ cases[i].state # "none"
      /\ UNCHANGED <<clock, details, manifests, evidence, passes, reader>>
  BY <1>1, <1>2 DEF SetIncidentTriage
<1>4. /\ c.state = cases[i].state /\ c.seen = cases[i].seen /\ c.count = cases[i].count
      /\ c.excluded = cases[i].excluded /\ c.recovered = cases[i].recovered /\ c.run = cases[i].run
      /\ c \in CaseShape
  BY <1>1, <1>2 DEF CaseShape
<1>5. Grounded(c, i)
  BY <1>1, <1>4 DEF Grounded
<1>6. manifests \in [DOMAIN Found -> [seen : Nat, disposition : {"none", "unresolved", "supported"}]]
  BY <1>1 DEF RowsInv
<1> QED BY <1>3, <1>4, <1>5, <1>6, CaseSteps

LEMMA RecoveryStep ==
  ASSUME WorkInv, NEW i \in Case, NEW e \in evidence, NEW p \in passes, RecordIngressRecovery(i, e, p)
  PROVE  WorkInv'
<1>1. RowsInv /\ cases[i] \in CaseShape /\ cases \in [Case -> CaseShape] /\ e \in Nat /\ p \in Nat /\ e < p
  BY DEF WorkInv, RowsInv, RecordIngressRecovery, Recovers
<1>2. PICK c : c = [cases[i] EXCEPT !.state = "resolved", !.recovered = e, !.run = p]
  OBVIOUS
<1>3. /\ cases' = [cases EXCEPT ![i] = c] /\ UNCHANGED <<clock, details, evidence, passes, reader>>
      /\ manifests' = [q \in DOMAIN Found |-> IF Found[q].incident = i /\ manifests[q].seen > 0
                          THEN [manifests[q] EXCEPT !.disposition = "supported"] ELSE manifests[q]]
  BY <1>2 DEF RecordIngressRecovery
<1>4. /\ c.state = "resolved" /\ c.seen = cases[i].seen /\ c.count = cases[i].count
      /\ c.excluded = cases[i].excluded /\ c.recovered = e /\ c.run = p
      /\ c \in CaseShape
  BY <1>1, <1>2 DEF CaseShape
<1>5. Grounded(c, i)
  BY <1>1, <1>4 DEF Grounded
<1>6. /\ manifests' \in [DOMAIN Found -> [seen : Nat, disposition : {"none", "unresolved", "supported"}]]
      /\ \A q \in DOMAIN Found : manifests'[q].seen = manifests[q].seen
  <2>1. manifests \in [DOMAIN Found -> [seen : Nat, disposition : {"none", "unresolved", "supported"}]]
    BY <1>1 DEF RowsInv
  <2> QED BY <1>3, <2>1
<1> QED BY <1>3, <1>4, <1>5, <1>6, CaseSteps

-----------------------------------------------------------------------------
(* Retention takes occurrences and manifests away. *)

LEMMA RetentionStep ==
  ASSUME WorkInv, NEW days \in Horizon .. Horizon + 1, ApplyIncidentMetadataRetention(days)
  PROVE  WorkInv'
<1>1. PICK cut : cut = Cutoff(days)
  OBVIOUS
<1>2. PICK gone : gone = {d \in details : d[1] < cut}
  OBVIOUS
<1>3. /\ details' = details \ gone
      /\ cases' = [i \in Case |-> [cases[i] EXCEPT
            !.excluded = cases[i].excluded + Cardinality({d \in gone : Found[d[2]].incident = i})]]
      /\ manifests' = [q \in DOMAIN Found |-> IF manifests[q].seen < cut THEN NoManifest ELSE manifests[q]]
      /\ reader' = IF reader.list = "incidents" THEN reader
                   ELSE [reader EXCEPT !.began = {r \in reader.began : r[1] >= cut}]
      /\ UNCHANGED <<clock, evidence, passes>>
  BY <1>1, <1>2 DEF ApplyIncidentMetadataRetention
<1>4. RowsInv /\ cases \in [Case -> CaseShape] /\ clock \in Nat /\ clock \in 1 .. MaxClock
  BY DEF WorkInv, RowsInv
<1>5. cut \in Nat /\ (cut > 0 => cut + Horizon =< clock)
  BY <1>1, <1>4 DEF Cutoff
<1>6. /\ manifests \in [DOMAIN Found -> [seen : Nat, disposition : {"none", "unresolved", "supported"}]]
      /\ \A q \in DOMAIN Found : manifests[q].seen \in Nat /\ manifests[q].seen =< clock
  BY <1>4 DEF RowsInv
<1>7. ASSUME NEW i \in Case
      PROVE  /\ cases'[i] \in CaseShape /\ (CountsKept(cases[i], i) /\ Grounded(cases[i], i))'
             /\ cases'[i].seen = cases[i].seen /\ cases'[i].state = cases[i].state
  <2>1. PICK out : out = {d \in gone : Found[d[2]].incident = i}
    OBVIOUS
  <2>2. out \subseteq DetailsOf(i) /\ DetailsOf(i)' = DetailsOf(i) \ out
    BY <1>2, <1>3, <2>1 DEF DetailsOf
  <2>3. IsFiniteSet(DetailsOf(i)) /\ Cardinality(DetailsOf(i)) \in Nat
    BY <1>4, DetailsFinite
  <2>4. IsFiniteSet(out) /\ Cardinality(out) \in Nat
    BY <2>2, <2>3, FS_Subset, FS_CardinalityType
  <2>5. Cardinality(DetailsOf(i) \ out) = Cardinality(DetailsOf(i)) - Cardinality(out)
    <3>1. Cardinality(DetailsOf(i) \ out) = Cardinality(DetailsOf(i)) - Cardinality(DetailsOf(i) \cap out)
      BY <2>3, FS_Difference
    <3>2. DetailsOf(i) \cap out = out
      BY <2>2
    <3> QED BY <3>1, <3>2
  <2>6. PICK n : n = cases[i].excluded + Cardinality(out)
    OBVIOUS
  <2>7. cases'[i] = [cases[i] EXCEPT !.excluded = n] /\ cases[i] \in CaseShape
    BY <1>3, <1>4, <2>1, <2>6
  <2>8. n \in Nat
    BY <2>4, <2>6, <2>7 DEF CaseShape
  <2>9. PICK c : c = cases'[i]
    OBVIOUS
  <2>10. /\ c \in CaseShape /\ c.state = cases[i].state /\ c.seen = cases[i].seen /\ c.count = cases[i].count
         /\ c.excluded = n /\ c.recovered = cases[i].recovered /\ c.run = cases[i].run
    BY <2>7, <2>8, <2>9 DEF CaseShape
  <2>11. CountsKept(cases[i], i) /\ Grounded(cases[i], i)
    BY <1>4 DEF RowsInv
  <2>12. cases[i].count \in Nat /\ cases[i].excluded \in Nat
    BY <2>7 DEF CaseShape
  <2>13. CountsKept(c, i)'
    BY <2>2, <2>3, <2>4, <2>5, <2>6, <2>10, <2>11, <2>12 DEF CountsKept
  <2>14. Grounded(c, i)'
    BY <1>3, <2>10, <2>11 DEF Grounded
  <2> QED BY <2>9, <2>10, <2>13, <2>14 DEF CountsKept, Grounded
<1>8. /\ manifests' \in [DOMAIN Found -> [seen : Nat, disposition : {"none", "unresolved", "supported"}]]
      /\ \A q \in DOMAIN Found : manifests'[q].seen =< clock
  BY <1>3, <1>6, <1>4 DEF NoManifest
<1>9. cases' \in [Case -> CaseShape]
  <2>1. cases' = [i \in Case |-> cases'[i]]
    BY <1>3
  <2> QED BY <1>7, <2>1
<1>10. IsFiniteSet(details') /\ details' \subseteq details
  BY <1>3, <1>4, FS_Subset DEF RowsInv
<1>11. \A d \in details' : d[1] =< clock /\ cases'[Found[d[2]].incident].state # "none"
  <2>1. SUFFICES ASSUME NEW d \in details' PROVE d[1] =< clock /\ cases'[Found[d[2]].incident].state # "none"
    OBVIOUS
  <2>2. d[1] =< clock /\ cases[Found[d[2]].incident].state # "none" /\ d[2] \in DOMAIN Found
    BY <1>4, <1>10 DEF RowsInv
  <2>3. Found[d[2]].incident \in Case
    BY <2>2 DEF Case
  <2> QED BY <1>7, <2>2, <2>3
<1>12. RowsInv'
  <2>1. \A i \in Case : cases'[i].seen =< clock
    BY <1>4, <1>7 DEF RowsInv
  <2>2. (\A i \in Case : CountsKept(cases[i], i) /\ Grounded(cases[i], i))'
    BY <1>7
  <2> QED BY <1>3, <1>4, <1>8, <1>9, <1>10, <1>11, <2>1, <2>2 DEF RowsInv
<1>13. PICK r : r = reader
  OBVIOUS
<1>14. ReaderInv(r) /\ r \in ReaderShape /\ r.list \in ListNames /\ r.began \subseteq RowKey
  BY <1>13 DEF WorkInv, ReaderInv, ReaderShape
<1>15. PICK began : began = IF r.list = "incidents" THEN r.began ELSE {b \in r.began : b[1] >= cut}
  OBVIOUS
<1>16. began \in SUBSET r.began /\ reader' = [r EXCEPT !.began = began]
  <2>1. CASE r.list = "incidents"
    <3>1. r = [r EXCEPT !.began = r.began]
      BY <1>14 DEF ReaderShape
    <3> QED BY <1>3, <1>13, <1>15, <2>1, <3>1
  <2>2. CASE r.list # "incidents"
    BY <1>3, <1>13, <1>15, <2>2
  <2> QED BY <2>1, <2>2
<1>17. ASSUME r.list = "incidents", NEW b \in RowKey
       PROVE  /\ StillThere(r.list, b) => StillThere(r.list, b)'
              /\ StillThere(r.list, b) /\ b \in Rows(r.list)' => b \in Rows(r.list)
  <2>1. IncidentRows' = IncidentRows
    BY <1>7 DEF IncidentRows
  <2> QED BY <1>7, <1>17, <2>1 DEF StillThere, Rows
<1>18. ASSUME r.list = "quarantine", NEW b \in RowKey, b[1] >= cut
       PROVE  /\ StillThere(r.list, b) => StillThere(r.list, b)'
              /\ StillThere(r.list, b) /\ b \in Rows(r.list)' => b \in Rows(r.list)
  <2>1. b[1] \in Nat
    BY DEF RowKey
  <2>2. StillThere(r.list, b) => manifests'[b[2]] = manifests[b[2]]
    BY <1>3, <1>5, <1>6, <1>18, <2>1 DEF StillThere
  <2>3. ASSUME b \in Rows(r.list)'
        PROVE  b[2] \in DOMAIN Found /\ b = <<manifests'[b[2]].seen, b[2]>> /\ manifests'[b[2]].seen > 0
    BY <1>18, <2>3 DEF Rows, QuarantineRows
  <2>4. StillThere(r.list, b) /\ b \in Rows(r.list)' => b \in Rows(r.list)
    BY <1>18, <2>2, <2>3 DEF Rows, QuarantineRows
  <2>5. StillThere(r.list, b) => StillThere(r.list, b)'
    BY <1>18, <2>2 DEF StillThere
  <2> QED BY <2>4, <2>5
<1>19. ASSUME r.list = "occurrences", NEW b \in RowKey, b[1] >= cut
       PROVE  /\ StillThere(r.list, b) => StillThere(r.list, b)'
              /\ StillThere(r.list, b) /\ b \in Rows(r.list)' => b \in Rows(r.list)
  <2>1. b[1] \in Nat
    BY DEF RowKey
  <2> QED BY <1>2, <1>3, <1>5, <1>19, <2>1 DEF StillThere, Rows, OccurrenceRows, DetailsOf
<1>20. ASSUME r.list = "quarantine", NEW b \in RowKey, StillThere(r.list, b)
       PROVE  StillThere(r.list, b)' \/ Aged(b)'
  <2>1. b[1] \in Nat
    BY DEF RowKey
  <2>2. CASE b[1] >= cut
    BY <1>18, <1>20, <2>2
  <2>3. CASE b[1] < cut
    BY <1>3, <1>4, <1>5, <2>1, <2>3 DEF Aged
  <2> QED BY <1>5, <2>1, <2>2, <2>3
<1>21. ASSUME NEW b \in began
       PROVE  /\ StillThere(r.list, b) => StillThere(r.list, b)'
              /\ StillThere(r.list, b) /\ b \in Rows(r.list)' => b \in Rows(r.list)
  <2>1. b \in RowKey /\ (r.list # "incidents" => b[1] >= cut)
    BY <1>14, <1>15, <1>16
  <2>2. CASE r.list = "none"
    BY <2>2 DEF StillThere
  <2> QED BY <1>14, <1>17, <1>18, <1>19, <2>1, <2>2 DEF ListNames
<1>22. clock' \in Nat /\ clock =< clock'
  BY <1>3, <1>4
<1>23. PICK s : s = [r EXCEPT !.began = began]
  OBVIOUS
<1>24. ReaderInv(s)'
  BY <1>4, <1>14, <1>16, <1>17, <1>20, <1>21, <1>22, <1>23, ReaderStands
<1>25. ReaderInv(reader)'
  BY <1>16, <1>23, <1>24 DEF ReaderInv
<1> QED BY <1>12, <1>25 DEF WorkInv

LEMMA WorkInvStep == WorkInv /\ [WorkNext]_workVars => WorkInv'
<1> SUFFICES ASSUME WorkInv, [WorkNext]_workVars PROVE WorkInv'
  OBVIOUS
<1>1. CASE UNCHANGED workVars
  <2>1. PICK s : s = reader
    OBVIOUS
  <2>2. RowsInv' /\ ReaderInv(s)'
    BY <1>1, <2>1, NothingMoved DEF workVars, WorkInv
  <2> QED BY <1>1, <2>1, <2>2 DEF WorkInv, ReaderInv, workVars
<1>2. CASE \E q \in DOMAIN Found, at \in 1 .. MaxClock : PersistFound(q, at)
  BY <1>2, PersistStep
<1>3. CASE Supported \/ CheckPasses \/ ClockTicks
  BY <1>3, OtherSteps
<1>4. CASE ReadAgain
  BY <1>4, AgainStep
<1>5. CASE \E i \in Case, t \in Triage : SetIncidentTriage(i, t)
  BY <1>5, TriageStep
<1>6. CASE \E i \in Case, e \in evidence, p \in passes : RecordIngressRecovery(i, e, p)
  BY <1>6, RecoveryStep
<1>7. CASE \E days \in Horizon .. Horizon + 1 :
             ApplyIncidentMetadataRetention(days) \/ ApplyFactRetention(days)
  BY <1>7, RetentionStep, OtherSteps
<1>8. CASE ListIncidents \/ ListQuarantine \/ ListIncidentOccurrences
  BY <1>8, PageStep DEF ListIncidents, ListQuarantine, ListIncidentOccurrences, ListNames
<1> QED BY <1>1, <1>2, <1>3, <1>4, <1>5, <1>6, <1>7, <1>8 DEF WorkNext

LEMMA WorkInvariant == WorkSpec => []WorkInv
BY WorkInitInv, WorkInvStep, PTL DEF WorkSpec

LEMMA WorkFacts == WorkInv => WorkTypeOK /\ WorkbenchHolds
BY WorkTypes, RowsOrdered, PagesStable DEF WorkInv, WorkbenchHolds

\* Times lie in what has passed, and every occurrence is one that can be found.
THEOREM WorkTyped == WorkSpec => []WorkTypeOK
BY WorkInvariant, WorkFacts, PTL

\* Whatever is found, late or again, recovers and is taken away by either retention, and
\* however a client pages meanwhile: the audit finds the rows in order, and the pages
\* miss no row that stayed and repeat none.
THEOREM WorkbenchStaysTrue == WorkSpec => []WorkbenchHolds
BY WorkInvariant, WorkFacts, PTL

HIDE WorkbenchAssumption

-----------------------------------------------------------------------------
-----------------------------------------------------------------------------
(* The operations side by side.                                            *)

LEMMA PartsBegin ==
  Init => /\ JobInit /\ ApprovalInit /\ ArtifactInit /\ MirrorInit /\ GuardInit /\ WorkInit
          /\ InstallInit /\ SoakInit /\ MigrateInit
BY DEF Init

\* A behaviour of the whole is one of every part.
LEMMA PartsStep ==
  [Next]_vars =>
    /\ [JobNext]_jobVars /\ [ApprovalNext]_approvalVars /\ [ArtifactNext]_artifactVars
    /\ [MirrorNext]_mirrorVars /\ [GuardNext]_guardVars /\ [WorkNext]_workVars
    /\ [InstallNext]_installVars /\ [SoakNext]_soakVars /\ [MigrateNext]_migrationVars
<1>1. CASE UNCHANGED vars
  BY <1>1 DEF vars
<1>2. CASE Next
  BY <1>2 DEF Next
<1> QED BY <1>1, <1>2

LEMMA SpecSteps == Spec => Init /\ [][Next]_vars
BY PTL DEF Spec

LEMMA PartsOfSpec ==
  Spec => /\ JobSpec /\ ApprovalSpec /\ ArtifactSpec /\ MirrorSpec /\ GuardSpec /\ WorkSpec
          /\ InstallSpec /\ SoakSpec /\ MigrateSpec
BY SpecSteps, PartsBegin, PartsStep, PTL
   DEF JobSpec, ApprovalSpec, ArtifactSpec, MirrorSpec, GuardSpec, WorkSpec, InstallSpec, SoakSpec, MigrateSpec

\* Whatever the appliance does for its operator, every part keeps its types.
THEOREM OperationsTyped == Spec => []OperationsTypeOK
<1>1. (JobTypeOK /\ ApprovalTypeOK /\ ArtifactTypeOK /\ MirrorInv /\ GuardTypeOK /\ WorkTypeOK
       /\ InstallTypeOK /\ SoakTypeOK /\ MigrateTypeOK) => OperationsTypeOK
  BY DEF OperationsTypeOK, MirrorInv
<1> QED BY PartsOfSpec, JobTypes, ApprovalsTyped, ArtifactsTyped, MirrorInvariant, GuardTyped, WorkTyped,
           InstallTyped, SoakTyped, MigrateTyped, <1>1, PTL

\* Its guarantees one by one hold of the whole as of the part.
THEOREM OperationsAreSafe == Spec => [](OneLiveLease /\ ApprovalsAccounted /\ ArchivedOnlyReconciled)
BY PartsOfSpec, LeaseIsExclusive, ApprovalsAreConsumedOnce, MirrorIsSafe, PTL

\* What is published is true: an artifact verifies, a soak's evidence is earned.
THEOREM PublishedStaysTrue == Spec => []PublishedIsTrue
<1>1. ArtifactsVerify /\ PassIsEarned => PublishedIsTrue
  BY DEF PublishedIsTrue
<1> QED BY PartsOfSpec, PublishedArtifactsVerify, SoakPassIsEarned, <1>1, PTL

\* What an operator relies on holds, for any requests, targets, findings and builds.
THEOREM OperatorStaysServed == Spec => []OperatorIsServed
<1>1. GuardHolds /\ PlansOwnOnlyTheirs /\ WorkbenchHolds /\ SchemaIsKnown => OperatorIsServed
  BY DEF OperatorIsServed
<1> QED BY PartsOfSpec, GuardsHold, PlansStayOutOfOthers, WorkbenchStaysTrue, SchemaStaysKnown, <1>1, PTL
===============================================================================
