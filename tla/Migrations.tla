------------------------------ MODULE Migrations ------------------------------
(***************************************************************************)
(* The schema and its three ledgers (internal/dataplatform/migrate.go,     *)
(* internal/integrity/migrate.go, internal/runtime/migrate.go), brought up *)
(* to date by whatever starts: NewAppliance and MigrateOnly run the three  *)
(* Migrate functions in turn (internal/runtime/assembly.go).               *)
(*                                                                         *)
(* Nothing excludes two processes: each reads a ledger once and then       *)
(* applies what it did not find, every migration in a transaction with its *)
(* row of that ledger, whose primary key is the version.  Builds differ in *)
(* the migrations they embed.  A version is an index, a checksum a value.  *)
(***************************************************************************)
EXTENDS Integers, Sequences, FiniteSets

CONSTANTS
  Build,         \* build -> ledger (1 to 3) -> checksums of its migrations, in order
  Equivalent,    \* pairs of checksums <<applied, embedded>> of ledger 1 that are one SQL
  Starter,       \* processes that may run at a time
  MaxMigrate     \* bound: starts

ASSUME MigrationAssumption ==
  /\ MaxMigrate \in Nat /\ 1 \in DOMAIN Build
  /\ \A b \in DOMAIN Build, of \in 1 .. 3 :
       Len(Build[b][of]) \in Nat /\ DOMAIN Build[b][of] = 1 .. Len(Build[b][of])

VARIABLES
  ledgers,       \* rows <<ledger, version, checksum>>
  schema,        \* transactions that changed the schema, in order: such rows
  starter,       \* per process: [at, build, of, read, next]
  begun

migrationVars == <<ledgers, schema, starter, begun>>

NotStarted == [at |-> "off", build |-> 1, of |-> 1, read |-> {}, next |-> 1]

MigrateInit ==
  /\ ledgers = {} /\ schema = <<>> /\ starter = [p \in Starter |-> NotStarted] /\ begun = 0

Embedded(p) == Build[starter[p].build][starter[p].of]
Stops(p) == starter' = [starter EXCEPT ![p] = NotStarted]

-----------------------------------------------------------------------------
StartMigrating(p) ==
  /\ starter[p].at = "off" /\ begun < MaxMigrate /\ begun' = begun + 1
  /\ \E b \in DOMAIN Build :
       starter' = [starter EXCEPT ![p] = [NotStarted EXCEPT !.at = "reading", !.build = b]]
  /\ UNCHANGED <<ledgers, schema>>

\* SELECT version, checksum: outside of any transaction, once for each ledger.
ReadLedger(p) ==
  /\ starter[p].at = "reading"
  /\ starter' = [starter EXCEPT ![p].at = "migrating", ![p].next = 1,
                   ![p].read = {row \in ledgers : row[1] = starter[p].of}]
  /\ UNCHANGED <<ledgers, schema, begun>>

\* migrationChecksumMatches; the other two ledgers know no equivalents.
Matches(of, applied, embedded) == applied = embedded \/ (of = 1 /\ <<applied, embedded>> \in Equivalent)

ReadRow(p) == {row \in starter[p].read : row[2] = starter[p].next}

\* A migration that was read in the ledger: skipped, or edited since.
PassApplied(p) ==
  /\ starter[p].at = "migrating" /\ starter[p].next \in DOMAIN Embedded(p) /\ ReadRow(p) # {}
  /\ IF \A row \in ReadRow(p) : Matches(row[1], row[3], Embedded(p)[starter[p].next])
     THEN starter' = [starter EXCEPT ![p].next = @ + 1]
     ELSE Stops(p)
  /\ UNCHANGED <<ledgers, schema, begun>>

ApplyMigrationOnConflict(p) ==
  LET row == <<starter[p].of, starter[p].next, Embedded(p)[starter[p].next]>> IN
  /\ starter[p].at = "migrating" /\ starter[p].next \in DOMAIN Embedded(p) /\ ReadRow(p) = {}
  /\ ledgers' = ledgers \cup {row} /\ schema' = Append(schema, row)
  /\ starter' = [starter EXCEPT ![p].next = @ + 1]
  /\ UNCHANGED begun

\* The SQL and its row commit together; a row that another process has inserted
\* since rolls both back and ends this process.
ApplyMigration(p) ==
  LET row == <<starter[p].of, starter[p].next, Embedded(p)[starter[p].next]>> IN
  /\ starter[p].at = "migrating" /\ starter[p].next \in DOMAIN Embedded(p) /\ ReadRow(p) = {}
  /\ IF \E other \in ledgers : other[1] = row[1] /\ other[2] = row[2]
     THEN Stops(p) /\ UNCHANGED <<ledgers, schema>>
     ELSE /\ ledgers' = ledgers \cup {row} /\ schema' = Append(schema, row)
          /\ starter' = [starter EXCEPT ![p].next = @ + 1]
  /\ UNCHANGED begun

NextLedger(p) ==
  /\ starter[p].at = "migrating" /\ starter[p].next \notin DOMAIN Embedded(p)
  /\ starter' = [starter EXCEPT ![p] =
       IF @.of = 3 THEN [@ EXCEPT !.at = "migrated"]
       ELSE [@ EXCEPT !.at = "reading", !.of = starter[p].of + 1]]
  /\ UNCHANGED <<ledgers, schema, begun>>

\* The connection is lost, or the process ends.
LeaveMigrating(p) ==
  /\ starter[p].at # "off" /\ Stops(p) /\ UNCHANGED <<ledgers, schema, begun>>

MigrateNext ==
  \E p \in Starter :
     \/ StartMigrating(p) \/ ReadLedger(p) \/ PassApplied(p) \/ ApplyMigration(p)
     \/ NextLedger(p) \/ LeaveMigrating(p)

-----------------------------------------------------------------------------
MigrateTypeOK ==
  /\ \A p \in Starter : /\ starter[p].at \in {"off", "reading", "migrating", "migrated"}
                        /\ starter[p].build \in DOMAIN Build /\ starter[p].of \in 1 .. 3
  /\ begun \in 0 .. MaxMigrate

Position(row) == CHOOSE i \in DOMAIN schema : schema[i] = row

\* Whoever migrates, and wherever it ends: a migration changes the schema once, the
\* ledgers say which ones did, and no migration came before one it may build on.
LedgersTellTheSchema ==
  /\ ledgers = {schema[i] : i \in DOMAIN schema} /\ Cardinality(ledgers) = Len(schema)
  /\ \A row \in ledgers : \A v \in 1 .. row[2] - 1 :
       \E earlier \in ledgers : /\ earlier[1] = row[1] /\ earlier[2] = v
                               /\ Position(earlier) < Position(row)

\* A process that goes on has every migration it was built with, as it was built.
GoesOnMigrated == \A p \in Starter : starter[p].at = "migrated" =>
  \A of \in 1 .. 3 : \A v \in DOMAIN Build[starter[p].build][of] :
     \E row \in ledgers : /\ row[1] = of /\ row[2] = v
                         /\ Matches(of, row[3], Build[starter[p].build][of][v])

SchemaIsKnown == LedgersTellTheSchema /\ GoesOnMigrated
=============================================================================
