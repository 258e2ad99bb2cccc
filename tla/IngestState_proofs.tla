-------------------------- MODULE IngestState_proofs --------------------------
(***************************************************************************)
(* Proofs about the ways in which observations enter, each for any number  *)
(* of requests, lines, records and failures: what the Ingestor promises is *)
(* durable and its capacity is kept; the watcher's checkpoints agree with  *)
(* the evidence; the receivers' answers, the pages of MCP evidence and the *)
(* counters of what was rejected are true.  The last part proves all of it *)
(* of the whole (MCIngest).                                                *)
(***************************************************************************)
EXTENDS MCIngest, FiniteSetTheorems, SequenceTheorems, TLAPS

IngestSpec == IngestInit /\ [][IngestNext]_ingestVars

Point == [offset : Nat, sequence : Nat]
Marks == Request \cup {Fresh}
State == [rev : Nat, mark : Marks, check : Point]

\* What a watermark and an offset claim.
Owned(mark) == mark # Fresh => mark \in stored
Left(l) == l \in settled.facts \cup settled.quarantine
Settlement == [facts : SUBSET Int, quarantine : SUBSET Int]
Covered(offset) == \A l \in Line : 2 * l <= offset => Left(l)
Sound(s) == s \in State /\ Owned(s.mark) /\ Covered(s.check.offset)

Stores == Sound(mem) /\ Sound(disk) /\ RestartKeepsCheckpoint

\* A watermark that waits to be stored claims what was claimed before, or the
\* sequence of its own request.
Waits(r, n) == r.mark = n \/ Owned(r.mark)
Asked ==
  /\ request \in [Request -> [at : {"idle", "admitted", "reserved", "durable", "accepted"}, mark : Marks]]
  /\ \A n \in Request :
       /\ request[n].at \in {"admitted", "reserved", "durable"} => Waits(request[n], n)
       /\ request[n].at \in {"durable", "accepted"} => n \in stored

Audited ==
  /\ audit \in [at : {"idle", "read"}, mark : Marks]
  /\ audit.at = "read" => Owned(audit.mark)

\* The importer is ahead of the store, and everything up to the line it holds
\* is settled.
Imported ==
  /\ importer \in [at : {"idle", "open", "read", "durable", "rejected"}, check : Point, whole : BOOLEAN]
  /\ written \in Nat /\ settled \in Settlement
  /\ importer.at # "idle" => importer.check.offset >= mem.check.offset
  /\ importer.at = "open" => importer.check.offset <= written
  /\ importer.at \in {"open", "durable", "rejected"} => Covered(importer.check.offset)
  /\ importer.at \in {"read", "durable", "rejected"} => importer.check.offset <= written
  /\ importer.at = "read" =>
       \A l \in Line : 2 * l <= importer.check.offset => Left(l) \/ l = Current

IngestInv == Stores /\ Asked /\ Audited /\ Imported

-----------------------------------------------------------------------------
LEMMA LineBounds ==
  ASSUME NEW o \in Nat
  PROVE  LineAt(o) \in Nat /\ 2 * LineAt(o) - 2 <= o /\ o < 2 * LineAt(o)
BY DEF LineAt

\* A read ends in the line it began in: what it passes is that line or settled.
LEMMA ReadOneLine ==
  ASSUME written \in Nat, NEW o \in Nat, o <= written, o # written, NEW l \in Line,
         2 * l <= ReadEnd(o), ~ (2 * l <= o)
  PROVE  l = LineAt(ReadEnd(o) - 1)
<1>1. l \in Nat
  BY DEF Line
<1>2. LineAt(o) \in Nat /\ 2 * LineAt(o) - 2 <= o /\ o < 2 * LineAt(o)
  BY LineBounds
<1>3. ReadEnd(o) <= 2 * LineAt(o) /\ ReadEnd(o) \in Nat
  BY <1>2 DEF ReadEnd, EndOfLine
<1>4. l = LineAt(o) /\ ReadEnd(o) = 2 * l
  BY <1>1, <1>2, <1>3
<1>5. 2 * l - 1 \in Nat
  BY <1>1, <1>4
<1>6. /\ LineAt(2 * l - 1) \in Nat
      /\ 2 * LineAt(2 * l - 1) - 2 <= 2 * l - 1 /\ 2 * l - 1 < 2 * LineAt(2 * l - 1)
  BY <1>5, LineBounds
<1> QED BY <1>1, <1>4, <1>6

LEMMA ReadOn ==
  ASSUME written \in Nat, NEW o \in Nat, o <= written
  PROVE  ReadEnd(o) \in Nat /\ o <= ReadEnd(o) /\ ReadEnd(o) <= written
<1>1. LineAt(o) \in Nat /\ o < 2 * LineAt(o)
  BY LineBounds
<1> QED BY <1>1 DEF ReadEnd, EndOfLine

-----------------------------------------------------------------------------
LEMMA InitInv == IngestInit => IngestInv
<1> SUFFICES ASSUME IngestInit PROVE IngestInv
  OBVIOUS
<1>1. mem = [rev |-> 0, mark |-> 0, check |-> [offset |-> 0, sequence |-> 0]] /\ disk = mem
  BY DEF IngestInit, Fresh, Start
<1>2. Covered(0)
  BY DEF Covered, Line
<1>3. Stores
  BY <1>1, <1>2 DEF Stores, Sound, State, Point, Marks, Fresh, Owned, RestartKeepsCheckpoint
<1>4. Asked /\ Audited
  BY DEF IngestInit, Asked, Audited, Quiet, Marks, Fresh
<1>5. Imported
  BY DEF IngestInit, Imported, Start, Point, Settlement
<1> QED BY <1>3, <1>4, <1>5 DEF IngestInv

\* Claims stay true while the sink only gains.
Gains == stored \subseteq stored' /\ \A l \in Line : Left(l) => Left(l)'

LEMMA StoresStay ==
  ASSUME Stores, Gains, UNCHANGED <<mem, disk>>
  PROVE  Stores'
BY DEF Stores, Gains, Sound, Owned, Covered, RestartKeepsCheckpoint

\* A commit writes the new state, or keeps the old one, or leaves the file
\* ahead of the memory.
LEMMA CommitKeeps ==
  ASSUME Stores, Gains, NEW next, Commit(next), Sound(next), next.check.offset >= mem.check.offset
  PROVE  Stores' /\ mem' \in {mem, next}
<1>1. \/ mem' = next /\ disk' = next
      \/ mem' = mem /\ disk' \in {disk, next}
  BY DEF Commit
<1>2. Sound(mem)' /\ Sound(disk)'
  BY <1>1 DEF Stores, Gains, Sound, Owned, Covered
<1>3. RestartKeepsCheckpoint'
  <2>1. next.check.offset \in Nat /\ mem.check.offset \in Nat
    BY DEF Stores, Sound, State, Point
  <2> QED BY <1>1, <2>1 DEF Stores, RestartKeepsCheckpoint
<1> QED BY <1>1, <1>2, <1>3 DEF Stores

\* A watermark commit changes the watermark alone.
LEMMA MarkKeeps ==
  ASSUME IngestInv, NEW mark \in Marks, Owned(mark), Commit(WithMark(mark)),
         UNCHANGED <<stored, settled, importer, written>>
  PROVE  Stores' /\ Imported'
<1> DEFINE next == WithMark(mark)
<1>1. mem \in State /\ mem.rev \in Nat
  BY DEF IngestInv, Stores, Sound, State
<1>2. next \in State /\ next.mark = mark /\ next.check = mem.check
  <2> DEFINE bumped == [mem EXCEPT !.rev = mem.rev + 1]
  <2>1. next = [bumped EXCEPT !.mark = mark]
    BY DEF WithMark, next
  <2>2. bumped \in State /\ bumped.mark = mem.mark /\ bumped.check = mem.check
    BY <1>1 DEF State
  <2> HIDE DEF next, bumped
  <2> QED BY <1>1, <2>1, <2>2 DEF State
<1>3. Sound(next) /\ next.check.offset >= mem.check.offset
  BY <1>1, <1>2 DEF IngestInv, Stores, Sound, State, Point
<1>4. Gains
  BY DEF Gains, Left
<1> HIDE DEF next
<1>5. Stores' /\ mem' \in {mem, next}
  BY <1>3, <1>4, CommitKeeps DEF IngestInv, next
<1>6. mem'.check = mem.check
  BY <1>2, <1>5
<1>7. Imported'
  BY <1>6 DEF IngestInv, Imported, Covered, Left, Current
<1> QED BY <1>5, <1>7

-----------------------------------------------------------------------------
LEMMA RequestStep ==
  ASSUME IngestInv, NEW n \in Request, Arrive(n) \/ Reserve(n) \/ Deliver(n)
  PROVE  IngestInv'
<1> USE DEF IngestInv
<1>1. /\ UNCHANGED <<mem, disk, written, importer, settled, audit>>
      /\ stored \subseteq stored' /\ Gains
  BY DEF Arrive, Reserve, Deliver, Gains, Left
<1>2. Stores'
  BY <1>1, StoresStay
<1>3. Audited' /\ Imported'
  BY <1>1 DEF Audited, Imported, Owned, Covered, Left, Current
<1>4. Asked'
  <2>1. CASE Arrive(n)
    <3>1. Fold(mem.mark, n) = n \/ Fold(mem.mark, n) = mem.mark
      BY DEF Fold
    <3>2. mem.mark \in Marks /\ Owned(mem.mark) /\ n \in Marks
      BY DEF Stores, Sound, State, Marks
    <3> HIDE DEF Fold
    <3> QED BY <2>1, <3>1, <3>2 DEF Arrive, Asked, Waits, Owned
  <2>2. CASE Reserve(n)
    BY <2>2 DEF Reserve, Answer, Asked, Waits, Owned
  <2>3. CASE Deliver(n)
    BY <2>3 DEF Deliver, Answer, Asked, Waits, Owned
  <2> QED BY <2>1, <2>2, <2>3
<1> QED BY <1>2, <1>3, <1>4

LEMMA StoreMarkStep ==
  ASSUME IngestInv, NEW n \in Request, StoreMark(n)
  PROVE  IngestInv'
<1>1. request[n].at = "durable" /\ request[n].mark \in Marks /\ Owned(request[n].mark) /\ n \in stored
  BY DEF StoreMark, IngestInv, Asked, Waits, Owned
<1>2. Stores' /\ Imported'
  BY <1>1, MarkKeeps DEF StoreMark
<1>3. Asked' /\ Audited'
  BY <1>1 DEF StoreMark, Answer, IngestInv, Asked, Audited, Waits, Owned
<1> QED BY <1>2, <1>3 DEF IngestInv

LEMMA UnknownStep ==
  ASSUME IngestInv, UnknownPayload
  PROVE  IngestInv'
<1>1. Fresh \in Marks /\ Owned(Fresh)
  BY DEF Marks, Owned
<1>2. Stores' /\ Imported'
  BY <1>1, MarkKeeps DEF UnknownPayload
<1>3. Asked' /\ Audited'
  BY DEF UnknownPayload, IngestInv, Asked, Audited, Waits, Owned
<1> QED BY <1>2, <1>3 DEF IngestInv

LEMMA AuditStep ==
  ASSUME IngestInv, AuditRead \/ AuditWrite
  PROVE  IngestInv'
<1>1. CASE AuditRead
  <2>1. UNCHANGED <<mem, disk, stored, request, written, importer, settled>>
        /\ audit' = [at |-> "read", mark |-> mem.mark]
    BY <1>1 DEF AuditRead
  <2>2. mem.mark \in Marks /\ Owned(mem.mark)
    BY DEF IngestInv, Stores, Sound, State
  <2>3. Audited' /\ Asked'
    BY <2>1, <2>2 DEF IngestInv, Audited, Asked, Waits, Owned
  <2>4. Stores' /\ Imported'
    BY <2>1 DEF IngestInv, Stores, Sound, Owned, Covered, RestartKeepsCheckpoint, Imported, Left, Current
  <2> QED BY <2>3, <2>4 DEF IngestInv
<1>2. CASE AuditWrite
  <2>1. audit.mark \in Marks /\ Owned(audit.mark)
    BY <1>2 DEF AuditWrite, IngestInv, Audited
  <2>2. Stores' /\ Imported'
    BY <1>2, <2>1, MarkKeeps DEF AuditWrite
  <2>3. Audited' /\ Asked'
    BY <1>2 DEF AuditWrite, Quiet, IngestInv, Audited, Asked, Waits, Owned, Marks
  <2> QED BY <2>2, <2>3 DEF IngestInv
<1> QED BY <1>1, <1>2

\* The importer, while the stores stay as they are.
LEMMA ImportStep ==
  ASSUME IngestInv, AgentWrites \/ ImportBegin \/ ReadLine \/ HandOver
  PROVE  IngestInv'
<1> USE DEF IngestInv
<1>1. UNCHANGED <<mem, disk, stored, request, audit>>
  BY DEF AgentWrites, ImportBegin, ReadLine, HandOver
<1>2. Gains
  <2>1. ASSUME HandOver PROVE \A l \in Line : Left(l) => Left(l)'
    <3>1. CASE settled' = [settled EXCEPT !.facts = @ \cup {Current}]
      BY <3>1 DEF Settlement, Imported, Left
    <3>2. CASE settled' = [settled EXCEPT !.quarantine = @ \cup {Current}]
      BY <3>2 DEF Settlement, Imported, Left
    <3> QED BY <2>1, <3>1, <3>2 DEF HandOver, Left
  <2> QED BY <1>1, <2>1 DEF AgentWrites, ImportBegin, ReadLine, Gains, Left
<1>3. Stores'
  BY <1>1, <1>2, StoresStay
<1>4. Asked' /\ Audited'
  BY <1>1 DEF Asked, Audited, Waits, Owned
<1>5. mem.check \in Point /\ Covered(mem.check.offset)
  BY DEF Stores, Sound, State
<1>6. Imported'
  <2>1. CASE AgentWrites
    <3>1. written' = written + 1 /\ UNCHANGED <<importer, settled>>
      BY <2>1 DEF AgentWrites
    <3>2. importer.check.offset \in Nat /\ written \in Nat
      BY DEF Imported, Point
    <3> QED BY <1>1, <3>1, <3>2 DEF Imported, Covered, Left, Current
  <2>2. CASE ImportBegin
    <3>1. /\ importer' = [importer EXCEPT !.at = "open", !.check = mem.check]
          /\ mem.check.offset <= written /\ UNCHANGED <<written, settled>>
      BY <2>2 DEF ImportBegin
    <3>2. /\ importer' \in [at : {"idle", "open", "read", "durable", "rejected"}, check : Point, whole : BOOLEAN]
          /\ importer'.at = "open" /\ importer'.check = mem.check
      BY <1>5, <3>1 DEF Imported
    <3>3. mem.check.offset >= mem.check.offset
      BY <1>5 DEF Point
    <3> QED BY <1>1, <1>5, <3>1, <3>2, <3>3 DEF Imported, Covered, Left
  <2>3. CASE ReadLine
    <3> DEFINE o == importer.check.offset
    <3>1. /\ importer.at = "open" /\ UNCHANGED <<written, settled>>
          /\ o \in Nat /\ written \in Nat /\ o <= written /\ Covered(o)
          /\ mem.check.offset \in Nat /\ o >= mem.check.offset
          /\ importer.check.sequence \in Nat
      BY <1>5, <2>3 DEF ReadLine, Imported, Point
    <3>2. CASE o = written /\ importer' = [importer EXCEPT !.at = "idle"]
      BY <1>1, <3>1, <3>2 DEF Imported
    <3>3. CASE /\ o # written
               /\ importer' = [at |-> "read", whole |-> o % 2 = 0 /\ ReadEnd(o) % 2 = 0,
                               check |-> [offset |-> ReadEnd(o), sequence |-> importer.check.sequence + 1]]
      <4>1. ReadEnd(o) \in Nat /\ o <= ReadEnd(o) /\ ReadEnd(o) <= written
        BY <3>1, ReadOn
      <4>2. /\ importer'.at = "read" /\ importer'.check.offset = ReadEnd(o)
            /\ importer'.check.sequence = importer.check.sequence + 1
            /\ importer' \in [at : {"idle", "open", "read", "durable", "rejected"}, check : Point, whole : BOOLEAN]
        <5>1. (o % 2 = 0 /\ ReadEnd(o) % 2 = 0) \in BOOLEAN
          OBVIOUS
        <5> HIDE DEF o
        <5> QED BY <3>1, <3>3, <4>1, <5>1 DEF Point
      <4>3. \A l \in Line : 2 * l <= ReadEnd(o) => Left(l) \/ l = LineAt(ReadEnd(o) - 1)
        BY <3>1, <3>3, ReadOneLine DEF Covered
      <4>4. ReadEnd(o) >= mem.check.offset
        BY <3>1, <4>1
      <4> HIDE DEF o
      <4>5. \A l \in Line : 2 * l <= importer'.check.offset => Left(l)' \/ l = Current'
        BY <3>1, <4>2, <4>3 DEF Left, Current, LineAt
      <4> QED BY <1>1, <3>1, <4>1, <4>2, <4>4, <4>5 DEF Imported
    <3> QED BY <2>3, <3>2, <3>3 DEF ReadLine
  <2>4. CASE HandOver
    <3>1. /\ importer.at = "read" /\ written' = written
          /\ importer' \in {[importer EXCEPT !.at = "durable"], [importer EXCEPT !.at = "rejected"],
                            [importer EXCEPT !.at = "idle"]}
      BY <2>4 DEF HandOver
    <3>4. importer'.at # "idle" => Left(Current)'
      <4>1. Current' = Current
        BY <3>1 DEF Imported, Current
      <4>2. importer'.at # "idle" =>
              Current \in settled'.facts \/ Current \in settled'.quarantine
        BY <2>4 DEF HandOver, Imported, Settlement
      <4> QED BY <4>1, <4>2 DEF Left
    <3>2. /\ importer' \in [at : {"idle", "open", "read", "durable", "rejected"}, check : Point, whole : BOOLEAN]
          /\ importer'.at \in {"durable", "rejected", "idle"} /\ importer'.check = importer.check
      BY <3>1 DEF Imported
    <3>3. importer'.at # "idle" => Covered(importer.check.offset)'
      BY <1>2, <3>1, <3>2, <3>4 DEF Imported, Covered, Gains, Current
    <3>5. settled' \in Settlement
      <4>1. Current \in Int
        BY DEF Imported, Point, Current, LineAt
      <4> HIDE DEF Current
      <4>2. settled \in Settlement
        BY DEF Imported
      <4> QED BY <2>4, <4>1, <4>2 DEF HandOver, Settlement
    <3> QED BY <1>1, <3>1, <3>2, <3>3, <3>5 DEF Imported, Covered
  <2> QED BY <2>1, <2>2, <2>3, <2>4
<1> QED BY <1>3, <1>4, <1>6

LEMMA CheckpointStep ==
  ASSUME IngestInv, StoreCheckpoint
  PROVE  IngestInv'
<1> USE DEF IngestInv
<1> DEFINE next == [mem EXCEPT !.rev = @ + 1, !.check = importer.check]
<1>1. /\ importer.at \in {"durable", "rejected"} /\ Commit(next)
      /\ importer' = [importer EXCEPT !.at = IF @ = "durable" THEN "open" ELSE "idle"]
      /\ UNCHANGED <<stored, request, written, settled, audit>>
  BY DEF StoreCheckpoint
<1>2. /\ importer.check \in Point /\ Covered(importer.check.offset)
      /\ importer.check.offset >= mem.check.offset /\ importer.check.offset <= written
  BY <1>1 DEF Imported
<1>3. mem \in State /\ mem.rev \in Nat /\ Owned(mem.mark)
  BY DEF Stores, Sound, State
<1>4. next \in State /\ next.mark = mem.mark /\ next.check = importer.check
  <2> DEFINE bumped == [mem EXCEPT !.rev = mem.rev + 1]
  <2>1. next = [bumped EXCEPT !.check = importer.check]
    BY DEF next
  <2>2. bumped \in State /\ bumped.mark = mem.mark /\ bumped.check = mem.check
    BY <1>2, <1>3 DEF State
  <2> HIDE DEF next, bumped
  <2> QED BY <1>2, <1>3, <2>1, <2>2 DEF State
<1>5. Sound(next) /\ next.check.offset >= mem.check.offset
  BY <1>2, <1>3, <1>4 DEF Sound
<1>6. Gains
  BY <1>1 DEF Gains, Left
<1> HIDE DEF next
<1>7. Stores' /\ mem' \in {mem, next}
  BY <1>1, <1>5, <1>6, CommitKeeps
<1>8. /\ importer' \in [at : {"idle", "open", "read", "durable", "rejected"}, check : Point, whole : BOOLEAN]
      /\ importer'.at \in {"open", "idle"} /\ importer'.check = importer.check
  BY <1>1 DEF Imported
<1>9. importer.check.offset >= mem'.check.offset
  BY <1>2, <1>4, <1>7 DEF Point
<1>10. Imported'
  BY <1>1, <1>2, <1>8, <1>9 DEF Imported, Covered, Left
<1>11. Asked' /\ Audited'
  BY <1>1 DEF Asked, Audited, Waits, Owned
<1> QED BY <1>7, <1>10, <1>11

LEMMA CrashStep ==
  ASSUME IngestInv, IngestCrash
  PROVE  IngestInv'
<1> USE DEF IngestInv
<1>1. /\ mem' = disk /\ UNCHANGED <<disk, stored, written, settled>>
      /\ request' = [n \in Request |-> IF n \in Running THEN Quiet ELSE request[n]]
      /\ importer' = [importer EXCEPT !.at = "idle"] /\ audit' = Quiet
  BY DEF IngestCrash
<1>2. Stores'
  BY <1>1 DEF Stores, Sound, Owned, Covered, Left, RestartKeepsCheckpoint, State, Point
<1>3. Quiet \in [at : {"idle"}, mark : Marks] /\ Quiet.at = "idle"
  BY DEF Quiet, Marks
<1> HIDE DEF Running, Quiet
<1>4. Asked'
  BY <1>1, <1>3 DEF Asked, Waits, Owned
<1>5. Audited' /\ Imported'
  BY <1>1, <1>3 DEF Audited, Imported
<1> QED BY <1>2, <1>4, <1>5

LEMMA InvStep == IngestInv /\ [IngestNext]_ingestVars => IngestInv'
<1> SUFFICES ASSUME IngestInv, [IngestNext]_ingestVars PROVE IngestInv'
  OBVIOUS
<1>1. CASE UNCHANGED ingestVars
  BY <1>1 DEF ingestVars, IngestInv, Stores, Sound, Owned, Covered, Left, RestartKeepsCheckpoint,
              Asked, Waits, Audited, Imported, Current
<1>2. ASSUME NEW n \in Request, Arrive(n) \/ Reserve(n) \/ Deliver(n) \/ StoreMark(n) PROVE IngestInv'
  BY <1>2, RequestStep, StoreMarkStep
<1>3. CASE UnknownPayload \/ AuditRead \/ AuditWrite
  BY <1>3, UnknownStep, AuditStep
<1>4. CASE AgentWrites \/ ImportBegin \/ ReadLine \/ HandOver \/ StoreCheckpoint
  BY <1>4, ImportStep, CheckpointStep
<1>5. CASE IngestCrash
  BY <1>5, CrashStep
<1> QED BY <1>1, <1>2, <1>3, <1>4, <1>5 DEF IngestNext

LEMMA Invariant == IngestSpec => []IngestInv
BY InitInv, InvStep, PTL DEF IngestSpec

-----------------------------------------------------------------------------
\* Nothing the Ingestor promises, to a client, in a watermark or in the offset
\* of the importer, is ahead of what the sink owns or of the file on disk,
\* whatever fails, crashes or is overwritten by a slower request in between.
THEOREM PromisesStayDurable == IngestSpec => []PromisesAreDurable
<1>1. IngestInv => PromisesAreDurable
  BY DEF IngestInv, Stores, Sound, Owned, Covered, Left, Fresh, Asked, PromisesAreDurable,
         ClaimsAreDurable, NothingSkippedSilently
<1> QED BY <1>1, Invariant, PTL

-----------------------------------------------------------------------------
\* The bounds: the commits made, the transcript, and the slots that are taken.
Bounded ==
  /\ mem.rev <= MaxRevision /\ disk.rev <= MaxRevision
  /\ disk.check.offset <= written /\ written <= 2 * MaxLine
  /\ Slots <= Concurrent

ImporterSlot == IF importer.at \in {"read", "durable", "rejected"} THEN 1 ELSE 0

LEMMA RunningIsFinite ==
  /\ IsFiniteSet(Running) /\ Cardinality(Running) \in Nat
  /\ Slots = Cardinality(Running) + ImporterSlot
  /\ Cardinality(Running') \in Nat
  /\ Slots' = Cardinality(Running') + ImporterSlot'
<1>1. IsFiniteSet(Request)
  BY IngestAssumption, FS_Interval DEF Request
<1>2. IsFiniteSet(Running)
  BY <1>1, FS_Subset DEF Running
<1>3. PICK later : later = Running'
  OBVIOUS
<1>4. later \subseteq Request
  BY <1>3 DEF Running
<1>5. Cardinality(later) \in Nat
  BY <1>1, <1>4, FS_Subset, FS_CardinalityType
<1> QED BY <1>2, <1>3, <1>5, FS_CardinalityType DEF Slots, ImporterSlot

\* No more requests run, and the importer takes no slot it had not.
LEMMA NoMoreSlots ==
  ASSUME Slots <= Concurrent, Running' \subseteq Running, ImporterSlot' <= ImporterSlot
  PROVE  (Slots <= Concurrent)'
<1> PICK less : less = Running'
  OBVIOUS
<1>1. Cardinality(less) <= Cardinality(Running)
  BY RunningIsFinite, FS_Subset
<1>2. Cardinality(Running') <= Cardinality(Running)
  BY <1>1
<1>3. Cardinality(Running') \in Nat /\ Slots' = Cardinality(Running') + ImporterSlot'
  BY RunningIsFinite
<1>4. ImporterSlot \in Nat /\ ImporterSlot' \in Nat
  BY DEF ImporterSlot
<1> QED BY <1>2, <1>3, <1>4, RunningIsFinite, IngestAssumption

\* One more takes a slot only where one was free.
LEMMA OneMoreSlot ==
  ASSUME Free, \/ \E n \in Request : Running' = Running \cup {n} /\ ImporterSlot' = ImporterSlot
               \/ Running' = Running /\ ImporterSlot = 0
  PROVE  (Slots <= Concurrent)'
<1>1. Cardinality(Running') \in Nat /\ Slots' = Cardinality(Running') + ImporterSlot'
  BY RunningIsFinite
<1>2. ImporterSlot \in {0, 1} /\ ImporterSlot' \in {0, 1}
  BY DEF ImporterSlot
<1>3. Cardinality(Running') + ImporterSlot' <= Cardinality(Running) + ImporterSlot + 1
  <2>1. CASE Running' = Running /\ ImporterSlot = 0
    BY <1>2, <2>1, RunningIsFinite
  <2>2. ASSUME NEW n \in Request, Running' = Running \cup {n}, ImporterSlot' = ImporterSlot
        PROVE  Cardinality(Running') <= Cardinality(Running) + 1
    <3>1. Cardinality(Running \cup {n}) <= Cardinality(Running) + 1
      <4> PICK now : now = Running
        OBVIOUS
      <4>1. IsFiniteSet(now) /\ Cardinality(now) \in Nat
        BY RunningIsFinite
      <4>2. Cardinality(now \cup {n}) <= Cardinality(now) + 1
        BY <4>1, FS_AddElement
      <4> QED BY <4>2
    <3> QED BY <2>2, <3>1
  <2> QED BY <1>1, <1>2, <2>1, <2>2, RunningIsFinite
<1> QED BY <1>1, <1>2, <1>3, RunningIsFinite, IngestAssumption DEF Free

LEMMA SlotsStep ==
  ASSUME IngestInv, Slots <= Concurrent, IngestNext
  PROVE  (Slots <= Concurrent)'
<1>0. request \in [Request -> [at : {"idle", "admitted", "reserved", "durable", "accepted"}, mark : Marks]]
      /\ importer \in [at : {"idle", "open", "read", "durable", "rejected"}, check : Point, whole : BOOLEAN]
  BY DEF IngestInv, Asked, Imported
<1>1. ASSUME NEW n \in Request, Arrive(n) PROVE (Slots <= Concurrent)'
  <2>1. Free /\ importer' = importer
        /\ request' = [request EXCEPT ![n] = [at |-> "admitted", mark |-> Fold(mem.mark, n)]]
    BY <1>1 DEF Arrive
  <2>2. Running' = Running \cup {n}
    BY <1>0, <2>1 DEF Running
  <2> QED BY <2>1, <2>2, OneMoreSlot DEF ImporterSlot
<1>2. ASSUME NEW n \in Request, Reserve(n) \/ Deliver(n) \/ StoreMark(n) PROVE (Slots <= Concurrent)'
  <2>1. /\ request[n].at \in {"admitted", "reserved", "durable"} /\ importer' = importer
        /\ \E how \in {"reserved", "durable", "idle", "accepted"} : Answer(n, how)
    BY <1>2 DEF Reserve, Deliver, StoreMark
  <2>2. Running' \subseteq Running
    BY <1>0, <2>1 DEF Running, Answer
  <2> QED BY <2>1, <2>2, NoMoreSlots DEF ImporterSlot
<1>3. CASE UnknownPayload \/ AuditRead \/ AuditWrite \/ AgentWrites
  BY <1>3, NoMoreSlots DEF UnknownPayload, AuditRead, AuditWrite, AgentWrites, Running, ImporterSlot
<1>4. CASE ImportBegin
  <2>1. importer' = [importer EXCEPT !.at = "open", !.check = mem.check] /\ request' = request /\ importer.at = "idle"
    BY <1>4 DEF ImportBegin
  <2>2. importer'.at = "open"
    BY <1>0, <2>1
  <2> QED BY <2>1, <2>2, NoMoreSlots DEF Running, ImporterSlot
<1>5. CASE ReadLine
  <2>1. Free /\ importer.at = "open" /\ request' = request
    BY <1>5 DEF ReadLine
  <2> QED BY <2>1, OneMoreSlot DEF Running, ImporterSlot
<1>6. CASE HandOver \/ StoreCheckpoint
  <2>1. importer.at \in {"read", "durable", "rejected"} /\ request' = request
    BY <1>6 DEF HandOver, StoreCheckpoint
  <2> QED BY <2>1, NoMoreSlots DEF Running, ImporterSlot
<1>7. CASE IngestCrash
  <2>1. Running' = {}
    BY <1>0, <1>7 DEF IngestCrash, Running, Quiet
  <2>2. importer'.at = "idle"
    BY <1>0, <1>7 DEF IngestCrash
  <2> QED BY <2>1, <2>2, NoMoreSlots DEF ImporterSlot
<1> QED BY <1>1, <1>2, <1>3, <1>4, <1>5, <1>6, <1>7 DEF IngestNext

LEMMA BoundedBegin == IngestInit => Bounded
<1> SUFFICES ASSUME IngestInit PROVE Bounded
  OBVIOUS
<1>1. /\ mem = [rev |-> 0, mark |-> 0, check |-> [offset |-> 0, sequence |-> 0]] /\ disk = mem
      /\ written = 0
  BY DEF IngestInit, Fresh, Start
<1>2. Running = {}
  BY DEF IngestInit, Quiet, Running
<1>3. ImporterSlot = 0
  BY DEF IngestInit, ImporterSlot
<1>4. Slots = 0
  BY <1>2, <1>3, RunningIsFinite, FS_EmptySet
<1> QED BY <1>1, <1>4, IngestAssumption DEF Bounded

\* A commit is one of those a behaviour may make.
LEMMA CommitIsBounded ==
  ASSUME IngestInv, Bounded, NEW next, Commit(next), next.rev = mem.rev + 1, next.check.offset <= written
  PROVE  mem'.rev <= MaxRevision /\ disk'.rev <= MaxRevision /\ disk'.check.offset <= written
<1>1. mem.rev \in Nat
  BY DEF IngestInv, Stores, Sound, State
<1>2. mem.rev < MaxRevision /\ mem' \in {mem, next} /\ disk' \in {disk, next}
  BY DEF Commit
<1> QED BY <1>1, <1>2, IngestAssumption DEF Bounded

LEMMA BoundedStep ==
  ASSUME IngestInv, Bounded, IngestNext
  PROVE  Bounded'
<1>0. /\ mem \in State /\ disk \in State /\ mem.rev \in Nat /\ written \in Nat
      /\ mem.check.offset \in Nat /\ disk.check.offset \in Nat /\ mem.check.offset <= disk.check.offset
  BY DEF IngestInv, Stores, Sound, State, Point, Imported, RestartKeepsCheckpoint
<1>1. (Slots <= Concurrent)'
  BY SlotsStep DEF Bounded
<1>2. mem'.rev <= MaxRevision /\ disk'.rev <= MaxRevision /\ disk'.check.offset <= written'
      /\ written' <= 2 * MaxLine
  <2>1. ASSUME NEW mark, Commit(WithMark(mark)), written' = written
        PROVE  mem'.rev <= MaxRevision /\ disk'.rev <= MaxRevision /\ disk'.check.offset <= written'
               /\ written' <= 2 * MaxLine
    <3> PICK next : next = WithMark(mark)
      OBVIOUS
    <3>1. next.rev = mem.rev + 1 /\ next.check = mem.check
      BY <1>0 DEF WithMark, State
    <3>2. next.check.offset <= written
      BY <1>0, <3>1 DEF Bounded
    <3> QED BY <2>1, <3>1, <3>2, CommitIsBounded DEF Bounded
  <2>2. CASE StoreCheckpoint
    <3> PICK next : next = [mem EXCEPT !.rev = @ + 1, !.check = importer.check]
      OBVIOUS
    <3>1. next.rev = mem.rev + 1 /\ next.check = importer.check
      BY <1>0 DEF State
    <3>2. importer.check.offset <= written /\ Commit(next) /\ written' = written
      BY <2>2 DEF StoreCheckpoint, IngestInv, Imported
    <3> QED BY <3>1, <3>2, CommitIsBounded DEF Bounded
  <2>3. CASE IngestCrash
    BY <2>3 DEF IngestCrash, Bounded
  <2>4. CASE AgentWrites
    BY <1>0, <2>4, IngestAssumption DEF AgentWrites, Bounded
  <2>5. CASE UnknownPayload
    BY <2>1, <2>5 DEF UnknownPayload
  <2>6. CASE AuditWrite
    BY <2>1, <2>6 DEF AuditWrite
  <2>7. CASE AuditRead \/ ImportBegin \/ ReadLine \/ HandOver
    BY <2>7 DEF AuditRead, ImportBegin, ReadLine, HandOver, Bounded
  <2>8. ASSUME NEW n \in Request, StoreMark(n)
        PROVE  mem'.rev <= MaxRevision /\ disk'.rev <= MaxRevision /\ disk'.check.offset <= written'
               /\ written' <= 2 * MaxLine
    BY <2>1, <2>8 DEF StoreMark
  <2>9. ASSUME NEW n \in Request, Arrive(n) \/ Reserve(n) \/ Deliver(n)
        PROVE  mem'.rev <= MaxRevision /\ disk'.rev <= MaxRevision /\ disk'.check.offset <= written'
               /\ written' <= 2 * MaxLine
    BY <2>9 DEF Arrive, Reserve, Deliver, Bounded
  <2> QED BY <2>2, <2>3, <2>4, <2>5, <2>6, <2>7, <2>8, <2>9 DEF IngestNext
<1> QED BY <1>1, <1>2 DEF Bounded

\* The Ingestor never runs more at once than it has capacity for, and its state is typed.
THEOREM IngestTyped == IngestSpec => []IngestTypeOK
<1>1. IngestInv /\ Bounded /\ [IngestNext]_ingestVars => Bounded'
  <2>1. ASSUME Bounded, UNCHANGED ingestVars PROVE Bounded'
    BY <2>1 DEF ingestVars, Bounded, Slots, Running
  <2> QED BY <2>1, BoundedStep
<1>2. IngestInv /\ Bounded => IngestTypeOK
  <2> SUFFICES ASSUME IngestInv, Bounded PROVE IngestTypeOK
    OBVIOUS
  <2>1. /\ mem \in State /\ disk \in State /\ written \in Nat
        /\ mem.check.offset \in Nat /\ disk.check.offset \in Nat /\ mem.check.offset <= disk.check.offset
    BY DEF IngestInv, Stores, Sound, State, Point, Imported, RestartKeepsCheckpoint
  <2>2. \A s \in {mem, disk} : s.rev \in Nat /\ s.mark \in 0 .. MaxRequest
    BY <2>1, IngestAssumption DEF State, Marks, Request, Fresh
  <2>3. \A s \in {mem, disk} : s.rev <= MaxRevision /\ s.check.offset \in 0 .. 2 * MaxLine
    BY <2>1, IngestAssumption DEF Bounded
  <2>4. \A n \in Request : request[n].at \in {"idle", "admitted", "reserved", "durable", "accepted"}
    BY DEF IngestInv, Asked
  <2>5. importer.at \in {"idle", "open", "read", "durable", "rejected"} /\ written \in 0 .. 2 * MaxLine
    BY <2>1, IngestAssumption DEF IngestInv, Imported, Bounded
  <2>6. \A s \in {mem, disk} : s.rev \in 0 .. MaxRevision + 1
    BY <2>2, <2>3, IngestAssumption
  <2> QED BY <2>2, <2>3, <2>4, <2>5, <2>6 DEF IngestTypeOK, Bounded
<1> QED BY <1>1, <1>2, BoundedBegin, Invariant, PTL DEF IngestSpec

-----------------------------------------------------------------------------
-----------------------------------------------------------------------------
(* The watcher of Codex sessions (internal/codexadapter).                  *)

RolloutSpec == RolloutInit /\ [][RolloutNext]_rolloutVars

\* What is in hand counts with what is stored.
InHand(p) == IF scan.at = "ingest" /\ scan.path = p THEN scan.todo ELSE {}
Complete(p) == Evidence \subseteq evidence[p] \cup InHand(p)

\* A visit reads the file as it is now.
Visits(p) == scan.path = p /\ scan.at \in {"read", "ingest"} /\ scan.gen = gen[p]
\* How far the memory of the file has come in it.
Position(p) ==
  IF Visits(p) THEN (IF scan.at = "ingest" THEN scan.offset + 1 ELSE scan.offset)
  ELSE IF check[p].gen = gen[p] THEN check[p].offset ELSE 0

\* What the memory m of a file with lines s must know of n of them, those up to
\* its baseline left out, if its read is not complete.
Learned(s, from, m, done, n) ==
  /\ \A i \in 1 .. n : i > from /\ s[i] = "marker" => m.skill \/ done
  /\ \A i, j \in 1 .. n : i > from /\ i < j /\ s[i] = "marker" /\ s[j] = "call" => m.call \/ done
  /\ \A i, j, k \in 1 .. n : i > from /\ i < j /\ j < k /\ s[i] = "marker" /\ s[j] = "call"
                             /\ s[k] = "output" => done
Knows(p) == Learned(script[p], skipped[p], memory[p], Complete(p), Position(p))

Written(p, kinds) == kinds \subseteq {script[p][l] : l \in DOMAIN script[p]}
Earned(p) ==
  /\ memory[p].skill => Written(p, {"marker"})
  /\ memory[p].call => Written(p, {"marker", "call"})
  /\ evidence[p] # {} => Written(p, {"marker", "call", "output"})

ScanShape == [path : Nat, gen : Nat, at : {"idle", "open", "read", "ingest"}, offset : Nat,
              size : Nat, todo : SUBSET (Evidence \cup {"unknown_schema"})]
Shapes ==
  /\ script \in [Path -> Seq(LineKind)] /\ lines \in [Path -> Nat] /\ gen \in [Path -> Nat \ {0}]
  /\ old \in [Path -> BOOLEAN]
  /\ check \in [Path -> [gen : Nat, offset : Nat]] /\ skipped \in [Path -> Nat]
  /\ memory \in [Path -> [skill : BOOLEAN, call : BOOLEAN]]
  /\ evidence \in [Path -> SUBSET Evidence] /\ scan \in ScanShape
  /\ hurt \subseteq Path /\ trouble \in 0 .. MaxTrouble
  /\ \A p \in Path : /\ lines[p] \in 0 .. Len(script[p]) /\ gen[p] <= trouble + 1
                     /\ check[p].gen <= gen[p]
                     /\ check[p].gen = gen[p] => check[p].offset <= lines[p]

\* The visit, within the file it opened, has committed what it passed.
Visit ==
  scan.at # "idle" =>
    /\ scan.path \in Path
    /\ scan.at # "open" =>
         /\ scan.gen <= gen[scan.path] /\ scan.gen \in Nat \ {0} /\ scan.offset <= scan.size
         /\ scan.size <= Len(script[scan.path]) /\ check[scan.path] # NoCheckpoint
         /\ scan.gen = gen[scan.path] =>
              /\ scan.size <= lines[scan.path]
              /\ IF check[scan.path].gen = gen[scan.path] THEN check[scan.path].offset = scan.offset
                 ELSE scan.offset = 0
    /\ scan.at = "ingest" =>
         /\ scan.offset < scan.size
         /\ scan.todo \cap Evidence # {} => Written(scan.path, {"marker", "call", "output"})
         /\ script[scan.path][scan.offset + 1] = "strange" =>
              \/ "unknown_schema" \in scan.todo
              \/ <<scan.path, scan.gen, scan.offset + 1>> \in reported

RolloutInv ==
  /\ Shapes /\ Visit /\ UnknownIsReported /\ UninterruptedReadKept
  /\ \A p \in Path : Earned(p)
  /\ \A p \in Path \ hurt : Knows(p)

USE RolloutAssumption

-----------------------------------------------------------------------------
LEMMA PathsInOrder == \E n \in Nat : Path = 1 .. n
BY DEF Path

LEMMA LearnedMore ==
  ASSUME NEW s, NEW from, NEW m, NEW d \in BOOLEAN, NEW n, Learned(s, from, m, d, n),
         NEW m2, NEW d2 \in BOOLEAN, m.skill => m2.skill \/ d2, m.call => m2.call \/ d2, d => d2
  PROVE  Learned(s, from, m2, d2, n)
BY DEF Learned

LEMMA NothingLearned ==
  ASSUME NEW s, NEW from \in Nat, NEW m, NEW d, NEW n \in Nat, n <= from
  PROVE  Learned(s, from, m, d, n)
BY DEF Learned

LEMMA LineLearned ==
  ASSUME NEW s, NEW from \in Nat, NEW m \in [skill : BOOLEAN, call : BOOLEAN], NEW d \in BOOLEAN,
         NEW n \in Nat, Learned(s, from, m, d, n), NEW kind, kind = s[n + 1],
         NEW d2 \in BOOLEAN, d => d2, kind = "output" /\ m.call => d2
  PROVE  Learned(s, from, Remembers(m, kind), d2, n + 1)
<1> DEFINE m2 == Remembers(m, kind)
<1>1. /\ m.skill => m2.skill \/ d2
      /\ m.call => m2.call \/ d2
      /\ kind = "marker" => m2.skill
      /\ kind = "call" => (m.skill => m2.call)
  BY DEF Remembers, NoMemory
<1> HIDE DEF m2
<1>2. Learned(s, from, m2, d2, n)
  BY <1>1, LearnedMore
<1>3. \A i \in 1 .. n + 1 : i \in 1 .. n \/ i = n + 1
  OBVIOUS
<1>4. ASSUME NEW i \in 1 .. n + 1, i > from, s[i] = "marker" PROVE m2.skill \/ d2
  <2>1. CASE i = n + 1
    BY <1>1, <1>4, <2>1
  <2>2. CASE i \in 1 .. n
    BY <1>2, <1>4, <2>2 DEF Learned
  <2> QED BY <1>3, <2>1, <2>2
<1>5. ASSUME NEW i \in 1 .. n + 1, NEW j \in 1 .. n + 1, i > from, i < j, s[i] = "marker", s[j] = "call"
      PROVE  m2.call \/ d2
  <2>1. i \in 1 .. n
    BY <1>5
  <2>2. CASE j = n + 1
    <3>1. m.skill \/ d
      BY <1>5, <2>1 DEF Learned
    <3> QED BY <1>1, <1>5, <2>2, <3>1
  <2>3. CASE j \in 1 .. n
    BY <1>2, <1>5, <2>1, <2>3 DEF Learned
  <2> QED BY <1>3, <2>2, <2>3
<1>6. ASSUME NEW i \in 1 .. n + 1, NEW j \in 1 .. n + 1, NEW k \in 1 .. n + 1,
             i > from, i < j, j < k, s[i] = "marker", s[j] = "call", s[k] = "output"
      PROVE  d2
  <2>1. i \in 1 .. n /\ j \in 1 .. n
    BY <1>6
  <2>2. CASE k = n + 1
    <3>1. m.call \/ d
      BY <1>6, <2>1 DEF Learned
    <3> QED BY <1>6, <2>2, <3>1
  <2>3. CASE k \in 1 .. n
    BY <1>2, <1>6, <2>1, <2>3 DEF Learned
  <2> QED BY <1>3, <2>2, <2>3
<1> QED BY <1>4, <1>5, <1>6 DEF Learned, m2

LEMMA FileFacts ==
  ASSUME Shapes, NEW p \in Path
  PROVE  /\ script[p] \in Seq(LineKind) /\ lines[p] \in Nat /\ gen[p] \in Nat \ {0}
         /\ check[p] = [gen |-> check[p].gen, offset |-> check[p].offset]
         /\ check[p].gen \in Nat /\ check[p].offset \in Nat /\ skipped[p] \in Nat
         /\ memory[p] \in [skill : BOOLEAN, call : BOOLEAN] /\ evidence[p] \subseteq Evidence
         /\ Len(script[p]) \in Nat /\ DOMAIN script[p] = 1 .. Len(script[p])
         /\ lines[p] <= Len(script[p]) /\ gen[p] <= trouble + 1 /\ check[p].gen <= gen[p]
         /\ (check[p].gen = gen[p] => check[p].offset <= lines[p])
         /\ Complete(p) \in BOOLEAN
<1>1. script[p] \in Seq(LineKind) /\ lines[p] \in Nat /\ gen[p] \in Nat \ {0}
  BY DEF Shapes
<1>2. check[p] = [gen |-> check[p].gen, offset |-> check[p].offset]
         /\ check[p].gen \in Nat /\ check[p].offset \in Nat /\ skipped[p] \in Nat
  BY DEF Shapes
<1>3. memory[p] \in [skill : BOOLEAN, call : BOOLEAN] /\ evidence[p] \subseteq Evidence
  BY DEF Shapes
<1>4. lines[p] <= Len(script[p]) /\ gen[p] <= trouble + 1 /\ check[p].gen <= gen[p]
         /\ (check[p].gen = gen[p] => check[p].offset <= lines[p])
  BY DEF Shapes
<1> QED BY <1>1, <1>2, <1>3, <1>4 DEF Complete

LEMMA PositionIsNat ==
  ASSUME Shapes, NEW p \in Path PROVE Position(p) \in Nat
BY FileFacts DEF Position, Visits, Shapes, ScanShape

LEMMA RolloutTypes == RolloutInv => RolloutTypeOK
<1> SUFFICES ASSUME RolloutInv PROVE RolloutTypeOK
  OBVIOUS
<1>1. Shapes
  BY DEF RolloutInv
<1>2. \A p \in Path : lines[p] \in 0 .. Len(script[p])
       /\ check[p].gen \in 0 .. MaxTrouble + 1 /\ evidence[p] \subseteq Evidence
  BY <1>1, FileFacts DEF Shapes
<1>3. memory \in [Path -> [skill : BOOLEAN, call : BOOLEAN]] /\ hurt \subseteq Path /\ trouble \in 0 .. MaxTrouble
      /\ scan \in ScanShape
  BY <1>1 DEF Shapes
<1> QED BY <1>2, <1>3 DEF RolloutTypeOK, ScanShape

LEMMA CheckpointTells == RolloutInv => CheckpointAgrees
<1> SUFFICES ASSUME RolloutInv PROVE CheckpointAgrees
  OBVIOUS
<1>1. EvidenceIsCorroborated
  BY DEF RolloutInv, Earned, Written, EvidenceIsCorroborated
<1> QED BY <1>1 DEF CheckpointAgrees, RolloutInv

-----------------------------------------------------------------------------
LEMMA RolloutInitInv == RolloutInit => RolloutInv
<1> SUFFICES ASSUME RolloutInit PROVE RolloutInv
  OBVIOUS
<1>1. \A p \in Path : script[p] \in Seq(LineKind) \ {<<>>} /\ Len(script[p]) \in Nat \ {0}
  <2>1. ASSUME NEW p \in Path PROVE script[p] \in Seq(LineKind) \ {<<>>}
    <3>1. Scripts[p] \in SUBSET (Seq(LineKind) \ {<<>>})
      BY DEF Path
    <3> QED BY <3>1 DEF RolloutInit
  <2> QED BY <2>1, EmptySeq
<1>2. Shapes
  <2>1. script = [p \in Path |-> script[p]] /\ lines \in [Path -> 0 .. 1]
    BY DEF RolloutInit
  <2>2. script \in [Path -> Seq(LineKind)] /\ lines \in [Path -> Nat] /\ old \in [Path -> BOOLEAN]
    <3>1. \A p \in Path : script[p] \in Seq(LineKind)
      BY <1>1
    <3>2. script \in [Path -> Seq(LineKind)]
      BY <2>1, <3>1
    <3>3. lines \in [Path -> Nat]
      BY <2>1
    <3>4. old \in [Path -> BOOLEAN]
      BY DEF RolloutInit
    <3> QED BY <3>2, <3>3, <3>4
  <2>3. scan \in ScanShape
    BY DEF RolloutInit, Resting, ScanShape
  <2>4. /\ gen = [p \in Path |-> 1] /\ check = [p \in Path |-> [gen |-> 0, offset |-> 0]]
        /\ memory = [p \in Path |-> [skill |-> FALSE, call |-> FALSE]]
        /\ evidence = [p \in Path |-> {}] /\ skipped = [p \in Path |-> 0] /\ hurt = {} /\ trouble = 0
    BY DEF RolloutInit, NoCheckpoint, NoMemory
  <2>5. \A p \in Path : lines[p] \in 0 .. Len(script[p])
    BY <1>1, <2>1
  <2> QED BY <2>2, <2>3, <2>4, <2>5 DEF Shapes
<1>3. Visit
  BY DEF RolloutInit, Visit, Resting
<1>4. \A p \in Path : check[p].gen = 0 /\ gen[p] = 1 /\ Position(p) = 0 /\ memory[p] = NoMemory /\ evidence[p] = {}
  BY DEF RolloutInit, NoCheckpoint, Position, Visits, Resting
<1>5. UnknownIsReported /\ UninterruptedReadKept
  BY <1>4 DEF UnknownIsReported, UninterruptedReadKept, Corroborated, Consumed
<1>6. \A p \in Path : Knows(p) /\ Earned(p)
  BY <1>4 DEF Knows, Learned, Earned, NoMemory
<1> QED BY <1>2, <1>3, <1>5, <1>6 DEF RolloutInv

-----------------------------------------------------------------------------
(* Frames: what a step leaves of a file.                                   *)

LEMMA KnowsStays ==
  ASSUME Shapes, NEW p \in Path, Knows(p), script'[p] = script[p], skipped'[p] = skipped[p],
         memory[p].skill => memory'[p].skill \/ Complete(p)',
         memory[p].call => memory'[p].call \/ Complete(p)',
         Complete(p) => Complete(p)', Position(p)' = Position(p)
  PROVE  Knows(p)'
<1>1. Complete(p) \in BOOLEAN /\ Complete(p)' \in BOOLEAN
  BY DEF Complete
<1>2. PICK n : n = Position(p)
  OBVIOUS
<1>3. PICK d \in BOOLEAN : d = Complete(p)'
  BY <1>1
<1>4. Learned(script[p], skipped[p], memory'[p], d, n)
  BY <1>1, <1>2, <1>3, LearnedMore DEF Knows
<1>5. Learned(script'[p], skipped'[p], memory'[p], Complete(p)', Position(p)')
  BY <1>2, <1>3, <1>4
<1> QED BY <1>5 DEF Knows

LEMMA KnowsNothing ==
  ASSUME NEW p \in Path, Position(p)' \in Nat, skipped'[p] \in Nat, Position(p)' <= skipped'[p]
  PROVE  Knows(p)'
<1>1. Learned(script'[p], skipped'[p], memory'[p], Complete(p)', Position(p)')
  BY NothingLearned
<1> QED BY <1>1 DEF Knows

\* What the properties say of a file, as it is.
Reported(p) == \A l \in Consumed(p) :
  l <= Len(script[p]) /\ script[p][l] = "strange" => <<p, gen[p], l>> \in reported
Kept(p) == Corroborated(p) => evidence[p] = Evidence
FileInv(p) == Reported(p) /\ Earned(p) /\ (p \notin hurt => Knows(p) /\ Kept(p))

LEMMA ByFile == RolloutInv <=> Shapes /\ Visit /\ \A p \in Path : FileInv(p)
BY DEF RolloutInv, FileInv, Reported, Kept, UnknownIsReported, UninterruptedReadKept

LEMMA FilesMakeInv ==
  ASSUME Shapes', Visit', \A p \in Path : FileInv(p)'
  PROVE  RolloutInv'
BY DEF RolloutInv, FileInv, Reported, Kept, UnknownIsReported, UninterruptedReadKept

LEMMA ConsumedStays ==
  ASSUME NEW p \in Path, FileInv(p), script'[p] = script[p], gen'[p] = gen[p],
         skipped'[p] = skipped[p], check'[p] = check[p], reported \subseteq reported',
         evidence[p] = Evidence => evidence'[p] = Evidence
  PROVE  Reported(p)' /\ (p \notin hurt => Kept(p)')
<1>1. Consumed(p)' = Consumed(p)
  BY DEF Consumed
<1>2. Reported(p)'
  BY <1>1 DEF FileInv, Reported
<1>3. Corroborated(p)' => Corroborated(p)
  BY <1>1 DEF Corroborated
<1> QED BY <1>2, <1>3 DEF FileInv, Kept

LEMMA EarnedStays ==
  ASSUME NEW p \in Path, Earned(p), script'[p] = script[p], memory'[p] = memory[p],
         evidence'[p] = evidence[p]
  PROVE  Earned(p)'
BY DEF Earned, Written

\* A step that leaves a file alone but for its lines and the visit.
LEMMA FileStays ==
  ASSUME Shapes, NEW p \in Path, FileInv(p), script'[p] = script[p], gen'[p] = gen[p],
         skipped'[p] = skipped[p], check'[p] = check[p], reported \subseteq reported', hurt \subseteq hurt',
         evidence'[p] = evidence[p], memory'[p] = memory[p],
         p \notin hurt' => InHand(p) \subseteq InHand(p)' /\ Position(p)' = Position(p)
  PROVE  FileInv(p)'
<1>1. Reported(p)' /\ (p \notin hurt => Kept(p)') /\ Earned(p)'
  BY ConsumedStays, EarnedStays DEF FileInv
<1>2. ASSUME p \notin hurt' PROVE Knows(p)'
  <2>1. Complete(p) => Complete(p)'
    BY <1>2 DEF Complete
  <2> QED BY <1>2, <2>1, KnowsStays DEF FileInv
<1> QED BY <1>1, <1>2 DEF FileInv
-----------------------------------------------------------------------------
(* The agent, and the file itself.                                         *)

LEMMA AppendStep == ASSUME RolloutInv, NEW p \in Path, AgentAppends(p) PROVE RolloutInv'
<1>1. Shapes /\ Visit /\ \A q \in Path : FileInv(q)
  BY ByFile
<1>2. /\ lines[p] < Len(script[p]) /\ lines' = [lines EXCEPT ![p] = @ + 1]
      /\ old' = [old EXCEPT ![p] = FALSE]
      /\ UNCHANGED <<script, gen, check, memory, scan, evidence, reported, skipped, hurt, trouble>>
  BY DEF AgentAppends
<1>3. lines' \in [Path -> Nat] /\ \A q \in Path : lines'[q] >= lines[q] /\ lines'[q] \in 0 .. Len(script[q])
  BY <1>1, <1>2, FileFacts DEF Shapes
<1>4. Shapes'
  <2>1. ASSUME NEW q \in Path, check[q].gen = gen[q] PROVE check[q].offset <= lines'[q]
    <3>1. lines'[q] >= lines[q] /\ lines'[q] \in Nat /\ lines[q] \in Nat
      BY <1>1, <1>3, FileFacts
    <3>2. check[q].offset <= lines[q] /\ check[q].offset \in Nat
      BY <1>1, <2>1, FileFacts
    <3> QED BY <3>1, <3>2
  <2>2. old' \in [Path -> BOOLEAN]
    BY <1>1, <1>2 DEF Shapes
  <2> QED BY <1>1, <1>2, <1>3, <2>1, <2>2 DEF Shapes, ScanShape
<1>5. Visit'
  <2>1. scan.at \notin {"idle", "open"} /\ scan.gen = gen[scan.path] => scan.size <= lines'[scan.path]
    <3> SUFFICES ASSUME scan.at \notin {"idle", "open"}, scan.gen = gen[scan.path]
                 PROVE  scan.size <= lines'[scan.path]
      OBVIOUS
    <3>1. scan.path \in Path /\ scan.size <= lines[scan.path] /\ scan.size \in Nat
      BY <1>1 DEF Visit, Shapes, ScanShape
    <3>2. lines'[scan.path] >= lines[scan.path] /\ lines'[scan.path] \in Nat /\ lines[scan.path] \in Nat
      BY <1>1, <1>3, <3>1, FileFacts
    <3> QED BY <3>1, <3>2
  <2> QED BY <1>1, <1>2, <2>1 DEF Visit, Written
<1>6. ASSUME NEW q \in Path PROVE FileInv(q)'
  BY <1>1, <1>2, FileStays DEF InHand, Position, Visits
<1> QED BY <1>4, <1>5, <1>6, FilesMakeInv

LEMMA RotateStep == ASSUME RolloutInv, NEW p \in Path, Rotate(p) PROVE RolloutInv'
<1>1. Shapes /\ Visit /\ \A q \in Path : FileInv(q)
  BY ByFile
<1>2. /\ trouble < MaxTrouble /\ trouble' = trouble + 1
      /\ lines' = [lines EXCEPT ![p] = 0] /\ gen' = [gen EXCEPT ![p] = gen[p] + 1]
      /\ skipped' = [skipped EXCEPT ![p] = 0]
      /\ UNCHANGED <<script, scan, old, check, memory, evidence, reported, hurt>>
  BY DEF Rotate, Trouble
<1>3. \A q \in Path : q # p => lines'[q] = lines[q] /\ gen'[q] = gen[q] /\ skipped'[q] = skipped[q]
  BY <1>1, <1>2 DEF Shapes
<1>4. lines'[p] = 0 /\ gen'[p] = gen[p] + 1 /\ skipped'[p] = 0
  BY <1>1, <1>2 DEF Shapes
<1>5. check[p].gen < gen'[p] /\ check[p].gen # gen'[p] /\ ~ Visits(p)'
  <2>1. check[p].gen < gen'[p] /\ check[p].gen # gen'[p]
    <3>1. PICK c, g \in Nat : c = check[p].gen /\ g = gen[p] /\ c <= g
      BY <1>1, FileFacts
    <3> QED BY <1>4, <3>1
  <2>2. scan.path = p /\ scan.at \in {"read", "ingest"} => scan.gen <= gen[p] /\ scan.gen \in Nat
    BY <1>1 DEF Visit, Shapes, ScanShape
  <2>3. gen[p] \in Nat
    BY <1>1, FileFacts
  <2> QED BY <1>2, <1>4, <2>1, <2>2, <2>3 DEF Visits
<1>6. Shapes'
  <2>1. /\ lines' \in [Path -> Nat] /\ skipped' \in [Path -> Nat] /\ gen' \in [Path -> Nat \ {0}]
        /\ trouble' \in 0 .. MaxTrouble
    BY <1>1, <1>2 DEF Shapes
  <2>2. ASSUME NEW q \in Path
        PROVE /\ lines'[q] \in 0 .. Len(script[q]) /\ gen'[q] <= trouble' + 1
              /\ check[q].gen <= gen'[q]
              /\ check[q].gen = gen'[q] => check[q].offset <= lines'[q]
    <3>1. gen[q] <= trouble + 1 /\ gen[q] \in Nat /\ trouble \in Nat /\ lines[q] \in 0 .. Len(script[q])
          /\ check[q].gen <= gen[q] /\ (check[q].gen = gen[q] => check[q].offset <= lines[q])
          /\ check[q].gen \in Nat /\ Len(script[q]) \in Nat
      BY <1>1, FileFacts DEF Shapes
    <3>2. CASE q = p
      BY <1>2, <1>4, <1>5, <3>1, <3>2
    <3>3. CASE q # p
      BY <1>2, <1>3, <3>1, <3>3
    <3> QED BY <3>2, <3>3
  <2> QED BY <1>1, <1>2, <2>1, <2>2 DEF Shapes, ScanShape
<1>7. Visit'
  <2>1. CASE scan.path = p /\ scan.at \notin {"idle", "open"}
    <3>1. scan.gen <= gen[p] /\ scan.gen # gen'[p]
      BY <1>1, <1>4, <2>1, FileFacts DEF Visit, Shapes, ScanShape
    <3>2. scan.gen <= gen'[p]
      BY <1>1, <1>4, <3>1, FileFacts DEF Shapes, ScanShape
    <3> QED BY <1>1, <1>2, <2>1, <3>1, <3>2 DEF Visit, Written
  <2>2. CASE scan.path # p \/ scan.at \in {"idle", "open"}
    BY <1>1, <1>2, <1>3, <2>2 DEF Visit, Written
  <2> QED BY <2>1, <2>2
<1>8. ASSUME NEW q \in Path PROVE FileInv(q)'
  <2>1. CASE q = p
    <3>1. Position(p)' = 0
      <4>1. check'[p].gen # gen'[p] /\ ~ Visits(p)'
        BY <1>2, <1>5
      <4> QED BY <4>1 DEF Position
    <3>2. Knows(p)'
      BY <1>4, <3>1, KnowsNothing
    <3>3. Consumed(p)' = {}
      <4>1. check'[p].gen # gen'[p]
        BY <1>2, <1>5
      <4> QED BY <4>1 DEF Consumed
    <3>4. Reported(p)' /\ Kept(p)'
      BY <3>3 DEF Reported, Kept, Corroborated
    <3>5. Earned(p)'
      BY <1>1, <1>2, EarnedStays DEF FileInv
    <3> QED BY <2>1, <3>2, <3>4, <3>5 DEF FileInv
  <2>2. CASE q # p
    <3>1. InHand(q)' = InHand(q) /\ Position(q)' = Position(q)
      BY <1>2, <1>3, <2>2 DEF InHand, Position, Visits
    <3> QED BY <1>1, <1>2, <1>3, <2>2, <3>1, FileStays
  <2> QED BY <2>1, <2>2
<1> QED BY <1>6, <1>7, <1>8, FilesMakeInv

\* The visit ends, or goes on to another file.
LEMMA ScanMoves ==
  ASSUME RolloutInv, UNCHANGED <<script, lines, gen, check, memory, evidence, reported, skipped>>,
         old' \in [Path -> BOOLEAN], trouble' \in 0 .. MaxTrouble, trouble <= trouble',
         hurt' \in SUBSET Path, hurt \subseteq hurt',
         scan' \in ScanShape, scan'.at \in {"idle", "open"},
         scan'.at = "open" => scan'.path \in Path,
         scan.at = "ingest" => scan.path \in hurt'
  PROVE  RolloutInv'
<1>1. Shapes /\ Visit /\ \A q \in Path : FileInv(q)
  BY ByFile
<1>2. Shapes'
  <2>1. \A q \in Path : gen[q] <= trouble' + 1
    BY <1>1, FileFacts DEF Shapes
  <2> QED BY <1>1, <2>1 DEF Shapes, ScanShape
<1>3. Visit'
  BY DEF Visit
<1>4. ASSUME NEW q \in Path PROVE FileInv(q)'
  <2>1. ASSUME q \notin hurt' PROVE InHand(q) = {} /\ Position(q)' = Position(q)
    <3>1. ~ (scan.at = "ingest" /\ scan.path = q)
      BY <2>1
    <3>2. Visits(q) => IF check[q].gen = gen[q] THEN check[q].offset = scan.offset ELSE scan.offset = 0
      BY <1>1 DEF Visits, Visit
    <3> QED BY <3>1, <3>2 DEF InHand, Position, Visits
  <2> QED BY <1>1, <2>1, FileStays
<1> QED BY <1>2, <1>3, <1>4, FilesMakeInv

LEMMA NextFileShape ==
  ASSUME NEW p \in Path \cup {0}
  PROVE  /\ NextFile(p) \in ScanShape /\ NextFile(p).at \in {"idle", "open"}
         /\ NextFile(p).at = "open" => NextFile(p).path \in Path
<1>1. p \in Nat
  BY DEF Path
<1>2. NextFile(p) = Resting \/ (p + 1 \in Path /\ NextFile(p) = [Resting EXCEPT !.path = p + 1, !.at = "open"])
  BY DEF NextFile
<1>3. CASE NextFile(p) = Resting
  BY <1>3 DEF Resting, ScanShape
<1>4. CASE p + 1 \in Path /\ NextFile(p) = [Resting EXCEPT !.path = p + 1, !.at = "open"]
  <2>1. NextFile(p) = [path |-> p + 1, gen |-> 0, at |-> "open", offset |-> 0, size |-> 0, todo |-> {}]
    BY <1>4 DEF Resting
  <2>2. p + 1 \in Nat
    BY <1>1
  <2> QED BY <1>4, <2>1, <2>2 DEF ScanShape
<1> QED BY <1>2, <1>3, <1>4

LEMMA BeginStep == ASSUME RolloutInv, ScanBegin PROVE RolloutInv'
<1>1. scan' = NextFile(0) /\ scan.at = "idle"
      /\ UNCHANGED <<script, lines, gen, old, check, memory, evidence, reported, skipped, hurt, trouble>>
  BY DEF ScanBegin
<1>2. old \in [Path -> BOOLEAN] /\ trouble \in 0 .. MaxTrouble /\ hurt \in SUBSET Path
  BY DEF RolloutInv, Shapes
<1> QED BY <1>1, <1>2, NextFileShape, ScanMoves
-----------------------------------------------------------------------------
(* The visit of a file.                                                    *)

LEMMA OpenStep == ASSUME RolloutInv, OpenFile PROVE RolloutInv'
<1>1. Shapes /\ Visit /\ \A q \in Path : FileInv(q)
  BY ByFile
<1>2. PICK p : p = scan.path
  OBVIOUS
<1>3. /\ p \in Path /\ scan.at = "open"
      /\ UNCHANGED <<script, lines, gen, old, memory, evidence, reported, hurt>>
  BY <1>1, <1>2 DEF OpenFile, Visit
<1>4. /\ trouble \in 0 .. MaxTrouble /\ old \in [Path -> BOOLEAN] /\ hurt \in SUBSET Path
      /\ Resting \in ScanShape
  BY <1>1 DEF Shapes, Resting, ScanShape
<1>5. \A q \in Path : InHand(q) = {} /\ ~ Visits(q)
  BY <1>3 DEF InHand, Visits
<1>10. PICK g \in Nat \ {0}, n \in Nat, most \in Nat, cg \in Nat, co \in Nat :
         /\ g = gen[p] /\ n = lines[p] /\ most = Len(script[p]) /\ check[p] = [gen |-> cg, offset |-> co]
         /\ cg <= g /\ (cg = g => co <= n) /\ n <= most
  BY <1>1, <1>3, FileFacts
<1>6. CASE ScanFails /\ UNCHANGED <<check, skipped, trouble>>
  BY <1>3, <1>4, <1>6, ScanMoves DEF ScanFails, Resting
<1>7. CASE ScanFails /\ Trouble /\ UNCHANGED <<check, skipped>>
  <2>1. trouble <= trouble' /\ trouble' \in 0 .. MaxTrouble
    BY <1>4, <1>7 DEF Trouble
  <2> QED BY <1>3, <1>4, <1>7, <2>1, ScanMoves DEF ScanFails, Resting
<1>8. CASE check[p] # NoCheckpoint /\ HasSession(p) /\ UNCHANGED <<check, skipped, trouble>>
           /\ scan' = [path |-> p, gen |-> gen[p], at |-> "read", offset |-> Resume(p), size |-> lines[p], todo |-> {}]
  <2>1. Resume(p) = IF check[p].gen = gen[p] THEN check[p].offset ELSE 0
    BY <1>10 DEF Resume
  <2>2. Resume(p) \in Nat /\ Resume(p) <= lines[p]
    BY <1>10, <2>1
  <2>3. scan' \in ScanShape
    BY <1>3, <1>8, <1>10, <2>2, PathsInOrder DEF ScanShape
  <2>4. Shapes'
    BY <1>1, <1>3, <1>8, <2>3 DEF Shapes, ScanShape
  <2>5. Visit'
    BY <1>3, <1>8, <1>10, <2>1, <2>2 DEF Visit
  <2>6. ASSUME NEW q \in Path PROVE FileInv(q)'
    <3>1. Position(q)' = Position(q)
      BY <1>3, <1>5, <1>8, <2>1 DEF Position, Visits
    <3> QED BY <1>1, <1>3, <1>5, <1>8, <3>1, FileStays
  <2> QED BY <2>4, <2>5, <2>6, FilesMakeInv
<1>9. CASE /\ check[p] = NoCheckpoint /\ UNCHANGED trouble
           /\ check' = [check EXCEPT ![p] = [gen |-> gen[p], offset |-> Baseline(p)]]
           /\ skipped' = [skipped EXCEPT ![p] = Baseline(p)]
           /\ IF Baseline(p) = lines[p] THEN scan' = NextFile(p) ELSE Reading(p, 0)
  <2>1. Baseline(p) \in Nat /\ Baseline(p) <= lines[p] /\ (Baseline(p) # lines[p] => Baseline(p) = 0)
    BY <1>10 DEF Baseline
  <2>2. /\ check'[p] = [gen |-> gen[p], offset |-> Baseline(p)] /\ skipped'[p] = Baseline(p)
        /\ \A q \in Path : q # p => check'[q] = check[q] /\ skipped'[q] = skipped[q]
    BY <1>1, <1>3, <1>9 DEF Shapes
  <2>3. \/ scan' \in ScanShape /\ scan'.at \in {"idle", "open"} /\ (scan'.at = "open" => scan'.path \in Path)
        \/ scan' = [path |-> p, gen |-> gen[p], at |-> "read", offset |-> 0, size |-> lines[p], todo |-> {}]
           /\ Baseline(p) = 0
    <3>1. CASE scan' = NextFile(p)
      BY <1>3, <3>1, NextFileShape
    <3>2. CASE scan' = Resting
      BY <1>4, <3>2 DEF Resting
    <3>3. CASE Baseline(p) = 0 /\ scan' = [path |-> p, gen |-> gen[p], at |-> "read", offset |-> 0, size |-> lines[p], todo |-> {}]
      BY <3>3
    <3> QED BY <1>9, <2>1, <3>1, <3>2, <3>3 DEF Reading, ScanFails
  <2>4. scan' \in ScanShape
    BY <1>3, <1>10, <2>3, PathsInOrder DEF ScanShape
  <2>5. Shapes'
    <3>1. check' \in [Path -> [gen : Nat, offset : Nat]] /\ skipped' \in [Path -> Nat]
      BY <1>1, <1>3, <1>9, <2>1, FileFacts DEF Shapes
    <3>2. \A q \in Path : check'[q].gen <= gen[q] /\ (check'[q].gen = gen[q] => check'[q].offset <= lines[q])
      <4>1. \A q \in Path : q # p => check'[q] = check[q] /\ check[q].gen <= gen[q] /\ (check[q].gen = gen[q] => check[q].offset <= lines[q])
        BY <1>1, <2>2, FileFacts
      <4>2. check'[p].gen = g /\ check'[p].offset <= n
        BY <1>10, <2>1, <2>2
      <4> QED BY <1>10, <4>1, <4>2
    <3> QED BY <1>1, <1>3, <1>9, <2>4, <3>1, <3>2 DEF Shapes, ScanShape
  <2>6. Visit'
    <3>1. check'[p] # NoCheckpoint /\ lines[p] \in Nat /\ lines[p] <= Len(script[p]) /\ gen[p] \in Nat \ {0}
          /\ check'[p].offset = Baseline(p)
      BY <1>10, <2>2 DEF NoCheckpoint
    <3> QED BY <1>3, <2>2, <2>3, <3>1 DEF Visit
  <2>7. \A q \in Path : InHand(q)' = {} /\ (q # p => ~ Visits(q)')
    BY <1>3, <2>3 DEF InHand, Visits
  <2>8. ASSUME NEW q \in Path PROVE FileInv(q)'
    <3>1. CASE q # p
      <4>1. Position(q)' = Position(q)
        BY <1>3, <1>5, <2>2, <2>7, <3>1 DEF Position
      <4> QED BY <1>1, <1>3, <1>5, <2>2, <2>7, <3>1, <4>1, FileStays
    <3>2. CASE q = p
      <4>1. Consumed(p)' = {}
        BY <2>1, <2>2 DEF Consumed
      <4>2. Reported(p)' /\ Kept(p)'
        BY <4>1 DEF Reported, Kept, Corroborated
      <4>3. Earned(p)'
        BY <1>1, <1>3, EarnedStays DEF FileInv
      <4>4. Position(p)' \in Nat /\ Position(p)' <= skipped'[p]
        <5>1. Visits(p)' => scan'.offset = 0 /\ scan'.at = "read"
          BY <2>3 DEF Visits
        <5>2. check'[p].offset = Baseline(p) /\ skipped'[p] = Baseline(p)
          BY <2>2
        <5> QED BY <2>1, <5>1, <5>2 DEF Position
      <4>5. Knows(p)'
        <5>1. skipped'[p] \in Nat
          BY <2>1, <2>2
        <5> QED BY <1>3, <4>4, <5>1, KnowsNothing
      <4> QED BY <3>2, <4>2, <4>3, <4>5 DEF FileInv
    <3> QED BY <3>1, <3>2
  <2> QED BY <2>5, <2>6, <2>8, FilesMakeInv
<1> QED BY <1>2, <1>6, <1>7, <1>8, <1>9 DEF OpenFile, Reading

LEMMA ReadLineStep == ASSUME RolloutInv, ReadRolloutLine PROVE RolloutInv'
<1>1. Shapes /\ Visit /\ \A q \in Path : FileInv(q)
  BY ByFile
<1>2. PICK p, l : p = scan.path /\ l = scan.offset + 1
  OBVIOUS
<1>3. /\ p \in Path /\ scan.at = "read"
      /\ UNCHANGED <<script, lines, gen, old, check, evidence, reported, skipped, hurt, trouble>>
  BY <1>1, <1>2 DEF ReadRolloutLine, Visit
<1>4. /\ trouble \in 0 .. MaxTrouble /\ old \in [Path -> BOOLEAN] /\ hurt \in SUBSET Path
  BY <1>1 DEF Shapes
<1>5. CASE scan' = NextFile(p) /\ UNCHANGED memory
  <2>1. /\ scan' \in ScanShape /\ scan'.at \in {"idle", "open"} /\ (scan'.at = "open" => scan'.path \in Path)
        /\ scan.at # "ingest"
    BY <1>3, <1>5, NextFileShape
  <2> QED BY <1>3, <1>4, <1>5, <2>1, ScanMoves
<1>6. CASE /\ scan.offset # scan.size
           /\ scan' = [scan EXCEPT !.at = "ingest", !.todo = Projects(memory[p], script[p][l])]
           /\ memory' = [memory EXCEPT ![p] = Remembers(@, script[p][l])]
  <2>1. PICK kind : kind = script[p][l]
    OBVIOUS
  <2>2. /\ scan \in ScanShape /\ scan.path = p /\ scan.offset \in Nat /\ scan.size \in Nat /\ scan.gen \in Nat
        /\ scan.offset < scan.size /\ scan.size <= Len(script[p]) /\ Len(script[p]) \in Nat
    <3>1. scan \in ScanShape /\ scan.offset \in Nat /\ scan.size \in Nat /\ scan.gen \in Nat
      BY <1>1 DEF Shapes, ScanShape
    <3>2. scan.path = p /\ scan.offset <= scan.size /\ scan.size <= Len(script[p])
      BY <1>1, <1>2, <1>3 DEF Visit
    <3>3. Len(script[p]) \in Nat
      BY <1>1, <1>3, FileFacts
    <3> QED BY <1>6, <3>1, <3>2, <3>3
  <2>3. l \in DOMAIN script[p] /\ l \in Nat /\ kind \in LineKind
    <3>1. DOMAIN script[p] = 1 .. Len(script[p]) /\ script[p] \in Seq(LineKind)
      BY <1>1, <1>3, FileFacts
    <3>2. l \in 1 .. Len(script[p])
      BY <1>2, <2>2
    <3> QED BY <2>1, <3>1, <3>2
  <2>4. PICK m : m = memory[p]
    OBVIOUS
  <2>5. /\ memory'[p] = Remembers(m, kind) /\ m \in [skill : BOOLEAN, call : BOOLEAN]
        /\ \A q \in Path : q # p => memory'[q] = memory[q]
    BY <1>1, <1>3, <1>6, <2>1, <2>4 DEF Shapes
  <2>6. Remembers(m, kind) \in [skill : BOOLEAN, call : BOOLEAN]
    BY <2>3, <2>5 DEF Remembers, NoMemory
  <2>7. PICK todo : todo = Projects(m, kind)
    OBVIOUS
  <2>8. /\ todo \subseteq Evidence \cup {"unknown_schema"}
        /\ kind = "strange" => "unknown_schema" \in todo
        /\ todo \cap Evidence # {} => kind = "output" /\ m.call
        /\ kind = "output" /\ m.call => Evidence \subseteq todo
    BY <2>7 DEF Projects, Evidence
  <2>9. scan' = [path |-> p, gen |-> scan.gen, at |-> "ingest", offset |-> scan.offset, size |-> scan.size, todo |-> todo]
    BY <1>6, <2>1, <2>2, <2>4, <2>7 DEF ScanShape
  <2>10. Shapes'
    <3>1. scan' \in ScanShape
      BY <1>1, <1>3, <2>2, <2>8, <2>9, FileFacts DEF ScanShape
    <3>2. memory' \in [Path -> [skill : BOOLEAN, call : BOOLEAN]]
      BY <1>1, <1>3, <1>6, <2>1, <2>4, <2>6 DEF Shapes
    <3> QED BY <1>1, <1>3, <3>1, <3>2 DEF Shapes, ScanShape
  <2>11. Earned(p)' /\ (todo \cap Evidence # {} => Written(p, {"marker", "call", "output"}))
    <3>1. Written(p, {kind})
      BY <2>1, <2>3 DEF Written
    <3>2. Earned(p)
      BY <1>1, <1>3 DEF FileInv
    <3>3. /\ Remembers(m, kind).skill => m.skill \/ kind = "marker"
          /\ Remembers(m, kind).call => m.call \/ (kind = "call" /\ m.skill)
      BY <2>3, <2>5 DEF Remembers, NoMemory
    <3>4. memory'[p].skill => Written(p, {"marker"})
      BY <2>4, <2>5, <3>1, <3>2, <3>3 DEF Earned
    <3>5. memory'[p].call => Written(p, {"marker", "call"})
      BY <2>4, <2>5, <3>1, <3>2, <3>3 DEF Earned, Written
    <3>6. todo \cap Evidence # {} => Written(p, {"marker", "call", "output"})
      BY <2>4, <2>8, <3>1, <3>2 DEF Earned, Written
    <3> QED BY <1>3, <3>2, <3>4, <3>5, <3>6 DEF Earned, Written
  <2>12. Visit'
    BY <1>1, <1>2, <1>3, <2>1, <2>2, <2>8, <2>9, <2>11 DEF Visit, Written
  <2>13. ASSUME NEW q \in Path PROVE FileInv(q)'
    <3>1. CASE q # p
      <4>1. Position(q)' = Position(q) /\ InHand(q) = {}
        BY <1>3, <2>2, <2>9, <3>1 DEF Position, Visits, InHand
      <4> QED BY <1>1, <1>3, <2>5, <3>1, <4>1, FileStays
    <3>2. CASE q = p
      <4>1. Reported(p)' /\ (p \notin hurt => Kept(p)')
        BY <1>1, <1>3, ConsumedStays
      <4>2. InHand(p) = {} /\ InHand(p)' = todo
        BY <1>3, <2>2, <2>9 DEF InHand
      <4>3. (Complete(p) => Complete(p)') /\ (kind = "output" /\ m.call => Complete(p)')
        BY <1>3, <2>8, <4>2 DEF Complete
      <4>4. ASSUME p \notin hurt PROVE Knows(p)'
        <5>1. Knows(p)
          BY <1>1, <1>3, <4>4 DEF FileInv
        <5>2. CASE Visits(p)
          <6>1. Position(p) = scan.offset /\ Position(p)' = scan.offset + 1
            BY <1>3, <2>2, <2>9, <5>2 DEF Position, Visits
          <6>2. PICK n, d, d2 : n = scan.offset /\ d = Complete(p) /\ d2 = Complete(p)'
            OBVIOUS
          <6>3. d \in BOOLEAN /\ d2 \in BOOLEAN /\ (d => d2) /\ (kind = "output" /\ m.call => d2)
            BY <4>3, <6>2 DEF Complete
          <6>4. Learned(script[p], skipped[p], m, d, n)
            BY <2>4, <5>1, <6>1, <6>2 DEF Knows
          <6>5. skipped[p] \in Nat /\ n \in Nat /\ kind = script[p][n + 1]
            BY <1>1, <1>2, <1>3, <2>1, <2>2, <6>2, FileFacts
          <6>6. Learned(script[p], skipped[p], Remembers(m, kind), d2, n + 1)
            BY <2>5, <6>3, <6>4, <6>5, LineLearned
          <6>7. Learned(script'[p], skipped'[p], memory'[p], Complete(p)', Position(p)')
            BY <1>3, <2>5, <6>1, <6>2, <6>6
          <6> QED BY <6>7 DEF Knows
        <5>3. CASE ~ Visits(p)
          <6>1. Position(p)' = Position(p)
            BY <1>3, <2>2, <2>9, <5>3 DEF Position, Visits
          <6>2. /\ m.skill => Remembers(m, kind).skill \/ Complete(p)'
                /\ m.call => Remembers(m, kind).call \/ Complete(p)'
            BY <2>3, <2>5, <4>3 DEF Remembers
          <6> QED BY <1>1, <1>3, <2>4, <2>5, <4>3, <5>1, <6>1, <6>2, KnowsStays
        <5> QED BY <5>2, <5>3
      <4> QED BY <1>3, <2>11, <3>2, <4>1, <4>4 DEF FileInv
    <3> QED BY <3>1, <3>2
  <2> QED BY <2>10, <2>12, <2>13, FilesMakeInv
<1> QED BY <1>2, <1>5, <1>6 DEF ReadRolloutLine
LEMMA TroublePasses ==
  ASSUME Shapes, Trouble PROVE trouble' \in 0 .. MaxTrouble /\ trouble <= trouble'
BY DEF Shapes, Trouble

LEMMA IngestOneStep == ASSUME RolloutInv, IngestOne PROVE RolloutInv'
<1>1. Shapes /\ Visit /\ \A q \in Path : FileInv(q)
  BY ByFile
<1>2. PICK p, todo, n, g : p = scan.path /\ todo = scan.todo /\ n = scan.offset /\ g = scan.gen
  OBVIOUS
<1>3. /\ p \in Path /\ scan.at = "ingest"
      /\ UNCHANGED <<script, lines, gen, old, check, memory, skipped>>
  BY <1>1, <1>2 DEF IngestOne, Visit
<1>4. /\ trouble \in 0 .. MaxTrouble /\ old \in [Path -> BOOLEAN] /\ hurt \in SUBSET Path /\ scan \in ScanShape
      /\ Resting \in ScanShape /\ Resting.at = "idle"
  BY <1>1 DEF Shapes, Resting, ScanShape
<1>5. PICK r \in todo :
       \/ /\ scan' = [scan EXCEPT !.todo = @ \ {r}]
          /\ evidence' = IF r = "unknown_schema" THEN evidence
                         ELSE [evidence EXCEPT ![p] = @ \cup {r}]
          /\ reported' = IF r # "unknown_schema" THEN reported
                         ELSE reported \cup {<<p, g, n + 1>>}
          /\ UNCHANGED <<hurt, trouble>>
       \/ /\ ScanFails /\ Trouble
          /\ hurt' = hurt \cup {p}
          /\ UNCHANGED <<evidence, reported>>
  BY <1>2 DEF IngestOne
<1>6. CASE ScanFails /\ Trouble /\ hurt' = hurt \cup {p} /\ UNCHANGED <<evidence, reported>>
  <2>1. /\ hurt' \in SUBSET Path /\ hurt \subseteq hurt' /\ scan.path \in hurt'
        /\ scan' \in ScanShape /\ scan'.at = "idle"
    BY <1>2, <1>3, <1>4, <1>6 DEF ScanFails
  <2> QED BY <1>1, <1>3, <1>4, <1>6, <2>1, TroublePasses, ScanMoves
<1>7. CASE /\ scan' = [scan EXCEPT !.todo = @ \ {r}]
           /\ evidence' = IF r = "unknown_schema" THEN evidence ELSE [evidence EXCEPT ![p] = @ \cup {r}]
           /\ reported' = IF r # "unknown_schema" THEN reported ELSE reported \cup {<<p, g, n + 1>>}
           /\ UNCHANGED <<hurt, trouble>>
  <2>1. scan' = [path |-> p, gen |-> g, at |-> "ingest", offset |-> n, size |-> scan.size, todo |-> todo \ {r}]
        /\ scan' \in ScanShape
    BY <1>2, <1>3, <1>4, <1>7 DEF ScanShape
  <2>2. todo \subseteq Evidence \cup {"unknown_schema"} /\ "unknown_schema" \notin Evidence
    BY <1>2, <1>4 DEF ScanShape, Evidence
  <2>3. /\ \A q \in Path : q # p => evidence'[q] = evidence[q]
        /\ evidence'[p] = evidence[p] \cup ({r} \cap Evidence) /\ evidence[p] \subseteq Evidence
        /\ evidence' \in [Path -> SUBSET Evidence]
    BY <1>1, <1>3, <1>7, <2>2 DEF Shapes
  <2>4. reported \subseteq reported'
    BY <1>7
  <2>5. Shapes'
    BY <1>1, <1>3, <1>7, <2>1, <2>3 DEF Shapes, ScanShape
  <2>6. todo \cap Evidence # {} => Written(p, {"marker", "call", "output"})
    BY <1>1, <1>2, <1>3 DEF Visit
  <2>7. Visit'
    <3>1. script[p][n + 1] = "strange" => "unknown_schema" \in todo \ {r} \/ <<p, g, n + 1>> \in reported'
      BY <1>1, <1>2, <1>3, <1>7 DEF Visit
    <3>2. (todo \ {r}) \cap Evidence # {} => Written(p, {"marker", "call", "output"})'
      BY <1>3, <2>6 DEF Written
    <3> QED BY <1>1, <1>2, <1>3, <2>1, <3>1, <3>2 DEF Visit
  <2>8. ASSUME NEW q \in Path PROVE FileInv(q)'
    <3>1. Position(q)' = Position(q)
      BY <1>2, <1>3, <2>1 DEF Position, Visits
    <3>2. CASE q # p
      <4>1. InHand(q) = {}
        BY <1>2, <3>2 DEF InHand
      <4> QED BY <1>1, <1>3, <1>7, <2>3, <2>4, <3>1, <3>2, <4>1, FileStays
    <3>3. CASE q = p
      <4>1. Reported(p)' /\ (p \notin hurt => Kept(p)')
        BY <1>1, <1>3, <2>3, <2>4, ConsumedStays
      <4>2. Earned(p)'
        <5>1. evidence'[p] # {} => Written(p, {"marker", "call", "output"})
          BY <1>1, <1>3, <2>3, <2>6 DEF FileInv, Earned
        <5> QED BY <1>1, <1>3, <5>1 DEF FileInv, Earned, Written
      <4>3. Complete(p) => Complete(p)'
        <5>1. InHand(p) = todo /\ InHand(p)' = todo \ {r}
          BY <1>2, <1>3, <2>1 DEF InHand
        <5> QED BY <2>3, <5>1 DEF Complete
      <4>4. p \notin hurt => Knows(p)'
        BY <1>1, <1>3, <3>1, <3>3, <4>3, KnowsStays DEF FileInv
      <4> QED BY <1>7, <3>3, <4>1, <4>2, <4>4 DEF FileInv
    <3> QED BY <3>2, <3>3
  <2> QED BY <2>5, <2>7, <2>8, FilesMakeInv
<1> QED BY <1>5, <1>6, <1>7

LEMMA CommitStep == ASSUME RolloutInv, CommitLine PROVE RolloutInv'
<1>1. Shapes /\ Visit /\ \A q \in Path : FileInv(q)
  BY ByFile
<1>2. PICK p, n, g : p = scan.path /\ n = scan.offset /\ g = scan.gen
  OBVIOUS
<1>3. /\ p \in Path /\ scan.at = "ingest" /\ scan.todo = {}
      /\ UNCHANGED <<script, lines, gen, old, memory, evidence, reported, skipped>>
  BY <1>1, <1>2 DEF CommitLine, Visit
<1>4. /\ trouble \in 0 .. MaxTrouble /\ old \in [Path -> BOOLEAN] /\ hurt \in SUBSET Path /\ scan \in ScanShape
      /\ Resting \in ScanShape /\ Resting.at = "idle"
  BY <1>1 DEF Shapes, Resting, ScanShape
<1>5. CASE ScanFails /\ Trouble /\ hurt' = hurt \cup {p} /\ UNCHANGED check
  <2>1. /\ hurt' \in SUBSET Path /\ hurt \subseteq hurt' /\ scan.path \in hurt'
        /\ scan' \in ScanShape /\ scan'.at = "idle"
    BY <1>2, <1>3, <1>4, <1>5 DEF ScanFails
  <2> QED BY <1>1, <1>3, <1>4, <1>5, <2>1, TroublePasses, ScanMoves
<1>6. CASE /\ check' = [check EXCEPT ![p] = [gen |-> g, offset |-> n + 1]]
           /\ scan' = [scan EXCEPT !.at = "read", !.offset = n + 1]
           /\ UNCHANGED <<hurt, trouble>>
  <2>1. PICK size \in Nat : size = scan.size /\ n \in Nat /\ g \in Nat \ {0} /\ n < size /\ size <= Len(script[p])
    BY <1>1, <1>2, <1>3 DEF Visit, Shapes, ScanShape
  <2>2. g <= gen[p] /\ (g = gen[p] => size <= lines[p]
                          /\ IF check[p].gen = gen[p] THEN check[p].offset = n ELSE n = 0)
    BY <1>1, <1>2, <1>3, <2>1 DEF Visit
  <2>3. scan' = [path |-> p, gen |-> g, at |-> "read", offset |-> n + 1, size |-> size, todo |-> {}]
        /\ p \in Nat /\ scan' \in ScanShape
    <3>1. scan = [path |-> p, gen |-> g, at |-> "ingest", offset |-> n, size |-> size, todo |-> {}] /\ p \in Nat
      BY <1>2, <1>3, <1>4, <2>1 DEF ScanShape
    <3>2. scan' = [path |-> p, gen |-> g, at |-> "read", offset |-> n + 1, size |-> size, todo |-> {}]
      BY <1>6, <3>1
    <3> QED BY <2>1, <3>1, <3>2 DEF ScanShape
  <2>4. check'[p] = [gen |-> g, offset |-> n + 1] /\ \A q \in Path : q # p => check'[q] = check[q]
    BY <1>1, <1>3, <1>6 DEF Shapes
  <2>5. gen[p] \in Nat \ {0} /\ lines[p] \in Nat /\ skipped[p] \in Nat /\ Len(script[p]) \in Nat
        /\ evidence[p] \subseteq Evidence
    BY <1>1, <1>3, FileFacts
  <2>6. Shapes'
    <3>1. check' \in [Path -> [gen : Nat, offset : Nat]]
      <4>1. [gen |-> g, offset |-> n + 1] \in [gen : Nat, offset : Nat]
        BY <2>1
      <4> QED BY <1>1, <1>6, <4>1 DEF Shapes
    <3>2. ASSUME NEW q \in Path
          PROVE  check'[q].gen <= gen[q] /\ (check'[q].gen = gen[q] => check'[q].offset <= lines[q])
      <4>1. CASE q = p
        <5>1. n + 1 <= size
          BY <2>1
        <5>2. g = gen[p] => n + 1 <= lines[p]
          BY <2>1, <2>2, <2>5, <5>1
        <5> QED BY <2>2, <2>4, <4>1, <5>2
      <4>2. CASE q # p
        BY <1>1, <2>4, <4>2, FileFacts
      <4> QED BY <4>1, <4>2
    <3> QED BY <1>1, <1>3, <1>6, <2>3, <3>1, <3>2 DEF Shapes, ScanShape
  <2>7. Visit'
    <3>1. check'[p] # NoCheckpoint /\ check'[p].gen = g /\ check'[p].offset = n + 1 /\ n + 1 <= size
      BY <2>1, <2>4 DEF NoCheckpoint
    <3> QED BY <1>3, <2>1, <2>2, <2>3, <3>1 DEF Visit
  <2>8. ASSUME NEW q \in Path PROVE FileInv(q)'
    <3>1. CASE q # p
      <4>1. Position(q)' = Position(q) /\ InHand(q) = {}
        BY <1>2, <1>3, <2>3, <2>4, <3>1 DEF Position, Visits, InHand
      <4> QED BY <1>1, <1>3, <1>6, <2>4, <3>1, <4>1, FileStays
    <3>2. CASE q = p
      <4>1. Earned(p)'
        BY <1>1, <1>3, EarnedStays DEF FileInv
      <4>2. InHand(p)' = InHand(p) /\ InHand(p)' = {}
        BY <1>3, <2>3 DEF InHand
      <4>3. CASE g # gen[p]
        <5>1. check'[p].gen # gen'[p] /\ ~ Visits(p)'
          BY <1>3, <2>3, <2>4, <4>3 DEF Visits
        <5>2. Consumed(p)' = {} /\ Position(p)' = 0
          BY <5>1 DEF Consumed, Position
        <5>3. Knows(p)'
          BY <1>3, <2>5, <5>2, KnowsNothing
        <5>4. Reported(p)' /\ Kept(p)'
          BY <5>2 DEF Reported, Kept, Corroborated
        <5> QED BY <3>2, <4>1, <5>3, <5>4 DEF FileInv
      <4>4. CASE g = gen[p]
        <5>1. Consumed(p)' = {l \in 1 .. n + 1 : l > skipped[p]}
          BY <1>3, <2>4, <4>4 DEF Consumed
        <5>2. Reported(p)'
          <6> SUFFICES ASSUME NEW l \in 1 .. n + 1, l > skipped[p], script[p][l] = "strange"
                       PROVE  <<p, gen[p], l>> \in reported
            BY <1>3, <5>1 DEF Reported
          <6>1. CASE l = n + 1
            BY <1>1, <1>2, <1>3, <4>4, <6>1 DEF Visit
          <6>2. CASE l # n + 1
            <7>1. l \in 1 .. n /\ l <= Len(script[p])
              BY <2>1, <2>5, <6>2
            <7>2. check[p].gen = gen[p] /\ check[p].offset = n
              BY <2>2, <4>4, <7>1
            <7>3. l \in Consumed(p)
              BY <7>1, <7>2 DEF Consumed
            <7> QED BY <1>1, <1>3, <7>1, <7>3 DEF FileInv, Reported
          <6> QED BY <6>1, <6>2
        <5>3. ASSUME p \notin hurt PROVE Knows(p)' /\ Kept(p)'
          <6>1. Position(p) = n + 1 /\ Position(p)' = n + 1
            BY <1>2, <1>3, <2>3, <4>4 DEF Position, Visits
          <6>2. Knows(p)
            BY <1>1, <1>3, <5>3 DEF FileInv
          <6>3. Complete(p)' = Complete(p)
            BY <1>3, <4>2 DEF Complete
          <6>4. Knows(p)'
            BY <1>1, <1>3, <6>1, <6>2, <6>3, KnowsStays
          <6>5. Learned(script[p], skipped[p], memory[p], Complete(p), n + 1)
            BY <6>1, <6>2 DEF Knows
          <6>6. ASSUME Corroborated(p)' PROVE Complete(p)
            <7>1. PICK i, j, k \in 1 .. n + 1 : i > skipped[p] /\ i < j /\ j < k /\ script[p][i] = "marker"
                     /\ script[p][j] = "call" /\ script[p][k] = "output"
              BY <1>3, <5>1, <6>6 DEF Corroborated
            <7> QED BY <6>5, <7>1 DEF Learned
          <6>7. Kept(p)'
            BY <1>3, <2>5, <4>2, <6>6 DEF Kept, Complete
          <6> QED BY <6>4, <6>7
        <5> QED BY <1>6, <3>2, <4>1, <5>2, <5>3 DEF FileInv
      <4> QED BY <4>3, <4>4
    <3> QED BY <3>1, <3>2
  <2> QED BY <2>6, <2>7, <2>8, FilesMakeInv
<1>7. \/ /\ check' = [check EXCEPT ![p] = [gen |-> g, offset |-> n + 1]]
         /\ scan' = [scan EXCEPT !.at = "read", !.offset = n + 1]
         /\ UNCHANGED <<hurt, trouble>>
      \/ ScanFails /\ Trouble /\ hurt' = hurt \cup {p} /\ UNCHANGED check
  BY <1>2 DEF CommitLine
<1> QED BY <1>5, <1>6, <1>7

\* What a new process has forgotten can concern only files it takes for old.
LEMMA RestartStep == ASSUME RolloutInv, WatcherRestarts PROVE RolloutInv'
<1>1. Shapes /\ Visit /\ \A q \in Path : FileInv(q)
  BY ByFile
<1>2. /\ scan' = Resting /\ memory' = [p \in Path |-> NoMemory] /\ Trouble
      /\ hurt' = hurt \cup {p \in Path : check[p] # NoCheckpoint \/ lines[p] > 0}
      /\ old' = [p \in Path |-> lines[p] > 0]
      /\ UNCHANGED <<script, lines, gen, check, evidence, reported, skipped>>
  BY DEF WatcherRestarts
<1>3. trouble' \in 0 .. MaxTrouble /\ trouble <= trouble'
  BY <1>1, <1>2, TroublePasses
<1>4. Shapes'
  <2>1. \A q \in Path : gen[q] <= trouble' + 1
    BY <1>1, <1>3, FileFacts DEF Shapes
  <2>2. /\ memory' \in [Path -> [skill : BOOLEAN, call : BOOLEAN]] /\ old' \in [Path -> BOOLEAN]
        /\ scan' \in ScanShape /\ hurt' \subseteq Path
    BY <1>1, <1>2 DEF Shapes, Resting, ScanShape, NoMemory
  <2> QED BY <1>1, <1>2, <1>3, <2>1, <2>2 DEF Shapes, ScanShape
<1>5. Visit'
  BY <1>2 DEF Visit, Resting
<1>6. ASSUME NEW q \in Path PROVE FileInv(q)'
  <2>1. Reported(q)' /\ (q \notin hurt => Kept(q)')
    BY <1>1, <1>2, ConsumedStays
  <2>2. Earned(q)'
    BY <1>1, <1>2 DEF FileInv, Earned, Written, NoMemory
  <2>3. ASSUME q \notin hurt' PROVE Knows(q)'
    <3>1. check[q] = NoCheckpoint /\ gen[q] # 0 /\ skipped[q] \in Nat
      BY <1>1, <1>2, <2>3, FileFacts
    <3>2. Position(q)' = 0
      BY <1>2, <3>1 DEF Position, Visits, NoCheckpoint, Resting
    <3> QED BY <1>2, <3>1, <3>2, KnowsNothing
  <2> QED BY <1>2, <2>1, <2>2, <2>3 DEF FileInv
<1> QED BY <1>4, <1>5, <1>6, FilesMakeInv

LEMMA RolloutInvStep == RolloutInv /\ [RolloutNext]_rolloutVars => RolloutInv'
<1> SUFFICES ASSUME RolloutInv, [RolloutNext]_rolloutVars PROVE RolloutInv'
  OBVIOUS
<1>1. CASE RolloutNext
  BY <1>1, AppendStep, RotateStep, BeginStep, OpenStep, ReadLineStep, IngestOneStep, CommitStep, RestartStep
     DEF RolloutNext
<1>2. CASE UNCHANGED rolloutVars
  <2>1. UNCHANGED <<script, lines, gen, old, check, memory, scan, evidence, reported, skipped, hurt, trouble>>
    BY <1>2 DEF rolloutVars
  <2>2. Shapes /\ Visit /\ \A q \in Path : FileInv(q)
    BY ByFile
  <2>3. Shapes'
    BY <2>1, <2>2 DEF Shapes, ScanShape
  <2>4. Visit'
    BY <2>1, <2>2 DEF Visit, Written
  <2>5. ASSUME NEW q \in Path PROVE FileInv(q)'
    <3>1. InHand(q)' = InHand(q) /\ Position(q)' = Position(q)
      BY <2>1 DEF InHand, Position, Visits
    <3> QED BY <2>1, <2>2, <3>1, FileStays
  <2> QED BY <2>3, <2>4, <2>5, FilesMakeInv
<1> QED BY <1>1, <1>2

LEMMA RolloutInvariant == RolloutSpec => []RolloutInv
BY RolloutInitInv, RolloutInvStep, PTL DEF RolloutSpec

\* Files, checkpoints and the visit keep their types, whatever is written and rotated.
THEOREM RolloutTyped == RolloutSpec => []RolloutTypeOK
BY RolloutInvariant, RolloutTypes, PTL

\* Whatever fails, restarts or is rotated between the lines of whatever files there
\* are: a checkpoint passes no unknown line that is not in quarantine and no read in
\* one piece whose records are not stored, and a marker alone is no evidence.
THEOREM CheckpointsAgree == RolloutSpec => []CheckpointAgrees
BY RolloutInvariant, CheckpointTells, PTL

HIDE RolloutAssumption

-----------------------------------------------------------------------------
-----------------------------------------------------------------------------
(* The receivers of OTLP and of hooks.                                     *)

ReceiverSpec == ReceiverInit /\ [][ReceiverNext]_receiverVars

Verdict == {"fact", "sample", "invalid", "foreign", "malformed", "drift", "shape"}
Accounted(c, i) == Stored(c, i) \/ Quarantined(c, i)

\* What is stored is of a request that was admitted, under one identity; a foreign
\* resource is counted in an hour that has come.
SinkInv ==
  /\ facts \subseteq Client \X Nat \X Nat
  /\ quarantine \subseteq Client \X Nat \X Nat \X Verdict /\ hour \in 0 .. 1
  /\ \A f \in facts : Admitted(f[1]) /\ (Lane(f[1]) # "hook" => f[3] = 0)
  /\ \A q \in quarantine : q[4] = "foreign" => q[3] <= hour

CallShape == [at : {"waiting", "handling", "retry", "silence", "accepted", "refused"},
              next : Nat \ {0}, sent : 0 .. MaxSend]
\* A request is handled record by record, and none it has passed is lost.
Served(c, r) ==
  /\ r \in CallShape /\ r.next <= Len(Records(c)) + 1
  /\ r.at = "handling" => Admitted(c) /\ \A i \in 1 .. r.next - 1 : Accounted(c, i)
  /\ r.at = "accepted" => \A i \in DOMAIN Records(c) : Accounted(c, i)
  /\ r.at = "refused" => ~ Admitted(c) \/ HasSample(c)

ReceiverInv ==
  /\ SinkInv /\ call = [c \in Client |-> call[c]]
  /\ \A c \in Client : Served(c, call[c])

USE ReceiverAssumption

-----------------------------------------------------------------------------
LEMMA RecordsOf ==
  ASSUME NEW c \in Client
  PROVE  Len(Records(c)) \in Nat /\ DOMAIN Records(c) = 1 .. Len(Records(c))
OBVIOUS

LEMMA ReceiverTypes == ReceiverInv => ReceiverTypeOK
<1> SUFFICES ASSUME ReceiverInv PROVE ReceiverTypeOK
  OBVIOUS
<1>1. hour \in 0 .. 1
  BY DEF ReceiverInv, SinkInv
<1>2. ASSUME NEW c \in Client
      PROVE /\ call[c].at \in {"waiting", "handling", "retry", "silence", "accepted", "refused"}
            /\ call[c].next \in 1 .. Len(Records(c)) + 1 /\ call[c].sent \in 0 .. MaxSend
  <2>1. call[c] \in CallShape /\ call[c].next <= Len(Records(c)) + 1
    BY DEF ReceiverInv, Served
  <2> QED BY <2>1, RecordsOf DEF CallShape
<1> QED BY <1>1, <1>2 DEF ReceiverTypeOK

LEMMA AnswersTell == ReceiverInv => AnswersAreTrue
<1> SUFFICES ASSUME ReceiverInv PROVE AnswersAreTrue
  OBVIOUS
<1>1. AcceptedIsAccounted
  BY DEF ReceiverInv, Served, Accounted, AcceptedIsAccounted
<1>2. RefusedLeavesNothing
  <2> SUFFICES ASSUME NEW c \in Client, call[c].at = "refused", ~ HasSample(c),
                      NEW i \in DOMAIN Records(c), Stored(c, i)
               PROVE  FALSE
    BY DEF RefusedLeavesNothing
  <2>1. ~ Admitted(c)
    BY DEF ReceiverInv, Served
  <2>2. Admitted(c)
    BY DEF ReceiverInv, SinkInv, Stored
  <2> QED BY <2>1, <2>2
<1>3. ResendsAddNoFact
  <2> SUFFICES ASSUME NEW c \in Client, Lane(c) # "hook", NEW i \in DOMAIN Records(c)
               PROVE  Cardinality({f \in facts : f[1] = c /\ f[2] = i}) <= 1
    BY DEF ResendsAddNoFact
  <2>1. \A f \in facts : f[1] = c /\ f[2] = i => f = <<c, i, 0>>
    BY DEF ReceiverInv, SinkInv
  <2>2. {f \in facts : f[1] = c /\ f[2] = i} \subseteq {<<c, i, 0>>}
    BY <2>1
  <2>3. IsFiniteSet({<<c, i, 0>>}) /\ Cardinality({<<c, i, 0>>}) = 1
    BY FS_Singleton
  <2>4. /\ IsFiniteSet({f \in facts : f[1] = c /\ f[2] = i})
        /\ Cardinality({f \in facts : f[1] = c /\ f[2] = i}) <= Cardinality({<<c, i, 0>>})
    BY <2>2, <2>3, FS_Subset
  <2> QED BY <2>3, <2>4
<1>4. ForeignCountedHourly
  <2> SUFFICES ASSUME NEW c \in Client, NEW i \in DOMAIN Records(c)
               PROVE  Cardinality({q \in quarantine : q[1] = c /\ q[2] = i /\ q[4] = "foreign"}) <= hour + 1
    BY DEF ForeignCountedHourly
  <2> DEFINE S == {q \in quarantine : q[1] = c /\ q[2] = i /\ q[4] = "foreign"}
             At(h) == <<c, i, h, "foreign">>
  <2>0. hour \in 0 .. 1
    BY DEF ReceiverInv, SinkInv
  <2>1. \A q \in S : q = At(q[3]) /\ q[3] \in Nat /\ q[3] <= hour
    BY DEF ReceiverInv, SinkInv
  <2>2. \A q \in S : q = At(0) \/ (hour = 1 /\ q = At(1))
    BY <2>0, <2>1
  <2> HIDE DEF S, At
  <2>3. CASE hour = 0
    <3>1. S \subseteq {At(0)}
      BY <2>2, <2>3
    <3>2. IsFiniteSet({At(0)}) /\ Cardinality({At(0)}) = 1
      BY FS_Singleton
    <3>3. Cardinality(S) <= Cardinality({At(0)})
      BY <3>1, <3>2, FS_Subset
    <3> QED BY <2>3, <3>2, <3>3 DEF S
  <2>4. CASE hour = 1
    <3>1. S \subseteq {At(0)} \cup {At(1)}
      BY <2>2
    <3>2. IsFiniteSet({At(0)}) /\ Cardinality({At(0)}) = 1
      BY FS_Singleton
    <3>3. /\ IsFiniteSet({At(0)} \cup {At(1)})
          /\ Cardinality({At(0)} \cup {At(1)}) = 1 \/ Cardinality({At(0)} \cup {At(1)}) = 2
      BY <3>2, FS_AddElement
    <3>4. IsFiniteSet(S) /\ Cardinality(S) <= Cardinality({At(0)} \cup {At(1)})
      BY <3>1, <3>3, FS_Subset
    <3>5. Cardinality(S) \in Nat
      BY <3>4, FS_CardinalityType
    <3> QED BY <2>4, <3>3, <3>4, <3>5 DEF S
  <2> QED BY <2>0, <2>3, <2>4
<1> QED BY <1>1, <1>2, <1>3, <1>4 DEF AnswersAreTrue

-----------------------------------------------------------------------------
LEMMA ReceiverInitInv == ReceiverInit => ReceiverInv
<1> SUFFICES ASSUME ReceiverInit PROVE ReceiverInv
  OBVIOUS
<1>1. SinkInv
  BY DEF ReceiverInit, SinkInv
<1>2. ASSUME NEW c \in Client PROVE Served(c, call[c])
  <2>1. call[c] = [at |-> "waiting", next |-> 1, sent |-> 0]
    BY DEF ReceiverInit
  <2> QED BY <2>1, RecordsOf DEF Served, CallShape
<1> QED BY <1>1, <1>2 DEF ReceiverInv, ReceiverInit

LEMMA ServedStays ==
  ASSUME NEW c \in Client, NEW r, Served(c, r), facts \subseteq facts', quarantine \subseteq quarantine'
  PROVE  Served(c, r)'
BY DEF Served, Accounted, Stored, Quarantined

\* One request moves on, and what is stored stays.
LEMMA OneMovesOn ==
  ASSUME ReceiverInv, NEW c \in Client, NEW r, call' = [call EXCEPT ![c] = r],
         facts \subseteq facts', quarantine \subseteq quarantine', SinkInv', Served(c, r)'
  PROVE  ReceiverInv'
<1>1. ASSUME NEW k \in Client, NEW s, s = call'[k] PROVE Served(k, s)'
  <2>1. CASE k = c
    <3>1. s = r
      BY <1>1, <2>1 DEF ReceiverInv
    <3> QED BY <2>1, <3>1
  <2>2. CASE k # c
    <3>1. s = call[k]
      BY <1>1, <2>2 DEF ReceiverInv
    <3> QED BY <3>1, ServedStays DEF ReceiverInv
  <2> QED BY <2>1, <2>2
<1>2. ASSUME NEW k \in Client PROVE Served(k, call[k])'
  <2>1. PICK s : s = call'[k]
    OBVIOUS
  <2>2. Served(k, s)'
    BY <1>1, <2>1
  <2> QED BY <2>1, <2>2 DEF Served
<1> QED BY <1>2 DEF ReceiverInv

LEMMA SendStep == ASSUME ReceiverInv, NEW c \in Client, Send(c) PROVE ReceiverInv'
<1>1. PICK r : r = [at |-> IF Admitted(c) THEN "handling" ELSE "refused", next |-> 1, sent |-> call[c].sent + 1]
  OBVIOUS
<1>2. call' = [call EXCEPT ![c] = r] /\ UNCHANGED <<facts, quarantine, hour>> /\ call[c].sent < MaxSend
  BY <1>1 DEF Send
<1>3. call[c].sent \in 0 .. MaxSend
  BY DEF ReceiverInv, Served, CallShape
<1>4. SinkInv'
  BY <1>2 DEF ReceiverInv, SinkInv
<1>5. Served(c, r)
  BY <1>1, <1>2, <1>3, RecordsOf DEF Served, CallShape
<1> QED BY <1>2, <1>4, <1>5, ServedStays, OneMovesOn

LEMMA AcceptStep == ASSUME ReceiverInv, NEW c \in Client, AcceptRequest(c) PROVE ReceiverInv'
<1>1. PICK r : r = [call[c] EXCEPT !.at = "accepted"]
  OBVIOUS
<1>2. call' = [call EXCEPT ![c] = r] /\ UNCHANGED <<facts, quarantine, hour>>
      /\ call[c].at = "handling" /\ call[c].next > Len(Records(c))
  BY <1>1 DEF AcceptRequest, AnswerWith
<1>3. SinkInv'
  BY <1>2 DEF ReceiverInv, SinkInv
<1>4. Served(c, call[c]) /\ call[c] \in CallShape
  BY DEF ReceiverInv, Served
<1>5. r = [at |-> "accepted", next |-> call[c].next, sent |-> call[c].sent] /\ r \in CallShape
  BY <1>1, <1>4 DEF CallShape
<1>6. \A i \in DOMAIN Records(c) : i \in 1 .. call[c].next - 1
  BY <1>2, <1>4, RecordsOf DEF CallShape
<1>7. Served(c, r)
  BY <1>2, <1>4, <1>5, <1>6 DEF Served
<1> QED BY <1>2, <1>3, <1>7, ServedStays, OneMovesOn

LEMMA SilenceShape ==
  ASSUME NEW c \in Client, NEW r, Served(c, r), NEW s, s = [r EXCEPT !.at = "silence"] PROVE Served(c, s)
<1>1. s = [at |-> "silence", next |-> r.next, sent |-> r.sent] /\ s \in CallShape
  BY DEF Served, CallShape
<1> QED BY <1>1 DEF Served

LEMMA NoAnswerStep == ASSUME ReceiverInv, NEW c \in Client, NoAnswer(c) PROVE ReceiverInv'
<1>1. UNCHANGED <<facts, quarantine, hour>>
  BY DEF NoAnswer
<1>2. SinkInv'
  BY <1>1 DEF ReceiverInv, SinkInv
<1>3. /\ call' = [k \in Client |-> call'[k]]
      /\ \A k \in Client : call'[k] = call[k] \/ call'[k] = [call[k] EXCEPT !.at = "silence"]
  <2>1. CASE call' = [call EXCEPT ![c].at = "silence"]
    BY <2>1 DEF ReceiverInv
  <2>2. CASE call' = [k \in Client |-> IF call[k].at = "handling"
                                       THEN [call[k] EXCEPT !.at = "silence"] ELSE call[k]]
    BY <2>2 DEF ReceiverInv
  <2> QED BY <2>1, <2>2 DEF NoAnswer
<1>4. ASSUME NEW k \in Client PROVE Served(k, call[k])'
  <2>1. PICK s : s = call'[k]
    OBVIOUS
  <2>2. Served(k, call[k])
    BY DEF ReceiverInv
  <2>3. Served(k, s)
    BY <1>3, <2>1, <2>2, SilenceShape
  <2>4. Served(k, s)'
    BY <1>1, <2>3, ServedStays
  <2> QED BY <2>1, <2>4 DEF Served
<1> QED BY <1>2, <1>3, <1>4 DEF ReceiverInv
LEMMA Verdicts ==
  ASSUME NEW c \in Client, NEW r
  PROVE  /\ Disposition(c, r) \in Verdict
         /\ Disposition(c, r) = "invalid" => Lane(c) = "batch" /\ ~ RecordValid(r)
         /\ Disposition(c, r) = "sample" => Lane(c) = "metric" /\ MetricDisposition(r) = "sample"
<1>1. EventDisposition(r) \in {"foreign", "malformed", "drift", "fact"}
  BY DEF EventDisposition
<1>2. MetricDisposition(r) \in {"foreign", "malformed", "drift", "fact", "shape", "sample"}
  BY <1>1 DEF MetricDisposition
<1>3. Lane(c) \in {"log", "metric", "batch", "hook"}
  OBVIOUS
<1> HIDE DEF Lane
<1> QED BY <1>1, <1>2, <1>3 DEF Disposition, Verdict

LEMMA FactStored ==
  ASSUME ReceiverInv, NEW c \in Client, Admitted(c), NEW i \in Nat,
         facts' \in {facts, facts \cup {Identity(c, i)}}, UNCHANGED <<quarantine, hour>>
  PROVE  SinkInv' /\ facts \subseteq facts' /\ quarantine \subseteq quarantine'
<1>1. call[c].sent \in Nat
  BY DEF ReceiverInv, Served, CallShape
<1>2. PICK f : f = Identity(c, i)
  OBVIOUS
<1>3. f \in Client \X Nat \X Nat /\ f[1] = c /\ (Lane(c) # "hook" => f[3] = 0)
  BY <1>1, <1>2 DEF Identity
<1>4. \A g \in facts' : g \in facts \/ g = f
  BY <1>2
<1>5. facts' \subseteq Client \X Nat \X Nat
  BY <1>3, <1>4 DEF ReceiverInv, SinkInv
<1>6. \A g \in facts' : Admitted(g[1]) /\ (Lane(g[1]) # "hook" => g[3] = 0)
  BY <1>3, <1>4 DEF ReceiverInv, SinkInv
<1> QED BY <1>5, <1>6 DEF ReceiverInv, SinkInv

LEMMA OccurrenceStored ==
  ASSUME ReceiverInv, NEW c \in Client, NEW i \in Nat, NEW d \in Verdict,
         quarantine' \in {quarantine, quarantine \cup {Occurrence(c, i, d)}}, UNCHANGED <<facts, hour>>
  PROVE  SinkInv' /\ facts \subseteq facts' /\ quarantine \subseteq quarantine'
<1>1. call[c].sent \in Nat /\ hour \in 0 .. 1
  BY DEF ReceiverInv, Served, CallShape, SinkInv
<1>2. PICK q : q = Occurrence(c, i, d)
  OBVIOUS
<1>3. q \in Client \X Nat \X Nat \X Verdict /\ (q[4] = "foreign" => q[3] <= hour)
  <2>1. CASE d = "foreign"
    <3>1. q = <<c, i, hour, d>>
      BY <1>2, <2>1 DEF Occurrence
    <3> QED BY <1>1, <3>1
  <2>2. CASE d # "foreign"
    <3>1. q = <<c, i, call[c].sent, d>>
      BY <1>2, <2>2 DEF Occurrence
    <3> QED BY <1>1, <2>2, <3>1
  <2> QED BY <2>1, <2>2
<1>4. \A g \in quarantine' : g \in quarantine \/ g = q
  BY <1>2
<1>5. quarantine' \subseteq Client \X Nat \X Nat \X Verdict
  BY <1>3, <1>4 DEF ReceiverInv, SinkInv
<1>6. \A g \in quarantine' : g[4] = "foreign" => g[3] <= hour
  BY <1>3, <1>4 DEF ReceiverInv, SinkInv
<1> QED BY <1>5, <1>6 DEF ReceiverInv, SinkInv

\* After a record the request goes on, or it ends.
LEMMA RecordPassed ==
  ASSUME ReceiverInv, NEW c \in Client, NEW n, n = call[c].next, call[c].at = "handling",
         n \in DOMAIN Records(c), GoOn(c),
         facts \subseteq facts', quarantine \subseteq quarantine', SinkInv', Accounted(c, n)'
  PROVE  ReceiverInv'
<1>1. PICK r : r = [call[c] EXCEPT !.next = call[c].next + 1]
  OBVIOUS
<1>2. call' = [call EXCEPT ![c] = r]
  BY <1>1 DEF GoOn
<1>3. Served(c, call[c])
  BY DEF ReceiverInv
<1>4. n \in Nat \ {0} /\ n = call[c].next
  BY <1>3 DEF Served, CallShape
<1>5. r = [at |-> "handling", next |-> n + 1, sent |-> call[c].sent] /\ r \in CallShape
  BY <1>1, <1>3, <1>4 DEF Served, CallShape
<1>6. n + 1 <= Len(Records(c)) + 1
  BY <1>4, RecordsOf
<1>7. \A i \in 1 .. n - 1 : Accounted(c, i)'
  <2>1. \A i \in 1 .. n - 1 : Accounted(c, i)
    BY <1>3, <1>4 DEF Served
  <2> QED BY <2>1 DEF Accounted, Stored, Quarantined
<1>9. \A i \in 1 .. n + 1 - 1 : i = n \/ i \in 1 .. n - 1
  OBVIOUS
<1>10. \A i \in 1 .. r.next - 1 : Accounted(c, i)'
  BY <1>5, <1>7, <1>9
<1>11. Admitted(c)
  BY <1>3 DEF Served
<1>12. Served(c, r)'
  BY <1>5, <1>6, <1>10, <1>11 DEF Served
<1> QED BY <1>2, <1>12, OneMovesOn

LEMMA RequestEnds ==
  ASSUME ReceiverInv, NEW c \in Client, NEW how, AnswerWith(c, how),
         how = "retry" \/ (how = "refused" /\ HasSample(c)),
         facts \subseteq facts', quarantine \subseteq quarantine', SinkInv'
  PROVE  ReceiverInv'
<1>1. PICK r : r = [call[c] EXCEPT !.at = how]
  OBVIOUS
<1>2. call' = [call EXCEPT ![c] = r]
  BY <1>1 DEF AnswerWith
<1>3. r = [at |-> how, next |-> call[c].next, sent |-> call[c].sent] /\ r \in CallShape
      /\ call[c].next <= Len(Records(c)) + 1
  BY <1>1 DEF ReceiverInv, Served, CallShape
<1>4. Served(c, r)
  BY <1>3 DEF Served
<1> QED BY <1>2, <1>4, ServedStays, OneMovesOn

LEMMA HandleStep == ASSUME ReceiverInv, NEW c \in Client, Handle(c) PROVE ReceiverInv'
<1>1. PICK i, r, d : i = call[c].next /\ r = Records(c)[i] /\ d = Disposition(c, r)
  OBVIOUS
<1>2. /\ call[c].at = "handling" /\ i \in DOMAIN Records(c) /\ UNCHANGED hour
      /\ CASE d = "fact" -> StoreEvent(c)
           [] d = "sample" -> StoreSample(c)
           [] d = "invalid" -> AnswerWith(c, "refused") /\ UNCHANGED <<facts, quarantine>>
           [] OTHER -> StoreQuarantine(c, d)
  BY <1>1 DEF Handle
<1>3. Admitted(c) /\ i \in Nat
  BY <1>1, <1>2, RecordsOf DEF ReceiverInv, Served
<1>4. d \in Verdict
  BY <1>1, Verdicts
<1>5. Identity(c, i) \in facts' => Accounted(c, i)'
  <2>1. Identity(c, i)[1] = c /\ Identity(c, i)[2] = i
    BY DEF Identity
  <2> QED BY <2>1 DEF Accounted, Stored
<1>6. Occurrence(c, i, d) \in quarantine' => Accounted(c, i)'
  <2>1. Occurrence(c, i, d)[1] = c /\ Occurrence(c, i, d)[2] = i
    BY DEF Occurrence
  <2> QED BY <2>1 DEF Accounted, Quarantined
<1>7. CASE StoreEvent(c)
  <2>1. facts' \in {facts, facts \cup {Identity(c, i)}} /\ UNCHANGED quarantine
        /\ (AnswerWith(c, "retry") \/ (GoOn(c) /\ Identity(c, i) \in facts'))
    BY <1>1, <1>7 DEF StoreEvent, Aborts
  <2>2. SinkInv' /\ facts \subseteq facts' /\ quarantine \subseteq quarantine'
    BY <1>2, <1>3, <2>1, FactStored
  <2>3. CASE AnswerWith(c, "retry")
    BY <2>2, <2>3, RequestEnds
  <2>4. CASE GoOn(c) /\ Identity(c, i) \in facts'
    BY <1>1, <1>2, <1>5, <2>2, <2>4, RecordPassed
  <2> QED BY <2>1, <2>3, <2>4
<1>8. CASE d = "sample" /\ StoreSample(c)
  <2>1. /\ facts' \in {facts, facts \cup {Identity(c, i)}} /\ UNCHANGED quarantine
        /\ \/ AnswerWith(c, "retry") \/ AnswerWith(c, "refused")
           \/ (GoOn(c) /\ Identity(c, i) \in facts')
    BY <1>1, <1>8 DEF StoreSample, Aborts
  <2>2. SinkInv' /\ facts \subseteq facts' /\ quarantine \subseteq quarantine'
    BY <1>2, <1>3, <2>1, FactStored
  <2>3. HasSample(c)
    BY <1>1, <1>2, <1>8, Verdicts DEF HasSample
  <2>4. CASE AnswerWith(c, "retry")
    BY <2>2, <2>4, RequestEnds
  <2>5. CASE AnswerWith(c, "refused")
    BY <2>2, <2>3, <2>5, RequestEnds
  <2>6. CASE GoOn(c) /\ Identity(c, i) \in facts'
    BY <1>1, <1>2, <1>5, <2>2, <2>6, RecordPassed
  <2> QED BY <2>1, <2>4, <2>5, <2>6
<1>9. CASE d = "invalid"
  <2>1. Lane(c) = "batch" /\ ~ RecordValid(r)
    BY <1>1, <1>9, Verdicts
  <2>2. RecordValid(r)
    <3>1. \A k \in DOMAIN Records(c) : RecordValid(Records(c)[k])
      BY <1>3, <2>1 DEF Admitted
    <3> QED BY <1>1, <1>2, <3>1
  <2> QED BY <2>1, <2>2
<1>10. CASE StoreQuarantine(c, d)
  <2>1. /\ quarantine' \in {quarantine, quarantine \cup {Occurrence(c, i, d)}} /\ UNCHANGED facts
        /\ \/ AnswerWith(c, "retry")
           \/ (GoOn(c) /\ Occurrence(c, i, d) \in quarantine')
    BY <1>1, <1>10 DEF StoreQuarantine, Aborts
  <2>2. SinkInv' /\ facts \subseteq facts' /\ quarantine \subseteq quarantine'
    BY <1>2, <1>3, <1>4, <2>1, OccurrenceStored
  <2>3. CASE AnswerWith(c, "retry")
    BY <2>2, <2>3, RequestEnds
  <2>4. CASE GoOn(c) /\ Occurrence(c, i, d) \in quarantine'
    BY <1>1, <1>2, <1>6, <2>2, <2>4, RecordPassed
  <2> QED BY <2>1, <2>3, <2>4
<1> QED BY <1>2, <1>7, <1>8, <1>9, <1>10

LEMMA HourStep == ASSUME ReceiverInv, HourPasses PROVE ReceiverInv'
<1>1. UNCHANGED <<call, facts, quarantine>> /\ hour = 0 /\ hour' = 1
  BY DEF HourPasses
<1>2. \A q \in quarantine : q[3] \in Nat /\ (q[4] = "foreign" => q[3] <= 1)
  BY <1>1 DEF ReceiverInv, SinkInv
<1>3. SinkInv'
  BY <1>1, <1>2 DEF ReceiverInv, SinkInv
<1>4. ASSUME NEW c \in Client PROVE Served(c, call[c])'
  BY <1>1 DEF ReceiverInv, Served, Accounted, Stored, Quarantined
<1> QED BY <1>1, <1>3, <1>4 DEF ReceiverInv

LEMMA ReceiverInvStep == ReceiverInv /\ [ReceiverNext]_receiverVars => ReceiverInv'
<1> SUFFICES ASSUME ReceiverInv, [ReceiverNext]_receiverVars PROVE ReceiverInv'
  OBVIOUS
<1>1. CASE ReceiverNext
  BY <1>1, SendStep, HandleStep, AcceptStep, NoAnswerStep, HourStep DEF ReceiverNext
<1>2. CASE UNCHANGED receiverVars
  <2>1. UNCHANGED <<call, facts, quarantine, hour>>
    BY <1>2 DEF receiverVars
  <2>2. SinkInv'
    BY <2>1 DEF ReceiverInv, SinkInv
  <2>3. ASSUME NEW c \in Client PROVE Served(c, call[c])'
    BY <2>1 DEF ReceiverInv, Served, Accounted, Stored, Quarantined
  <2> QED BY <2>1, <2>2, <2>3 DEF ReceiverInv
<1> QED BY <1>1, <1>2

LEMMA ReceiverInvariant == ReceiverSpec => []ReceiverInv
BY ReceiverInitInv, ReceiverInvStep, PTL DEF ReceiverSpec

\* A request is handled at one of its records, however often it is sent.
THEOREM ReceiversTyped == ReceiverSpec => []ReceiverTypeOK
BY ReceiverInvariant, ReceiverTypes, PTL

\* Whatever requests are sent again after whatever abort, lost answer or crash: an
\* accepted one is stored or counted record by record, a refused one left nothing, a
\* resent record adds no fact and a foreign resource no second count in its hour.
THEOREM AnswersStayTrue == ReceiverSpec => []AnswersAreTrue
BY ReceiverInvariant, AnswersTell, PTL

HIDE ReceiverAssumption

-----------------------------------------------------------------------------
-----------------------------------------------------------------------------
(* The evidence of MCP calls and its pages.                                *)

McpSpec == McpInit /\ [][McpNext]_mcpVars

\* Of a run: what it has passed is stored, and a frame is named before it is linked.
Runs(r) ==
  /\ r.at \in {"off", "reading", "valid", "named", "linked"}
  /\ r.at # "off" => /\ r.frames \in McpStream /\ r.next \in 1 .. Len(r.frames) + 1
                     /\ \A i \in 1 .. r.next - 1 : IsStored(r.frames[i])
  /\ r.at \in {"valid", "named", "linked"} => r.next \in DOMAIN r.frames
  /\ r.at \in {"named", "linked"} => r.frames[r.next].server \in named.servers

Within(counts, frames) ==
  counts.started \subseteq CallsIn(frames, {"started"}) /\ counts.ended \subseteq CallsIn(frames, Ending)
McpPageInv ==
  /\ McpPagesAgree /\ page.at \in {"idle", "listed", "primitives", "profile", "answered"}
  /\ page.at # "idle" => Within(page.row, OfKind("call", page.server))
  /\ page = [at |-> page.at, server |-> page.server, tool |-> page.tool, row |-> page.row,
             tools |-> page.tools, outcomes |-> page.outcomes, ofTool |-> page.ofTool]

StoredInv ==
  /\ \A f \in kept : f.server \in named.servers
  /\ named = [servers |-> named.servers, tools |-> named.tools]
  /\ \A c \in credited : c = <<c[1], c[2]>>
  /\ ReconciledIsStored /\ CallsHaveOneOwner

McpInv ==
  /\ StoredInv /\ McpPageInv
  /\ running = [r \in Runner |-> [at |-> running[r].at, frames |-> running[r].frames, next |-> running[r].next]]
  /\ \A r \in Runner : Runs(running[r])

USE McpAssumption

-----------------------------------------------------------------------------
LEMMA StreamsAreSequences ==
  ASSUME NEW frames \in McpStream
  PROVE  Len(frames) \in Nat /\ DOMAIN frames = 1 .. Len(frames)
<1>1. PICK S : frames \in Seq(S)
  OBVIOUS
<1> QED BY <1>1

LEMMA McpFacts == McpInv => McpTypeOK /\ McpHolds
BY DEF McpInv, StoredInv, McpPageInv, Runs, McpTypeOK, McpHolds

LEMMA McpInitInv == McpInit => McpInv
<1> SUFFICES ASSUME McpInit PROVE McpInv
  OBVIOUS
<1>1. StoredInv
  BY DEF McpInit, StoredInv, ReconciledIsStored, CallsHaveOneOwner
<1>2. McpPageInv
  BY DEF McpInit, McpPageInv, McpPagesAgree, NoPage, NoCounts
<1> QED BY <1>1, <1>2 DEF McpInit, McpInv, Runs, Off

-----------------------------------------------------------------------------
(* Tables only grow.                                                       *)

Grows == kept \subseteq kept' /\ named.servers \subseteq named'.servers

LEMMA StoredStays ==
  ASSUME Grows, NEW f, IsStored(f) PROVE IsStored(f)'
BY DEF Grows, IsStored

LEMMA RunsStays ==
  ASSUME Grows, NEW r, Runs(r) PROVE Runs(r)'
<1>1. \A f : IsStored(f) => IsStored(f)'
  BY StoredStays
<1>2. named.servers \subseteq named'.servers
  BY DEF Grows
<1> QED BY <1>1, <1>2 DEF Runs

LEMMA WithinStays ==
  ASSUME Grows, NEW counts, NEW s, Within(counts, OfKind("call", s))
  PROVE  Within(counts, OfKind("call", s))'
BY DEF Grows, Within, OfKind, CallsIn

LEMMA PageStays ==
  ASSUME Grows, McpPageInv, page' = page PROVE McpPageInv'
<1>1. PICK s, row : s = page.server /\ row = page.row
  OBVIOUS
<1>2. page.at # "idle" => Within(row, OfKind("call", s))
  BY <1>1 DEF McpPageInv
<1>3. page.at # "idle" => Within(row, OfKind("call", s))'
  BY <1>2, WithinStays
<1>4. (page.at # "idle" => Within(page.row, OfKind("call", page.server)))'
  BY <1>1, <1>3 DEF Within, OfKind, CallsIn
<1> QED BY <1>4 DEF McpPageInv, McpPagesAgree

\* One run moves, and the tables grow.
LEMMA OneRuns ==
  ASSUME McpInv, NEW r \in Runner, NEW at, NEW frames, NEW next,
         running' = [running EXCEPT ![r] = [at |-> at, frames |-> frames, next |-> next]],
         Grows, page' = page, StoredInv', Runs([at |-> at, frames |-> frames, next |-> next])'
  PROVE  McpInv'
<1> DEFINE new == [at |-> at, frames |-> frames, next |-> next]
<1>1. ASSUME NEW q \in Runner, NEW s, s = running'[q]
      PROVE  Runs(s)' /\ s = [at |-> s.at, frames |-> s.frames, next |-> s.next]
  <2>1. CASE q = r
    <3>1. s = new
      BY <1>1, <2>1 DEF McpInv
    <3> QED BY <3>1
  <2>2. CASE q # r
    <3>1. s = running[q] /\ s = [at |-> s.at, frames |-> s.frames, next |-> s.next]
      BY <1>1, <2>2 DEF McpInv
    <3>2. Runs(s)
      BY <3>1 DEF McpInv
    <3> QED BY <3>1, <3>2, RunsStays
  <2> QED BY <2>1, <2>2
<1>2. ASSUME NEW q \in Runner PROVE Runs(running[q])'
  <2>1. PICK s : s = running'[q]
    OBVIOUS
  <2>2. Runs(s)'
    BY <1>1, <2>1
  <2> QED BY <2>1, <2>2 DEF Runs
<1>3. running' = [q \in Runner |-> [at |-> running'[q].at, frames |-> running'[q].frames, next |-> running'[q].next]]
  <2>1. running' = [q \in Runner |-> running'[q]]
    BY DEF McpInv
  <2>2. \A q \in Runner : running'[q] = [at |-> running'[q].at, frames |-> running'[q].frames, next |-> running'[q].next]
    BY <1>1
  <2> QED BY <2>1, <2>2
<1>4. McpPageInv'
  BY PageStays DEF McpInv
<1> QED BY <1>2, <1>3, <1>4 DEF McpInv

LEMMA TablesStay ==
  ASSUME StoredInv, UNCHANGED <<kept, named, credited, reconciled>> PROVE StoredInv' /\ Grows
BY DEF StoredInv, Grows, ReconciledIsStored, IsStored, CallsHaveOneOwner
-----------------------------------------------------------------------------
(* The runs of the command.                                                *)

LEMMA RunOf ==
  ASSUME McpInv, NEW r \in Runner
  PROVE  /\ running[r] = [at |-> running[r].at, frames |-> running[r].frames, next |-> running[r].next]
         /\ Runs(running[r])
BY DEF McpInv

LEMMA McpSendStep == ASSUME McpInv, NEW r \in Runner, NEW frames \in McpStream, SendStream(r, frames) PROVE McpInv'
<1>1. /\ running' = [running EXCEPT ![r] = [at |-> "reading", frames |-> frames, next |-> 1]]
      /\ UNCHANGED <<kept, named, credited, reconciled, page>>
  BY DEF SendStream
<1>2. StoredInv' /\ Grows
  BY <1>1, TablesStay DEF McpInv
<1>3. Runs([at |-> "reading", frames |-> frames, next |-> 1])
  BY StreamsAreSequences DEF Runs
<1> QED BY <1>1, <1>2, <1>3, OneRuns, RunsStays

\* A run that stops, or goes to another step of the same frame.
LEMMA RunGoes ==
  ASSUME McpInv, NEW r \in Runner, NEW at, running' = [running EXCEPT ![r].at = at],
         at \in {"off", "reading", "valid", "named", "linked"},
         Grows, page' = page, StoredInv', running[r].at # "off",
         at \in {"valid", "named", "linked"} => running[r].next \in DOMAIN running[r].frames,
         at \in {"named", "linked"} => running[r].frames[running[r].next].server \in named'.servers
  PROVE  McpInv'
<1>1. PICK s : s = running[r]
  OBVIOUS
<1>2. s = [at |-> s.at, frames |-> s.frames, next |-> s.next] /\ Runs(s)
  BY <1>1, RunOf
<1>3. Runs(s)'
  BY <1>2, RunsStays
<1>4. PICK new : new = [at |-> at, frames |-> s.frames, next |-> s.next]
  OBVIOUS
<1>5. running' = [running EXCEPT ![r] = new]
  <2>1. [s EXCEPT !.at = at] = new
    BY <1>2, <1>4
  <2>2. running' = [running EXCEPT ![r] = [s EXCEPT !.at = at]]
    BY <1>1
  <2> QED BY <2>1, <2>2
<1>6. new.at = at /\ new.frames = s.frames /\ new.next = s.next
  BY <1>4
<1>7. Runs(new)'
  BY <1>1, <1>3, <1>6 DEF Runs
<1> QED BY <1>4, <1>5, <1>7, OneRuns

LEMMA ScanStreamStep == ASSUME McpInv, NEW r \in Runner, ScanFrame(r) PROVE McpInv'
<1>1. running[r].at = "reading" /\ UNCHANGED <<kept, named, credited, page>> /\ Grows
  BY DEF ScanFrame, Grows
<1>2. Runs(running[r])
  BY RunOf
<1>3. CASE running[r].next > Len(running[r].frames)
  <2>1. running' = [running EXCEPT ![r].at = "off"] /\ reconciled' = reconciled \cup {running[r].frames}
    BY <1>3 DEF ScanFrame, Goes
  <2>2. PICK fs : fs = running[r].frames
    OBVIOUS
  <2>3. \A i \in DOMAIN fs : IsStored(fs[i])
    <3>1. fs \in McpStream /\ \A i \in 1 .. running[r].next - 1 : IsStored(fs[i])
      BY <1>1, <1>2, <2>2 DEF Runs
    <3>2. Len(fs) \in Nat /\ DOMAIN fs = 1 .. Len(fs)
      BY <3>1, StreamsAreSequences
    <3>3. running[r].next \in Nat /\ running[r].next > Len(fs)
      BY <1>1, <1>2, <1>3, <2>2, <3>2 DEF Runs
    <3> QED BY <3>1, <3>2, <3>3
  <2>4. ReconciledIsStored'
    <3>1. \A gs \in reconciled' : \A i \in DOMAIN gs : IsStored(gs[i])
      BY <2>1, <2>2, <2>3 DEF McpInv, StoredInv, ReconciledIsStored
    <3> QED BY <1>1, <3>1 DEF ReconciledIsStored, IsStored
  <2>5. StoredInv'
    BY <1>1, <2>4 DEF McpInv, StoredInv, CallsHaveOneOwner
  <2> QED BY <1>1, <2>1, <2>5, RunGoes
<1>4. CASE ~ (running[r].next > Len(running[r].frames))
  <2>1. PICK at \in {"off", "valid"} : running' = [running EXCEPT ![r].at = at]
    BY <1>4 DEF ScanFrame, Goes
  <2>2. UNCHANGED reconciled
    BY <1>4 DEF ScanFrame
  <2>3. running[r].next \in DOMAIN running[r].frames
    <3>1. /\ running[r].frames \in McpStream /\ running[r].next \in 1 .. Len(running[r].frames) + 1
      BY <1>1, <1>2 DEF Runs
    <3> QED BY <1>4, <3>1, StreamsAreSequences
  <2>4. StoredInv'
    BY <1>1, <2>2, TablesStay DEF McpInv
  <2> QED BY <1>1, <2>1, <2>3, <2>4, RunGoes
<1> QED BY <1>3, <1>4

LEMMA NameStep == ASSUME McpInv, NEW r \in Runner, NameServer(r) PROVE McpInv'
<1>1. running[r].at = "valid" /\ running' = [running EXCEPT ![r].at = "named"]
      /\ UNCHANGED <<kept, credited, reconciled, page>>
  BY DEF NameServer, Goes
<1>2. named' = [named EXCEPT !.servers = named.servers \cup {running[r].frames[running[r].next].server}]
  BY DEF NameServer, Frame
<1>3. /\ named'.servers = named.servers \cup {running[r].frames[running[r].next].server}
      /\ named' = [servers |-> named'.servers, tools |-> named'.tools] /\ Grows
  BY <1>1, <1>2 DEF McpInv, StoredInv, Grows
<1>4. ReconciledIsStored' /\ CallsHaveOneOwner'
  BY <1>1 DEF McpInv, StoredInv, ReconciledIsStored, IsStored, CallsHaveOneOwner
<1>5. StoredInv'
  BY <1>1, <1>3, <1>4 DEF McpInv, StoredInv
<1>6. running[r].next \in DOMAIN running[r].frames
  BY <1>1, RunOf DEF Runs
<1> QED BY <1>1, <1>3, <1>5, <1>6, RunGoes

LEMMA LinkStep == ASSUME McpInv, NEW r \in Runner, LinkTool(r) PROVE McpInv'
<1>1. running[r].at = "named" /\ running' = [running EXCEPT ![r].at = "linked"]
      /\ UNCHANGED <<kept, credited, reconciled, page>>
  BY DEF LinkTool, Goes
<1>2. PICK tools : named' = [named EXCEPT !.tools = tools]
  BY DEF LinkTool
<1>3. /\ named'.servers = named.servers
      /\ named' = [servers |-> named'.servers, tools |-> named'.tools] /\ Grows
  BY <1>1, <1>2 DEF McpInv, StoredInv, Grows
<1>4. ReconciledIsStored' /\ CallsHaveOneOwner'
  BY <1>1 DEF McpInv, StoredInv, ReconciledIsStored, IsStored, CallsHaveOneOwner
<1>5. StoredInv'
  BY <1>1, <1>3, <1>4 DEF McpInv, StoredInv
<1>6. running[r].next \in DOMAIN running[r].frames
      /\ running[r].frames[running[r].next].server \in named'.servers
  BY <1>1, <1>3, RunOf DEF Runs
<1> QED BY <1>1, <1>3, <1>5, <1>6, RunGoes

LEMMA RunEndsStep == ASSUME McpInv, NEW r \in Runner, RunEnds(r) PROVE McpInv'
<1>1. /\ running' = [running EXCEPT ![r] = [at |-> "off", frames |-> <<>>, next |-> 1]]
      /\ UNCHANGED <<kept, named, credited, reconciled, page>>
  BY DEF RunEnds, Off
<1>2. StoredInv' /\ Grows
  BY <1>1, TablesStay DEF McpInv
<1>3. Runs([at |-> "off", frames |-> <<>>, next |-> 1])
  BY DEF Runs
<1> QED BY <1>1, <1>2, <1>3, OneRuns, RunsStays

\* A call that is credited was new, so nobody had been credited with it.
LEMMA PersistStep == ASSUME McpInv, NEW r \in Runner, PersistFrame(r) PROVE McpInv'
<1>1. PICK f, fs, n : f = Frame(r) /\ fs = running[r].frames /\ n = running[r].next
  OBVIOUS
<1>2. /\ running[r].at = "linked" /\ Insert(f)
      /\ IF f.kind = "call" /\ ~ IsStored(f) THEN Credit(f) ELSE UNCHANGED credited
      /\ running' = [running EXCEPT ![r].at = "reading", ![r].next = n + 1]
      /\ UNCHANGED <<named, reconciled, page>>
  BY <1>1 DEF PersistFrame
<1>3. f = fs[n] /\ fs \in McpStream /\ n \in DOMAIN fs /\ n \in Nat /\ f.server \in named.servers
      /\ DOMAIN fs = 1 .. Len(fs) /\ Len(fs) \in Nat /\ \A i \in 1 .. n - 1 : IsStored(fs[i])
  <2>1. f = fs[n]
    BY <1>1 DEF Frame
  <2>2. /\ fs \in McpStream /\ n \in 1 .. Len(fs) + 1 /\ \A i \in 1 .. n - 1 : IsStored(fs[i])
        /\ n \in DOMAIN fs /\ fs[n].server \in named.servers
    BY <1>1, <1>2, RunOf DEF Runs
  <2> QED BY <2>1, <2>2, StreamsAreSequences
<1>4. Grows /\ IsStored(f)' /\ \A g \in kept' : g \in kept \/ g = f
  BY <1>2 DEF Grows, Insert, IsStored
<1>5. CallsHaveOneOwner' /\ \A c \in credited' : c = <<c[1], c[2]>>
  <2>1. /\ \A c \in credited : \E g \in kept : g.kind = "call" /\ g.key = c[1]
        /\ \A c, d \in credited : c[1] = d[1] => c = d
        /\ \A c \in credited : c = <<c[1], c[2]>>
    BY DEF McpInv, StoredInv, CallsHaveOneOwner
  <2>2. CASE UNCHANGED credited
    BY <1>4, <2>1, <2>2 DEF CallsHaveOneOwner, Grows
  <2>3. CASE f.kind = "call" /\ ~ IsStored(f) /\ Credit(f)
    <3>1. PICK owner : credited' = credited \/ credited' = credited \cup {<<f.key, owner>>}
      BY <2>3 DEF Credit
    <3>2. f \in kept'
      BY <1>2, <2>3 DEF Insert
    <3>3. \A c \in credited : c[1] # f.key
      BY <2>1, <2>3 DEF IsStored
    <3>4. \A c \in credited' : c \in credited \/ c = <<f.key, owner>>
      BY <3>1
    <3>5. \A c \in credited' : \E g \in kept' : g.kind = "call" /\ g.key = c[1]
      BY <1>4, <2>1, <2>3, <3>2, <3>4 DEF Grows
    <3>6. \A c, d \in credited' : c[1] = d[1] => c = d
      BY <2>1, <3>3, <3>4
    <3>7. \A c \in credited' : c = <<c[1], c[2]>>
      BY <2>1, <3>4
    <3> QED BY <3>5, <3>6, <3>7 DEF CallsHaveOneOwner
  <2> QED BY <1>2, <2>2, <2>3
<1>6. ReconciledIsStored'
  <2>1. \A g : IsStored(g) => IsStored(g)'
    BY <1>4, StoredStays
  <2> QED BY <1>2, <2>1 DEF McpInv, StoredInv, ReconciledIsStored
<1>7. StoredInv'
  BY <1>2, <1>3, <1>4, <1>5, <1>6 DEF McpInv, StoredInv
<1>8. running' = [running EXCEPT ![r] = [at |-> "reading", frames |-> fs, next |-> n + 1]]
  <2>1. PICK c : c = running[r]
    OBVIOUS
  <2>4. PICK at : c = [at |-> at, frames |-> fs, next |-> n]
    BY <1>1, <2>1, RunOf
  <2>5. PICK m : m = n + 1
    OBVIOUS
  <2>6. [c EXCEPT !.at = "reading"] = [at |-> "reading", frames |-> fs, next |-> n]
    BY <2>4
  <2>7. PICK d : d = [c EXCEPT !.at = "reading"]
    OBVIOUS
  <2>8. d = [at |-> "reading", frames |-> fs, next |-> n]
    BY <2>6, <2>7
  <2>9. [d EXCEPT !.next = m] = [at |-> "reading", frames |-> fs, next |-> m]
    BY <2>8
  <2>2. [[c EXCEPT !.at = "reading"] EXCEPT !.next = n + 1] = [at |-> "reading", frames |-> fs, next |-> n + 1]
    BY <2>5, <2>7, <2>9
  <2>3. running' = [running EXCEPT ![r] = [[c EXCEPT !.at = "reading"] EXCEPT !.next = n + 1]]
    BY <1>2, <2>1
  <2> QED BY <2>2, <2>3
<1>9. ASSUME NEW i \in 1 .. n PROVE IsStored(fs[i])'
  <2>1. CASE i = n
    BY <1>3, <1>4, <2>1
  <2>2. CASE i # n
    <3>1. IsStored(fs[i])
      BY <1>3, <2>2
    <3> QED BY <1>4, <3>1, StoredStays
  <2> QED BY <2>1, <2>2
<1>10. Runs([at |-> "reading", frames |-> fs, next |-> n + 1])'
  <2>1. PICK s : s = [at |-> "reading", frames |-> fs, next |-> n + 1]
    OBVIOUS
  <2>2. s.at = "reading" /\ s.frames = fs /\ s.next = n + 1 /\ s.next - 1 = n /\ s.next \in 1 .. Len(fs) + 1
    BY <1>3, <2>1
  <2>3. Runs(s)'
    BY <1>3, <1>9, <2>2 DEF Runs
  <2> QED BY <2>1, <2>3
<1> QED BY <1>2, <1>4, <1>7, <1>8, <1>10, OneRuns

-----------------------------------------------------------------------------
(* The pages.                                                              *)

\* A statement of a page; what it reads is there now, and what it read before still is.
LEMMA PageMoves ==
  ASSUME McpInv, UNCHANGED <<kept, named, credited, running, reconciled>>, McpPageInv'
  PROVE  McpInv'
<1>1. StoredInv' /\ Grows
  BY TablesStay DEF McpInv
<1>2. ASSUME NEW r \in Runner PROVE Runs(running[r])'
  <2>1. PICK s : s = running[r]
    OBVIOUS
  <2>2. Runs(s)'
    BY <1>1, <2>1, RunOf, RunsStays
  <2> QED BY <2>1, <2>2 DEF Runs
<1> QED BY <1>1, <1>2 DEF McpInv

LEMMA CountsWithin ==
  ASSUME NEW frames
  PROVE  Within(Counts(frames), frames) /\ Counts(frames).ended \subseteq Counts(frames).started
BY DEF Within, Counts

LEMMA McpPageSteps ==
  ASSUME McpInv,
         (\E s \in named.servers : \E t \in {f.tool : f \in OfKind("primitive", s)} \cup {NoTool} :
            ReadServers(s, t)) \/ ReadPrimitives \/ ReadOutcomes \/ ReadTool \/ PageEnds
  PROVE  McpInv'
<1>1. UNCHANGED <<kept, named, credited, running, reconciled>>
  BY DEF ReadServers, ReadPrimitives, ReadOutcomes, ReadTool, PageEnds
<1>2. McpPageInv
  BY DEF McpInv
<1>3. CASE page' = NoPage
  BY <1>1, <1>3, PageMoves DEF McpPageInv, McpPagesAgree, NoPage, NoCounts
<1>4. ASSUME NEW s, NEW t, ReadServers(s, t), page' # NoPage PROVE McpPageInv'
  <2>1. page' = [at |-> "listed", server |-> s, tool |-> t, row |-> Counts(OfKind("call", s)),
                 tools |-> {}, outcomes |-> NoCounts, ofTool |-> NoCounts]
    BY <1>4 DEF ReadServers, NoPage
  <2>2. PICK row : row = Counts(OfKind("call", s))
    OBVIOUS
  <2>3. Within(row, OfKind("call", s)) /\ row.ended \subseteq row.started
    BY <2>2, CountsWithin
  <2>4. Within(row, OfKind("call", s))'
    BY <1>1, <2>3 DEF Within, OfKind, CallsIn
  <2>5. page'.row = row /\ page'.server = s /\ page'.at = "listed" /\ page'.ofTool = NoCounts
    BY <2>1, <2>2
  <2>6. McpPagesAgree'
    BY <2>3, <2>5 DEF McpPagesAgree, NoCounts
  <2>7. (page.at # "idle" => Within(page.row, OfKind("call", page.server)))'
    BY <2>4, <2>5
  <2> QED BY <2>1, <2>6, <2>7 DEF McpPageInv
<1>5. CASE ReadPrimitives
  <2>1. PICK tools : page' = [page EXCEPT !.at = "primitives", !.tools = tools] /\ page.at = "listed"
    BY <1>5 DEF ReadPrimitives
  <2>2. page' = [at |-> "primitives", server |-> page.server, tool |-> page.tool, row |-> page.row,
                 tools |-> tools, outcomes |-> page.outcomes, ofTool |-> page.ofTool]
    BY <1>2, <2>1 DEF McpPageInv
  <2>3. PICK s, row : s = page.server /\ row = page.row
    OBVIOUS
  <2>4. Within(row, OfKind("call", s))'
    BY <1>1, <1>2, <2>1, <2>3 DEF McpPageInv, Within, OfKind, CallsIn
  <2>5. (page.at # "idle" => Within(page.row, OfKind("call", page.server)))'
    BY <2>2, <2>3, <2>4
  <2>6. McpPageInv'
    BY <1>2, <2>2, <2>5 DEF McpPageInv, McpPagesAgree
  <2> QED BY <1>1, <2>6, PageMoves
<1>6. CASE ReadOutcomes
  <2>1. PICK calls, at : /\ calls = OfKind("call", page.server) /\ at \in {"profile", "answered"}
                         /\ page' = [page EXCEPT !.outcomes = [started |-> CallsIn(calls, {"started"}),
                                                               ended |-> CallsIn(calls, Ending)], !.at = at]
                         /\ page.at = "primitives"
    BY <1>6 DEF ReadOutcomes
  <2>2. page' = [at |-> at, server |-> page.server, tool |-> page.tool, row |-> page.row, tools |-> page.tools,
                 outcomes |-> [started |-> CallsIn(calls, {"started"}), ended |-> CallsIn(calls, Ending)],
                 ofTool |-> page.ofTool]
    BY <1>2, <2>1 DEF McpPageInv
  <2>3. PICK s, row : s = page.server /\ row = page.row
    OBVIOUS
  <2>4. Within(row, OfKind("call", s))' /\ Within(row, calls)
    BY <1>1, <1>2, <2>1, <2>3 DEF McpPageInv, Within, OfKind, CallsIn
  <2>5. (page.at # "idle" => Within(page.row, OfKind("call", page.server)))'
    BY <2>2, <2>3, <2>4
  <2>6. McpPagesAgree'
    BY <1>2, <2>2, <2>3, <2>4 DEF McpPageInv, McpPagesAgree, Within
  <2>7. McpPageInv'
    BY <2>1, <2>2, <2>5, <2>6 DEF McpPageInv
  <2> QED BY <1>1, <2>7, PageMoves
<1>7. CASE ReadTool
  <2>1. PICK counts : /\ counts.ended \subseteq counts.started /\ page.at = "profile"
                      /\ page' = [page EXCEPT !.at = "answered", !.ofTool = counts]
    BY <1>7, CountsWithin DEF ReadTool
  <2>2. page' = [at |-> "answered", server |-> page.server, tool |-> page.tool, row |-> page.row, tools |-> page.tools,
                 outcomes |-> page.outcomes, ofTool |-> counts]
    BY <1>2, <2>1 DEF McpPageInv
  <2>3. PICK s, row : s = page.server /\ row = page.row
    OBVIOUS
  <2>4. Within(row, OfKind("call", s))'
    BY <1>1, <1>2, <2>1, <2>3 DEF McpPageInv, Within, OfKind, CallsIn
  <2>5. (page.at # "idle" => Within(page.row, OfKind("call", page.server)))'
    BY <2>2, <2>3, <2>4
  <2>6. McpPageInv'
    BY <1>2, <2>1, <2>2, <2>5 DEF McpPageInv, McpPagesAgree
  <2> QED BY <1>1, <2>6, PageMoves
<1>8. CASE PageEnds
  BY <1>3, <1>8 DEF PageEnds
<1> QED BY <1>1, <1>3, <1>4, <1>5, <1>6, <1>7, <1>8, PageMoves

LEMMA McpInvStep == McpInv /\ [McpNext]_mcpVars => McpInv'
<1> SUFFICES ASSUME McpInv, [McpNext]_mcpVars PROVE McpInv'
  OBVIOUS
<1>1. CASE \E r \in Runner : \/ \E frames \in McpStream : SendStream(r, frames)
                             \/ ScanFrame(r) \/ NameServer(r) \/ LinkTool(r) \/ PersistFrame(r) \/ RunEnds(r)
  BY <1>1, McpSendStep, ScanStreamStep, NameStep, LinkStep, PersistStep, RunEndsStep
<1>2. CASE (\E s \in named.servers : \E t \in {f.tool : f \in OfKind("primitive", s)} \cup {NoTool} :
              ReadServers(s, t)) \/ ReadPrimitives \/ ReadOutcomes \/ ReadTool \/ PageEnds
  BY <1>2, McpPageSteps
<1>3. CASE UNCHANGED mcpVars
  <2>1. UNCHANGED <<kept, named, credited, running, reconciled, page>>
    BY <1>3 DEF mcpVars
  <2>2. Grows
    BY <2>1 DEF Grows
  <2>3. McpPageInv'
    BY <2>1, <2>2, PageStays DEF McpInv
  <2> QED BY <2>1, <2>3, PageMoves
<1> QED BY <1>1, <1>2, <1>3 DEF McpNext

LEMMA McpInvariant == McpSpec => []McpInv
BY McpInitInv, McpInvStep, PTL DEF McpSpec

\* Every frame that is kept is of a server that is named, however many runs there are.
THEOREM McpTyped == McpSpec => []McpTypeOK
BY McpInvariant, McpFacts, PTL

\* However often streams are sent, by however many runs at once, and wherever they
\* end: a stream called reconciled is stored frame by frame, a call is the activity of
\* one plugin at most, and a page's outcomes know every call its row counts.
THEOREM McpEvidenceHolds == McpSpec => []McpHolds
BY McpInvariant, McpFacts, PTL

HIDE McpAssumption

-----------------------------------------------------------------------------
-----------------------------------------------------------------------------
(* The counters of rejections.                                             *)

HealthSpec == HealthRowsInit /\ [][HealthRowsNext]_healthVars

CallerAt == {"idle", "metadata", "persisted", "kept", "rejected", "counted", "refused", "accepted", "done"}
\* Callers whose rejection is counted but not in the rows, and those that have not
\* heard of theirs.
Callers(at) == {s \in Sender : answer[s] = at}
Uncounted == Cardinality(Callers("counted"))
Untold == Cardinality(Callers("refused"))

\* A rejection is counted in memory, then recorded or missed, then told.
Ledger ==
  /\ recorded \in Nat /\ rejections \in 0 .. MaxRejection /\ told \in Nat /\ missed \in Nat
  /\ counted = [rejected |-> counted.rejected, suspect |-> counted.suspect, throttled |-> counted.throttled]
  /\ counted.rejected \in Nat /\ counted.rejected <= rejections
  /\ recorded + missed + Uncounted <= rejections
  /\ told + Untold <= recorded + missed
  /\ told + Untold + Uncounted <= counted.rejected + missed

HealthPageInv ==
  /\ healthPage = [at |-> healthPage.at, told |-> healthPage.told, shown |-> healthPage.shown,
                   degraded |-> healthPage.degraded]
  /\ healthPage.at \in {"none", "counted", "shown"} /\ healthPage.told \in Nat /\ healthPage.shown \in Nat
  /\ healthPage.at # "none" => /\ healthPage.told <= healthPage.shown + missed
                               /\ healthPage.shown <= rejections

HealthInv ==
  /\ answer \in [Sender -> CallerAt] /\ quarantined \subseteq Sender /\ KeptIsStored
  /\ Ledger /\ HealthPageInv

USE HealthAssumption

-----------------------------------------------------------------------------
LEMMA CallersAreFinite ==
  ASSUME NEW at PROVE IsFiniteSet(Callers(at)) /\ Cardinality(Callers(at)) \in Nat
<1>1. Callers(at) \subseteq Sender
  BY DEF Callers
<1>2. IsFiniteSet(Callers(at))
  BY <1>1, FS_Subset
<1> QED BY <1>2, FS_CardinalityType

LEMMA HealthFacts == HealthInv => HealthRowsTypeOK /\ CountersAreTrue
<1> SUFFICES ASSUME HealthInv PROVE HealthRowsTypeOK /\ CountersAreTrue
  OBVIOUS
<1>1. Uncounted \in Nat /\ Untold \in Nat
  BY CallersAreFinite DEF Uncounted, Untold
<1>2. /\ recorded + missed <= rejections /\ told <= recorded + missed /\ counted.rejected <= rejections
      /\ {recorded, missed, told, counted.rejected} \subseteq Nat /\ rejections \in 0 .. MaxRejection
  <2>1. PICK u, r \in Nat : u = Uncounted /\ r = Untold
    BY <1>1
  <2> QED BY <2>1 DEF HealthInv, Ledger
<1>3. {recorded, rejections, told, missed, counted.rejected} \subseteq 0 .. MaxRejection
  BY <1>2
<1>4. RejectionsAreRecorded
  BY <1>2 DEF RejectionsAreRecorded
<1>5. RejectionsAreShown
  BY DEF HealthInv, HealthPageInv, RejectionsAreShown
<1> QED BY <1>3, <1>4, <1>5 DEF HealthInv, HealthRowsTypeOK, CountersAreTrue, CallerAt

LEMMA HealthInitInv == HealthRowsInit => HealthInv
<1> SUFFICES ASSUME HealthRowsInit PROVE HealthInv
  OBVIOUS
<1>1. Callers("counted") = {} /\ Callers("refused") = {}
  BY DEF HealthRowsInit, Callers
<1>2. Uncounted = 0 /\ Untold = 0
  BY <1>1, FS_EmptySet DEF Uncounted, Untold
<1>3. Ledger
  BY <1>2 DEF HealthRowsInit, Ledger
<1> QED BY <1>3 DEF HealthRowsInit, HealthInv, HealthPageInv, NoHealthPage, KeptIsStored, CallerAt

-----------------------------------------------------------------------------
\* One caller turns from one place to another.
LEMMA CallersTurn ==
  ASSUME answer \in [Sender -> CallerAt], NEW s \in Sender, NEW from, NEW to, from # to,
         answer[s] = from, answer' = [answer EXCEPT ![s] = to]
  PROVE  /\ Cardinality(Callers(from)) = Cardinality(Callers(from)') + 1
         /\ Cardinality(Callers(to)') = Cardinality(Callers(to)) + 1
<1>1. \A q \in Sender : answer'[q] = IF q = s THEN to ELSE answer[q]
  OBVIOUS
<1>3. Callers(from) = Callers(from)' \cup {s} /\ s \notin Callers(from)'
  BY <1>1 DEF Callers
<1>4. Callers(to)' = Callers(to) \cup {s} /\ s \notin Callers(to)
  BY <1>1 DEF Callers
<1>5. IsFiniteSet(Callers(from)') /\ IsFiniteSet(Callers(to))
  <2>1. Callers(from)' \subseteq Sender
    BY DEF Callers
  <2> QED BY <2>1, FS_Subset, CallersAreFinite
<1>6. Cardinality(Callers(from)' \cup {s}) = Cardinality(Callers(from)') + 1
  BY <1>3, <1>5, FS_AddElement
<1>7. Cardinality(Callers(to) \cup {s}) = Cardinality(Callers(to)) + 1
  BY <1>4, <1>5, FS_AddElement
<1> QED BY <1>3, <1>4, <1>6, <1>7

LEMMA CountsTurn ==
  ASSUME answer \in [Sender -> CallerAt], NEW s \in Sender, NEW from, NEW to, from # to,
         answer[s] = from, answer' = [answer EXCEPT ![s] = to], to \in CallerAt
  PROVE  /\ answer' \in [Sender -> CallerAt]
         /\ Uncounted \in Nat /\ Uncounted' \in Nat /\ Untold \in Nat /\ Untold' \in Nat
         /\ Uncounted' = Uncounted + (IF to = "counted" THEN 1 ELSE IF from = "counted" THEN -1 ELSE 0)
         /\ Untold' = Untold + (IF to = "refused" THEN 1 ELSE IF from = "refused" THEN -1 ELSE 0)
<1>1. answer' \in [Sender -> CallerAt]
  OBVIOUS
<1>2. \A at : Cardinality(Callers(at)) \in Nat /\ Cardinality(Callers(at)') \in Nat
  <2>1. ASSUME NEW at PROVE Cardinality(Callers(at)') \in Nat
    <3>1. Callers(at)' \subseteq Sender
      BY DEF Callers
    <3> QED BY <3>1, FS_Subset, FS_CardinalityType
  <2> QED BY <2>1, CallersAreFinite
<1>3. ASSUME NEW at
      PROVE  Cardinality(Callers(at)')
             = Cardinality(Callers(at)) + (IF to = at THEN 1 ELSE IF from = at THEN -1 ELSE 0)
  <2>1. CASE to = at
    <3>1. Cardinality(Callers(at)') = Cardinality(Callers(at)) + 1
      BY <2>1, CallersTurn
    <3> QED BY <1>2, <2>1, <3>1
  <2>2. CASE from = at
    <3>1. Cardinality(Callers(at)) = Cardinality(Callers(at)') + 1
      BY <2>2, CallersTurn
    <3>2. Cardinality(Callers(at)') = Cardinality(Callers(at)) - 1
      BY <1>2, <3>1
    <3>3. to # at
      BY <2>2
    <3> QED BY <1>2, <2>2, <3>2, <3>3
  <2>3. CASE at # from /\ at # to
    <3>1. \A q \in Sender : answer'[q] = IF q = s THEN to ELSE answer[q]
      OBVIOUS
    <3>2. Callers(at)' = Callers(at)
      BY <2>3, <3>1 DEF Callers
    <3> QED BY <1>2, <2>3, <3>2
  <2> QED BY <2>1, <2>2, <2>3
<1> QED BY <1>1, <1>2, <1>3 DEF Uncounted, Untold

-----------------------------------------------------------------------------
\* The numbers a step of one caller leaves in order.
LEMMA CallerSteps ==
  ASSUME HealthInv, NEW s \in Sender, NEW from, NEW to \in CallerAt, from # to,
         answer[s] = from, answer' = [answer EXCEPT ![s] = to]
  PROVE  /\ answer' \in [Sender -> CallerAt]
         /\ Uncounted \in Nat /\ Uncounted' \in Nat /\ Untold \in Nat /\ Untold' \in Nat
         /\ Uncounted' = Uncounted + (IF to = "counted" THEN 1 ELSE IF from = "counted" THEN -1 ELSE 0)
         /\ Untold' = Untold + (IF to = "refused" THEN 1 ELSE IF from = "refused" THEN -1 ELSE 0)
BY CountsTurn DEF HealthInv

LEMMA LedgerStands ==
  ASSUME Ledger, Uncounted' = Uncounted, Untold' = Untold,
         UNCHANGED <<recorded, rejections, told, missed>>,
         counted'.rejected = counted.rejected,
         counted' = [rejected |-> counted'.rejected, suspect |-> counted'.suspect, throttled |-> counted'.throttled]
  PROVE  Ledger'
BY DEF Ledger

LEMMA PageStands ==
  ASSUME HealthPageInv, missed \in Nat, rejections \in Nat, missed' \in Nat, rejections' \in Nat,
         missed <= missed', rejections <= rejections', healthPage' = healthPage
  PROVE  HealthPageInv'
BY DEF HealthPageInv

LEMMA SubmitStep == ASSUME HealthInv, NEW s \in Sender, Submit(s) PROVE HealthInv'
<1>1. UNCHANGED <<counted, recorded, quarantined, rejections, told, missed, accepting, poolOpen, healthPage>>
  BY DEF Submit
<1>2. PICK to \in {"metadata", "persisted", "rejected"} :
        answer[s] = "idle" /\ answer' = [answer EXCEPT ![s] = to]
  BY DEF Submit, Turns
<1>3. answer' \in [Sender -> CallerAt] /\ Uncounted' = Uncounted /\ Untold' = Untold
  <2>1. PICK from : from = answer[s] /\ from \notin {"counted", "refused", to} /\ to \in CallerAt
    BY <1>2 DEF CallerAt
  <2>2. answer[s] = from /\ answer' = [answer EXCEPT ![s] = to] /\ from # to /\ to \notin {"counted", "refused"}
    BY <1>2, <2>1
  <2>3. /\ answer' \in [Sender -> CallerAt] /\ Uncounted \in Nat /\ Untold \in Nat
        /\ Uncounted' = Uncounted + (IF to = "counted" THEN 1 ELSE IF from = "counted" THEN -1 ELSE 0)
        /\ Untold' = Untold + (IF to = "refused" THEN 1 ELSE IF from = "refused" THEN -1 ELSE 0)
    BY <2>1, <2>2, CallerSteps
  <2>4. to \notin {"counted", "refused"} /\ from \notin {"counted", "refused"}
    BY <2>1, <2>2
  <2>5. Uncounted' = Uncounted + 0 /\ Untold' = Untold + 0
    BY <2>3, <2>4
  <2> QED BY <2>3, <2>5
<1>4. Ledger'
  BY <1>1, <1>3, LedgerStands DEF HealthInv, Ledger
<1>5. KeptIsStored'
  BY <1>1, <1>2 DEF HealthInv, KeptIsStored
<1>6. HealthPageInv'
  BY <1>1, PageStands DEF HealthInv, Ledger, HealthPageInv
<1> QED BY <1>1, <1>3, <1>4, <1>5, <1>6 DEF HealthInv

LEMMA StoreMetadataStep == ASSUME HealthInv, NEW s \in Sender, StoreMetadata(s) PROVE HealthInv'
<1>1. UNCHANGED <<counted, recorded, rejections, told, missed, accepting, poolOpen, healthPage>>
  BY DEF StoreMetadata
<1>2. PICK to \in {"kept", "rejected"} :
        /\ answer[s] = "metadata" /\ answer' = [answer EXCEPT ![s] = to]
        /\ quarantined' \in {quarantined, quarantined \cup {s}} /\ (to = "kept" => s \in quarantined')
  BY DEF StoreMetadata, Turns
<1>3. answer' \in [Sender -> CallerAt] /\ Uncounted' = Uncounted /\ Untold' = Untold
  <2>1. PICK from : from = answer[s] /\ from \notin {"counted", "refused", to} /\ to \in CallerAt
    BY <1>2 DEF CallerAt
  <2>2. answer[s] = from /\ answer' = [answer EXCEPT ![s] = to] /\ from # to /\ to \notin {"counted", "refused"}
    BY <1>2, <2>1
  <2>3. /\ answer' \in [Sender -> CallerAt] /\ Uncounted \in Nat /\ Untold \in Nat
        /\ Uncounted' = Uncounted + (IF to = "counted" THEN 1 ELSE IF from = "counted" THEN -1 ELSE 0)
        /\ Untold' = Untold + (IF to = "refused" THEN 1 ELSE IF from = "refused" THEN -1 ELSE 0)
    BY <2>1, <2>2, CallerSteps
  <2>4. to \notin {"counted", "refused"} /\ from \notin {"counted", "refused"}
    BY <2>1, <2>2
  <2>5. Uncounted' = Uncounted + 0 /\ Untold' = Untold + 0
    BY <2>3, <2>4
  <2> QED BY <2>3, <2>5
<1>4. Ledger'
  BY <1>1, <1>3, LedgerStands DEF HealthInv, Ledger
<1>5. KeptIsStored' /\ quarantined' \subseteq Sender
  BY <1>2 DEF HealthInv, KeptIsStored
<1>6. HealthPageInv'
  BY <1>1, PageStands DEF HealthInv, Ledger, HealthPageInv
<1> QED BY <1>3, <1>4, <1>5, <1>6 DEF HealthInv

LEMMA SuccessStep == ASSUME HealthInv, NEW s \in Sender, RecordSuccess(s) PROVE HealthInv'
<1>1. UNCHANGED <<recorded, quarantined, rejections, told, missed, accepting, poolOpen, healthPage>>
  BY DEF RecordSuccess
<1>2. PICK from \in {"persisted", "kept"} : answer[s] = from /\ answer' = [answer EXCEPT ![s] = "accepted"]
  BY DEF RecordSuccess, Turns
<1>3. PICK fails : counted' = [counted EXCEPT !.suspect = fails, !.throttled = TRUE]
  BY DEF RecordSuccess
<1>4. counted' = [rejected |-> counted.rejected, suspect |-> fails, throttled |-> TRUE]
  BY <1>3 DEF HealthInv, Ledger
<1>5. answer' \in [Sender -> CallerAt] /\ Uncounted' = Uncounted /\ Untold' = Untold
  <2>1. PICK to \in CallerAt : to = "accepted" /\ from \notin {"counted", "refused", to}
    BY <1>2 DEF CallerAt
  <2>2. answer[s] = from /\ answer' = [answer EXCEPT ![s] = to] /\ from # to /\ to \notin {"counted", "refused"}
    BY <1>2, <2>1
  <2>3. /\ answer' \in [Sender -> CallerAt] /\ Uncounted \in Nat /\ Untold \in Nat
        /\ Uncounted' = Uncounted + (IF to = "counted" THEN 1 ELSE IF from = "counted" THEN -1 ELSE 0)
        /\ Untold' = Untold + (IF to = "refused" THEN 1 ELSE IF from = "refused" THEN -1 ELSE 0)
    BY <2>1, <2>2, CallerSteps
  <2>4. to \notin {"counted", "refused"} /\ from \notin {"counted", "refused"}
    BY <2>1, <2>2
  <2>5. Uncounted' = Uncounted + 0 /\ Untold' = Untold + 0
    BY <2>3, <2>4
  <2> QED BY <2>3, <2>5
<1>6. Ledger'
  BY <1>1, <1>4, <1>5, LedgerStands DEF HealthInv
<1>7. KeptIsStored'
  BY <1>1, <1>2 DEF HealthInv, KeptIsStored
<1>8. HealthPageInv'
  BY <1>1, PageStands DEF HealthInv, Ledger, HealthPageInv
<1> QED BY <1>1, <1>5, <1>6, <1>7, <1>8 DEF HealthInv

LEMMA CountStep == ASSUME HealthInv, NEW s \in Sender, CountRejection(s) PROVE HealthInv'
<1>1. /\ rejections < MaxRejection /\ rejections' = rejections + 1
      /\ counted' = [counted EXCEPT !.rejected = counted.rejected + 1]
      /\ answer[s] = "rejected" /\ answer' = [answer EXCEPT ![s] = "counted"]
      /\ UNCHANGED <<recorded, quarantined, told, missed, accepting, poolOpen, healthPage>>
  BY DEF CountRejection, Turns
<1>2. PICK u, r, u2, r2 \in Nat : /\ u = Uncounted /\ r = Untold /\ u2 = Uncounted' /\ r2 = Untold'
                                  /\ u2 = u + 1 /\ r2 = r
  <2>1. PICK from, to : from = "rejected" /\ to = "counted" /\ from # to /\ to \in CallerAt
    BY DEF CallerAt
  <2>2. answer[s] = from /\ answer' = [answer EXCEPT ![s] = to]
    BY <1>1, <2>1
  <2>3. /\ Uncounted \in Nat /\ Uncounted' \in Nat /\ Untold \in Nat /\ Untold' \in Nat
        /\ Uncounted' = Uncounted + (IF to = "counted" THEN 1 ELSE IF from = "counted" THEN -1 ELSE 0)
        /\ Untold' = Untold + (IF to = "refused" THEN 1 ELSE IF from = "refused" THEN -1 ELSE 0)
    BY <2>1, <2>2, CallerSteps
  <2> QED BY <2>1, <2>3
<1>3. PICK m \in Nat : /\ m = counted.rejected /\ m <= rejections
                       /\ recorded + missed + u <= rejections
                       /\ told + r <= recorded + missed /\ told + r + u <= m + missed
  BY <1>2 DEF HealthInv, Ledger
<1>4. {recorded, missed, told} \subseteq Nat /\ rejections \in 0 .. MaxRejection
  BY DEF HealthInv, Ledger
<1>5. counted' = [rejected |-> m + 1, suspect |-> counted.suspect, throttled |-> counted.throttled]
  BY <1>1, <1>3 DEF HealthInv, Ledger
<1>6. counted'.rejected = m + 1 /\ rejections' \in 0 .. MaxRejection /\ m + 1 <= rejections'
      /\ recorded + missed + u2 <= rejections' /\ told + r2 + u2 <= m + 1 + missed
  BY <1>1, <1>2, <1>3, <1>4, <1>5
<1>7. Ledger'
  <2>1. UNCHANGED <<recorded, told, missed>> /\ Uncounted' = u2 /\ Untold' = r2 /\ r2 = r
    BY <1>1, <1>2
  <2>2. recorded' + missed' + Uncounted' <= rejections'
    BY <1>6, <2>1
  <2>3. told' + Untold' <= recorded' + missed' /\ told' + Untold' + Uncounted' <= counted'.rejected + missed'
    BY <1>3, <1>6, <2>1
  <2>4. counted' = [rejected |-> counted'.rejected, suspect |-> counted'.suspect, throttled |-> counted'.throttled]
    BY <1>5
  <2> QED BY <1>3, <1>4, <1>6, <2>1, <2>2, <2>3, <2>4 DEF Ledger
<1>8. answer' \in [Sender -> CallerAt] /\ KeptIsStored'
  BY <1>1, CallerSteps DEF HealthInv, KeptIsStored, CallerAt
<1>9. HealthPageInv'
  BY <1>1, <1>4, PageStands DEF HealthInv
<1> QED BY <1>1, <1>7, <1>8, <1>9 DEF HealthInv

LEMMA RecordStep == ASSUME HealthInv, NEW s \in Sender, RecordRejection(s) PROVE HealthInv'
<1>1. /\ answer[s] = "counted" /\ answer' = [answer EXCEPT ![s] = "refused"]
      /\ UNCHANGED <<quarantined, rejections, told, accepting, poolOpen, healthPage>>
  BY DEF RecordRejection, Turns
<1>2. PICK fails, adds \in BOOLEAN :
        /\ recorded' = recorded + (IF adds THEN 1 ELSE 0) /\ missed' = missed + (IF adds THEN 0 ELSE 1)
        /\ counted' = [counted EXCEPT !.suspect = fails]
  BY DEF RecordRejection
<1>3. PICK u, r, u2, r2 \in Nat : /\ u = Uncounted /\ r = Untold /\ u2 = Uncounted' /\ r2 = Untold'
                                  /\ u2 = u - 1 /\ r2 = r + 1
  <2>1. PICK from, to : from = "counted" /\ to = "refused" /\ from # to /\ to \in CallerAt
    BY DEF CallerAt
  <2>2. answer[s] = from /\ answer' = [answer EXCEPT ![s] = to]
    BY <1>1, <2>1
  <2>3. /\ Uncounted \in Nat /\ Uncounted' \in Nat /\ Untold \in Nat /\ Untold' \in Nat
        /\ Uncounted' = Uncounted + (IF to = "counted" THEN 1 ELSE IF from = "counted" THEN -1 ELSE 0)
        /\ Untold' = Untold + (IF to = "refused" THEN 1 ELSE IF from = "refused" THEN -1 ELSE 0)
    BY <2>1, <2>2, CallerSteps
  <2> QED BY <2>1, <2>3
<1>4. PICK m \in Nat : /\ m = counted.rejected /\ m <= rejections
                       /\ recorded + missed + u <= rejections
                       /\ told + r <= recorded + missed /\ told + r + u <= m + missed
  BY <1>3 DEF HealthInv, Ledger
<1>5. {recorded, missed, told} \subseteq Nat /\ rejections \in 0 .. MaxRejection
  BY DEF HealthInv, Ledger
<1>6. counted' = [rejected |-> m, suspect |-> fails, throttled |-> counted.throttled]
  BY <1>2, <1>4 DEF HealthInv, Ledger
<1>7. /\ recorded' \in Nat /\ missed' \in Nat /\ missed <= missed' /\ recorded' + missed' = recorded + missed + 1
      /\ recorded' + missed' + u2 <= rejections /\ told + r2 <= recorded' + missed'
      /\ told + r2 + u2 <= m + missed'
  BY <1>2, <1>3, <1>4, <1>5
<1>8. Ledger'
  BY <1>1, <1>3, <1>4, <1>5, <1>6, <1>7 DEF Ledger
<1>9. answer' \in [Sender -> CallerAt] /\ KeptIsStored'
  BY <1>1, CallerSteps DEF HealthInv, KeptIsStored, CallerAt
<1>10. HealthPageInv'
  BY <1>1, <1>5, <1>7, PageStands DEF HealthInv
<1> QED BY <1>1, <1>8, <1>9, <1>10 DEF HealthInv

LEMMA HearStep == ASSUME HealthInv, NEW s \in Sender, HearAnswer(s) PROVE HealthInv'
<1>1. PICK from \in {"accepted", "refused"}, to \in {"idle", "done"} :
        /\ answer[s] = from /\ answer' = [answer EXCEPT ![s] = to]
        /\ told' = told + (IF from = "refused" THEN 1 ELSE 0)
  BY DEF HearAnswer, Turns
<1>2. UNCHANGED <<counted, recorded, quarantined, rejections, missed, accepting, poolOpen, healthPage>>
  BY DEF HearAnswer
<1>3. PICK u, r, u2, r2 \in Nat : /\ u = Uncounted /\ r = Untold /\ u2 = Uncounted' /\ r2 = Untold'
                                  /\ u2 = u /\ r2 = r + (IF from = "refused" THEN -1 ELSE 0)
  <2>1. from # to /\ to \in CallerAt
    BY DEF CallerAt
  <2>2. answer[s] = from /\ answer' = [answer EXCEPT ![s] = to]
    BY <1>1
  <2>3. /\ Uncounted \in Nat /\ Uncounted' \in Nat /\ Untold \in Nat /\ Untold' \in Nat
        /\ Uncounted' = Uncounted + (IF to = "counted" THEN 1 ELSE IF from = "counted" THEN -1 ELSE 0)
        /\ Untold' = Untold + (IF to = "refused" THEN 1 ELSE IF from = "refused" THEN -1 ELSE 0)
    BY <2>1, <2>2, CallerSteps
  <2> QED BY <2>3
<1>4. PICK m \in Nat : /\ m = counted.rejected /\ m <= rejections
                       /\ recorded + missed + u <= rejections
                       /\ told + r <= recorded + missed /\ told + r + u <= m + missed
  BY <1>3 DEF HealthInv, Ledger
<1>5. {recorded, missed, told} \subseteq Nat /\ rejections \in 0 .. MaxRejection
  BY DEF HealthInv, Ledger
<1>6. told' \in Nat /\ told' + r2 = told + r
  BY <1>1, <1>3, <1>5
<1>7. Ledger'
  <2>1. told' + Untold' <= recorded + missed /\ told' + Untold' + Uncounted' <= counted.rejected + missed
    BY <1>3, <1>4, <1>6
  <2>2. recorded + missed + Uncounted' <= rejections
    BY <1>3, <1>4
  <2> QED BY <1>2, <1>4, <1>5, <1>6, <2>1, <2>2 DEF HealthInv, Ledger
<1>8. answer' \in [Sender -> CallerAt] /\ KeptIsStored'
  BY <1>1, <1>2, CallerSteps DEF HealthInv, KeptIsStored, CallerAt
<1>9. HealthPageInv'
  BY <1>2, <1>5, PageStands DEF HealthInv
<1> QED BY <1>2, <1>7, <1>8, <1>9 DEF HealthInv

-----------------------------------------------------------------------------
(* The process.                                                            *)

\* The next process knows of a rejection what the rows know.
LEMMA LoadStep == ASSUME HealthInv, LoadHealth PROVE HealthInv'
<1>1. /\ counted' = [rejected |-> recorded, suspect |-> FALSE, throttled |-> FALSE]
      /\ answer' = [s \in Sender |-> IF answer[s] = "done" THEN "done" ELSE "idle"]
      /\ healthPage' = NoHealthPage
      /\ UNCHANGED <<recorded, quarantined, rejections, told, missed>>
  BY DEF LoadHealth
<1>2. Callers("counted")' = {} /\ Callers("refused")' = {}
  BY <1>1 DEF Callers
<1>3. Uncounted' = 0 /\ Untold' = 0
  BY <1>2, FS_EmptySet DEF Uncounted, Untold
<1>4. PICK u, r \in Nat : u = Uncounted /\ r = Untold
  BY CallersAreFinite DEF Uncounted, Untold
<1>5. Ledger'
  BY <1>1, <1>3, <1>4 DEF HealthInv, Ledger
<1>6. answer' \in [Sender -> CallerAt] /\ KeptIsStored'
  BY <1>1 DEF HealthInv, KeptIsStored, CallerAt
<1>7. HealthPageInv'
  BY <1>1 DEF HealthPageInv, NoHealthPage
<1> QED BY <1>1, <1>5, <1>6, <1>7 DEF HealthInv

LEMMA OtherHealthSteps ==
  ASSUME HealthInv, UNCHANGED <<counted, recorded, answer, quarantined, rejections, told, missed>>, HealthPageInv'
  PROVE  HealthInv'
<1>1. Uncounted' = Uncounted /\ Untold' = Untold
  BY DEF Uncounted, Untold, Callers
<1>2. Ledger'
  BY <1>1, LedgerStands DEF HealthInv, Ledger
<1> QED BY <1>2 DEF HealthInv, KeptIsStored

LEMMA HealthPageSteps == ASSUME HealthInv, ReadCounted \/ ReadRecorded PROVE HealthInv'
<1>1. UNCHANGED <<counted, recorded, answer, quarantined, rejections, told, missed>>
  BY DEF ReadCounted, ReadRecorded
<1>2. PICK u, r \in Nat : u = Uncounted /\ r = Untold
  BY CallersAreFinite DEF Uncounted, Untold
<1>3. /\ told <= counted.rejected + missed /\ counted.rejected <= rejections /\ recorded <= rejections
      /\ {told, missed, counted.rejected, recorded} \subseteq Nat /\ rejections \in 0 .. MaxRejection
  BY <1>2 DEF HealthInv, Ledger
<1>4. CASE ReadCounted
  <2>1. PICK doubt : healthPage' = [at |-> "counted", told |-> told, shown |-> counted.rejected, degraded |-> doubt]
    BY <1>4 DEF ReadCounted
  <2>2. HealthPageInv'
    BY <1>1, <1>3, <2>1 DEF HealthPageInv
  <2> QED BY <1>1, <2>2, OtherHealthSteps
<1>5. CASE ReadRecorded
  <2>1. PICK shown : /\ shown = IF recorded > healthPage.shown THEN recorded ELSE healthPage.shown
                     /\ healthPage' = [healthPage EXCEPT !.at = "shown", !.shown = shown] /\ healthPage.at = "counted"
    BY <1>5 DEF ReadRecorded
  <2>2. healthPage' = [at |-> "shown", told |-> healthPage.told, shown |-> shown, degraded |-> healthPage.degraded]
    BY <2>1 DEF HealthInv, HealthPageInv
  <2>3. PICK n, m \in Nat : n = healthPage.told /\ m = healthPage.shown /\ n <= m + missed /\ m <= rejections
    BY <2>1 DEF HealthInv, HealthPageInv
  <2>4. shown \in Nat /\ n <= shown + missed /\ shown <= rejections
    BY <1>3, <2>1, <2>3
  <2>5. HealthPageInv'
    BY <1>1, <2>2, <2>3, <2>4 DEF HealthPageInv
  <2> QED BY <1>1, <2>5, OtherHealthSteps
<1> QED BY <1>4, <1>5

LEMMA HealthInvStep == HealthInv /\ [HealthRowsNext]_healthVars => HealthInv'
<1> SUFFICES ASSUME HealthInv, [HealthRowsNext]_healthVars PROVE HealthInv'
  OBVIOUS
<1>1. CASE \E s \in Sender : \/ Submit(s) \/ StoreMetadata(s) \/ RecordSuccess(s)
                             \/ CountRejection(s) \/ RecordRejection(s) \/ HearAnswer(s)
  BY <1>1, SubmitStep, StoreMetadataStep, SuccessStep, CountStep, RecordStep, HearStep
<1>2. CASE LoadHealth \/ ReadCounted \/ ReadRecorded
  BY <1>2, LoadStep, HealthPageSteps
<1>3. CASE StopAccepting \/ ClosePool \/ UNCHANGED healthVars
  <2>1. UNCHANGED <<counted, recorded, answer, quarantined, rejections, told, missed, healthPage>>
    BY <1>3 DEF StopAccepting, ClosePool, healthVars
  <2>2. HealthPageInv'
    BY <2>1 DEF HealthInv, HealthPageInv
  <2> QED BY <2>1, <2>2, OtherHealthSteps
<1> QED BY <1>1, <1>2, <1>3 DEF HealthRowsNext

LEMMA HealthInvariant == HealthSpec => []HealthInv
BY HealthInitInv, HealthInvStep, PTL DEF HealthSpec

\* No counter passes the rejections there were.
THEOREM HealthTyped == HealthSpec => []HealthRowsTypeOK
BY HealthInvariant, HealthFacts, PTL

\* For any number of callers and rejections, whatever Record fails and whenever the
\* process goes: but for those that failed, the rows have every rejection a caller was
\* told of and the page shows it, neither more than there were; and metadata said to
\* be kept is stored.
THEOREM CountersStayTrue == HealthSpec => []CountersAreTrue
BY HealthInvariant, HealthFacts, PTL

HIDE HealthAssumption

-----------------------------------------------------------------------------
-----------------------------------------------------------------------------
(* The ways in side by side.                                               *)

LEMMA PartsBegin == Init => IngestInit /\ RolloutInit /\ ReceiverInit /\ McpInit /\ HealthRowsInit
BY DEF Init

\* A behaviour of the whole is one of every part.
LEMMA PartsStep ==
  [Next]_vars =>
    /\ [IngestNext]_ingestVars /\ [RolloutNext]_rolloutVars /\ [ReceiverNext]_receiverVars
    /\ [McpNext]_mcpVars /\ [HealthRowsNext]_healthVars
<1>1. CASE UNCHANGED vars
  BY <1>1 DEF vars
<1>2. CASE Next
  BY <1>2 DEF Next
<1> QED BY <1>1, <1>2

LEMMA SpecSteps == Spec => Init /\ [][Next]_vars
BY PTL DEF Spec

LEMMA PartsOfSpec == Spec => IngestSpec /\ RolloutSpec /\ ReceiverSpec /\ McpSpec /\ HealthSpec
BY SpecSteps, PartsBegin, PartsStep, PTL
   DEF IngestSpec, RolloutSpec, ReceiverSpec, McpSpec, HealthSpec

\* However observations enter, every part keeps its types, and the Ingestor its capacity.
THEOREM IngressTyped == Spec => []IngressTypeOK
<1>1. IngestTypeOK /\ RolloutTypeOK /\ ReceiverTypeOK /\ McpTypeOK /\ HealthRowsTypeOK => IngressTypeOK
  BY DEF IngressTypeOK
<1> QED BY PartsOfSpec, IngestTyped, RolloutTyped, ReceiversTyped, McpTyped, HealthTyped, <1>1, PTL

\* What the Ingestor promises is durable and a session's checkpoint agrees with its
\* evidence in the whole as in the part.
THEOREM IngressIsSafe == Spec => [](PromisesAreDurable /\ CheckpointAgrees)
BY PartsOfSpec, PromisesStayDurable, CheckpointsAgree, PTL

\* Whatever is sent again, a sender is told the truth about what is stored.
THEOREM EvidenceStaysTrue == Spec => []EvidenceIsTrue
<1>1. AnswersAreTrue /\ McpHolds /\ CountersAreTrue => EvidenceIsTrue
  BY DEF EvidenceIsTrue
<1> QED BY PartsOfSpec, AnswersStayTrue, McpEvidenceHolds, CountersStayTrue, <1>1, PTL
===============================================================================
