------------------------------ MODULE IngestState ------------------------------
(***************************************************************************)
(* The Ingestor and the compact state it keeps beside the database         *)
(* (internal/observability/ingest.go, importer.go, bridge_sink.go,         *)
(* compact_store.go).                                                      *)
(*                                                                         *)
(* Every request of a source reads the source's watermark, hands its fact  *)
(* to the durable sink and then stores the watermark it computed at the    *)
(* beginning.  The transcript importer goes through the same path line by  *)
(* line and stores its checkpoint with the watermark.  A line is two       *)
(* halves long, so that its end may not be written yet when it is read.    *)
(***************************************************************************)
EXTENDS Integers, FiniteSets

CONSTANTS
  MaxRequest,   \* requests of the source; a request is its sequence number
  MaxLine,      \* lines the transcript may grow to
  Concurrent,   \* capacity of the Ingestor
  MaxRevision   \* commits a behaviour may make

ASSUME IngestAssumption ==
  Concurrent \in Nat \ {0} /\ {MaxRequest, MaxLine, MaxRevision} \subseteq Nat

Request == 1 .. MaxRequest
Line == 1 .. MaxLine
Fresh == 0      \* the last sequence read, as the watermark of a new source has it
Start == [offset |-> 0, sequence |-> 0]

VARIABLES
  mem,       \* CompactStore.state: [rev, mark, check]
  disk,      \* the state file
  stored,    \* facts of the source the sink owns
  request,   \* per request: [at, mark]
  written,   \* halves of lines in the transcript
  importer,  \* [at, check, whole]: the call in progress and the part it read
  settled,   \* lines whose fact the sink owns, and lines quarantined
  audit      \* AuditSource: [at, mark]

ingestVars == <<mem, disk, stored, request, written, importer, settled, audit>>

Quiet == [at |-> "idle", mark |-> Fresh]
IngestInit ==
  /\ mem = [rev |-> 0, mark |-> Fresh, check |-> Start] /\ disk = mem
  /\ stored = {} /\ request = [n \in Request |-> Quiet]
  /\ written = 0
  /\ importer = [at |-> "idle", check |-> Start, whole |-> FALSE]
  /\ settled = [facts |-> {}, quarantine |-> {}]
  /\ audit = Quiet

\* acquire(): a slot or ErrBackpressure, never a wait.
Running == {n \in Request : request[n].at \in {"admitted", "reserved", "durable"}}
Slots == Cardinality(Running) + (IF importer.at \in {"read", "durable", "rejected"} THEN 1 ELSE 0)
Free == Slots < Concurrent

\* ingestSafeForInstallation folds the sequence into the watermark it read (its
\* gap count, cadence and times follow the sequences and are left out).
Fold(mark, n) == IF n > mark THEN n ELSE mark

CommitMemoryFirst(next) ==
  /\ mem.rev < MaxRevision
  /\ mem' = next /\ disk' \in {disk, next}

\* CompactStore.Commit of a watermark or a checkpoint: a new revision of what
\* memory holds, or an error before the rename, or one after it.
Commit(next) ==
  /\ mem.rev < MaxRevision
  /\ \/ disk' = next /\ mem' = next
     \/ UNCHANGED <<mem, disk>>
     \/ disk' = next /\ UNCHANGED mem
WithMark(mark) == [mem EXCEPT !.rev = @ + 1, !.mark = mark]

-----------------------------------------------------------------------------
ArriveUnchecked(n) ==
  /\ request[n].at = "idle"
  /\ request' = [request EXCEPT ![n] = [at |-> "admitted", mark |-> Fold(mem.mark, n)]]
  /\ UNCHANGED <<mem, disk, stored, written, importer, settled, audit>>

\* Admission, normalisation and the snapshot of the watermark.
Arrive(n) ==
  /\ request[n].at = "idle" /\ Free
  /\ request' = [request EXCEPT ![n] = [at |-> "admitted", mark |-> Fold(mem.mark, n)]]
  /\ UNCHANGED <<mem, disk, stored, written, importer, settled, audit>>

Answer(n, how) == request' = [request EXCEPT ![n].at = how]

Reserve(n) ==
  /\ request[n].at = "admitted"
  /\ Answer(n, "reserved") \/ Answer(n, "idle")     \* backpressure, unavailable, failed
  /\ UNCHANGED <<mem, disk, stored, written, importer, settled, audit>>

DeliverAnswersReserved(n) ==
  /\ request[n].at = "reserved"
  /\ stored' \in {stored, stored \cup {n}} /\ Answer(n, "durable")
  /\ UNCHANGED <<mem, disk, written, importer, settled, audit>>

\* reservation.Commit: acknowledged; or an error, after which the sink may own
\* the fact all the same, and the caller sends it again.
Deliver(n) ==
  /\ request[n].at = "reserved"
  /\ \/ stored' = stored \cup {n} /\ Answer(n, "durable")
     \/ stored' \in {stored, stored \cup {n}} /\ Answer(n, "idle")
  /\ UNCHANGED <<mem, disk, written, importer, settled, audit>>

\* The watermark of the beginning; an error of the store is not an error of the
\* request.
StoreMark(n) ==
  /\ request[n].at = "durable"
  /\ Commit(WithMark(request[n].mark))
  /\ Answer(n, "accepted")
  /\ UNCHANGED <<stored, written, importer, settled, audit>>

\* ingestUnknown: the metadata is persisted first, then a fresh watermark.
UnknownPayload ==
  /\ Commit(WithMark(Fresh))
  /\ UNCHANGED <<stored, request, written, importer, settled, audit>>

\* SetSourceLifecycle and AuditSource: snapshot, then commit.
AuditRead ==
  /\ audit.at = "idle"
  /\ audit' = [at |-> "read", mark |-> mem.mark]
  /\ UNCHANGED <<mem, disk, stored, request, written, importer, settled>>
AuditWrite ==
  /\ audit.at = "read"
  /\ Commit(WithMark(audit.mark))
  /\ audit' = Quiet
  /\ UNCHANGED <<stored, request, written, importer, settled>>

-----------------------------------------------------------------------------
\* The agent appends to its transcript, half a line at a time.
AgentWrites ==
  /\ written < 2 * MaxLine /\ written' = written + 1
  /\ UNCHANGED <<mem, disk, stored, request, importer, settled, audit>>

LineAt(offset) == (offset \div 2) + 1
EndOfLine(offset) == 2 * LineAt(offset)

\* ReadBytes returns up to the newline, or what there is at the end of the file.
ReadEnd(offset) == IF EndOfLine(offset) <= written THEN EndOfLine(offset) ELSE written

\* ImportTranscript begins at the checkpoint it finds in the store.
ImportBegin ==
  /\ importer.at = "idle" /\ mem.check.offset <= written
  /\ importer' = [importer EXCEPT !.at = "open", !.check = mem.check]
  /\ UNCHANGED <<mem, disk, stored, request, written, settled, audit>>

ReadLine ==
  /\ importer.at = "open" /\ Free
  /\ LET o == importer.check.offset IN
     IF o = written THEN importer' = [importer EXCEPT !.at = "idle"]
     ELSE importer' = [at |-> "read", whole |-> o % 2 = 0 /\ ReadEnd(o) % 2 = 0,
                       check |-> [offset |-> ReadEnd(o), sequence |-> importer.check.sequence + 1]]
  /\ UNCHANGED <<mem, disk, stored, request, written, settled, audit>>

\* The line that ends, at the latest, where the importer is.
Current == LineAt(importer.check.offset - 1)

HandOverLater ==
  /\ importer.at = "read"
  /\ importer' = [importer EXCEPT !.at = "durable"]
  /\ settled' \in {settled, [settled EXCEPT !.facts = @ \cup {Current}]}
  /\ UNCHANGED <<mem, disk, stored, request, written, audit>>

\* A whole line becomes a fact, half a line (or a foreign one) is quarantined;
\* either way the sink comes before the checkpoint.
HandOver ==
  /\ importer.at = "read"
  /\ \/ /\ importer.whole
        /\ settled' = [settled EXCEPT !.facts = @ \cup {Current}]
        /\ importer' = [importer EXCEPT !.at = "durable"]
     \/ /\ settled' = [settled EXCEPT !.quarantine = @ \cup {Current}]
        /\ importer' = [importer EXCEPT !.at = "rejected"]
     \/ importer' = [importer EXCEPT !.at = "idle"] /\ UNCHANGED settled
  /\ UNCHANGED <<mem, disk, stored, request, written, audit>>

\* The call goes on with the next line after a fact and returns after a
\* quarantined one, even when the store could not keep the checkpoint.
StoreCheckpoint ==
  /\ importer.at \in {"durable", "rejected"}
  /\ Commit([mem EXCEPT !.rev = @ + 1, !.check = importer.check])
  /\ importer' = [importer EXCEPT !.at = IF @ = "durable" THEN "open" ELSE "idle"]
  /\ UNCHANGED <<stored, request, written, settled, audit>>

\* The process dies and opens the state file again.
IngestCrash ==
  /\ mem' = disk
  /\ request' = [n \in Request |-> IF n \in Running THEN Quiet ELSE request[n]]
  /\ importer' = [importer EXCEPT !.at = "idle"] /\ audit' = Quiet
  /\ UNCHANGED <<disk, stored, written, settled>>

IngestNext ==
  \/ \E n \in Request : Arrive(n) \/ Reserve(n) \/ Deliver(n) \/ StoreMark(n)
  \/ UnknownPayload \/ AuditRead \/ AuditWrite
  \/ AgentWrites \/ ImportBegin \/ ReadLine \/ HandOver \/ StoreCheckpoint
  \/ IngestCrash

-----------------------------------------------------------------------------
IngestTypeOK ==
  /\ \A s \in {mem, disk} : s.rev \in 0 .. MaxRevision + 1
       /\ s.mark \in 0 .. MaxRequest
       /\ s.check.offset \in 0 .. 2 * MaxLine
  /\ \A n \in Request : request[n].at \in {"idle", "admitted", "reserved", "durable", "accepted"}
  /\ importer.at \in {"idle", "open", "read", "durable", "rejected"}
  /\ written \in 0 .. 2 * MaxLine /\ Slots <= Concurrent

\* What a client was told is accepted, and what any watermark in memory or in
\* the file claims was read, is owned by the sink, whatever failed, was
\* retried or was overwritten by a slower request in between.
ClaimsAreDurable ==
  /\ \A n \in Request : request[n].at = "accepted" => n \in stored
  /\ \A s \in {mem, disk} : s.mark # 0 => s.mark \in stored

\* The importer never leaves a line behind in silence: every line a stored
\* checkpoint has passed is a durable fact or was quarantined, also when the
\* line was read before its end was written.
NothingSkippedSilently == \A s \in {mem, disk} : \A l \in Line :
  2 * l <= s.check.offset => l \in settled.facts \cup settled.quarantine

\* A restart never loses a checkpoint the running process already relies on,
\* although a failure after the rename leaves the file ahead of the memory that
\* is served and written next.
RestartKeepsCheckpoint == disk.check.offset >= mem.check.offset

\* Nothing the Ingestor promises, to a client, in a watermark or in the offset
\* of the importer, is ahead of what the sink owns or of the file on disk.
PromisesAreDurable == ClaimsAreDurable /\ NothingSkippedSilently /\ RestartKeepsCheckpoint
=============================================================================
