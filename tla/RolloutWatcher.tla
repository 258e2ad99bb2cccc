---------------------------- MODULE RolloutWatcher ----------------------------
(***************************************************************************)
(* The watcher of Codex session files                                      *)
(* (internal/runtime/codex_rollout_watcher.go).                            *)
(*                                                                         *)
(* Every few seconds the files are visited in the order of their paths and *)
(* read from their checkpoint to the size they had when they were opened.  *)
(* Each line is projected to records, the records are ingested one by one  *)
(* and the checkpoint is committed after the line.  What joins the lines   *)
(* of one skill read - the marker of the user, the call that opens         *)
(* SKILL.md, the output of that call - is remembered in memory only.       *)
(***************************************************************************)
EXTENDS Naturals, Sequences, FiniteSets

CONSTANTS
  Scripts,       \* per file: the lines its agent may write; the domain is ordered
  MaxTrouble     \* crashes, failed steps and rotations in a behaviour

\* A line is meta (session_meta), marker ($skill in a user message), call
\* (function_call reading its SKILL.md), output (of that call) or strange (a
\* top-level type, an envelope or a size the projection does not know).
LineKind == {"meta", "marker", "call", "output", "strange"}
ASSUME RolloutAssumption ==
  /\ Scripts \in Seq(SUBSET (Seq(LineKind) \ {<<>>})) /\ MaxTrouble \in Nat

Evidence == {"requested", "loaded", "invoked"}
Path == DOMAIN Scripts
NoCheckpoint == [gen |-> 0, offset |-> 0]
NoMemory == [skill |-> FALSE, call |-> FALSE]

VARIABLES
  script,     \* what the agent writes to each file
  lines,      \* whole lines in each file
  gen,        \* its inode
  old,        \* it was last written before this process started
  check,      \* its committed checkpoint: [gen, offset]
  memory,     \* rolloutFileMemory: markers and calls seen
  scan,       \* the visit in progress: [path, gen, at, offset, size, todo]
  evidence,   \* per file: kinds of records ingested
  reported,   \* strange lines quarantined: <<path, gen, line>>
  skipped,    \* history: lines passed over as baseline: <<path, gen>> -> offset
  hurt,       \* history: files whose memory was lost or used up by a failure
  trouble

rolloutVars == <<script, lines, gen, old, check, memory, scan, evidence, reported,
                 skipped, hurt, trouble>>

Resting == [path |-> 0, gen |-> 0, at |-> "idle", offset |-> 0, size |-> 0, todo |-> {}]

RolloutInit ==
  /\ script \in [Path -> UNION {Scripts[p] : p \in Path}]
  /\ \A p \in Path : script[p] \in Scripts[p]
  /\ lines \in [Path -> 0 .. 1]
  /\ gen = [p \in Path |-> 1]
  /\ old = [p \in Path |-> lines[p] > 0]
  /\ check = [p \in Path |-> NoCheckpoint]
  /\ memory = [p \in Path |-> NoMemory]
  /\ scan = Resting
  /\ evidence = [p \in Path |-> {}] /\ reported = {}
  /\ skipped = [p \in Path |-> 0] /\ hurt = {} /\ trouble = 0

Trouble == trouble < MaxTrouble /\ trouble' = trouble + 1

\* The agent appends a line; half of one is not there yet for the reader, which
\* stops at the last newline.
AgentAppends(p) ==
  /\ lines[p] < Len(script[p])
  /\ lines' = [lines EXCEPT ![p] = @ + 1]
  /\ old' = [old EXCEPT ![p] = FALSE]
  /\ UNCHANGED <<script, gen, check, memory, scan, evidence, reported, skipped, hurt, trouble>>

\* The file is replaced by another under the same path; a visit in progress
\* reads the old one to its end.
Rotate(p) ==
  /\ Trouble
  /\ lines' = [lines EXCEPT ![p] = 0] /\ gen' = [gen EXCEPT ![p] = @ + 1]
  /\ skipped' = [skipped EXCEPT ![p] = 0]
  /\ UNCHANGED <<script, scan, old, check, memory, evidence, reported, hurt>>

-----------------------------------------------------------------------------
NextFirstOnly(p) == IF p = 0 THEN [Resting EXCEPT !.path = 1, !.at = "open"] ELSE Resting
NextFile(p) == IF p + 1 \in Path THEN [Resting EXCEPT !.path = p + 1, !.at = "open"] ELSE Resting

\* ScanOnce walks the roots; too many files, an unreadable root or a file bound
\* to two installations end it before any file is opened.
ScanBegin ==
  /\ scan.at = "idle"
  /\ scan' = NextFile(0)
  /\ UNCHANGED <<script, lines, gen, old, check, memory, evidence, reported, skipped, hurt, trouble>>

\* A scan that fails leaves the remaining files for the next one.
ScanFails == scan' = Resting

\* readRolloutSessionMetadata: session_meta among the first lines.
HasSession(p) == \E l \in 1 .. lines[p] : script[p][l] = "meta"

\* scanFile up to the first line: a file without checkpoint is baselined at its
\* size if it is older than the process and read from zero otherwise; another
\* inode, or a checkpoint behind the end, restarts at zero.
Baseline(p) == IF old[p] THEN lines[p] ELSE 0
Resume(p) == IF check[p].gen # gen[p] \/ check[p].offset > lines[p] THEN 0 ELSE check[p].offset

Reading(p, from) ==
  IF HasSession(p)
  THEN scan' = [path |-> p, gen |-> gen[p], at |-> "read", offset |-> from, size |-> lines[p], todo |-> {}]
  ELSE ScanFails

OpenFile ==
  LET p == scan.path IN
  /\ scan.at = "open"
  /\ IF check[p] = NoCheckpoint
     THEN \/ /\ check' = [check EXCEPT ![p] = [gen |-> gen[p], offset |-> Baseline(p)]]
             /\ skipped' = [skipped EXCEPT ![p] = Baseline(p)]
             /\ IF Baseline(p) = lines[p] THEN scan' = NextFile(p) ELSE Reading(p, 0)
             /\ UNCHANGED trouble
          \/ ScanFails /\ Trouble /\ UNCHANGED <<check, skipped>>
     ELSE Reading(p, Resume(p)) /\ UNCHANGED <<check, skipped, trouble>>
  /\ UNCHANGED <<script, lines, gen, old, memory, evidence, reported, hurt>>

\* projectRolloutLine on the memory of the file.
RemembersOneLine(m, kind) ==
  CASE kind = "marker" -> [m EXCEPT !.skill = TRUE]
    [] kind = "call" -> [m EXCEPT !.call = @ \/ m.skill]
    [] OTHER -> NoMemory
Remembers(m, kind) ==
  CASE kind = "marker" -> [m EXCEPT !.skill = TRUE]
    [] kind = "call" -> [m EXCEPT !.call = @ \/ m.skill]
    [] kind = "output" -> IF m.call THEN NoMemory ELSE m
    [] OTHER -> m
ProjectsAnyOutput(m, kind) ==
  IF kind = "strange" THEN {"unknown_schema"}
  ELSE IF kind = "output" THEN Evidence ELSE {}
Projects(m, kind) ==
  IF kind = "strange" THEN {"unknown_schema"}
  ELSE IF kind = "output" /\ m.call THEN Evidence ELSE {}

ReadRolloutLine ==
  LET p == scan.path  l == scan.offset + 1 IN
  /\ scan.at = "read"
  /\ IF scan.offset = scan.size
     THEN scan' = NextFile(p) /\ UNCHANGED memory
     ELSE /\ scan' = [scan EXCEPT !.at = "ingest", !.todo = Projects(memory[p], script[p][l])]
          /\ memory' = [memory EXCEPT ![p] = Remembers(@, script[p][l])]
  /\ UNCHANGED <<script, lines, gen, old, check, evidence, reported, skipped, hurt, trouble>>

\* One record, or the metadata of an unknown line; an error ends the scan with
\* the checkpoint before the line and the memory after it.
IngestOne ==
  LET p == scan.path IN
  /\ scan.at = "ingest"
  /\ \E r \in scan.todo :
       \/ /\ scan' = [scan EXCEPT !.todo = @ \ {r}]
          /\ evidence' = IF r = "unknown_schema" THEN evidence
                         ELSE [evidence EXCEPT ![p] = @ \cup {r}]
          /\ reported' = IF r # "unknown_schema" THEN reported
                         ELSE reported \cup {<<p, scan.gen, scan.offset + 1>>}
          /\ UNCHANGED <<hurt, trouble>>
       \/ /\ ScanFails /\ Trouble
          /\ hurt' = hurt \cup {p}
          /\ UNCHANGED <<evidence, reported>>
  /\ UNCHANGED <<script, lines, gen, old, check, memory, skipped>>

\* An error of the store ends the scan as well.
CommitEarly ==
  LET p == scan.path IN
  /\ scan.at = "ingest"
  /\ check' = [check EXCEPT ![p] = [gen |-> scan.gen, offset |-> scan.offset + 1]]
  /\ scan' = [scan EXCEPT !.at = "read", !.offset = @ + 1]
  /\ UNCHANGED <<script, lines, gen, old, memory, evidence, reported, skipped, hurt, trouble>>

CommitLine ==
  LET p == scan.path IN
  /\ scan.at = "ingest" /\ scan.todo = {}
  /\ \/ /\ check' = [check EXCEPT ![p] = [gen |-> scan.gen, offset |-> scan.offset + 1]]
        /\ scan' = [scan EXCEPT !.at = "read", !.offset = @ + 1]
        /\ UNCHANGED <<hurt, trouble>>
     \/ /\ ScanFails /\ Trouble /\ hurt' = hurt \cup {p}
        /\ UNCHANGED check
  /\ UNCHANGED <<script, lines, gen, old, memory, evidence, reported, skipped>>

\* A new process remembers nothing and takes every file for an old one.
WatcherRestarts ==
  /\ Trouble
  /\ scan' = Resting
  /\ memory' = [p \in Path |-> NoMemory]
  /\ hurt' = hurt \cup {p \in Path : check[p] # NoCheckpoint \/ lines[p] > 0}
  /\ old' = [p \in Path |-> lines[p] > 0]
  /\ UNCHANGED <<script, lines, gen, check, evidence, reported, skipped>>

RolloutNext ==
  \/ \E p \in Path : AgentAppends(p) \/ Rotate(p)
  \/ ScanBegin \/ OpenFile \/ ReadRolloutLine \/ IngestOne \/ CommitLine
  \/ WatcherRestarts

\* The ticker fires and a scan that nothing fails goes on.
ScanStep ==
  ScanBegin \/ OpenFile \/ ReadRolloutLine \/ IngestOne \/ CommitLine

-----------------------------------------------------------------------------
RolloutTypeOK ==
  /\ \A p \in Path : lines[p] \in 0 .. Len(script[p])
       /\ check[p].gen \in 0 .. MaxTrouble + 1 /\ evidence[p] \subseteq Evidence
  /\ memory \in [Path -> [skill : BOOLEAN, call : BOOLEAN]]
  /\ scan.at \in {"idle", "open", "read", "ingest"}
  /\ scan.todo \subseteq Evidence \cup {"unknown_schema"}
  /\ hurt \subseteq Path /\ trouble \in 0 .. MaxTrouble

\* Lines of the file as it is now that the committed checkpoint has passed and
\* that were not skipped as the baseline.
Consumed(p) ==
  IF check[p].gen # gen[p] THEN {}
  ELSE {l \in 1 .. check[p].offset : l > skipped[p]}

\* No unknown line is passed over without a quarantine, whatever failed,
\* restarted or was rotated between reading it and committing the checkpoint.
UnknownIsReported == \A p \in Path : \A l \in Consumed(p) :
  l <= Len(script[p]) /\ script[p][l] = "strange" => <<p, gen[p], l>> \in reported

\* A marker alone is no evidence: records exist for a skill only if its marker,
\* the read of its SKILL.md and the output of that read were all in the file.
EvidenceIsCorroborated == \A p \in Path : evidence[p] # {} =>
  {"marker", "call", "output"} \subseteq {script[p][l] : l \in DOMAIN script[p]}

Corroborated(p) == \E m, c, o \in Consumed(p) : m < c /\ c < o
  /\ script[p][m] = "marker" /\ script[p][c] = "call" /\ script[p][o] = "output"

\* A corroborated read is not dropped as long as no failure or restart came
\* between its three lines: all three records are durable before the
\* checkpoint passes the last line.
UninterruptedReadKept == \A p \in Path \ hurt :
  Corroborated(p) => evidence[p] = Evidence

\* Every line written is consumed in the end, unless a file that sorts before
\* it has no session metadata, which ends every scan.
LinesAreConsumed == \A p \in Path :
  <>[](\A q \in Path : q <= p => HasSession(q)) =>
    <>[](check[p].gen = gen[p] /\ check[p].offset = lines[p])

\* The offset that is stored and the evidence that is sent agree: no unknown
\* line and no read in one piece is passed over, and no marker alone counts.
CheckpointAgrees == UnknownIsReported /\ EvidenceIsCorroborated /\ UninterruptedReadKept
=============================================================================
