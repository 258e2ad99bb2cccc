---------------------------- MODULE IngestionHealth ----------------------------
(***************************************************************************)
(* The rejections of the lanes, counted (internal/runtime/queue.go and     *)
(* ingestion_health.go), the metadata of what was not understood, which    *)
(* passes the queue without a reservation, and the page that shows the     *)
(* counters to an operator (api.go).                                       *)
(*                                                                         *)
(* A rejection is counted in memory, recorded in PostgreSQL and then       *)
(* answered; the page reads the memory first and the rows after it.  A     *)
(* Drain does not wait for metadata, so the pool may close under it.       *)
(***************************************************************************)
EXTENDS Integers, FiniteSets

CONSTANTS
  Sender,        \* callers whose records and metadata go through the queue
  MaxRejection,  \* bound: rejections
  MaxMissed      \* bound: Records of a rejection that fail

ASSUME HealthAssumption == IsFiniteSet(Sender) /\ MaxRejection \in Nat /\ MaxMissed \in Nat

VARIABLES
  counted,       \* in memory: [rejected, suspect, throttled]
  recorded,      \* backpressure and durability totals of runtime_ingestion_health
  answer,        \* per caller: where its record or metadata is
  quarantined,   \* callers whose metadata is stored
  rejections, told, missed,  \* counted ever, answered, and not recorded
  accepting, poolOpen,
  healthPage     \* [at, told, shown, degraded]

healthVars == <<counted, recorded, answer, quarantined, rejections, told, missed,
                accepting, poolOpen, healthPage>>

NoHealthPage == [at |-> "none", told |-> 0, shown |-> 0, degraded |-> FALSE]

HealthRowsInit ==
  /\ counted = [rejected |-> 0, suspect |-> FALSE, throttled |-> FALSE]
  /\ recorded = 0 /\ answer = [s \in Sender |-> "idle"] /\ quarantined = {}
  /\ rejections = 0 /\ told = 0 /\ missed = 0
  /\ accepting = TRUE /\ poolOpen = TRUE /\ healthPage = NoHealthPage

Turns(s, from, to) == answer[s] \in from /\ answer' = [answer EXCEPT ![s] = to]

-----------------------------------------------------------------------------
\* PersistQuarantineMetadata looks whether the queue accepts; a record reserves a
\* slot, and a full lane, a closed queue or a full spool rejects it (IngressQueue).
Submit(s) ==
  /\ rejections < MaxRejection
  /\ \/ accepting /\ \E to \in {"metadata", "persisted"} : Turns(s, {"idle"}, to)
     \/ Turns(s, {"idle"}, "rejected")
  /\ UNCHANGED <<counted, recorded, quarantined, rejections, told, missed, accepting, poolOpen,
                 healthPage>>

\* The transaction commits and its caller hears so, or does not; or it is lost.
StoreMetadata(s) ==
  /\ \/ poolOpen /\ quarantined' = quarantined \cup {s} /\ Turns(s, {"metadata"}, "kept")
     \/ poolOpen /\ quarantined' = quarantined \cup {s} /\ Turns(s, {"metadata"}, "rejected")
     \/ UNCHANGED quarantined /\ Turns(s, {"metadata"}, "rejected")
  /\ UNCHANGED <<counted, recorded, rejections, told, missed, accepting, poolOpen, healthPage>>

\* recordSuccessful: a second success of a lane within a second writes nothing, and
\* clears the doubt about the counters all the same.
RecordSuccess(s) ==
  /\ Turns(s, {"persisted", "kept"}, "accepted")
  /\ \E fails \in BOOLEAN :
       /\ ~poolOpen => fails \/ counted.throttled
       /\ counted' = [counted EXCEPT !.suspect = fails, !.throttled = TRUE]
  /\ UNCHANGED <<recorded, quarantined, rejections, told, missed, accepting, poolOpen, healthPage>>

\* recordRejected, the memory.
CountRejection(s) ==
  /\ rejections < MaxRejection /\ Turns(s, {"rejected"}, "counted")
  /\ counted' = [counted EXCEPT !.rejected = @ + 1] /\ rejections' = rejections + 1
  /\ UNCHANGED <<recorded, quarantined, told, missed, accepting, poolOpen, healthPage>>

RecordRejectionThrottled(s) ==
  /\ Turns(s, {"counted"}, "refused")
  /\ recorded' = recorded + (IF counted.throttled THEN 0 ELSE 1)
  /\ counted' = [counted EXCEPT !.suspect = FALSE]
  /\ UNCHANGED <<quarantined, rejections, told, missed, accepting, poolOpen, healthPage>>

\* Record: one statement adds one to the row; it may fail, and may have added it.
RecordRejection(s) ==
  /\ Turns(s, {"counted"}, "refused")
  /\ \E fails, adds \in BOOLEAN :
       /\ ~fails => adds
       /\ adds => poolOpen
       /\ recorded' = recorded + (IF adds THEN 1 ELSE 0)
       /\ missed' = missed + (IF adds THEN 0 ELSE 1) /\ missed' <= MaxMissed
       /\ counted' = [counted EXCEPT !.suspect = fails]
  /\ UNCHANGED <<quarantined, rejections, told, accepting, poolOpen, healthPage>>

HearAnswer(s) ==
  /\ Turns(s, {"accepted", "refused"}, IF answer[s] = "refused" THEN "idle" ELSE "done")
  /\ told' = told + (IF answer[s] = "refused" THEN 1 ELSE 0)
  /\ UNCHANGED <<counted, recorded, quarantined, rejections, missed, accepting, poolOpen,
                 healthPage>>

-----------------------------------------------------------------------------
\* Shutdown: StopAccepting, then a Drain that no metadata delays, and Pool.Close.
StopAccepting ==
  /\ accepting /\ accepting' = FALSE
  /\ UNCHANGED <<counted, recorded, answer, quarantined, rejections, told, missed, poolOpen,
                 healthPage>>

ClosePool ==
  /\ ~accepting /\ poolOpen /\ poolOpen' = FALSE
  /\ UNCHANGED <<counted, recorded, answer, quarantined, rejections, told, missed, accepting,
                 healthPage>>

\* The process is gone, at any time; the next one loads the totals.
LoadHealth ==
  /\ counted' = [rejected |-> recorded, suspect |-> FALSE, throttled |-> FALSE]
  /\ answer' = [s \in Sender |-> IF answer[s] = "done" THEN "done" ELSE "idle"]
  /\ accepting' = TRUE /\ poolOpen' = TRUE /\ healthPage' = NoHealthPage
  /\ UNCHANGED <<recorded, quarantined, rejections, told, missed>>

\* API.health: Queue.Metrics, while the queue accepts, and the rows.
ReadCounted ==
  /\ accepting /\ healthPage.at # "counted"
  /\ healthPage' = [at |-> "counted", told |-> told, shown |-> counted.rejected,
                    degraded |-> counted.suspect]
  /\ UNCHANGED <<counted, recorded, answer, quarantined, rejections, told, missed, accepting,
                 poolOpen>>

ReadRecorded ==
  /\ healthPage.at = "counted" /\ poolOpen
  /\ healthPage' = [healthPage EXCEPT !.at = "shown",
                      !.shown = IF recorded > @ THEN recorded ELSE @]
  /\ UNCHANGED <<counted, recorded, answer, quarantined, rejections, told, missed, accepting,
                 poolOpen>>

HealthRowsNext ==
  \/ StopAccepting \/ ClosePool \/ LoadHealth \/ ReadCounted \/ ReadRecorded
  \/ \E s \in Sender : \/ Submit(s) \/ StoreMetadata(s) \/ RecordSuccess(s)
                       \/ CountRejection(s) \/ RecordRejection(s) \/ HearAnswer(s)

-----------------------------------------------------------------------------
HealthRowsTypeOK ==
  /\ answer \in [Sender -> {"idle", "metadata", "persisted", "kept", "rejected", "counted",
                            "refused", "accepted", "done"}]
  /\ {recorded, rejections, told, missed, counted.rejected} \subseteq 0 .. MaxRejection
  /\ quarantined \subseteq Sender

\* "Rejection counters are synchronous so an acknowledged retry/error response is
\* reflected before it reaches a caller": but for a Record that failed, every
\* rejection a caller was told of is in the rows that the next process loads.
RejectionsAreRecorded ==
  /\ told <= recorded + missed
  /\ recorded <= rejections

\* The page shows every rejection that was answered before it was asked for, though
\* it reads the memory and the rows apart, and counts none twice.
RejectionsAreShown == healthPage.at = "shown" =>
  /\ healthPage.told <= healthPage.shown + missed
  /\ healthPage.shown <= rejections

\* Metadata whose caller is told that it is kept is stored, even as the pool closes.
KeptIsStored == \A s \in Sender : answer[s] = "kept" => s \in quarantined

CountersAreTrue == RejectionsAreRecorded /\ RejectionsAreShown /\ KeptIsStored
=============================================================================
