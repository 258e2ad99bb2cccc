------------------------------- MODULE Receivers -------------------------------
(***************************************************************************)
(* The receivers of the ingress listener: OTLP over HTTP and gRPC, hooks   *)
(* and adapter batches (internal/observability/otlp.go, routes.go,         *)
(* metricsample.go; the hook and otel files of the two adapters).          *)
(*                                                                         *)
(* A request carries several records, each of which is stored, put in      *)
(* quarantine or refused on its own; the client sees one answer and sends  *)
(* the whole request again when that answer, or silence, tells it to.      *)
(***************************************************************************)
EXTENDS Naturals, Sequences, FiniteSets

CONSTANTS
  Requests,      \* what the clients send: request -> [lane, records]
  MaxSend,       \* times one request may be sent
  MetricLane     \* the durable sink implements MetricSampleSink

\* A record is [from, name, keys]: the resource (or hook adapter) it names, the
\* event or metric it says it is, and the documented attributes it carries.
\* The lanes are log, metric, batch and hook; traces go the way of logs.
Client == DOMAIN Requests
Records(c) == Requests[c].records
Lane(c) == Requests[c].lane

ASSUME ReceiverAssumption ==
  /\ MaxSend \in Nat /\ MetricLane \in BOOLEAN
  /\ \A c \in Client : /\ Lane(c) \in {"log", "metric", "batch", "hook"}
                      /\ Records(c) \in Seq([from : STRING, name : STRING, keys : SUBSET STRING])

VARIABLES
  call,       \* per request: [at, next, sent]
  facts,      \* identities of the events and samples the sink owns
  quarantine, \* identities of the quarantine occurrences counted
  hour

receiverVars == <<call, facts, quarantine, hour>>

ReceiverInit ==
  /\ call = [c \in Client |-> [at |-> "waiting", next |-> 1, sent |-> 0]]
  /\ facts = {} /\ quarantine = {} /\ hour = 0

-----------------------------------------------------------------------------
\* matchAdapterResource: the fixture literal, then the service names of the two
\* adapters.
Adapter(r) == IF r.from \in {"fixture", "codex", "claude"} THEN r.from ELSE "none"
Real(r) == Adapter(r) \in {"codex", "claude"}

\* requiredOTelKeys of both adapters, for one event with a measurement, one
\* that names a component and the stream event of Codex.
RequiredKeys(name) ==
  {"id", "session", "type"} \cup
    CASE name = "tool_result" -> {"outcome"}
      [] name = "plugin" -> {"identity"}
      [] name = "sse" -> {"tokens"}
      [] OTHER -> {}
Documented(r) == r.name \in CASE Adapter(r) = "codex" -> {"tool_result", "sse", "start"}
                              [] Adapter(r) = "claude" -> {"tool_result", "plugin"}
                              [] OTHER -> {}

\* translateToSafeAttributes and the additions of ingestOneRecord: a real record
\* gets an identity of its own content and the marker of its type, a plugin
\* event its owner as identity.
SafeKeys(r) ==
  r.keys \cup (IF Real(r) THEN {"id", "type"} ELSE {})
         \cup (IF Adapter(r) = "claude" /\ r.name = "plugin" /\ "owner" \in r.keys
               THEN {"identity"} ELSE {})

\* canonicalEventTypeForAdapter; a stream record without tokens is activity.
Recognised(r) ==
  \/ Documented(r) /\ RequiredKeys(r.name) \subseteq SafeKeys(r)
  \/ Adapter(r) = "codex" /\ r.name = "sse" /\ "tokens" \notin SafeKeys(r)

\* ingestOneRecord; safeFields comes before the event type is looked up.
EventDisposition(r) ==
  IF Adapter(r) = "none" THEN "foreign"
  ELSE IF ~({"id", "session", "type"} \subseteq SafeKeys(r)) THEN "malformed"
  ELSE IF Real(r) /\ ~Recognised(r) THEN "drift" ELSE "fact"

\* ingestMetrics, ingestMetricPoint: only Claude publishes a metric vocabulary.
MetricDisposition(r) ==
  IF Adapter(r) # "claude" THEN EventDisposition(r)
  ELSE IF "points" \notin r.keys THEN "shape"
  ELSE IF r.name # "token.usage" \/ "value" \notin r.keys THEN "malformed" ELSE "sample"

\* DecodeHookInput, the check of the path, BuildHookOutput; and the validation
\* of every record of an adapter batch before the first is stored, which
\* IngestSanitizedAdapterRecord repeats for each.
HookAccepted(r) ==
  /\ Real(r) \/ r.from = "fixture"
  /\ "session" \in r.keys /\ "unknown" \notin r.keys
  /\ r.name \in {"tool_result", "start"}
RecordValid(r) == r.from # "other" /\ "session" \in r.keys

Disposition(c, r) ==
  CASE Lane(c) = "metric" -> MetricDisposition(r)
    [] Lane(c) = "log" -> EventDisposition(r)
    [] Lane(c) = "hook" -> "fact"
    [] Lane(c) = "batch" -> IF RecordValid(r) THEN "fact" ELSE "invalid"

AdmittedLazily(c) ==
  IF Lane(c) = "hook" THEN HookAccepted(Records(c)[1])
  ELSE Lane(c) = "batch" => RecordValid(Records(c)[1])
Admitted(c) ==
  IF Lane(c) = "hook" THEN HookAccepted(Records(c)[1])
  ELSE Lane(c) = "batch" => \A i \in DOMAIN Records(c) : RecordValid(Records(c)[i])

-----------------------------------------------------------------------------
\* syntheticEventID and the identities of sanitized records come from the
\* content; hookEventID takes the clock in.
IdentityOfSend(c, i) == <<c, i, call[c].sent>>
Identity(c, i) == IF Lane(c) = "hook" THEN <<c, i, call[c].sent>> ELSE <<c, i, 0>>

\* A foreign resource is counted once per hour; IngestUnknown passes no
\* occurrence key and counts whenever it is called.
OccurrenceOfSend(c, i, d) == <<c, i, call[c].sent, d>>
Occurrence(c, i, d) ==
  IF d = "foreign" THEN <<c, i, hour, d>> ELSE <<c, i, call[c].sent, d>>

\* The request arrives again from its first record.
Send(c) ==
  /\ call[c].at \in {"waiting", "retry", "silence"} /\ call[c].sent < MaxSend
  /\ call' = [call EXCEPT ![c] = [at |-> IF Admitted(c) THEN "handling" ELSE "refused",
                                  next |-> 1, sent |-> @.sent + 1]]
  /\ UNCHANGED <<facts, quarantine, hour>>

GoOn(c) == call' = [call EXCEPT ![c].next = @ + 1]
AnswerWith(c, how) == call' = [call EXCEPT ![c].at = how]

AbortsOnBackpressure(c) == GoOn(c) \/ AnswerWith(c, "retry")
\* ErrBackpressure and ErrDurabilityUnavailable end the request (503, 429).
Aborts(c) == AnswerWith(c, "retry")

\* The sink takes the event, or refuses it; a commit whose answer was an error
\* may have stored it.
StoreEvent(c) ==
  LET i == call[c].next IN
  /\ \/ facts' = facts \cup {Identity(c, i)} /\ GoOn(c)
     \/ facts' \in {facts, facts \cup {Identity(c, i)}} /\ Aborts(c)
  /\ UNCHANGED quarantine

\* IngestMetricSample: the lane exists only if the sink has it, and an error
\* that is not retryable is answered 400 invalid_otlp.
StoreSample(c) ==
  LET i == call[c].next IN
  /\ IF MetricLane
     THEN \/ facts' = facts \cup {Identity(c, i)} /\ GoOn(c)
          \/ UNCHANGED facts /\ Aborts(c)
     ELSE UNCHANGED facts /\ AnswerWith(c, "refused")
  /\ UNCHANGED quarantine

\* unknown(), IngestUnknown: metadata of what was not understood.
StoreQuarantine(c, d) ==
  LET i == call[c].next IN
  /\ \/ quarantine' = quarantine \cup {Occurrence(c, i, d)} /\ GoOn(c)
     \/ quarantine' \in {quarantine, quarantine \cup {Occurrence(c, i, d)}} /\ Aborts(c)
  /\ UNCHANGED facts

Handle(c) ==
  /\ call[c].at = "handling" /\ call[c].next \in DOMAIN Records(c)
  /\ LET r == Records(c)[call[c].next]
         d == Disposition(c, r) IN
     CASE d = "fact" -> StoreEvent(c)
       [] d = "sample" -> StoreSample(c)
       [] d = "invalid" -> AnswerWith(c, "refused") /\ UNCHANGED <<facts, quarantine>>
       [] OTHER -> StoreQuarantine(c, d)
  /\ UNCHANGED hour

AcceptRequest(c) ==
  /\ call[c].at = "handling" /\ call[c].next > Len(Records(c))
  /\ AnswerWith(c, "accepted")
  /\ UNCHANGED <<facts, quarantine, hour>>

\* The answer is lost, the connection breaks, or the process dies with every
\* request it was handling.
NoAnswer(c) ==
  /\ call[c].at = "handling"
  /\ call' \in {[call EXCEPT ![c].at = "silence"],
                [k \in Client |-> IF call[k].at = "handling"
                                  THEN [call[k] EXCEPT !.at = "silence"] ELSE call[k]]}
  /\ UNCHANGED <<facts, quarantine, hour>>

HourPasses == hour = 0 /\ hour' = 1 /\ UNCHANGED <<call, facts, quarantine>>

ReceiverNext ==
  \/ \E c \in Client : Send(c) \/ Handle(c) \/ AcceptRequest(c) \/ NoAnswer(c)
  \/ HourPasses

-----------------------------------------------------------------------------
ReceiverTypeOK ==
  /\ \A c \in Client :
       /\ call[c].at \in {"waiting", "handling", "retry", "silence", "accepted", "refused"}
       /\ call[c].next \in 1 .. Len(Records(c)) + 1 /\ call[c].sent \in 0 .. MaxSend
  /\ hour \in 0 .. 1

Stored(c, i) == \E f \in facts : f[1] = c /\ f[2] = i
Quarantined(c, i) == \E q \in quarantine : q[1] = c /\ q[2] = i

\* 200 is about the whole request: each of its records, whatever was understood
\* of it, is owned by the sink or was counted in quarantine.
AcceptedIsAccounted == \A c \in Client : call[c].at = "accepted" =>
  \A i \in DOMAIN Records(c) : Stored(c, i) \/ Quarantined(c, i)

\* A request that is sent again, after an abort in its middle, a lost answer or
\* a crash, adds no second fact for a record it has stored. (A hook's identity
\* contains the time it arrived, so hooks are left out.)
ResendsAddNoFact == \A c \in Client : Lane(c) # "hook" =>
  \A i \in DOMAIN Records(c) : Cardinality({f \in facts : f[1] = c /\ f[2] = i}) <= 1

\* A foreign resource is counted once an hour however often it is sent.
ForeignCountedHourly == \A c \in Client : \A i \in DOMAIN Records(c) :
  Cardinality({q \in quarantine : q[1] = c /\ q[2] = i /\ q[4] = "foreign"}) <= hour + 1

HasSample(c) == Lane(c) = "metric" /\
  \E i \in DOMAIN Records(c) : MetricDisposition(Records(c)[i]) = "sample"

\* 400 tells a client not to come back: then nothing of its request was stored
\* and nothing understood is lost, in a batch whose last record is bad either.
RefusedLeavesNothing == \A c \in Client :
  call[c].at = "refused" /\ ~HasSample(c) => \A i \in DOMAIN Records(c) : ~Stored(c, i)

\* What an answer says about a request is true of the sink, however often the
\* request was sent: accepted is owned or counted, refused left nothing, a
\* resent record adds no fact and a foreign resource no second count.
AnswersAreTrue ==
  AcceptedIsAccounted /\ RefusedLeavesNothing /\ ResendsAddNoFact /\ ForeignCountedHourly
=============================================================================
