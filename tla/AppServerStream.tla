--------------------------- MODULE AppServerStream ---------------------------
(***************************************************************************)
(* Codex App Server streams: the HTTP handler of one stream                *)
(* (internal/runtime/codex_app_server_ingress.go), the bridge that reads   *)
(* its frames in a goroutine of its own                                    *)
(* (internal/codexadapter/appserver_bridge.go), and its sink               *)
(* (internal/observability/bridge_sink.go).                                *)
(*                                                                         *)
(* The handler waits for the bridge or for its timer, whichever comes      *)
(* first.  A bridge that has been given up goes on by itself until it      *)
(* notices; both use the sink and the one health row of all streams.       *)
(***************************************************************************)
EXTENDS Naturals, Sequences, FiniteSets

CONSTANTS
  Frames,       \* the frames of each stream: stream -> sequence of frames
  MaxFrames,    \* frames the bridge reads of one stream
  MaxPending,   \* requests it remembers until their response
  MaxStream     \* connections in one behaviour

Stream == DOMAIN Frames
FrameSet == UNION {{Frames[s][i] : i \in DOMAIN Frames[s]} : s \in Stream}
McpCall == {f.call : f \in {g \in FrameSet : g.kind \in {"started", "terminal"}}}
Outcomes == {"succeeded", "failed"}

ASSUME StreamAssumption ==
  /\ {MaxFrames, MaxPending, MaxStream} \subseteq Nat \ {0}
  /\ \A s \in Stream : Frames[s] \in Seq(FrameSet)
  /\ \A f \in FrameSet : /\ f.kind = "terminal" => f.outcome \in Outcomes
                         /\ f.kind = "response" /\ f.valid => f.says \in {"skills", "plugin"}

VARIABLES
  handler,    \* per stream: [at, answer]
  bridge,     \* per stream: the bridge of its last connection
  delivered,  \* facts the sink has stored: [id, outcome]
  sourceRow,  \* runtime_source_health of codex.app_server
  connections \* how often a stream was sent

streamVars == <<handler, bridge, delivered, sourceRow, connections>>

NoCall == [started |-> FALSE, terminals |-> {}]
NewBridge ==
  [at |-> "idle", next |-> 1, emit |-> <<>>, ends |-> "none", lifecycle |-> "discovered",
   accepted |-> 0, rejected |-> 0, pending |-> {}, order |-> <<>>,
   calls |-> [c \in McpCall |-> NoCall], context |-> "live"]
NoAnswerYet == [status |-> 0, rejected |-> 0, lifecycle |-> "none"]

\* Configure, when the appliance starts.
StreamInit ==
  /\ handler = [s \in Stream |-> [at |-> "waiting", answer |-> NoAnswerYet]]
  /\ bridge = [s \in Stream |-> NewBridge]
  /\ delivered = {} /\ connections = 0
  /\ sourceRow = [state |-> "configured", value |-> "not_observed", succeeded |-> FALSE]

-----------------------------------------------------------------------------
\* What goes to the sink: a record, which becomes a fact with the identity of
\* what the frame is about, or a rejection.
Fact(id, outcome) == [kind |-> "fact", id |-> id, outcome |-> outcome]
Reject(category) == [kind |-> "reject", id |-> category, outcome |-> "none"]

\* projectPluginReadResponse: what is said of a plugin and of its children.
PluginRecords(f) ==
  LET If(cond, id) == IF cond THEN <<Fact(id, "unknown")>> ELSE <<>> IN
  <<Fact("requested", "unknown")>>
    \o If(f.installed, "installed") \o If(f.enabled, "enabled")
    \o If(f.installed, "child installed") \o If(f.enabled /\ f.child, "child enabled")

\* projectSkillsListResponse names the skills that are exposed; an error or a
\* response that cannot be read is refused as a whole.
ResponseRecords(f) ==
  CASE ~f.valid -> <<Reject("response_error")>>
    [] f.valid /\ f.says = "skills" -> <<Fact("exposed", "unknown")>>
    [] f.valid /\ f.says = "plugin" -> PluginRecords(f)

\* A frame that is recorded as it is read; userMessage names a skill, invoked
\* and loaded.
FrameRecords(b, f) ==
  CASE f.kind = "turn" -> <<Fact("turn", "unknown")>>
    [] f.kind = "skill" -> <<Fact("invoked", "unknown"), Fact("loaded", "unknown")>>
    [] f.kind = "bad" -> <<Reject("invalid_frame")>>
    [] f.kind = "request" /\ Cardinality(b.pending) >= MaxPending ->
         <<Reject("pending_request_limit_exceeded")>>
    [] f.kind = "response" /\ f.id \in b.pending ->
         ResponseRecords(f)
    [] OTHER -> <<>>

\* The requests it remembers; a response it does not own is other traffic.
PendingAfter(b, f) ==
  CASE f.kind = "request" /\ Cardinality(b.pending) < MaxPending -> b.pending \cup {f.id}
    [] f.kind = "response" -> b.pending \ {f.id}
    [] OTHER -> b.pending

\* bridgeTerminalCall.observe: frames of an MCP call are kept until the end.
Observe(calls, f) ==
  CASE f.kind = "started" -> [calls EXCEPT ![f.call].started = TRUE]
    [] f.kind = "terminal" -> [calls EXCEPT ![f.call].terminals = @ \cup {f.outcome}]
    [] OTHER -> calls
OrderAfter(b, f) ==
  IF f.kind \in {"started", "terminal"} /\ b.calls[f.call] = NoCall
  THEN Append(b.order, f.call) ELSE b.order

\* bridgeTerminalCall.reconcile: one record for every call.
ReconcileLast(c, calls) ==
  <<Fact(c, IF calls[c].terminals = {} THEN "unknown"
            ELSE CHOOSE o \in calls[c].terminals : TRUE)>>
Reconcile(c, calls) ==
  LET said == calls[c].terminals IN
  CASE said = {} -> <<Fact(c, "unknown"), Reject("missing_terminal")>>
    [] Cardinality(said) = 1 -> <<Fact(c, CHOOSE o \in said : TRUE)>>
    [] OTHER -> <<Fact(c, "unknown"), Reject("contradictory_terminal")>>

-----------------------------------------------------------------------------
\* ServeHTTP starts a bridge on the body of the request.  A stream is sent once
\* more when it was answered and the bridge of the last time has returned.
Connect(s) ==
  /\ handler[s].at \in {"waiting", "answered"} /\ bridge[s].at = "idle"
  /\ connections < MaxStream /\ connections' = connections + 1
  /\ handler' = [handler EXCEPT ![s] = [at |-> "serving", answer |-> NoAnswerYet]]
  /\ bridge' = [bridge EXCEPT ![s] =
       [NewBridge EXCEPT !.at = "reading", !.lifecycle = "connected"]]
  /\ UNCHANGED <<delivered, sourceRow>>

AwaitsFrame(s) == bridge[s].at = "reading" /\ bridge[s].emit = <<>> /\ bridge[s].ends = "none"
Change(s, b) == bridge' = [bridge EXCEPT ![s] = b] /\ UNCHANGED <<handler, delivered, sourceRow, connections>>

\* One turn of Connect's loop: the context, the limit, the frame.
ReadFrame(s) ==
  LET b == bridge[s] IN
  /\ AwaitsFrame(s) /\ b.next \in DOMAIN Frames[s]
  /\ LET f == Frames[s][b.next] IN
     Change(s,
       IF b.context # "live" THEN [b EXCEPT !.ends = "cancelled", !.lifecycle = "degraded"]
       ELSE IF b.next > MaxFrames
       THEN [b EXCEPT !.ends = "stream", !.emit = <<Reject("frame_limit_exceeded")>>]
       ELSE [b EXCEPT !.next = @ + 1, !.emit = FrameRecords(b, f), !.pending = PendingAfter(b, f),
                      !.calls = Observe(@, f), !.order = OrderAfter(b, f)])

\* The body ends.
EndOfStream(s) ==
  /\ AwaitsFrame(s) /\ bridge[s].next \notin DOMAIN Frames[s]
  /\ Change(s, [bridge[s] EXCEPT !.ends = "ok"])

\* Then the calls are reconciled one by one, in the order they were first seen.
ReconcileCall(s) == LET b == bridge[s] IN
  /\ b.at = "reading" /\ b.ends = "ok" /\ b.emit = <<>> /\ b.order # <<>>
  /\ Change(s, [b EXCEPT !.emit = Reconcile(Head(b.order), b.calls), !.order = Tail(@)])

\* The connection breaks, or the handler has closed the body.
StreamBreaks(s) ==
  /\ AwaitsFrame(s)
  /\ Change(s, [bridge[s] EXCEPT !.ends = "stream",
                                 !.emit = <<Reject("frame_too_large_or_stream_error")>>])

\* Accept, Reject: the sink takes what was read.
Store(s) ==
  LET b == bridge[s]
      e == Head(b.emit) IN
  /\ b.at = "reading" /\ b.emit # <<>>
  /\ IF e.kind = "fact"
     THEN /\ delivered' = IF \E t \in delivered : t.id = <<s, e.id>> THEN delivered
                      ELSE delivered \cup {[id |-> <<s, e.id>>, outcome |-> e.outcome]}
          /\ bridge' = [bridge EXCEPT ![s].emit = Tail(@), ![s].accepted = @ + 1,
                                      ![s].lifecycle = "producing"]
     ELSE /\ bridge' = [bridge EXCEPT ![s].emit = Tail(@), ![s].rejected = @ + 1,
                                      ![s].lifecycle = "degraded"]
          /\ UNCHANGED delivered
  /\ UNCHANGED <<handler, sourceRow, connections>>

\* The Ingestor is at its capacity or cannot make the record durable, or finds
\* it invalid: nothing more of the stream is delivered.  The rejection that precedes
\* the end of a broken stream is not looked at.
SinkFails(s) ==
  LET b == bridge[s] IN
  /\ b.at = "reading" /\ b.emit # <<>>
  /\ \E why \in {"busy", "invalid"} :
       Change(s, [b EXCEPT !.emit = <<>>, !.ends = IF @ = "stream" THEN @ ELSE why,
                           !.lifecycle = IF Head(b.emit).kind = "fact" THEN "degraded" ELSE @])

\* Connect returns, and what it knew of the stream is gone; a stream without
\* rejections is reconciled.
ConnectReturns(s) ==
  LET b == bridge[s] IN
  /\ b.at = "reading" /\ b.emit = <<>> /\ b.ends # "none" /\ (b.ends = "ok" => b.order = <<>>)
  /\ Change(s, IF handler[s].at = "answered" THEN NewBridge
               ELSE [NewBridge EXCEPT !.at = "done", !.ends = b.ends, !.context = b.context,
                       !.accepted = b.accepted, !.rejected = b.rejected,
                       !.lifecycle = IF b.ends = "ok" /\ b.rejected = 0 THEN "reconciled"
                                     ELSE b.lifecycle])

-----------------------------------------------------------------------------
\* errorClass and its status, 503 standing for 429 too; an ended context is a
\* timeout or a client that has gone.
StatusOf(why) ==
  CASE why = "deadline" -> 408 [] why = "busy" -> 503 [] OTHER -> 422

\* persistSourceHealth: the time of the last success is never delivered back.
Persist(state, value) ==
  sourceRow' = [state |-> state, value |-> value,
                succeeded |-> sourceRow.succeeded \/ state = "producing"]

\* ServeHTTP answers an error, with what the bridge has accepted by now; the
\* update of the row is not looked at, and cannot be made without a client.
AnswerError(s, why) ==
  /\ handler' = [handler EXCEPT ![s].at = "answered", ![s].answer.status = StatusOf(why)]
  /\ \/ /\ bridge[s].context # "gone"
        /\ Persist("degraded", IF bridge[s].accepted > 0 THEN "observed" ELSE "unknown")
     \/ UNCHANGED sourceRow
  /\ UNCHANGED <<delivered, connections>>

StateOf(b) == IF b.rejected > 0 THEN "degraded"
              ELSE IF b.accepted > 0 THEN "producing" ELSE "configured"
ValueOf(b) == IF b.accepted > 0 THEN "observed"
              ELSE IF b.rejected > 0 THEN "unknown" ELSE "not_observed"

AnswerOk(s) ==
  LET b == bridge[s] IN
  /\ \/ /\ b.context # "gone"
        /\ Persist(StateOf(b), ValueOf(b))
        /\ handler' = [handler EXCEPT ![s].at = "answered", ![s].answer =
             [status |-> 200, rejected |-> b.rejected, lifecycle |-> b.lifecycle]]
     \/ /\ handler' = [handler EXCEPT ![s].at = "answered", ![s].answer.status = 503]
        /\ UNCHANGED sourceRow
  /\ UNCHANGED <<delivered, connections>>

\* The select of ServeHTTP: the bridge has returned, or its context has ended
\* and the bridge is left to itself.
AnswerResult(s) ==
  /\ handler[s].at = "serving" /\ bridge[s].at = "done"
  /\ IF bridge[s].ends = "ok" THEN AnswerOk(s)
     ELSE AnswerError(s, IF bridge[s].ends = "cancelled" THEN bridge[s].context ELSE bridge[s].ends)
  /\ bridge' = [bridge EXCEPT ![s] = NewBridge]
AnswerWhenReturned(s) ==
  /\ handler[s].at = "serving" /\ bridge[s].at = "done" /\ bridge[s].context # "live"
  /\ AnswerError(s, bridge[s].context) /\ bridge' = [bridge EXCEPT ![s] = NewBridge]
AnswerContext(s) ==
  /\ handler[s].at = "serving" /\ bridge[s].context # "live"
  /\ AnswerError(s, bridge[s].context)
  /\ bridge' = [bridge EXCEPT ![s] = IF @.at = "done" THEN NewBridge ELSE @]

\* ConnectTimeout passes, or the client goes away.
ContextEnds(s, how) ==
  /\ handler[s].at = "serving" /\ bridge[s].context = "live"
  /\ bridge' = [bridge EXCEPT ![s].context = how]
  /\ UNCHANGED <<handler, delivered, sourceRow, connections>>

StreamNext == \E s \in Stream :
  \/ Connect(s) \/ ReadFrame(s) \/ EndOfStream(s) \/ ReconcileCall(s) \/ StreamBreaks(s)
  \/ Store(s) \/ SinkFails(s) \/ ConnectReturns(s)
  \/ AnswerResult(s) \/ AnswerContext(s)
  \/ \E how \in {"deadline", "gone"} : ContextEnds(s, how)

-----------------------------------------------------------------------------
Lifecycles == {"discovered", "connected", "producing", "degraded", "reconciled"}
StreamTypeOK ==
  /\ \A s \in Stream :
       /\ handler[s].at \in {"waiting", "serving", "answered"}
       /\ handler[s].answer.status \in {0, 200, 408, 422, 503}
       /\ bridge[s].at \in {"idle", "reading", "done"} /\ bridge[s].lifecycle \in Lifecycles
       /\ Cardinality(bridge[s].pending) <= MaxPending
  /\ sourceRow.state \in {"configured", "producing", "degraded"}
  /\ sourceRow.value \in {"not_observed", "unknown", "observed"}

FramesOf(s, kinds) == {Frames[s][i] : i \in {j \in DOMAIN Frames[s] : Frames[s][j].kind \in kinds}}
CallsOf(s) == {f.call : f \in FramesOf(s, {"started", "terminal"})}
Terminals(s, c) == {f.outcome : f \in {g \in FramesOf(s, {"terminal"}) : g.call = c}}

\* 200 without a rejection: every MCP call the stream names has its one fact,
\* and every call has ended in exactly one way, whatever was stored before.
CompleteIsComplete == \A s \in Stream :
  handler[s].answer.status = 200 /\ handler[s].answer.rejected = 0 =>
    /\ handler[s].answer.lifecycle = "reconciled"
    /\ \A c \in CallsOf(s) : /\ Cardinality(Terminals(s, c)) = 1
                             /\ \E t \in delivered : t.id = <<s, c>>

\* A call has one fact, however often its stream is sent, breaks off or is
\* given up; and the fact names an outcome only when the frames agree on it.
OutcomesAreEarned ==
  /\ \A t, u \in delivered : t.id = u.id => t = u
  /\ \A t \in delivered : t.outcome # "unknown" =>
       t.outcome \in Outcomes /\ Terminals(t.id[1], t.id[2]) = {t.outcome}

\* The row calls the source producing only after an answer that told a client
\* so, and one degraded stream never hides that there was a success.
RowFollowsAnswers ==
  /\ sourceRow.state = "producing" => sourceRow.succeeded /\ sourceRow.value = "observed"
  /\ sourceRow.succeeded => delivered # {}

\* What the answer to a stream says is true of the facts and of the row.
StreamAnswersAreTrue == CompleteIsComplete /\ OutcomesAreEarned /\ RowFollowsAnswers

\* Every stream that is sent is answered, though its client never ends it.
StreamsAnswered == <>[](\A s \in Stream : handler[s].at # "serving")
=============================================================================
