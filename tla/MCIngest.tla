------------------------------- MODULE MCIngest -------------------------------
(***************************************************************************)
(* The ways in which observations enter: the receivers, the Ingestor with  *)
(* its compact state and importer, the watcher of Codex sessions, and the  *)
(* command that stores evidence of MCP calls, with its pages; and the      *)
(* counters of what was rejected.  They share no state, so a behaviour     *)
(* follows one of them (focus).                                            *)
(***************************************************************************)
EXTENDS IngestState, RolloutWatcher, Receivers, McpEvidence, IngestionHealth

VARIABLE focus

vars == <<focus, ingestVars, rolloutVars, receiverVars, mcpVars, healthVars>>

\* Session files: one with every kind of line, one that begins in an unknown
\* format, one whose read has no call; and one that sorts after them.
SessionScripts == <<
  {<<"meta", "marker", "strange", "call", "output">>, <<"strange", "marker">>,
   <<"meta", "output", "marker">>},
  {<<"meta", "strange">>} >>

Says(from, name, keys) == [from |-> from, name |-> name, keys |-> keys]
ClientRequests == [c \in 1 .. 4 |->
  CASE c = 1 -> [lane |-> "log", records |->
         <<Says("codex", "sse", {"session"}), Says("other", "x", {}),
           Says("claude", "plugin", {"session", "owner"}), Says("codex", "start", {})>>]
    [] c = 2 -> [lane |-> "batch", records |->
         <<Says("codex", "start", {"session"}), Says("codex", "start", {})>>]
    [] c = 3 -> [lane |-> "metric", records |->
         <<Says("fixture", "x", {"id", "session", "type"}),
           Says("claude", "token.usage", {"points", "value"})>>]
    [] c = 4 -> [lane |-> "hook", records |-> <<Says("claude", "tool_result", {"session"})>>]]

\* Frames: a server, its tool and the start of a call; its end before the start
\* of another call that has one already, and a frame refused in its contents.
McpFrame(kind, key, tool, of, state) ==
  [kind |-> kind, server |-> "s", key |-> key, tool |-> tool, call |-> of, state |-> state, ok |-> "yes"]
ServerFrame == McpFrame("server", 1, NoTool, 0, NoTool)
Starts(key, of) == McpFrame("call", key, "t", of, "started")
McpStreams == {
  <<ServerFrame, McpFrame("primitive", 2, "t", 0, NoTool), Starts(3, 1), McpFrame("call", 4, "t", 1, "completed")>>,
  <<McpFrame("call", 5, "t", 2, "timed_out"), Starts(6, 2), [ServerFrame EXCEPT !.ok = "content"]>>}

Init ==
  /\ focus \in {"state", "rollout", "receivers", "mcp", "counters"}
  /\ IngestInit /\ ReceiverInit /\ McpInit /\ HealthRowsInit
  /\ RolloutInit
  /\ focus = "rollout" \/ (\A p \in Path : lines[p] = 0
                             /\ script[p] = CHOOSE s \in Scripts[p] : TRUE)

Next ==
  /\ UNCHANGED focus
  /\ \/ /\ focus = "state" /\ IngestNext
        /\ UNCHANGED <<rolloutVars, receiverVars, mcpVars, healthVars>>
     \/ /\ focus = "rollout" /\ RolloutNext
        /\ UNCHANGED <<ingestVars, receiverVars, mcpVars, healthVars>>
     \/ /\ focus = "receivers" /\ ReceiverNext
        /\ UNCHANGED <<ingestVars, rolloutVars, mcpVars, healthVars>>
     \/ /\ focus = "mcp" /\ McpNext
        /\ UNCHANGED <<ingestVars, rolloutVars, receiverVars, healthVars>>
     \/ /\ focus = "counters" /\ HealthRowsNext
        /\ UNCHANGED <<ingestVars, rolloutVars, receiverVars, mcpVars>>

\* The watcher's ticker fires and a scan goes on.
Spec ==
  /\ Init /\ [][Next]_vars
  /\ WF_vars(focus = "rollout" /\ ScanStep /\ UNCHANGED <<focus, ingestVars, receiverVars, mcpVars, healthVars>>)

\* Every part keeps its types, and the Ingestor its capacity.
IngressTypeOK == IngestTypeOK /\ RolloutTypeOK /\ ReceiverTypeOK /\ McpTypeOK
                 /\ HealthRowsTypeOK

\* Whatever is sent again, a sender is told the truth: an answer of a receiver, a
\* stream called reconciled, a page of MCP calls and the counters of rejections
\* say what is stored, once.
EvidenceIsTrue == AnswersAreTrue /\ McpHolds /\ CountersAreTrue

\* Every line written to a session file is consumed in the end, unless a file
\* that sorts before it has no session metadata, which ends every scan.
SessionsAreConsumed == focus = "rollout" => LinesAreConsumed
=============================================================================
