------------------------------ MODULE McpEvidence ------------------------------
(***************************************************************************)
(* Evidence of MCP servers, their tools and calls: the mcp-evidence        *)
(* command that stores a stream of frames, and the pages that show them    *)
(* (cmd/kansoku/main.go; internal/dataplatform/mcp_evidence.go and         *)
(* mcp_observatory.go; internal/runtime/api_mcp_observatory.go).           *)
(*                                                                         *)
(* A frame is stored by several statements, and the command ends at the    *)
(* first frame it cannot store: whoever runs it sends the stream again,    *)
(* perhaps while an earlier run still goes on.  A page is several          *)
(* statements too.                                                         *)
(***************************************************************************)
EXTENDS Integers, Sequences, FiniteSets

CONSTANTS
  McpStream,    \* the streams of frames an operator may send
  Runner,       \* runs of the command at a time
  ToolOwner,    \* plugins the inventory may say bundle a tool
  MaxSent, MaxPage, NoTool

\* A stream is a sequence of frames.
ASSUME McpAssumption == \A frames \in McpStream : frames \in Seq({frames[i] : i \in DOMAIN frames})

VARIABLES
  kept,         \* frames in the mcp tables
  named,        \* [servers, tools]: components and their relations
  credited,     \* child activity: <<idempotency key, plugin>>
  running,      \* per runner: [at, frames, next]
  reconciled,   \* streams a run called reconciled
  page,         \* the page being served: [at, server, tool, row, tools, outcomes, ofTool]
  sent, pages   \* runs and pages so far

mcpVars == <<kept, named, credited, running, reconciled, page, sent, pages>>

Off == [at |-> "off", frames |-> <<>>, next |-> 1]
NoCounts == [started |-> {}, ended |-> {}]
NoPage == [at |-> "idle", server |-> NoTool, tool |-> NoTool, row |-> NoCounts,
           tools |-> {}, outcomes |-> NoCounts, ofTool |-> NoCounts]

McpInit ==
  /\ kept = {} /\ named = [servers |-> {}, tools |-> {}] /\ credited = {}
  /\ running = [r \in Runner |-> Off] /\ reconciled = {} /\ page = NoPage
  /\ sent = 0 /\ pages = 0

-----------------------------------------------------------------------------
Frame(r) == running[r].frames[running[r].next]
Goes(r, at) == running' = [running EXCEPT ![r].at = at]

SendStream(r, frames) ==
  /\ running[r].at = "off" /\ sent < MaxSent /\ sent' = sent + 1
  /\ running' = [running EXCEPT ![r] = [at |-> "reading", frames |-> frames, next |-> 1]]
  /\ UNCHANGED <<kept, named, credited, reconciled, page, pages>>

\* The end of the stream, or a line that is no frame or names no valid identity.
ScanFrame(r) ==
  /\ running[r].at = "reading"
  /\ IF running[r].next > Len(running[r].frames)
     THEN Goes(r, "off") /\ reconciled' = reconciled \cup {running[r].frames}
     ELSE Goes(r, IF Frame(r).ok = "identity" THEN "off" ELSE "valid") /\ UNCHANGED reconciled
  /\ UNCHANGED <<kept, named, credited, page, sent, pages>>

\* EnsureDimensions and the server's name.
NameServer(r) ==
  /\ running[r].at = "valid" /\ Goes(r, "named")
  /\ named' = [named EXCEPT !.servers = @ \cup {Frame(r).server}]
  /\ UNCHANGED <<kept, credited, reconciled, page, sent, pages>>

LinkTool(r) ==
  /\ running[r].at = "named" /\ Goes(r, "linked")
  /\ named' = [named EXCEPT !.tools =
       IF Frame(r).tool = NoTool THEN @ ELSE @ \cup {<<Frame(r).server, Frame(r).tool>>}]
  /\ UNCHANGED <<kept, credited, reconciled, page, sent, pages>>

\* ON CONFLICT (source_instance_id, idempotency_key) DO NOTHING, per table.
IsStored(f) == \E g \in kept : g.kind = f.kind /\ g.key = f.key

\* persistPluginChildActivity: exactly one plugin owns the tool, or nothing.
Credit(f) == \E owners \in SUBSET ToolOwner :
  credited' = credited \cup (IF Cardinality(owners) = 1 THEN {<<f.key, CHOOSE p \in owners : TRUE>>}
                             ELSE {})
Insert(f) == kept' = IF IsStored(f) THEN kept ELSE kept \cup {f}

PersistFrameCreditsAgain(r) == LET f == Frame(r) IN
  /\ running[r].at = "linked" /\ f.ok = "yes" /\ Insert(f)
  /\ IF f.kind = "call" THEN Credit(f) ELSE UNCHANGED credited
  /\ running' = [running EXCEPT ![r].at = "reading", ![r].next = @ + 1]
  /\ UNCHANGED <<named, reconciled, page, sent, pages>>

\* The frame's own table, and with a call that is new, in its transaction, the
\* activity of the plugin that owns the tool.
PersistFrame(r) == LET f == Frame(r) IN
  /\ running[r].at = "linked" /\ f.ok = "yes" /\ Insert(f)
  /\ IF f.kind = "call" /\ ~IsStored(f) THEN Credit(f) ELSE UNCHANGED credited
  /\ running' = [running EXCEPT ![r].at = "reading", ![r].next = @ + 1]
  /\ UNCHANGED <<named, reconciled, page, sent, pages>>

\* A frame whose contents are refused when its component is there already, or
\* any error: the run ends, with what earlier frames and statements kept.
RunEnds(r) ==
  /\ running[r].at # "off" /\ running' = [running EXCEPT ![r] = Off]
  /\ UNCHANGED <<kept, named, credited, reconciled, page, sent, pages>>

-----------------------------------------------------------------------------
OfKind(kind, server) == {f \in kept : f.kind = kind /\ f.server = server}
Ending == {"completed", "execution_error", "protocol_error", "cancelled", "timed_out",
           "transport_lost", "incomplete"}
CallsIn(frames, states) == {f.call : f \in {g \in frames : g.state \in states}}

CountsUnstarted(frames) ==
  [started |-> CallsIn(frames, {"started"}), ended |-> CallsIn(frames, Ending)]

\* Terminals count only with the start of the same call.
Counts(frames) ==
  [started |-> CallsIn(frames, {"started"}),
   ended   |-> CallsIn(frames, Ending) \cap CallsIn(frames, {"started"})]

\* MCPObservatory: a server is listed once it was observed itself.
Listed == {f.server : f \in {g \in kept : g.kind = "server"}}

ReadServers(server, tool) ==
  /\ page.at = "idle" /\ pages < MaxPage /\ pages' = pages + 1
  /\ page' = IF server \notin Listed THEN NoPage
             ELSE [NoPage EXCEPT !.at = "listed", !.server = server, !.tool = tool,
                                 !.row = Counts(OfKind("call", server))]
  /\ UNCHANGED <<kept, named, credited, running, reconciled, sent>>

\* MCPServerProfile goes on over a connection of its own: the tools, then the
\* outcomes.
ReadPrimitives ==
  /\ page.at = "listed"
  /\ page' = [page EXCEPT !.at = "primitives", !.tools = {f.tool : f \in OfKind("primitive", page.server)}]
  /\ UNCHANGED <<kept, named, credited, running, reconciled, sent, pages>>

ReadOutcomes == LET calls == OfKind("call", page.server) IN
  /\ page.at = "primitives"
  /\ page' = [page EXCEPT
       !.outcomes = [started |-> CallsIn(calls, {"started"}), ended |-> CallsIn(calls, Ending)],
       !.at = IF page.tool \in page.tools THEN "profile" ELSE "answered"]
  /\ UNCHANGED <<kept, named, credited, running, reconciled, sent, pages>>

\* MCPToolProfile: the calls of one tool.
ReadTool ==
  /\ page.at = "profile"
  /\ page' = [page EXCEPT !.at = "answered",
       !.ofTool = Counts({f \in OfKind("call", page.server) : f.tool = page.tool})]
  /\ UNCHANGED <<kept, named, credited, running, reconciled, sent, pages>>

\* The answer, or an error at any statement.
PageEnds ==
  /\ page.at # "idle" /\ page' = NoPage
  /\ UNCHANGED <<kept, named, credited, running, reconciled, sent, pages>>

McpNext ==
  \/ \E r \in Runner : \/ \E frames \in McpStream : SendStream(r, frames)
                       \/ ScanFrame(r) \/ NameServer(r) \/ LinkTool(r) \/ PersistFrame(r)
                       \/ RunEnds(r)
  \/ \E s \in named.servers : \E t \in {f.tool : f \in OfKind("primitive", s)} \cup {NoTool} :
       ReadServers(s, t)
  \/ ReadPrimitives \/ ReadOutcomes \/ ReadTool \/ PageEnds

-----------------------------------------------------------------------------
McpTypeOK ==
  /\ \A r \in Runner : running[r].at \in {"off", "reading", "valid", "named", "linked"}
  /\ \A f \in kept : f.server \in named.servers
  /\ page.at \in {"idle", "listed", "primitives", "profile", "answered"}

\* A run that says "reconciled" says it of all its frames, whatever earlier runs
\* of the stream left behind and others did meanwhile.
ReconciledIsStored == \A frames \in reconciled : \A i \in DOMAIN frames : IsStored(frames[i])

\* A call is the activity of one plugin at most, although it is sent again after
\* the tool has moved to another one, or by two runs at once.
CallsHaveOneOwner == \A c \in credited :
  /\ \E f \in kept : f.kind = "call" /\ f.key = c[1]
  /\ \A d \in credited : c[1] = d[1] => c = d

\* A page never has more ends than starts, and its outcomes, read later, know
\* every call its row counts, in whatever order the frames come in.
McpPagesAgree ==
  /\ page.row.ended \subseteq page.row.started
  /\ page.ofTool.ended \subseteq page.ofTool.started
  /\ page.at \in {"profile", "answered"} =>
       /\ page.row.started \subseteq page.outcomes.started
       /\ page.row.ended \subseteq page.outcomes.ended

McpHolds == ReconciledIsStored /\ CallsHaveOneOwner /\ McpPagesAgree
=============================================================================
