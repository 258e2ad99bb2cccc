------------------------------- MODULE MCFacts -------------------------------
(***************************************************************************)
(* How facts are made and kept: the App Server streams that yield them,    *)
(* the hand-over to the database with its receipts and the pool, and the   *)
(* components an observation is about, with the scan of the host that      *)
(* finds them and the pages that show them.  But for the pages and the     *)
(* components, they share no state, so a behaviour follows one of them     *)
(* (focus).                                                                *)
(***************************************************************************)
EXTENDS FactHandoff, Observatory, AppServerStream, HostScan, TLC

VARIABLE focus

vars == <<focus, factVars, inventoryVars, observatoryVars, streamVars, scanVars>>

\* Two sources report one call of an MCP tool; the second may have a receipt
\* from before inputs were kept.
ToolEvidence == [e \in 1 .. 2 |-> [event |-> "call", type |-> "mcp.called"]]

\* A plugin with a skill, and a second component that answers to its name.
SkillComponents == [c \in {"plugin", "skill", "copy"} |->
  CASE c = "plugin" -> [kind |-> "plugin", name |-> "p", qualified |-> "p", scope |-> "user", plugin |-> None]
    [] c = "skill"  -> [kind |-> "skill", name |-> "x", qualified |-> "p:x", scope |-> "user", plugin |-> "plugin"]
    [] c = "copy"   -> [kind |-> "skill", name |-> "x", qualified |-> "p:x", scope |-> "cache", plugin |-> None]]

\* The copy is only cached at first, then seen by a partial scan, and at last
\* it is the only one.
Scans == [s \in {"first", "partial", "last"} |->
  CASE s = "first"   -> [at |-> 1, complete |-> TRUE, nodes |-> DOMAIN SkillComponents,
                         cached |-> {"copy"}]
    [] s = "partial" -> [at |-> 2, complete |-> FALSE, nodes |-> {"copy"}, cached |-> {}]
    [] s = "last"    -> [at |-> 3, complete |-> TRUE, nodes |-> {"plugin", "copy"}, cached |-> {}]]

SkillEnabled == [s \in DOMAIN Scans |-> Scans[s].nodes \ Scans[s].cached]

SkillUses == [u \in {"invoked", "redacted", "exposed"} |->
  CASE u = "invoked"  -> [kind |-> "skill", name |-> "x", qualified |-> "p:x", scope |-> None,
                          stage |-> u, at |-> 1]
    [] u = "redacted" -> [kind |-> "skill", name |-> None, qualified |-> None, scope |-> "strange",
                          stage |-> "requested", at |-> 1]
    [] u = "exposed"  -> [kind |-> "skill", name |-> "x", qualified |-> None, scope |-> "user",
                          stage |-> u, at |-> 2, complete |-> TRUE]]

\* The hour of the use, the hour after, and both.
Hours == {[from |-> 1, to |-> 2], [from |-> 2, to |-> 3], [from |-> 1, to |-> 3]}

Payloads == [q \in {"payload"} |-> [key |-> "hour", incident |-> "schema"]]

\* Streams: a plugin and the skills are read, with one request and one frame too
\* many; a call ends; one ends twice, one does not, and a frame is bad.
Ends(c, how) == [kind |-> "terminal", call |-> c, outcome |-> how]
Asks(n) == [kind |-> "request", id |-> n]
ClientStreams == <<
  <<Asks(1), Asks(2), [kind |-> "response", id |-> 1, valid |-> TRUE, says |-> "plugin",
                       installed |-> TRUE, enabled |-> FALSE, child |-> TRUE],
    Asks(1), [kind |-> "response", id |-> 1, valid |-> TRUE, says |-> "skills"], [kind |-> "other"]>>,
  <<[kind |-> "started", call |-> "c"], Ends("c", "failed"), [kind |-> "skill"]>>,
  <<Ends("c", "failed"), Ends("c", "succeeded"), [kind |-> "started", call |-> "d"], [kind |-> "bad"]>> >>

\* Hosts: what stands at a path, and what a user may put there.
File(name) == [link |-> "no", is |-> "file", name |-> name]
NoFile == [link |-> "no", is |-> "absent", name |-> ""]
Dir(entries) == [link |-> "no", is |-> "dir", entries |-> entries]
NoDir == [link |-> "no", is |-> "absent", entries |-> <<>>]
Holds(type, file) == [type |-> type, file |-> file]
Config(plugins, servers) == [link |-> "no", is |-> "file", parses |-> TRUE, twice |-> "no",
                             plugins |-> plugins, servers |-> servers]
Nothing == [x \in {} |-> TRUE]
Full == Config("p" :> TRUE, "s" :> TRUE)
HostConfigs == {Full, Config("p" :> FALSE, Nothing), [Full EXCEPT !.link = "outside"],
  [Full EXCEPT !.parses = FALSE], [Full EXCEPT !.is = "absent"], [Full EXCEPT !.is = "big"],
  [Full EXCEPT !.twice = "plugin"], [Full EXCEPT !.twice = "server"]}
OneSkill == Dir("a" :> Holds("dir", File("a")))
HostRoots == {OneSkill,
  Dir(("a" :> Holds("dir", File("a"))) @@ ("b" :> Holds("link", NoFile))),
  Dir(("a" :> Holds("dir", File("a"))) @@ ("b" :> Holds("dir", File("")))),
  Dir("a" :> Holds("dir", [File("a") EXCEPT !.is = "big"])),
  Dir("a" :> Holds("dir", File("user"))), [OneSkill EXCEPT !.link = "outside"]}
Bundle(skills, agents, hooks, mcp) ==
  [type |-> "dir", skills |-> skills, agents |-> agents, hooks |-> hooks, mcp |-> mcp]
Plain == Bundle(OneSkill, NoDir, NoFile, NoFile)
Rich == Bundle(NoDir, Dir("c" :> Holds("file", File(""))), File("h"), File("t"))
Broken == Bundle(Dir("a" :> Holds("dir", [File("a") EXCEPT !.is = "dir"])), NoDir, File(""), NoFile)
Cached(versions) == Dir("p" :> [type |-> "dir", dir |-> Dir(versions)])
HostCaches == {Cached(1 :> Plain), Cached((1 :> Plain) @@ (2 :> Plain)),
  Cached([v \in 1 .. 3 |-> Plain]), Cached(1 :> Rich), Cached(1 :> Broken),
  [Cached(1 :> Plain) EXCEPT !.link = "outside"],
  Dir("p" :> [type |-> "link", dir |-> [Dir(1 :> Plain) EXCEPT !.link = "outside"]]), NoDir}
HostPointers == {Nothing, "p" :> 1, "p" :> 2}
Before == [mounted |-> "there", profiles |-> Dir(2 :> [type |-> "dir"]),
  config |-> [h \in Home |-> IF h = 1 THEN Full ELSE [Full EXCEPT !.is = "absent"]],
  roots |-> [r \in {"user", "personal"} |-> OneSkill],
  cache |-> [h \in Home |-> Cached(1 :> Plain)], active |-> Nothing]

\* Where no host is scanned.
NoTarget == /\ agent = "codex" /\ host = <<>> /\ scan = NoScan /\ edits = 0
            /\ row = [state |-> "none", snapshot |-> NoSnapshot]

Init ==
  /\ focus \in {"handoff", "inventory", "pages", "stream", "scan"}
  /\ FactInit /\ InventoryInit /\ ObservatoryInit /\ StreamInit
  /\ IF focus = "scan" THEN ScanInit ELSE NoTarget
  /\ focus = "handoff" \/ (\A e \in DOMAIN seen : seen[e] = 0)

\* What pages are about: each use once, and the scans.
StoredOnce ==
  \/ \E u \in Uses : /\ Use[u].stage \in {"invoked", "exposed"}
                     /\ (handed[u] = 0 /\ Resolve(u)) \/ PersistLifecycle(u)
  \/ \E s \in DOMAIN Snapshot : PersistSnapshot(s)

Next ==
  /\ UNCHANGED focus
  /\ IF focus = "handoff" THEN FactNext ELSE UNCHANGED factVars
  /\ CASE focus = "inventory" -> InventoryNext /\ UNCHANGED observatoryVars
       [] focus = "pages"     -> \/ StoredOnce /\ UNCHANGED observatoryVars
                                 \/ ObservatoryNext /\ UNCHANGED inventoryVars
       [] OTHER               -> UNCHANGED <<inventoryVars, observatoryVars>>
  /\ IF focus = "stream" THEN StreamNext ELSE UNCHANGED streamVars
  /\ IF focus = "scan" THEN ScanNext ELSE UNCHANGED scanVars

\* The collector's ticker stores a snapshot of its target again and again; the
\* timer of a stream fires, and its handler answers.
Served(action) ==
  focus = "stream" /\ action /\ UNCHANGED <<focus, factVars, inventoryVars, observatoryVars, scanVars>>
Spec ==
  /\ Init /\ [][Next]_vars
  /\ WF_vars(focus \in {"inventory", "pages"} /\ SnapshotStored
               /\ UNCHANGED <<focus, factVars, observatoryVars, streamVars, scanVars>>)
  /\ \A s \in Stream : /\ WF_vars(Served(ContextEnds(s, "deadline")))
                       /\ WF_vars(Served(AnswerResult(s)))
                       /\ WF_vars(Served(AnswerContext(s)))

\* The parts keep their types.
FactsTypeOK == FactTypeOK /\ InventoryTypeOK /\ ObservatoryTypeOK /\ StreamTypeOK /\ ScanTypeOK

\* The components shown are those that are there: a scan is true to its host,
\* the projections are true to the scans they were given, and the pages to those.
InventoryIsTrue == ScanHolds /\ ProjectionsAgree /\ ObservatoryHolds
=============================================================================
