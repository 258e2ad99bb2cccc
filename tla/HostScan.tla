------------------------------- MODULE HostScan -------------------------------
(***************************************************************************)
(* One inventory scan of an agent's state root                             *)
(* (internal/adaptersdk/hostview.go, internal/codexadapter and             *)
(* internal/claudeadapter: inventoryscan.go, pluginbundlescan.go,          *)
(* inventory.go, stage2_stub.go; internal/runtime/inventory.go).           *)
(*                                                                         *)
(* A scan reads the configuration, the skill roots and the plugin cache    *)
(* one after the other while the user edits them, and turns what it could  *)
(* read into a graph, what it could not into coverage gaps.  Codex gives   *)
(* up the whole scan where Claude notes a gap and goes on.                 *)
(*                                                                         *)
(* A file or directory is a record: link says whether it is a symbolic     *)
(* link and where it leads, is what stands there.  One skill root stands   *)
(* for the documented ones, one marketplace for all.                       *)
(***************************************************************************)
EXTENDS Integers, Sequences, FiniteSets

CONSTANTS
  Agent,         \* the adapters a target may have: "codex", "claude"
  Home,          \* CODEX_HOME and its profiles, numbered; Claude has the first only
  HomeHost,      \* the host before any edit
  Configs,       \* configuration files a home may have
  SkillRoots,    \* directories of skills
  Caches,        \* plugin caches
  Pointers,      \* installed_plugins.json: [plugin -> version]
  MaxVersions,   \* versions read of one plugin
  MaxCached,     \* Codex: versions read in all
  Reserved,      \* names of Claude's scope directories
  Nameless,      \* of a manifest without a name
  MaxEdits

\* A directory lists what is there: finitely many files, directories and links,
\* versions by their number.
IsDirectory(o) == o.is = "dir" =>
  /\ IsFiniteSet(DOMAIN o.entries)
  /\ \A e \in DOMAIN o.entries : o.entries[e].type \in {"dir", "file", "link"}
IsCache(c) == /\ IsDirectory(c)
              /\ c.is = "dir" => \A p \in DOMAIN c.entries : LET dir == c.entries[p].dir IN
                   /\ IsDirectory(dir)
                   /\ dir.is = "dir" => /\ DOMAIN dir.entries \subseteq Nat \ {0}
                                        /\ \A v \in DOMAIN dir.entries : IsDirectory(dir.entries[v].skills)

\* What a user may make of the host; the profiles stay.
Hosts == [mounted : {"there", "absent", "refused"}, profiles : {HomeHost.profiles},
          config : [Home -> Configs], roots : [{"user", "personal"} -> SkillRoots],
          cache : [Home -> Caches], active : Pointers]

\* The homes are CODEX_HOME and the profiles in it.
ASSUME ScanAssumption ==
  /\ Agent \subseteq {"codex", "claude"} /\ HomeHost \in Hosts
  /\ {MaxVersions, MaxCached} \subseteq Nat
  /\ IsFiniteSet(Home) /\ Home = 1 .. Cardinality(Home)
  /\ {1} \cup (IF HomeHost.profiles.is = "dir"
              THEN {e \in DOMAIN HomeHost.profiles.entries : HomeHost.profiles.entries[e].type = "dir"}
              ELSE {}) = Home
  /\ \A root \in SkillRoots : IsDirectory(root)
  /\ \A c \in Caches : IsCache(c)

VARIABLES
  agent,   \* the target's adapter
  host,    \* [mounted, config, roots, cache, active]
  scan,    \* the scan that runs, or the last one
  row,     \* inventory_collection_status: [state, snapshot, counts as reported]
  edits

scanVars == <<agent, host, scan, row, edits>>

Homes == IF agent = "codex" THEN Home ELSE {1}
NoSnapshot == {}

-----------------------------------------------------------------------------
(* HostView *)

\* withinAllowedRoots, of a path and of the target of its link.
Allowed(o) == o.link # "outside"

ReadProbe(o) ==
  IF ~Allowed(o) THEN "refused"
  ELSE IF o.is = "absent" THEN "absent" ELSE "there"

ReadConfigProbe(o) ==
  IF ~Allowed(o) THEN "refused"
  ELSE CASE o.is = "dir" -> "refused"
         [] o.is = "absent" -> "absent"
         [] o.is = "big" -> "truncated"
         [] OTHER -> "read"

\* "big" is a directory above the limit of entries; a missing one lists nothing.
ListDirectoryProbe(o) ==
  IF Allowed(o) /\ o.is \in {"dir", "absent"} THEN "listed" ELSE "refused"

Entries(o) == IF o.is = "dir" THEN DOMAIN o.entries ELSE {}

\* directoryNames: no link is followed.
DirectoryNames(o) == {e \in Entries(o) : o.entries[e].type = "dir"}

\* Claude takes a link for a directory as well.
Visible(o) == {e \in Entries(o) : o.entries[e].type # "file"}

-----------------------------------------------------------------------------
(* Skill roots and bundled children *)

\* rootGapClass: a link is what a container mounts without its target.
RootGapClass(o) ==
  IF o.link # "no" THEN "unresolvable_symlink" ELSE "unreadable_component_manifest"

Unreadable(o) == ReadProbe(o) = "refused"
                   \/ (ReadProbe(o) = "there" /\ ListDirectoryProbe(o) = "refused")

EntryGapClass(e) == IF e.type = "link" THEN "unresolvable_symlink"
                                       ELSE "unreadable_component_manifest"

SkillGapSkipped(e) ==
  IF ReadConfigProbe(e.file) = "refused" THEN {EntryGapClass(e)} ELSE {}

\* A missing manifest is a gap behind a link only, which is then dangling.
SkillGap(e) ==
  CASE ReadConfigProbe(e.file) = "refused" -> {EntryGapClass(e)}
    [] ReadConfigProbe(e.file) = "absent" /\ e.type = "link" -> {"unresolvable_symlink"}
    [] ReadConfigProbe(e.file) = "truncated" -> {"truncated_component_manifest"}
    [] ReadConfigProbe(e.file) = "read" /\ e.file.name = Nameless ->
         {"unparseable_component_manifest"}
    [] OTHER -> {}

Child(kind, name, at, enabled) == [kind |-> kind, name |-> name, at |-> at, enabled |-> enabled]

\* scanSkillRoot
SkillsIn(root, at) == IF Unreadable(root) THEN {} ELSE
  {Child("skill", root.entries[e].file.name, at \o <<e>>, TRUE) : e \in
     {e \in Visible(root) : ReadConfigProbe(root.entries[e].file) = "read"
                            /\ root.entries[e].file.name # Nameless}}

SkillRootGaps(root, at) ==
  IF Unreadable(root) THEN {<<RootGapClass(root), at>>}
  ELSE UNION {{<<g, at \o <<e>>>> : g \in SkillGap(root.entries[e])} : e \in Visible(root)}

\* scanBundledMarkdownRoot: agents and commands; the file's name stands in.
MarkdownIn(kind, root, at) == IF Unreadable(root) THEN {} ELSE
  {Child(kind, IF root.entries[e].file.name = Nameless THEN e ELSE root.entries[e].file.name,
         at \o <<e>>, TRUE) : e \in
     {e \in Entries(root) : root.entries[e].type # "dir"
                              /\ ReadConfigProbe(root.entries[e].file) = "read"}}

MarkdownGaps(root, at) ==
  IF Unreadable(root) THEN {<<RootGapClass(root), at>>}
  ELSE UNION {{<<g, at \o <<e>>>> :
                 g \in SkillGap(root.entries[e]) \ {"unparseable_component_manifest"}} :
              e \in {e \in Entries(root) : root.entries[e].type # "dir"}}

\* scanBundledHooks: never trusted, so never enabled.
HooksIn(o, at) == IF ReadConfigProbe(o) = "read" /\ o.name # Nameless
                  THEN {Child("hook", o.name, at, FALSE)} ELSE {}

\* scanBundledMCPServers
ServersIn(o, at) == IF ReadConfigProbe(o) = "read" /\ o.name # Nameless
                    THEN {Child("mcp", o.name, at, TRUE)} ELSE {}

DeclarationGaps(o, at) ==
  CASE ReadConfigProbe(o) = "refused" -> {<<"unreadable_component_manifest", at>>}
    [] ReadConfigProbe(o) = "truncated" -> {<<"truncated_component_manifest", at>>}
    [] ReadConfigProbe(o) = "read" /\ o.name = Nameless -> {<<"unparseable_component_manifest", at>>}
    [] OTHER -> {}

-----------------------------------------------------------------------------
(* Plugin caches: [plugin -> directory of versions], each with its contents *)

VersionsIn(dir, names) == {v \in names : ListDirectoryProbe(dir) = "listed"}
Lowest(S, n) == {x \in S : Cardinality({y \in S : y < x}) < n}

Candidate(h, p, v, children) ==
  [name |-> p, version |-> v, at |-> <<"cache", h, p, v>>, children |-> children]

\* scanCodexPluginCache and scanPluginSkillRoot: any failure, and any limit,
\* makes the walk incomplete.
CodexVersions(c) == UNION {{p} \X DirectoryNames(c.entries[p].dir) : p \in DirectoryNames(c)}

CodexSkillRootFails(root) ==
  \/ Unreadable(root)
  \/ \E e \in DirectoryNames(root) :
       ReadConfigProbe(root.entries[e].file) \in {"refused", "truncated"}

CodexCacheFails(c, left) ==
  \/ Unreadable(c)
  \/ \E p \in DirectoryNames(c) : LET dir == c.entries[p].dir IN
       \/ ListDirectoryProbe(dir) = "refused"
       \/ Cardinality(DirectoryNames(dir)) > MaxVersions
       \/ \E v \in DirectoryNames(dir) : CodexSkillRootFails(dir.entries[v].skills)
  \/ Cardinality(CodexVersions(c)) > left

CodexCandidates(c, h) ==
  {LET p == pv[1] v == pv[2] root == c.entries[p].dir.entries[v].skills IN
   Candidate(h, p, v, {s \in SkillsIn(root, <<"cache", h, p, v>>) :
                         root.entries[s.at[5]].type = "dir"}) : pv \in CodexVersions(c)}

\* scanPluginCache: what cannot be read is a gap, the versions above the limit
\* are left out.
ReadVersions(dir) == VersionsIn(dir, Lowest(Visible(dir), MaxVersions))
ClaudeVersions(c) == UNION {{p} \X ReadVersions(c.entries[p].dir) : p \in Visible(c)}

ClaudeChildren(at, b) ==
  SkillsIn(b.skills, at) \cup MarkdownIn("subagent", b.agents, at)
    \cup HooksIn(b.hooks, at) \cup ServersIn(b.mcp, at)

ClaudeChildGaps(at, b) ==
  SkillRootGaps(b.skills, at) \cup MarkdownGaps(b.agents, at)
    \cup DeclarationGaps(b.hooks, at \o <<"hooks">>) \cup DeclarationGaps(b.mcp, at \o <<"mcp">>)

ClaudeCandidates(c) == IF Unreadable(c) THEN {} ELSE
  {Candidate(1, pv[1], pv[2], ClaudeChildren(<<"cache", 1, pv[1], pv[2]>>,
                                             c.entries[pv[1]].dir.entries[pv[2]])) :
   pv \in ClaudeVersions(c)}

ClaudeCacheGaps(c) == IF Unreadable(c) THEN {<<RootGapClass(c), <<"cache", 1>>>>} ELSE
  {<<RootGapClass(c.entries[p].dir), <<"cache", 1, p>>>> :
     p \in {p \in Visible(c) : ListDirectoryProbe(c.entries[p].dir) = "refused"}}
    \cup UNION {ClaudeChildGaps(<<"cache", 1, pv[1], pv[2]>>,
                                c.entries[pv[1]].dir.entries[pv[2]]) : pv \in ClaudeVersions(c)}

-----------------------------------------------------------------------------
(* The graph: which cache entry belongs to which configured plugin *)

Plugin(name, version, at, cached, enabled, children) ==
  [name |-> name, version |-> version, at |-> at, cached |-> cached, enabled |-> enabled,
   children |-> children]

OfName(candidates, p) == {c \in candidates : c.name = p}
Only(S) == CHOOSE x \in S : TRUE

\* mergeCodexPluginCacheCandidates: a single version only.
OwnedCodex(candidates, active, p) ==
  IF Cardinality(OfName(candidates, p)) = 1 THEN OfName(candidates, p) ELSE {}

OwnedNewest(candidates, active, p) ==
  {c \in OfName(candidates, p) : \A d \in OfName(candidates, p) : d.version <= c.version}

\* mergePluginCacheCandidates: a single version, or the active one.
OwnedClaude(candidates, active, p) ==
  IF Cardinality(OfName(candidates, p)) = 1 THEN OfName(candidates, p)
  ELSE {c \in OfName(candidates, p) : p \in DOMAIN active /\ c.version = active[p]}

Owned(candidates, active, p) == IF agent = "codex" THEN OwnedCodex(candidates, active, p)
                                                   ELSE OwnedClaude(candidates, active, p)

\* mergePluginCacheData: the children come with the version, whether they are
\* enabled from the configuration.
Merged(p, enabled, h, owned) ==
  IF owned = {} THEN Plugin(p, 0, <<"config", h>>, FALSE, enabled, {})
  ELSE Plugin(p, Only(owned).version, Only(owned).at, FALSE, enabled, Only(owned).children)

Descriptors(configured, candidates, active, h) ==
  {Merged(p, configured[p], h, Owned(candidates, active, p)) : p \in DOMAIN configured}
    \cup {Plugin(c.name, c.version, c.at, TRUE, FALSE, c.children) :
            c \in candidates \ UNION {Owned(candidates, active, p) : p \in DOMAIN configured}}

\* deduplicateExactPluginDescriptors: the same plugin seen through two profiles
\* is one, if nothing but its place differs.
SameContents(a, b) == {<<s.kind, s.name, s.enabled>> : s \in a} = {<<s.kind, s.name, s.enabled>> : s \in b}
ExactKeyEquals(a, b) ==
  /\ <<a.name, a.version, a.cached, a.enabled>> = <<b.name, b.version, b.cached, b.enabled>>
  /\ (a.at[1] = b.at[1]) /\ SameContents(a.children, b.children)
Deduplicated(ds) == {d \in ds : ~\E e \in ds : ExactKeyEquals(d, e) /\ e.at[2] < d.at[2]}

Node(kind, name, version, at, owner, cached, enabled) ==
  [kind |-> kind, name |-> name, version |-> version, at |-> at, owner |-> owner,
   cached |-> cached, enabled |-> enabled]

\* BuildInventorySnapshot: an edge enabled_for only for what is configured and
\* on, and for the children of such a plugin.
PluginNode(d) == Node("plugin", d.name, d.version, d.at, <<>>, d.cached, d.enabled /\ ~d.cached)
\* Codex keeps the children of a cached plugin cached; Claude's adders do not
\* tell, but take their enablement from the owner in the same way.
CodexChildNodes(d) ==
  {Node(s.kind, s.name, 0, s.at, d.at, d.cached, d.enabled /\ ~d.cached /\ s.enabled) : s \in d.children}
ClaudeChildNodesAlways(d) ==
  {Node(s.kind, s.name, 0, s.at, d.at, FALSE, s.enabled) : s \in d.children}
ClaudeChildNodes(d) ==
  {Node(s.kind, s.name, 0, s.at, d.at, FALSE, d.enabled /\ ~d.cached /\ s.enabled) : s \in d.children}
ChildNodes(d) == IF agent = "codex" THEN CodexChildNodes(d) ELSE ClaudeChildNodes(d)
StandaloneNodes(children) ==
  {Node(s.kind, s.name, 0, s.at, <<>>, FALSE, s.enabled) : s \in children}

-----------------------------------------------------------------------------
(* The steps of a scan *)

\* The order in which the adapters read the host.
Plan(homes) ==
  IF agent = "claude"
  THEN <<<<"config", 1>>, <<"skills", "user">>, <<"skills", "personal">>, <<"cache", 1>>,
         <<"active", 1>>>>
  ELSE [i \in 1 .. 2 * Cardinality(homes) |->
          <<IF i % 2 = 1 THEN "config" ELSE "cache", (i + 1) \div 2>>]
       \o <<<<"skills", "user">>>>

NoScan == [phase |-> "idle", todo |-> <<>>, plugins |-> {}, children |-> {}, gaps |-> {},
           configured |-> <<>>, candidates |-> {}, left |-> MaxCached, twice |-> FALSE,
           was |-> <<>>, touched |-> {}]

ScanInit ==
  /\ agent \in Agent /\ host = HomeHost /\ scan = NoScan
  /\ row = [state |-> "none", snapshot |-> NoSnapshot] /\ edits = 0

\* recordStatus: a failure keeps the snapshot and the counts of the last success.
RecordFailure(state) == row' = [row EXCEPT !.state = state]

\* scanTarget up to adapter.Inventory; codexHomeRoots lists the profiles.
StartScan ==
  /\ scan.phase \in {"idle", "done"}
  /\ LET homes == {1} \cup (IF agent = "codex" THEN DirectoryNames(host.profiles) ELSE {}) IN
     CASE host.mounted = "refused" -> RecordFailure("degraded") /\ scan' = NoScan
       [] host.mounted = "absent" -> RecordFailure("not_observed") /\ scan' = NoScan
       [] OTHER ->
            /\ scan' = [NoScan EXCEPT !.phase = "reading", !.was = host,
                 !.todo = IF agent = "codex" /\ ListDirectoryProbe(host.profiles) = "refused"
                          THEN <<>> ELSE Plan(homes)]
            /\ UNCHANGED row
  /\ UNCHANGED <<agent, host, edits>>

Reads(what) == scan.phase = "reading" /\ scan.todo # <<>> /\ Head(scan.todo)[1] = what
Where == Head(scan.todo)[2]
Continue(s) == scan' = [s EXCEPT !.todo = Tail(scan.todo)]
\* The scan is given up: an empty input, which is never a complete inventory.
GiveUp == scan' = [NoScan EXCEPT !.phase = "reading", !.was = scan.was, !.touched = scan.touched]

Servers(config, h) == {Child("mcp", s, <<"config", h, s>>, config.servers[s]) :
                         s \in DOMAIN config.servers}

\* The config.toml part of ScanHostInventory, parsePlugins and parseMCPServers.
CodexReadsConfig == LET o == host.config[Where] IN
  /\ agent = "codex" /\ Reads("config")
  /\ CASE ReadConfigProbe(o) \in {"refused", "truncated"} -> GiveUp
       [] ReadConfigProbe(o) = "absent" -> Continue([scan EXCEPT !.configured = <<>>])
       [] ReadConfigProbe(o) = "read" /\ o.twice = "plugin" -> GiveUp
       [] OTHER -> Continue([scan EXCEPT !.configured = o.plugins, !.twice = @ \/ o.twice = "server",
                                         !.children = @ \cup Servers(o, Where)])
  /\ UNCHANGED <<agent, host, row, edits>>

\* The settings.json part: what cannot be read is a gap, what does not parse is
\* left out.
ClaudeReadsConfig == LET o == host.config[Where] IN
  /\ agent = "claude" /\ Reads("config")
  /\ CASE ReadConfigProbe(o) = "refused" ->
            Continue([scan EXCEPT !.gaps = @ \cup {<<RootGapClass(o), <<"config", 1>>>>}])
       [] ReadConfigProbe(o) = "read" /\ o.parses ->
            Continue([scan EXCEPT !.configured = o.plugins, !.children = @ \cup Servers(o, 1)])
       [] OTHER -> Continue(scan)
  /\ UNCHANGED <<agent, host, row, edits>>

\* A personal skill whose name is that of a scope directory is left out.
ReadsSkills == LET root == host.roots[Where] at == <<"skills", Where>> IN
  /\ Reads("skills")
  /\ Continue([scan EXCEPT !.gaps = @ \cup SkillRootGaps(root, at),
       !.children = @ \cup {s \in SkillsIn(root, at) : Where = "personal" => s.name \notin Reserved}])
  /\ UNCHANGED <<agent, host, row, edits>>

CodexReadsCache == LET c == host.cache[Where] IN
  /\ agent = "codex" /\ Reads("cache")
  /\ IF CodexCacheFails(c, scan.left) THEN GiveUp
     ELSE Continue([scan EXCEPT !.left = @ - Cardinality(CodexVersions(c)),
       !.plugins = @ \cup Descriptors(scan.configured, CodexCandidates(c, Where), <<>>, Where)])
  /\ UNCHANGED <<agent, host, row, edits>>

ClaudeReadsCache ==
  /\ agent = "claude" /\ Reads("cache")
  /\ Continue([scan EXCEPT !.candidates = ClaudeCandidates(host.cache[1]),
                           !.gaps = @ \cup ClaudeCacheGaps(host.cache[1])])
  /\ UNCHANGED <<agent, host, row, edits>>

\* readActivePluginVersions, and the merge that needs it.
ClaudeReadsActive ==
  /\ agent = "claude" /\ Reads("active")
  /\ Continue([scan EXCEPT
       !.plugins = Descriptors(scan.configured, scan.candidates, host.active, 1)])
  /\ UNCHANGED <<agent, host, row, edits>>

GraphOf(s) == LET ds == IF agent = "codex" THEN Deduplicated(s.plugins) ELSE s.plugins IN
  StandaloneNodes(s.children) \cup {PluginNode(d) : d \in ds} \cup UNION {ChildNodes(d) : d \in ds}

\* Adapter.Reconcile: without components nothing is known, with gaps it is partial.
Completeness(s) ==
  CASE GraphOf(s) = {} -> "unknown"
    [] GraphOf(s) # {} /\ s.gaps # {} -> "partial"
    [] OTHER -> "complete"

\* validateInventorySnapshot refuses two nodes of one identity, which two
\* servers of one name are; recordStatus tells how the scan went.
Publish ==
  /\ scan.phase = "reading" /\ scan.todo = <<>>
  /\ scan' = [scan EXCEPT !.phase = "done"]
  /\ IF scan.twice THEN RecordFailure("degraded")
     ELSE row' = [state |-> IF Completeness(scan) = "unknown" THEN "not_observed"
                            ELSE Completeness(scan), snapshot |-> GraphOf(scan)]
  /\ UNCHANGED <<agent, host, edits>>

\* The user changes one place of the host.
Edit(h, place) ==
  /\ edits < MaxEdits /\ edits' = edits + 1 /\ h # host
  /\ host' = h
  /\ scan' = IF scan.phase = "reading" THEN [scan EXCEPT !.touched = @ \cup {place}] ELSE scan
  /\ UNCHANGED <<agent, row>>

UserEdits ==
  \/ \E h \in Homes : \E c \in Configs : Edit([host EXCEPT !.config[h] = c], <<"config", h>>)
  \/ \E h \in Homes : \E c \in Caches : Edit([host EXCEPT !.cache[h] = c], <<"cache", h>>)
  \/ \E r \in DOMAIN host.roots : \E root \in SkillRoots :
       Edit([host EXCEPT !.roots[r] = root], <<"skills", r>>)
  \/ \E p \in Pointers : Edit([host EXCEPT !.active = p], <<"active", 1>>)
  \/ \E m \in {"there", "absent", "refused"} : Edit([host EXCEPT !.mounted = m], <<"mount", 1>>)

ScanNext ==
  \/ StartScan \/ CodexReadsConfig \/ ClaudeReadsConfig \/ ReadsSkills \/ CodexReadsCache
  \/ ClaudeReadsCache \/ ClaudeReadsActive \/ Publish \/ UserEdits

-----------------------------------------------------------------------------
ScanTypeOK ==
  /\ scan.phase \in {"idle", "reading", "done"} /\ scan.left \in 0 .. MaxCached
  /\ row.state \in {"none", "complete", "partial", "not_observed", "degraded"}

\* What the last scan stored, and the places it can answer for: those the user
\* left alone while it ran.
Answered == scan.phase = "done" /\ row.state # "degraded"
Graph == row.snapshot
Still(place) == place \notin scan.touched
PluginNodes == {n \in Graph : n.kind = "plugin"}
ListedAt(at) == \E n \in Graph : n.at = at

SkillsListed(h) == \A r \in IF agent = "codex" THEN {"user"} ELSE DOMAIN h.roots :
  Still(<<"skills", r>>) => \A e \in Visible(h.roots[r]) : LET entry == h.roots[r].entries[e] IN
    \/ entry.type = "dir" /\ entry.file.is = "absent"
    \/ r = "personal" /\ entry.file.name \in Reserved
    \/ ListedAt(<<"skills", r, e>>)

ConfigListed(h) == \A x \in Homes : LET o == h.config[x] IN
  Still(<<"config", x>>) /\ o.is # "absent" /\ (agent = "claude" => o.parses /\ o.is # "big") =>
    /\ \A p \in DOMAIN o.plugins : \E n \in PluginNodes : n.name = p /\ ~n.cached
    /\ \A s \in DOMAIN o.servers : ListedAt(<<"config", x, s>>)

CacheListed(h) == \A x \in Homes : LET c == h.cache[x] IN
  Still(<<"cache", x>>) =>
    \A pv \in IF agent = "codex" THEN CodexVersions(c) ELSE ClaudeVersions(c) :
      LET b == c.entries[pv[1]].dir.entries[pv[2]] IN
      /\ \E n \in PluginNodes : n.name = pv[1] /\ n.version = pv[2]
      /\ \A e \in DirectoryNames(b.skills) :
           b.skills.entries[e].file.is \in {"file", "big"} /\ b.skills.entries[e].file.name # Nameless
             => \E n \in Graph : n.kind = "skill" /\ n.name = b.skills.entries[e].file.name
      /\ agent = "claude" /\ b.mcp.is # "absent" => ListedAt(<<"cache", x>> \o pv)

\* An inventory called complete is whole: whatever stood unchanged while the
\* scan ran is in its graph.  (Not: settings that are cut off or do not parse, versions above
\* Claude's limit and skills named as a scope directory, which the code leaves
\* out without a gap.)
CompleteIsWhole == Answered /\ row.state = "complete" =>
  SkillsListed(scan.was) /\ ConfigListed(scan.was) /\ CacheListed(scan.was)

\* The owner of cached contents is never guessed: a configured plugin has the
\* contents of the only version, or of the one installed_plugins.json names.
OwnershipIsCertain == Answered => \A n \in PluginNodes :
  ~n.cached /\ n.version # 0 /\ Still(<<"cache", n.at[2]>>) /\ Still(<<"active", 1>>) =>
    LET dir == scan.was.cache[n.at[2]].entries[n.name].dir IN
    \/ (IF agent = "codex" THEN DirectoryNames(dir) ELSE Lowest(Visible(dir), MaxVersions)) = {n.version}
    \/ agent = "claude" /\ <<n.name, n.version>> \in {<<p, scan.was.active[p]>> : p \in DOMAIN scan.was.active}

\* What is reported enabled was switched on: cached contents never are, and a
\* plugin's children only with it.
EnabledIsGranted == Answered => \A n \in {n \in Graph : n.enabled} :
  /\ ~n.cached
  /\ n.owner # <<>> => \E o \in PluginNodes : o.at = n.owner /\ o.enabled
  /\ n.kind = "plugin" /\ Still(<<"config", n.at[2]>>) => scan.was.config[n.at[2]].plugins[n.name]

\* A scan tells the truth about the host it read.
ScanHolds == CompleteIsWhole /\ OwnershipIsCertain /\ EnabledIsGranted
=============================================================================
