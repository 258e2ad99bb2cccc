----------------------------- MODULE HostScan_proofs -----------------------------
(***************************************************************************)
(* Proofs about a scan of the host (internal/codexadapter and              *)
(* internal/claudeadapter), for any files, homes, limits and edits while   *)
(* it runs: an inventory called complete is whole, the owner of cached     *)
(* contents is certain, and what is reported enabled was switched on.      *)
(*                                                                         *)
(* The invariant says of every place either that it waits in scan.todo or  *)
(* what was read there, and that what was read is what stood there when    *)
(* the scan began unless the user has touched the place since.  The        *)
(* lemmas before the steps follow a value that was read into the graph:    *)
(* versions into candidates, candidates into descriptors, descriptors into *)
(* nodes.                                                                  *)
(***************************************************************************)
EXTENDS HostScan, FiniteSetTheorems, SequenceTheorems, WellFoundedInduction, TLAPS

-----------------------------------------------------------------------------
(* The invariant.                                                          *)

Roots == {"user", "personal"}
ToRead(place) == \E i \in DOMAIN scan.todo : scan.todo[i] = place
LastOf(h) == IF agent = "codex" THEN <<"cache", h>> ELSE <<"active", 1>>

\* A value read for a place is what stood there all the time, or the place was touched.
ConfigWas(h, o) == o \in Configs /\ (Still(<<"config", h>>) => o = scan.was.config[h])
CacheWas(h, c) == c \in Caches /\ (Still(<<"cache", h>>) => c = scan.was.cache[h])
RootWas(r, root) == root \in SkillRoots /\ (Still(<<"skills", r>>) => root = scan.was.roots[r])
PointerWas(a) == agent = "claude" => a \in Pointers /\ (Still(<<"active", 1>>) => a = scan.was.active)

Parsed(o) == ReadConfigProbe(o) = "read" /\ (agent = "claude" => o.parses)
Configured(o) == IF Parsed(o) THEN o.plugins ELSE <<>>
Candidates(c, h) == IF agent = "codex" THEN CodexCandidates(c, h) ELSE ClaudeCandidates(c)
Joined(o, c, a, h) == Descriptors(Configured(o), Candidates(c, h), a, h)

\* What is read, and was it all?
ConfigRead(h, o) ==
  /\ IF agent = "codex" THEN ReadConfigProbe(o) \in {"absent", "read"}
     ELSE scan.gaps = {} => ReadConfigProbe(o) # "refused"
  /\ Parsed(o) => Servers(o, h) \subseteq scan.children
Walked(c) == \E left \in 0 .. MaxCached : ~CodexCacheFails(c, left)
CacheRead(c) == IF agent = "codex" THEN Walked(c)
                ELSE scan.gaps = {} => ClaudeCacheGaps(c) = {}
RootRead(r) == \E root \in SkillRoots :
  /\ RootWas(r, root)
  /\ scan.gaps = {} => SkillRootGaps(root, <<"skills", r>>) = {}
  /\ {s \in SkillsIn(root, <<"skills", r>>) : r = "personal" => s.name \notin Reserved} \subseteq scan.children
HomeRead(h) == \E o \in Configs, c \in Caches, a \in Pointers \cup {<<>>} :
  /\ ConfigWas(h, o) /\ CacheWas(h, c) /\ PointerWas(a)
  /\ ConfigRead(h, o) /\ CacheRead(c)
  /\ Joined(o, c, a, h) \subseteq scan.plugins

\* Between the configuration of a home and its cache.
ConfigTaken(h) == \E o \in Configs :
  ConfigWas(h, o) /\ ConfigRead(h, o) /\ scan.configured = Configured(o)
CacheTaken == \E c \in Caches : CacheWas(1, c) /\ CacheRead(c) /\ scan.candidates = ClaudeCandidates(c)

\* No plugin comes from elsewhere.
PluginWas(d) == \E h \in Homes, o \in Configs, c \in Caches, a \in Pointers \cup {<<>>} :
  ConfigWas(h, o) /\ CacheWas(h, c) /\ PointerWas(a) /\ d \in Joined(o, c, a, h)

InOrder ==
  IF agent = "codex"
  THEN \A i \in DOMAIN scan.todo : scan.todo[i][1] = "cache" =>
         scan.todo[i][2] \in Home /\ (i > 1 => scan.todo[i - 1] = <<"config", scan.todo[i][2]>>)
  ELSE \A i \in DOMAIN scan.todo : /\ scan.todo[i] = <<"active", 1>> => i = Len(scan.todo)
                                   /\ scan.todo[i] = <<"config", 1>> => i = 1
Place == ({"config", "cache"} \X Homes) \cup ({"skills"} \X Roots) \cup {<<"active", 1>>}
PlacesExist == scan.todo \in Seq(Place)

GivenUp == scan.todo = <<>> /\ scan.plugins = {} /\ scan.children = {}
Underway ==
  /\ scan.was \in Hosts /\ InOrder /\ PlacesExist
  /\ \A h \in Homes : ~ToRead(LastOf(h)) => HomeRead(h)
  /\ \A r \in Roots : ToRead(<<"skills", r>>) \/ RootRead(r) \/ (agent = "codex" /\ r = "personal")
  /\ \A s \in scan.children : s.kind # "plugin"
  /\ \A d \in scan.plugins : PluginWas(d)
  /\ IF agent = "codex"
     THEN \A h \in Home : scan.todo # <<>> /\ Head(scan.todo) = <<"cache", h>> => ConfigTaken(h)
     ELSE /\ ~ToRead(<<"config", 1>>) => ConfigTaken(1)
          /\ ToRead(<<"config", 1>>) => scan.configured = <<>>
          /\ ~ToRead(<<"cache", 1>>) => CacheTaken
          /\ ToRead(<<"active", 1>>) => scan.plugins = {}

Unchanged(h) == /\ Still(<<"config", h>>) => host.config[h] = scan.was.config[h]
                /\ Still(<<"cache", h>>) => host.cache[h] = scan.was.cache[h]
Beheld ==
  /\ \A h \in Home : Unchanged(h)
  /\ \A r \in Roots : Still(<<"skills", r>>) => host.roots[r] = scan.was.roots[r]
  /\ Still(<<"active", 1>>) => host.active = scan.was.active

Stored ==
  /\ scan.todo = <<>>
  /\ row.state # "degraded" =>
       /\ row.snapshot = GraphOf(scan)
       /\ row.state = "complete" => GraphOf(scan) # {} /\ scan.gaps = {}

IsScan == scan = [phase |-> scan.phase, todo |-> scan.todo, plugins |-> scan.plugins,
  children |-> scan.children, gaps |-> scan.gaps, configured |-> scan.configured,
  candidates |-> scan.candidates, left |-> scan.left, twice |-> scan.twice,
  was |-> scan.was, touched |-> scan.touched]

ScanInv ==
  /\ ScanTypeOK /\ IsScan /\ agent \in Agent /\ host \in Hosts
  /\ row = [state |-> row.state, snapshot |-> row.snapshot]
  /\ scan.phase = "reading" => Beheld
  /\ scan.phase \in {"reading", "done"} => GivenUp \/ Underway
  /\ scan.phase = "done" => Stored
-----------------------------------------------------------------------------
(* What the host shows.                                                    *)

LEMMA LeastOf == ASSUME NEW T, T \subseteq Nat, T # {} PROVE \E x \in T : \A y \in T : x <= y
<1> DEFINE R == {p \in Nat \X Nat : p[1] < p[2]}
<1>1. IsWellFoundedOn(R, Nat)
  BY NatLessThanWellFounded DEF OpToRel
<1> HIDE DEF R
<1>2. PICK x \in T : \A y \in T : ~(<<y, x>> \in R)
  BY <1>1, WFMin
<1>3. ASSUME NEW y \in T PROVE x <= y
  <2>1. x \in Nat /\ y \in Nat
    BY <1>2, <1>3
  <2>2. ~(<<y, x>> \in R)
    BY <1>2, <1>3
  <2>3. ~(y < x)
    BY <2>1, <2>2 DEF R
  <2> QED BY <2>1, <2>3
<1> QED BY <1>2, <1>3

LEMMA ConfigProbes == \A o : ReadConfigProbe(o) \in {"refused", "truncated", "absent", "read"}
BY DEF ReadConfigProbe

LEMMA Concats ==
  ASSUME NEW S, NEW s \in Seq(S), NEW t \in Seq(S), NEW u \in Seq(S), Len(u) = Len(s) + Len(t),
         \A i \in 1 .. Len(s) : u[i] = s[i], \A i \in 1 .. Len(t) : u[Len(s) + i] = t[i]
  PROVE  s \o t = u
<1> DEFINE n == Len(s)  m == Len(t)
<1>0. n \in Nat /\ m \in Nat
  OBVIOUS
<1>1. /\ s \o t \in Seq(S) /\ Len(s \o t) = n + m
      /\ \A i \in 1 .. n + m : (s \o t)[i] = IF i <= n THEN s[i] ELSE t[i - n]
  BY ConcatProperties
<1>3. (\A i \in 1 .. n : u[i] = s[i]) /\ (\A i \in 1 .. m : u[n + i] = t[i]) /\ Len(u) = n + m
  OBVIOUS
<1> HIDE DEF n, m
<1>2. ASSUME NEW i \in 1 .. n + m PROVE (s \o t)[i] = u[i]
  <2>1. CASE i <= n
    BY <1>0, <1>1, <1>3, <2>1
  <2>2. CASE ~(i <= n)
    <3>1. i - n \in 1 .. m /\ n + (i - n) = i
      BY <1>0, <2>2
    <3> QED BY <1>0, <1>1, <1>3, <2>2, <3>1
  <2> QED BY <2>1, <2>2
<1> QED BY <1>0, <1>1, <1>2, <1>3, SeqEqual

LEMMA Appends2 == ASSUME NEW a, NEW b, NEW e PROVE <<a, b>> \o <<e>> = <<a, b, e>>
<1> DEFINE S == {a, b, e}  s == <<a, b>>  t == <<e>>  u == <<a, b, e>>
<1>1. s \in Seq(S) /\ t \in Seq(S) /\ u \in Seq(S) /\ Len(s) = 2 /\ Len(t) = 1 /\ Len(u) = Len(s) + Len(t)
  OBVIOUS
<1>2. /\ \A i \in 1 .. Len(s) : u[i] = s[i]
      /\ \A i \in 1 .. Len(t) : u[Len(s) + i] = t[i]
  OBVIOUS
<1> HIDE DEF S, s, t, u
<1>5. s \o t = u
  BY <1>1, <1>2, Concats
<1> QED BY <1>5 DEF s, t, u

LEMMA Pairs4 == ASSUME NEW a, NEW b, NEW c, NEW d PROVE <<a, b>> \o <<c, d>> = <<a, b, c, d>>
<1> DEFINE S == {a, b, c, d}  s == <<a, b>>  t == <<c, d>>  u == <<a, b, c, d>>
<1>1. s \in Seq(S) /\ t \in Seq(S) /\ u \in Seq(S) /\ Len(s) = 2 /\ Len(t) = 2 /\ Len(u) = Len(s) + Len(t)
  OBVIOUS
<1>2. /\ \A i \in 1 .. Len(s) : u[i] = s[i]
      /\ \A i \in 1 .. Len(t) : u[Len(s) + i] = t[i]
  OBVIOUS
<1> HIDE DEF S, s, t, u
<1>5. s \o t = u
  BY <1>1, <1>2, Concats
<1> QED BY <1>5 DEF s, t, u

LEMMA Appends4 ==
  ASSUME NEW a, NEW b, NEW c, NEW d, NEW e PROVE (<<a, b, c, d>> \o <<e>>)[5] = e
<1> DEFINE S == {a, b, c, d, e}  s == <<a, b, c, d>>  t == <<e>>  u == <<a, b, c, d, e>>
<1>1. s \in Seq(S) /\ t \in Seq(S) /\ u \in Seq(S) /\ Len(s) = 4 /\ Len(t) = 1 /\ Len(u) = Len(s) + Len(t)
  OBVIOUS
<1>2. /\ \A i \in 1 .. Len(s) : u[i] = s[i]
      /\ \A i \in 1 .. Len(t) : u[Len(s) + i] = t[i]
  OBVIOUS
<1> HIDE DEF S, s, t, u
<1>5. s \o t = u
  BY <1>1, <1>2, Concats
<1> QED BY <1>5 DEF s, t, u

LEMMA DirectoriesList ==
  ASSUME NEW o, IsDirectory(o)
  PROVE  /\ IsFiniteSet(Entries(o)) /\ DirectoryNames(o) \subseteq Visible(o) /\ Visible(o) \subseteq Entries(o)
         /\ \A e \in Entries(o) : o.entries[e].type \in {"dir", "file", "link"}
         /\ IsFiniteSet(DirectoryNames(o)) /\ IsFiniteSet(Visible(o))
<1>1. IsFiniteSet(Entries(o)) /\ \A e \in Entries(o) : o.entries[e].type \in {"dir", "file", "link"}
  BY FS_EmptySet DEF IsDirectory, Entries
<1>2. DirectoryNames(o) \subseteq Visible(o) /\ Visible(o) \subseteq Entries(o)
  BY DEF DirectoryNames, Visible
<1>3. DirectoryNames(o) \in SUBSET Entries(o) /\ Visible(o) \in SUBSET Entries(o)
  BY <1>2
<1>4. IsFiniteSet(DirectoryNames(o)) /\ IsFiniteSet(Visible(o))
  BY <1>1, <1>3, FS_Subset
<1> QED BY <1>1, <1>2, <1>4

\* A skill root without gaps shows every skill there is.
SkillOf(root, e, at) == Child("skill", root.entries[e].file.name, at \o <<e>>, TRUE)
LEMMA SkillsShown ==
  ASSUME NEW root, IsDirectory(root), NEW at, SkillRootGaps(root, at) = {}, NEW e \in Visible(root)
  PROVE  \/ root.entries[e].type = "dir" /\ ReadConfigProbe(root.entries[e].file) = "absent"
         \/ /\ ReadConfigProbe(root.entries[e].file) = "read" /\ root.entries[e].file.name # Nameless
            /\ SkillOf(root, e, at) \in SkillsIn(root, at)
<1> DEFINE o == root.entries[e].file
<1>1. ~Unreadable(root)
  BY DEF SkillRootGaps
<1>2. SkillGap(root.entries[e]) = {}
  <2>1. \A g \in SkillGap(root.entries[e]) : <<g, at \o <<e>>>> \in SkillRootGaps(root, at)
    BY <1>1 DEF SkillRootGaps
  <2> QED BY <2>1
<1>3. root.entries[e].type \in {"dir", "link"}
  BY DirectoriesList DEF Visible
<1>4. CASE ReadConfigProbe(o) \in {"refused", "truncated"}
  BY <1>2, <1>4 DEF SkillGap
<1>5. CASE ReadConfigProbe(o) = "absent"
  BY <1>2, <1>3, <1>5 DEF SkillGap
<1>6. CASE ReadConfigProbe(o) = "read"
  <2>1. o.name # Nameless
    BY <1>2, <1>6 DEF SkillGap
  <2> QED BY <1>1, <1>6, <2>1 DEF SkillsIn, SkillOf
<1> QED BY <1>4, <1>5, <1>6, ConfigProbes

LEMMA SkillsAreSkills ==
  ASSUME NEW root, NEW at, NEW s \in SkillsIn(root, at)
  PROVE  s.kind = "skill" /\ \E e \in Visible(root) : s = SkillOf(root, e, at)
<1>1. ~Unreadable(root)
  BY DEF SkillsIn
<1>2. PICK e \in Visible(root) : s = SkillOf(root, e, at)
  BY <1>1 DEF SkillsIn, SkillOf
<1> QED BY <1>2 DEF SkillOf, Child
-----------------------------------------------------------------------------
(* What a plugin cache holds.                                              *)

LEMMA ImagesAreFinite == ASSUME NEW S, IsFiniteSet(S), NEW f, DOMAIN f = S, NEW T, T = {f[x] : x \in S}
                         PROVE  IsFiniteSet(T)
<1> DEFINE g == [x \in S |-> f[x]]
<1>1. g \in [S -> T]
  OBVIOUS
<1>2. \A t \in T : \E s \in S : g[s] = t
  OBVIOUS
<1>3. g \in Surjection(S, T)
  BY <1>1, <1>2 DEF Surjection
<1> QED BY <1>3, FS_Surjection

LEMMA PairsAreFinite ==
  ASSUME NEW P, IsFiniteSet(P), NEW D, DOMAIN D = P, \A p \in P : IsFiniteSet(D[p])
  PROVE  IsFiniteSet(UNION {{p} \X D[p] : p \in P})
<1> DEFINE f == [p \in P |-> {p} \X D[p]]
<1> DEFINE T == {f[p] : p \in P}
<1>0. DOMAIN f = P /\ T = {f[p] : p \in P} /\ \A p \in P : f[p] = {p} \X D[p]
  OBVIOUS
<1>4. UNION T = UNION {{p} \X D[p] : p \in P}
  OBVIOUS
<1>2. ASSUME NEW t \in T PROVE IsFiniteSet(t)
  <2>1. PICK p \in P : t = {p} \X D[p]
    OBVIOUS
  <2>2. IsFiniteSet({p}) /\ IsFiniteSet(D[p])
    BY FS_Singleton
  <2>3. IsFiniteSet({p} \X D[p])
    BY <2>2, FS_Product
  <2> QED BY <2>1, <2>3
<1> HIDE DEF f, T
<1>1. IsFiniteSet(T)
  BY <1>0, ImagesAreFinite
<1>3. IsFiniteSet(UNION T)
  BY <1>1, <1>2, FS_UNION
<1> QED BY <1>3, <1>4

VersionsOf(c) == IF agent = "codex" THEN CodexVersions(c) ELSE ClaudeVersions(c)
BundleOf(c, pv) == c.entries[pv[1]].dir.entries[pv[2]]
ChildrenOf(c, h, pv) ==
  IF agent = "codex"
  THEN {s \in SkillsIn(BundleOf(c, pv).skills, <<"cache", h, pv[1], pv[2]>>) :
          BundleOf(c, pv).skills.entries[s.at[5]].type = "dir"}
  ELSE ClaudeChildren(<<"cache", h, pv[1], pv[2]>>, BundleOf(c, pv))
CandidateAt(c, h, pv) == Candidate(h, pv[1], pv[2], ChildrenOf(c, h, pv))

LEMMA VersionsAre ==
  ASSUME NEW c \in Caches, NEW pv \in VersionsOf(c), agent \in Agent
  PROVE  /\ pv = <<pv[1], pv[2]>>
         /\ pv[1] \in Visible(c) /\ pv[1] \in DOMAIN c.entries /\ c.is = "dir"
         /\ LET dir == c.entries[pv[1]].dir IN
            /\ dir.is = "dir" /\ pv[2] \in DOMAIN dir.entries /\ pv[2] \in Nat \ {0}
            /\ IF agent = "codex" THEN pv[1] \in DirectoryNames(c) /\ pv[2] \in DirectoryNames(dir)
               ELSE pv[2] \in ReadVersions(dir)
         /\ IsDirectory(BundleOf(c, pv).skills)
<1> DEFINE dir == c.entries[pv[1]].dir
<1>1. /\ pv = <<pv[1], pv[2]>>
      /\ IF agent = "codex" THEN pv[1] \in DirectoryNames(c) /\ pv[2] \in DirectoryNames(dir)
         ELSE pv[1] \in Visible(c) /\ pv[2] \in ReadVersions(dir)
  BY DEF VersionsOf, CodexVersions, ClaudeVersions
<1>2. IsCache(c)
  BY ScanAssumption
<1>3. pv[1] \in Visible(c)
  BY <1>1 DEF DirectoryNames, Visible
<1>4. c.is = "dir" /\ pv[1] \in DOMAIN c.entries
  BY <1>3 DEF Visible, Entries
<1>5. pv[2] \in Entries(dir)
  BY <1>1 DEF DirectoryNames, Visible, ReadVersions, VersionsIn, Lowest
<1>6. dir.is = "dir" /\ pv[2] \in DOMAIN dir.entries
  BY <1>5 DEF Entries
<1>7. pv[2] \in Nat \ {0} /\ IsDirectory(dir.entries[pv[2]].skills)
  BY <1>2, <1>4, <1>6 DEF IsCache
<1> QED BY <1>1, <1>3, <1>4, <1>6, <1>7 DEF BundleOf

LEMMA CachesAre ==
  ASSUME NEW c \in Caches
  PROVE  /\ IsDirectory(c)
         /\ \A p \in Visible(c) : IsDirectory(c.entries[p].dir)
  BY ScanAssumption DEF IsCache, Visible, Entries

LEMMA VersionsAreFinite == ASSUME NEW c \in Caches PROVE IsFiniteSet(VersionsOf(c))
<1>1. IsFiniteSet(DirectoryNames(c)) /\ IsFiniteSet(Visible(c)) /\ DirectoryNames(c) \subseteq Visible(c)
  BY CachesAre, DirectoriesList
<1>2. ASSUME NEW p \in Visible(c)
      PROVE  IsFiniteSet(DirectoryNames(c.entries[p].dir)) /\ IsFiniteSet(ReadVersions(c.entries[p].dir))
  <2>1. IsFiniteSet(DirectoryNames(c.entries[p].dir)) /\ IsFiniteSet(Visible(c.entries[p].dir))
    BY CachesAre, DirectoriesList
  <2>2. ReadVersions(c.entries[p].dir) \in SUBSET Visible(c.entries[p].dir)
    BY DEF ReadVersions, VersionsIn, Lowest
  <2> QED BY <2>1, <2>2, FS_Subset
<1>3. IsFiniteSet(CodexVersions(c))
  <2> DEFINE D == [p \in DirectoryNames(c) |-> DirectoryNames(c.entries[p].dir)]  P == DirectoryNames(c)
  <2>1. DOMAIN D = P /\ IsFiniteSet(P) /\ \A p \in P : IsFiniteSet(D[p])
    BY <1>1, <1>2
  <2>2. CodexVersions(c) = UNION {{p} \X D[p] : p \in P}
    BY DEF CodexVersions
  <2> HIDE DEF D, P
  <2> QED BY <2>1, <2>2, PairsAreFinite
<1>4. IsFiniteSet(ClaudeVersions(c))
  <2> DEFINE D == [p \in Visible(c) |-> ReadVersions(c.entries[p].dir)]  P == Visible(c)
  <2>1. DOMAIN D = P /\ IsFiniteSet(P) /\ \A p \in P : IsFiniteSet(D[p])
    BY <1>1, <1>2
  <2>2. ClaudeVersions(c) = UNION {{p} \X D[p] : p \in P}
    BY DEF ClaudeVersions
  <2> HIDE DEF D, P
  <2> QED BY <2>1, <2>2, PairsAreFinite
<1> QED BY <1>3, <1>4 DEF VersionsOf

LEMMA CandidatesAre ==
  ASSUME NEW c \in Caches, NEW h \in Homes, agent \in Agent
  PROVE  Candidates(c, h) = IF agent = "claude" /\ Unreadable(c) THEN {}
                            ELSE {CandidateAt(c, h, pv) : pv \in VersionsOf(c)}
<1>1. CASE agent = "codex"
  BY <1>1 DEF Candidates, CodexCandidates, CandidateAt, ChildrenOf, BundleOf, VersionsOf
<1>2. CASE agent = "claude"
  <2>1. h = 1
    BY <1>2 DEF Homes
  <2> QED BY <1>2, <2>1 DEF Candidates, ClaudeCandidates, CandidateAt, ChildrenOf, BundleOf, VersionsOf
<1> QED BY <1>1, <1>2, ScanAssumption

\* The candidates of a home are finitely many, each known by its name and version.
OneEach(Q, h) ==
  /\ IsFiniteSet(Q)
  /\ \A x \in Q : x.at[1] = "cache" /\ x.at[2] = h
  /\ \A x, y \in Q : x.name = y.name /\ x.version = y.version => x = y
LEMMA CandidatesAreOne ==
  ASSUME NEW c \in Caches, NEW h \in Homes, agent \in Agent
  PROVE  OneEach(Candidates(c, h), h)
<1> DEFINE P == VersionsOf(c)  f == [pv \in P |-> CandidateAt(c, h, pv)]  T == {f[pv] : pv \in P}
<1>1. IsFiniteSet(P) /\ DOMAIN f = P /\ T = {f[pv] : pv \in P}
  BY VersionsAreFinite
<1>2. T = {CandidateAt(c, h, pv) : pv \in P}
  OBVIOUS
<1> HIDE DEF f, T
<1>3. IsFiniteSet(T)
  BY <1>1, ImagesAreFinite
<1>4. Candidates(c, h) \in {{}, T}
  BY <1>2, CandidatesAre
<1>5. OneEach(T, h)
  <2>1. ASSUME NEW x \in T PROVE x.at[1] = "cache" /\ x.at[2] = h
    BY <1>2 DEF CandidateAt, Candidate
  <2>2. ASSUME NEW x \in T, NEW y \in T, x.name = y.name, x.version = y.version PROVE x = y
    <3>1. PICK pv \in P : x = CandidateAt(c, h, pv)
      BY <1>2
    <3>2. PICK qw \in P : y = CandidateAt(c, h, qw)
      BY <1>2
    <3>3. pv[1] = qw[1] /\ pv[2] = qw[2]
      BY <2>2, <3>1, <3>2 DEF CandidateAt, Candidate
    <3>4. pv = <<pv[1], pv[2]>> /\ qw = <<qw[1], qw[2]>>
      BY VersionsAre
    <3> QED BY <3>1, <3>2, <3>3, <3>4
  <2> QED BY <1>3, <2>1, <2>2 DEF OneEach
<1>6. OneEach({}, h)
  BY FS_EmptySet DEF OneEach
<1> QED BY <1>4, <1>5, <1>6
-----------------------------------------------------------------------------
(* Candidates and configured plugins.                                      *)

LEMMA OnlyOne == \A x : Only({x}) = x
BY DEF Only

\* A configured plugin owns at most one candidate.
LEMMA OwnedIsOne ==
  ASSUME NEW Q, NEW h, OneEach(Q, h), NEW a, NEW p, NEW x \in Owned(Q, a, p)
  PROVE  x \in Q /\ x.name = p /\ Owned(Q, a, p) = {x}
<1>1. Owned(Q, a, p) \subseteq OfName(Q, p) /\ OfName(Q, p) \subseteq Q
  BY DEF Owned, OwnedCodex, OwnedClaude, OfName
<1>2. x \in Q /\ x.name = p
  BY <1>1 DEF OfName
<1>3. CASE Cardinality(OfName(Q, p)) = 1
  <2>1. OfName(Q, p) \in SUBSET Q /\ IsFiniteSet(Q)
    BY <1>1 DEF OneEach
  <2>2. IsFiniteSet(OfName(Q, p))
    BY <2>1, FS_Subset
  <2>3. PICK y : OfName(Q, p) = {y}
    BY <1>3, <2>2, FS_Singleton
  <2> QED BY <1>1, <1>2, <2>3
<1>4. CASE Cardinality(OfName(Q, p)) # 1
  <2>1. \A y \in Owned(Q, a, p) : y \in OfName(Q, p) /\ y.version = a[p]
    BY <1>4 DEF Owned, OwnedCodex, OwnedClaude
  <2>2. \A y \in Owned(Q, a, p) : y \in Q /\ y.name = p
    BY <1>1 DEF OfName
  <2>3. \A y \in Owned(Q, a, p) : y = x
    BY <2>1, <2>2 DEF OneEach
  <2> QED BY <1>2, <2>3
<1> QED BY <1>3, <1>4

\* Every configured plugin is described, and so is every candidate.
Tells(d, p) == d.name = p /\ d.cached = FALSE
LEMMA ConfiguredIsDescribed ==
  ASSUME NEW conf, NEW Q, NEW a, NEW h, NEW p \in DOMAIN conf
  PROVE  \E d \in Descriptors(conf, Q, a, h) : Tells(d, p)
<1> DEFINE d == Merged(p, conf[p], h, Owned(Q, a, p))
<1>1. d \in Descriptors(conf, Q, a, h)
  BY DEF Descriptors
<1>2. Tells(d, p)
  BY DEF Merged, Plugin, Tells
<1> QED BY <1>1, <1>2

LEMMA CandidateIsDescribed ==
  ASSUME NEW conf, NEW Q, NEW a, NEW h, OneEach(Q, h), NEW x \in Q
  PROVE  \E d \in Descriptors(conf, Q, a, h) :
            d.name = x.name /\ d.version = x.version /\ d.at = x.at /\ d.children = x.children
<1>1. CASE \E p \in DOMAIN conf : x \in Owned(Q, a, p)
  <2>1. PICK p \in DOMAIN conf : x \in Owned(Q, a, p)
    BY <1>1
  <2>2. x.name = p /\ Owned(Q, a, p) = {x}
    BY <2>1, OwnedIsOne
  <2>3. Merged(p, conf[p], h, Owned(Q, a, p)) = Plugin(p, x.version, x.at, FALSE, conf[p], x.children)
    BY <2>2, OnlyOne DEF Merged
  <2>4. Merged(p, conf[p], h, Owned(Q, a, p)) \in Descriptors(conf, Q, a, h)
    BY <2>1 DEF Descriptors
  <2> QED BY <2>2, <2>3, <2>4 DEF Plugin
<1>2. CASE ~\E p \in DOMAIN conf : x \in Owned(Q, a, p)
  <2> DEFINE d == Plugin(x.name, x.version, x.at, TRUE, FALSE, x.children)
  <2>1. x \in Q \ UNION {Owned(Q, a, p) : p \in DOMAIN conf}
    BY <1>2
  <2>2. d \in Descriptors(conf, Q, a, h)
    BY <2>1 DEF Descriptors
  <2> QED BY <2>2 DEF Plugin
<1> QED BY <1>1, <1>2

\* Where a descriptor comes from.
Describes(d, conf, Q, a, h) ==
  /\ d.at[2] = h /\ d.cached \in BOOLEAN
  /\ d.children = {} \/ \E x \in Q : d.children = x.children
  /\ d.cached = FALSE => /\ d.name \in DOMAIN conf /\ d.enabled = conf[d.name]
                         /\ d.version # 0 => \E x \in Owned(Q, a, d.name) : x.version = d.version
LEMMA DescribedIs ==
  ASSUME NEW conf, NEW Q, NEW a, NEW h, OneEach(Q, h), NEW d \in Descriptors(conf, Q, a, h)
  PROVE  Describes(d, conf, Q, a, h)
<1>1. CASE \E p \in DOMAIN conf : d = Merged(p, conf[p], h, Owned(Q, a, p))
  <2>1. PICK p \in DOMAIN conf : d = Merged(p, conf[p], h, Owned(Q, a, p))
    BY <1>1
  <2>2. CASE Owned(Q, a, p) = {}
    <3>1. d = Plugin(p, 0, <<"config", h>>, FALSE, conf[p], {})
      BY <2>1, <2>2 DEF Merged
    <3> QED BY <2>1, <3>1 DEF Plugin, Describes
  <2>3. CASE Owned(Q, a, p) # {}
    <3>1. PICK x \in Owned(Q, a, p) : TRUE
      BY <2>3
    <3>2. x \in Q /\ Owned(Q, a, p) = {x}
      BY <3>1, OwnedIsOne
    <3>3. d = Plugin(p, x.version, x.at, FALSE, conf[p], x.children)
      BY <2>1, <2>3, <3>2, OnlyOne DEF Merged
    <3>4. x.at[2] = h
      BY <3>2 DEF OneEach
    <3>5. d.at = x.at /\ d.cached = FALSE /\ d.children = x.children /\ d.name = p /\ d.version = x.version /\ d.enabled = conf[p]
      BY <3>3 DEF Plugin
    <3> QED BY <2>1, <3>1, <3>2, <3>4, <3>5 DEF Describes
  <2> QED BY <2>2, <2>3
<1>2. CASE \E x \in Q : d = Plugin(x.name, x.version, x.at, TRUE, FALSE, x.children)
  <2>1. PICK x \in Q : d = Plugin(x.name, x.version, x.at, TRUE, FALSE, x.children)
    BY <1>2
  <2>2. x.at[2] = h
    BY DEF OneEach
  <2>3. d.at = x.at /\ d.cached = TRUE /\ d.children = x.children
    BY <2>1 DEF Plugin
  <2> QED BY <2>2, <2>3 DEF Describes
<1> QED BY <1>1, <1>2 DEF Descriptors

\* Of descriptors that differ in their place only, one is kept.
LEMMA OneIsKept ==
  ASSUME NEW ds, \A d \in ds : d.at[2] \in Nat, NEW d \in ds
  PROVE  \E e \in Deduplicated(ds) : ExactKeyEquals(d, e)
<1> DEFINE S == {e \in ds : ExactKeyEquals(d, e)}  T == {e.at[2] : e \in S}
<1>1. d \in S
  BY DEF ExactKeyEquals, SameContents
<1>2. T \subseteq Nat /\ T # {}
  BY <1>1
<1>3. PICK n \in T : \A m \in T : n <= m
  BY <1>2, LeastOf
<1>4. PICK e \in S : n = e.at[2]
  BY <1>3
<1>5. ASSUME NEW f \in ds, ExactKeyEquals(e, f), f.at[2] < e.at[2] PROVE FALSE
  <2>1. ExactKeyEquals(d, e)
    BY <1>4
  <2>2. ExactKeyEquals(d, f)
    BY <1>5, <2>1 DEF ExactKeyEquals, SameContents
  <2>3. f.at[2] \in T
    BY <1>5, <2>2
  <2>4. n <= f.at[2] /\ n \in Nat /\ f.at[2] \in Nat
    BY <1>2, <1>3, <2>3
  <2> QED BY <1>4, <1>5, <2>4
<1>6. e \in Deduplicated(ds)
  BY <1>4, <1>5 DEF Deduplicated
<1> QED BY <1>4, <1>6
-----------------------------------------------------------------------------
(* What an inventory shows of what was read.                               *)

Shown == IF agent = "codex" THEN Deduplicated(scan.plugins) ELSE scan.plugins

LEMMA HomesAreNumbers == agent \in Agent => Homes \subseteq Home /\ Homes \subseteq Nat /\ 1 \in Homes
<1>1. IsFiniteSet(Home) /\ Home = 1 .. Cardinality(Home) /\ 1 \in Home
  BY ScanAssumption
<1>2. Cardinality(Home) \in Nat
  BY <1>1, FS_CardinalityType
<1> QED BY <1>1, <1>2 DEF Homes

LEMMA ShownIs ==
  ASSUME agent \in Agent, \A d \in scan.plugins : PluginWas(d), NEW d \in scan.plugins
  PROVE  \E e \in Shown : /\ e.name = d.name /\ e.version = d.version /\ e.cached = d.cached
                          /\ SameContents(d.children, e.children)
                          /\ agent = "claude" => e = d
<1>1. CASE agent = "claude"
  BY <1>1 DEF Shown, SameContents
<1>2. CASE agent = "codex"
  <2>1. ASSUME NEW x \in scan.plugins PROVE x.at[2] \in Nat
    <3>1. PICK h \in Homes, o \in Configs, c \in Caches, a \in Pointers \cup {<<>>} : x \in Joined(o, c, a, h)
      BY DEF PluginWas
    <3>2. OneEach(Candidates(c, h), h)
      BY CandidatesAreOne
    <3>4. x \in Descriptors(Configured(o), Candidates(c, h), a, h)
      BY <3>1 DEF Joined
    <3>3. Describes(x, Configured(o), Candidates(c, h), a, h)
      BY <3>2, <3>4, DescribedIs
    <3>5. x.at[2] = h
      BY <3>3 DEF Describes
    <3> QED BY <3>5, HomesAreNumbers
  <2>2. PICK e \in Deduplicated(scan.plugins) : ExactKeyEquals(d, e)
    BY <2>1, OneIsKept
  <2>3. e.name = d.name /\ e.version = d.version /\ e.cached = d.cached /\ SameContents(d.children, e.children)
    BY <2>2 DEF ExactKeyEquals
  <2> QED BY <1>2, <2>2, <2>3 DEF Shown
<1> QED BY <1>1, <1>2, ScanAssumption

LEMMA GraphIs ==
  GraphOf(scan) = StandaloneNodes(scan.children) \cup {PluginNode(d) : d \in Shown}
                    \cup UNION {ChildNodes(d) : d \in Shown}
BY DEF GraphOf, Shown

LEMMA StandaloneIsListed ==
  ASSUME NEW s \in scan.children PROVE \E n \in GraphOf(scan) : n.at = s.at /\ n.kind = s.kind /\ n.name = s.name
<1> DEFINE n == Node(s.kind, s.name, 0, s.at, <<>>, FALSE, s.enabled)
<1>1. n \in StandaloneNodes(scan.children)
  BY DEF StandaloneNodes
<1>2. n \in GraphOf(scan)
  BY <1>1, GraphIs
<1> QED BY <1>2 DEF Node

LEMMA PluginIsListed ==
  ASSUME agent \in Agent, \A d \in scan.plugins : PluginWas(d), NEW d \in scan.plugins
  PROVE  \E n \in GraphOf(scan) : n.kind = "plugin" /\ n.name = d.name /\ n.version = d.version /\ n.cached = d.cached
<1>1. PICK e \in Shown : e.name = d.name /\ e.version = d.version /\ e.cached = d.cached
  BY ShownIs
<1>2. PluginNode(e) \in GraphOf(scan)
  BY <1>1, GraphIs
<1> QED BY <1>1, <1>2 DEF PluginNode, Node

LEMMA ChildNodeIs ==
  ASSUME NEW d, NEW s \in d.children
  PROVE  \E n \in ChildNodes(d) : n.kind = s.kind /\ n.name = s.name /\ n.at = s.at
<1>1. CASE agent = "codex"
  <2> DEFINE n == Node(s.kind, s.name, 0, s.at, d.at, d.cached, d.enabled /\ ~d.cached /\ s.enabled)
  <2>1. n \in ChildNodes(d)
    BY <1>1 DEF ChildNodes, CodexChildNodes
  <2> QED BY <2>1 DEF Node
<1>2. CASE agent # "codex"
  <2> DEFINE n == Node(s.kind, s.name, 0, s.at, d.at, FALSE, d.enabled /\ ~d.cached /\ s.enabled)
  <2>1. n \in ChildNodes(d)
    BY <1>2 DEF ChildNodes, ClaudeChildNodes
  <2> QED BY <2>1 DEF Node
<1> QED BY <1>1, <1>2

LEMMA ChildIsListed ==
  ASSUME agent \in Agent, \A d \in scan.plugins : PluginWas(d), NEW d \in scan.plugins, NEW s \in d.children
  PROVE  \E n \in GraphOf(scan) : n.kind = s.kind /\ n.name = s.name /\ (agent = "claude" => n.at = s.at)
<1>1. PICK e \in Shown : SameContents(d.children, e.children) /\ (agent = "claude" => e = d)
  BY ShownIs
<1>2. PICK t \in e.children : t.kind = s.kind /\ t.name = s.name /\ (agent = "claude" => t = s)
  <2>1. CASE agent = "claude"
    BY <1>1, <2>1
  <2>2. CASE agent # "claude"
    <3>1. <<s.kind, s.name, s.enabled>> \in {<<t.kind, t.name, t.enabled>> : t \in e.children}
      BY <1>1 DEF SameContents
    <3> QED BY <2>2, <3>1
  <2> QED BY <2>1, <2>2
<1>3. PICK n \in ChildNodes(e) : n.kind = t.kind /\ n.name = t.name /\ n.at = t.at
  BY ChildNodeIs
<1>4. n \in GraphOf(scan)
  BY <1>1, <1>3, GraphIs
<1> QED BY <1>2, <1>3, <1>4

-----------------------------------------------------------------------------
(* What a complete inventory is worth.                                     *)

Whole ==
  /\ scan.gaps = {} /\ scan.todo = <<>> /\ Underway
  /\ agent \in Agent /\ row.snapshot = GraphOf(scan)

LEMMA NothingToRead == scan.todo = <<>> => \A place : ~ToRead(place)
BY DEF ToRead

LEMMA SkillsAreListed == Whole => SkillsListed(scan.was)
<1> SUFFICES ASSUME Whole,
                    NEW r \in IF agent = "codex" THEN {"user"} ELSE DOMAIN scan.was.roots,
                    Still(<<"skills", r>>), NEW e \in Visible(scan.was.roots[r])
             PROVE  LET entry == scan.was.roots[r].entries[e] IN
                    \/ entry.type = "dir" /\ entry.file.is = "absent"
                    \/ r = "personal" /\ entry.file.name \in Reserved
                    \/ ListedAt(<<"skills", r, e>>)
  BY DEF SkillsListed
<1> DEFINE root == scan.was.roots[r]  at == <<"skills", r>>
<1>1. r \in Roots /\ root \in SkillRoots
  BY DEF Whole, Underway, Hosts, Roots
<1>2. RootRead(r)
  BY <1>1, NothingToRead DEF Whole, Underway
<1>3. SkillRootGaps(root, at) = {} /\ {s \in SkillsIn(root, at) : r = "personal" => s.name \notin Reserved} \subseteq scan.children
  BY <1>2 DEF RootRead, RootWas, Whole
<1>4. IsDirectory(root)
  BY <1>1, ScanAssumption
<1>5. CASE root.entries[e].type = "dir" /\ ReadConfigProbe(root.entries[e].file) = "absent"
  BY <1>5 DEF ReadConfigProbe
<1>6. CASE SkillOf(root, e, at) \in SkillsIn(root, at)
  <2> DEFINE s == SkillOf(root, e, at)
  <2>1. s.name = root.entries[e].file.name /\ s.at = <<"skills", r, e>>
    BY Appends2 DEF SkillOf, Child
  <2>2. CASE r = "personal" /\ s.name \in Reserved
    BY <2>1, <2>2
  <2>3. CASE ~(r = "personal" /\ s.name \in Reserved)
    <3>1. s \in scan.children
      BY <1>3, <1>6, <2>3
    <3>2. ListedAt(s.at)
      BY <3>1, StandaloneIsListed DEF ListedAt, Graph, Whole
    <3> QED BY <2>1, <3>2
  <2> QED BY <2>2, <2>3
<1> QED BY <1>3, <1>4, <1>5, <1>6, SkillsShown

\* What was read of a home that was left alone.
LEMMA HomeIsRead ==
  ASSUME Whole, NEW h \in Homes
  PROVE  \E o \in Configs, c \in Caches, a \in Pointers \cup {<<>>} :
           /\ ConfigWas(h, o) /\ CacheWas(h, c) /\ ConfigRead(h, o) /\ CacheRead(c)
           /\ Joined(o, c, a, h) \subseteq scan.plugins
BY NothingToRead DEF Whole, Underway, HomeRead

LEMMA ConfigsAreListed == Whole => ConfigListed(scan.was)
<1> SUFFICES ASSUME Whole, NEW x \in Homes, Still(<<"config", x>>),
                    scan.was.config[x].is # "absent",
                    agent = "claude" => scan.was.config[x].parses /\ scan.was.config[x].is # "big"
             PROVE  /\ \A p \in DOMAIN scan.was.config[x].plugins : \E n \in PluginNodes : n.name = p /\ ~n.cached
                    /\ \A s \in DOMAIN scan.was.config[x].servers : ListedAt(<<"config", x, s>>)
  BY DEF ConfigListed
<1>1. PICK o \in Configs, c \in Caches, a \in Pointers \cup {<<>>} :
           /\ ConfigWas(x, o) /\ ConfigRead(x, o)
           /\ Joined(o, c, a, x) \subseteq scan.plugins
  BY HomeIsRead
<1>2. o = scan.was.config[x]
  BY <1>1 DEF ConfigWas
<1>3. agent \in {"codex", "claude"} /\ scan.gaps = {} /\ row.snapshot = GraphOf(scan)
  BY ScanAssumption DEF Whole
<1>4. Parsed(o)
  <2>1. CASE agent = "codex"
    <3>1. ReadConfigProbe(o) \in {"absent", "read"}
      BY <1>1, <2>1 DEF ConfigRead
    <3>2. ReadConfigProbe(o) # "absent"
      BY <1>2 DEF ReadConfigProbe
    <3> QED BY <2>1, <3>1, <3>2 DEF Parsed
  <2>2. CASE agent = "claude"
    <3>1. ReadConfigProbe(o) # "refused"
      BY <1>1, <1>3, <2>2 DEF ConfigRead
    <3>2. ReadConfigProbe(o) \notin {"absent", "truncated"}
      BY <1>2, <2>2 DEF ReadConfigProbe
    <3> QED BY <1>2, <2>2, <3>1, <3>2, ConfigProbes DEF Parsed
  <2> QED BY <1>3, <2>1, <2>2
<1>5. ASSUME NEW p \in DOMAIN o.plugins PROVE \E n \in PluginNodes : n.name = p /\ ~n.cached
  <2>1. p \in DOMAIN Configured(o)
    BY <1>4 DEF Configured
  <2>2. PICK d \in Joined(o, c, a, x) : d.name = p /\ d.cached = FALSE
    <3> DEFINE conf == Configured(o)  Q == Candidates(c, x)
    <3>1. Joined(o, c, a, x) = Descriptors(conf, Q, a, x) /\ p \in DOMAIN conf
      BY <2>1 DEF Joined
    <3> HIDE DEF conf, Q
    <3>2. \E d \in Descriptors(conf, Q, a, x) : Tells(d, p)
      BY <3>1, ConfiguredIsDescribed
    <3> QED BY <3>1, <3>2 DEF Tells
  <2>3. PICK n \in GraphOf(scan) : n.kind = "plugin" /\ n.name = d.name /\ n.cached = d.cached
    BY <1>1, PluginIsListed DEF Whole, Underway
  <2> QED BY <1>3, <2>2, <2>3 DEF PluginNodes, Graph
<1>6. ASSUME NEW s \in DOMAIN o.servers PROVE ListedAt(<<"config", x, s>>)
  <2> DEFINE t == Child("mcp", s, <<"config", x, s>>, o.servers[s])
  <2>1. t \in scan.children
    BY <1>1, <1>4 DEF ConfigRead, Servers
  <2>2. ListedAt(t.at)
    BY <1>3, <2>1, StandaloneIsListed DEF ListedAt, Graph
  <2> QED BY <2>2 DEF Child
<1> QED BY <1>2, <1>5, <1>6

\* A bundle without gaps and within the limits shows its skills.
LEMMA BundleIsShown ==
  ASSUME NEW c \in Caches, CacheRead(c), scan.gaps = {}, agent \in Agent, NEW pv \in VersionsOf(c), NEW h \in Homes,
         NEW e \in DirectoryNames(BundleOf(c, pv).skills),
         BundleOf(c, pv).skills.entries[e].file.is \in {"file", "big"},
         BundleOf(c, pv).skills.entries[e].file.name # Nameless
  PROVE  \E s \in ChildrenOf(c, h, pv) : s.kind = "skill" /\ s.name = BundleOf(c, pv).skills.entries[e].file.name
<1> DEFINE root == BundleOf(c, pv).skills  at == <<"cache", h, pv[1], pv[2]>>  s == SkillOf(root, e, at)
           dir == c.entries[pv[1]].dir
<1>1. /\ IsDirectory(root) /\ e \in Visible(root) /\ root.entries[e].type = "dir"
  BY VersionsAre, DirectoriesList DEF DirectoryNames
<1>2. s.kind = "skill" /\ s.name = root.entries[e].file.name /\ s.at[5] = e
  BY Appends4 DEF SkillOf, Child
<1>3. CASE agent = "codex"
  <2>1. PICK left \in 0 .. MaxCached : ~CodexCacheFails(c, left)
    BY <1>3 DEF CacheRead, Walked
  <2>2. pv[1] \in DirectoryNames(c) /\ pv[2] \in DirectoryNames(dir)
    BY <1>3, VersionsAre
  <2>3. ~CodexSkillRootFails(root)
    BY <2>1, <2>2 DEF CodexCacheFails, BundleOf
  <2>4. ~Unreadable(root) /\ ReadConfigProbe(root.entries[e].file) \notin {"refused", "truncated"}
    BY <2>3 DEF CodexSkillRootFails
  <2>5. ReadConfigProbe(root.entries[e].file) = "read"
    BY <2>4, ConfigProbes DEF ReadConfigProbe
  <2>6. s \in SkillsIn(root, at)
    BY <1>1, <2>4, <2>5 DEF SkillsIn, SkillOf
  <2>7. s \in ChildrenOf(c, h, pv)
    BY <1>1, <1>2, <1>3, <2>6 DEF ChildrenOf
  <2> QED BY <1>2, <2>7
<1>4. CASE agent = "claude"
  <2>1. ClaudeCacheGaps(c) = {} /\ h = 1
    BY <1>4 DEF CacheRead, Homes
  <2>2. ~Unreadable(c) /\ pv \in ClaudeVersions(c)
    BY <1>4, <2>1 DEF ClaudeCacheGaps, VersionsOf
  <2>3. ClaudeChildGaps(at, BundleOf(c, pv)) = {}
    BY <2>1, <2>2 DEF ClaudeCacheGaps, BundleOf
  <2>4. SkillRootGaps(root, at) = {}
    BY <2>3 DEF ClaudeChildGaps
  <2>5. ReadConfigProbe(root.entries[e].file) # "absent"
    BY DEF ReadConfigProbe
  <2>6. s \in SkillsIn(root, at)
    BY <1>1, <2>4, <2>5, SkillsShown
  <2>7. s \in ChildrenOf(c, h, pv)
    BY <1>4, <2>6 DEF ChildrenOf, ClaudeChildren
  <2> QED BY <1>2, <2>7
<1> QED BY <1>3, <1>4, ScanAssumption

\* So does what Claude finds of servers in one.
LEMMA ServerIsShown ==
  ASSUME NEW c \in Caches, CacheRead(c), scan.gaps = {}, agent = "claude", NEW pv \in VersionsOf(c),
         BundleOf(c, pv).mcp.is # "absent"
  PROVE  \E s \in ChildrenOf(c, 1, pv) : s.at = <<"cache", 1, pv[1], pv[2]>>
<1> DEFINE o == BundleOf(c, pv).mcp  at == <<"cache", 1, pv[1], pv[2]>>  s == Child("mcp", o.name, at, TRUE)
<1>1. ClaudeCacheGaps(c) = {}
  BY DEF CacheRead
<1>2. ~Unreadable(c) /\ pv \in ClaudeVersions(c)
  BY <1>1 DEF ClaudeCacheGaps, VersionsOf
<1>3. ClaudeChildGaps(at, BundleOf(c, pv)) = {}
  BY <1>1, <1>2 DEF ClaudeCacheGaps, BundleOf
<1>4. DeclarationGaps(o, at \o <<"mcp">>) = {}
  BY <1>3 DEF ClaudeChildGaps
<1>5. ReadConfigProbe(o) # "absent"
  BY DEF ReadConfigProbe
<1>6. ReadConfigProbe(o) = "read" /\ o.name # Nameless
  BY <1>4, <1>5, ConfigProbes DEF DeclarationGaps
<1>7. s \in ServersIn(o, at)
  BY <1>6 DEF ServersIn
<1>8. s \in ChildrenOf(c, 1, pv)
  BY <1>7 DEF ChildrenOf, ClaudeChildren
<1> QED BY <1>8 DEF Child

LEMMA CachesAreListed == Whole => CacheListed(scan.was)
<1> SUFFICES ASSUME Whole, NEW x \in Homes, Still(<<"cache", x>>),
                    NEW pv \in IF agent = "codex" THEN CodexVersions(scan.was.cache[x]) ELSE ClaudeVersions(scan.was.cache[x])
             PROVE  LET b == scan.was.cache[x].entries[pv[1]].dir.entries[pv[2]] IN
      /\ \E n \in PluginNodes : n.name = pv[1] /\ n.version = pv[2]
      /\ \A e \in DirectoryNames(b.skills) :
           b.skills.entries[e].file.is \in {"file", "big"} /\ b.skills.entries[e].file.name # Nameless
             => \E n \in Graph : n.kind = "skill" /\ n.name = b.skills.entries[e].file.name
      /\ agent = "claude" /\ b.mcp.is # "absent" => ListedAt(<<"cache", x>> \o pv)
  BY DEF CacheListed
<1>1. PICK o \in Configs, c \in Caches, a \in Pointers \cup {<<>>} :
           /\ CacheWas(x, c) /\ CacheRead(c)
           /\ Joined(o, c, a, x) \subseteq scan.plugins
  BY HomeIsRead
<1>2. c = scan.was.cache[x] /\ pv \in VersionsOf(c)
  BY <1>1 DEF CacheWas, VersionsOf
<1>3. agent \in Agent /\ scan.gaps = {} /\ Graph = GraphOf(scan) /\ \A d \in scan.plugins : PluginWas(d)
  BY DEF Whole, Underway, Graph
<1>4. CandidateAt(c, x, pv) \in Candidates(c, x)
  <2>1. ~(agent = "claude" /\ Unreadable(c))
    BY <1>1, <1>3 DEF CacheRead, ClaudeCacheGaps
  <2> QED BY <1>2, <1>3, <2>1, CandidatesAre
<1>5. PICK d \in Joined(o, c, a, x) : /\ d.name = pv[1] /\ d.version = pv[2]
                                      /\ d.children = ChildrenOf(c, x, pv)
  <2> DEFINE y == CandidateAt(c, x, pv)
  <2>1. y.name = pv[1] /\ y.version = pv[2] /\ y.children = ChildrenOf(c, x, pv)
    BY DEF CandidateAt, Candidate
  <2>2. OneEach(Candidates(c, x), x)
    BY <1>3, CandidatesAreOne
  <2> HIDE DEF y
  <2>3. PICK d \in Descriptors(Configured(o), Candidates(c, x), a, x) :
          d.name = y.name /\ d.version = y.version /\ d.children = y.children
    BY <1>4, <2>2, CandidateIsDescribed DEF y
  <2> QED BY <2>1, <2>3 DEF Joined
<1>6. d \in scan.plugins
  BY <1>1
<1>7. \E n \in PluginNodes : n.name = pv[1] /\ n.version = pv[2]
  BY <1>3, <1>5, <1>6, PluginIsListed DEF PluginNodes
<1>8. ASSUME NEW e \in DirectoryNames(BundleOf(c, pv).skills),
             BundleOf(c, pv).skills.entries[e].file.is \in {"file", "big"},
             BundleOf(c, pv).skills.entries[e].file.name # Nameless
      PROVE  \E n \in Graph : n.kind = "skill" /\ n.name = BundleOf(c, pv).skills.entries[e].file.name
  <2>1. PICK s \in d.children : s.kind = "skill" /\ s.name = BundleOf(c, pv).skills.entries[e].file.name
    BY <1>1, <1>2, <1>3, <1>5, <1>8, BundleIsShown
  <2>2. PICK n \in GraphOf(scan) : n.kind = s.kind /\ n.name = s.name
    BY <1>3, <1>6, ChildIsListed
  <2> QED BY <1>3, <2>1, <2>2
<1>9. ASSUME agent = "claude", BundleOf(c, pv).mcp.is # "absent" PROVE ListedAt(<<"cache", x>> \o pv)
  <2>1. x = 1 /\ pv = <<pv[1], pv[2]>>
    BY <1>2, <1>3, <1>9, VersionsAre DEF Homes
  <2>2. PICK s \in d.children : s.at = <<"cache", 1, pv[1], pv[2]>>
    BY <1>1, <1>2, <1>3, <1>5, <1>9, <2>1, ServerIsShown
  <2>3. PICK n \in GraphOf(scan) : n.at = s.at
    BY <1>3, <1>6, <1>9, ChildIsListed
  <2>4. <<"cache", 1>> \o <<pv[1], pv[2]>> = <<"cache", 1, pv[1], pv[2]>>
    BY Pairs4
  <2>5. <<"cache", x>> \o pv = s.at
    BY <2>1, <2>2, <2>4
  <2> QED BY <1>3, <2>3, <2>5 DEF ListedAt
<1> QED BY <1>2, <1>7, <1>8, <1>9 DEF BundleOf
LEMMA WholeIsWhole == Whole => SkillsListed(scan.was) /\ ConfigListed(scan.was) /\ CacheListed(scan.was)
BY SkillsAreListed, ConfigsAreListed, CachesAreListed

\* Where the nodes of a graph come from.
Seen == Underway /\ agent \in Agent /\ Graph = GraphOf(scan)
ChildNodeOf(n, d, s) == n = Node(s.kind, s.name, 0, s.at, d.at, agent = "codex" /\ d.cached, d.enabled /\ ~d.cached /\ s.enabled)
LEMMA NodeIs ==
  ASSUME Seen, NEW n \in Graph
  PROVE  \/ \E s \in scan.children : n = Node(s.kind, s.name, 0, s.at, <<>>, FALSE, s.enabled)
         \/ \E d \in Shown : n = PluginNode(d)
         \/ \E d \in Shown : n \in ChildNodes(d)
BY GraphIs DEF Seen, StandaloneNodes

LEMMA ShownIsSeen == Shown \subseteq scan.plugins
BY DEF Shown, Deduplicated

\* What a bundle holds is no plugin.
LEMMA BundlesHoldNoPlugins ==
  ASSUME NEW c, NEW h, NEW pv, NEW s \in ChildrenOf(c, h, pv) PROVE s.kind # "plugin"
<1> DEFINE b == BundleOf(c, pv)  at == <<"cache", h, pv[1], pv[2]>>
<1>1. \A t \in SkillsIn(b.skills, at) : t.kind # "plugin"
  BY SkillsAreSkills
<1>2. ASSUME NEW t \in MarkdownIn("subagent", b.agents, at) PROVE t.kind # "plugin"
  <2>1. ~Unreadable(b.agents)
    BY DEF MarkdownIn
  <2>2. PICK name, place : t = Child("subagent", name, place, TRUE)
    BY <2>1 DEF MarkdownIn
  <2> QED BY <2>2 DEF Child
<1>3. \A t \in HooksIn(b.hooks, at) \cup ServersIn(b.mcp, at) : t.kind # "plugin"
  BY DEF HooksIn, ServersIn, Child
<1> QED BY <1>1, <1>2, <1>3 DEF ChildrenOf, ClaudeChildren

LEMMA CandidatesHoldNoPlugins ==
  ASSUME NEW c \in Caches, NEW h \in Homes, agent \in Agent, NEW x \in Candidates(c, h), NEW s \in x.children
  PROVE  s.kind # "plugin"
<1>1. PICK pv \in VersionsOf(c) : x = CandidateAt(c, h, pv)
  BY CandidatesAre
<1>2. x.children = ChildrenOf(c, h, pv)
  BY <1>1 DEF CandidateAt, Candidate
<1> QED BY <1>2, BundlesHoldNoPlugins

LEMMA ShownAreDescribed ==
  ASSUME Seen, NEW d \in Shown
  PROVE  \E h \in Homes, o \in Configs, c \in Caches, a \in Pointers \cup {<<>>} :
           /\ ConfigWas(h, o) /\ CacheWas(h, c) /\ PointerWas(a)
           /\ Describes(d, Configured(o), Candidates(c, h), a, h)
<1>1. d \in scan.plugins
  BY ShownIsSeen
<1>2. PICK h \in Homes, o \in Configs, c \in Caches, a \in Pointers \cup {<<>>} :
        ConfigWas(h, o) /\ CacheWas(h, c) /\ PointerWas(a) /\ d \in Joined(o, c, a, h)
  BY <1>1 DEF Seen, Underway, PluginWas
<1>3. OneEach(Candidates(c, h), h)
  BY CandidatesAreOne DEF Seen
<1>4. d \in Descriptors(Configured(o), Candidates(c, h), a, h)
  BY <1>2 DEF Joined
<1>5. Describes(d, Configured(o), Candidates(c, h), a, h)
  BY <1>3, <1>4, DescribedIs
<1> QED BY <1>2, <1>5

LEMMA ChildrenAreNoPlugins == ASSUME Seen, NEW d \in Shown, NEW s \in d.children PROVE s.kind # "plugin"
<1>1. PICK h \in Homes, o \in Configs, c \in Caches, a \in Pointers \cup {<<>>} :
        Describes(d, Configured(o), Candidates(c, h), a, h)
  BY ShownAreDescribed
<1>2. PICK x \in Candidates(c, h) : s \in x.children
  BY <1>1 DEF Describes
<1> QED BY <1>2, CandidatesHoldNoPlugins DEF Seen

LEMMA ChildNodesAre ==
  ASSUME NEW d, NEW n \in ChildNodes(d)
  PROVE  \E s \in d.children : /\ n.kind = s.kind /\ n.owner = d.at
                               /\ n.enabled => d.enabled /\ ~d.cached
                               /\ n.cached => d.cached
<1>1. CASE agent = "codex"
  <2>1. PICK s \in d.children : n = Node(s.kind, s.name, 0, s.at, d.at, d.cached, d.enabled /\ ~d.cached /\ s.enabled)
    BY <1>1 DEF ChildNodes, CodexChildNodes
  <2> QED BY <2>1 DEF Node
<1>2. CASE agent # "codex"
  <2>1. PICK s \in d.children : n = Node(s.kind, s.name, 0, s.at, d.at, FALSE, d.enabled /\ ~d.cached /\ s.enabled)
    BY <1>2 DEF ChildNodes, ClaudeChildNodes
  <2> QED BY <2>1 DEF Node
<1> QED BY <1>1, <1>2

LEMMA PluginNodesAre == ASSUME Seen, NEW n \in Graph, n.kind = "plugin" PROVE \E d \in Shown : n = PluginNode(d)
<1>1. ASSUME NEW s \in scan.children, n = Node(s.kind, s.name, 0, s.at, <<>>, FALSE, s.enabled) PROVE FALSE
  BY <1>1 DEF Node, Seen, Underway
<1>2. ASSUME NEW d \in Shown, n \in ChildNodes(d) PROVE FALSE
  BY <1>2, ChildNodesAre, ChildrenAreNoPlugins
<1> QED BY <1>1, <1>2, NodeIs

LEMMA OwnersAreCertain == Seen => OwnershipIsCertain
<1> SUFFICES ASSUME Seen, NEW n \in PluginNodes, ~n.cached, n.version # 0,
                    Still(<<"cache", n.at[2]>>), Still(<<"active", 1>>)
             PROVE  LET dir == scan.was.cache[n.at[2]].entries[n.name].dir IN
    \/ (IF agent = "codex" THEN DirectoryNames(dir) ELSE Lowest(Visible(dir), MaxVersions)) = {n.version}
    \/ agent = "claude" /\ <<n.name, n.version>> \in {<<p, scan.was.active[p]>> : p \in DOMAIN scan.was.active}
  BY DEF OwnershipIsCertain
<1>1. PICK d \in Shown : n = PluginNode(d)
  BY PluginNodesAre DEF PluginNodes
<1>2. PICK h \in Homes, o \in Configs, c \in Caches, a \in Pointers \cup {<<>>} :
         /\ CacheWas(h, c) /\ PointerWas(a)
         /\ Describes(d, Configured(o), Candidates(c, h), a, h)
  BY ShownAreDescribed
<1>3. n.name = d.name /\ n.version = d.version /\ n.at = d.at /\ n.at[2] = h /\ d.cached = FALSE
  BY <1>1, <1>2 DEF PluginNode, Node, Describes
<1>4. PICK x \in Owned(Candidates(c, h), a, n.name) : x.version = n.version
  BY <1>2, <1>3 DEF Describes
<1> DEFINE Q == Candidates(c, h)  p == n.name  v == n.version
           dir == scan.was.cache[n.at[2]].entries[n.name].dir
<1>5. c = scan.was.cache[n.at[2]] /\ dir = c.entries[p].dir
  BY <1>2, <1>3 DEF CacheWas
<1>6. OneEach(Q, h) /\ agent \in Agent
  BY CandidatesAreOne DEF Seen
<1>7. x \in Q /\ x.name = p /\ Owned(Q, a, p) = {x}
  BY <1>4, <1>6, OwnedIsOne
<1>8. PICK pv \in VersionsOf(c) : x = CandidateAt(c, h, pv)
  BY <1>6, <1>7, CandidatesAre
<1>9. pv[1] = p /\ pv[2] = v /\ \A qw \in VersionsOf(c) : CandidateAt(c, h, qw) \in Q
  <2>1. pv[1] = p /\ pv[2] = v
    BY <1>4, <1>7, <1>8 DEF CandidateAt, Candidate
  <2> QED BY <1>6, <1>7, <2>1, CandidatesAre
<1>10. CASE Cardinality(OfName(Q, p)) = 1
  <2>1. OfName(Q, p) = {x}
    <3>1. OfName(Q, p) \in SUBSET Q /\ IsFiniteSet(Q) /\ x \in OfName(Q, p)
      BY <1>6, <1>7 DEF OfName, OneEach
    <3>2. IsFiniteSet(OfName(Q, p))
      BY <3>1, FS_Subset
    <3> QED BY <1>10, <3>1, <3>2, FS_Singleton
  <2>2. ASSUME NEW w, <<p, w>> \in VersionsOf(c) PROVE w = v
    <3>1. CandidateAt(c, h, <<p, w>>) \in Q
      BY <1>9, <2>2
    <3>2. CandidateAt(c, h, <<p, w>>).name = p /\ CandidateAt(c, h, <<p, w>>).version = w
      BY DEF CandidateAt, Candidate
    <3>3. CandidateAt(c, h, <<p, w>>) \in OfName(Q, p)
      BY <3>1, <3>2 DEF OfName
    <3> QED BY <1>4, <2>1, <3>2, <3>3
  <2>3. CASE agent = "codex"
    <3>1. p \in DirectoryNames(c) /\ v \in DirectoryNames(dir)
      BY <1>5, <1>6, <1>8, <1>9, <2>3, VersionsAre
    <3>2. ASSUME NEW w \in DirectoryNames(dir) PROVE <<p, w>> \in VersionsOf(c)
      <4>1. <<p, w>> \in {p} \X DirectoryNames(c.entries[p].dir)
        BY <1>5
      <4> QED BY <2>3, <3>1, <4>1 DEF VersionsOf, CodexVersions
    <3> QED BY <2>2, <2>3, <3>1, <3>2
  <2>4. CASE agent = "claude"
    <3>1. p \in Visible(c) /\ v \in ReadVersions(dir)
      BY <1>5, <1>6, <1>8, <1>9, <2>4, VersionsAre
    <3>2. ASSUME NEW w \in ReadVersions(dir) PROVE <<p, w>> \in VersionsOf(c)
      <4>1. <<p, w>> \in {p} \X ReadVersions(c.entries[p].dir)
        BY <1>5
      <4> QED BY <2>4, <3>1, <4>1 DEF VersionsOf, ClaudeVersions
    <3>3. ReadVersions(dir) = {v}
      BY <2>2, <3>1, <3>2
    <3>4. ReadVersions(dir) = Lowest(Visible(dir), MaxVersions)
      BY <3>1 DEF ReadVersions, VersionsIn
    <3> QED BY <2>4, <3>3, <3>4
  <2> QED BY <1>6, <2>3, <2>4, ScanAssumption
<1>11. CASE Cardinality(OfName(Q, p)) # 1
  <2>1. agent = "claude" /\ p \in DOMAIN a /\ v = a[p]
    BY <1>4, <1>6, <1>11, ScanAssumption DEF Owned, OwnedCodex, OwnedClaude
  <2>2. a = scan.was.active
    BY <1>2, <2>1 DEF PointerWas
  <2> QED BY <2>1, <2>2
<1> QED BY <1>10, <1>11

LEMMA EnabledIsRight == Seen => EnabledIsGranted
<1> SUFFICES ASSUME Seen, NEW n \in Graph, n.enabled
             PROVE  /\ ~n.cached
                    /\ n.owner # <<>> => \E o \in PluginNodes : o.at = n.owner /\ o.enabled
                    /\ n.kind = "plugin" /\ Still(<<"config", n.at[2]>>) => scan.was.config[n.at[2]].plugins[n.name]
  BY DEF EnabledIsGranted
<1>1. CASE \E s \in scan.children : n = Node(s.kind, s.name, 0, s.at, <<>>, FALSE, s.enabled)
  BY <1>1 DEF Node, Seen, Underway
<1>2. ASSUME NEW d \in Shown, n \in ChildNodes(d)
      PROVE  ~n.cached /\ n.kind # "plugin" /\ \E o \in PluginNodes : o.at = n.owner /\ o.enabled
  <2>1. PICK s \in d.children : /\ n.kind = s.kind /\ n.owner = d.at
                                /\ n.enabled => d.enabled /\ ~d.cached
                                /\ n.cached => d.cached
    BY <1>2, ChildNodesAre
  <2>2. n.kind # "plugin"
    BY <2>1, ChildrenAreNoPlugins
  <2>3. PluginNode(d) \in Graph
    BY GraphIs DEF Seen
  <2>4. PluginNode(d).kind = "plugin" /\ PluginNode(d).at = d.at /\ PluginNode(d).enabled
    BY <2>1 DEF PluginNode, Node
  <2> QED BY <2>1, <2>2, <2>3, <2>4 DEF PluginNodes
<1>3. ASSUME NEW d \in Shown, n = PluginNode(d)
      PROVE  ~n.cached /\ n.owner = <<>> /\ (Still(<<"config", n.at[2]>>) => scan.was.config[n.at[2]].plugins[n.name])
  <2>1. ~d.cached /\ d.enabled /\ ~n.cached /\ n.owner = <<>> /\ n.at = d.at /\ n.name = d.name
    BY <1>3 DEF PluginNode, Node
  <2>2. PICK h \in Homes, o \in Configs, c \in Caches, a \in Pointers \cup {<<>>} :
          /\ ConfigWas(h, o)
          /\ Describes(d, Configured(o), Candidates(c, h), a, h)
    BY ShownAreDescribed
  <2>3. d.at[2] = h /\ d.name \in DOMAIN Configured(o) /\ d.enabled = Configured(o)[d.name]
    BY <2>1, <2>2 DEF Describes
  <2>4. Parsed(o) /\ Configured(o) = o.plugins
    BY <2>3 DEF Configured
  <2>5. Still(<<"config", n.at[2]>>) => o = scan.was.config[n.at[2]]
    BY <2>1, <2>2, <2>3 DEF ConfigWas
  <2>6. o.plugins[n.name]
    BY <2>1, <2>3, <2>4
  <2> QED BY <2>1, <2>5, <2>6
<1> QED BY <1>1, <1>2, <1>3, NodeIs

LEMMA ScanFacts == ScanInv => ScanTypeOK /\ ScanHolds
<1> SUFFICES ASSUME ScanInv PROVE ScanHolds
  BY DEF ScanInv
<1>1. CASE ~Answered
  BY <1>1 DEF ScanHolds, CompleteIsWhole, OwnershipIsCertain, EnabledIsGranted
<1>2. CASE Answered
  <2>1. Stored /\ Graph = GraphOf(scan) /\ agent \in Agent
    BY <1>2 DEF Answered, ScanInv, Stored, Graph
  <2>2. CASE GivenUp
    <3>1. Graph = {}
      BY <2>1, <2>2 DEF GraphOf, GivenUp, Deduplicated, StandaloneNodes
    <3>2. row.state # "complete"
      BY <1>2, <2>1, <3>1 DEF Stored, Answered
    <3> QED BY <3>1, <3>2 DEF ScanHolds, CompleteIsWhole, OwnershipIsCertain, EnabledIsGranted, PluginNodes
  <2>3. CASE Underway
    <3>1. Seen
      BY <2>1, <2>3 DEF Seen
    <3>2. ASSUME row.state = "complete" PROVE Whole
      BY <1>2, <2>1, <2>3, <3>2 DEF Stored, Answered, Whole, Graph
    <3>3. CompleteIsWhole
      BY <3>2, WholeIsWhole DEF CompleteIsWhole
    <3> QED BY <3>1, <3>3, OwnersAreCertain, EnabledIsRight DEF ScanHolds
  <2> QED BY <1>2, <2>2, <2>3 DEF ScanInv, Answered
<1> QED BY <1>1, <1>2
-----------------------------------------------------------------------------
(* The steps of a scan.                                                    *)

\* What has been read stays read: a scan gathers, and the user only touches places.
Gathers ==
  /\ agent' = agent /\ scan'.was = scan.was /\ scan.touched \subseteq scan'.touched
  /\ scan.plugins \subseteq scan'.plugins /\ scan.children \subseteq scan'.children
  /\ scan.gaps \subseteq scan'.gaps

LEMMA StillWas ==
  ASSUME Gathers
  PROVE  /\ \A h, o : ConfigWas(h, o) => ConfigWas(h, o)'
         /\ \A h, c : CacheWas(h, c) => CacheWas(h, c)'
         /\ \A a : PointerWas(a) => PointerWas(a)'
         /\ \A h, o : ConfigRead(h, o) => ConfigRead(h, o)'
         /\ \A c : CacheRead(c) => CacheRead(c)'
         /\ \A r : RootRead(r) => RootRead(r)'
         /\ \A o, c, a, h : Joined(o, c, a, h)' = Joined(o, c, a, h)
         /\ \A o : Configured(o)' = Configured(o) /\ Parsed(o)' = Parsed(o)
         /\ Homes' = Homes
<1>1. \A place : Still(place)' => Still(place)
  BY DEF Gathers, Still
<1>2. scan'.gaps = {} => scan.gaps = {}
  BY DEF Gathers
<1>3. \A o : Configured(o)' = Configured(o) /\ Parsed(o)' = Parsed(o)
  BY DEF Gathers, Configured, Parsed
<1>4. Homes' = Homes
  BY DEF Gathers, Homes
<1>5. ASSUME NEW Q, NEW a, NEW p PROVE Owned(Q, a, p)' = Owned(Q, a, p)
  BY DEF Gathers, Owned
<1>6. ASSUME NEW o, NEW c, NEW a, NEW h PROVE Joined(o, c, a, h)' = Joined(o, c, a, h)
  <2>1. Candidates(c, h)' = Candidates(c, h)
    BY DEF Gathers, Candidates
  <2>2. \A conf, Q : Descriptors(conf, Q, a, h)' = Descriptors(conf, Q, a, h)
    BY <1>5 DEF Descriptors
  <2> QED BY <1>3, <2>1, <2>2 DEF Joined
<1>7. (\A h, o : ConfigWas(h, o) => ConfigWas(h, o)') /\ (\A h, c : CacheWas(h, c) => CacheWas(h, c)')
  BY <1>1 DEF ConfigWas, CacheWas, Gathers
<1>8. \A a : PointerWas(a) => PointerWas(a)'
  BY <1>1 DEF PointerWas, Gathers
<1>9. \A h, o : ConfigRead(h, o) => ConfigRead(h, o)'
  BY <1>2, <1>3 DEF ConfigRead, Gathers
<1>10. \A c : CacheRead(c) => CacheRead(c)'
  BY <1>2 DEF CacheRead, Gathers
<1>11. \A r : RootRead(r) => RootRead(r)'
  <2> SUFFICES ASSUME NEW r, RootRead(r) PROVE RootRead(r)'
    OBVIOUS
  <2>1. PICK root \in SkillRoots :
          /\ RootWas(r, root)
          /\ scan.gaps = {} => SkillRootGaps(root, <<"skills", r>>) = {}
          /\ {s \in SkillsIn(root, <<"skills", r>>) : r = "personal" => s.name \notin Reserved} \subseteq scan.children
    BY DEF RootRead
  <2>2. RootWas(r, root)'
    BY <1>1, <2>1 DEF RootWas, Gathers
  <2> QED BY <1>2, <2>1, <2>2 DEF RootRead, Gathers
<1> QED BY <1>3, <1>4, <1>6, <1>7, <1>8, <1>9, <1>10, <1>11

LEMMA StillRead ==
  ASSUME Gathers
  PROVE  /\ \A h : HomeRead(h) => HomeRead(h)'
         /\ \A d : PluginWas(d) => PluginWas(d)'
         /\ \A h : ConfigTaken(h) /\ scan'.configured = scan.configured => ConfigTaken(h)'
         /\ CacheTaken /\ scan'.candidates = scan.candidates => CacheTaken'
<1>1. ASSUME NEW h, HomeRead(h) PROVE HomeRead(h)'
  <2>1. PICK o \in Configs, c \in Caches, a \in Pointers \cup {<<>>} :
          /\ ConfigWas(h, o) /\ CacheWas(h, c) /\ PointerWas(a)
          /\ ConfigRead(h, o) /\ CacheRead(c)
          /\ Joined(o, c, a, h) \subseteq scan.plugins
    BY <1>1 DEF HomeRead
  <2>2. /\ ConfigWas(h, o)' /\ CacheWas(h, c)' /\ PointerWas(a)'
        /\ ConfigRead(h, o)' /\ CacheRead(c)'
        /\ Joined(o, c, a, h)' \subseteq scan'.plugins
    BY <2>1, StillWas DEF Gathers
  <2> QED BY <2>2 DEF HomeRead
<1>2. ASSUME NEW d, PluginWas(d) PROVE PluginWas(d)'
  <2>1. PICK h \in Homes, o \in Configs, c \in Caches, a \in Pointers \cup {<<>>} :
          ConfigWas(h, o) /\ CacheWas(h, c) /\ PointerWas(a) /\ d \in Joined(o, c, a, h)
    BY <1>2 DEF PluginWas
  <2>2. h \in Homes' /\ ConfigWas(h, o)' /\ CacheWas(h, c)' /\ PointerWas(a)' /\ d \in Joined(o, c, a, h)'
    BY <2>1, StillWas
  <2> QED BY <2>2 DEF PluginWas
<1>3. ASSUME NEW h, ConfigTaken(h), scan'.configured = scan.configured PROVE ConfigTaken(h)'
  BY <1>3, StillWas DEF ConfigTaken
<1>4. ASSUME CacheTaken, scan'.candidates = scan.candidates PROVE CacheTaken'
  BY <1>4, StillWas DEF CacheTaken
<1> QED BY <1>1, <1>2, <1>3, <1>4

-----------------------------------------------------------------------------
LEMMA TodoIs ==
  ASSUME PlacesExist, scan.todo # <<>>
  PROVE  /\ Head(scan.todo) = scan.todo[1] /\ Head(scan.todo) \in Place /\ ToRead(Head(scan.todo))
         /\ Tail(scan.todo) \in Seq(Place) /\ Len(scan.todo) \in Nat \ {0}
         /\ Len(Tail(scan.todo)) = Len(scan.todo) - 1
         /\ \A i \in 1 .. Len(scan.todo) - 1 : Tail(scan.todo)[i] = scan.todo[i + 1]
<1> DEFINE t == scan.todo
<1>1. t \in Seq(Place) /\ t # <<>>
  BY DEF PlacesExist
<1> HIDE DEF t
<1>2. Len(t) \in Nat \ {0} /\ Head(t) = t[1] /\ t[1] \in Place /\ 1 \in DOMAIN t
  BY <1>1
<1>3. Tail(t) \in Seq(Place) /\ Len(Tail(t)) = Len(t) - 1 /\ \A i \in 1 .. Len(t) - 1 : Tail(t)[i] = t[i + 1]
  BY <1>1
<1> QED BY <1>2, <1>3 DEF t, ToRead

\* When a place has been read, the others wait on, in order.
LEMMA Goes ==
  ASSUME PlacesExist, InOrder, scan.todo # <<>>, scan'.todo = Tail(scan.todo), agent' = agent, agent \in Agent
  PROVE  /\ PlacesExist' /\ InOrder'
         /\ \A place : ToRead(place) => place = Head(scan.todo) \/ ToRead(place)'
         /\ \A place : ToRead(place)' => ToRead(place)
         /\ agent = "codex" => \A h : scan'.todo # <<>> /\ Head(scan'.todo) = <<"cache", h>>
                                        => h \in Home /\ Head(scan.todo) = <<"config", h>>
         /\ agent = "claude" => ~ToRead(<<"config", 1>>)' /\ (Head(scan.todo) = <<"active", 1>> => ~ToRead(<<"active", 1>>)')
<1> DEFINE t == scan.todo  u == scan'.todo
<1>14. Place' = Place
  BY DEF Place, Homes
<1>1. /\ t \in Seq(Place) /\ u \in Seq(Place) /\ Len(t) \in Nat \ {0} /\ Len(u) = Len(t) - 1
      /\ \A i \in 1 .. Len(t) - 1 : u[i] = t[i + 1]
      /\ Head(t) = t[1]
  BY TodoIs DEF PlacesExist
<1>2. \A place : ToRead(place) <=> \E i \in 1 .. Len(t) : t[i] = place
  BY <1>1 DEF ToRead
<1>0. DOMAIN u = 1 .. Len(u) /\ DOMAIN scan'.todo = 1 .. Len(u) /\ Len(scan'.todo) = Len(u)
  BY <1>1
<1>3. \A place : ToRead(place)' <=> \E i \in 1 .. Len(u) : u[i] = place
  BY <1>0 DEF ToRead
<1>4. InOrder <=> IF agent = "codex"
        THEN \A i \in 1 .. Len(t) : t[i][1] = "cache" =>
               t[i][2] \in Home /\ (i > 1 => t[i - 1] = <<"config", t[i][2]>>)
        ELSE \A i \in 1 .. Len(t) : (t[i] = <<"active", 1>> => i = Len(t)) /\ (t[i] = <<"config", 1>> => i = 1)
  BY <1>1 DEF InOrder
<1>5. InOrder' <=> IF agent = "codex"
        THEN \A i \in 1 .. Len(u) : u[i][1] = "cache" =>
               u[i][2] \in Home /\ (i > 1 => u[i - 1] = <<"config", u[i][2]>>)
        ELSE \A i \in 1 .. Len(u) : (u[i] = <<"active", 1>> => i = Len(u)) /\ (u[i] = <<"config", 1>> => i = 1)
  BY <1>0 DEF InOrder
<1>6. PlacesExist'
  BY <1>1, <1>14 DEF PlacesExist
<1> HIDE DEF t, u
<1>7. \A i \in 1 .. Len(u) : i + 1 \in 1 .. Len(t) /\ u[i] = t[i + 1]
  BY <1>1
<1>8. InOrder'
  <2>1. CASE agent = "codex"
    <3> SUFFICES ASSUME NEW i \in 1 .. Len(u), u[i][1] = "cache"
                 PROVE  u[i][2] \in Home /\ (i > 1 => u[i - 1] = <<"config", u[i][2]>>)
      BY <1>5, <2>1
    <3>1. i + 1 \in 1 .. Len(t) /\ t[i + 1] = u[i] /\ i + 1 > 1 /\ (i + 1) - 1 = i
      BY <1>1, <1>7
    <3>2. t[i + 1][2] \in Home /\ t[i] = <<"config", t[i + 1][2]>>
      BY <1>4, <2>1, <3>1
    <3>3. ASSUME i > 1 PROVE u[i - 1] = t[i]
      <4>1. i - 1 \in 1 .. Len(u) /\ (i - 1) + 1 = i
        BY <1>1, <3>3
      <4> QED BY <1>7, <4>1
    <3> QED BY <3>1, <3>2, <3>3
  <2>2. CASE agent # "codex"
    <3> SUFFICES ASSUME NEW i \in 1 .. Len(u)
                 PROVE  (u[i] = <<"active", 1>> => i = Len(u)) /\ (u[i] = <<"config", 1>> => i = 1)
      BY <1>5, <2>2
    <3>1. i + 1 \in 1 .. Len(t) /\ t[i + 1] = u[i]
      BY <1>7
    <3>2. (u[i] = <<"active", 1>> => i + 1 = Len(t)) /\ (u[i] = <<"config", 1>> => i + 1 = 1)
      BY <1>4, <2>2, <3>1
    <3> QED BY <1>1, <3>2
  <2> QED BY <2>1, <2>2
<1>9. ASSUME NEW place, ToRead(place) PROVE place = Head(t) \/ ToRead(place)'
  <2>1. PICK i \in 1 .. Len(t) : t[i] = place
    BY <1>2, <1>9
  <2>2. CASE i = 1
    BY <1>1, <2>1, <2>2
  <2>3. CASE i # 1
    <3>1. i - 1 \in 1 .. Len(u) /\ (i - 1) + 1 = i
      BY <1>1, <2>3
    <3>2. u[i - 1] = place
      BY <1>7, <2>1, <3>1
    <3> QED BY <1>3, <3>1, <3>2
  <2> QED BY <2>2, <2>3
<1>10. ASSUME NEW place, ToRead(place)' PROVE ToRead(place)
  BY <1>2, <1>3, <1>7, <1>10
<1>11. ASSUME agent = "codex", NEW h, u # <<>>, Head(u) = <<"cache", h>>
       PROVE  h \in Home /\ Head(t) = <<"config", h>>
  <2>1. Len(u) # 0 /\ Head(u) = u[1] /\ 1 \in 1 .. Len(u)
    BY <1>1, <1>11
  <2>2. 2 \in 1 .. Len(t) /\ t[2] = <<"cache", h>> /\ 2 > 1 /\ 2 - 1 = 1
    BY <1>7, <1>11, <2>1
  <2>3. t[2][1] = "cache" /\ t[2][2] = h
    BY <2>2
  <2> QED BY <1>1, <1>4, <1>11, <2>2, <2>3
<1>12. ASSUME agent = "claude" PROVE ~ToRead(<<"config", 1>>)'
  <2>1. \A i \in 1 .. Len(u) : u[i] # <<"config", 1>>
    <3> SUFFICES ASSUME NEW i \in 1 .. Len(u), u[i] = <<"config", 1>> PROVE FALSE
      OBVIOUS
    <3>1. i + 1 \in 1 .. Len(t) /\ t[i + 1] = <<"config", 1>>
      BY <1>7
    <3>2. i + 1 = 1
      BY <1>4, <1>12, <3>1
    <3> QED BY <3>2
  <2> QED BY <1>3, <2>1
<1>13. ASSUME agent = "claude", Head(t) = <<"active", 1>> PROVE ~ToRead(<<"active", 1>>)'
  <2>1. 1 \in 1 .. Len(t)
    BY <1>1
  <2>2. Len(t) = 1
    BY <1>1, <1>4, <1>13, <2>1
  <2>3. Len(u) = 0
    BY <1>1, <2>2
  <2> QED BY <1>3, <2>3
<1> QED BY <1>6, <1>8, <1>9, <1>10, <1>11, <1>12, <1>13 DEF t, u

\* A scan under way that reads its next place is under way, if what it reads is kept.
LEMMA ReadsOn ==
  ASSUME Underway, Gathers, agent \in Agent, scan.todo # <<>>, scan'.todo = Tail(scan.todo),
         \A h \in Homes : Head(scan.todo) = LastOf(h) => HomeRead(h)',
         \A r \in Roots : Head(scan.todo) = <<"skills", r>> => RootRead(r)',
         \A s \in scan'.children \ scan.children : s.kind # "plugin",
         \A d \in scan'.plugins \ scan.plugins : PluginWas(d)',
         \A h \in Home : Head(scan.todo) = <<"config", h>> => ConfigTaken(h)',
         agent = "claude" => /\ Head(scan.todo) # <<"config", 1>> => scan'.configured = scan.configured
                             /\ IF Head(scan.todo) = <<"cache", 1>> THEN CacheTaken'
                                ELSE scan'.candidates = scan.candidates
                             /\ Head(scan.todo) # <<"active", 1>> => scan'.plugins = scan.plugins
  PROVE  Underway'
<1>1. agent' = agent /\ scan'.was = scan.was /\ Homes' = Homes /\ 1 \in Home
  BY StillWas, HomesAreNumbers DEF Gathers
<1>2. PlacesExist /\ InOrder /\ scan.was \in Hosts
  BY DEF Underway
<1>3. /\ PlacesExist' /\ InOrder'
      /\ \A place : ToRead(place) => place = Head(scan.todo) \/ ToRead(place)'
      /\ \A place : ToRead(place)' => ToRead(place)
      /\ agent = "codex" => \A h : scan'.todo # <<>> /\ Head(scan'.todo) = <<"cache", h>>
                                     => h \in Home /\ Head(scan.todo) = <<"config", h>>
      /\ agent = "claude" => ~ToRead(<<"config", 1>>)' /\ (Head(scan.todo) = <<"active", 1>> => ~ToRead(<<"active", 1>>)')
  BY <1>1, <1>2, Goes
<1>4. scan'.was \in Hosts'
  BY <1>1, <1>2 DEF Hosts
<1>5. ASSUME NEW h \in Homes, ~ToRead(LastOf(h))' PROVE HomeRead(h)'
  <2>1. LastOf(h)' = LastOf(h)
    BY <1>1 DEF LastOf
  <2>2. Head(scan.todo) = LastOf(h) \/ ~ToRead(LastOf(h))
    BY <1>3, <1>5, <2>1
  <2> QED BY <1>5, <2>2, StillRead DEF Underway
<1>6. ASSUME NEW r \in Roots PROVE (ToRead(<<"skills", r>>) \/ RootRead(r) \/ (agent = "codex" /\ r = "personal"))'
  <2>1. ToRead(<<"skills", r>>) \/ RootRead(r) \/ (agent = "codex" /\ r = "personal")
    BY DEF Underway
  <2> QED BY <1>1, <1>3, <2>1, StillWas
<1>7. (\A s \in scan'.children : s.kind # "plugin") /\ (\A d \in scan'.plugins : PluginWas(d)')
  BY StillRead DEF Underway
<1>8. CASE agent = "codex"
  <2>1. ASSUME NEW h \in Home, scan'.todo # <<>>, Head(scan'.todo) = <<"cache", h>> PROVE ConfigTaken(h)'
    BY <1>3, <1>8, <2>1
  <2> QED BY <1>1, <1>3, <1>4, <1>5, <1>6, <1>7, <1>8, <2>1 DEF Underway
<1>9. CASE agent = "claude"
  <2>1. ConfigTaken(1)'
    <3>1. CASE Head(scan.todo) = <<"config", 1>>
      BY <1>1, <3>1
    <3>2. CASE Head(scan.todo) # <<"config", 1>>
      <4>1. ~ToRead(<<"config", 1>>)
        BY <1>3, <1>9, <3>2
      <4>2. ConfigTaken(1)
        BY <1>9, <4>1 DEF Underway
      <4> QED BY <1>9, <3>2, <4>2, StillRead
    <3> QED BY <3>1, <3>2
  <2>2. ASSUME ~ToRead(<<"cache", 1>>)' PROVE CacheTaken'
    <3>1. CASE Head(scan.todo) = <<"cache", 1>>
      BY <1>9, <3>1
    <3>2. CASE Head(scan.todo) # <<"cache", 1>>
      <4>1. ~ToRead(<<"cache", 1>>)
        BY <1>3, <2>2, <3>2
      <4>2. CacheTaken /\ scan'.candidates = scan.candidates
        BY <1>9, <3>2, <4>1 DEF Underway
      <4> QED BY <4>2, StillRead
    <3> QED BY <3>1, <3>2
  <2>3. ASSUME ToRead(<<"active", 1>>)' PROVE scan'.plugins = {}
    <3>1. Head(scan.todo) # <<"active", 1>>
      BY <1>3, <1>9, <2>3
    <3>2. scan.plugins = {}
      BY <1>3, <1>9, <2>3 DEF Underway
    <3> QED BY <1>9, <3>1, <3>2
  <2> QED BY <1>1, <1>3, <1>4, <1>5, <1>6, <1>7, <1>9, <2>1, <2>2, <2>3 DEF Underway
<1> QED BY <1>8, <1>9, ScanAssumption

\* So is one that gathers nothing.
LEMMA StaysUnderway ==
  ASSUME Underway, Gathers, scan'.todo = scan.todo, scan'.children = scan.children, scan'.plugins = scan.plugins,
         scan'.configured = scan.configured, scan'.candidates = scan.candidates
  PROVE  Underway'
<1>1. agent' = agent /\ scan'.was = scan.was /\ Homes' = Homes
  BY StillWas DEF Gathers
<1>2. (scan'.was \in Hosts') /\ InOrder' /\ PlacesExist'
  BY <1>1 DEF Underway, Hosts, InOrder, PlacesExist, Place
<1>3. \A place : ToRead(place)' <=> ToRead(place)
  BY DEF ToRead
<1>4. \A h : LastOf(h)' = LastOf(h)
  BY <1>1 DEF LastOf
<1>5. \A h \in Homes : ~ToRead(LastOf(h))' => HomeRead(h)'
  BY <1>3, <1>4, StillRead DEF Underway
<1>6. \A r \in Roots : (ToRead(<<"skills", r>>) \/ RootRead(r) \/ (agent = "codex" /\ r = "personal"))'
  BY <1>1, <1>3, StillWas DEF Underway
<1>7. (\A s \in scan'.children : s.kind # "plugin") /\ (\A d \in scan'.plugins : PluginWas(d)')
  BY StillRead DEF Underway
<1>8. (IF agent = "codex"
       THEN \A h \in Home : scan.todo # <<>> /\ Head(scan.todo) = <<"cache", h>> => ConfigTaken(h)
       ELSE /\ ~ToRead(<<"config", 1>>) => ConfigTaken(1)
            /\ ToRead(<<"config", 1>>) => scan.configured = <<>>
            /\ ~ToRead(<<"cache", 1>>) => CacheTaken
            /\ ToRead(<<"active", 1>>) => scan.plugins = {})'
  BY <1>1, <1>3, StillRead DEF Underway
<1> QED BY <1>1, <1>2, <1>5, <1>6, <1>7, <1>8 DEF Underway

-----------------------------------------------------------------------------
LEMMA BeheldIs ==
  ASSUME Beheld, host \in Hosts, agent \in Agent
  PROVE  /\ \A h \in Home : ConfigWas(h, host.config[h]) /\ CacheWas(h, host.cache[h])
         /\ \A r \in Roots : RootWas(r, host.roots[r])
         /\ PointerWas(host.active) /\ host.active \in Pointers
BY DEF Beheld, Unchanged, Hosts, Roots, ConfigWas, CacheWas, RootWas, PointerWas

\* What a reading step leaves as it is.
Quiet ==
  /\ agent' = agent /\ host' = host /\ row' = row
  /\ scan'.phase = scan.phase /\ scan'.was = scan.was /\ scan'.touched = scan.touched

LEMMA QuietKeeps ==
  ASSUME ScanInv, scan.phase = "reading", Quiet, IsScan', scan'.left \in 0 .. MaxCached, (GivenUp \/ Underway)'
  PROVE  ScanInv'
<1>1. Beheld'
  BY DEF ScanInv, Beheld, Unchanged, Still, Quiet
<1>2. ScanTypeOK' /\ (agent \in Agent)' /\ (host \in Hosts)' /\ (row = [state |-> row.state, snapshot |-> row.snapshot])'
  BY DEF ScanInv, ScanTypeOK, Quiet, Hosts
<1> QED BY <1>1, <1>2 DEF ScanInv, Quiet

LEMMA ReadingIsUnderway ==
  ASSUME ScanInv, NEW what, Reads(what)
  PROVE  /\ scan.phase = "reading" /\ Underway /\ Beheld /\ IsScan /\ scan.todo # <<>>
         /\ Head(scan.todo) = <<what, Where>> /\ Head(scan.todo) \in Place
         /\ scan.left \in 0 .. MaxCached /\ Homes \subseteq Home /\ (agent = "claude" => Homes = {1})
<1>1. scan.phase = "reading" /\ Underway /\ Beheld /\ IsScan /\ scan.todo # <<>> /\ Head(scan.todo)[1] = what
      /\ scan.left \in 0 .. MaxCached
  BY DEF ScanInv, Reads, GivenUp, ScanTypeOK
<1>2. Head(scan.todo) \in Place
  BY <1>1, TodoIs DEF Underway
<1>3. Head(scan.todo) = <<Head(scan.todo)[1], Head(scan.todo)[2]>>
  BY <1>2 DEF Place
<1>4. Homes \subseteq Home /\ (agent = "claude" => Homes = {1})
  BY HomesAreNumbers DEF ScanInv, Homes
<1> QED BY <1>1, <1>2, <1>3, <1>4 DEF Where

LEMMA GiveUpKeeps ==
  ASSUME ScanInv, scan.phase = "reading", GiveUp, UNCHANGED <<agent, host, row, edits>>
  PROVE  ScanInv'
<1>1. /\ scan'.phase = "reading" /\ scan'.was = scan.was /\ scan'.touched = scan.touched
      /\ scan'.left = MaxCached /\ scan'.todo = <<>> /\ scan'.plugins = {} /\ scan'.children = {}
  BY DEF GiveUp, NoScan
<1>2. IsScan'
  BY DEF GiveUp, NoScan, IsScan
<1>3. scan'.left \in 0 .. MaxCached
  BY <1>1, ScanAssumption
<1>4. Quiet /\ GivenUp'
  BY <1>1 DEF Quiet, GivenUp
<1> QED BY <1>2, <1>3, <1>4, QuietKeeps

LEMMA ReadsSkillsStep == ASSUME ScanInv, ReadsSkills PROVE ScanInv'
<1>0. PICK r, root : r = Where /\ root = host.roots[r]
  OBVIOUS
<1> DEFINE at == <<"skills", r>>
           more == {s \in SkillsIn(root, at) : r = "personal" => s.name \notin Reserved}
<1>1. /\ scan.phase = "reading" /\ Underway /\ Beheld /\ IsScan /\ scan.todo # <<>>
      /\ Head(scan.todo) = <<"skills", r>> /\ Head(scan.todo) \in Place /\ scan.left \in 0 .. MaxCached
  BY <1>0, ReadingIsUnderway DEF ReadsSkills
<1>2. r \in Roots
  BY <1>1 DEF Place
<1>3. agent \in Agent /\ host \in Hosts /\ agent' = agent /\ host' = host /\ row' = row
  BY DEF ScanInv, ReadsSkills
<1>4. scan' = [[scan EXCEPT !.gaps = @ \cup SkillRootGaps(root, at), !.children = @ \cup more] EXCEPT !.todo = Tail(scan.todo)]
  BY <1>0 DEF ReadsSkills, Continue
<1>5. RootWas(r, root)
  BY <1>0, <1>1, <1>2, <1>3, BeheldIs
<1> HIDE DEF more
<1>6. /\ scan'.phase = scan.phase /\ scan'.was = scan.was /\ scan'.touched = scan.touched
      /\ scan'.todo = Tail(scan.todo) /\ scan'.gaps = scan.gaps \cup SkillRootGaps(root, at)
      /\ scan'.children = scan.children \cup more /\ scan'.plugins = scan.plugins
      /\ scan'.configured = scan.configured /\ scan'.candidates = scan.candidates /\ scan'.left = scan.left
      /\ IsScan'
  BY <1>1, <1>4 DEF IsScan
<1>7. Quiet /\ Gathers
  BY <1>3, <1>6 DEF Quiet, Gathers
<1>8. RootRead(r)'
  <2>1. RootWas(r, root)' /\ root \in SkillRoots
    BY <1>5, <1>6 DEF RootWas, Still
  <2>2. scan'.gaps = {} => SkillRootGaps(root, at) = {}
    BY <1>6
  <2>3. more \subseteq scan'.children
    BY <1>6
  <2> QED BY <2>1, <2>2, <2>3 DEF RootRead, more
<1>9. \A s \in scan'.children \ scan.children : s.kind # "plugin"
  BY <1>6, SkillsAreSkills DEF more
<1>11. \A h : Head(scan.todo) # <<"cache", h>> /\ Head(scan.todo) # <<"config", h>> /\ Head(scan.todo) # <<"active", h>>
  BY <1>1
<1>12. \A q : Head(scan.todo) = <<"skills", q>> => q = r
  BY <1>1
<1>10. Underway'
  BY <1>1, <1>3, <1>6, <1>7, <1>8, <1>9, <1>11, <1>12, ReadsOn DEF LastOf
<1> QED BY <1>1, <1>6, <1>7, <1>10, QuietKeeps

\* The servers of a configuration are no plugins.
LEMMA ServersAre == ASSUME NEW o, NEW h, NEW s \in Servers(o, h) PROVE s.kind # "plugin"
BY DEF Servers, Child

\* A step that reads a configuration and goes on.
LEMMA ConfigStep ==
  ASSUME ScanInv, NEW h, NEW o, o = host.config[h], Reads("config"), h = Where, host' = host, agent' = agent, row' = row,
         NEW conf, NEW twice, NEW gaps, NEW more, scan.gaps \subseteq gaps,
         scan' = [scan EXCEPT !.configured = conf, !.twice = twice, !.gaps = gaps,
                              !.children = @ \cup more, !.todo = Tail(scan.todo)],
         conf = Configured(o), more \subseteq Servers(o, h), Parsed(o) => more = Servers(o, h),
         IF agent = "codex" THEN ReadConfigProbe(o) \in {"absent", "read"}
         ELSE gaps = {} => ReadConfigProbe(o) # "refused"
  PROVE  ScanInv'
<1>1. /\ scan.phase = "reading" /\ Underway /\ Beheld /\ IsScan /\ scan.todo # <<>>
      /\ Head(scan.todo) = <<"config", h>> /\ Head(scan.todo) \in Place /\ scan.left \in 0 .. MaxCached
      /\ Homes \subseteq Home /\ (agent = "claude" => Homes = {1})
  BY ReadingIsUnderway
<1>2. h \in Homes /\ h \in Home /\ (agent = "claude" => h = 1)
  BY <1>1 DEF Place
<1>3. agent \in Agent /\ host \in Hosts
  BY DEF ScanInv
<1>5. ConfigWas(h, o)
  BY <1>1, <1>2, <1>3, BeheldIs
<1>6. /\ scan'.phase = scan.phase /\ scan'.was = scan.was /\ scan'.touched = scan.touched
      /\ scan'.todo = Tail(scan.todo) /\ scan'.gaps = gaps
      /\ scan'.children = scan.children \cup more /\ scan'.plugins = scan.plugins
      /\ scan'.configured = conf /\ scan'.candidates = scan.candidates /\ scan'.left = scan.left
  BY <1>1 DEF IsScan
<1>4. IsScan'
  BY <1>1 DEF IsScan
<1>7. Quiet /\ Gathers
  BY <1>6 DEF Quiet, Gathers
<1>8. ConfigTaken(h)'
  <2>1. ConfigWas(h, o)' /\ o \in Configs /\ Configured(o)' = Configured(o) /\ Parsed(o)' = Parsed(o)
    BY <1>5, <1>7, StillWas DEF ConfigWas
  <2>2. ConfigRead(h, o)'
    BY <1>6, <2>1 DEF ConfigRead
  <2> QED BY <1>6, <2>1, <2>2 DEF ConfigTaken
<1>9. \A s \in scan'.children \ scan.children : s.kind # "plugin"
  BY <1>6, ServersAre
<1>11. \A q : Head(scan.todo) # <<"cache", q>> /\ Head(scan.todo) # <<"skills", q>> /\ Head(scan.todo) # <<"active", q>>
  BY <1>1
<1>12. \A q : Head(scan.todo) = <<"config", q>> => q = h
  BY <1>1
<1>10. Underway'
  BY <1>1, <1>2, <1>3, <1>6, <1>7, <1>8, <1>9, <1>11, <1>12, ReadsOn DEF LastOf
<1> QED BY <1>1, <1>4, <1>6, <1>7, <1>10, QuietKeeps

LEMMA CodexReadsConfigStep == ASSUME ScanInv, CodexReadsConfig PROVE ScanInv'
<1>0. PICK h, o : h = Where /\ o = host.config[h]
  OBVIOUS
<1>1. agent = "codex" /\ Reads("config") /\ host' = host /\ agent' = agent /\ row' = row /\ edits' = edits
  BY DEF CodexReadsConfig
<1>2. scan.phase = "reading" /\ IsScan
  BY <1>1, ReadingIsUnderway
<1>3. ReadConfigProbe(o) \in {"refused", "truncated", "absent", "read"}
  BY ConfigProbes
<1>4. CASE GiveUp
  BY <1>1, <1>2, <1>4, GiveUpKeeps
<1>5. CASE ReadConfigProbe(o) = "absent" /\ ~GiveUp
  <2>1. scan' = [scan EXCEPT !.configured = <<>>, !.todo = Tail(scan.todo)]
    BY <1>0, <1>5 DEF CodexReadsConfig, Continue
  <2>0. PICK conf, more, gaps, twice : conf = <<>> /\ more = {} /\ gaps = scan.gaps /\ twice = scan.twice
    OBVIOUS
  <2>2. scan' = [scan EXCEPT !.configured = conf, !.twice = twice, !.gaps = gaps,
                             !.children = @ \cup more, !.todo = Tail(scan.todo)]
    BY <1>2, <2>0, <2>1 DEF IsScan
  <2>3. ~Parsed(o) /\ conf = Configured(o)
    BY <1>5, <2>0 DEF Parsed, Configured
  <2>4. more \subseteq Servers(o, h) /\ scan.gaps \subseteq gaps
    BY <2>0
  <2> QED BY <1>0, <1>1, <1>5, <2>2, <2>3, <2>4, ConfigStep
<1>6. CASE ReadConfigProbe(o) = "read" /\ ~GiveUp
  <2> DEFINE two == scan.twice \/ o.twice = "server"
  <2>1. scan' = [scan EXCEPT !.configured = o.plugins, !.twice = two,
                             !.children = @ \cup Servers(o, h), !.todo = Tail(scan.todo)]
    BY <1>0, <1>6 DEF CodexReadsConfig, Continue
  <2> HIDE DEF two
  <2>2. scan' = [scan EXCEPT !.configured = o.plugins, !.twice = two, !.gaps = scan.gaps,
                             !.children = @ \cup Servers(o, h), !.todo = Tail(scan.todo)]
    BY <1>2, <2>1 DEF IsScan
  <2>3. Parsed(o) /\ Configured(o) = o.plugins
    BY <1>1, <1>6 DEF Parsed, Configured
  <2> QED BY <1>0, <1>1, <1>6, <2>2, <2>3, ConfigStep
<1>7. ReadConfigProbe(o) \in {"refused", "truncated"} => GiveUp
  BY <1>0 DEF CodexReadsConfig
<1> QED BY <1>3, <1>4, <1>5, <1>6, <1>7

LEMMA ClaudeReadsConfigStep == ASSUME ScanInv, ClaudeReadsConfig PROVE ScanInv'
<1>0. PICK h, o : h = Where /\ o = host.config[h]
  OBVIOUS
<1>1. agent = "claude" /\ Reads("config") /\ host' = host /\ agent' = agent /\ row' = row
  BY DEF ClaudeReadsConfig
<1>2. Underway /\ IsScan /\ Head(scan.todo) = <<"config", h>> /\ ToRead(Head(scan.todo)) /\ h = 1
  <2>1. /\ Underway /\ IsScan /\ scan.todo # <<>> /\ Head(scan.todo) = <<"config", h>>
        /\ Head(scan.todo) \in Place /\ Homes = {1}
    BY <1>0, <1>1, ReadingIsUnderway
  <2>2. ToRead(Head(scan.todo))
    BY <2>1, TodoIs DEF Underway
  <2>3. h = 1
    BY <2>1 DEF Place
  <2> QED BY <2>1, <2>2, <2>3
<1>3. scan.configured = <<>>
  BY <1>1, <1>2 DEF Underway
<1>4. CASE ReadConfigProbe(o) = "refused"
  <2> DEFINE gaps == scan.gaps \cup {<<RootGapClass(o), <<"config", 1>>>>}
  <2>1. scan' = [scan EXCEPT !.gaps = gaps, !.todo = Tail(scan.todo)]
    BY <1>0, <1>4 DEF ClaudeReadsConfig, Continue
  <2>2. scan.gaps \subseteq gaps /\ gaps # {}
    OBVIOUS
  <2> HIDE DEF gaps
  <2>0. PICK conf, more, twice : conf = <<>> /\ more = {} /\ twice = scan.twice
    OBVIOUS
  <2>3. scan' = [scan EXCEPT !.configured = conf, !.twice = twice, !.gaps = gaps,
                             !.children = @ \cup more, !.todo = Tail(scan.todo)]
    BY <1>2, <1>3, <2>0, <2>1 DEF IsScan
  <2>4. ~Parsed(o) /\ conf = Configured(o)
    BY <1>4, <2>0 DEF Parsed, Configured
  <2>5. more \subseteq Servers(o, h)
    BY <2>0
  <2> QED BY <1>0, <1>1, <2>2, <2>3, <2>4, <2>5, ConfigStep
<1>5. CASE Parsed(o)
  <2>1. scan' = [scan EXCEPT !.configured = o.plugins, !.children = @ \cup Servers(o, h), !.todo = Tail(scan.todo)]
    BY <1>0, <1>1, <1>2, <1>5 DEF ClaudeReadsConfig, Continue, Parsed
  <2>2. scan' = [scan EXCEPT !.configured = o.plugins, !.twice = scan.twice, !.gaps = scan.gaps,
                             !.children = @ \cup Servers(o, h), !.todo = Tail(scan.todo)]
    BY <1>2, <2>1 DEF IsScan
  <2>3. Configured(o) = o.plugins /\ ReadConfigProbe(o) # "refused"
    BY <1>5 DEF Parsed, Configured
  <2> QED BY <1>0, <1>1, <1>5, <2>2, <2>3, ConfigStep
<1>6. CASE ReadConfigProbe(o) # "refused" /\ ~Parsed(o)
  <2>1. scan' = [scan EXCEPT !.todo = Tail(scan.todo)]
    BY <1>0, <1>1, <1>6 DEF ClaudeReadsConfig, Continue, Parsed
  <2>0. PICK conf, more, gaps, twice : conf = <<>> /\ more = {} /\ gaps = scan.gaps /\ twice = scan.twice
    OBVIOUS
  <2>2. scan' = [scan EXCEPT !.configured = conf, !.twice = twice, !.gaps = gaps,
                             !.children = @ \cup more, !.todo = Tail(scan.todo)]
    BY <1>2, <1>3, <2>0, <2>1 DEF IsScan
  <2>3. conf = Configured(o)
    BY <1>6, <2>0 DEF Configured
  <2>4. more \subseteq Servers(o, h) /\ scan.gaps \subseteq gaps
    BY <2>0
  <2> QED BY <1>0, <1>1, <1>6, <2>2, <2>3, <2>4, ConfigStep
<1> QED BY <1>4, <1>5, <1>6

LEMMA CodexReadsCacheStep == ASSUME ScanInv, CodexReadsCache PROVE ScanInv'
<1>0. PICK h, c, left : h = Where /\ c = host.cache[h] /\ left = scan.left
  OBVIOUS
<1>1. /\ scan.phase = "reading" /\ Underway /\ Beheld /\ IsScan /\ scan.todo # <<>>
      /\ Head(scan.todo) = <<"cache", h>> /\ Head(scan.todo) \in Place /\ left \in 0 .. MaxCached
      /\ Homes \subseteq Home
  BY <1>0, ReadingIsUnderway DEF CodexReadsCache
<1>2. h \in Homes /\ h \in Home
  BY <1>1 DEF Place
<1>3. agent = "codex" /\ agent \in Agent /\ host \in Hosts /\ agent' = agent /\ host' = host /\ row' = row /\ edits' = edits
  BY DEF ScanInv, CodexReadsCache
<1>4. CASE CodexCacheFails(c, left)
  <2>1. GiveUp
    BY <1>0, <1>4 DEF CodexReadsCache
  <2> QED BY <1>1, <1>3, <2>1, GiveUpKeeps
<1>5. CASE ~CodexCacheFails(c, left)
  <2> DEFINE less == left - Cardinality(CodexVersions(c))
             more == Descriptors(scan.configured, CodexCandidates(c, h), <<>>, h)
  <2>1. scan' = [[scan EXCEPT !.left = less, !.plugins = @ \cup more] EXCEPT !.todo = Tail(scan.todo)]
    BY <1>0, <1>5 DEF CodexReadsCache, Continue
  <2>2. CacheWas(h, c) /\ c \in Caches
    BY <1>0, <1>1, <1>2, <1>3, BeheldIs DEF CacheWas
  <2>3. less \in 0 .. MaxCached
    <3>1. IsFiniteSet(CodexVersions(c))
      BY <1>3, <2>2, VersionsAreFinite DEF VersionsOf
    <3>2. Cardinality(CodexVersions(c)) \in Nat
      BY <3>1, FS_CardinalityType
    <3>3. ~(Cardinality(CodexVersions(c)) > left)
      BY <1>5 DEF CodexCacheFails
    <3>4. MaxCached \in Nat
      BY ScanAssumption
    <3> QED BY <1>1, <3>2, <3>3, <3>4
  <2>4. PICK o \in Configs : ConfigWas(h, o) /\ ConfigRead(h, o) /\ scan.configured = Configured(o)
    BY <1>1, <1>2, <1>3 DEF Underway, ConfigTaken
  <2>5. more = Joined(o, c, <<>>, h)
    BY <1>3, <2>4 DEF Joined, Candidates
  <2> HIDE DEF less, more
  <2>6. /\ scan'.phase = scan.phase /\ scan'.was = scan.was /\ scan'.touched = scan.touched
        /\ scan'.todo = Tail(scan.todo) /\ scan'.gaps = scan.gaps
        /\ scan'.children = scan.children /\ scan'.plugins = scan.plugins \cup more
        /\ scan'.configured = scan.configured /\ scan'.candidates = scan.candidates /\ scan'.left = less
        /\ IsScan'
    BY <1>1, <2>1 DEF IsScan
  <2>7. Quiet /\ Gathers
    BY <1>3, <2>6 DEF Quiet, Gathers
  <2>8. PointerWas(<<>>) /\ CacheRead(c)
    BY <1>1, <1>3, <1>5 DEF PointerWas, CacheRead, Walked
  <2>9. /\ ConfigWas(h, o)' /\ CacheWas(h, c)' /\ PointerWas(<<>>)' /\ ConfigRead(h, o)' /\ CacheRead(c)'
        /\ Joined(o, c, <<>>, h)' = more /\ Homes' = Homes
    BY <2>2, <2>4, <2>5, <2>7, <2>8, StillWas
  <2>10. HomeRead(h)'
    BY <2>2, <2>6, <2>9 DEF HomeRead
  <2>11. \A d \in scan'.plugins \ scan.plugins : PluginWas(d)'
    BY <1>2, <2>2, <2>6, <2>9 DEF PluginWas
  <2>12. \A q : Head(scan.todo) # <<"config", q>> /\ Head(scan.todo) # <<"skills", q>>
    BY <1>1
  <2>13. \A q : Head(scan.todo) = <<"cache", q>> => q = h
    BY <1>1
  <2>14. Underway'
    BY <1>1, <1>3, <2>6, <2>7, <2>10, <2>11, <2>12, <2>13, ReadsOn DEF LastOf
  <2> QED BY <1>1, <2>3, <2>6, <2>7, <2>14, QuietKeeps
<1> QED BY <1>4, <1>5

LEMMA ClaudeReadsCacheStep == ASSUME ScanInv, ClaudeReadsCache PROVE ScanInv'
<1>0. PICK c : c = host.cache[1]
  OBVIOUS
<1>1. /\ scan.phase = "reading" /\ Underway /\ Beheld /\ IsScan /\ scan.todo # <<>>
      /\ Head(scan.todo) = <<"cache", Where>> /\ Head(scan.todo) \in Place /\ scan.left \in 0 .. MaxCached
      /\ 1 \in Home /\ Where = 1
  <2>1. /\ scan.phase = "reading" /\ Underway /\ Beheld /\ IsScan /\ scan.todo # <<>>
        /\ Head(scan.todo) = <<"cache", Where>> /\ Head(scan.todo) \in Place /\ scan.left \in 0 .. MaxCached
        /\ Homes \subseteq Home /\ Homes = {1}
    BY ReadingIsUnderway DEF ClaudeReadsCache
  <2>2. Where = 1
    BY <2>1 DEF Place
  <2> QED BY <2>1, <2>2
<1>3. agent = "claude" /\ agent \in Agent /\ host \in Hosts /\ agent' = agent /\ host' = host /\ row' = row
  BY DEF ScanInv, ClaudeReadsCache
<1> DEFINE found == ClaudeCandidates(c)  gaps == scan.gaps \cup ClaudeCacheGaps(c)
<1>4. scan' = [[scan EXCEPT !.candidates = found, !.gaps = gaps] EXCEPT !.todo = Tail(scan.todo)]
  BY <1>0 DEF ClaudeReadsCache, Continue
<1>5. CacheWas(1, c) /\ c \in Caches
  BY <1>0, <1>1, <1>3, BeheldIs DEF CacheWas
<1>2. scan.gaps \subseteq gaps /\ (gaps = {} => ClaudeCacheGaps(c) = {})
  OBVIOUS
<1> HIDE DEF found, gaps
<1>6. /\ scan'.phase = scan.phase /\ scan'.was = scan.was /\ scan'.touched = scan.touched
      /\ scan'.todo = Tail(scan.todo) /\ scan'.gaps = gaps
      /\ scan'.children = scan.children /\ scan'.plugins = scan.plugins
      /\ scan'.configured = scan.configured /\ scan'.candidates = found /\ scan'.left = scan.left
      /\ IsScan'
  BY <1>1, <1>4 DEF IsScan
<1>7. Quiet /\ Gathers
  BY <1>2, <1>3, <1>6 DEF Quiet, Gathers
<1>8. CacheTaken'
  <2>1. CacheWas(1, c)'
    BY <1>5, <1>7, StillWas
  <2>2. CacheRead(c)'
    BY <1>2, <1>3, <1>6 DEF CacheRead
  <2> QED BY <1>5, <1>6, <2>1, <2>2 DEF CacheTaken, found
<1>9. Head(scan.todo) = <<"cache", 1>>
  BY <1>1
<1>10. \A q : Head(scan.todo) # <<"config", q>> /\ Head(scan.todo) # <<"skills", q>> /\ Head(scan.todo) # <<"active", q>>
  BY <1>9
<1>11. Underway'
  BY <1>1, <1>3, <1>6, <1>7, <1>8, <1>9, <1>10, ReadsOn DEF LastOf
<1> QED BY <1>1, <1>6, <1>7, <1>11, QuietKeeps

LEMMA ClaudeReadsActiveStep == ASSUME ScanInv, ClaudeReadsActive PROVE ScanInv'
<1>0. PICK a : a = host.active
  OBVIOUS
<1>1. /\ scan.phase = "reading" /\ Underway /\ Beheld /\ IsScan /\ scan.todo # <<>>
      /\ Head(scan.todo) = <<"active", 1>> /\ Head(scan.todo) \in Place /\ scan.left \in 0 .. MaxCached
      /\ Homes = {1} /\ 1 \in Home
  <2>1. /\ scan.phase = "reading" /\ Underway /\ Beheld /\ IsScan /\ scan.todo # <<>>
        /\ Head(scan.todo) = <<"active", Where>> /\ Head(scan.todo) \in Place /\ scan.left \in 0 .. MaxCached
        /\ Homes \subseteq Home /\ Homes = {1}
    BY ReadingIsUnderway DEF ClaudeReadsActive
  <2> QED BY <2>1 DEF Place
<1>2. agent = "claude" /\ agent \in Agent /\ host \in Hosts /\ agent' = agent /\ host' = host /\ row' = row
  BY DEF ScanInv, ClaudeReadsActive
<1>3. PointerWas(a) /\ a \in Pointers
  BY <1>0, <1>1, <1>2, BeheldIs
\* It is the last place, and the others have been read.
<1>4. Len(scan.todo) = 1 /\ scan.todo[1] = <<"active", 1>> /\ ToRead(<<"active", 1>>)
  <2>1. InOrder /\ PlacesExist
    BY <1>1 DEF Underway
  <2>2. /\ Head(scan.todo) = scan.todo[1] /\ ToRead(Head(scan.todo)) /\ Len(scan.todo) \in Nat \ {0}
        /\ 1 \in DOMAIN scan.todo
    BY <1>1, <2>1, TodoIs DEF PlacesExist
  <2> QED BY <1>1, <1>2, <2>1, <2>2 DEF InOrder
<1>5. ~ToRead(<<"config", 1>>) /\ ~ToRead(<<"cache", 1>>)
  <2>1. \A i \in DOMAIN scan.todo : scan.todo[i] = <<"active", 1>>
    BY <1>1, <1>4 DEF Underway, PlacesExist
  <2> QED BY <2>1 DEF ToRead
<1>6. scan.plugins = {}
  BY <1>1, <1>2, <1>4 DEF Underway
<1>7. PICK o \in Configs : ConfigWas(1, o) /\ ConfigRead(1, o) /\ scan.configured = Configured(o)
  BY <1>1, <1>2, <1>5 DEF Underway, ConfigTaken
<1>8. PICK c \in Caches : CacheWas(1, c) /\ CacheRead(c) /\ scan.candidates = ClaudeCandidates(c)
  BY <1>1, <1>2, <1>5 DEF Underway, CacheTaken
<1> DEFINE found == Descriptors(scan.configured, scan.candidates, a, 1)
<1>9. scan' = [[scan EXCEPT !.plugins = found] EXCEPT !.todo = Tail(scan.todo)]
  BY <1>0 DEF ClaudeReadsActive, Continue
<1>10. found = Joined(o, c, a, 1)
  BY <1>2, <1>7, <1>8 DEF Joined, Candidates
<1> HIDE DEF found
<1>11. /\ scan'.phase = scan.phase /\ scan'.was = scan.was /\ scan'.touched = scan.touched
       /\ scan'.todo = Tail(scan.todo) /\ scan'.gaps = scan.gaps
       /\ scan'.children = scan.children /\ scan'.plugins = found
       /\ scan'.configured = scan.configured /\ scan'.candidates = scan.candidates /\ scan'.left = scan.left
       /\ IsScan'
  BY <1>1, <1>9 DEF IsScan
<1>12. Quiet /\ Gathers
  BY <1>2, <1>6, <1>11 DEF Quiet, Gathers
<1>13. /\ ConfigWas(1, o)' /\ CacheWas(1, c)' /\ PointerWas(a)' /\ ConfigRead(1, o)' /\ CacheRead(c)'
       /\ Joined(o, c, a, 1)' = found /\ Homes' = Homes
  BY <1>3, <1>7, <1>8, <1>10, <1>12, StillWas
<1>14. HomeRead(1)'
  BY <1>3, <1>11, <1>13 DEF HomeRead
<1>15. \A d \in scan'.plugins : PluginWas(d)'
  BY <1>1, <1>3, <1>11, <1>13 DEF PluginWas
<1>16. \A q : Head(scan.todo) # <<"config", q>> /\ Head(scan.todo) # <<"skills", q>> /\ Head(scan.todo) # <<"cache", q>>
  BY <1>1
<1>17. Underway'
  BY <1>1, <1>2, <1>11, <1>12, <1>14, <1>15, <1>16, ReadsOn DEF LastOf
<1> QED BY <1>1, <1>11, <1>12, <1>17, QuietKeeps

LEMMA PublishStep == ASSUME ScanInv, Publish PROVE ScanInv'
<1>1. scan.phase = "reading" /\ scan.todo = <<>> /\ IsScan /\ (GivenUp \/ Underway) /\ scan.left \in 0 .. MaxCached
  BY DEF ScanInv, Publish, ScanTypeOK
<1>2. agent' = agent /\ host' = host /\ agent \in Agent /\ host \in Hosts /\ scan' = [scan EXCEPT !.phase = "done"]
  BY DEF ScanInv, Publish
<1>3. /\ scan'.phase = "done" /\ scan'.was = scan.was /\ scan'.touched = scan.touched
      /\ scan'.todo = scan.todo /\ scan'.gaps = scan.gaps
      /\ scan'.children = scan.children /\ scan'.plugins = scan.plugins
      /\ scan'.configured = scan.configured /\ scan'.candidates = scan.candidates /\ scan'.left = scan.left
      /\ IsScan'
  BY <1>1, <1>2 DEF IsScan
<1>4. Gathers
  BY <1>2, <1>3 DEF Gathers
<1>5. (GivenUp \/ Underway)'
  BY <1>1, <1>3, <1>4, StaysUnderway DEF GivenUp
<1>6. GraphOf(scan)' = GraphOf(scan)
  BY <1>2, <1>3 DEF GraphOf, ChildNodes
<1>7. /\ row' = [state |-> row'.state, snapshot |-> row'.snapshot]
      /\ row'.state \in {"none", "complete", "partial", "not_observed", "degraded"}
      /\ Stored'
  <2>1. CASE scan.twice
    <3>1. row' = [row EXCEPT !.state = "degraded"] /\ row = [state |-> row.state, snapshot |-> row.snapshot]
      BY <2>1 DEF Publish, RecordFailure, ScanInv
    <3> QED BY <1>1, <1>3, <3>1 DEF Stored
  <2>2. CASE ~scan.twice
    <3>1. row' = [state |-> IF Completeness(scan) = "unknown" THEN "not_observed" ELSE Completeness(scan),
                  snapshot |-> GraphOf(scan)]
      BY <2>2 DEF Publish
    <3>2. Completeness(scan) \in {"unknown", "partial", "complete"}
      BY DEF Completeness
    <3>3. Completeness(scan) = "complete" => GraphOf(scan) # {} /\ scan.gaps = {}
      BY DEF Completeness
    <3>4. /\ row'.state = IF Completeness(scan) = "unknown" THEN "not_observed" ELSE Completeness(scan)
          /\ row'.snapshot = GraphOf(scan)
      BY <3>1
    <3>5. row'.state = "complete" => GraphOf(scan)' # {} /\ scan'.gaps = {}
      BY <1>3, <1>6, <3>2, <3>3, <3>4
    <3> QED BY <1>1, <1>3, <1>6, <3>1, <3>2, <3>4, <3>5 DEF Stored
  <2> QED BY <2>1, <2>2
<1>8. (host \in Hosts)' /\ (agent \in Agent)'
  BY <1>2 DEF Hosts
<1> QED BY <1>1, <1>3, <1>5, <1>7, <1>8 DEF ScanInv, ScanTypeOK

\* The user changes one place, which is known to have been touched.
LEMMA EditStep ==
  ASSUME ScanInv, NEW h, NEW place, Edit(h, place), h \in Hosts,
         \A q \in Home : <<"config", q>> # place => h.config[q] = host.config[q],
         \A q \in Home : <<"cache", q>> # place => h.cache[q] = host.cache[q],
         \A r \in Roots : <<"skills", r>> # place => h.roots[r] = host.roots[r],
         <<"active", 1>> # place => h.active = host.active
  PROVE  ScanInv'
<1>1. host' = h /\ agent' = agent /\ row' = row
  BY DEF Edit
<1>2. (host \in Hosts)' /\ (agent \in Agent)'
  BY <1>1 DEF ScanInv, Hosts
<1>3. CASE scan.phase = "reading"
  <2>1. scan' = [scan EXCEPT !.touched = @ \cup {place}] /\ IsScan
    BY <1>3 DEF Edit, ScanInv
  <2>2. /\ scan'.phase = scan.phase /\ scan'.was = scan.was /\ scan'.touched = scan.touched \cup {place}
        /\ scan'.todo = scan.todo /\ scan'.gaps = scan.gaps
        /\ scan'.children = scan.children /\ scan'.plugins = scan.plugins
        /\ scan'.configured = scan.configured /\ scan'.candidates = scan.candidates /\ scan'.left = scan.left
        /\ IsScan'
    BY <2>1 DEF IsScan
  <2>3. Gathers
    BY <1>1, <2>2 DEF Gathers
  <2>4. (GivenUp \/ Underway)'
    BY <1>3, <2>2, <2>3, StaysUnderway DEF ScanInv, GivenUp
  <2>5. \A p : Still(p)' => Still(p) /\ p # place
    BY <2>2 DEF Still
  <2>6. Beheld'
    BY <1>1, <1>3, <2>2, <2>5 DEF ScanInv, Beheld, Unchanged
  <2> QED BY <1>1, <1>2, <1>3, <2>2, <2>4, <2>6 DEF ScanInv, ScanTypeOK
<1>4. CASE scan.phase # "reading"
  <2>1. scan' = scan
    BY <1>4 DEF Edit
  <2>2. Gathers
    BY <1>1, <2>1 DEF Gathers
  <2>3. (GivenUp \/ Underway) => (GivenUp \/ Underway)'
    BY <2>1, <2>2, StaysUnderway DEF GivenUp
  <2>4. GraphOf(scan)' = GraphOf(scan)
    BY <1>1, <2>1 DEF GraphOf, ChildNodes
  <2>5. Stored => Stored'
    BY <1>1, <2>1, <2>4 DEF Stored
  <2>6. IsScan'
    BY <2>1 DEF ScanInv, IsScan
  <2> QED BY <1>1, <1>2, <1>4, <2>1, <2>3, <2>5, <2>6 DEF ScanInv, ScanTypeOK
<1> QED BY <1>3, <1>4

LEMMA UserEditsStep == ASSUME ScanInv, UserEdits PROVE ScanInv'
<1>1. /\ host \in Hosts /\ agent \in Agent /\ Homes \subseteq Home
      /\ host = [mounted |-> host.mounted, profiles |-> host.profiles, config |-> host.config,
                 roots |-> host.roots, cache |-> host.cache, active |-> host.active]
      /\ host.config \in [Home -> Configs] /\ host.cache \in [Home -> Caches]
      /\ host.roots \in [{"user", "personal"} -> SkillRoots] /\ host.active \in Pointers
  BY HomesAreNumbers DEF ScanInv, Hosts
<1>2. ASSUME NEW h \in Homes, NEW c \in Configs, Edit([host EXCEPT !.config[h] = c], <<"config", h>>) PROVE ScanInv'
  <2> DEFINE new == [host EXCEPT !.config[h] = c]
  <2>1. /\ new \in Hosts /\ new.cache = host.cache /\ new.roots = host.roots /\ new.active = host.active
        /\ \A q \in Home : q # h => new.config[q] = host.config[q]
    BY <1>1, <1>2 DEF Hosts
  <2> HIDE DEF new
  <2>2. \A q \in Home : <<"config", q>> # <<"config", h>> => new.config[q] = host.config[q]
    BY <2>1
  <2>3. Edit(new, <<"config", h>>)
    BY <1>2 DEF new
  <2> QED BY <2>1, <2>2, <2>3, EditStep
<1>3. ASSUME NEW h \in Homes, NEW c \in Caches, Edit([host EXCEPT !.cache[h] = c], <<"cache", h>>) PROVE ScanInv'
  <2> DEFINE new == [host EXCEPT !.cache[h] = c]
  <2>1. /\ new \in Hosts /\ new.config = host.config /\ new.roots = host.roots /\ new.active = host.active
        /\ \A q \in Home : q # h => new.cache[q] = host.cache[q]
    BY <1>1, <1>3 DEF Hosts
  <2> HIDE DEF new
  <2>2. \A q \in Home : <<"cache", q>> # <<"cache", h>> => new.cache[q] = host.cache[q]
    BY <2>1
  <2>3. Edit(new, <<"cache", h>>)
    BY <1>3 DEF new
  <2> QED BY <2>1, <2>2, <2>3, EditStep
<1>4. ASSUME NEW r \in DOMAIN host.roots, NEW root \in SkillRoots, Edit([host EXCEPT !.roots[r] = root], <<"skills", r>>)
      PROVE  ScanInv'
  <2> DEFINE new == [host EXCEPT !.roots[r] = root]
  <2>1. /\ new \in Hosts /\ new.config = host.config /\ new.cache = host.cache /\ new.active = host.active
        /\ \A q \in Roots : q # r => new.roots[q] = host.roots[q]
    BY <1>1, <1>4 DEF Hosts, Roots
  <2> HIDE DEF new
  <2>2. \A q \in Roots : <<"skills", q>> # <<"skills", r>> => new.roots[q] = host.roots[q]
    BY <2>1
  <2>3. Edit(new, <<"skills", r>>)
    BY <1>4 DEF new
  <2> QED BY <2>1, <2>2, <2>3, EditStep
<1>5. ASSUME NEW p \in Pointers, Edit([host EXCEPT !.active = p], <<"active", 1>>) PROVE ScanInv'
  <2> DEFINE new == [host EXCEPT !.active = p]
  <2>1. new \in Hosts /\ new.config = host.config /\ new.cache = host.cache /\ new.roots = host.roots
    BY <1>1, <1>5 DEF Hosts
  <2> HIDE DEF new
  <2>3. Edit(new, <<"active", 1>>)
    BY <1>5 DEF new
  <2> QED BY <2>1, <2>3, EditStep
<1>6. ASSUME NEW m \in {"there", "absent", "refused"}, Edit([host EXCEPT !.mounted = m], <<"mount", 1>>) PROVE ScanInv'
  <2> DEFINE new == [host EXCEPT !.mounted = m]
  <2>1. /\ new \in Hosts /\ new.config = host.config /\ new.cache = host.cache /\ new.roots = host.roots
        /\ new.active = host.active
    BY <1>1, <1>6 DEF Hosts
  <2> HIDE DEF new
  <2>3. Edit(new, <<"mount", 1>>)
    BY <1>6 DEF new
  <2> QED BY <2>1, <2>3, EditStep
<1> QED BY <1>2, <1>3, <1>4, <1>5, <1>6 DEF UserEdits

-----------------------------------------------------------------------------
(* The plan of a scan.                                                     *)

Planned(t) ==
  /\ t \in Seq(Place) /\ t # <<>>
  /\ \A h \in Homes : \E i \in DOMAIN t : t[i] = LastOf(h)
  /\ \A r \in IF agent = "codex" THEN {"user"} ELSE Roots : \E i \in DOMAIN t : t[i] = <<"skills", r>>
  /\ IF agent = "codex"
     THEN /\ t[1][1] # "cache"
          /\ \A i \in DOMAIN t : t[i][1] = "cache" =>
               t[i][2] \in Home /\ (i > 1 => t[i - 1] = <<"config", t[i][2]>>)
     ELSE /\ \A what \in {"config", "cache", "active"} : \E i \in DOMAIN t : t[i] = <<what, 1>>
          /\ \A i \in DOMAIN t : (t[i] = <<"active", 1>> => i = Len(t)) /\ (t[i] = <<"config", 1>> => i = 1)

Halves(n) == [i \in 1 .. 2 * n |-> <<IF i % 2 = 1 THEN "config" ELSE "cache", (i + 1) \div 2>>]

LEMMA HalvesAre ==
  ASSUME NEW n \in Nat, NEW i \in 1 .. 2 * n
  PROVE  /\ (i + 1) \div 2 \in 1 .. n /\ Halves(n)[i] = <<IF i % 2 = 1 THEN "config" ELSE "cache", (i + 1) \div 2>>
         /\ i % 2 # 1 /\ i > 1 => /\ i - 1 \in 1 .. 2 * n /\ (i - 1) % 2 = 1
                                  /\ ((i - 1) + 1) \div 2 = (i + 1) \div 2
<1>1. (i + 1) \div 2 \in 1 .. n
  OBVIOUS
<1>2. Halves(n)[i] = <<IF i % 2 = 1 THEN "config" ELSE "cache", (i + 1) \div 2>>
  BY DEF Halves
<1>3. i % 2 # 1 /\ i > 1 => i - 1 \in 1 .. 2 * n /\ (i - 1) % 2 = 1 /\ ((i - 1) + 1) \div 2 = (i + 1) \div 2
  OBVIOUS
<1> QED BY <1>1, <1>2, <1>3

LEMMA CodexPlan == ASSUME agent = "codex", agent \in Agent PROVE Planned(Plan(Home))
<1> DEFINE n == Cardinality(Home)  user == <<"skills", "user">>  t == Halves(n) \o <<user>>
<1>1. n \in Nat /\ Home = 1 .. n /\ Homes = Home /\ 1 \in Home
  BY ScanAssumption, FS_CardinalityType, HomesAreNumbers DEF Homes
<1>2. Plan(Home) = t
  BY DEF Plan, Halves
<1> HIDE DEF n
<1>3. n >= 1
  BY <1>1
<1>4. Halves(n) \in Seq(Place) /\ Len(Halves(n)) = 2 * n
  <2>1. ASSUME NEW i \in 1 .. 2 * n PROVE Halves(n)[i] \in Place
    <3>1. PICK q : q = (i + 1) \div 2
      OBVIOUS
    <3>2. q \in Homes /\ Halves(n)[i] = <<IF i % 2 = 1 THEN "config" ELSE "cache", q>>
      BY <1>1, <3>1, HalvesAre
    <3>3. Halves(n)[i] = <<"config", q>> \/ Halves(n)[i] = <<"cache", q>>
      BY <3>2
    <3> QED BY <3>2, <3>3 DEF Place
  <2> QED BY <1>1, <2>1 DEF Halves
<1>5. user \in Place
  BY DEF Place, Roots
<1> HIDE DEF user
<1>6. /\ t \in Seq(Place) /\ Len(t) = 2 * n + 1 /\ DOMAIN t = 1 .. 2 * n + 1
      /\ \A i \in 1 .. 2 * n : t[i] = Halves(n)[i]
      /\ t[2 * n + 1] = user
  BY <1>1, <1>4, <1>5
<1> HIDE DEF t
<1>7. \A i \in DOMAIN t : i \in 1 .. 2 * n \/ t[i] = user
  BY <1>1, <1>6
<1>8. ASSUME NEW h \in Homes PROVE \E i \in DOMAIN t : t[i] = LastOf(h)
  <2>1. h \in 1 .. n /\ 2 * h \in 1 .. 2 * n
    BY <1>1, <1>8
  <2>2. (2 * h) % 2 = 0 /\ (2 * h + 1) \div 2 = h
    BY <2>1
  <2>3. t[2 * h] = <<"cache", h>>
    <3>1. PICK i : i = 2 * h
      OBVIOUS
    <3>2. i \in 1 .. 2 * n /\ ~(i % 2 = 1) /\ (i + 1) \div 2 = h
      BY <2>1, <2>2, <3>1
    <3>3. Halves(n)[i] = <<IF i % 2 = 1 THEN "config" ELSE "cache", (i + 1) \div 2>>
      BY <1>1, <3>2, HalvesAre
    <3>4. t[i] = <<"cache", h>>
      BY <1>6, <3>2, <3>3
    <3> QED BY <3>1, <3>4
  <2>4. 2 * h \in DOMAIN t
    BY <1>1, <1>6, <2>1
  <2> QED BY <2>3, <2>4 DEF LastOf
<1>9. t[1][1] # "cache"
  <2>1. 1 \in 1 .. 2 * n /\ 1 % 2 = 1
    BY <1>1, <1>3
  <2>2. t[1] = <<"config", (1 + 1) \div 2>>
    BY <1>1, <1>6, <2>1, HalvesAre
  <2> QED BY <2>2
<1>10. ASSUME NEW i \in DOMAIN t, t[i][1] = "cache"
       PROVE  t[i][2] \in Home /\ (i > 1 => t[i - 1] = <<"config", t[i][2]>>)
  <2>1. i \in 1 .. 2 * n
    BY <1>7, <1>10 DEF user
  <2>2. i % 2 # 1 /\ t[i] = <<"cache", (i + 1) \div 2>> /\ (i + 1) \div 2 \in 1 .. n
    <3>1. PICK q : q = (i + 1) \div 2
      OBVIOUS
    <3>2. q \in 1 .. n /\ t[i] = <<IF i % 2 = 1 THEN "config" ELSE "cache", q>>
      BY <1>1, <1>6, <2>1, <3>1, HalvesAre
    <3>3. i % 2 # 1
      BY <1>10, <3>2
    <3> QED BY <3>1, <3>2, <3>3
  <2>3. ASSUME i > 1 PROVE t[i - 1] = <<"config", (i + 1) \div 2>>
    <3>1. i - 1 \in 1 .. 2 * n /\ (i - 1) % 2 = 1 /\ ((i - 1) + 1) \div 2 = (i + 1) \div 2
      BY <1>1, <2>1, <2>2, <2>3, HalvesAre
    <3> QED BY <1>1, <1>6, <3>1, HalvesAre
  <2> QED BY <1>1, <2>2, <2>3
<1>11. \E i \in DOMAIN t : t[i] = <<"skills", "user">>
  BY <1>1, <1>6 DEF user
<1>12. t # <<>>
  BY <1>1, <1>6
<1> QED BY <1>2, <1>6, <1>8, <1>9, <1>10, <1>11, <1>12 DEF Planned

LEMMA ClaudePlan == ASSUME agent = "claude", agent \in Agent, NEW homes PROVE Planned(Plan(homes))
<1> DEFINE t == <<<<"config", 1>>, <<"skills", "user">>, <<"skills", "personal">>, <<"cache", 1>>, <<"active", 1>>>>
<1>1. Plan(homes) = t
  BY DEF Plan
<1>2. \A p \in {<<"config", 1>>, <<"skills", "user">>, <<"skills", "personal">>, <<"cache", 1>>, <<"active", 1>>} : p \in Place
  BY DEF Place, Roots, Homes
<1>3. t \in Seq(Place) /\ t # <<>> /\ DOMAIN t = 1 .. 5 /\ Len(t) = 5
  BY <1>2
<1>4. /\ t[1] = <<"config", 1>> /\ t[2] = <<"skills", "user">> /\ t[3] = <<"skills", "personal">>
      /\ t[4] = <<"cache", 1>> /\ t[5] = <<"active", 1>>
  OBVIOUS
<1> HIDE DEF t
<1>5. \A h \in Homes : \E i \in DOMAIN t : t[i] = LastOf(h)
  BY <1>3, <1>4 DEF LastOf
<1>6. \A r \in Roots : \E i \in DOMAIN t : t[i] = <<"skills", r>>
  BY <1>3, <1>4 DEF Roots
<1>7. \A what \in {"config", "cache", "active"} : \E i \in DOMAIN t : t[i] = <<what, 1>>
  BY <1>3, <1>4
<1>8. ASSUME NEW i \in DOMAIN t PROVE (t[i] = <<"active", 1>> => i = Len(t)) /\ (t[i] = <<"config", 1>> => i = 1)
  <2>1. i \in {1, 2, 3, 4, 5}
    BY <1>3
  <2> QED BY <1>3, <1>4, <2>1
<1> QED BY <1>1, <1>3, <1>5, <1>6, <1>7, <1>8 DEF Planned

LEMMA StartScanStep == ASSUME ScanInv, StartScan PROVE ScanInv'
<1>1. agent' = agent /\ host' = host /\ agent \in Agent /\ host \in Hosts
  BY DEF ScanInv, StartScan
<1>2. (agent \in Agent)' /\ (host \in Hosts)' /\ Homes' = Homes /\ Home = {1} \cup DirectoryNames(host.profiles)
  BY <1>1, ScanAssumption DEF Hosts, Homes, DirectoryNames, Entries
<1>3. CASE scan' = NoScan
  <2>1. \E s \in {"degraded", "not_observed"} : RecordFailure(s)
    <3>1. host.mounted \in {"refused", "absent"}
      BY <1>3 DEF StartScan, NoScan
    <3> QED BY <3>1 DEF StartScan
  <2>2. row' = [state |-> row'.state, snapshot |-> row'.snapshot] /\ row'.state \in {"degraded", "not_observed"}
    BY <2>1 DEF RecordFailure, ScanInv
  <2>3. MaxCached \in 0 .. MaxCached
    BY ScanAssumption
  <2>4. IsScan' /\ scan'.phase = "idle" /\ scan'.left = MaxCached
    BY <1>3 DEF NoScan, IsScan
  <2> QED BY <1>2, <2>2, <2>3, <2>4 DEF ScanInv, ScanTypeOK
<1>4. ASSUME NEW t, scan' = [NoScan EXCEPT !.phase = "reading", !.was = host, !.todo = t],
             row' = row, t = <<>> \/ Planned(t)
      PROVE  ScanInv'
  <2>1. /\ scan'.phase = "reading" /\ scan'.was = host /\ scan'.todo = t /\ scan'.left = MaxCached
        /\ scan'.plugins = {} /\ scan'.children = {} /\ scan'.touched = {} /\ scan'.configured = <<>>
        /\ scan'.candidates = {} /\ IsScan'
    BY <1>4 DEF NoScan, IsScan
  <2>2. Beheld'
    BY <1>1, <2>1 DEF Beheld, Unchanged
  <2>3. MaxCached \in 0 .. MaxCached
    BY ScanAssumption
  <2>4. (GivenUp \/ Underway)'
    <3>1. CASE t = <<>>
      BY <2>1, <3>1 DEF GivenUp
    <3>2. CASE Planned(t)
      <4>1. \A place : ToRead(place)' <=> \E i \in DOMAIN t : t[i] = place
        BY <2>1 DEF ToRead
      <4>2. (scan.was \in Hosts)' /\ PlacesExist' /\ InOrder'
        BY <1>1, <1>2, <2>1, <3>2 DEF Hosts, PlacesExist, Place, InOrder, Planned
      <4>3. \A h \in Homes : LastOf(h)' = LastOf(h) /\ ToRead(LastOf(h))'
        BY <1>1, <3>2, <4>1 DEF LastOf, Planned
      <4>4. \A r \in Roots : ToRead(<<"skills", r>>)' \/ (agent = "codex" /\ r = "personal")
        BY <3>2, <4>1 DEF Planned, Roots
      <4>5. CASE agent = "codex"
        <5>1. Head(t) = t[1] /\ t[1][1] # "cache"
          BY <3>2, <4>5 DEF Planned
        <5>2. \A h \in Home : Head(t) # <<"cache", h>>
          BY <5>1
        <5> QED BY <1>1, <1>2, <2>1, <4>2, <4>3, <4>4, <4>5, <5>2 DEF Underway
      <4>6. CASE agent # "codex"
        <5>1. ToRead(<<"config", 1>>)' /\ ToRead(<<"cache", 1>>)' /\ ToRead(<<"active", 1>>)'
          BY <3>2, <4>1, <4>6 DEF Planned
        <5> QED BY <1>1, <1>2, <2>1, <4>2, <4>3, <4>4, <4>6, <5>1 DEF Underway
      <4> QED BY <4>5, <4>6
    <3> QED BY <1>4, <3>1, <3>2
  <2> QED BY <1>2, <1>4, <2>1, <2>2, <2>3, <2>4 DEF ScanInv, ScanTypeOK
<1>5. CASE scan' # NoScan
  <2> DEFINE homes == {1} \cup (IF agent = "codex" THEN DirectoryNames(host.profiles) ELSE {})
             t == IF agent = "codex" /\ ListDirectoryProbe(host.profiles) = "refused" THEN <<>> ELSE Plan(homes)
  <2>1. scan' = [NoScan EXCEPT !.phase = "reading", !.was = host, !.todo = t] /\ row' = row
    BY <1>5 DEF StartScan
  <2>2. agent = "codex" => homes = Home
    BY <1>2
  <2> HIDE DEF homes
  <2>3. t = <<>> \/ Planned(t)
    BY <1>1, <2>2, CodexPlan, ClaudePlan, ScanAssumption
  <2> HIDE DEF t
  <2> QED BY <1>4, <2>1, <2>3
<1> QED BY <1>3, <1>5

-----------------------------------------------------------------------------
\* The invariant holds of every scan.
LEMMA ScanInvInit == ScanInit => ScanInv
<1> SUFFICES ASSUME ScanInit PROVE ScanInv
  OBVIOUS
<1>1. scan.phase = "idle" /\ scan.left = MaxCached /\ IsScan
  BY DEF ScanInit, NoScan, IsScan
<1>2. MaxCached \in 0 .. MaxCached /\ HomeHost \in Hosts
  BY ScanAssumption
<1> QED BY <1>1, <1>2 DEF ScanInit, ScanInv, ScanTypeOK

LEMMA ScanInvStep == ScanInv /\ ScanNext => ScanInv'
BY StartScanStep, CodexReadsConfigStep, ClaudeReadsConfigStep, ReadsSkillsStep, CodexReadsCacheStep,
   ClaudeReadsCacheStep, ClaudeReadsActiveStep, PublishStep, UserEditsStep DEF ScanNext

LEMMA ScanInvRests == ScanInv /\ UNCHANGED <<agent, host, scan, row>> => ScanInv'
<1> SUFFICES ASSUME ScanInv, UNCHANGED <<agent, host, scan, row>> PROVE ScanInv'
  OBVIOUS
<1>1. Gathers
  BY DEF Gathers
<1>2. (GivenUp \/ Underway) => (GivenUp \/ Underway)'
  BY <1>1, StaysUnderway DEF GivenUp
<1>3. GraphOf(scan)' = GraphOf(scan)
  BY DEF GraphOf, ChildNodes
<1>4. /\ (scan.phase = "done" => Stored) => (scan.phase = "done" => Stored)'
      /\ (scan.phase = "reading" => Beheld) => (scan.phase = "reading" => Beheld)'
  BY <1>3 DEF Stored, Beheld, Unchanged, Still
<1>5. /\ (ScanTypeOK /\ IsScan /\ agent \in Agent /\ host \in Hosts)'
      /\ (row = [state |-> row.state, snapshot |-> row.snapshot])'
  BY DEF ScanInv, ScanTypeOK, IsScan, Hosts
<1> QED BY <1>2, <1>4, <1>5 DEF ScanInv

ScanSpec == ScanInit /\ [][ScanNext]_scanVars

\* A scan tells the truth about the host it read, whatever the user edits while it reads.
THEOREM ScansAreTrue == ScanSpec => [](ScanTypeOK /\ ScanHolds)
<1>1. ScanInv /\ [ScanNext]_scanVars => ScanInv'
  BY ScanInvStep, ScanInvRests DEF scanVars
<1> QED BY <1>1, ScanInvInit, ScanFacts, PTL DEF ScanSpec
===============================================================================
