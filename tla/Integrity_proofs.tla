--------------------------- MODULE Integrity_proofs ---------------------------
(***************************************************************************)
(* Proofs about the integrity engine.  Of its runs, for any number of      *)
(* instances, checks, crashes and findings: one instance works on one run  *)
(* at a time, a run that passed has a fresh pass of every check it was     *)
(* asked for, and what is stored of runs agrees.  Of the checks that act:  *)
(* they say passed only of what they saw and cleaned up.  Of the others:   *)
(* health is what their evidence was.                                      *)
(***************************************************************************)
EXTENDS MCIntegrity, SequenceTheorems, FiniteSetTheorems, WellFoundedInduction, TLAPS

AuditSpec == AuditInit /\ [][AuditNext]_auditVars

LiveLabel == {"start", "evaluate", "pending", "failing"}
OtherLabel == {"down", "idle", "list", "mark", "startup", "lock", "store"}
AuditorState == [pc : LiveLabel \cup OtherLabel, run : Nat, at : Nat, seen : Nat, todo : Seq(Check),
                 prior : [Check -> Nat], listed : SUBSET Nat]
RunState == Terminal \cup {"scheduled", "running"}
RunRow == [state : RunState, reason : {"none", "crash_recovery", "operator_cancelled", "stage_timeout", "red_tier"}, at : Nat, seen : Nat, asked : SUBSET Check, report : Terminal \cup {"none"}]
Status == Failure \cup {"none", "pending", "pass"}
CheckRow == [at : Nat, status : Status]
RowsOfRun == [Check \cup {Final} -> CheckRow]

Types ==
  /\ deployed \in Deployments /\ clock \in Nat /\ version \in Nat
  /\ auditor \in [Auditor -> AuditorState] /\ holder \in Auditor \cup {Free}
  /\ runs \in Seq(RunRow) /\ rows \in Seq(RowsOfRun) /\ Len(rows) = Len(runs)

\* The passes taken over from interrupted runs are fresh at the moment of the
\* start, which is the time of the run that uses them; no later run sees them.
PriorOf(s) ==
  IF s.pc \in LiveLabel \cup {"startup", "lock"}
  THEN \A c \in Check : s.prior[c] # 0 => s.at - s.prior[c] <= Window
  ELSE s.prior = NoPrior

\* A live run is there, has its auditor's time, and has not passed.
LiveRun(a) ==
  /\ holder = a /\ Run(a) = Len(runs) /\ Len(runs) # 0
  /\ runs[Run(a)].at = auditor[a].at /\ runs[Run(a)].state # "passed"

\* The checks it was asked for are those to do and those that have an outcome.
Earned(r, c) ==
  /\ rows[r][c].status \in Failure \cup {"pass"}
  /\ rows[r][c].status = "pass" => runs[r].at - rows[r][c].at <= Window
Accounted(a) ==
  /\ auditor[a].pc = "pending" => auditor[a].todo # <<>>
  /\ auditor[a].pc # "failing" =>
       \A c \in runs[Run(a)].asked : c \in Range(auditor[a].todo) \/ Earned(Run(a), c)

AuditInv ==
  /\ Types
  /\ \A a \in Auditor : PriorOf(auditor[a])
  /\ \A a \in Auditor : Live(a) => LiveRun(a) /\ Accounted(a)
  /\ PassedIsEarned

USE AuditAssumption
USE DEF LiveLabel, OtherLabel

-----------------------------------------------------------------------------
\* How a step may change the rows of runs: none is new and none becomes passed.
RunsKept ==
  /\ runs' \in Seq(RunRow) /\ Len(runs') = Len(runs)
  /\ \A r \in DOMAIN runs : /\ runs'[r].at = runs[r].at /\ runs'[r].asked = runs[r].asked
                            /\ runs'[r].state = "passed" => runs[r].state = "passed"

LEMMA Limits == Types => Limit.clock \in Nat
<1>1. Types => Cardinality(deployed) \in DOMAIN Bound
  BY DEF Types
<1>2. \A n \in DOMAIN Bound : Bound[n] \in [clock : Nat, version : Nat, findings : Nat, crashes : Nat, faults : Nat]
  <2> TAKE n \in DOMAIN Bound
  <2>1. DOMAIN Bound = 1 .. Len(Bound)
    OBVIOUS
  <2> QED BY <2>1, ElementOfSeq
<1> QED BY <1>1, <1>2 DEF Limit

LEMMA LiveLabels == \A a \in Auditor : Live(a) <=> auditor[a].pc \in LiveLabel
BY DEF Live

LEMMA KeptRuns == ASSUME Types, runs' = runs PROVE RunsKept
BY DEF RunsKept, Types, RunRow

LEMMA Resting == Types => /\ NoPrior \in [Check -> Nat]
                         /\ Off \in AuditorState /\ Idle \in AuditorState
                         /\ Off.pc = "down" /\ Idle.pc = "idle"
                         /\ Off.prior = NoPrior /\ Idle.prior = NoPrior
<1>1. NoPrior \in [Check -> Nat]
  BY DEF NoPrior
<1>2. Off \in AuditorState /\ Off.pc = "down" /\ Off.prior = NoPrior
  BY <1>1 DEF AuditorState, Off
<1>3. Idle \in AuditorState /\ Idle.pc = "idle" /\ Idle.prior = NoPrior
  BY <1>2 DEF Idle, AuditorState
<1> QED BY <1>1, <1>2, <1>3

LEMMA InitInv == AuditInit => AuditInv
<1> SUFFICES ASSUME AuditInit PROVE AuditInv
  OBVIOUS
<1>1. Types
  BY Resting DEF AuditInit, Types, Off, AuditorState, NoPrior
<1>2. \A a \in Auditor : PriorOf(auditor[a]) /\ ~Live(a)
  BY Resting DEF AuditInit, PriorOf, Live, Off
<1>3. PassedIsEarned
  BY DEF AuditInit, PassedIsEarned
<1> QED BY <1>1, <1>2, <1>3 DEF AuditInv

-----------------------------------------------------------------------------
\* A step of an instance that afterwards works on no run: the others go on.
LEMMA RestStep ==
  ASSUME AuditInv, RunsKept, NEW a \in Auditor, NEW s \in AuditorState,
         s.pc \notin LiveLabel, PriorOf(s), Becomes(a, s),
         rows' = rows, deployed' = deployed, clock' \in Nat, version' = version,
         holder' = holder \/ (holder' = Free /\ holder = a)
  PROVE  AuditInv'
<1>0. Types /\ \A b \in Auditor : auditor'[b] = IF b = a THEN s ELSE auditor[b]
  BY DEF AuditInv, Types, Becomes
<1>a. DOMAIN runs = 1 .. Len(runs) /\ DOMAIN runs' = DOMAIN runs
  BY <1>0 DEF Types, RunsKept
<1>1. Types'
  BY <1>0 DEF Types, Becomes, RunsKept
<1>2. \A b \in Auditor : PriorOf(auditor'[b])
  BY <1>0 DEF AuditInv
<1>3. ASSUME NEW b \in Auditor, Live(b)' PROVE (LiveRun(b) /\ Accounted(b))'
  <2>1. b # a /\ Live(b) /\ LiveRun(b) /\ Accounted(b) /\ auditor'[b] = auditor[b]
    BY <1>0, <1>3 DEF Live, AuditInv
  <2>2. Run(b)' = Run(b) /\ Run(b) \in DOMAIN runs
    BY <1>0, <1>a, <2>1 DEF LiveRun, Run, Types
  <2>3. LiveRun(b)'
    BY <1>0, <2>1, <2>2 DEF LiveRun, RunsKept, Run
  <2>4. Accounted(b)'
    <3>1. runs'[Run(b)].at = runs[Run(b)].at /\ runs'[Run(b)].asked = runs[Run(b)].asked
      BY <2>2 DEF RunsKept
    <3>2. \A c : Earned(Run(b), c) => Earned(Run(b), c)'
      BY <2>2, <3>1 DEF Earned
    <3> QED BY <2>1, <2>2, <3>1, <3>2 DEF Accounted
  <2> QED BY <2>3, <2>4
<1>4. PassedIsEarned'
  <2> SUFFICES ASSUME NEW r \in DOMAIN runs, runs'[r].state = "passed", NEW c \in runs'[r].asked
               PROVE  rows'[r][c].status = "pass" /\ runs'[r].at - rows'[r][c].at <= Window
    BY <1>a DEF PassedIsEarned
  <2> QED BY DEF AuditInv, PassedIsEarned, RunsKept
<1> QED BY <1>1, <1>2, <1>3, <1>4 DEF AuditInv

\* A step on the run an instance works on: rows of the other runs stay.
LEMMA LiveStep ==
  ASSUME AuditInv, RunsKept, NEW a \in Auditor, Live(a), NEW s \in AuditorState,
         s.pc \in LiveLabel, s.run = Run(a), s.at = auditor[a].at, s.prior = auditor[a].prior,
         Becomes(a, s), UNCHANGED <<deployed, clock, holder, version>>,
         rows' \in Seq(RowsOfRun), Len(rows') = Len(rows),
         \A r \in DOMAIN rows : r # Run(a) => rows'[r] = rows[r],
         Accounted(a)'
  PROVE  AuditInv'
<1>0. Types /\ LiveRun(a) /\ \A b \in Auditor : auditor'[b] = IF b = a THEN s ELSE auditor[b]
  BY DEF AuditInv, Types, Becomes
<1>a. DOMAIN runs = 1 .. Len(runs) /\ DOMAIN runs' = DOMAIN runs /\ DOMAIN rows = DOMAIN runs
  BY <1>0 DEF Types, RunsKept
<1>1. Types'
  <2>1. auditor' \in [Auditor -> AuditorState]
    BY <1>0 DEF Types, Becomes
  <2>2. runs' \in Seq(RunRow) /\ Len(rows') = Len(runs')
    BY <1>0 DEF Types, RunsKept
  <2> QED BY <1>0, <2>1, <2>2 DEF Types
<1>2. \A b \in Auditor : PriorOf(auditor'[b])
  <2>1. PriorOf(auditor[a])
    BY DEF AuditInv
  <2>2. PriorOf(s)
    BY <2>1, LiveLabels DEF PriorOf
  <2> QED BY <1>0, <2>2 DEF AuditInv
<1>3. ASSUME NEW b \in Auditor, Live(b)' PROVE (LiveRun(b) /\ Accounted(b))'
  <2>1. b = a
    BY <1>0, <1>3 DEF Live, AuditInv, LiveRun
  <2>a. Run(a)' = Run(a) /\ auditor'[a].at = auditor[a].at
    BY <1>0 DEF Run
  <2>b. Run(a) \in DOMAIN runs
    BY <1>0, <1>a, LenProperties DEF LiveRun, Types
  <2>2. Run(a)' = Run(a) /\ Run(a) \in DOMAIN runs /\ auditor'[a].at = auditor[a].at
    BY <2>a, <2>b
  <2>3. LiveRun(a)'
    BY <1>0, <2>2 DEF LiveRun, RunsKept
  <2> QED BY <2>1, <2>3
<1>4. PassedIsEarned'
  <2> SUFFICES ASSUME NEW r \in DOMAIN runs, runs'[r].state = "passed", NEW c \in runs'[r].asked
               PROVE  rows'[r][c].status = "pass" /\ runs'[r].at - rows'[r][c].at <= Window
    BY <1>a DEF PassedIsEarned
  <2>1. /\ runs[r].state = "passed" /\ c \in runs[r].asked /\ runs'[r].at = runs[r].at
    BY DEF RunsKept
  <2>2. r # Run(a)
    BY <1>0, <2>1 DEF LiveRun
  <2>3. rows'[r] = rows[r]
    BY <1>a, <2>2
  <2> QED BY <2>1, <2>3 DEF AuditInv, PassedIsEarned
<1> QED BY <1>1, <1>2, <1>3, <1>4 DEF AuditInv

\* The end of a run: its row ends, nobody is live afterwards, and if it ends as
\* passed then every check it was asked for has a fresh pass.
LEMMA EndStep ==
  ASSUME AuditInv, NEW a \in Auditor, Live(a), NEW s \in AuditorState,
         s.pc \notin LiveLabel, PriorOf(s), Becomes(a, s),
         UNCHANGED <<deployed, clock, version>>, holder' = Free,
         NEW entry \in RunRow, entry.at = auditor[a].at, entry.asked = runs[Run(a)].asked,
         runs' = [runs EXCEPT ![Run(a)] = entry],
         NEW end \in CheckRow, end.status = "pass" => end.at = auditor[a].at,
         rows' = [rows EXCEPT ![Run(a)] = [rows[Run(a)] EXCEPT ![Final] = end]],
         entry.state = "passed" =>
           end.status = "pass" /\ \A c \in entry.asked : rows[Run(a)][c].status = "pass" /\ Earned(Run(a), c)
  PROVE  AuditInv'
<1>0. Types /\ LiveRun(a) /\ \A b \in Auditor : auditor'[b] = IF b = a THEN s ELSE auditor[b]
  BY DEF AuditInv, Types, Becomes
<1>a. DOMAIN runs = 1 .. Len(runs) /\ DOMAIN rows = DOMAIN runs /\ Run(a) \in DOMAIN runs
  <2>1. DOMAIN runs = 1 .. Len(runs) /\ DOMAIN rows = DOMAIN runs /\ Len(runs) \in Nat
    BY <1>0, LenProperties DEF Types
  <2> QED BY <1>0, <2>1 DEF LiveRun
<1>b. runs' \in Seq(RunRow) /\ Len(runs') = Len(runs)
  BY <1>0, <1>a DEF Types
<1>c. rows' \in Seq(RowsOfRun) /\ Len(rows') = Len(rows)
  <2>1. rows[Run(a)] \in RowsOfRun
    BY <1>0, <1>a, ElementOfSeq DEF Types
  <2>2. [rows[Run(a)] EXCEPT ![Final] = end] \in RowsOfRun
    BY <2>1 DEF RowsOfRun
  <2> QED BY <1>0, <1>a, <2>2 DEF Types
<1>1. Types'
  BY <1>0, <1>b, <1>c DEF Types, Becomes
<1>2. \A b \in Auditor : PriorOf(auditor'[b])
  BY <1>0 DEF AuditInv
<1>3. \A b \in Auditor : ~Live(b)'
  BY <1>0 DEF Live, AuditInv, LiveRun
<1>4. PassedIsEarned'
  <2> SUFFICES ASSUME NEW r \in DOMAIN runs, runs'[r].state = "passed", NEW c \in runs'[r].asked
               PROVE  rows'[r][c].status = "pass" /\ runs'[r].at - rows'[r][c].at <= Window
    BY <1>a, <1>b DEF PassedIsEarned
  <2>1. CASE r # Run(a)
    BY <1>0, <1>a, <2>1 DEF AuditInv, PassedIsEarned, Types
  <2>2. CASE r = Run(a)
    <3>1. runs'[r] = entry /\ c \in entry.asked /\ c \in Check
      BY <1>0, <1>a, <2>2 DEF Types, RunRow
    <3>2. rows[r] \in RowsOfRun /\ rows'[r] = [rows[r] EXCEPT ![Final] = end]
      BY <1>0, <1>a, <2>2, ElementOfSeq DEF Types
    <3>3. rows'[r][c] = IF c = Final THEN end ELSE rows[r][c]
      BY <3>1, <3>2 DEF RowsOfRun
    <3>4. entry.at = runs[r].at /\ entry.at \in Nat
      BY <1>0, <2>2 DEF LiveRun, RunRow
    <3>5. CASE c = Final
      BY <3>1, <3>5, AuditAssumption DEF Check
    <3>6. CASE c # Final
      BY <2>2, <3>1, <3>3, <3>4, <3>6 DEF Earned
    <3> QED BY <3>5, <3>6
  <2> QED BY <2>1, <2>2
<1> QED BY <1>1, <1>2, <1>3, <1>4 DEF AuditInv

-----------------------------------------------------------------------------
\* What is at hand in a live instance.
LEMMA AtWork ==
  ASSUME AuditInv, NEW a \in Auditor, Live(a)
  PROVE  /\ Types /\ LiveRun(a) /\ Accounted(a) /\ PriorOf(auditor[a])
         /\ auditor[a] \in AuditorState /\ auditor[a].pc \in LiveLabel
         /\ Run(a) \in DOMAIN runs /\ DOMAIN rows = DOMAIN runs
         /\ runs[Run(a)] \in RunRow /\ rows[Run(a)] \in RowsOfRun
<1>1. Types /\ LiveRun(a) /\ Accounted(a) /\ PriorOf(auditor[a]) /\ auditor[a] \in AuditorState
  BY DEF AuditInv, Types
<1>2. DOMAIN runs = 1 .. Len(runs) /\ DOMAIN rows = DOMAIN runs /\ Len(runs) \in Nat
  BY <1>1, LenProperties DEF Types
<1>3. Run(a) \in DOMAIN runs
  BY <1>1, <1>2 DEF LiveRun
<1>4. runs[Run(a)] \in RunRow /\ rows[Run(a)] \in RowsOfRun
  BY <1>1, <1>2, <1>3, ElementOfSeq DEF Types
<1> QED BY <1>1, <1>2, <1>3, <1>4, LiveLabels

\* The checks still to do are the next one and those after it.
LEMMA NextAndRest ==
  ASSUME NEW list \in Seq(Check), list # <<>>
  PROVE  /\ Head(list) \in Check /\ Tail(list) \in Seq(Check) /\ Head(list) \in Range(list)
         /\ \A c \in Range(list) : c = Head(list) \/ c \in Range(Tail(list))
<1>1. Head(list) \in Check /\ Tail(list) \in Seq(Check) /\ Len(Tail(list)) = Len(list) - 1
  BY HeadTailProperties
<1>2. Len(list) \in Nat /\ Len(list) # 0 /\ DOMAIN list = 1 .. Len(list) /\ Head(list) = list[1]
  BY EmptySeq, LenProperties
<1>3. Head(list) \in Range(list)
  <2>1. 1 \in DOMAIN list /\ list[1] = Head(list)
    BY <1>2
  <2> QED BY <2>1 DEF Range
<1>4. ASSUME NEW c \in Range(list) PROVE c = Head(list) \/ c \in Range(Tail(list))
  <2> PICK i \in DOMAIN list : list[i] = c
    BY <1>4 DEF Range
  <2>1. CASE i = 1
    BY <1>2, <2>1
  <2>2. CASE i # 1
    <3>1. i - 1 \in 1 .. Len(Tail(list)) /\ DOMAIN Tail(list) = 1 .. Len(Tail(list))
      BY <1>1, <1>2, <2>2, LenProperties
    <3>2. Tail(list)[i - 1] = list[i]
      BY <1>1, <1>2, <3>1
    <3> QED BY <3>1, <3>2 DEF Range
  <2> QED BY <2>1, <2>2
<1> QED BY <1>1, <1>3, <1>4

\* A step that writes one row of the run an instance works on.
LEMMA WriteStep ==
  ASSUME AuditInv, NEW a \in Auditor, Live(a), NEW s \in AuditorState,
         s.pc \in {"evaluate", "pending"}, s.run = Run(a), s.at = auditor[a].at, s.prior = auditor[a].prior,
         Becomes(a, s), UNCHANGED <<deployed, clock, holder, version, runs>>,
         s.pc = "pending" => s.todo # <<>>, auditor[a].pc # "failing",
         NEW c \in Check, NEW entry \in CheckRow, Write(a, c, entry),
         \A d \in Range(auditor[a].todo) : d = c \/ d \in Range(s.todo),
         c \in Range(s.todo) \/ (entry.status \in Failure \cup {"pass"} /\ auditor[a].at - entry.at <= Window)
  PROVE  AuditInv'
<1>0. Types /\ LiveRun(a) /\ Accounted(a) /\ Run(a) \in DOMAIN runs /\ DOMAIN rows = DOMAIN runs
      /\ runs[Run(a)] \in RunRow /\ rows[Run(a)] \in RowsOfRun
  BY AtWork
<1>1. rows' = [rows EXCEPT ![Run(a)] = [rows[Run(a)] EXCEPT ![c] = entry]]
  BY DEF Write
<1>2. [rows[Run(a)] EXCEPT ![c] = entry] \in RowsOfRun
  BY <1>0 DEF RowsOfRun
<1>3. rows' \in Seq(RowsOfRun) /\ Len(rows') = Len(rows) /\ \A r \in DOMAIN rows : r # Run(a) => rows'[r] = rows[r]
  BY <1>0, <1>1, <1>2 DEF Types
<1>4. auditor'[a] = s /\ Run(a)' = Run(a)
  BY <1>0 DEF Types, Becomes, Run
<1>5. \A d \in Check : rows'[Run(a)][d] = IF d = c THEN entry ELSE rows[Run(a)][d]
  BY <1>0, <1>1 DEF RowsOfRun
<1>6. Accounted(a)'
  <2> SUFFICES ASSUME NEW d \in runs[Run(a)].asked PROVE d \in Range(s.todo) \/ Earned(Run(a), d)'
    BY <1>4 DEF Accounted
  <2>1. d \in Check /\ (d \in Range(auditor[a].todo) \/ Earned(Run(a), d))
    BY <1>0 DEF RunRow, Accounted
  <2>2. CASE d = c
    <3>1. runs[Run(a)].at = auditor[a].at
      BY <1>0 DEF LiveRun
    <3> QED BY <1>4, <1>5, <2>1, <2>2, <3>1 DEF Earned
  <2>3. CASE d # c
    BY <1>4, <1>5, <2>1, <2>3 DEF Earned
  <2> QED BY <2>2, <2>3
<1> QED BY <1>0, <1>3, <1>6, LiveStep, KeptRuns

-----------------------------------------------------------------------------
\* The actions of an instance that works on no run afterwards.
LEMMA Rests ==
  ASSUME AuditInv, NEW a \in Auditor,
         Starts(a) \/ RunOnStartup(a) \/ RunScheduledDaily(a) \/ RunOnVersionCheck(a)
         \/ AlreadyRunning(a) \/ RunLeftRunning(a) \/ StoreFingerprints(a) \/ AuditCrash(a)
  PROVE  AuditInv'
<1>0. Types /\ PriorOf(auditor[a]) /\ auditor[a] \in AuditorState /\ Limit.clock \in Nat
  BY Limits DEF AuditInv, Types
<1>1. CASE Boot(a)
  <2> PICK now \in clock + 1 .. Limit.clock + 1 :
        Becomes(a, [auditor[a] EXCEPT !.at = now, !.pc = IF holder = Free THEN "list" ELSE "startup"])
    BY <1>1 DEF Boot
  <2> DEFINE label == IF holder = Free THEN "list" ELSE "startup"
             s == [auditor[a] EXCEPT !.at = now, !.pc = label]
  <2>a. now \in Nat /\ label \in {"list", "startup"}
    BY <1>0 DEF Types
  <2> HIDE DEF label
  <2>1. s \in AuditorState /\ s.pc = label /\ s.prior = auditor[a].prior
    BY <1>0, <2>a DEF AuditorState
  <2>b. Becomes(a, s) BY DEF label
  <2>2. PriorOf(s)
    BY <1>0, <1>1, <2>a, <2>1 DEF Boot, At, PriorOf, NoPrior
  <2> QED BY <1>0, <1>1, <2>a, <2>b, <2>1, <2>2, KeptRuns, RestStep DEF Boot, Types
<1>2. CASE ListRunning(a)
  <2> DEFINE s == [auditor[a] EXCEPT !.pc = "mark", !.listed = {r \in DOMAIN runs : runs[r].state = "running"}]
  <2>1. DOMAIN runs \subseteq Nat
    BY <1>0, LenProperties DEF Types
  <2>2. s \in AuditorState /\ s.pc = "mark" /\ s.prior = auditor[a].prior
    BY <1>0, <2>1 DEF AuditorState
  <2>3. PriorOf(s)
    BY <1>0, <1>2, <2>2 DEF ListRunning, At, PriorOf
  <2> QED BY <1>0, <1>2, <2>2, <2>3, KeptRuns, RestStep DEF ListRunning, Types
<1>3. CASE MarkStale(a)
  <2> PICK prior \in Reused(auditor[a].listed, auditor[a].at) :
        Becomes(a, [auditor[a] EXCEPT !.pc = "startup", !.listed = {}, !.prior = prior])
    BY <1>3 DEF MarkStale
  <2> DEFINE s == [auditor[a] EXCEPT !.pc = "startup", !.listed = {}, !.prior = prior]
  <2>1. prior \in [Check -> Nat]
    BY <1>0 DEF Reused, Types
  <2>2. s \in AuditorState /\ s.pc = "startup" /\ s.prior = prior /\ s.at = auditor[a].at
    BY <1>0, <2>1 DEF AuditorState
  <2>3. PriorOf(s)
    <3> SUFFICES ASSUME NEW c \in Check, prior[c] # 0 PROVE auditor[a].at - prior[c] <= Window
      BY <2>2 DEF PriorOf
    <3>1. prior[c] \in Passes(auditor[a].listed, c, auditor[a].at)
      BY DEF Reused, IsNewest
    <3> QED BY <3>1 DEF Passes
  <2>4. RunsKept
    <3>1. \A r \in DOMAIN runs : runs[r] \in RunRow
      <4> TAKE r \in DOMAIN runs
      <4> QED BY <1>0, ElementOfSeq, LenProperties DEF Types
    <3>2. \A r \in DOMAIN runs : /\ runs'[r] \in RunRow /\ runs'[r].at = runs[r].at /\ runs'[r].asked = runs[r].asked
                                 /\ runs'[r].state = "passed" => runs[r].state = "passed"
      <4> TAKE r \in DOMAIN runs
      <4>1. Interrupted(r) \in RunRow /\ Interrupted(r).at = runs[r].at /\ Interrupted(r).asked = runs[r].asked
            /\ Interrupted(r).state = "failed"
        BY <3>1 DEF Interrupted, RunRow, RunState, Terminal
      <4>2. runs'[r] \in {runs[r], Interrupted(r)}
        BY <1>3 DEF MarkStale, MarkInterrupted
      <4> QED BY <3>1, <4>1, <4>2
    <3>3. runs' \in Seq(RunRow) /\ Len(runs') = Len(runs)
      <4>1. DOMAIN runs = 1 .. Len(runs) /\ Len(runs) \in Nat
        BY <1>0, LenProperties DEF Types
      <4>2. runs' \in [1 .. Len(runs) -> RunRow]
        <5>1. runs' = [r \in DOMAIN runs |-> runs'[r]]
          BY <1>3 DEF MarkStale, MarkInterrupted
        <5> QED BY <3>2, <4>1, <5>1
      <4>3. runs' \in Seq(RunRow) /\ DOMAIN runs' = 1 .. Len(runs)
        BY <4>1, <4>2, SeqDef
      <4> QED BY <4>1, <4>3, LenProperties
    <3> QED BY <3>2, <3>3 DEF RunsKept
  <2> QED BY <1>0, <1>3, <2>2, <2>3, <2>4, RestStep DEF MarkStale, Types
<1>4. ASSUME NEW now \in Nat, NEW plan \in Seq(Check), Fires(a, now, plan),
             \A c \in Check : auditor[a].prior[c] # 0 => now - auditor[a].prior[c] <= Window
      PROVE  AuditInv'
  <2> DEFINE s == [auditor[a] EXCEPT !.pc = "lock", !.at = now, !.seen = version, !.todo = plan]
  <2>1. s \in AuditorState /\ s.pc = "lock" /\ s.prior = auditor[a].prior /\ s.at = now
    BY <1>0 DEF AuditorState, Types
  <2>2. PriorOf(s)
    BY <1>4, <2>1 DEF PriorOf
  <2> QED BY <1>0, <1>4, <2>1, <2>2, KeptRuns, RestStep DEF Fires, Types
<1>5. StartupChecks \in Seq(Check) /\ DriftChecks \in Seq(Check) /\ Checks \in Seq(Check)
  BY AuditAssumption DEF Check
<1>6. CASE RunOnStartup(a)
  <2>1. auditor[a].at \in Nat /\ \A c \in Check : auditor[a].prior[c] # 0 => auditor[a].at - auditor[a].prior[c] <= Window
    BY <1>0, <1>6 DEF RunOnStartup, At, PriorOf, AuditorState
  <2> QED BY <1>4, <1>5, <1>6, <2>1 DEF RunOnStartup
<1>7. CASE RunScheduledDaily(a) \/ RunOnVersionCheck(a)
  <2>1. clock + 1 \in Nat /\ auditor[a].pc = "idle"
    BY <1>0, <1>7 DEF RunScheduledDaily, RunOnVersionCheck, At, Types
  <2>2. \A c \in Check : auditor[a].prior[c] = 0
    BY <1>0, <2>1 DEF PriorOf, NoPrior
  <2> QED BY <1>4, <1>5, <1>7, <2>1, <2>2 DEF RunScheduledDaily, RunOnVersionCheck
<1>8. CASE AlreadyRunning(a) \/ StoreFingerprints(a)
  <2>1. PriorOf(Idle)
    BY <1>0, Resting DEF PriorOf
  <2> QED BY <1>0, <1>8, <2>1, Resting, KeptRuns, RestStep DEF AlreadyRunning, StoreFingerprints, Types
<1>9. CASE RunLeftRunning(a) \/ AuditCrash(a)
  <2>1. PriorOf(Off)
    BY <1>0, Resting DEF PriorOf
  <2>2. RunLeftRunning(a) => holder = a
    BY DEF RunLeftRunning, At, Live, AuditInv, LiveRun
  <2> QED BY <1>0, <1>9, <2>1, <2>2, Resting, KeptRuns, RestStep DEF RunLeftRunning, AuditCrash, Types
<1> QED BY <1>1, <1>2, <1>3, <1>6, <1>7, <1>8, <1>9 DEF Starts

\* A run begins: the lock was free, so nobody else is live.
LEMMA Begins == ASSUME AuditInv, NEW a \in Auditor, AcquireLock(a) PROVE AuditInv'
<1> DEFINE s == [auditor[a] EXCEPT !.pc = "start", !.run = Len(runs) + 1]
           entry == [state |-> "scheduled", reason |-> "none", at |-> auditor[a].at,
                   seen |-> auditor[a].seen, asked |-> Range(auditor[a].todo), report |-> "none"]
           bare == [c \in Check \cup {Final} |-> Bare]
<1>0. Types /\ PriorOf(auditor[a]) /\ auditor[a] \in AuditorState /\ holder = Free /\ auditor[a].pc = "lock"
  BY DEF AuditInv, Types, AcquireLock, LockFree, At
<1>1. \A b \in Auditor : ~Live(b)
  BY <1>0, AuditAssumption DEF AuditInv, LiveRun
<1>2. Len(runs) \in Nat /\ DOMAIN runs = 1 .. Len(runs)
  BY <1>0, LenProperties DEF Types
<1>3. s \in AuditorState /\ s.pc = "start" /\ s.run = Len(runs) + 1 /\ s.at = auditor[a].at
      /\ s.prior = auditor[a].prior /\ s.todo = auditor[a].todo
  <2>1. Len(runs) + 1 \in Nat /\ "start" \in LiveLabel
    BY <1>2
  <2> DEFINE n == Len(runs) + 1
  <2> HIDE DEF n
  <2>2. [auditor[a] EXCEPT !.pc = "start", !.run = n] \in AuditorState
    BY <1>0, <2>1 DEF AuditorState, n
  <2>3. s = [auditor[a] EXCEPT !.pc = "start", !.run = n]
    BY DEF n
  <2>4. s.pc = "start" /\ s.run = n /\ s.at = auditor[a].at /\ s.prior = auditor[a].prior /\ s.todo = auditor[a].todo
    BY <1>0, <2>3 DEF AuditorState
  <2> QED BY <2>2, <2>3, <2>4 DEF n
<1>4. \A b \in Auditor : auditor'[b] = IF b = a THEN s ELSE auditor[b]
  BY <1>0 DEF AcquireLock, Becomes, Types
<1>5. entry \in RunRow
  <2>1. Range(auditor[a].todo) \subseteq Check
    BY <1>0, RangeOfSeq DEF AuditorState, Range
  <2> QED BY <1>0, <2>1 DEF RunRow, RunState, Terminal, AuditorState
<1>6. bare \in RowsOfRun
  BY DEF RowsOfRun, Bare, CheckRow, Status
<1>7. runs' = Append(runs, entry) /\ rows' = Append(rows, bare) /\ holder' = a
  BY DEF AcquireLock
<1>8. /\ runs' \in Seq(RunRow) /\ Len(runs') = Len(runs) + 1 /\ runs'[Len(runs) + 1] = entry
      /\ \A r \in DOMAIN runs : runs'[r] = runs[r]
  BY <1>0, <1>2, <1>5, <1>7, AppendProperties DEF Types
<1>9. /\ rows' \in Seq(RowsOfRun) /\ Len(rows') = Len(rows) + 1
      /\ \A r \in DOMAIN runs : rows'[r] = rows[r]
  <2>1. rows \in Seq(RowsOfRun) /\ DOMAIN runs = 1 .. Len(rows)
    BY <1>0, <1>2 DEF Types
  <2> QED BY <1>6, <1>7, <2>1, AppendProperties
<1>10. Types'
  <2>1. auditor' \in [Auditor -> AuditorState]
    BY <1>0, <1>3 DEF Types, AcquireLock, Becomes
  <2>2. Len(rows') = Len(runs')
    BY <1>0, <1>8, <1>9 DEF Types
  <2>3. deployed' = deployed /\ clock' = clock /\ version' = version /\ holder' = a
    BY DEF AcquireLock
  <2> QED BY <1>0, <1>8, <1>9, <2>1, <2>2, <2>3 DEF Types
<1>11. \A b \in Auditor : PriorOf(auditor'[b])
  <2> HIDE DEF s
  <2>1. PriorOf(s)
    BY <1>0, <1>3 DEF PriorOf
  <2> QED BY <1>4, <2>1 DEF AuditInv
<1>12. ASSUME NEW b \in Auditor, Live(b)' PROVE (LiveRun(b) /\ Accounted(b))'
  <2>1. b = a
    BY <1>1, <1>4, <1>12 DEF Live
  <2>2. auditor'[a] = s /\ Run(a)' = Len(runs) + 1
    BY <1>3, <1>4 DEF Run
  <2>3. runs'[Len(runs) + 1] = entry /\ entry.at = auditor[a].at /\ entry.state = "scheduled" /\ entry.asked = Range(auditor[a].todo)
    BY <1>8
  <2>4. LiveRun(a)'
    BY <1>2, <1>3, <1>7, <1>8, <2>2, <2>3 DEF LiveRun
  <2>5. Accounted(a)'
    BY <1>3, <2>2, <2>3 DEF Accounted
  <2> QED BY <2>1, <2>4, <2>5
<1>13. PassedIsEarned'
  <2> SUFFICES ASSUME NEW r \in DOMAIN runs', runs'[r].state = "passed", NEW c \in runs'[r].asked
               PROVE  rows'[r][c].status = "pass" /\ runs'[r].at - rows'[r][c].at <= Window
    BY DEF PassedIsEarned
  <2>1. r \in DOMAIN runs
    <3>1. r \in 1 .. Len(runs) + 1
      <4>1. DOMAIN runs' = 1 .. Len(runs')
        BY <1>8, LenProperties
      <4> QED BY <1>8, <4>1
    <3>2. r # Len(runs) + 1
      BY <1>8
    <3>3. \A n \in Nat : \A q \in 1 .. n + 1 : q # n + 1 => q \in 1 .. n
      OBVIOUS
    <3> QED BY <1>2, <3>1, <3>2, <3>3
  <2>2. runs'[r] = runs[r] /\ rows'[r] = rows[r]
    BY <1>8, <1>9, <2>1
  <2> QED BY <2>1, <2>2 DEF AuditInv, PassedIsEarned
<1> QED BY <1>10, <1>11, <1>12, <1>13 DEF AuditInv

-----------------------------------------------------------------------------
\* The actions of an instance on its run.
LEMMA WorksOn ==
  ASSUME AuditInv, NEW a \in Auditor,
         StartRun(a) \/ ReusePass(a) \/ WritePending(a) \/ ListTargetsFails(a) \/ Evaluate(a)
  PROVE  AuditInv'
<1>0. Live(a) /\ auditor[a].pc \in {"start", "evaluate", "pending"}
  BY DEF StartRun, ReusePass, WritePending, ListTargetsFails, Evaluate, Evaluating, At, Live
<1>a. /\ Types /\ LiveRun(a) /\ Accounted(a) /\ PriorOf(auditor[a]) /\ auditor[a] \in AuditorState
      /\ Run(a) \in DOMAIN runs /\ DOMAIN rows = DOMAIN runs /\ runs[Run(a)] \in RunRow /\ rows[Run(a)] \in RowsOfRun
  BY <1>0, AtWork
<1>b. auditor[a].at \in Nat /\ auditor[a].prior \in [Check -> Nat] /\ auditor[a].todo \in Seq(Check)
  BY <1>a DEF AuditorState
<1>1. CASE StartRun(a)
  <2> DEFINE s == [auditor[a] EXCEPT !.pc = "evaluate"]
             entry == [runs[Run(a)] EXCEPT !.state = "running"]
  <2>1. s \in AuditorState /\ s.pc = "evaluate" /\ s.run = Run(a) /\ s.at = auditor[a].at
        /\ s.prior = auditor[a].prior /\ s.todo = auditor[a].todo
    BY <1>a DEF AuditorState, Run
  <2>2. entry \in RunRow /\ entry.at = runs[Run(a)].at /\ entry.asked = runs[Run(a)].asked /\ entry.state = "running"
    BY <1>a DEF RunRow, RunState
  <2>3. runs' = [runs EXCEPT ![Run(a)] = entry] /\ Becomes(a, s) /\ rows' = rows
    BY <1>1 DEF StartRun, Goes
  <2>4. RunsKept
    <3>1. runs' \in Seq(RunRow) /\ Len(runs') = Len(runs)
      BY <1>a, <2>2, <2>3 DEF Types
    <3>2. \A r \in DOMAIN runs : runs'[r] = IF r = Run(a) THEN entry ELSE runs[r]
      BY <1>a, <2>3
    <3> QED BY <2>2, <3>1, <3>2 DEF RunsKept
  <2>5. auditor'[a] = s /\ Run(a)' = Run(a)
    BY <1>a, <2>1, <2>3 DEF Types, Becomes, Run
  <2>6. Accounted(a)'
    <3>1. runs'[Run(a)].at = runs[Run(a)].at /\ runs'[Run(a)].asked = runs[Run(a)].asked
      BY <1>a, <2>4 DEF RunsKept
    <3>2. \A c : Earned(Run(a), c) => Earned(Run(a), c)'
      BY <2>3, <2>5, <3>1 DEF Earned
    <3>3. auditor[a].pc = "start"
      BY <1>1 DEF StartRun, At
    <3> HIDE DEF s
    <3> QED BY <1>a, <2>1, <2>5, <3>1, <3>2, <3>3 DEF Accounted
  <2>7. UNCHANGED <<deployed, clock, holder, version>>
    BY <1>1 DEF StartRun
  <2>8. rows' \in Seq(RowsOfRun) /\ Len(rows') = Len(rows) /\ \A r \in DOMAIN rows : rows'[r] = rows[r]
    BY <1>a, <2>3 DEF Types
  <2> HIDE DEF s
  <2> QED BY <1>0, <2>1, <2>3, <2>4, <2>6, <2>7, <2>8, LiveStep
<1>2. CASE ReusePass(a)
  <2> DEFINE s == [auditor[a] EXCEPT !.pc = "evaluate", !.todo = Tail(auditor[a].todo)]
             c == Head(auditor[a].todo)
             entry == [at |-> auditor[a].prior[c], status |-> "pass"]
  <2>0. auditor[a].todo # <<>> /\ auditor[a].prior[c] # 0 /\ auditor[a].pc = "evaluate"
    BY <1>2 DEF ReusePass, Evaluating, Reusable, Next1, At
  <2>1. c \in Check /\ Tail(auditor[a].todo) \in Seq(Check)
        /\ \A d \in Range(auditor[a].todo) : d = c \/ d \in Range(Tail(auditor[a].todo))
    BY <1>b, <2>0, NextAndRest
  <2>2. s \in AuditorState /\ s.pc = "evaluate" /\ s.run = Run(a) /\ s.at = auditor[a].at
        /\ s.prior = auditor[a].prior /\ s.todo = Tail(auditor[a].todo)
    BY <1>a, <2>1 DEF AuditorState, Run
  <2>3. entry \in CheckRow /\ entry.status = "pass" /\ auditor[a].at - entry.at <= Window
    BY <1>0, <1>a, <1>b, <2>0, <2>1 DEF CheckRow, Status, PriorOf
  <2>4. Becomes(a, s) /\ Write(a, c, entry) /\ UNCHANGED <<deployed, clock, holder, version, runs>>
    BY <1>2 DEF ReusePass, Done, Next1
  <2> QED BY <1>0, <2>0, <2>1, <2>2, <2>3, <2>4, WriteStep
<1>3. CASE WritePending(a)
  <2> DEFINE s == [auditor[a] EXCEPT !.pc = "pending"]
             c == Head(auditor[a].todo)
             entry == [at |-> 0, status |-> "pending"]
  <2>0. auditor[a].todo # <<>> /\ auditor[a].pc = "evaluate"
    BY <1>3 DEF WritePending, Evaluating, At
  <2>1. c \in Check /\ c \in Range(auditor[a].todo)
    BY <1>b, <2>0, NextAndRest
  <2>2. s \in AuditorState /\ s.pc = "pending" /\ s.run = Run(a) /\ s.at = auditor[a].at
        /\ s.prior = auditor[a].prior /\ s.todo = auditor[a].todo
    BY <1>a DEF AuditorState, Run
  <2>3. entry \in CheckRow
    BY DEF CheckRow, Status
  <2>4. Becomes(a, s) /\ Write(a, c, entry) /\ UNCHANGED <<deployed, clock, holder, version, runs>>
    BY <1>3 DEF WritePending, Goes, Next1
  <2> QED BY <1>0, <2>0, <2>1, <2>2, <2>3, <2>4, WriteStep
<1>4. CASE Evaluate(a) \/ ListTargetsFails(a)
  <2> PICK found \in Failure \cup {"pass"} : Write(a, Next1(a), [at |-> auditor[a].at, status |-> found])
    BY <1>4 DEF Evaluate, ListTargetsFails, Failure
  <2> DEFINE s == [auditor[a] EXCEPT !.pc = "evaluate", !.todo = Tail(auditor[a].todo)]
             c == Head(auditor[a].todo)
             entry == [at |-> auditor[a].at, status |-> found]
  <2>0. auditor[a].todo # <<>> /\ auditor[a].pc \in {"evaluate", "pending"}
    BY <1>4, <1>a DEF Evaluate, ListTargetsFails, Evaluating, At, Accounted
  <2>1. c \in Check /\ Tail(auditor[a].todo) \in Seq(Check)
        /\ \A d \in Range(auditor[a].todo) : d = c \/ d \in Range(Tail(auditor[a].todo))
    BY <1>b, <2>0, NextAndRest
  <2>2. s \in AuditorState /\ s.pc = "evaluate" /\ s.run = Run(a) /\ s.at = auditor[a].at
        /\ s.prior = auditor[a].prior /\ s.todo = Tail(auditor[a].todo)
    BY <1>a, <2>1 DEF AuditorState, Run
  <2>3. entry \in CheckRow /\ entry.status \in Failure \cup {"pass"} /\ auditor[a].at - entry.at <= Window
    BY <1>b, AuditAssumption DEF CheckRow, Status
  <2>4. Becomes(a, s) /\ Write(a, c, entry) /\ UNCHANGED <<deployed, clock, holder, version, runs>>
    BY <1>4 DEF Evaluate, ListTargetsFails, Done, Next1
  <2> QED BY <1>0, <2>0, <2>1, <2>2, <2>3, <2>4, WriteStep
<1> QED BY <1>1, <1>2, <1>3, <1>4

LEMMA Finishes ==
  ASSUME AuditInv, NEW a \in Auditor, Cancel(a) \/ StageFails(a) \/ Complete(a) \/ FinalizeFailure(a)
  PROVE  AuditInv'
<1>0. Live(a) /\ auditor[a].pc \in {"evaluate", "pending", "failing"}
  BY DEF Cancel, StageFails, InStages, Complete, FinalizeFailure, At, Live
<1>a. /\ Types /\ LiveRun(a) /\ Accounted(a) /\ auditor[a] \in AuditorState
      /\ Run(a) \in DOMAIN runs /\ DOMAIN rows = DOMAIN runs /\ runs[Run(a)] \in RunRow /\ rows[Run(a)] \in RowsOfRun
  BY <1>0, AtWork
<1>b. auditor[a].at \in Nat /\ auditor[a].seen \in Nat
  BY <1>a DEF AuditorState
<1>1. ASSUME NEW state \in Terminal, NEW reason \in {"none", "operator_cancelled", "stage_timeout"},
             Finalize(a, state, reason),
             state = "passed" => \A c \in runs[Run(a)].asked : rows[Run(a)][c].status = "pass" /\ Earned(Run(a), c)
      PROVE  AuditInv'
  <2> DEFINE stored == [Idle EXCEPT !.pc = "store", !.seen = auditor[a].seen]
             s == IF state = "passed" THEN stored ELSE Idle
             entry == [runs[Run(a)] EXCEPT !.state = state, !.reason = reason, !.report = state]
             end == [at |-> auditor[a].at, status |-> "pass"]
  <2>1. stored \in AuditorState /\ stored.pc = "store" /\ stored.prior = NoPrior
    BY <1>a, <1>b, Resting DEF AuditorState
  <2>2. s \in AuditorState /\ s.pc \notin LiveLabel /\ PriorOf(s)
    BY <1>a, <2>1, Resting DEF PriorOf
  <2>3. entry \in RunRow /\ entry.at = auditor[a].at /\ entry.asked = runs[Run(a)].asked /\ entry.state = state
    BY <1>a DEF RunRow, RunState, LiveRun
  <2>4. end \in CheckRow /\ end.at = auditor[a].at /\ end.status = "pass"
    BY <1>b DEF CheckRow, Status
  <2>5. /\ Becomes(a, s) /\ runs' = [runs EXCEPT ![Run(a)] = entry]
        /\ rows' = [rows EXCEPT ![Run(a)] = [rows[Run(a)] EXCEPT ![Final] = end]]
        /\ holder' = Free /\ UNCHANGED <<deployed, clock, version>>
    BY <1>1 DEF Finalize, Write
  <2> HIDE DEF s, entry, end
  <2> QED BY <1>0, <1>1, <2>2, <2>3, <2>4, <2>5, EndStep
<1>2. CASE Cancel(a) \/ StageFails(a)
  BY <1>1, <1>2 DEF Cancel, StageFails, Terminal
<1>3. CASE Complete(a)
  <2>1. Outcome(Run(a)) \in Terminal
    BY DEF Outcome, Terminal
  <2>2. ASSUME Outcome(Run(a)) = "passed", NEW c \in runs[Run(a)].asked
        PROVE  rows[Run(a)][c].status = "pass" /\ Earned(Run(a), c)
    <3>1. c \in Check /\ c \notin Range(auditor[a].todo)
      BY <1>3, <1>a DEF Complete, RunRow, Range
    <3>2. Earned(Run(a), c)
      BY <1>3, <1>a, <3>1 DEF Complete, At, Accounted
    <3>3. c \in Found(Run(a)) /\ rows[Run(a)][c].status \in {"red", "yellow", "pass"}
      <4>1. c \notin Unlisted(rows[Run(a)])
        BY <2>2 DEF Outcome, Broken
      <4> QED BY <3>1, <3>2, <4>1 DEF Found, Unlisted, Earned, Failure, Class
    <3>4. rows[Run(a)][c].status # "red" /\ rows[Run(a)][c].status # "yellow"
      BY <2>2, <3>3 DEF Outcome, Broken
    <3> QED BY <3>2, <3>3, <3>4
  <2> QED BY <1>1, <1>3, <2>1, <2>2 DEF Complete
<1>4. CASE FinalizeFailure(a)
  <2> DEFINE entry == [runs[Run(a)] EXCEPT !.state = "failed", !.reason = "red_tier"]
             end == [at |-> auditor[a].at, status |-> "red"]
  <2>1. entry \in RunRow /\ entry.at = auditor[a].at /\ entry.asked = runs[Run(a)].asked /\ entry.state = "failed"
    BY <1>a DEF RunRow, RunState, Terminal, LiveRun
  <2>2. end \in CheckRow /\ end.at = auditor[a].at /\ end.status = "red"
    BY <1>b DEF CheckRow, Status, Failure, Class
  <2>3. /\ Becomes(a, Idle) /\ runs' = [runs EXCEPT ![Run(a)] = entry]
        /\ rows' = [rows EXCEPT ![Run(a)] = [rows[Run(a)] EXCEPT ![Final] = end]]
        /\ holder' = Free /\ UNCHANGED <<deployed, clock, version>>
    BY <1>4 DEF FinalizeFailure, FinalFailure
  <2>4. PriorOf(Idle)
    BY <1>a, Resting DEF PriorOf
  <2> HIDE DEF entry, end
  <2> QED BY <1>0, <1>a, <2>1, <2>2, <2>3, <2>4, Resting, EndStep
<1> QED BY <1>2, <1>3, <1>4

\* A finalization that failed leaves the run as it is.
LEMMA FailsToEnd == ASSUME AuditInv, NEW a \in Auditor, FinalizeFails(a) PROVE AuditInv'
<1> DEFINE s == [auditor[a] EXCEPT !.pc = "failing"]
<1>0. Live(a) /\ Types /\ LiveRun(a) /\ auditor[a] \in AuditorState
  BY AtWork DEF FinalizeFails, InStages, Live
<1>1. s \in AuditorState /\ s.pc = "failing" /\ s.run = Run(a) /\ s.at = auditor[a].at /\ s.prior = auditor[a].prior
  BY <1>0 DEF AuditorState, Run
<1>2. Becomes(a, s) /\ UNCHANGED <<deployed, clock, holder, runs, rows, version>>
  BY DEF FinalizeFails, Goes
<1>3. Accounted(a)'
  BY <1>0, <1>1, <1>2 DEF Accounted, Becomes, Types
<1> QED BY <1>0, <1>1, <1>2, <1>3, KeptRuns, LiveStep DEF Types

\* A step that moves none of this.
LEMMA Unmoved ==
  ASSUME AuditInv, UNCHANGED <<deployed, clock, holder, runs, rows, auditor>>, version' \in Nat
  PROVE  AuditInv'
<1>1. Types'
  BY DEF AuditInv, Types
<1>2. \A a \in Auditor : PriorOf(auditor'[a])
  BY DEF AuditInv
<1>3. ASSUME NEW a \in Auditor, Live(a)' PROVE (LiveRun(a) /\ Accounted(a))'
  BY <1>3 DEF AuditInv, Live, LiveRun, Accounted, Earned, Run
<1>4. PassedIsEarned'
  BY DEF AuditInv, PassedIsEarned
<1> QED BY <1>1, <1>2, <1>3, <1>4 DEF AuditInv

LEMMA InvStep == AuditInv /\ [AuditNext]_auditVars => AuditInv'
<1> SUFFICES ASSUME AuditInv, [AuditNext]_auditVars PROVE AuditInv'
  OBVIOUS
<1>1. CASE UNCHANGED auditVars
  <2>1. UNCHANGED <<deployed, clock, holder, runs, rows, auditor>> /\ version' \in Nat
    BY <1>1 DEF auditVars, AuditInv, Types
  <2> QED BY <2>1, Unmoved
<1>2. CASE Upgrade
  <2>1. UNCHANGED <<deployed, clock, holder, runs, rows, auditor>> /\ version' \in Nat
    BY <1>2 DEF Upgrade, AuditInv, Types
  <2> QED BY <2>1, Unmoved
<1>3. ASSUME NEW a \in Auditor, Starts(a) \/ Works(a) \/ Ends(a) \/ AuditCrash(a) PROVE AuditInv'
  BY <1>3, Rests, Begins, WorksOn, Finishes, FailsToEnd DEF Works, Ends
<1> QED BY <1>1, <1>2, <1>3 DEF AuditNext

LEMMA Invariant == AuditSpec => []AuditInv
BY InitInv, InvStep, PTL DEF AuditSpec

-----------------------------------------------------------------------------
\* Whoever evaluates checks or ends a run holds the lock and works on the
\* newest row, however often instances crash, start and mark each other's rows.
THEOREM RunsAreExclusive == AuditSpec => []OneLiveRun
<1>1. AuditInv => OneLiveRun
  BY DEF AuditInv, OneLiveRun, LiveRun
<1> QED BY <1>1, Invariant, PTL

\* A run passes only with a fresh pass of every check it was asked for, those
\* taken over from runs that were interrupted included.
THEOREM PassesAreEarned == AuditSpec => []PassedIsEarned
<1>1. AuditInv => PassedIsEarned
  BY DEF AuditInv
<1> QED BY <1>1, Invariant, PTL

-----------------------------------------------------------------------------
(* What is stored of the runs.                                             *)

\* A row is signed when it ends, and with one instance it then stays.
RowOK(entry) == entry.state \in {"scheduled", "running"} => entry.report = "none"
RowAgrees(entry) == entry.report # "none" => entry.state = entry.report
WasRun(seen) == \E r \in DOMAIN runs : runs[r].report = "passed" /\ runs[r].seen = seen

\* What an instance goes by: its run is not signed, with one instance the rows it
\* listed still run, and what it is to store a passed run started from.
Signing(s) ==
  /\ s.pc \in LiveLabel => /\ runs[s.run].report = "none" /\ runs[s.run].seen = s.seen
                           /\ Alone => runs[s.run].state \in {"scheduled", "running"}
  /\ s.pc = "mark" /\ Alone => \A r \in s.listed : runs[r].state = "running"
  /\ s.pc = "store" => WasRun(s.seen)

RecordInv ==
  /\ \A a \in Auditor : (auditor[a].pc # "down" => a \in deployed) /\ Signing(auditor[a])
  /\ \A r \in DOMAIN runs : RowOK(runs[r]) /\ (Alone => RowAgrees(runs[r]))
  /\ BaselineWasRun

\* What a step may do to the rows that ended.
Settled == Alone => \A r \in DOMAIN runs : runs[r].state \in Terminal =>
  runs'[r].state = runs[r].state /\ runs'[r].reason = runs[r].reason

LEMMA RecordInit == AuditInit => RecordInv
<1> SUFFICES ASSUME AuditInit PROVE RecordInv
  OBVIOUS
<1>1. \A a \in Auditor : auditor[a].pc = "down"
  BY DEF AuditInit, Off
<1>2. runs = <<>> /\ baseline = 0
  BY DEF AuditInit
<1> QED BY <1>1, <1>2 DEF RecordInv, Signing, BaselineWasRun

LEMMA OnlyOne == ASSUME AuditInv, Alone, NEW a \in deployed, NEW b \in deployed PROVE a = b
<1>1. IsFiniteSet(deployed) /\ Cardinality(deployed) = 1
  BY DEF AuditInv, Types, Alone
<1> QED BY <1>1, FS_Singleton

\* A step of one instance, which signs at most its own run.
LEMMA RecordStep ==
  ASSUME AuditInv, RecordInv, NEW a \in deployed, NEW s, Becomes(a, s), UNCHANGED deployed,
         DOMAIN runs \subseteq DOMAIN runs',
         \A r \in DOMAIN runs : /\ runs'[r].seen = runs[r].seen
                                /\ runs'[r].report = runs[r].report \/ (r = Run(a) /\ Live(a)),
         \A r \in DOMAIN runs' : RowOK(runs'[r]) /\ (Alone => RowAgrees(runs'[r])),
         Signing(s)', baseline' = baseline \/ (auditor[a].pc = "store" /\ baseline' = auditor[a].seen)
  PROVE  RecordInv'
<1>0. /\ Types /\ a \in Auditor /\ Alone' = Alone
      /\ \A b \in Auditor : auditor'[b] = IF b = a THEN s ELSE auditor[b]
  BY DEF AuditInv, Types, Becomes, Alone
<1>1. \A b \in Auditor : Live(b) => LiveRun(b) /\ Run(b) \in DOMAIN runs
  <2>1. DOMAIN runs = 1 .. Len(runs) /\ Len(runs) \in Nat
    BY <1>0 DEF Types
  <2> QED BY <2>1 DEF AuditInv, LiveRun
<1>2. ASSUME NEW seen, WasRun(seen) PROVE WasRun(seen)'
  <2>1. PICK r \in DOMAIN runs : runs[r].report = "passed" /\ runs[r].seen = seen
    BY <1>2 DEF WasRun
  <2>2. ~(r = Run(a) /\ Live(a))
    BY <1>0, <2>1 DEF RecordInv, Signing, Live, Run
  <2>3. r \in DOMAIN runs' /\ runs'[r].report = "passed" /\ runs'[r].seen = seen
    BY <2>1, <2>2
  <2> QED BY <2>3 DEF WasRun
<1>3. ASSUME NEW b \in Auditor, b # a PROVE (auditor'[b].pc # "down" => b \in deployed') /\ Signing(auditor[b])'
  <2>1. PICK t : t = auditor[b]
    OBVIOUS
  <2>2. auditor'[b] = t /\ Signing(t) /\ (t.pc # "down" => b \in deployed)
    BY <1>0, <1>3, <2>1 DEF RecordInv
  <2>3. Alone => t.pc = "down"
    BY <1>3, <2>2, OnlyOne
  <2>4. ASSUME t.pc \in LiveLabel PROVE runs'[t.run].report = "none" /\ runs'[t.run].seen = t.seen
    <3>1. Live(b) /\ Run(b) = t.run /\ holder = b
      BY <1>1, <2>1, <2>4 DEF Live, Run, LiveRun
    <3>2. ~Live(a)
      BY <1>0, <1>1, <1>3, <3>1 DEF LiveRun
    <3>3. runs[t.run].report = "none" /\ runs[t.run].seen = t.seen /\ t.run \in DOMAIN runs
      BY <1>1, <2>2, <2>4, <3>1 DEF Signing
    <3> QED BY <3>2, <3>3
  <2>5. t.pc = "store" => WasRun(t.seen)'
    BY <1>2, <2>2 DEF Signing
  <2>6. Signing(t)'
    BY <1>0, <2>3, <2>4, <2>5 DEF Signing
  <2>7. Signing(auditor[b])'
    BY <2>2, <2>6 DEF Signing, WasRun
  <2> QED BY <2>2, <2>7
<1>4. BaselineWasRun'
  <2>1. baseline # 0 => WasRun(baseline)
    BY DEF RecordInv, BaselineWasRun, WasRun
  <2>2. auditor[a].pc = "store" => WasRun(auditor[a].seen)
    BY <1>0 DEF RecordInv, Signing
  <2>3. PICK n, seen : n = baseline /\ seen = auditor[a].seen
    OBVIOUS
  <2>4. (n # 0 => WasRun(n)') /\ (auditor[a].pc = "store" => WasRun(seen)')
    BY <1>2, <2>1, <2>2, <2>3
  <2>5. baseline' # 0 => WasRun(baseline)'
    BY <2>3, <2>4 DEF WasRun
  <2> QED BY <2>5 DEF BaselineWasRun, WasRun
<1>7. Signing(auditor[a])'
  BY <1>0 DEF Signing, WasRun
<1>8. auditor'[a].pc # "down" => a \in deployed'
  OBVIOUS
<1>5. \A b \in Auditor : (auditor'[b].pc # "down" => b \in deployed') /\ Signing(auditor[b])'
  BY <1>0, <1>3, <1>7, <1>8
<1>6. \A r \in DOMAIN runs' : RowOK(runs'[r]) /\ (Alone' => RowAgrees(runs'[r]))
  BY <1>0
<1> QED BY <1>4, <1>5, <1>6 DEF RecordInv

-----------------------------------------------------------------------------
\* An instance that is not on a run afterwards, and leaves the rows.
LEMMA RestsOnRecord ==
  ASSUME AuditInv, RecordInv, NEW a \in Auditor, a \in deployed \/ auditor[a].pc # "down", NEW s, Becomes(a, s),
         s.pc \notin LiveLabel \cup {"store"}, s.pc = "mark" => \A r \in s.listed : runs[r].state = "running",
         UNCHANGED <<deployed, runs>>, baseline' = baseline \/ (auditor[a].pc = "store" /\ baseline' = auditor[a].seen)
  PROVE  RecordInv' /\ Settled
<1>1. a \in deployed
  BY DEF RecordInv
<1>2. Signing(s)' /\ Alone' = Alone
  BY DEF Signing, Alone
<1>3. \A r \in DOMAIN runs' : RowOK(runs'[r]) /\ (Alone => RowAgrees(runs'[r]))
  BY DEF RecordInv
<1> QED BY <1>1, <1>2, <1>3, RecordStep DEF Settled

\* One that works on leaves the rows and its run.
LEMMA WorksOnRecord ==
  ASSUME AuditInv, RecordInv, NEW a \in Auditor, Live(a), NEW s, Becomes(a, s), s.pc \in LiveLabel, s.run = Run(a),
         s.seen = auditor[a].seen,
         UNCHANGED <<deployed, runs, baseline>>
  PROVE  RecordInv' /\ Settled
<1>1. a \in deployed
  BY DEF RecordInv, Live
<1>2. Signing(s)'
  <2>1. /\ runs[Run(a)].report = "none" /\ runs[Run(a)].seen = auditor[a].seen
        /\ Alone => runs[Run(a)].state \in {"scheduled", "running"}
    BY DEF RecordInv, Signing, Live, Run
  <2>2. Alone' = Alone /\ s.pc # "mark" /\ s.pc # "store"
    BY DEF Alone
  <2> QED BY <2>1, <2>2 DEF Signing
<1>3. \A r \in DOMAIN runs' : RowOK(runs'[r]) /\ (Alone => RowAgrees(runs'[r]))
  BY DEF RecordInv
<1> QED BY <1>1, <1>2, <1>3, RecordStep DEF Settled

\* One that writes the row of its run.
LEMMA WritesRecord ==
  ASSUME AuditInv, RecordInv, NEW a \in Auditor, Live(a), NEW s, Becomes(a, s), NEW entry \in RunRow,
         runs' = [runs EXCEPT ![Run(a)] = entry], entry.seen = runs[Run(a)].seen,
         RowOK(entry), RowAgrees(entry), s.pc # "mark",
         s.pc \in LiveLabel => s.run = Run(a) /\ s.seen = entry.seen /\ entry.report = "none" /\ entry.state \in {"scheduled", "running"},
         s.pc = "store" => entry.report = "passed" /\ s.seen = entry.seen, UNCHANGED <<deployed, baseline>>
  PROVE  RecordInv' /\ Settled
<1>0. a \in deployed /\ Types /\ LiveRun(a) /\ Run(a) \in DOMAIN runs
  BY AtWork DEF RecordInv, Live, AuditInv
<1>1. DOMAIN runs' = DOMAIN runs /\ \A r \in DOMAIN runs : runs'[r] = IF r = Run(a) THEN entry ELSE runs[r]
  BY <1>0
<1>2. /\ runs[Run(a)].report = "none"
      /\ Alone => runs[Run(a)].state \in {"scheduled", "running"}
  BY <1>0 DEF RecordInv, Signing, Live, Run
<1>3. Alone' = Alone
  BY DEF Alone
<1>4. Signing(s)'
  <2>1. s.pc \in LiveLabel => /\ runs'[s.run].report = "none" /\ runs'[s.run].seen = s.seen
                              /\ Alone => runs'[s.run].state \in {"scheduled", "running"}
    BY <1>0, <1>1
  <2>2. s.pc = "store" => WasRun(s.seen)'
    BY <1>0, <1>1 DEF WasRun
  <2> QED BY <1>3, <2>1, <2>2 DEF Signing
<1>5. \A r \in DOMAIN runs' : RowOK(runs'[r]) /\ (Alone => RowAgrees(runs'[r]))
  BY <1>1 DEF RecordInv
<1>6. \A r \in DOMAIN runs : /\ runs'[r].seen = runs[r].seen
                             /\ runs'[r].report = runs[r].report \/ (r = Run(a) /\ Live(a))
  BY <1>1
<1>7. RecordInv'
  BY <1>0, <1>1, <1>4, <1>5, <1>6, RecordStep
<1>8. Settled
  BY <1>1, <1>2 DEF Settled, Terminal
<1> QED BY <1>7, <1>8

LEMMA RecordRests ==
  ASSUME AuditInv, RecordInv, NEW a \in Auditor,
         \/ Boot(a) \/ ListRunning(a) \/ RunOnStartup(a) \/ RunScheduledDaily(a) \/ RunOnVersionCheck(a)
         \/ AlreadyRunning(a) \/ RunLeftRunning(a) \/ AuditCrash(a) \/ StoreFingerprints(a)
  PROVE  RecordInv' /\ Settled
<1>0. auditor[a] \in AuditorState /\ Types
  BY DEF AuditInv, Types
<1>1. \E s : /\ Becomes(a, s) /\ s.pc \notin LiveLabel \cup {"store"}
             /\ s.pc = "mark" => \A r \in s.listed : runs[r].state = "running"
             /\ UNCHANGED <<deployed, runs>> /\ (a \in deployed \/ auditor[a].pc # "down")
             /\ baseline' = baseline \/ (auditor[a].pc = "store" /\ baseline' = auditor[a].seen)
  <2>1. CASE Boot(a)
    <3>1. PICK now, pc : /\ pc \in {"list", "startup"}
                         /\ Becomes(a, [auditor[a] EXCEPT !.at = now, !.pc = pc])
      BY <2>1 DEF Boot
    <3>2. [auditor[a] EXCEPT !.at = now, !.pc = pc].pc = pc
      BY <1>0 DEF AuditorState
    <3> QED BY <2>1, <3>1, <3>2 DEF Boot
  <2>2. CASE ListRunning(a)
    <3>1. PICK s : s = [auditor[a] EXCEPT !.pc = "mark", !.listed = {r \in DOMAIN runs : runs[r].state = "running"}]
      OBVIOUS
    <3>2. s.pc = "mark" /\ s.listed = {r \in DOMAIN runs : runs[r].state = "running"}
      BY <1>0, <3>1 DEF AuditorState
    <3> QED BY <2>2, <3>1, <3>2 DEF ListRunning, At
  <2>3. CASE RunOnStartup(a) \/ RunScheduledDaily(a) \/ RunOnVersionCheck(a)
    <3>1. PICK now, plan : Fires(a, now, plan)
      BY <2>3 DEF RunOnStartup, RunScheduledDaily, RunOnVersionCheck
    <3>2. auditor[a].pc # "down"
      BY <2>3 DEF RunOnStartup, RunScheduledDaily, RunOnVersionCheck, At
    <3>3. [auditor[a] EXCEPT !.pc = "lock", !.at = now, !.seen = version, !.todo = plan].pc = "lock"
      BY <1>0 DEF AuditorState
    <3> QED BY <3>1, <3>2, <3>3 DEF Fires
  <2>4. CASE AlreadyRunning(a) \/ StoreFingerprints(a)
    <3>1. Becomes(a, Idle) /\ auditor[a].pc # "down" /\ UNCHANGED <<deployed, runs>>
          /\ (baseline' = baseline \/ (auditor[a].pc = "store" /\ baseline' = auditor[a].seen))
      BY <2>4 DEF AlreadyRunning, StoreFingerprints, At
    <3> QED BY <1>0, <3>1, Resting
  <2>5. CASE RunLeftRunning(a) \/ AuditCrash(a)
    <3>1. Becomes(a, Off) /\ auditor[a].pc # "down" /\ UNCHANGED <<deployed, runs, baseline>>
      BY <2>5 DEF RunLeftRunning, AuditCrash, At
    <3> QED BY <1>0, <3>1, Resting
  <2> QED BY <2>1, <2>2, <2>3, <2>4, <2>5
<1> QED BY <1>1, RestsOnRecord

LEMMA RecordMarks == ASSUME AuditInv, RecordInv, NEW a \in Auditor, MarkStale(a) PROVE RecordInv' /\ Settled
<1>0. /\ auditor[a] \in AuditorState /\ Types /\ runs \in Seq(RunRow) /\ auditor[a].pc = "mark" /\ a \in deployed
      /\ DOMAIN runs = 1 .. Len(runs)
  <2>1. auditor[a] \in AuditorState /\ Types /\ runs \in Seq(RunRow) /\ auditor[a].pc = "mark"
    BY DEF AuditInv, Types, MarkStale, At
  <2>2. a \in deployed
    BY <2>1 DEF RecordInv
  <2> QED BY <2>1, <2>2, LenProperties
<1>1. PICK prior : Becomes(a, [auditor[a] EXCEPT !.pc = "startup", !.listed = {}, !.prior = prior])
  BY DEF MarkStale
<1>2. PICK s : s = [auditor[a] EXCEPT !.pc = "startup", !.listed = {}, !.prior = prior]
  OBVIOUS
<1>3. s.pc = "startup" /\ Becomes(a, s) /\ UNCHANGED <<deployed, baseline>>
  BY <1>0, <1>1, <1>2 DEF AuditorState, MarkStale
<1>4. /\ DOMAIN runs' = DOMAIN runs
      /\ \A r \in DOMAIN runs : runs'[r] = IF r \in auditor[a].listed THEN Interrupted(r) ELSE runs[r]
  BY DEF MarkStale, MarkInterrupted
<1>5. \A r \in DOMAIN runs : /\ Interrupted(r).state = "failed" /\ Interrupted(r).report = runs[r].report
                             /\ Interrupted(r).seen = runs[r].seen
  <2> TAKE r \in DOMAIN runs
  <2>1. runs[r] \in RunRow
    BY <1>0
  <2> QED BY <2>1 DEF Interrupted, RunRow
<1>6. \A r \in DOMAIN runs : runs'[r].seen = runs[r].seen /\ runs'[r].report = runs[r].report
  BY <1>4, <1>5
<1>7. Alone => \A r \in auditor[a].listed : runs[r].state = "running"
  BY <1>0 DEF RecordInv, Signing
<1>8. \A r \in DOMAIN runs : RowOK(runs[r]) /\ (Alone => RowAgrees(runs[r]))
  BY DEF RecordInv
<1>9. \A r \in DOMAIN runs : RowOK(runs'[r])
  BY <1>4, <1>5, <1>8 DEF RowOK
<1>10. Alone => \A r \in DOMAIN runs : RowAgrees(runs'[r])
  BY <1>4, <1>5, <1>7, <1>8 DEF RowOK, RowAgrees
<1>11. Signing(s)'
  BY <1>3 DEF Signing
<1>12. Settled
  BY <1>4, <1>7 DEF Settled, Terminal
<1> QED BY <1>0, <1>3, <1>4, <1>6, <1>9, <1>10, <1>11, <1>12, RecordStep

LEMMA RecordBegins == ASSUME AuditInv, RecordInv, NEW a \in Auditor, AcquireLock(a) PROVE RecordInv' /\ Settled
<1>0. /\ auditor[a] \in AuditorState /\ Types /\ runs \in Seq(RunRow) /\ auditor[a].pc = "lock" /\ a \in deployed
      /\ DOMAIN runs = 1 .. Len(runs) /\ Len(runs) \in Nat
  <2>1. auditor[a] \in AuditorState /\ Types /\ runs \in Seq(RunRow) /\ auditor[a].pc = "lock"
    BY DEF AuditInv, Types, AcquireLock, At
  <2>2. a \in deployed
    BY <2>1 DEF RecordInv
  <2> QED BY <2>1, <2>2, LenProperties
<1>1. PICK s : s = [auditor[a] EXCEPT !.pc = "start", !.run = Len(runs) + 1]
  OBVIOUS
<1>2. PICK entry : entry = [state |-> "scheduled", reason |-> "none", at |-> auditor[a].at, seen |-> auditor[a].seen,
                            asked |-> Range(auditor[a].todo), report |-> "none"]
  OBVIOUS
<1>3. Becomes(a, s) /\ runs' = Append(runs, entry) /\ UNCHANGED <<deployed, baseline>>
  BY <1>1, <1>2 DEF AcquireLock
<1>4. s.pc = "start" /\ s.run = Len(runs) + 1 /\ s.seen = auditor[a].seen
  BY <1>0, <1>1 DEF AuditorState
<1>5. /\ DOMAIN runs' = 1 .. Len(runs) + 1 /\ runs'[Len(runs) + 1] = entry
      /\ \A r \in DOMAIN runs : runs'[r] = runs[r]
  BY <1>0, <1>3
<1>6. \A r \in DOMAIN runs' : RowOK(runs'[r]) /\ (Alone => RowAgrees(runs'[r]))
  <2>1. RowOK(entry) /\ RowAgrees(entry)
    BY <1>2 DEF RowOK, RowAgrees
  <2>2. \A r \in DOMAIN runs : RowOK(runs'[r]) /\ (Alone => RowAgrees(runs'[r]))
    BY <1>5 DEF RecordInv
  <2>3. \A r \in DOMAIN runs' : r \in DOMAIN runs \/ r = Len(runs) + 1
    BY <1>0, <1>5
  <2> QED BY <1>5, <2>1, <2>2, <2>3
<1>7. Signing(s)'
  BY <1>2, <1>4, <1>5 DEF Signing
<1>8. DOMAIN runs \subseteq DOMAIN runs'
  BY <1>0, <1>5
<1>9. Settled
  BY <1>5 DEF Settled
<1> QED BY <1>0, <1>3, <1>5, <1>6, <1>7, <1>8, <1>9, RecordStep

LEMMA RecordWorks ==
  ASSUME AuditInv, RecordInv, NEW a \in Auditor,
         ReusePass(a) \/ WritePending(a) \/ ListTargetsFails(a) \/ Evaluate(a) \/ FinalizeFails(a)
  PROVE  RecordInv' /\ Settled
<1>0. auditor[a] \in AuditorState /\ Live(a)
  BY DEF AuditInv, Types, ReusePass, WritePending, ListTargetsFails, Evaluate, FinalizeFails, InStages, Evaluating, At, Live
<1>1. UNCHANGED <<deployed, runs, baseline>>
  BY DEF ReusePass, WritePending, ListTargetsFails, Evaluate, FinalizeFails
<1>2. \E s : Becomes(a, s) /\ s.pc \in LiveLabel /\ s.run = Run(a) /\ s.seen = auditor[a].seen
  <2>1. CASE ReusePass(a) \/ ListTargetsFails(a) \/ Evaluate(a)
    <3>1. PICK s : s = [auditor[a] EXCEPT !.pc = "evaluate", !.todo = Tail(auditor[a].todo)]
      OBVIOUS
    <3>2. Becomes(a, s)
      BY <2>1, <3>1 DEF ReusePass, ListTargetsFails, Evaluate, Done
    <3>3. s.pc = "evaluate" /\ s.run = Run(a) /\ s.seen = auditor[a].seen
      BY <1>0, <3>1 DEF AuditorState, Run
    <3> QED BY <3>2, <3>3
  <2>2. CASE WritePending(a)
    <3>1. PICK s : s = [auditor[a] EXCEPT !.pc = "pending"]
      OBVIOUS
    <3>2. Becomes(a, s)
      BY <2>2, <3>1 DEF WritePending, Goes
    <3>3. s.pc = "pending" /\ s.run = Run(a) /\ s.seen = auditor[a].seen
      BY <1>0, <3>1 DEF AuditorState, Run
    <3> QED BY <3>2, <3>3
  <2>3. CASE FinalizeFails(a)
    <3>1. PICK s : s = [auditor[a] EXCEPT !.pc = "failing"]
      OBVIOUS
    <3>2. Becomes(a, s)
      BY <2>3, <3>1 DEF FinalizeFails, Goes
    <3>3. s.pc = "failing" /\ s.run = Run(a) /\ s.seen = auditor[a].seen
      BY <1>0, <3>1 DEF AuditorState, Run
    <3> QED BY <3>2, <3>3
  <2> QED BY <2>1, <2>2, <2>3
<1> QED BY <1>0, <1>1, <1>2, WorksOnRecord

LEMMA RecordWrites ==
  ASSUME AuditInv, RecordInv, NEW a \in Auditor,
         StartRun(a) \/ Cancel(a) \/ StageFails(a) \/ Complete(a) \/ FinalizeFailure(a)
  PROVE  RecordInv' /\ Settled
<1>0. /\ Live(a) /\ Types /\ auditor[a] \in AuditorState /\ Run(a) \in DOMAIN runs /\ runs[Run(a)] \in RunRow
      /\ runs[Run(a)].report = "none" /\ runs[Run(a)].seen = auditor[a].seen
  <2>1. Live(a)
    BY DEF StartRun, Cancel, StageFails, InStages, Complete, FinalizeFailure, At, Live
  <2> QED BY <2>1, AtWork DEF RecordInv, Signing, Live, Run
<1>1. CASE StartRun(a)
  <2>1. PICK s, entry : /\ s = [auditor[a] EXCEPT !.pc = "evaluate"]
                        /\ entry = [runs[Run(a)] EXCEPT !.state = "running"]
    OBVIOUS
  <2>2. Becomes(a, s) /\ runs' = [runs EXCEPT ![Run(a)] = entry] /\ UNCHANGED <<deployed, baseline>>
    BY <1>1, <2>1 DEF StartRun, Goes
  <2>3. s.pc = "evaluate" /\ s.run = Run(a) /\ s.seen = auditor[a].seen
    BY <1>0, <2>1 DEF AuditorState, Run
  <2>4. entry \in RunRow /\ entry.report = "none" /\ entry.state = "running" /\ entry.seen = runs[Run(a)].seen
    BY <1>0, <2>1 DEF RunRow, RunState
  <2>5. RowOK(entry) /\ RowAgrees(entry)
    BY <2>4 DEF RowOK, RowAgrees
  <2> QED BY <1>0, <2>2, <2>3, <2>4, <2>5, WritesRecord
<1>2. ASSUME NEW state \in Terminal, NEW reason \in {"none", "operator_cancelled", "stage_timeout"}, Finalize(a, state, reason)
      PROVE  RecordInv' /\ Settled
  <2>1. PICK s, entry : /\ s = IF state = "passed" THEN [Idle EXCEPT !.pc = "store", !.seen = auditor[a].seen] ELSE Idle
                        /\ entry = [runs[Run(a)] EXCEPT !.state = state, !.reason = reason, !.report = state]
    OBVIOUS
  <2>2. Becomes(a, s) /\ runs' = [runs EXCEPT ![Run(a)] = entry] /\ UNCHANGED <<deployed, baseline>>
    BY <1>2, <2>1 DEF Finalize
  <2>3. entry \in RunRow /\ entry.report = state /\ entry.state = state /\ entry.seen = runs[Run(a)].seen
    BY <1>0, <2>1 DEF RunRow, RunState, Terminal
  <2>4. s.pc = IF state = "passed" THEN "store" ELSE "idle"
    BY <1>0, <2>1, Resting DEF AuditorState
  <2>5. s.pc = "store" => entry.report = "passed" /\ s.seen = entry.seen
    <3>1. Idle \in AuditorState
      BY <1>0, Resting
    <3> QED BY <1>0, <2>1, <2>3, <2>4, <3>1 DEF AuditorState
  <2>6. RowOK(entry) /\ RowAgrees(entry)
    BY <2>3 DEF RowOK, RowAgrees, Terminal
  <2> QED BY <1>0, <2>2, <2>3, <2>4, <2>5, <2>6, WritesRecord
<1>4. CASE FinalizeFailure(a)
  <2>1. PICK entry : entry = [runs[Run(a)] EXCEPT !.state = "failed", !.reason = "red_tier"]
    OBVIOUS
  <2>2. Becomes(a, Idle) /\ runs' = [runs EXCEPT ![Run(a)] = entry] /\ UNCHANGED <<deployed, baseline>>
    BY <1>4, <2>1 DEF FinalizeFailure
  <2>3. entry \in RunRow /\ entry.report = "none" /\ entry.state = "failed" /\ entry.seen = runs[Run(a)].seen
    BY <1>0, <2>1 DEF RunRow, RunState, Terminal
  <2>4. RowOK(entry) /\ RowAgrees(entry)
    BY <2>3 DEF RowOK, RowAgrees
  <2> QED BY <1>0, <2>2, <2>3, <2>4, Resting, WritesRecord
<1>3. CASE Cancel(a) \/ StageFails(a)
  BY <1>2, <1>3 DEF Cancel, StageFails, Terminal
<1>5. CASE Complete(a)
  <2>1. Outcome(Run(a)) \in Terminal
    BY DEF Outcome, Terminal
  <2> QED BY <1>2, <1>5, <2>1 DEF Complete
<1> QED BY <1>1, <1>3, <1>4, <1>5

LEMMA RecordInvStep == AuditInv /\ RecordInv /\ [AuditNext]_auditVars => RecordInv' /\ Settled
<1> SUFFICES ASSUME AuditInv, RecordInv, [AuditNext]_auditVars PROVE RecordInv' /\ Settled
  OBVIOUS
<1>1. CASE UNCHANGED auditVars \/ Upgrade
  <2>1. UNCHANGED <<deployed, auditor, runs, baseline>>
    BY <1>1 DEF auditVars, Upgrade
  <2>2. RecordInv'
    BY <2>1 DEF RecordInv, Signing, BaselineWasRun, WasRun, Alone, RowOK, RowAgrees
  <2> QED BY <2>1, <2>2 DEF Settled
<1>2. ASSUME NEW a \in Auditor, Starts(a) \/ Works(a) \/ Ends(a) \/ AuditCrash(a) PROVE RecordInv' /\ Settled
  BY <1>2, RecordRests, RecordMarks, RecordBegins, RecordWorks, RecordWrites DEF Starts, Works, Ends
<1> QED BY <1>1, <1>2 DEF AuditNext

LEMMA RecordInvariant == AuditSpec => [](AuditInv /\ RecordInv)
<1>1. AuditInit => AuditInv /\ RecordInv
  BY InitInv, RecordInit
<1>2. (AuditInv /\ RecordInv) /\ [AuditNext]_auditVars => (AuditInv /\ RecordInv)'
  BY InvStep, RecordInvStep
<1> QED BY <1>1, <1>2, PTL DEF AuditSpec

\* With one instance a signed report says what the row of its run says, and with any
\* number the stored baseline is one that a run which passed started from, whatever
\* upgrades, crashes and refused recoveries come between.
THEOREM ReportsAgree == AuditSpec => [](ReportAgrees /\ BaselineWasRun)
<1>1. RecordInv => ReportAgrees /\ BaselineWasRun
  BY DEF RecordInv, ReportAgrees, RowAgrees
<1> QED BY <1>1, RecordInvariant, PTL

\* With one instance no step, a crash and the recovery after it included, changes how a
\* run ended or why.
THEOREM EndedRunsStay == AuditSpec => TerminalRunsStay
<1>1. AuditInv /\ RecordInv /\ [AuditNext]_auditVars =>
        [Alone => \A r \in DOMAIN runs : runs[r].state \in Terminal =>
           runs'[r].state = runs[r].state /\ runs'[r].reason = runs[r].reason]_auditVars
  BY RecordInvStep DEF Settled
<1> QED BY <1>1, RecordInvariant, PTL DEF AuditSpec, TerminalRunsStay

-----------------------------------------------------------------------------
(* The incidents.                                                          *)

Target == Check \cup {Final, Engine}
IncidentFields == [target : Target, check : Check \cup {Final}, class : Class, first : Nat, to : Nat,
                   ref : Nat, resolved : Nat]
IncidentRow == {i \in IncidentFields : i.target # Engine => i.check = i.target}

\* An incident is no newer than the clock, and closed by later evidence.
Dated(i) == i.first <= clock /\ (i.resolved = 0 \/ i.resolved > i.to)

\* Of the incidents of a key at most the newest is open.
OneOpen(inc) ==
  \A i, j \in inc : i.target = j.target /\ i.class = j.class /\ i # j =>
    i.first # j.first /\ (i.resolved = 0 => j.first < i.first)

\* What the newest run with an outcome of the check says of its incidents.
ToldBy(c) == \A r \in Ended(c) : (\A q \in Ended(c) : q <= r) => ((rows[r][c].status = "pass") <=> OpenFor(c) = {})

\* The engine has one incident at most, which is open, and the newest run in which a
\* stage could not list its targets is what it refers to.
EngineRow(i) == i.resolved = 0 /\ i.class = "red"
Single(inc) == \A i \in inc : i.target = Engine => EngineRow(i) /\ \A j \in inc : j.target = Engine => i = j
Names(r) == \E i \in OpenFor(Engine) : i.ref = r /\ i.check = LastOf(Unlisted(rows[r]))
ToldOfEngine == \A r \in EndedUnlisted : (\A q \in EndedUnlisted : q <= r) => Names(r)

\* The runs whose end is written, to which incidents refer.
EndedRuns == {r \in DOMAIN runs : Reconciles(r)}
Refers(i) == i.ref \in EndedRuns /\ Failed(i)

\* One instance alone is later than all there is from its start to its trigger, and
\* at the clock from there on.
Clocked(s) ==
  /\ s.pc \in LiveLabel \cup {"lock"} =>
       s.at <= clock /\ (Alone => s.at = clock /\ \A i \in incidents : i.first < clock)
  /\ s.pc \in {"list", "mark", "startup"} /\ Alone => s.at > clock

\* The findings of a run are of its time, and its end is not written.
Unended(s) ==
  /\ \A c \in Check : rows[s.run][c].status \in Failure => rows[s.run][c].at = s.at
  /\ rows[s.run][Final].status = "none"

IncidentInv ==
  /\ clock <= Limit.clock
  /\ incidents \subseteq IncidentRow /\ \A i \in incidents : Dated(i) /\ Refers(i)
  /\ Single(incidents) /\ ToldOfEngine
  /\ \A a \in Auditor : /\ Run(a) \in 0 .. Len(runs) /\ Clocked(auditor[a])
                        /\ Live(a) => Unended(auditor[a])
  /\ Alone => OneOpen(incidents) /\ \A c \in Check : ToldBy(c)

LEMMA IncidentInit == AuditInit => IncidentInv
<1> SUFFICES ASSUME AuditInit PROVE IncidentInv
  OBVIOUS
<1>1. Types
  BY InitInv DEF AuditInv
<1>2. clock <= Limit.clock
  <2>1. clock = 0 /\ Limit.clock \in Nat
    BY <1>1, Limits DEF AuditInit
  <2> QED BY <2>1
<1>3. ASSUME NEW a \in Auditor PROVE Run(a) \in 0 .. Len(runs) /\ Clocked(auditor[a]) /\ ~Live(a)
  <2>1. auditor[a].pc = "down" /\ auditor[a].run = 0 /\ Len(runs) = 0
    BY DEF AuditInit, Off
  <2> QED BY <2>1 DEF Run, Clocked, Live
<1>4. incidents = {} /\ EndedUnlisted = {} /\ \A c \in Check : Ended(c) = {}
  BY DEF AuditInit, Ended, EndedUnlisted
<1> QED BY <1>2, <1>3, <1>4 DEF IncidentInv, OneOpen, ToldBy, Single, ToldOfEngine

-----------------------------------------------------------------------------
\* A set of numbers has a least one, and a bounded one a greatest.
LEMMA Least == ASSUME NEW T, T \subseteq Nat, T # {} PROVE \E x \in T : \A y \in T : x <= y
<1> DEFINE R == {p \in Nat \X Nat : p[1] < p[2]}
<1>1. IsWellFoundedOn(R, Nat)
  BY NatLessThanWellFounded DEF OpToRel
<1> HIDE DEF R
<1>2. PICK x \in T : \A y \in T : ~(<<y, x>> \in R)
  BY <1>1, WFMin
<1>3. ASSUME NEW y \in T PROVE x <= y
  <2>1. x \in Nat /\ y \in Nat
    BY <1>2, <1>3
  <2>2. ~(<<y, x>> \in R)
    BY <1>2, <1>3
  <2>3. ~(y < x)
    BY <2>1, <2>2 DEF R
  <2> QED BY <2>1, <2>3
<1> QED BY <1>2, <1>3

LEMMA Greatest ==
  ASSUME NEW n \in Nat, NEW T, T \subseteq 0 .. n, T # {} PROVE \E x \in T : \A y \in T : y <= x
<1> DEFINE D == {n - x : x \in T}
<1>1. D # {}
  OBVIOUS
<1>7. ASSUME NEW x \in T PROVE n - x \in Nat
  <2>1. x \in Int /\ x <= n
    OBVIOUS
  <2> QED BY <2>1
<1>6. D \subseteq Nat
  BY <1>7
<1>2. PICK d \in D : \A e \in D : d <= e
  BY <1>1, <1>6, Least
<1>3. PICK x \in T : d = n - x
  OBVIOUS
<1>4. \A y \in T : n - y \in D
  OBVIOUS
<1>5. ASSUME NEW y \in T PROVE y <= x
  <2>1. x \in Int /\ y \in Int
    OBVIOUS
  <2>2. n - x <= n - y
    BY <1>2, <1>3, <1>4
  <2> QED BY <2>1, <2>2
<1> QED BY <1>5

\* The newest incident of a key is one of its incidents.
LEMMA LatestIs ==
  ASSUME clock \in Nat, NEW inc \in SUBSET IncidentRow, \A i \in inc : i.first <= clock,
         NEW c, NEW class, OfKey(inc, c, class) # {}
  PROVE  /\ Latest(inc, c, class) \in OfKey(inc, c, class)
         /\ \A j \in OfKey(inc, c, class) : j.first <= Latest(inc, c, class).first
<1> DEFINE T == {i.first : i \in OfKey(inc, c, class)}
<1>1. T \subseteq 0 .. clock
  <2> SUFFICES ASSUME NEW i \in OfKey(inc, c, class) PROVE i.first \in 0 .. clock
    OBVIOUS
  <2>1. i \in inc /\ i \in IncidentRow
    BY DEF OfKey
  <2>2. i.first \in Nat /\ i.first <= clock
    BY <2>1 DEF IncidentRow, IncidentFields
  <2> QED BY <2>2
<1>2. T # {}
  OBVIOUS
<1>3. \E x \in T : \A y \in T : y <= x
  BY <1>1, <1>2, Greatest
<1>4. \E i \in OfKey(inc, c, class) : \A j \in OfKey(inc, c, class) : j.first <= i.first
  BY <1>3
<1> QED BY <1>4 DEF Latest

\* Whatever step: what the incidents of one target become.
Open(i) == i.resolved = 0
Same(i, j) == i.target = j.target /\ i.class = j.class /\ i.first = j.first
Refs(i, r, c, class) == i.ref = r /\ i.check = c /\ i.class = class

\* A finding either extends the newest incident of its key, which was open, or
\* opens one when the newest was not.
Extends(inc, target, class, new, r, c) ==
  \E i \in OfKey(inc, target, class), k \in IncidentRow :
    /\ new = (inc \ {i}) \cup {k} /\ Same(i, k) /\ Open(i) /\ Open(k) /\ Refs(k, r, c, class)
Adds(inc, target, class, t, new, r, c) ==
  \E k \in IncidentRow :
    /\ new = inc \cup {k} /\ k.target = target /\ k.first = t /\ Open(k) /\ Refs(k, r, c, class)
    /\ OfKey(inc, target, class) # {} =>
         \E i \in OfKey(inc, target, class) : ~Open(i) /\ \A j \in OfKey(inc, target, class) : j.first <= i.first

LEMMA OpenedIs ==
  ASSUME clock \in Nat, NEW inc \in SUBSET IncidentRow, \A i \in inc : Dated(i),
         NEW target \in Target, NEW c \in Check \cup {Final}, target # Engine => c = target,
         NEW class \in Class, NEW r \in Nat, NEW t \in Nat, t <= clock
  PROVE  LET new == Opened(inc, r, target, c, class, t)
         IN  Extends(inc, target, class, new, r, c) \/ Adds(inc, target, class, t, new, r, c)
<1>0. \A i \in inc : i.first <= clock
  BY DEF Dated
<1>1. CASE HasOpen(inc, target, class)
  <2>1. PICK i : i = Latest(inc, target, class)
    OBVIOUS
  <2>2. /\ i \in OfKey(inc, target, class) /\ Open(i)
        /\ \A j \in OfKey(inc, target, class) : j.first <= i.first
    BY <1>0, <1>1, <2>1, LatestIs DEF HasOpen, Open
  <2>3. i \in IncidentFields /\ i.target = target /\ i.class = class
    BY <2>2 DEF OfKey, IncidentRow
  <2>4. PICK to : to = IF t > i.to THEN t ELSE i.to
    OBVIOUS
  <2>5. to \in Nat
    BY <2>3, <2>4 DEF IncidentFields
  <2>6. PICK k : k = [i EXCEPT !.to = to, !.ref = r, !.check = c]
    OBVIOUS
  <2>7. k \in IncidentRow /\ Same(i, k) /\ Open(k) /\ Refs(k, r, c, class)
    <3>1. k \in IncidentFields
      BY <2>3, <2>5, <2>6 DEF IncidentFields
    <3>2. /\ k.target = i.target /\ k.class = i.class /\ k.first = i.first /\ k.resolved = i.resolved
          /\ k.ref = r /\ k.check = c
      BY <2>3, <2>6 DEF IncidentFields
    <3> QED BY <2>2, <2>3, <3>1, <3>2 DEF Same, Open, Refs, IncidentRow
  <2>8. Opened(inc, r, target, c, class, t) = (inc \ {i}) \cup {k}
    BY <1>1, <2>1, <2>4, <2>6 DEF Opened
  <2> QED BY <2>2, <2>7, <2>8 DEF Extends
<1>2. CASE ~HasOpen(inc, target, class)
  <2>1. PICK k : k = [target |-> target, check |-> c, class |-> class, first |-> t, to |-> t, ref |-> r, resolved |-> 0]
    OBVIOUS
  <2>2. k \in IncidentRow /\ k.target = target /\ k.first = t /\ Open(k) /\ Refs(k, r, c, class)
    <3>1. k \in IncidentFields
      BY <2>1 DEF IncidentFields
    <3> QED BY <2>1, <3>1 DEF IncidentRow, Open, Refs
  <2>3. Opened(inc, r, target, c, class, t) = inc \cup {k}
    BY <1>2, <2>1 DEF Opened
  <2>4. ASSUME OfKey(inc, target, class) # {}
        PROVE  \E i \in OfKey(inc, target, class) : ~Open(i) /\ \A j \in OfKey(inc, target, class) : j.first <= i.first
    BY <1>0, <1>2, <2>4, LatestIs DEF HasOpen, Open
  <2> QED BY <2>2, <2>3, <2>4 DEF Adds
<1> QED BY <1>1, <1>2

\* What a pass closes was open and is of its check.
LEMMA ClosingIs ==
  ASSUME clock \in Nat, NEW inc \in SUBSET IncidentRow, \A i \in inc : Dated(i), NEW c, c # Engine
  PROVE  /\ \A i \in Closing(inc, c) : i \in inc /\ i.target = c /\ Open(i)
         /\ OneOpen(inc) => \A i \in inc : i.target = c /\ Open(i) => i \in Closing(inc, c)
<1>0. \A i \in inc : i.first <= clock
  BY DEF Dated
<1>1. ASSUME NEW i \in Closing(inc, c) PROVE i \in inc /\ i.target = c /\ Open(i)
  <2>1. PICK class \in Class : HasOpen(inc, c, class) /\ i = Latest(inc, c, class)
    BY DEF Closing
  <2>2. i \in OfKey(inc, c, class) /\ Open(i)
    BY <1>0, <2>1, LatestIs DEF HasOpen, Open
  <2> QED BY <2>2 DEF OfKey
<1>2. ASSUME OneOpen(inc), NEW i \in inc, i.target = c, Open(i) PROVE i \in Closing(inc, c)
  <2>1. i.first \in Nat /\ i.class \in Class /\ i \in OfKey(inc, c, i.class) /\ i.check = c
    BY <1>2 DEF IncidentRow, IncidentFields, OfKey
  <2>2. PICK j : j = Latest(inc, c, i.class)
    OBVIOUS
  <2>3. j \in OfKey(inc, c, i.class) /\ i.first <= j.first
    BY <1>0, <2>1, <2>2, LatestIs
  <2>4. j \in inc /\ j.first \in Nat /\ j.target = c /\ j.class = i.class
    BY <2>3 DEF OfKey, IncidentRow, IncidentFields
  <2>6. i # j => j.first < i.first
    BY <1>2, <2>4 DEF OneOpen, Open
  <2>7. i = j
    BY <2>1, <2>3, <2>4, <2>6
  <2>8. HasOpen(inc, c, i.class)
    BY <1>2, <2>1, <2>2, <2>7 DEF HasOpen, Open
  <2> QED BY <2>1, <2>2, <2>7, <2>8 DEF Closing
<1> QED BY <1>1, <1>2

\* What a pass makes of the incidents of its check, when it recovers all it closes.
LEMMA ClosedIs ==
  ASSUME clock \in Nat, NEW inc \in SUBSET IncidentRow, \A i \in inc : Dated(i), NEW c, c # Engine,
         NEW r, NEW t \in Nat,
         \A i \in Closing(inc, c) : Recovers(i, r, t), NEW x \in Closed(inc, c, t)
  PROVE  /\ x \in IncidentRow /\ Dated(x)
         /\ \E i \in inc : /\ Same(i, x) /\ Refs(x, i.ref, i.check, i.class)
                          /\ \/ x = i /\ i \notin Closing(inc, c)
                             \/ x = [i EXCEPT !.resolved = t] /\ i \in Closing(inc, c) /\ ~Open(x)
<1>1. CASE x \in inc /\ x \notin Closing(inc, c)
  BY <1>1 DEF Same, Refs
<1>2. ASSUME NEW i \in Closing(inc, c), x = [i EXCEPT !.resolved = t]
      PROVE  x \in IncidentRow /\ Dated(x) /\ Same(i, x) /\ Refs(x, i.ref, i.check, i.class) /\ ~Open(x) /\ i \in inc
  <2>1. i \in inc /\ i \in IncidentRow /\ Dated(i)
    BY ClosingIs
  <2>a. i \in IncidentFields
    BY <2>1 DEF IncidentRow
  <2>b. /\ x \in IncidentFields /\ x.to = i.to /\ x.resolved = t /\ x.target = i.target /\ x.check = i.check
        /\ x.first = i.first /\ x.class = i.class /\ x.ref = i.ref
    BY <1>2, <2>a DEF IncidentFields
  <2>2. x \in IncidentRow /\ Same(i, x) /\ Refs(x, i.ref, i.check, i.class)
    BY <2>1, <2>b DEF IncidentRow, Same, Refs
  <2>3. t > i.to /\ i.to \in Nat
    BY <2>a DEF Recovers, IncidentFields
  <2> QED BY <2>1, <2>2, <2>3, <2>b DEF Dated, Open
<1> QED BY <1>1, <1>2 DEF Closed

\* The incidents of one target after a run: typed and dated, of that target, and
\* referring to what they did or to the run's row; with one instance, which is later
\* than all of them, at most the newest of a key is open, one is after a finding, and
\* none after a pass.
AsBefore(x) == \E i \in incidents : Same(i, x) /\ Refs(x, i.ref, i.check, i.class)
Kept(target, new, r, c, class) ==
  \A x \in new : /\ x \in IncidentRow /\ x.target = target /\ Dated(x)
                 /\ AsBefore(x) \/ (class \in Class /\ Refs(x, r, c, class))
Tells(status, new) ==
  /\ OneOpen(new)
  /\ status \in Class => \E i \in new : Open(i)
  /\ status = "pass" => \A i \in new : ~Open(i)

LEMMA FollowsIs ==
  ASSUME clock \in Nat, incidents \subseteq IncidentRow, \A i \in incidents : Dated(i),
         NEW c \in Check \cup {Final}, NEW r \in Nat, NEW outcome \in CheckRow,
         outcome.status \in Class => outcome.at <= clock,
         outcome.status = "pass" => \A i \in Closing(On(c), c) : Recovers(i, r, outcome.at)
  PROVE  /\ Kept(c, Follows(r, c, outcome), r, c, outcome.status)
         /\ OneOpen(incidents) /\ (outcome.status \in Class => \A i \in incidents : i.first < outcome.at) =>
              Tells(outcome.status, Follows(r, c, outcome))
<1> DEFINE inc == On(c)
<1>0. /\ inc \subseteq incidents /\ inc \in SUBSET IncidentRow /\ (\A i \in inc : Dated(i) /\ i.target = c)
      /\ outcome.at \in Nat /\ (OneOpen(incidents) => OneOpen(inc))
  BY DEF On, CheckRow, OneOpen
<1>a. \A i \in inc : i.first \in Nat /\ i.first <= clock /\ i \in IncidentRow
  BY <1>0 DEF Dated, IncidentRow, IncidentFields
<1>b. \A i \in inc : AsBefore(i)
  BY <1>0 DEF AsBefore, Same, Refs
<1>c. c # Engine /\ c \in Target
  BY AuditAssumption DEF Check, Target, Final, Engine
<1> HIDE DEF inc
<1>1. CASE outcome.status \in Class
  <2>0. Follows(r, c, outcome) = Opened(inc, r, c, c, outcome.status, outcome.at)
    BY <1>1 DEF Follows, inc, Class
  <2>1. ASSUME NEW i \in OfKey(inc, c, outcome.status), NEW k \in IncidentRow, Same(i, k), Open(i), Open(k),
               Refs(k, r, c, outcome.status),
               Follows(r, c, outcome) = (inc \ {i}) \cup {k}
        PROVE  /\ Kept(c, Follows(r, c, outcome), r, c, outcome.status)
               /\ \E x \in Follows(r, c, outcome) : Open(x)
               /\ OneOpen(inc) => OneOpen(Follows(r, c, outcome))
    <3>1. i \in inc /\ i.target = c /\ k.target = c /\ k.first = i.first /\ k.class = i.class
      BY <2>1 DEF OfKey, Same
    <3>2. Dated(k)
      BY <1>0, <2>1, <3>1 DEF Dated, Open
    <3>3. ASSUME OneOpen(inc) PROVE OneOpen(Follows(r, c, outcome))
      <4> SUFFICES ASSUME NEW x \in Follows(r, c, outcome), NEW y \in Follows(r, c, outcome),
                          x.target = y.target, x.class = y.class, x # y
                   PROVE  x.first # y.first /\ (x.resolved = 0 => y.first < x.first)
        BY DEF OneOpen
      <4>1. CASE x \in inc /\ y \in inc
        BY <3>3, <4>1 DEF OneOpen
      <4>2. CASE x = k /\ y \in inc /\ y # i
        BY <2>1, <3>1, <3>3, <4>2 DEF OneOpen, Open
      <4>3. CASE y = k /\ x \in inc /\ x # i
        BY <2>1, <3>1, <3>3, <4>3 DEF OneOpen, Open
      <4> QED BY <2>1, <4>1, <4>2, <4>3
    <3>4. Kept(c, Follows(r, c, outcome), r, c, outcome.status)
      BY <1>0, <1>1, <1>a, <1>b, <2>1, <3>1, <3>2 DEF Kept
    <3> QED BY <2>1, <3>3, <3>4
  <2>2. ASSUME NEW k \in IncidentRow, k.target = c, Refs(k, r, c, outcome.status), k.first = outcome.at, Open(k),
               Follows(r, c, outcome) = inc \cup {k},
               OfKey(inc, c, outcome.status) # {} =>
                 \E i \in OfKey(inc, c, outcome.status) :
                   ~Open(i) /\ \A j \in OfKey(inc, c, outcome.status) : j.first <= i.first
        PROVE  /\ Kept(c, Follows(r, c, outcome), r, c, outcome.status)
               /\ \E x \in Follows(r, c, outcome) : Open(x)
               /\ OneOpen(inc) /\ (\A i \in inc : i.first < outcome.at) => OneOpen(Follows(r, c, outcome))
    <3>1. k.class = outcome.status
      BY <2>2 DEF Refs
    <3>2. Dated(k)
      BY <1>1, <2>2 DEF Dated, Open
    <3>4. Kept(c, Follows(r, c, outcome), r, c, outcome.status)
      BY <1>0, <1>1, <1>a, <1>b, <2>2, <3>2 DEF Kept
    <3>3. ASSUME OneOpen(inc), \A i \in inc : i.first < outcome.at PROVE OneOpen(Follows(r, c, outcome))
      <4>0. \A x \in OfKey(inc, c, outcome.status) : ~Open(x)
        <5> SUFFICES ASSUME NEW x \in OfKey(inc, c, outcome.status), Open(x) PROVE FALSE
          OBVIOUS
        <5>1. PICK i \in OfKey(inc, c, outcome.status) :
                ~Open(i) /\ \A j \in OfKey(inc, c, outcome.status) : j.first <= i.first
          BY <2>2
        <5>2. x \in inc /\ i \in inc /\ x.target = i.target /\ x.class = i.class /\ x # i /\ x.first <= i.first
          BY <5>1 DEF OfKey
        <5>3. i.first < x.first
          BY <3>3, <5>2 DEF OneOpen, Open
        <5> QED BY <1>a, <5>2, <5>3
      <4> SUFFICES ASSUME NEW x \in Follows(r, c, outcome), NEW y \in Follows(r, c, outcome),
                          x.target = y.target, x.class = y.class, x # y
                   PROVE  x.first # y.first /\ (x.resolved = 0 => y.first < x.first)
        BY DEF OneOpen
      <4>1. CASE x \in inc /\ y \in inc
        BY <3>3, <4>1 DEF OneOpen
      <4>2. CASE x = k /\ y \in inc
        BY <1>0, <1>a, <2>2, <3>3, <4>2
      <4>3. CASE y = k /\ x \in inc
        <5>1. x \in OfKey(inc, c, outcome.status)
          BY <2>2, <3>1, <4>3 DEF OfKey
        <5> QED BY <1>0, <1>a, <2>2, <3>3, <4>0, <4>3, <5>1 DEF Open
      <4> QED BY <2>2, <4>1, <4>2, <4>3
    <3> QED BY <2>2, <3>3, <3>4
  <2>3. (\A i \in incidents : i.first < outcome.at) => \A i \in inc : i.first < outcome.at
    BY <1>0
  <2>4. outcome.status # "pass"
    BY <1>1 DEF Class
  <2>5. outcome.at <= clock
    BY <1>1
  <2>6. /\ Kept(c, Follows(r, c, outcome), r, c, outcome.status)
        /\ \E x \in Follows(r, c, outcome) : Open(x)
        /\ OneOpen(inc) /\ (\A i \in inc : i.first < outcome.at) => OneOpen(Follows(r, c, outcome))
    <3>0. PICK class \in Class, t \in Nat : class = outcome.status /\ t = outcome.at /\ t <= clock
      BY <1>0, <1>1, <2>5
    <3>1. PICK new : new = Opened(inc, r, c, c, class, t)
      OBVIOUS
    <3>2. Extends(inc, c, class, new, r, c) \/ Adds(inc, c, class, t, new, r, c)
      <4>1. clock \in Nat /\ inc \in SUBSET IncidentRow /\ \A i \in inc : Dated(i)
        BY <1>0
      <4> QED BY <1>c, <3>0, <3>1, <4>1, OpenedIs
    <3>3. Follows(r, c, outcome) = new
      BY <2>0, <3>0, <3>1
    <3>4. CASE Extends(inc, c, class, new, r, c)
      BY <2>1, <3>0, <3>3, <3>4 DEF Extends
    <3>5. CASE Adds(inc, c, class, t, new, r, c)
      BY <2>2, <3>0, <3>3, <3>5 DEF Adds
    <3> QED BY <3>2, <3>4, <3>5
  <2> QED BY <1>0, <1>1, <2>3, <2>4, <2>6 DEF Tells
<1>2. CASE outcome.status = "pass"
  <2>0. Follows(r, c, outcome) = Closed(inc, c, outcome.at) /\ outcome.status \notin Class
    BY <1>2 DEF Follows, inc, Class
  <2>1. \A i \in Closing(inc, c) : Recovers(i, r, outcome.at)
    BY <1>2 DEF inc
  <2>a. \A x \in Follows(r, c, outcome) :
          /\ x \in IncidentRow /\ Dated(x)
          /\ \E i \in inc : /\ Same(i, x) /\ Refs(x, i.ref, i.check, i.class)
                           /\ \/ x = i /\ i \notin Closing(inc, c)
                              \/ x = [i EXCEPT !.resolved = outcome.at] /\ i \in Closing(inc, c) /\ ~Open(x)
    <3> TAKE x \in Follows(r, c, outcome)
    <3>1. x \in Closed(inc, c, outcome.at)
      BY <2>0
    <3>2. clock \in Nat /\ inc \in SUBSET IncidentRow /\ (\A i \in inc : Dated(i)) /\ outcome.at \in Nat
      BY <1>0
    <3> QED BY <1>c, <2>1, <3>1, <3>2, ClosedIs
  <2>2. Kept(c, Follows(r, c, outcome), r, c, outcome.status)
    <3> SUFFICES ASSUME NEW x \in Follows(r, c, outcome)
                 PROVE  x \in IncidentRow /\ x.target = c /\ Dated(x) /\ AsBefore(x)
      BY DEF Kept
    <3>1. PICK i \in inc : Same(i, x) /\ Refs(x, i.ref, i.check, i.class)
      BY <2>a
    <3>2. i \in incidents /\ i.target = c
      BY <1>0
    <3> QED BY <2>a, <3>1, <3>2 DEF Same, AsBefore
  <2>3. ASSUME OneOpen(inc), NEW x \in Follows(r, c, outcome) PROVE ~Open(x)
    <3>1. \A i \in inc : Open(i) => i \in Closing(inc, c)
      BY <1>0, <1>c, <2>3, ClosingIs
    <3>2. \E i \in inc : (x = i /\ i \notin Closing(inc, c)) \/ ~Open(x)
      BY <2>a
    <3> QED BY <3>1, <3>2
  <2>4. ASSUME OneOpen(inc) PROVE OneOpen(Follows(r, c, outcome))
    <3> SUFFICES ASSUME NEW x \in Follows(r, c, outcome), NEW y \in Follows(r, c, outcome),
                        x.target = y.target, x.class = y.class, x # y
                 PROVE  x.first # y.first
      BY <2>3, <2>4 DEF OneOpen, Open
    <3>1. PICK i \in inc : /\ Same(i, x)
                           /\ \/ x = i /\ i \notin Closing(inc, c)
                              \/ x = [i EXCEPT !.resolved = outcome.at] /\ i \in Closing(inc, c) /\ ~Open(x)
      BY <2>a
    <3>2. PICK j \in inc : /\ Same(j, y)
                           /\ \/ y = j /\ j \notin Closing(inc, c)
                              \/ y = [j EXCEPT !.resolved = outcome.at] /\ j \in Closing(inc, c) /\ ~Open(y)
      BY <2>a
    <3>3. ASSUME i = j PROVE FALSE
      <4>1. PICK z : z = [i EXCEPT !.resolved = outcome.at]
        OBVIOUS
      <4>2. (x = i /\ i \notin Closing(inc, c)) \/ (x = z /\ i \in Closing(inc, c))
        BY <3>1, <4>1
      <4>3. (y = i /\ i \notin Closing(inc, c)) \/ (y = z /\ i \in Closing(inc, c))
        BY <3>2, <3>3, <4>1
      <4> QED BY <4>2, <4>3
    <3>4. i.first # j.first
      BY <2>4, <3>1, <3>2, <3>3 DEF OneOpen, Same
    <3> QED BY <3>1, <3>2, <3>4 DEF Same
  <2> QED BY <1>0, <2>0, <2>2, <2>3, <2>4 DEF Tells
<1>3. CASE outcome.status \notin Class /\ outcome.status # "pass"
  <2>1. Follows(r, c, outcome) = inc
    BY <1>3 DEF Follows, inc
  <2> QED BY <1>0, <1>3, <1>a, <1>b, <2>1 DEF Kept, Tells
<1> QED BY <1>1, <1>2, <1>3

-----------------------------------------------------------------------------
\* The last of the checks that could not list their targets is one of them.
LEMMA LastIsOne == ASSUME NEW cs, cs \subseteq Check, cs # {} PROVE LastOf(cs) \in cs
<1> DEFINE N == {n \in DOMAIN Checks : Checks[n] \in cs}
<1>1. DOMAIN Checks = 1 .. Len(Checks) /\ Len(Checks) \in Nat
  BY LenProperties
<1>2. N # {} /\ N \subseteq 0 .. Len(Checks)
  <2>1. PICK c \in cs : TRUE
    OBVIOUS
  <2>2. PICK n \in DOMAIN Checks : Checks[n] = c
    BY <2>1 DEF Check, Range
  <2> QED BY <1>1, <2>2
<1>3. \E n \in N : \A m \in N : m <= n
  BY <1>1, <1>2, Greatest
<1>4. Newest(N) \in N
  BY <1>3 DEF Newest
<1> QED BY <1>4 DEF LastOf

\* The engine's incident after a run: there is at most one, which is open, and after
\* a run in which a stage could not list its targets it refers to the last of them.
LEMMA EngineIs ==
  ASSUME clock \in Nat, incidents \subseteq IncidentRow, \A i \in incidents : Dated(i), Single(incidents),
         NEW r \in Nat, NEW seen \in RowsOfRun, \A c \in Unlisted(seen) : seen[c].at <= clock
  PROVE  LET new == EngineFollows(r, seen)
             last == LastOf(Unlisted(seen))
         IN  /\ Unlisted(seen) = {} => new = On(Engine)
             /\ Unlisted(seen) # {} =>
                  /\ last \in Unlisted(seen) /\ Kept(Engine, new, r, last, "red")
                  /\ \E x \in new : new = {x} /\ EngineRow(x) /\ Refs(x, r, last, "red")
<1>1. Unlisted(seen) = {} => EngineFollows(r, seen) = On(Engine)
  BY DEF EngineFollows
<1>2. ASSUME Unlisted(seen) # {}
      PROVE  /\ LastOf(Unlisted(seen)) \in Unlisted(seen)
             /\ Kept(Engine, EngineFollows(r, seen), r, LastOf(Unlisted(seen)), "red")
             /\ \E x \in EngineFollows(r, seen) :
                  EngineFollows(r, seen) = {x} /\ EngineRow(x) /\ Refs(x, r, LastOf(Unlisted(seen)), "red")
  <2>1. PICK last : last = LastOf(Unlisted(seen))
    OBVIOUS
  <2>2. last \in Unlisted(seen)
    BY <1>2, <2>1, LastIsOne DEF Unlisted
  <2>3. last \in Check /\ seen[last].at \in Nat /\ seen[last].at <= clock
    BY <2>2 DEF Unlisted, RowsOfRun, CheckRow
  <2>4. PICK inc, t : inc = On(Engine) /\ t = seen[last].at /\ t \in Nat
    BY <2>3
  <2>5. /\ inc \in SUBSET IncidentRow /\ (\A i \in inc : Dated(i) /\ i.target = Engine /\ EngineRow(i))
        /\ \A i, j \in inc : i = j
    BY <2>4 DEF On, Single
  <2>6. PICK new : new = Opened(inc, r, Engine, last, "red", t)
    OBVIOUS
  <2>7. EngineFollows(r, seen) = new
    BY <1>2, <2>1, <2>4, <2>6 DEF EngineFollows
  <2>8. Extends(inc, Engine, "red", new, r, last) \/ Adds(inc, Engine, "red", t, new, r, last)
    <3>1. "red" \in Class /\ Engine \in Target /\ last \in Check \cup {Final}
      BY <2>3 DEF Class, Target
    <3> QED BY <2>3, <2>4, <2>5, <2>6, <3>1, OpenedIs
  <2>9. \E k \in IncidentRow : new = {k} /\ k.target = Engine /\ Open(k) /\ Refs(k, r, last, "red") /\ Dated(k)
    <3>1. CASE Extends(inc, Engine, "red", new, r, last)
      <4>1. PICK i \in inc, k \in IncidentRow : /\ new = (inc \ {i}) \cup {k} /\ Same(i, k) /\ Open(i) /\ Open(k)
                                               /\ Refs(k, r, last, "red")
        BY <3>1 DEF Extends, OfKey
      <4>2. new = {k}
        BY <2>5, <4>1
      <4> QED BY <2>5, <4>1, <4>2 DEF Same, Dated, Open
    <3>2. CASE Adds(inc, Engine, "red", t, new, r, last)
      <4>1. PICK k \in IncidentRow :
              /\ new = inc \cup {k} /\ k.target = Engine /\ k.first = t /\ Open(k) /\ Refs(k, r, last, "red")
              /\ OfKey(inc, Engine, "red") # {} => \E i \in OfKey(inc, Engine, "red") : ~Open(i)
        BY <3>2 DEF Adds
      <4>2. \A i \in inc : i \in OfKey(inc, Engine, "red") /\ Open(i)
        BY <2>5 DEF OfKey, EngineRow, Open
      <4>3. inc = {}
        BY <4>1, <4>2 DEF OfKey
      <4>4. Dated(k)
        BY <2>3, <2>4, <4>1 DEF Dated, Open
      <4> QED BY <4>1, <4>3, <4>4
    <3> QED BY <2>8, <3>1, <3>2
  <2>10. Kept(Engine, new, r, last, "red") /\ \E x \in new : new = {x} /\ EngineRow(x) /\ Refs(x, r, last, "red")
    BY <2>9 DEF Kept, Class, EngineRow, Open, Refs
  <2> QED BY <2>1, <2>2, <2>7, <2>10
<1> QED BY <1>1, <1>2

-----------------------------------------------------------------------------
\* A step that leaves what ended runs found.
Standing == EndedRuns' = EndedRuns /\ \A r \in EndedRuns : rows'[r] = rows[r]

LEMMA StillTold ==
  ASSUME Standing
  PROVE  /\ \A c \in Check : Ended(c)' = Ended(c) /\ \A r \in Ended(c) : rows'[r][c] = rows[r][c]
         /\ EndedUnlisted' = EndedUnlisted /\ \A r \in EndedUnlisted : rows'[r] = rows[r]
         /\ \A i : Refers(i) => Refers(i)'
<1>1. /\ \A r : (r \in DOMAIN runs /\ Reconciles(r)) <=> r \in EndedRuns
      /\ \A r : (r \in DOMAIN runs' /\ Reconciles(r)') <=> r \in EndedRuns
  <2>1. \A r : (r \in DOMAIN runs' /\ Reconciles(r)') <=> r \in EndedRuns'
    BY DEF EndedRuns
  <2> QED BY <2>1 DEF EndedRuns, Standing
<1>2. ASSUME NEW c \in Check PROVE Ended(c)' = Ended(c) /\ \A r \in Ended(c) : rows'[r][c] = rows[r][c]
  <2>1. PICK old, new : old = Ended(c) /\ new = Ended(c)'
    OBVIOUS
  <2>2. \A r \in EndedRuns : (c \in Found(r)) <=> (c \in Found(r))'
    BY DEF Standing, Found
  <2>3. \A r : r \in new <=> r \in old
    BY <1>1, <2>1, <2>2 DEF Ended
  <2>4. new = old
    <3>1. new = {r \in DOMAIN runs' : (c \in Found(r) /\ Reconciles(r))'} /\ old = {r \in DOMAIN runs : c \in Found(r) /\ Reconciles(r)}
      BY <2>1 DEF Ended
    <3> QED BY <2>3, <3>1
  <2>5. \A r \in Ended(c) : rows'[r] = rows[r]
    BY <1>1 DEF Ended, Standing
  <2> QED BY <2>1, <2>4, <2>5
<1>3. EndedUnlisted' = EndedUnlisted /\ \A r \in EndedUnlisted : rows'[r] = rows[r]
  <2>1. PICK old, new : old = EndedUnlisted /\ new = EndedUnlisted'
    OBVIOUS
  <2>2. \A r \in EndedRuns : Unlisted(rows'[r]) = Unlisted(rows[r])
    BY DEF Standing
  <2>a. /\ new = {r \in DOMAIN runs' : Unlisted(rows'[r]) # {} /\ Reconciles(r)'}
        /\ old = {r \in DOMAIN runs : Unlisted(rows[r]) # {} /\ Reconciles(r)}
    BY <2>1 DEF EndedUnlisted
  <2>3. \A r : r \in new <=> r \in old
    BY <1>1, <2>2, <2>a
  <2>4. new = old
    BY <2>3, <2>a
  <2>5. \A r \in EndedUnlisted : rows'[r] = rows[r]
    BY <1>1 DEF EndedUnlisted, Standing
  <2> QED BY <2>1, <2>4, <2>5
<1>4. ASSUME NEW i, Refers(i) PROVE Refers(i)'
  BY <1>4 DEF Refers, Failed, Standing
<1> QED BY <1>2, <1>3, <1>4

LEMMA RunsThere == Types => DOMAIN runs = 1 .. Len(runs) /\ DOMAIN rows = DOMAIN runs /\ Len(runs) \in Nat
BY LenProperties DEF Types

LEMMA IncidentStep ==
  ASSUME AuditInv, RecordInv, IncidentInv, NEW a \in deployed, NEW s, Becomes(a, s), UNCHANGED <<deployed, incidents>>,
         clock' \in Nat, clock <= clock', clock' <= Limit.clock,
         Len(runs') \in Nat, Len(runs) <= Len(runs'), s.run \in 0 .. Len(runs'), Clocked(s)',
         s.pc \in LiveLabel => Unended(s)',
         \A b \in Auditor : b # a /\ Live(b) => rows'[Run(b)] = rows[Run(b)],
         Standing
  PROVE  IncidentInv'
<1>0. /\ Types /\ a \in Auditor /\ Alone' = Alone /\ Limit' = Limit /\ clock \in Nat
      /\ \A b \in Auditor : auditor'[b] = IF b = a THEN s ELSE auditor[b]
  BY DEF AuditInv, Types, Becomes, Alone, Limit
<1>1. \A i \in incidents : Dated(i)' /\ Refers(i)'
  <2> SUFFICES ASSUME NEW i \in incidents PROVE Dated(i)' /\ Refers(i)'
    OBVIOUS
  <2>1. Dated(i) /\ i.first \in Nat /\ Refers(i)
    BY DEF IncidentInv, IncidentRow, IncidentFields
  <2>2. Refers(i)'
    BY <2>1, StillTold
  <2> QED BY <1>0, <2>1, <2>2 DEF Dated
<1>2. ASSUME NEW b \in Auditor
      PROVE  /\ Run(b)' \in 0 .. Len(runs') /\ Clocked(auditor[b])'
             /\ Live(b)' => Unended(auditor[b])'
  <2>1. CASE b = a
    <3>1. auditor'[b] = s
      BY <1>0, <2>1
    <3>2. Clocked(auditor[b])'
      BY <3>1 DEF Clocked
    <3>3. Live(b)' => Unended(auditor[b])'
      BY <3>1 DEF Live, Unended
    <3> QED BY <3>1, <3>2, <3>3 DEF Run
  <2>2. CASE b # a
    <3>1. PICK t : t = auditor[b]
      OBVIOUS
    <3>2. auditor'[b] = t /\ Clocked(t) /\ (Live(b) => Unended(t)) /\ t.run \in 0 .. Len(runs) /\ t \in AuditorState
      BY <1>0, <2>2, <3>1 DEF IncidentInv, Run, Types
    <3>3. Alone => t.pc = "down"
      BY <2>2, <3>1, OnlyOne DEF RecordInv
    <3>4. Clocked(t)'
      <4>1. t.at \in Nat
        BY <3>2 DEF AuditorState
      <4> QED BY <1>0, <3>2, <3>3, <4>1 DEF Clocked
    <3>5. Live(b)' => Unended(t)'
      BY <2>2, <3>1, <3>2 DEF Live, Unended, Run
    <3>6. Clocked(auditor[b])' /\ (Live(b)' => Unended(auditor[b])')
      BY <3>2, <3>4, <3>5 DEF Clocked, Unended
    <3>7. \A n, m \in Nat : n <= m => 0 .. n \subseteq 0 .. m
      OBVIOUS
    <3>8. t.run \in 0 .. Len(runs')
      BY <1>0, <3>2, <3>7, RunsThere
    <3> QED BY <3>2, <3>6, <3>8 DEF Run
  <2> QED BY <2>1, <2>2
<1>3. ASSUME Alone, NEW c \in Check PROVE ToldBy(c)'
  <2>1. ToldBy(c) /\ OpenFor(c)' = OpenFor(c)
    BY <1>3 DEF IncidentInv, OpenFor
  <2> QED BY <2>1, StillTold DEF ToldBy
<1>6. ToldOfEngine'
  <2>1. \A r \in EndedUnlisted : Names(r) => Names(r)'
    <3>1. OpenFor(Engine)' = OpenFor(Engine)
      BY DEF OpenFor
    <3> QED BY <3>1, StillTold DEF Names
  <2>2. ToldOfEngine
    BY DEF IncidentInv
  <2> QED BY <2>1, <2>2, StillTold DEF ToldOfEngine
<1>4. incidents' \subseteq IncidentRow /\ Single(incidents') /\ (Alone => OneOpen(incidents'))
  BY DEF IncidentInv
<1>5. clock' <= Limit'.clock
  BY <1>0
<1> QED BY <1>0, <1>1, <1>2, <1>3, <1>4, <1>5, <1>6 DEF IncidentInv

LEMMA SameRowsStand == ASSUME rows' = rows, DOMAIN runs' = DOMAIN runs PROVE Standing
BY DEF Standing, EndedRuns, Reconciles

\* An instance that works on no run, or goes on with its own without writing.
LEMMA RestsBesideIncidents ==
  ASSUME AuditInv, RecordInv, IncidentInv, NEW a \in deployed, NEW s, Becomes(a, s),
         UNCHANGED <<deployed, incidents, rows>>, DOMAIN runs' = DOMAIN runs, Len(runs') = Len(runs),
         clock' \in Nat, clock <= clock', clock' <= Limit.clock, s.run \in 0 .. Len(runs), Clocked(s)',
         s.pc \in LiveLabel => Live(a) /\ s.run = Run(a) /\ s.at = auditor[a].at
  PROVE  IncidentInv'
<1>1. Len(runs) \in Nat /\ a \in Auditor
  BY RunsThere DEF AuditInv, Types
<1>2. s.pc \in LiveLabel => Unended(s)'
  BY <1>1 DEF IncidentInv, Unended, Run
<1> QED BY <1>1, <1>2, SameRowsStand, IncidentStep

LEMMA Timely ==
  ASSUME AuditInv, IncidentInv, NEW a \in Auditor
  PROVE  /\ auditor[a] \in AuditorState /\ Types /\ clock \in Nat /\ clock <= clock /\ Limit.clock \in Nat /\ Len(runs) \in Nat
         /\ auditor[a].run \in 0 .. Len(runs) /\ Clocked(auditor[a]) /\ clock <= Limit.clock /\ auditor[a].at \in Nat
<1>1. Types /\ Len(runs) \in Nat /\ Limit.clock \in Nat
  BY Limits, RunsThere DEF AuditInv
<1>2. auditor[a] \in AuditorState /\ clock \in Nat /\ clock <= clock
  BY <1>1 DEF Types
<1>3. auditor[a].at \in Nat
  BY <1>2 DEF AuditorState
<1>4. auditor[a].run \in 0 .. Len(runs) /\ Clocked(auditor[a]) /\ clock <= Limit.clock
  BY DEF IncidentInv, Run
<1> QED BY <1>1, <1>2, <1>3, <1>4

LEMMA IncidentRests ==
  ASSUME AuditInv, RecordInv, IncidentInv, NEW a \in Auditor,
         Starts(a) \/ AlreadyRunning(a) \/ StartRun(a) \/ FinalizeFails(a) \/ RunLeftRunning(a)
         \/ AuditCrash(a) \/ StoreFingerprints(a)
  PROVE  IncidentInv'
<1>0. /\ auditor[a] \in AuditorState /\ Types /\ clock \in Nat /\ clock <= clock /\ Limit.clock \in Nat /\ Len(runs) \in Nat
      /\ auditor[a].run \in 0 .. Len(runs) /\ Clocked(auditor[a]) /\ clock <= Limit.clock /\ auditor[a].at \in Nat
  BY Timely
<1>a. a \in deployed
  <2>1. auditor[a].pc # "down" \/ Boot(a)
    BY DEF Starts, ListRunning, MarkStale, AlreadyRunning, StartRun, FinalizeFails, RunLeftRunning,
           AuditCrash, StoreFingerprints, At, InStages
  <2> QED BY <2>1 DEF RecordInv, Boot
<1>b. DOMAIN runs' = DOMAIN runs /\ Len(runs') = Len(runs)
  <2>1. runs \in Seq(RunRow)
    BY <1>0 DEF Types
  <2>2. CASE runs' = runs
    BY <2>2
  <2>3. CASE StartRun(a)
    <3>1. PICK entry : runs' = [runs EXCEPT ![Run(a)] = entry]
      BY <2>3 DEF StartRun
    <3>2. DOMAIN runs' = DOMAIN runs
      BY <3>1
    <3>3. DOMAIN runs = 1 .. Len(runs) /\ runs' = [i \in 1 .. Len(runs) |-> runs'[i]]
      BY <1>0, <3>1, <3>2, RunsThere
    <3> QED BY <1>0, <3>2, <3>3
  <2>4. CASE MarkStale(a)
    <3>1. DOMAIN runs' = DOMAIN runs
      BY <2>4 DEF MarkStale, MarkInterrupted
    <3>2. runs' = [i \in DOMAIN runs |-> runs'[i]]
      BY <2>4 DEF MarkStale, MarkInterrupted
    <3>3. DOMAIN runs = 1 .. Len(runs)
      BY <1>0, RunsThere
    <3> QED BY <1>0, <3>1, <3>2, <3>3
  <2>5. MarkStale(a) \/ StartRun(a) \/ runs' = runs
    BY DEF Starts, Boot, ListRunning, AlreadyRunning, FinalizeFails, RunLeftRunning, AuditCrash, StoreFingerprints
  <2> QED BY <2>2, <2>3, <2>4, <2>5
<1>c. UNCHANGED <<deployed, incidents, rows, clock>>
  BY DEF Starts, Boot, ListRunning, MarkStale, AlreadyRunning, StartRun, FinalizeFails, RunLeftRunning, AuditCrash, StoreFingerprints
<1>1. \E s : /\ Becomes(a, s) /\ s.run \in 0 .. Len(runs) /\ Clocked(s)'
             /\ s.pc \in LiveLabel => Live(a) /\ s.run = Run(a) /\ s.at = auditor[a].at
  <2>1. CASE Boot(a)
    <3>1. PICK now \in clock + 1 .. Limit.clock + 1, pc \in {"list", "startup"} :
            Becomes(a, [auditor[a] EXCEPT !.at = now, !.pc = pc])
      BY <2>1 DEF Boot
    <3>2. PICK s : s = [auditor[a] EXCEPT !.at = now, !.pc = pc]
      OBVIOUS
    <3>3. s.pc = pc /\ s.run = auditor[a].run /\ s.at = now
      BY <1>0, <3>2 DEF AuditorState
    <3>4. now > clock
      BY <1>0
    <3>5. Clocked(s)'
      BY <1>c, <3>3, <3>4 DEF Clocked
    <3> QED BY <1>0, <3>1, <3>2, <3>3, <3>5
  <2>2. CASE ListRunning(a)
    <3>1. PICK listed : Becomes(a, [auditor[a] EXCEPT !.pc = "mark", !.listed = listed])
      BY <2>2 DEF ListRunning
    <3>2. PICK s : s = [auditor[a] EXCEPT !.pc = "mark", !.listed = listed]
      OBVIOUS
    <3>3. s.pc = "mark" /\ s.run = auditor[a].run /\ s.at = auditor[a].at /\ auditor[a].pc = "list"
      BY <1>0, <2>2, <3>2 DEF AuditorState, ListRunning, At
    <3>5. Clocked(s)'
      BY <1>0, <1>c, <3>3 DEF Clocked, Alone
    <3> QED BY <1>0, <3>1, <3>2, <3>3, <3>5
  <2>3. CASE MarkStale(a)
    <3>1. PICK prior : Becomes(a, [auditor[a] EXCEPT !.pc = "startup", !.listed = {}, !.prior = prior])
      BY <2>3 DEF MarkStale
    <3>2. PICK s : s = [auditor[a] EXCEPT !.pc = "startup", !.listed = {}, !.prior = prior]
      OBVIOUS
    <3>3. s.pc = "startup" /\ s.run = auditor[a].run /\ s.at = auditor[a].at /\ auditor[a].pc = "mark"
      BY <1>0, <2>3, <3>2 DEF AuditorState, MarkStale, At
    <3>5. Clocked(s)'
      BY <1>0, <1>c, <3>3 DEF Clocked, Alone
    <3> QED BY <1>0, <3>1, <3>2, <3>3, <3>5
  <2>4. CASE AlreadyRunning(a) \/ StoreFingerprints(a) \/ RunLeftRunning(a) \/ AuditCrash(a)
    <3>1. PICK s \in {Idle, Off} : Becomes(a, s)
      BY <2>4 DEF AlreadyRunning, StoreFingerprints, RunLeftRunning, AuditCrash
    <3>2. s.pc \in {"idle", "down"} /\ s.run = 0
      BY Resting DEF Idle, Off
    <3>3. Clocked(s)' /\ s.pc \notin LiveLabel
      BY <3>2 DEF Clocked
    <3>4. s.run \in 0 .. Len(runs)
      BY <1>0, <3>2
    <3> QED BY <3>1, <3>3, <3>4
  <2>5. CASE StartRun(a) \/ FinalizeFails(a)
    <3>1. PICK pc \in LiveLabel : Goes(a, pc)
      BY <2>5 DEF StartRun, FinalizeFails
    <3>2. PICK s : s = [auditor[a] EXCEPT !.pc = pc]
      OBVIOUS
    <3>3. Live(a) /\ auditor[a].pc \in LiveLabel
      BY <2>5 DEF StartRun, FinalizeFails, InStages, At, Live
    <3>4. s.pc = pc /\ s.run = auditor[a].run /\ s.at = auditor[a].at
      BY <1>0, <3>2 DEF AuditorState
    <3>5. Clocked(s)'
      BY <1>0, <1>c, <3>3, <3>4 DEF Clocked, Alone
    <3> QED BY <1>0, <3>1, <3>2, <3>3, <3>4, <3>5 DEF Goes, Run
  <2> QED BY <2>1, <2>2, <2>3, <2>4, <2>5 DEF Starts
<1> QED BY <1>0, <1>a, <1>b, <1>c, <1>1, RestsBesideIncidents

\* A trigger fires: with one instance nothing is as late.
LEMMA IncidentFires ==
  ASSUME AuditInv, RecordInv, IncidentInv, NEW a \in Auditor,
         RunOnStartup(a) \/ RunScheduledDaily(a) \/ RunOnVersionCheck(a)
  PROVE  IncidentInv'
<1>0. /\ auditor[a] \in AuditorState /\ Types /\ clock \in Nat /\ Limit.clock \in Nat /\ Len(runs) \in Nat
      /\ auditor[a].run \in 0 .. Len(runs) /\ Clocked(auditor[a]) /\ clock <= Limit.clock /\ auditor[a].at \in Nat
  BY Timely
<1>1. PICK now, plan : now \in Nat /\ Fires(a, now, plan) /\ (Alone => now > clock)
  <2>1. CASE RunOnStartup(a)
    <3>1. Fires(a, auditor[a].at, StartupChecks) /\ auditor[a].pc = "startup"
      BY <2>1 DEF RunOnStartup, At
    <3>2. Alone => auditor[a].at > clock
      BY <1>0, <3>1 DEF Clocked
    <3> QED BY <1>0, <3>1, <3>2
  <2>2. CASE RunScheduledDaily(a) \/ RunOnVersionCheck(a)
    <3>1. \E plan : Fires(a, clock + 1, plan)
      BY <2>2 DEF RunScheduledDaily, RunOnVersionCheck
    <3>2. clock + 1 \in Nat /\ clock + 1 > clock
      BY <1>0
    <3> QED BY <3>1, <3>2
  <2> QED BY <2>1, <2>2
<1>2. PICK s : s = [auditor[a] EXCEPT !.pc = "lock", !.at = now, !.seen = version, !.todo = plan]
  OBVIOUS
<1>3. s.pc = "lock" /\ s.run = auditor[a].run /\ s.at = now /\ Becomes(a, s)
  BY <1>0, <1>1, <1>2 DEF AuditorState, Fires
<1>4. now <= clock' /\ clock <= clock' /\ clock' <= Limit.clock /\ clock' \in Nat /\ (Alone => clock' = now)
  BY <1>0, <1>1 DEF Fires
<1>5. Alone => \A i \in incidents : i.first < clock'
  <2> SUFFICES ASSUME Alone, NEW i \in incidents PROVE i.first < clock'
    OBVIOUS
  <2>1. i.first \in Nat /\ i.first <= clock
    BY DEF IncidentInv, Dated, IncidentRow, IncidentFields
  <2> QED BY <1>0, <1>1, <1>4, <2>1
<1>6. Clocked(s)'
  <2>1. UNCHANGED <<incidents, deployed>>
    BY <1>1 DEF Fires
  <2> QED BY <1>3, <1>4, <1>5, <2>1 DEF Clocked, Alone
<1>7. a \in deployed
  BY DEF RunOnStartup, RunScheduledDaily, RunOnVersionCheck, At, RecordInv
<1>8. UNCHANGED <<deployed, incidents, rows, runs>>
  BY <1>1 DEF Fires
<1> QED BY <1>0, <1>3, <1>4, <1>6, <1>7, <1>8, RestsBesideIncidents

-----------------------------------------------------------------------------
\* A step that writes a row of the run an instance works on.
LEMMA IncidentWrite ==
  ASSUME AuditInv, RecordInv, IncidentInv, NEW a \in Auditor, Live(a), NEW s, Becomes(a, s),
         s.pc \in LiveLabel, s.run = Run(a), s.at = auditor[a].at, UNCHANGED <<deployed, clock, runs, incidents>>,
         NEW c \in Check, NEW entry, Write(a, c, entry),
         entry.status \in Failure => entry.at = auditor[a].at
  PROVE  IncidentInv'
<1>0. /\ Types /\ clock \in Nat /\ clock <= clock /\ Len(runs) \in Nat
      /\ auditor[a].run \in 0 .. Len(runs) /\ Clocked(auditor[a]) /\ clock <= Limit.clock
      /\ Run(a) \in DOMAIN runs /\ DOMAIN rows = DOMAIN runs /\ rows[Run(a)] \in RowsOfRun
  BY Timely, AtWork
<1>1. a \in deployed /\ auditor[a].pc \in LiveLabel /\ c # Final
  BY AuditAssumption DEF RecordInv, Live, Check
<1>2. /\ rows'[Run(a)] = [rows[Run(a)] EXCEPT ![c] = entry] /\ DOMAIN rows' = DOMAIN rows
      /\ \A r \in DOMAIN rows : r # Run(a) => rows'[r] = rows[r]
  BY <1>0 DEF Write
<1>3. DOMAIN rows[Run(a)] = Check \cup {Final} /\ Unended(auditor[a])
  BY <1>0 DEF RowsOfRun, IncidentInv
<1>4. \A d \in Check \cup {Final} : rows'[Run(a)][d] = IF d = c THEN entry ELSE rows[Run(a)][d]
  BY <1>2, <1>3
<1>5. Unended(s)'
  BY <1>1, <1>3, <1>4 DEF Unended, Run
<1>6. Clocked(s)'
  BY <1>0, <1>1 DEF Clocked, Alone
<1>7. Standing
  <2>1. PICK r : r = Run(a)
    OBVIOUS
  <2>2. ~Reconciles(r) /\ ~Reconciles(r)'
    BY <1>1, <1>3, <1>4, <2>1 DEF Reconciles, Unended, Run
  <2>3. \A q \in DOMAIN runs : q # r => rows'[q] = rows[q]
    BY <1>0, <1>2, <2>1
  <2>4. \A q \in DOMAIN runs : Reconciles(q)' <=> Reconciles(q)
    BY <2>2, <2>3 DEF Reconciles
  <2>5. EndedRuns' = EndedRuns
    BY <2>4 DEF EndedRuns
  <2>6. \A q \in EndedRuns : rows'[q] = rows[q]
    BY <2>2, <2>3 DEF EndedRuns
  <2> QED BY <2>5, <2>6 DEF Standing
<1>8. \A b \in Auditor : b # a /\ Live(b) => rows'[Run(b)] = rows[Run(b)]
  <2>1. \A b \in Auditor : b # a => ~Live(b)
    BY <1>0 DEF AuditInv, LiveRun
  <2> QED BY <2>1
<1> QED BY <1>0, <1>1, <1>5, <1>6, <1>7, <1>8, IncidentStep DEF Run

LEMMA IncidentWrites ==
  ASSUME AuditInv, RecordInv, IncidentInv, NEW a \in Auditor,
         ReusePass(a) \/ WritePending(a) \/ ListTargetsFails(a) \/ Evaluate(a)
  PROVE  IncidentInv'
<1>0. Live(a) /\ auditor[a].pc \in {"evaluate", "pending"}
  BY DEF ReusePass, WritePending, ListTargetsFails, Evaluate, Evaluating, At, Live
<1>1. /\ auditor[a] \in AuditorState /\ Accounted(a)
  BY <1>0, AtWork
<1>2. auditor[a].todo # <<>> /\ auditor[a].todo \in Seq(Check)
  BY <1>1 DEF ReusePass, WritePending, ListTargetsFails, Evaluate, Evaluating, At, Accounted, AuditorState
<1>3. PICK c \in Check : c = Next1(a)
  BY <1>2, NextAndRest DEF Next1
<1>4. UNCHANGED <<deployed, clock, runs, incidents>>
  BY DEF ReusePass, WritePending, ListTargetsFails, Evaluate
<1>5. \E s : Becomes(a, s) /\ s.pc \in LiveLabel /\ s.run = Run(a) /\ s.at = auditor[a].at
  <2>1. PICK t, u : /\ t = [auditor[a] EXCEPT !.pc = "evaluate", !.todo = Tail(auditor[a].todo)]
                    /\ u = [auditor[a] EXCEPT !.pc = "pending"]
    OBVIOUS
  <2>2. Becomes(a, t) \/ Becomes(a, u)
    BY <2>1 DEF ReusePass, WritePending, ListTargetsFails, Evaluate, Done, Goes
  <2>3. /\ t.pc = "evaluate" /\ t.run = auditor[a].run /\ t.at = auditor[a].at
        /\ u.pc = "pending" /\ u.run = auditor[a].run /\ u.at = auditor[a].at
    BY <1>1, <2>1 DEF AuditorState
  <2> QED BY <2>2, <2>3 DEF Run
<1>6. \E entry : Write(a, c, entry) /\ (entry.status \in Failure => entry.at = auditor[a].at)
  <2>1. CASE ReusePass(a)
    <3>1. PICK entry : entry = [at |-> auditor[a].prior[c], status |-> "pass"]
      OBVIOUS
    <3>2. entry.status \notin Failure
      BY <3>1 DEF Class, Failure
    <3> QED BY <1>3, <2>1, <3>1, <3>2 DEF ReusePass
  <2>2. CASE WritePending(a)
    <3>1. PICK entry : entry = [at |-> 0, status |-> "pending"]
      OBVIOUS
    <3>2. entry.status \notin Failure
      BY <3>1 DEF Class, Failure
    <3> QED BY <1>3, <2>2, <3>1, <3>2 DEF WritePending
  <2>3. CASE Evaluate(a)
    BY <1>3, <2>3 DEF Evaluate
  <2>4. CASE ListTargetsFails(a)
    BY <1>3, <2>4 DEF ListTargetsFails
  <2> QED BY <2>1, <2>2, <2>3, <2>4
<1> QED BY <1>0, <1>4, <1>5, <1>6, IncidentWrite

\* A run begins: nothing is written of it yet.
LEMMA IncidentBegins == ASSUME AuditInv, RecordInv, IncidentInv, NEW a \in Auditor, AcquireLock(a) PROVE IncidentInv'
<1>0. /\ auditor[a] \in AuditorState /\ Types /\ clock \in Nat /\ clock <= clock /\ Len(runs) \in Nat
      /\ Clocked(auditor[a]) /\ clock <= Limit.clock /\ auditor[a].pc = "lock"
      /\ DOMAIN runs = 1 .. Len(runs) /\ DOMAIN rows = DOMAIN runs /\ Len(rows) = Len(runs)
  BY Timely, RunsThere DEF AcquireLock, At, Types
<1>1. a \in deployed /\ UNCHANGED <<deployed, clock, incidents>>
  BY <1>0 DEF RecordInv, AcquireLock
<1>2. PICK n : n = Len(runs) + 1
  OBVIOUS
<1>3. PICK s : s = [auditor[a] EXCEPT !.pc = "start", !.run = n]
  OBVIOUS
<1>4. s.pc = "start" /\ s.run = n /\ s.at = auditor[a].at /\ Becomes(a, s)
  BY <1>0, <1>2, <1>3 DEF AuditorState, AcquireLock
<1>5. Len(runs') = n /\ DOMAIN runs' = 1 .. n /\ n \in Nat /\ Len(runs) <= n /\ n \in 0 .. n
  <2>1. PICK entry : runs' = Append(runs, entry)
    BY DEF AcquireLock
  <2>2. runs \in Seq(RunRow)
    BY <1>0 DEF Types
  <2>3. Len(runs') = n /\ DOMAIN runs' = 1 .. n
    BY <1>2, <2>1, <2>2
  <2> QED BY <1>0, <1>2, <2>3
<1>6. (\A r \in DOMAIN runs : rows'[r] = rows[r]) /\ \A c \in Check \cup {Final} : rows'[n][c].status = "none"
  <2>1. PICK bare : bare = [c \in Check \cup {Final} |-> Bare]
    OBVIOUS
  <2>2. rows' = Append(rows, bare) /\ rows \in Seq(RowsOfRun)
    BY <1>0, <2>1 DEF AcquireLock, Types
  <2>3. rows'[n] = bare /\ \A r \in DOMAIN runs : rows'[r] = rows[r]
    BY <1>0, <1>2, <2>2
  <2>4. \A c \in Check \cup {Final} : bare[c].status = "none"
    BY <2>1 DEF Bare
  <2> QED BY <2>3, <2>4
<1>7. Unended(s)'
  BY <1>4, <1>6 DEF Unended, Class, Failure
<1>8. Clocked(s)'
  BY <1>0, <1>1, <1>4 DEF Clocked, Alone
<1>9. Standing
  <2>1. ~Reconciles(n)'
    BY <1>6 DEF Reconciles
  <2>2. \A r \in DOMAIN runs : r \in DOMAIN runs' /\ (Reconciles(r)' <=> Reconciles(r))
    <3>1. \A r \in 1 .. Len(runs) : r \in 1 .. n
      BY <1>0, <1>2
    <3> QED BY <1>0, <1>5, <1>6, <3>1 DEF Reconciles
  <2>3. \A r \in DOMAIN runs' : r = n \/ r \in DOMAIN runs
    BY <1>0, <1>2, <1>5
  <2>4. EndedRuns' = EndedRuns
    BY <2>1, <2>2, <2>3 DEF EndedRuns
  <2>5. \A r \in EndedRuns : rows'[r] = rows[r]
    BY <1>6 DEF EndedRuns
  <2> QED BY <2>4, <2>5 DEF Standing
<1>10. \A b \in Auditor : b # a /\ Live(b) => rows'[Run(b)] = rows[Run(b)]
  <2>1. \A b \in Auditor : ~Live(b)
    BY AuditAssumption DEF AuditInv, LiveRun, AcquireLock, LockFree
  <2> QED BY <2>1
<1> QED BY <1>0, <1>1, <1>4, <1>5, <1>7, <1>8, <1>9, <1>10, IncidentStep

-----------------------------------------------------------------------------
\* A run ends: its incidents follow from its rows, and it is now the newest run
\* of every check it has an outcome of.
LEMMA IncidentEnds ==
  ASSUME AuditInv, RecordInv, IncidentInv, NEW a \in Auditor, Live(a), NEW s, Becomes(a, s),
         s.pc \in {"idle", "store"}, s.run = 0, UNCHANGED <<deployed, clock>>, DOMAIN runs' = DOMAIN runs, Len(runs') = Len(runs),
         NEW seen \in RowsOfRun, \A c \in Check : seen[c] = rows[Run(a)][c],
         seen[Final].status \in {"none", "red"}, seen[Final].status = "red" => seen[Final].at = auditor[a].at,
         Reconciled(Run(a), seen).ok, incidents' = Reconciled(Run(a), seen).inc,
         NEW end, end.status # "none", seen[Final].status = "red" => end.status = "red",
         rows' = [rows EXCEPT ![Run(a)] = [rows[Run(a)] EXCEPT ![Final] = end]]
  PROVE  IncidentInv'
<1>r. PICK r : r = Run(a)
  OBVIOUS
<1>0. /\ Types /\ clock \in Nat /\ clock <= Limit.clock /\ Len(runs) \in Nat /\ auditor[a].at \in Nat
      /\ Clocked(auditor[a]) /\ auditor[a].pc \in LiveLabel /\ Unended(auditor[a])
      /\ DOMAIN runs = 1 .. Len(runs) /\ DOMAIN rows = DOMAIN runs /\ r = Len(runs) /\ r \in DOMAIN runs
      /\ rows[r] \in RowsOfRun /\ r \in Nat
  <2>1. Unended(auditor[a])
    BY DEF IncidentInv
  <2>2. DOMAIN runs = 1 .. Len(runs) /\ Len(runs) \in Nat
    BY Timely, RunsThere
  <2>3. LiveRun(a) /\ auditor[a].pc \in LiveLabel /\ DOMAIN rows = DOMAIN runs /\ r \in DOMAIN runs /\ rows[r] \in RowsOfRun
    BY <1>r, AtWork
  <2> QED BY <1>r, <2>1, <2>2, <2>3, Timely DEF LiveRun
<1>1. /\ incidents \subseteq IncidentRow /\ (\A i \in incidents : Dated(i))
      /\ DOMAIN seen = Check \cup {Final} /\ \A c \in Check \cup {Final} : seen[c] \in CheckRow
  BY DEF IncidentInv, RowsOfRun
<1>2. ASSUME NEW c \in Check \cup {Final}, seen[c].status \in Failure PROVE seen[c].at = auditor[a].at
  <2>1. CASE c = Final
    BY <1>2, <2>1 DEF Class, Failure
  <2>2. CASE c # Final
    BY <1>r, <1>0, <1>2, <2>2 DEF Unended, Run
  <2> QED BY <2>1, <2>2
<1>3. ASSUME NEW c \in Check \cup {Final}, seen[c].status = "pass", NEW i \in Closing(On(c), c)
      PROVE  Recovers(i, r, seen[c].at)
  <2>1. c \in Passed(seen)
    BY <1>1, <1>3 DEF Passed
  <2> QED BY <1>r, <1>3, <2>1 DEF Reconciled
<1>4. incidents' = EngineFollows(r, seen) \cup UNION {Follows(r, c, seen[c]) : c \in Check \cup {Final}}
  BY <1>r, <1>1 DEF Reconciled
<1>5. ASSUME NEW c \in Check \cup {Final}
      PROVE  /\ Kept(c, Follows(r, c, seen[c]), r, c, seen[c].status)
             /\ Alone => /\ OneOpen(Follows(r, c, seen[c]))
                         /\ seen[c].status \in Class => \E i \in Follows(r, c, seen[c]) : Open(i)
                         /\ seen[c].status = "pass" => \A i \in Follows(r, c, seen[c]) : ~Open(i)
  <2>1. PICK outcome \in CheckRow : outcome = seen[c]
    BY <1>1
  <2>2. outcome.status \in Class => outcome.at <= clock
    BY <1>0, <1>2, <2>1 DEF Clocked, Failure
  <2>3. outcome.status = "pass" => \A i \in Closing(On(c), c) : Recovers(i, r, outcome.at)
    BY <1>3, <2>1
  <2>4. Alone => OneOpen(incidents) /\ (outcome.status \in Class => \A i \in incidents : i.first < outcome.at)
    BY <1>0, <1>2, <2>1 DEF IncidentInv, Clocked, Failure
  <2>5. /\ Kept(c, Follows(r, c, outcome), r, c, outcome.status)
        /\ OneOpen(incidents) /\ (outcome.status \in Class => \A i \in incidents : i.first < outcome.at) =>
             Tells(outcome.status, Follows(r, c, outcome))
    BY <1>0, <1>1, <2>2, <2>3, FollowsIs
  <2> QED BY <2>1, <2>4, <2>5 DEF Tells
<1>a. PICK new, last, none : new = EngineFollows(r, seen) /\ last = LastOf(none) /\ none = Unlisted(seen)
  OBVIOUS
<1>b. /\ none = {} => new = On(Engine)
      /\ none # {} => /\ last \in none /\ Kept(Engine, new, r, last, "red")
                      /\ \E x \in new : new = {x} /\ EngineRow(x) /\ Refs(x, r, last, "red")
  <2>1. \A c \in Unlisted(seen) : seen[c].at <= clock
    BY <1>0, <1>2 DEF Unlisted, Failure, Clocked
  <2>2. Single(incidents)
    BY DEF IncidentInv
  <2> QED BY <1>0, <1>1, <1>a, <2>1, <2>2, EngineIs
<1>c. Kept(Engine, new, r, last, "red")
  <2>1. CASE none # {}
    BY <1>b, <2>1
  <2>2. CASE none = {}
    BY <1>1, <1>b, <2>2 DEF Kept, On, AsBefore, Same, Refs
  <2> QED BY <2>1, <2>2
<1>6. /\ \A i : i \in incidents' /\ i.target = Engine <=> i \in new
      /\ \A c \in Check \cup {Final} : \A i : i \in incidents' /\ i.target = c <=> i \in Follows(r, c, seen[c])
  <2>1. \A c \in Check \cup {Final} : c # Engine
    BY AuditAssumption DEF Check, Final, Engine
  <2>2. \A c \in Check \cup {Final} : \A i \in Follows(r, c, seen[c]) : i.target = c
    BY <1>5 DEF Kept
  <2>3. \A i \in new : i.target = Engine
    BY <1>c DEF Kept
  <2> QED BY <1>4, <1>a, <2>1, <2>2, <2>3
<1>7. incidents' \subseteq IncidentRow /\ \A i \in incidents' : Dated(i)'
  <2>1. \A i \in incidents' : i \in IncidentRow /\ Dated(i)
    BY <1>4, <1>5, <1>a, <1>c DEF Kept
  <2> QED BY <2>1 DEF Dated
<1>d. Single(incidents')
  <2>1. \A i, j \in new : EngineRow(i) /\ i = j
    <3>1. CASE none # {}
      BY <1>b, <3>1
    <3>2. CASE none = {}
      BY <1>b, <3>2 DEF IncidentInv, Single, On
    <3> QED BY <3>1, <3>2
  <2> QED BY <1>6, <2>1 DEF Single
<1>8. Alone => OneOpen(incidents')
  <2> SUFFICES ASSUME Alone, NEW i \in incidents', NEW j \in incidents', i.target = j.target, i.class = j.class, i # j
               PROVE  i.first # j.first /\ (i.resolved = 0 => j.first < i.first)
    BY DEF OneOpen
  <2>0. i.target # Engine
    BY <1>d DEF Single
  <2>1. PICK c \in Check \cup {Final} : i.target = c
    BY <1>7, <2>0 DEF IncidentRow, IncidentFields, Target
  <2>2. i \in Follows(r, c, seen[c]) /\ j \in Follows(r, c, seen[c])
    BY <1>6, <2>1
  <2> QED BY <1>5, <2>2 DEF OneOpen
<1>9. /\ rows'[r] = [rows[r] EXCEPT ![Final] = end] /\ DOMAIN rows' = DOMAIN rows
      /\ \A q \in DOMAIN rows : q # r => rows'[q] = rows[q]
  BY <1>r, <1>0
<1>10. rows'[r][Final] = end /\ \A c \in Check : rows'[r][c] = seen[c]
  <2>1. DOMAIN rows[r] = Check \cup {Final} /\ \A c \in Check : c # Final
    BY <1>0, AuditAssumption DEF RowsOfRun, Check
  <2> QED BY <1>r, <1>9, <2>1
<1>e. ~Reconciles(r) /\ Reconciles(r)' /\ \A q \in DOMAIN runs : q # r => (Reconciles(q)' <=> Reconciles(q)) /\ rows'[q] = rows[q]
  <2>1. rows[r][Final].status = "none"
    BY <1>r, <1>0 DEF Unended, Run
  <2>2. rows'[r][Final].status # "none"
    BY <1>10
  <2> QED BY <1>0, <1>9, <2>1, <2>2 DEF Reconciles
<1>f. \A i \in incidents' : Refers(i)'
  <2>1. \A c \in Check \cup {Final} : seen[c].status \in Class => rows'[r][c].status = seen[c].status
    BY <1>10 DEF Class
  <2>2. ASSUME NEW x, AsBefore(x) PROVE Refers(x)'
    <3>1. PICK i \in incidents : i.ref = x.ref /\ i.check = x.check /\ i.class = x.class /\ i.target = x.target
      BY <2>2 DEF AsBefore, Same, Refs
    <3>2. Refers(i)
      BY DEF IncidentInv
    <3>3. PICK q : q = i.ref
      OBVIOUS
    <3>4. q \in DOMAIN runs /\ Reconciles(q) /\ q # r
      BY <1>e, <3>2, <3>3 DEF Refers, EndedRuns
    <3>5. q \in DOMAIN runs' /\ Reconciles(q)' /\ rows'[q] = rows[q]
      BY <1>e, <3>4
    <3> QED BY <3>1, <3>2, <3>3, <3>5 DEF Refers, EndedRuns, Failed
  <2>3. r \in EndedRuns'
    BY <1>0, <1>e DEF EndedRuns
  <2>4. ASSUME NEW c \in Check \cup {Final}, NEW x \in Follows(r, c, seen[c]) PROVE Refers(x)'
    <3>1. x.target = c /\ (AsBefore(x) \/ (seen[c].status \in Class /\ Refs(x, r, c, seen[c].status)))
      BY <1>5 DEF Kept
    <3>2. CASE seen[c].status \in Class /\ Refs(x, r, c, seen[c].status)
      <4>1. c # Engine
        BY AuditAssumption DEF Check, Final, Engine
      <4>2. x.ref = r /\ x.check = c /\ x.class = seen[c].status /\ x.target = c
        BY <3>1, <3>2 DEF Refs
      <4> QED BY <2>1, <2>3, <3>2, <4>1, <4>2 DEF Refers, Failed
    <3> QED BY <2>2, <3>1, <3>2
  <2>5. ASSUME NEW x \in new PROVE Refers(x)'
    <3>1. CASE none = {}
      <4>1. AsBefore(x)
        BY <1>b, <2>5, <3>1 DEF On, AsBefore, Same, Refs
      <4> QED BY <2>2, <4>1
    <3>2. CASE none # {}
      <4>1. x.ref = r /\ x.check = last /\ last \in none /\ x.target = Engine
        BY <1>b, <1>c, <2>5, <3>2 DEF Refs, Kept
      <4>2. last \in Check /\ seen[last].status = "unlisted"
        BY <1>a, <4>1 DEF Unlisted
      <4>3. rows'[r][last].status = "unlisted"
        BY <1>10, <4>2
      <4> QED BY <2>3, <4>1, <4>3 DEF Refers, Failed
    <3> QED BY <3>1, <3>2
  <2> QED BY <1>4, <1>a, <2>4, <2>5
<1>g. ToldOfEngine'
  <2>1. Unlisted(rows'[r]) = none
    BY <1>10, <1>a DEF Unlisted
  <2> SUFFICES ASSUME NEW q \in EndedUnlisted', \A p \in EndedUnlisted' : p <= q PROVE Names(q)'
    BY DEF ToldOfEngine
  <2>2. q \in DOMAIN runs /\ Reconciles(q)' /\ Unlisted(rows'[q]) # {}
    BY DEF EndedUnlisted
  <2>3. CASE none # {}
    <3>1. r \in EndedUnlisted'
      BY <1>0, <1>e, <2>1, <2>3 DEF EndedUnlisted
    <3>2. q = r
      BY <1>0, <2>2, <3>1
    <3>3. PICK x \in new : EngineRow(x) /\ Refs(x, r, last, "red")
      BY <1>b, <2>3
    <3>4. x \in OpenFor(Engine)'
      BY <1>6, <3>3 DEF OpenFor, EngineRow
    <3> QED BY <1>a, <2>1, <3>2, <3>3, <3>4 DEF Names, Refs
  <2>4. CASE none = {}
    <3>1. q # r
      BY <2>1, <2>2, <2>4
    <3>2. q \in EndedUnlisted /\ rows'[q] = rows[q]
      BY <1>e, <2>2, <3>1 DEF EndedUnlisted
    <3>3. \A p \in EndedUnlisted : p \in EndedUnlisted'
      <4>1. \A p \in EndedUnlisted : p # r /\ p \in DOMAIN runs
        BY <1>e DEF EndedUnlisted
      <4>2. \A p \in EndedUnlisted : p \in DOMAIN runs' /\ Reconciles(p)' /\ rows'[p] = rows[p]
        BY <1>e, <4>1 DEF EndedUnlisted
      <4>3. \A p \in EndedUnlisted : Unlisted(rows'[p]) # {}
        BY <4>2 DEF EndedUnlisted
      <4> QED BY <4>2, <4>3 DEF EndedUnlisted
    <3>4. Names(q)
      BY <3>2, <3>3 DEF IncidentInv, ToldOfEngine
    <3>5. \A i \in OpenFor(Engine) : i \in OpenFor(Engine)'
      BY <1>6, <1>b, <2>4 DEF OpenFor, On
    <3> QED BY <3>2, <3>4, <3>5 DEF Names
  <2> QED BY <2>3, <2>4
<1>11. ASSUME Alone, NEW c \in Check PROVE ToldBy(c)'
  <2>1. \A q \in DOMAIN runs : q # r => (q \in Ended(c)' <=> q \in Ended(c))
    BY <1>e DEF Ended, Found
  <2>2. Ended(c) \subseteq DOMAIN runs /\ Ended(c)' \subseteq DOMAIN runs
    BY DEF Ended
  <2>3. r \notin Ended(c) /\ (r \in Ended(c)' <=> seen[c].status \in Class \cup {"pass"})
    BY <1>0, <1>10, <1>e DEF Ended, Found
  <2>4. \A i : i \in OpenFor(c)' <=> i \in Follows(r, c, seen[c]) /\ Open(i)
    BY <1>6 DEF OpenFor, Open
  <2>5. CASE seen[c].status \in Class \cup {"pass"}
    <3>1. ASSUME NEW q \in Ended(c)', \A p \in Ended(c)' : p <= q PROVE q = r
      <4>1. q \in 1 .. Len(runs) /\ r <= q
        BY <1>0, <2>2, <2>3, <2>5, <3>1
      <4> QED BY <1>0, <4>1
    <3>2. (rows'[r][c].status = "pass") <=> OpenFor(c)' = {}
      <4>1. CASE seen[c].status = "pass"
        <5>1. OpenFor(c)' = {}
          BY <1>5, <1>11, <2>4, <4>1
        <5> QED BY <1>10, <4>1, <5>1
      <4>2. CASE seen[c].status \in Class
        <5>1. OpenFor(c)' # {}
          BY <1>5, <1>11, <2>4, <4>2
        <5> QED BY <1>10, <4>2, <5>1 DEF Class
      <4> QED BY <2>5, <4>1, <4>2
    <3> QED BY <3>1, <3>2 DEF ToldBy
  <2>6. CASE seen[c].status \notin Class \cup {"pass"}
    <3>0. PICK was, are : was = Ended(c) /\ are = Ended(c)'
      OBVIOUS
    <3>a. \A q : q \in are <=> q \in was
      BY <2>1, <2>2, <2>3, <2>6, <3>0
    <3>1. Ended(c)' = Ended(c) /\ \A q \in Ended(c) : rows'[q] = rows[q]
      BY <1>0, <1>9, <2>2, <2>3, <3>0, <3>a
    <3>2. OpenFor(c)' = OpenFor(c)
      <4>1. Follows(r, c, seen[c]) = On(c)
        BY <2>6 DEF Follows
      <4> QED BY <2>4, <4>1 DEF On, OpenFor, Open
    <3>3. \A q \in was : (\A p \in was : p <= q) => ((rows[q][c].status = "pass") <=> OpenFor(c) = {})
      BY <1>11, <3>0 DEF IncidentInv, ToldBy
    <3>4. \A q \in was : (\A p \in was : p <= q) => ((rows'[q][c].status = "pass") <=> OpenFor(c)' = {})
      BY <3>0, <3>1, <3>2, <3>3
    <3> QED BY <3>0, <3>1, <3>4 DEF ToldBy
  <2> QED BY <2>5, <2>6
<1>12. ASSUME NEW b \in Auditor PROVE Run(b)' \in 0 .. Len(runs') /\ Clocked(auditor[b])' /\ ~Live(b)'
  <2>0. \A d \in Auditor : auditor'[d] = IF d = a THEN s ELSE auditor[d]
    BY <1>0 DEF Types, Becomes
  <2>1. CASE b = a
    <3>1. auditor'[b] = s
      BY <2>0, <2>1
    <3> QED BY <1>0, <3>1 DEF Run, Clocked, Live
  <2>2. CASE b # a
    <3>1. ~Live(b) /\ auditor'[b] = auditor[b]
      BY <1>0, <2>0, <2>2, AtWork DEF AuditInv, LiveRun
    <3>2. Alone => auditor[b].pc = "down"
      BY <1>0, <2>2, OnlyOne DEF RecordInv
    <3>3. Clocked(auditor[b]) /\ Run(b) \in 0 .. Len(runs)
      BY DEF IncidentInv
    <3> QED BY <3>1, <3>2, <3>3 DEF Run, Clocked, Live, Alone
  <2> QED BY <2>1, <2>2
<1>13. Alone' = Alone /\ Limit' = Limit
  BY DEF Alone, Limit
<1> QED BY <1>0, <1>7, <1>8, <1>d, <1>f, <1>g, <1>11, <1>12, <1>13 DEF IncidentInv

LEMMA IncidentFinishes ==
  ASSUME AuditInv, RecordInv, IncidentInv, NEW a \in Auditor,
         Cancel(a) \/ StageFails(a) \/ Complete(a) \/ FinalizeFailure(a)
  PROVE  IncidentInv'
<1>0. Live(a) /\ auditor[a].pc \in LiveLabel
  BY DEF Cancel, StageFails, InStages, Complete, FinalizeFailure, At, Live
<1>1. /\ Run(a) \in DOMAIN runs /\ rows[Run(a)] \in RowsOfRun /\ Unended(auditor[a]) /\ Types
      /\ auditor[a].at \in Nat /\ \A c \in Check : c # Final
  BY <1>0, AtWork, Timely, AuditAssumption DEF IncidentInv, Check
<1>2. \A entry : runs' = [runs EXCEPT ![Run(a)] = entry] => DOMAIN runs' = DOMAIN runs /\ Len(runs') = Len(runs)
  <2> TAKE entry
  <2> HAVE runs' = [runs EXCEPT ![Run(a)] = entry]
  <2>1. DOMAIN runs' = DOMAIN runs
    OBVIOUS
  <2>2. DOMAIN runs = 1 .. Len(runs) /\ Len(runs) \in Nat
    BY <1>1, RunsThere
  <2>3. runs' = [i \in 1 .. Len(runs) |-> runs'[i]]
    BY <2>2
  <2> QED BY <2>1, <2>2, <2>3
<1>3. ASSUME NEW state, NEW reason, Finalize(a, state, reason) PROVE IncidentInv'
  <2>1. PICK s : Becomes(a, s) /\ s.pc \in {"idle", "store"} /\ s.run = 0
    <3>1. PICK stored : stored = [Idle EXCEPT !.pc = "store", !.seen = auditor[a].seen]
      OBVIOUS
    <3>2. stored.pc = "store" /\ stored.run = 0 /\ Idle.pc = "idle" /\ Idle.run = 0
      BY <3>1 DEF Idle, Off
    <3>3. Becomes(a, stored) \/ Becomes(a, Idle)
      BY <1>3, <3>1 DEF Finalize
    <3> QED BY <3>2, <3>3
  <2>2. PICK seen \in RowsOfRun : seen = rows[Run(a)]
    BY <1>1
  <2>3. seen[Final].status = "none" /\ \A c \in Check : seen[c] = rows[Run(a)][c]
    BY <1>1, <2>2 DEF Unended, Run
  <2>4. Reconciled(Run(a), seen).ok /\ incidents' = Reconciled(Run(a), seen).inc
    BY <1>3, <2>2 DEF Finalize
  <2>5. PICK end : end = [at |-> auditor[a].at, status |-> "pass"]
    OBVIOUS
  <2>6. end.status # "none" /\ rows' = [rows EXCEPT ![Run(a)] = [rows[Run(a)] EXCEPT ![Final] = end]]
    BY <1>3, <2>5 DEF Finalize, Write
  <2>7. UNCHANGED <<deployed, clock>> /\ DOMAIN runs' = DOMAIN runs /\ Len(runs') = Len(runs)
    BY <1>2, <1>3 DEF Finalize
  <2> QED BY <1>0, <2>1, <2>3, <2>4, <2>6, <2>7, IncidentEnds
<1>4. CASE FinalizeFailure(a)
  <2>1. Becomes(a, Idle) /\ Idle.pc \in {"idle", "store"} /\ Idle.run = 0
    BY <1>4 DEF FinalizeFailure, Idle, Off
  <2>2. PICK seen : seen = FinalFailure(a)
    OBVIOUS
  <2>5. PICK end : end = [at |-> auditor[a].at, status |-> "red"]
    OBVIOUS
  <2>a. end.at = auditor[a].at /\ end.status = "red" /\ end \in CheckRow
    BY <1>1, <2>5 DEF CheckRow, Status, Failure, Class
  <2>b. seen = [rows[Run(a)] EXCEPT ![Final] = end]
    BY <2>2, <2>5 DEF FinalFailure
  <2>c. seen \in RowsOfRun
    BY <1>1, <2>a, <2>b DEF RowsOfRun
  <2>3. seen[Final] = end /\ \A c \in Check : seen[c] = rows[Run(a)][c]
    BY <1>1, <2>b DEF RowsOfRun
  <2>4. Reconciled(Run(a), seen).ok /\ incidents' = Reconciled(Run(a), seen).inc
    BY <1>4, <2>2 DEF FinalizeFailure
  <2>6. rows' = [rows EXCEPT ![Run(a)] = [rows[Run(a)] EXCEPT ![Final] = end]]
    BY <1>4, <2>2, <2>b DEF FinalizeFailure
  <2>d. \E entry : runs' = [runs EXCEPT ![Run(a)] = entry]
    BY <1>4 DEF FinalizeFailure
  <2>7. UNCHANGED <<deployed, clock>> /\ DOMAIN runs' = DOMAIN runs /\ Len(runs') = Len(runs)
    BY <1>2, <1>4, <2>d DEF FinalizeFailure
  <2> QED BY <1>0, <2>1, <2>a, <2>c, <2>3, <2>4, <2>6, <2>7, IncidentEnds
<1> QED BY <1>3, <1>4 DEF Cancel, StageFails, Complete

LEMMA IncidentInvStep == AuditInv /\ RecordInv /\ IncidentInv /\ [AuditNext]_auditVars => IncidentInv'
<1> SUFFICES ASSUME AuditInv, RecordInv, IncidentInv, [AuditNext]_auditVars PROVE IncidentInv'
  OBVIOUS
<1>1. CASE UNCHANGED auditVars \/ Upgrade
  <2>1. UNCHANGED <<deployed, clock, runs, rows, incidents, auditor>>
    BY <1>1 DEF auditVars, Upgrade
  <2>2. Limit' = Limit /\ Alone' = Alone /\ Standing /\ \A c \in Check : OpenFor(c)' = OpenFor(c)
    BY <2>1, SameRowsStand DEF Limit, Alone, OpenFor
  <2>3. \A c \in Check : ToldBy(c) => ToldBy(c)'
    BY <2>1, <2>2, StillTold DEF ToldBy
  <2>4. \A i : Dated(i) /\ Refers(i) => Dated(i)' /\ Refers(i)'
    BY <2>1, <2>2, StillTold DEF Dated
  <2>6. ToldOfEngine => ToldOfEngine'
    <3>1. OpenFor(Engine)' = OpenFor(Engine) /\ \A r : Names(r) => Names(r)'
      BY <2>1 DEF OpenFor, Names
    <3> QED BY <2>2, <3>1, StillTold DEF ToldOfEngine
  <2>5. ASSUME NEW a \in Auditor
        PROVE  Run(a)' \in 0 .. Len(runs') /\ Clocked(auditor[a])' /\ (Live(a)' => Unended(auditor[a])')
    BY <2>1, <2>2 DEF IncidentInv, Run, Clocked, Live, Unended
  <2> QED BY <2>1, <2>2, <2>3, <2>4, <2>5, <2>6 DEF IncidentInv
<1>2. ASSUME NEW a \in Auditor, Starts(a) \/ Works(a) \/ Ends(a) \/ AuditCrash(a) PROVE IncidentInv'
  BY <1>2, IncidentRests, IncidentFires, IncidentWrites, IncidentBegins, IncidentFinishes DEF Works, Ends
<1> QED BY <1>1, <1>2 DEF AuditNext

LEMMA IncidentInvariant == AuditSpec => [](AuditInv /\ RecordInv /\ IncidentInv)
<1>1. AuditInit => AuditInv /\ RecordInv /\ IncidentInv
  BY InitInv, RecordInit, IncidentInit
<1>2. AuditInv /\ RecordInv /\ IncidentInv /\ [AuditNext]_auditVars => (AuditInv /\ RecordInv /\ IncidentInv)'
  BY InvStep, RecordInvStep, IncidentInvStep
<1> QED BY <1>1, <1>2, PTL DEF AuditSpec

LEMMA RecordFacts == AuditInv /\ RecordInv /\ IncidentInv => RecordsAgree /\ AuditTypeOK
<1> SUFFICES ASSUME AuditInv, RecordInv, IncidentInv PROVE RecordsAgree /\ AuditTypeOK
  OBVIOUS
<1>0. Types /\ DOMAIN runs = 1 .. Len(runs) /\ Len(runs) \in Nat
  BY RunsThere DEF AuditInv
<1>1. IncidentsAreIntervals
  BY DEF IncidentInv, IncidentsAreIntervals, Dated, OneOpen
<1>2. ASSUME Alone, NEW c \in Check, Ended(c) # {}
      PROVE  (rows[Newest(Ended(c))][c].status = "pass") <=> (OpenFor(c) = {})
  <2>1. \E r \in Ended(c) : \A q \in Ended(c) : q <= r
    <3>1. Ended(c) \subseteq 0 .. Len(runs)
      BY <1>0 DEF Ended
    <3> QED BY <1>0, <1>2, <3>1, Greatest
  <2>2. PICK r : r = Newest(Ended(c))
    OBVIOUS
  <2>3. r \in Ended(c) /\ \A q \in Ended(c) : q <= r
    BY <2>1, <2>2 DEF Newest
  <2>4. ToldBy(c)
    BY <1>2 DEF IncidentInv
  <2> QED BY <2>2, <2>3, <2>4 DEF ToldBy
<1>5. ASSUME EndedUnlisted # {} PROVE Names(Newest(EndedUnlisted))
  <2>1. \E r \in EndedUnlisted : \A q \in EndedUnlisted : q <= r
    <3>1. EndedUnlisted \subseteq 0 .. Len(runs)
      BY <1>0 DEF EndedUnlisted
    <3> QED BY <1>0, <1>5, <3>1, Greatest
  <2>2. PICK r : r = Newest(EndedUnlisted)
    OBVIOUS
  <2>3. r \in EndedUnlisted /\ \A q \in EndedUnlisted : q <= r
    BY <2>1, <2>2 DEF Newest
  <2> QED BY <2>2, <2>3 DEF IncidentInv, ToldOfEngine
<1>6. IncidentsFollowEvidence
  <2>1. ChecksFollowed
    BY <1>2 DEF ChecksFollowed
  <2>2. EngineFollowed
    BY <1>5 DEF EngineFollowed, Names
  <2>3. \A i \in incidents : Failed(i)
    BY DEF IncidentInv, Refers
  <2> QED BY <2>1, <2>2, <2>3 DEF IncidentsFollowEvidence
<1>3. ReportAgrees /\ BaselineWasRun
  BY DEF RecordInv, RowAgrees, ReportAgrees
<1>4. AuditTypeOK
  <2>1. clock \in 0 .. Limit.clock /\ holder \in Auditor \cup {Free} /\ Len(runs) = Len(rows)
    BY <1>0, Limits DEF Types, IncidentInv
  <2>2. \A r \in DOMAIN runs : runs[r] \in RunRow
    BY <1>0 DEF Types
  <2>3. \A i \in incidents : i.target \in Check \cup {Final, Engine} /\ i.class \in Class
    BY DEF IncidentInv, IncidentRow, IncidentFields, Target
  <2> QED BY <2>1, <2>2, <2>3 DEF AuditTypeOK, RunRow, RunState, IncidentInv
<1> QED BY <1>1, <1>3, <1>4, <1>6 DEF RecordsAgree

\* With one instance the incidents say what the newest evidence of a check says and are
\* intervals that do not overlap, a signed report says what its run's row says, and the
\* baseline is one a passed run started from.
LEMMA RecordsStayTrue == AuditSpec => [](RecordsAgree /\ AuditTypeOK)
BY IncidentInvariant, RecordFacts, PTL

HIDE AuditAssumption
HIDE DEF LiveLabel, OtherLabel

-----------------------------------------------------------------------------
(* The synthetic probe and the live canary.                                *)

ProbeSpec == ProbeInit /\ [][ProbeNext]_probeVars
CanarySpec == CanaryInit /\ [][CanaryNext]_canaryVars

USE ProbeAssumption

FactOf == (1 .. MaxProbe) \X Range(Lanes)
RowOf == [by : {"nobody", "probe", "job", "late"}, of : SUBSET FactOf]
VerdictRow == [passed : BOOLEAN, crashed : BOOLEAN, found : SUBSET Range(Lanes), answer : RowOf]
ProbeAt == {"idle", "send", "scope", "verify", "read", "write", "delete", "query", "pending",
            "passed", "cleanup"}
Todo == {<<"daily", "hourly">>, <<"hourly">>, <<>>}
ProbeRow == [at : ProbeAt, n : Nat, sent : 0 .. Len(Lanes), found : SUBSET Range(Lanes),
             todo : Todo, snap : SUBSET FactOf, answer : RowOf]
JobRow == [at : {"idle", "reading", "writing", "late"}, batch : SUBSET Granularity,
           g : Granularity, snap : SUBSET FactOf]
Rewritten == {"delete", "query", "pending", "passed"}
PastScope == {"verify", "read", "write"} \cup Rewritten

\* A probe gets past its scope with the lane of each record it sent.
Seeing(p) ==
  /\ p \in ProbeRow
  /\ p.at = "send" => p.sent < Len(Lanes)
  /\ p.at \in PastScope => p.found = Range(Lanes)
  /\ p.at \in {"read", "write"} => p.todo # <<>>

\* Its records stay from then on, so its reading and every later one of the job
\* has them, and so does the row it writes, unless a late writing replaces it.
Reading ==
  /\ probe.at \in PastScope => Records(probe.n) \subseteq facts
  /\ probe.at = "write" => Records(probe.n) \subseteq probe.snap
  /\ probe.at \in Rewritten =>
       /\ rollup.by = "late" \/ Records(probe.n) \subseteq rollup.of
       /\ job.at = "writing" /\ job.g = "hourly" => Records(probe.n) \subseteq job.snap
  /\ probe.at \in {"pending", "passed"} =>
       probe.answer.by = "late" \/ probe.answer.of = Records(probe.n)

StoreTypes ==
  /\ facts \subseteq FactOf /\ spooled \subseteq FactOf /\ repairs \subseteq Granularity
  /\ rollup \in RowOf /\ job \in JobRow

ProbeInv ==
  /\ Seeing(probe) /\ Reading /\ verdicts \in Seq(VerdictRow)
  /\ Len(verdicts) <= MaxProbe /\ (probe.at # "idle" => probe.n = Len(verdicts) + 1 /\ probe.n <= MaxProbe)
  /\ StoreTypes
  /\ PassIsWholePath

LEMMA LanesAre == /\ Len(Lanes) = 4 /\ Range(Lanes) = {"hook", "log", "span", "metric"}
                  /\ \A i \in 1 .. 4 : Lanes[i] \in Range(Lanes)
<1>1. Len(Lanes) = 4 /\ DOMAIN Lanes = 1 .. 4
  BY DEF Lanes
<1>2. \A i \in 1 .. 4 : i = 1 \/ i = 2 \/ i = 3 \/ i = 4
  OBVIOUS
<1>3. Lanes[1] = "hook" /\ Lanes[2] = "log" /\ Lanes[3] = "span" /\ Lanes[4] = "metric"
  BY DEF Lanes
<1>4. Range(Lanes) = {Lanes[i] : i \in 1 .. 4}
  BY <1>1 DEF Range
<1> QED BY <1>1, <1>2, <1>3, <1>4

\* Four events of one probe are those of the four lanes.
LEMMA LanesCount == IsFiniteSet(Range(Lanes)) /\ Cardinality(Range(Lanes)) = 4
<1>1. Range(Lanes) = {"hook", "log", "span", "metric"}
  BY LanesAre
<1>2. IsFiniteSet({}) /\ Cardinality({}) = 0
  BY FS_EmptySet
<1>3. IsFiniteSet({"hook"}) /\ Cardinality({"hook"}) = 1
  BY FS_Singleton
<1>4. IsFiniteSet({"hook", "log"}) /\ Cardinality({"hook", "log"}) = 2
  <2>1. PICK one : one = {"hook"}
    OBVIOUS
  <2>2. {"hook", "log"} = one \cup {"log"} /\ "log" \notin one
    BY <2>1
  <2>3. IsFiniteSet(one) /\ Cardinality(one) = 1
    BY <1>3, <2>1
  <2>4. IsFiniteSet(one \cup {"log"}) /\ Cardinality(one \cup {"log"}) = 1 + 1
    BY <2>2, <2>3, FS_AddElement
  <2> QED BY <2>2, <2>4
<1>5. IsFiniteSet({"hook", "log", "span"}) /\ Cardinality({"hook", "log", "span"}) = 3
  <2>1. PICK two : two = {"hook", "log"}
    OBVIOUS
  <2>2. {"hook", "log", "span"} = two \cup {"span"} /\ "span" \notin two
    BY <2>1
  <2>3. IsFiniteSet(two) /\ Cardinality(two) = 2
    BY <1>4, <2>1
  <2>4. IsFiniteSet(two \cup {"span"}) /\ Cardinality(two \cup {"span"}) = 2 + 1
    BY <2>2, <2>3, FS_AddElement
  <2> QED BY <2>2, <2>4
<1>6. IsFiniteSet({"hook", "log", "span", "metric"}) /\ Cardinality({"hook", "log", "span", "metric"}) = 4
  <2>1. {"hook", "log", "span", "metric"} = {"hook", "log", "span"} \cup {"metric"}
    OBVIOUS
  <2> QED BY <2>1, <1>5, FS_AddElement
<1> QED BY <1>1, <1>6

LEMMA FactsFinite == IsFiniteSet(FactOf)
<1>1. IsFiniteSet(1 .. MaxProbe)
  BY FS_Interval
<1> QED BY <1>1, LanesCount, FS_Product DEF FactOf

LEMMA RecordsCount ==
  ASSUME NEW n \in Nat
  PROVE  IsFiniteSet(Records(n)) /\ Cardinality(Records(n)) = 4
<1>1. Records(n) = {n} \X Range(Lanes)
  BY DEF Records
<1>2. IsFiniteSet({n}) /\ Cardinality({n}) = 1
  BY FS_Singleton
<1>3. IsFiniteSet({n} \X Range(Lanes)) /\ Cardinality({n} \X Range(Lanes)) = 1 * 4
  BY <1>2, LanesCount, FS_Product
<1> QED BY <1>1, <1>3

LEMMA ScopeIsWhole ==
  ASSUME facts \subseteq FactOf, NEW n \in Nat
  PROVE  /\ {f[2] : f \in FoundOf(n)} \subseteq Range(Lanes)
         /\ Scope(n) => {f[2] : f \in FoundOf(n)} = Range(Lanes) /\ Records(n) \subseteq facts
<1>1. FoundOf(n) \subseteq Records(n)
  BY DEF FoundOf, FactOf, Records
<1>2. ASSUME Scope(n) PROVE FoundOf(n) = Records(n)
  <2>1. Cardinality(FoundOf(n)) = 4
    BY <1>2, LanesAre DEF Scope
  <2> QED BY <1>1, <2>1, RecordsCount, FS_Subset
<1>3. \A f \in Records(n) : f[2] \in Range(Lanes)
  BY DEF Records
<1>4. \A l \in Range(Lanes) : <<n, l>> \in Records(n) /\ <<n, l>>[2] = l
  BY DEF Records
<1>5. Scope(n) => Range(Lanes) \subseteq {f[2] : f \in FoundOf(n)}
  BY <1>2, <1>4
<1>6. FoundOf(n) \subseteq facts
  BY DEF FoundOf
<1> QED BY <1>1, <1>2, <1>3, <1>5, <1>6

\* A row that holds the four and counts four holds nothing else.
LEMMA RowIsExact ==
  ASSUME NEW n \in Nat, NEW of, of \subseteq FactOf, Records(n) \subseteq of,
         Cardinality(of) = Len(Lanes)
  PROVE  of = Records(n)
<1>1. IsFiniteSet(of)
  BY FactsFinite, FS_Subset
<1> QED BY <1>1, RecordsCount, LanesAre, FS_Subset

LEMMA ProbeInitInv == ProbeInit => ProbeInv
<1> SUFFICES ASSUME ProbeInit PROVE ProbeInv
  OBVIOUS
<1>1. Seeing(probe) /\ probe.at = "idle"
  BY LanesAre DEF ProbeInit, ProbeIdle, NoRow, Seeing, ProbeRow, ProbeAt, RowOf, Todo, PastScope, Rewritten
<1>2. verdicts = <<>> /\ StoreTypes
  BY DEF ProbeInit, StoreTypes, NoRow, RowOf, JobIdle, JobRow, Granularity
<1>3. Reading
  BY <1>1 DEF Reading, PastScope, Rewritten
<1> QED BY <1>1, <1>2, <1>3 DEF ProbeInv, PassIsWholePath

\* A step of a probe that goes on.
LEMMA ProbeGoesOn ==
  ASSUME ProbeInv, NEW p \in ProbeRow, probe' = p, Seeing(p), p.n = probe.n, probe.at # "idle",
         UNCHANGED verdicts, StoreTypes', Reading'
  PROVE  ProbeInv'
BY DEF ProbeInv, PassIsWholePath

LEMMA SendStep == ASSUME ProbeInv, SendAccepted \/ SendSpooled PROVE ProbeInv'
<1>1. probe.at = "send" /\ SendTo("scope") /\ UNCHANGED <<verdicts, rollup, job>>
  BY DEF SendAccepted, SendSpooled
<1>a. probe \in ProbeRow /\ probe.sent \in 0 .. 4 /\ probe.sent < 4
  BY <1>1, LanesAre DEF ProbeInv, Seeing, ProbeRow
<1>b. PICK more \in 1 .. 4 : more = probe.sent + 1
  BY <1>a
<1>m. more \in 0 .. Len(Lanes)
  BY LanesAre
<1>e. PICK at \in {"send", "scope"} : at = IF more = 4 THEN "scope" ELSE "send"
  OBVIOUS
<1>2. PICK p : p = [probe EXCEPT !.sent = more, !.at = at]
  OBVIOUS
<1>3. probe' = p
  BY <1>1, <1>2, <1>b, <1>e, LanesAre DEF SendTo
<1>c. p \in ProbeRow /\ p.n = probe.n /\ p.sent = more /\ p.at = at
  BY <1>2, <1>a, <1>m DEF ProbeRow, ProbeAt
<1>d. p.at \in {"send", "scope"} /\ (p.at = "send" => p.sent < 4)
  BY <1>c, <1>e
<1>4. p \in ProbeRow /\ Seeing(p) /\ p.n = probe.n /\ p.at \in {"send", "scope"} /\ probe.sent + 1 \in 1 .. 4
  BY <1>b, <1>c, <1>d, LanesAre DEF Seeing, PastScope, Rewritten
<1>5. NextLane \in FactOf
  BY <1>1, <1>4, LanesAre DEF NextLane, FactOf, ProbeInv
<1>6. StoreTypes'
  BY <1>1, <1>5 DEF SendAccepted, SendSpooled, ProbeInv, StoreTypes
<1>7. Reading'
  BY <1>3, <1>4 DEF Reading, PastScope, Rewritten
<1> QED BY <1>1, <1>3, <1>4, <1>6, <1>7, ProbeGoesOn

LEMMA ScopeStep == ASSUME ProbeInv, FindScope PROVE ProbeInv'
<1>0. PICK found : found = {f[2] : f \in FoundOf(probe.n)}
  OBVIOUS
<1>1. probe.n \in Nat /\ facts \subseteq FactOf /\ probe \in ProbeRow /\ probe.at = "scope"
  BY DEF ProbeInv, Seeing, ProbeRow, StoreTypes, FindScope
<1>2. /\ found \subseteq Range(Lanes)
      /\ Scope(probe.n) => found = Range(Lanes) /\ Records(probe.n) \subseteq facts
  BY <1>0, <1>1, ScopeIsWhole
<1>3. PICK p : p = [probe EXCEPT !.at = IF Scope(probe.n) THEN "verify" ELSE "cleanup", !.found = found]
  OBVIOUS
<1>4. probe' = p /\ UNCHANGED <<verdicts, facts, spooled, repairs, rollup, job>>
  BY <1>0, <1>3 DEF FindScope
<1>5. /\ p \in ProbeRow /\ p.n = probe.n /\ p.found = found /\ p.at \in {"verify", "cleanup"}
      /\ p.at = "verify" => Scope(probe.n)
  BY <1>1, <1>2, <1>3 DEF ProbeRow, ProbeAt
<1>6. Seeing(p)
  BY <1>2, <1>5 DEF Seeing, PastScope, Rewritten
<1>7. Reading'
  <2>1. probe'.at \in {"verify", "cleanup"} /\ probe'.n = probe.n /\ facts' = facts
    BY <1>4, <1>5
  <2>2. probe'.at = "verify" => Records(probe.n) \subseteq facts
    BY <1>2, <1>4, <1>5
  <2> QED BY <2>1, <2>2 DEF Reading, PastScope, Rewritten
<1>8. StoreTypes'
  BY <1>4 DEF ProbeInv, StoreTypes
<1> QED BY <1>1, <1>4, <1>5, <1>6, <1>7, <1>8, ProbeGoesOn

\* A probe that gives up has nothing to show.
LEMMA GivesUp ==
  ASSUME ProbeInv, probe' = [probe EXCEPT !.at = "cleanup"], probe.at # "idle",
         UNCHANGED <<verdicts, facts, spooled, repairs, rollup, job>>
  PROVE  ProbeInv'
<1>1. PICK p : p = [probe EXCEPT !.at = "cleanup"]
  OBVIOUS
<1>2. probe' = p /\ p \in ProbeRow /\ p.n = probe.n /\ p.at = "cleanup"
  BY <1>1 DEF ProbeInv, Seeing, ProbeRow, ProbeAt
<1>3. Seeing(p) /\ Reading'
  BY <1>2 DEF Seeing, Reading, PastScope, Rewritten
<1>4. StoreTypes'
  BY DEF ProbeInv, StoreTypes
<1> QED BY <1>2, <1>3, <1>4, ProbeGoesOn

LEMMA RepairStep == ASSUME ProbeInv, VerifyRepairs \/ ReadBucket PROVE ProbeInv'
<1>0. /\ probe \in ProbeRow /\ probe.found = Range(Lanes) /\ Records(probe.n) \subseteq facts
      /\ probe.at \in {"verify", "read"} /\ facts \subseteq FactOf
      /\ probe.at = "read" => probe.todo # <<>>
  BY DEF ProbeInv, Seeing, Reading, StoreTypes, VerifyRepairs, ReadBucket, PastScope
<1>1. UNCHANGED <<verdicts, facts, spooled, repairs, rollup, job>>
  BY DEF VerifyRepairs, ReadBucket
<1>2. StoreTypes'
  BY <1>1 DEF ProbeInv, StoreTypes
<1>3. CASE VerifyRepairs /\ repairs = Granularity
  <2>1. PICK p : p = [probe EXCEPT !.at = "read", !.todo = <<"daily", "hourly">>]
    OBVIOUS
  <2>2. /\ probe' = p /\ p \in ProbeRow /\ p.n = probe.n /\ p.found = probe.found
        /\ p.at = "read" /\ p.todo = <<"daily", "hourly">>
    BY <1>0, <1>3, <2>1 DEF VerifyRepairs, ProbeRow, ProbeAt, Todo
  <2>3. Seeing(p) /\ Reading'
    BY <1>0, <1>1, <2>2 DEF Seeing, Reading, Rewritten
  <2> QED BY <1>0, <1>1, <1>2, <2>2, <2>3, ProbeGoesOn
<1>4. CASE VerifyRepairs /\ repairs # Granularity
  BY <1>0, <1>1, <1>4, GivesUp DEF VerifyRepairs
<1>5. CASE ReadBucket
  <2>1. PICK p : p = [probe EXCEPT !.at = "write", !.snap = facts]
    OBVIOUS
  <2>2. /\ probe' = p /\ p \in ProbeRow /\ p.n = probe.n /\ p.found = probe.found
        /\ p.at = "write" /\ p.todo = probe.todo /\ p.snap = facts /\ probe.at = "read"
    BY <1>0, <1>5, <2>1 DEF ReadBucket, ProbeRow, ProbeAt
  <2>3. Seeing(p) /\ Reading'
    BY <1>0, <1>1, <2>2 DEF Seeing, Reading, Rewritten
  <2> QED BY <1>0, <1>1, <1>2, <2>2, <2>3, ProbeGoesOn
<1> QED BY <1>3, <1>4, <1>5

\* After it has written the hour's row, what the job has in hand is late.
LEMMA WriteBucketStep == ASSUME ProbeInv, WriteBucket PROVE ProbeInv'
<1>0. /\ probe \in ProbeRow /\ probe.found = Range(Lanes) /\ Records(probe.n) \subseteq facts
      /\ probe.at = "write" /\ probe.todo \in {<<"daily", "hourly">>, <<"hourly">>}
      /\ Records(probe.n) \subseteq probe.snap /\ probe.snap \subseteq FactOf
  BY DEF ProbeInv, Seeing, Reading, WriteBucket, PastScope, ProbeRow, Todo
<1>1. UNCHANGED <<verdicts, facts, spooled, repairs>>
  BY DEF WriteBucket
<1>t. PICK rest : rest = Tail(probe.todo)
  OBVIOUS
<1>a. PICK at : at = IF probe.todo = <<"hourly">> THEN "delete" ELSE "read"
  OBVIOUS
<1>2. PICK p : p = [probe EXCEPT !.at = at, !.todo = rest, !.snap = {}]
  OBVIOUS
<1>3. probe' = p
  BY <1>t, <1>a, <1>2 DEF WriteBucket
<1>4. CASE probe.todo = <<"hourly">>
  <2>1. rest = <<>> /\ Head(probe.todo) = "hourly" /\ at = "delete"
    BY <1>t, <1>a, <1>4
  <2>2. p \in ProbeRow /\ p.n = probe.n /\ p.found = probe.found /\ p.at = "delete"
    BY <1>0, <1>2, <2>1 DEF ProbeRow, ProbeAt, Todo
  <2>3. rollup' = [by |-> "probe", of |-> probe.snap]
    BY <2>1 DEF WriteBucket
  <2>4. job' \in JobRow /\ ~(job'.at = "writing" /\ job'.g = "hourly")
    BY <2>1 DEF WriteBucket, ProbeInv, StoreTypes, JobRow
  <2>5. StoreTypes'
    BY <1>0, <1>1, <2>3, <2>4 DEF ProbeInv, StoreTypes, RowOf
  <2>6. Seeing(p) /\ Reading'
    BY <1>0, <1>1, <1>3, <2>2, <2>3, <2>4 DEF Seeing, Reading, Rewritten
  <2> QED BY <1>0, <1>1, <1>3, <2>2, <2>5, <2>6, ProbeGoesOn
<1>5. CASE probe.todo = <<"daily", "hourly">>
  <2>0. probe.todo # <<"hourly">>
    <3>1. Len(probe.todo) = 2 /\ Len(<<"hourly">>) = 1
      BY <1>5
    <3> QED BY <3>1
  <2>1. rest = <<"hourly">> /\ Head(probe.todo) = "daily" /\ at = "read"
    BY <1>t, <1>a, <1>5, <2>0
  <2>2. /\ p \in ProbeRow /\ p.n = probe.n /\ p.found = probe.found /\ p.at = "read"
        /\ p.todo = <<"hourly">>
    BY <1>0, <1>2, <2>1 DEF ProbeRow, ProbeAt, Todo
  <2>3. rollup' = rollup
    BY <2>1 DEF WriteBucket
  <2>4. job' \in JobRow
    BY DEF WriteBucket, ProbeInv, StoreTypes, JobRow
  <2>5. StoreTypes'
    BY <1>1, <2>3, <2>4 DEF ProbeInv, StoreTypes
  <2>6. Seeing(p) /\ Reading'
    BY <1>0, <1>1, <1>3, <2>2 DEF Seeing, Reading, Rewritten
  <2> QED BY <1>0, <1>1, <1>3, <2>2, <2>5, <2>6, ProbeGoesOn
<1> QED BY <1>0, <1>4, <1>5

LEMMA ReadBackStep == ASSUME ProbeInv, DeleteRepairs \/ QueryRollup \/ CountPending PROVE ProbeInv'
<1>0. /\ probe \in ProbeRow /\ probe.n \in Nat /\ probe.found = Range(Lanes) /\ Records(probe.n) \subseteq facts
      /\ probe.at \in {"delete", "query", "pending"}
      /\ rollup \in RowOf /\ rollup.of \subseteq FactOf
      /\ rollup.by = "late" \/ Records(probe.n) \subseteq rollup.of
      /\ job.at = "writing" /\ job.g = "hourly" => Records(probe.n) \subseteq job.snap
      /\ probe.at = "pending" => probe.answer.by = "late" \/ probe.answer.of = Records(probe.n)
  BY DEF ProbeInv, Seeing, Reading, StoreTypes, DeleteRepairs, QueryRollup, CountPending, PastScope, Rewritten,
         ProbeRow, RowOf
<1>1. UNCHANGED <<verdicts, facts, spooled, rollup, job>> /\ repairs' \subseteq Granularity
  BY DEF DeleteRepairs, QueryRollup, CountPending, ProbeInv, StoreTypes
<1>2. StoreTypes'
  BY <1>1 DEF ProbeInv, StoreTypes
<1>3. CASE DeleteRepairs
  <2>1. PICK p : p = [probe EXCEPT !.at = "query"]
    OBVIOUS
  <2>2. probe' = p /\ p \in ProbeRow /\ p.n = probe.n /\ p.found = probe.found /\ p.at = "query"
    BY <1>0, <1>3, <2>1 DEF DeleteRepairs, ProbeRow, ProbeAt
  <2>3. Seeing(p) /\ Reading'
    BY <1>0, <1>1, <2>2 DEF Seeing, Reading, Rewritten
  <2> QED BY <1>0, <1>1, <1>2, <2>2, <2>3, ProbeGoesOn
<1>4. CASE QueryRollup
  <2>1. PICK p : p = [probe EXCEPT
          !.at = IF Cardinality(rollup.of) = Len(Lanes) THEN "pending" ELSE "cleanup", !.answer = rollup]
    OBVIOUS
  <2>2. /\ probe' = p /\ p \in ProbeRow /\ p.n = probe.n /\ p.found = probe.found
        /\ p.at \in {"pending", "cleanup"} /\ p.answer = rollup
        /\ p.at = "pending" => Cardinality(rollup.of) = Len(Lanes)
    BY <1>0, <1>4, <2>1 DEF QueryRollup, ProbeRow, ProbeAt
  <2>3. p.at = "pending" => rollup.by = "late" \/ rollup.of = Records(probe.n)
    BY <1>0, <2>2, RowIsExact
  <2>4. Seeing(p) /\ Reading'
    BY <1>0, <1>1, <2>2, <2>3 DEF Seeing, Reading, PastScope, Rewritten
  <2> QED BY <1>0, <1>1, <1>2, <2>2, <2>4, ProbeGoesOn
<1>5. CASE CountPending
  <2>1. PICK p : p = [probe EXCEPT !.at = IF "hourly" \notin repairs THEN "passed" ELSE "cleanup"]
    OBVIOUS
  <2>2. /\ probe' = p /\ p \in ProbeRow /\ p.n = probe.n /\ p.found = probe.found
        /\ p.at \in {"passed", "cleanup"} /\ p.answer = probe.answer /\ probe.at = "pending"
    BY <1>0, <1>5, <2>1 DEF CountPending, ProbeRow, ProbeAt
  <2>3. Seeing(p) /\ Reading'
    BY <1>0, <1>1, <2>2 DEF Seeing, Reading, PastScope, Rewritten
  <2> QED BY <1>0, <1>1, <1>2, <2>2, <2>3, ProbeGoesOn
<1> QED BY <1>3, <1>4, <1>5

\* A probe ends with a verdict: passed only after it has seen every lane, and
\* read its row back.
LEMMA ProbeEnds ==
  ASSUME ProbeInv, NEW v \in VerdictRow,
         v.passed => v.found = Range(Lanes) /\ (v.answer.by = "late" \/ v.answer.of = Records(probe.n)),
         probe.at # "idle", probe' = ProbeIdle, verdicts' = Append(verdicts, v), StoreTypes'
  PROVE  ProbeInv'
<1>1. Seeing(ProbeIdle) /\ ProbeIdle.at = "idle"
  BY LanesAre DEF ProbeIdle, NoRow, Seeing, ProbeRow, ProbeAt, RowOf, Todo, PastScope, Rewritten
<1>2. /\ verdicts' \in Seq(VerdictRow) /\ Len(verdicts') = Len(verdicts) + 1
      /\ \A m \in 1 .. Len(verdicts) : verdicts'[m] = verdicts[m]
      /\ verdicts'[Len(verdicts) + 1] = v
  BY DEF ProbeInv
<1>3. Len(verdicts') <= MaxProbe /\ probe.n = Len(verdicts) + 1
  BY <1>2 DEF ProbeInv
<1>4. \A m \in DOMAIN verdicts' : m \in DOMAIN verdicts \/ m = Len(verdicts) + 1
  BY <1>2 DEF ProbeInv
<1>5. PassIsWholePath'
  BY <1>2, <1>3, <1>4 DEF ProbeInv, PassIsWholePath
<1>6. Reading'
  BY <1>1 DEF Reading, PastScope, Rewritten
<1> QED BY <1>1, <1>2, <1>3, <1>5, <1>6 DEF ProbeInv

LEMMA VerdictStep == ASSUME ProbeInv, CleanupProbe \/ CleanupFails \/ ProbeCrash PROVE ProbeInv'
<1>0. NoRow \in RowOf /\ JobIdle \in JobRow /\ probe \in ProbeRow
  BY DEF NoRow, RowOf, JobIdle, JobRow, Granularity, ProbeInv, Seeing
<1>1. PICK passed \in BOOLEAN, crashed \in BOOLEAN :
        /\ verdicts' = Append(verdicts,
             [passed |-> passed, crashed |-> crashed,
              found |-> IF passed THEN probe.found ELSE {},
              answer |-> IF passed THEN probe.answer ELSE NoRow])
        /\ passed => probe.at = "passed"
  <2>1. CASE CleanupProbe
    BY <2>1 DEF CleanupProbe, Verdict
  <2>2. CASE CleanupFails
    BY <2>2 DEF CleanupFails, Verdict
  <2>3. CASE ProbeCrash
    BY <2>3 DEF ProbeCrash
  <2> QED BY <2>1, <2>2, <2>3
<1>2. PICK v : v = [passed |-> passed, crashed |-> crashed,
                    found |-> IF passed THEN probe.found ELSE {},
                    answer |-> IF passed THEN probe.answer ELSE NoRow]
  OBVIOUS
<1>3. v \in VerdictRow
  BY <1>0, <1>2 DEF VerdictRow, ProbeRow
<1>4. v.passed => v.found = Range(Lanes) /\ (v.answer.by = "late" \/ v.answer.of = Records(probe.n))
  BY <1>1, <1>2 DEF ProbeInv, Seeing, Reading, PastScope, Rewritten
<1>5. probe.at # "idle" /\ probe' = ProbeIdle /\ StoreTypes'
  BY <1>0 DEF CleanupProbe, CleanupFails, ProbeCrash, Cleaning, ProbeInv, StoreTypes, Granularity
<1> QED BY <1>1, <1>2, <1>3, <1>4, <1>5, ProbeEnds

LEMMA ProbeBeginsStep == ASSUME ProbeInv, ProbeBegins PROVE ProbeInv'
<1>n. PICK n \in Nat : n = Len(verdicts) + 1
  BY DEF ProbeInv
<1>1. PICK p : p = [ProbeIdle EXCEPT !.at = "send", !.n = n]
  OBVIOUS
<1>2. Len(verdicts) \in Nat /\ Len(verdicts) < MaxProbe /\ UNCHANGED <<verdicts, facts, spooled, repairs, rollup, job>>
  BY DEF ProbeBegins, ProbeInv
<1>a. ProbeIdle \in ProbeRow /\ ProbeIdle.sent = 0
  BY LanesAre DEF ProbeIdle, NoRow, ProbeRow, ProbeAt, RowOf, Todo
<1>b. probe' = p
  BY <1>1, <1>n DEF ProbeBegins
<1>c. p \in ProbeRow /\ p.at = "send" /\ p.n = n /\ p.sent = 0
  BY <1>1, <1>a DEF ProbeRow, ProbeAt
<1>3. probe' = p /\ p \in ProbeRow /\ p.at = "send" /\ p.n = Len(verdicts) + 1 /\ p.sent = 0
  BY <1>b, <1>c, <1>n
<1>4. Seeing(p) /\ Reading' /\ StoreTypes'
  BY <1>2, <1>3, LanesAre DEF Seeing, Reading, PastScope, Rewritten, ProbeInv, StoreTypes
<1> QED BY <1>2, <1>3, <1>4 DEF ProbeInv, PassIsWholePath

\* What happens beside a probe takes none of its records away.
LEMMA Beside ==
  ASSUME ProbeInv, UNCHANGED <<probe, verdicts>>, facts \subseteq facts', StoreTypes',
         rollup' = rollup \/ rollup'.by = "late" \/ (probe.at \in Rewritten => Records(probe.n) \subseteq rollup'.of),
         job'.at = "writing" => job' = job \/ job'.snap = facts
  PROVE  ProbeInv'
<1>1. Reading'
  BY DEF ProbeInv, Reading, PastScope
<1> QED BY <1>1 DEF ProbeInv, PassIsWholePath

LEMMA BesideStep ==
  ASSUME ProbeInv, JobClaims \/ JobReads \/ JobWrites \/ JobFails \/ ReplaySpool
  PROVE  ProbeInv'
<1>0. job \in JobRow /\ facts \subseteq FactOf /\ repairs \subseteq Granularity
  BY DEF ProbeInv, StoreTypes
<1>1. CASE JobClaims
  <2>1. /\ UNCHANGED <<probe, verdicts, facts, spooled, rollup>> /\ repairs' = {}
        /\ job' \in JobRow /\ job'.at = "reading"
    BY <1>0, <1>1 DEF JobClaims, JobIdle, JobRow, Granularity
  <2>2. StoreTypes'
    BY <2>1 DEF ProbeInv, StoreTypes
  <2> QED BY <2>1, <2>2, Beside
<1>2. CASE JobReads
  <2>1. PICK g \in job.batch : job' = [at |-> "writing", batch |-> job.batch \ {g}, g |-> g, snap |-> facts]
    BY <1>2 DEF JobReads
  <2>2. job' \in JobRow /\ job'.snap = facts
    BY <1>0, <2>1 DEF JobRow
  <2>3. UNCHANGED <<probe, verdicts, facts, spooled, repairs, rollup>>
    BY <1>2 DEF JobReads
  <2>4. StoreTypes'
    BY <2>2, <2>3 DEF ProbeInv, StoreTypes
  <2> QED BY <2>2, <2>3, <2>4, Beside
<1>3. CASE JobWrites
  <2>0. JobIdle \in JobRow
    BY DEF JobIdle, JobRow, Granularity
  <2>a. PICK at \in {"idle", "reading"} : at = IF job.batch = {} THEN "idle" ELSE "reading"
    OBVIOUS
  <2>b. job' = [JobIdle EXCEPT !.at = at, !.batch = job.batch]
    BY <1>3, <2>a DEF JobWrites
  <2>1. job' \in JobRow /\ job'.at # "writing"
    BY <1>0, <2>0, <2>b DEF JobRow
  <2>2. UNCHANGED <<probe, verdicts, facts, spooled, repairs>> /\ job.at \in {"writing", "late"}
    BY <1>3 DEF JobWrites
  <2>3. /\ rollup' \in RowOf
        /\ rollup' = rollup \/ rollup'.by = "late" \/ (probe.at \in Rewritten => Records(probe.n) \subseteq rollup'.of)
    <3>1. CASE job.g # "hourly"
      BY <1>3, <3>1 DEF JobWrites, ProbeInv, StoreTypes
    <3>2. CASE job.g = "hourly"
      <4>1. rollup' = [by |-> IF job.at = "late" THEN "late" ELSE "job", of |-> job.snap]
        BY <1>3, <3>2 DEF JobWrites
      <4>2. job.at = "writing" => (probe.at \in Rewritten => Records(probe.n) \subseteq job.snap)
        BY <3>2 DEF ProbeInv, Reading
      <4> QED BY <1>0, <2>2, <4>1, <4>2 DEF RowOf, JobRow
    <3> QED BY <3>1, <3>2
  <2>4. StoreTypes'
    BY <2>1, <2>2, <2>3 DEF ProbeInv, StoreTypes
  <2> QED BY <2>1, <2>2, <2>3, <2>4, Beside
<1>4. CASE JobFails
  <2>1. UNCHANGED <<probe, verdicts, facts, spooled, repairs, rollup>> /\ job' \in JobRow /\ job'.at = "idle"
    BY <1>4 DEF JobFails, JobIdle, JobRow, Granularity
  <2>2. StoreTypes'
    BY <2>1 DEF ProbeInv, StoreTypes
  <2> QED BY <2>1, <2>2, Beside
<1>5. CASE ReplaySpool
  <2>1. UNCHANGED <<probe, verdicts, rollup, job>> /\ facts \subseteq facts' /\ StoreTypes'
    BY <1>5 DEF ReplaySpool, ProbeInv, StoreTypes
  <2> QED BY <2>1, Beside
<1> QED BY <1>1, <1>2, <1>3, <1>4, <1>5

LEMMA ProbeInvStep == ProbeInv /\ [ProbeNext]_probeVars => ProbeInv'
<1> SUFFICES ASSUME ProbeInv, [ProbeNext]_probeVars PROVE ProbeInv'
  OBVIOUS
<1>1. ProbeGivesUp => ProbeInv'
  BY GivesUp DEF ProbeGivesUp
<1>2. CASE ProbeNext
  BY <1>1, <1>2, SendStep, ScopeStep, RepairStep, WriteBucketStep, ReadBackStep, VerdictStep,
     ProbeBeginsStep, BesideStep DEF ProbeNext
<1>3. CASE UNCHANGED probeVars
  <2>1. UNCHANGED <<probe, verdicts, facts, spooled, repairs, rollup, job>>
    BY <1>3 DEF probeVars
  <2> QED BY <2>1 DEF ProbeInv, Seeing, Reading, StoreTypes, PassIsWholePath
<1> QED BY <1>2, <1>3

LEMMA ProbeInvariant == ProbeSpec => []ProbeInv
BY ProbeInitInv, ProbeInvStep, PTL DEF ProbeSpec

-----------------------------------------------------------------------------
GateState == [enabled : BOOLEAN, authorized : BOOLEAN, started : Nat, status : {"none", "pass", "fail"}]
CanaryState == [at : {"idle", "observe", "cleanup", "finish"}, outcome : {"none", "skipped", "pass", "fail"}]

CanaryTypes ==
  /\ gate \in GateState /\ canary \in CanaryState /\ observer \in BOOLEAN /\ residue \in BOOLEAN
  /\ abandoned \in {"no", "running", "ended"} /\ moment \in 1 .. MaxMoment + 1
  /\ canary.at # "idle" => moment <= MaxMoment
  /\ canary.at \in {"cleanup", "finish"} => canary.outcome \in {"pass", "fail"}
  /\ observed \subseteq Nat \ {0}

\* The row of the gate has the time of the newest observer.
Paced ==
  /\ observed # {} => gate.enabled /\ gate.authorized /\ gate.started \in observed
  /\ \A s \in observed : s <= gate.started /\ s <= moment
  /\ \A s, t \in observed : s < t => t - s >= Cooldown

Clean ==
  /\ observer => canary.at = "observe"
  /\ canary.at \in {"idle", "finish"} /\ canary.outcome = "pass" => (residue => abandoned # "no")

CanaryInv == CanaryTypes /\ Paced /\ Clean

LEMMA CanaryInitInv == CanaryInit => CanaryInv
<1> SUFFICES ASSUME CanaryInit PROVE CanaryInv
  OBVIOUS
<1>1. CanaryTypes
  <2>1. gate \in GateState /\ canary \in CanaryState
    <3>1. PICK on \in BOOLEAN : gate = [enabled |-> on, authorized |-> FALSE, started |-> 0, status |-> "none"]
      BY DEF CanaryInit
    <3>2. canary = [at |-> "idle", outcome |-> "none"]
      BY DEF CanaryInit
    <3>3. gate \in GateState
      BY <3>1 DEF GateState
    <3> QED BY <3>2, <3>3 DEF CanaryState
  <2>2. 1 \in 1 .. MaxMoment + 1
    OBVIOUS
  <2>4. observer \in BOOLEAN /\ residue \in BOOLEAN
    BY DEF CanaryInit
  <2>3. canary.at = "idle" /\ observed = {} /\ moment = 1 /\ abandoned = "no" /\ observer = FALSE /\ residue = FALSE
    BY DEF CanaryInit
  <2> QED BY <2>1, <2>2, <2>3, <2>4 DEF CanaryTypes
<1>2. Paced /\ Clean
  BY DEF CanaryInit, Paced, Clean
<1> QED BY <1>1, <1>2 DEF CanaryInv

LEMMA MarkStartedStep == ASSUME CanaryInv, MarkStarted PROVE CanaryInv'
<1>1. /\ gate \in GateState /\ gate' = [enabled |-> gate.enabled, authorized |-> gate.authorized, started |-> moment, status |-> gate.status]
      /\ gate.enabled /\ gate.authorized /\ (gate.started = 0 \/ moment - gate.started >= Cooldown)
  BY DEF MarkStarted, CanaryInv, CanaryTypes, GateState, Authorize
<1>2. /\ moment \in 1 .. MaxMoment /\ observed' = observed \cup {moment} /\ canary' = [at |-> "observe", outcome |-> "none"]
      /\ UNCHANGED <<abandoned, residue, moment>> /\ observer' = TRUE
  BY DEF MarkStarted, CanaryInv, CanaryTypes
<1>3. CanaryTypes'
  <2>1. gate' \in GateState
    BY <1>1, <1>2 DEF GateState
  <2>2. canary' \in CanaryState
    BY <1>2 DEF CanaryState
  <2>3. observed' \subseteq Nat \ {0}
    BY <1>2 DEF CanaryInv, CanaryTypes
  <2> QED BY <1>2, <2>1, <2>2, <2>3 DEF CanaryInv, CanaryTypes
<1>4. \A s \in observed : s \in Nat \ {0} /\ s <= gate.started /\ gate.started \in Nat
  BY DEF CanaryInv, CanaryTypes, Paced, GateState
<1>5. \A s \in observed : s <= moment /\ moment - s >= Cooldown
  BY <1>1, <1>2, <1>4
<1>6. \A s, t \in observed' : s < t => t - s >= Cooldown
  <2>1. ASSUME NEW s \in observed', NEW t \in observed', s < t PROVE t - s >= Cooldown
    <3>1. CASE t \in observed
      <4>1. s \in observed
        BY <1>2, <1>4, <1>5, <2>1, <3>1
      <4> QED BY <2>1, <3>1, <4>1 DEF CanaryInv, Paced
    <3>2. CASE t = moment /\ s \in observed
      BY <1>5, <3>2
    <3>3. CASE t = moment /\ s = moment
      BY <1>2, <2>1, <3>3
    <3> QED BY <1>2, <2>1, <3>1, <3>2, <3>3
  <2> QED BY <2>1
<1>7. Paced'
  BY <1>1, <1>2, <1>5, <1>6 DEF Paced
<1>8. Clean'
  BY <1>2 DEF Clean
<1> QED BY <1>3, <1>7, <1>8 DEF CanaryInv

\* The other steps start no observer and leave the time of the last one.
LEMMA NothingStarted ==
  ASSUME CanaryInv, CanaryTypes', Clean', gate'.enabled = gate.enabled, gate.authorized => gate'.authorized,
         gate'.started = gate.started, moment <= moment', UNCHANGED observed
  PROVE  CanaryInv'
<1>1. \A s \in observed : s \in Nat /\ s <= moment /\ moment \in Nat /\ moment' \in Nat
  BY DEF CanaryInv, CanaryTypes, Paced
<1>2. Paced'
  <2>1. \A s \in observed : s <= moment'
    BY <1>1
  <2>2. observed' = observed
    OBVIOUS
  <2>3. observed # {} => gate'.enabled /\ gate'.authorized /\ gate'.started \in observed
    BY DEF CanaryInv, Paced
  <2>4. \A s \in observed : s <= gate'.started
    BY DEF CanaryInv, Paced
  <2>5. \A s, t \in observed : s < t => t - s >= Cooldown
    BY DEF CanaryInv, Paced
  <2> QED BY <2>1, <2>2, <2>3, <2>4, <2>5 DEF Paced
<1> QED BY <1>2 DEF CanaryInv

LEMMA GateSteps == ASSUME CanaryInv, RecordAuthorization \/ MarkFinished PROVE CanaryInv'
<1>0. /\ gate \in GateState /\ canary \in CanaryState /\ moment \in 1 .. MaxMoment + 1
      /\ observer \in BOOLEAN
  BY DEF CanaryInv, CanaryTypes
<1>1. CASE RecordAuthorization
  <2>1. gate' = [enabled |-> gate.enabled, authorized |-> TRUE, started |-> gate.started, status |-> gate.status]
    BY <1>0, <1>1 DEF RecordAuthorization, GateState
  <2>2. gate' \in GateState /\ UNCHANGED <<canary, observer, abandoned, residue, moment, observed>>
    BY <1>0, <1>1, <2>1 DEF RecordAuthorization, GateState
  <2>3. CanaryTypes' /\ Clean'
    BY <2>2 DEF CanaryInv, CanaryTypes, Clean
  <2> QED BY <1>0, <2>1, <2>2, <2>3, NothingStarted
<1>2. CASE MarkFinished
  <2>1. /\ canary.at = "finish" /\ moment' = moment + 1 /\ moment <= MaxMoment
        /\ UNCHANGED <<observer, abandoned, residue, observed>>
    BY <1>2 DEF MarkFinished, CanaryInv, CanaryTypes
  <2>2. /\ canary' \in CanaryState /\ canary'.at = "idle" /\ (canary'.outcome = "pass" => canary.outcome = "pass")
    BY <1>0, <1>2 DEF MarkFinished, CanaryState
  <2>3. gate' \in {gate, [gate EXCEPT !.status = canary.outcome]} /\ (gate' # gate => canary.outcome \in {"none", "skipped", "pass", "fail"})
    BY <1>0, <1>2 DEF MarkFinished, CanaryState
  <2>4. canary.outcome \in {"pass", "fail"}
    BY <2>1 DEF CanaryInv, CanaryTypes
  <2>5. gate' \in GateState /\ gate'.enabled = gate.enabled /\ gate'.authorized = gate.authorized /\ gate'.started = gate.started
    BY <1>0, <2>3, <2>4 DEF GateState
  <2>6. CanaryTypes' /\ Clean'
    BY <1>0, <2>1, <2>2, <2>5 DEF CanaryInv, CanaryTypes, Clean
  <2> QED BY <1>0, <2>1, <2>5, <2>6, NothingStarted
<1> QED BY <1>1, <1>2

LEMMA CanarySteps ==
  ASSUME CanaryInv, \/ CanarySkipped \/ MarkStartedFails \/ ObserverWorks \/ ObserverReturns \/ ObserverTimesOut
                    \/ ObserverEndsLate \/ CanaryCleanup \/ CanaryCrash
  PROVE  CanaryInv'
<1>0. gate \in GateState /\ canary \in CanaryState /\ moment \in 1 .. MaxMoment + 1
  BY DEF CanaryInv, CanaryTypes
<1>1. UNCHANGED <<gate, observed>> /\ moment' \in {moment, moment + 1} /\ moment' <= MaxMoment + 1
  BY <1>0 DEF CanarySkipped, MarkStartedFails, ObserverWorks, ObserverReturns, ObserverTimesOut,
     ObserverEndsLate, CanaryCleanup, CanaryCrash, CanaryInv, CanaryTypes
<1>2. canary' \in CanaryState
  BY <1>0 DEF CanarySkipped, MarkStartedFails, ObserverWorks, ObserverReturns, ObserverTimesOut,
     ObserverEndsLate, CanaryCleanup, CanaryCrash, CanaryState
<1>3. CanaryTypes'
  <2>1. observer' \in BOOLEAN /\ residue' \in BOOLEAN /\ abandoned' \in {"no", "running", "ended"}
    BY DEF CanarySkipped, MarkStartedFails, ObserverWorks, ObserverReturns, ObserverTimesOut,
       ObserverEndsLate, CanaryCleanup, CanaryCrash, CanaryInv, CanaryTypes
  <2>2. /\ canary'.at # "idle" => moment' <= MaxMoment
        /\ canary'.at \in {"cleanup", "finish"} => canary'.outcome \in {"pass", "fail"}
    BY <1>0 DEF CanarySkipped, MarkStartedFails, ObserverWorks, ObserverReturns, ObserverTimesOut,
       ObserverEndsLate, CanaryCleanup, CanaryCrash, CanaryInv, CanaryTypes, CanaryState, Clean
  <2> QED BY <1>0, <1>1, <1>2, <2>1, <2>2 DEF CanaryInv, CanaryTypes
<1>4. Clean'
  <2>1. CASE CanarySkipped \/ MarkStartedFails
    BY <1>0, <2>1 DEF CanarySkipped, MarkStartedFails, CanaryInv, CanaryState, Clean
  <2>2. CASE ObserverWorks \/ ObserverEndsLate
    BY <2>2 DEF ObserverWorks, ObserverEndsLate, CanaryInv, Clean, CanaryTypes
  <2>3. CASE ObserverReturns \/ ObserverTimesOut \/ CanaryCrash
    BY <1>0, <2>3 DEF ObserverReturns, ObserverTimesOut, CanaryCrash, CanaryInv, Clean
  <2>4. CASE CanaryCleanup
    BY <1>0, <2>4 DEF CanaryCleanup, CanaryInv, Clean, CanaryState
  <2> QED BY <2>1, <2>2, <2>3, <2>4
<1> QED BY <1>0, <1>1, <1>3, <1>4, NothingStarted

LEMMA CanaryInvStep == CanaryInv /\ [CanaryNext]_canaryVars => CanaryInv'
<1> SUFFICES ASSUME CanaryInv, [CanaryNext]_canaryVars PROVE CanaryInv'
  OBVIOUS
<1>1. CASE CanaryNext
  BY <1>1, GateSteps, MarkStartedStep, CanarySteps DEF CanaryNext
<1>2. CASE UNCHANGED canaryVars
  BY <1>2 DEF canaryVars, CanaryInv, CanaryTypes, Paced, Clean
<1> QED BY <1>1, <1>2

LEMMA CanaryInvariant == CanarySpec => []CanaryInv
BY CanaryInitInv, CanaryInvStep, PTL DEF CanarySpec

LEMMA ProbeFacts ==
  ProbeInv /\ CanaryInv => ProbesTypeOK /\ ProbesAreBounded
<1> SUFFICES ASSUME ProbeInv, CanaryInv PROVE ProbesTypeOK /\ ProbesAreBounded
  OBVIOUS
<1>1. \A f \in facts \cup spooled : f[1] \in 1 .. MaxProbe /\ f[2] \in Range(Lanes)
  BY DEF ProbeInv, StoreTypes, FactOf
<1>2. ProbesTypeOK
  BY <1>1 DEF ProbesTypeOK, ProbeInv, Seeing, ProbeRow, StoreTypes, JobRow, CanaryInv, CanaryTypes, CanaryState, GateState
<1>3. PassIsWholePath /\ CanaryIsPaced
  BY DEF ProbeInv, CanaryInv, Paced, CanaryIsPaced
<1>4. PassedCanaryIsClean
  BY DEF CanaryInv, Clean, PassedCanaryIsClean
<1> QED BY <1>2, <1>3, <1>4 DEF ProbesAreBounded

\* The probe, its canary and what they leave hold what their declarations allow.
THEOREM ProbesTyped == ProbeSpec /\ CanarySpec => []ProbesTypeOK
BY ProbeInvariant, CanaryInvariant, ProbeFacts, PTL

\* For any number of probes, outages, spooled records, crashes and failed cleanups, a
\* probe passes only after all its lanes were in the database and the hour's row it
\* read back counted them and nothing else, but for a row the repair job wrote late
\* over the probe's own (syntheticpipeline.go 620-689); the observer runs with
\* consent and no more often than the cooldown, and a canary that passed left nothing
\* but what an observer left behind may still write.
THEOREM ProbesStayBounded == ProbeSpec /\ CanarySpec => []ProbesAreBounded
BY ProbeInvariant, CanaryInvariant, ProbeFacts, PTL

HIDE ProbeAssumption

-----------------------------------------------------------------------------
(* What the checks conclude.                                               *)

CheckSpec == CheckInit /\ [][CheckNext]_checkVars

USE CheckAssumption
USE DEF Aged

\* Evidence as it may become: the times move.
Kinds ==
  [host |-> Values.host, endpoint |-> Values.endpoint, fixtures |-> Values.fixtures,
   sessions |-> Values.sessions, retention |-> Values.retention,
   source |-> [known : BOOLEAN, inactive : BOOLEAN, gap : BOOLEAN, cadence : BOOLEAN, active : Nat],
   lag |-> [schema : BOOLEAN, replayed : BOOLEAN, inflated : BOOLEAN, late : BOOLEAN, received : Nat],
   rollup |-> [deep : BOOLEAN, oldest : Nat, watermark : Nat, formulas : BOOLEAN, migrated : BOOLEAN],
   backup |-> [at : Nat, checksum : BOOLEAN],
   restore |-> [at : Nat, ran : BOOLEAN, passed : BOOLEAN]]
Subjects == {"host", "endpoint", "source", "fixtures", "lag", "sessions", "rollup", "retention", "backup", "restore"}
EvidenceState ==
  [host : Kinds.host, endpoint : Kinds.endpoint, source : Kinds.source, fixtures : Kinds.fixtures,
   lag : Kinds.lag, sessions : Kinds.sessions, rollup : Kinds.rollup, retention : Kinds.retention,
   backup : Kinds.backup, restore : Kinds.restore]
OutcomeRow == [status : {"none", "pending", "pass", "fail", "skipped"}, sound : BOOLEAN]

\* The evidence of stage 9 is the newest restore test that ran.
Recorded(test, last) == (test.ran <=> last.at # 0) /\ test.at = last.at /\ (test.passed <=> last.passed)

\* An outcome is the evidence it was drawn from.
RowFits(entry) ==
  /\ entry.at \in Nat /\ entry.status \in {"none", "pending", "pass", "fail", "skipped"}
  /\ entry.status = "pass" => entry.sound = TRUE
  /\ entry.status = "fail" => entry.sound = FALSE

ChecksInv ==
  /\ dimension \in Followed /\ supported \in BOOLEAN /\ hour \in 1 .. LastHour /\ changed \in 0 .. MaxChange
  /\ evidence \in EvidenceState /\ Recorded(evidence.restore, lastTest)
  /\ lastTest \in [at : Nat, passed : BOOLEAN]
  /\ DOMAIN row = Examined /\ \A c \in Examined : RowFits(row[c])

LEMMA ExaminedAreKnown == dimension \in Followed => Examined \subseteq Subjects
<1> SUFFICES ASSUME dimension \in Followed PROVE Examined \subseteq Subjects
  OBVIOUS
<1>1. dimension \in {"configuration", "connectivity", "event_freshness", "schema_compatibility",
                     "reconciliation_coverage", "storage_rollup_health"}
  BY DEF Stages, Followed
<1>2. \A s \in DOMAIN Stages[dimension] : Stages[dimension][s] \subseteq Subjects
  <2>1. CASE dimension \in {"configuration", "connectivity", "event_freshness", "reconciliation_coverage"}
    <3>1. Stages[dimension] \in {<<{"host"}>>, <<{"endpoint"}>>, <<{"source"}>>, <<{"sessions"}>>}
      BY <2>1 DEF Stages
    <3> QED BY <3>1 DEF Subjects
  <2>2. CASE dimension = "schema_compatibility"
    <3>1. Stages[dimension] = <<{"fixtures"}, {"lag"}>>
      BY <2>2 DEF Stages
    <3> QED BY <3>1 DEF Subjects
  <2>3. CASE dimension = "storage_rollup_health"
    <3>1. Stages[dimension] = <<{"rollup"}, {"retention", "backup", "restore"}>>
      BY <2>3 DEF Stages
    <3> QED BY <3>1 DEF Subjects
  <2> QED BY <1>1, <2>1, <2>2, <2>3
<1> QED BY <1>2 DEF Examined, Range

-----------------------------------------------------------------------------
\* A check passes exactly on what a reader would call sound.
LEMMA HostSound ==
  \A e \in Kinds.host : HostOutcome(e) = "pass" <=> e.executable /\ e.root /\ e.plan # "drifted" /\ e.inventory = "ok"
BY DEF Kinds, Values, HostOutcome

LEMMA EndpointSound ==
  \A e \in Kinds.endpoint :
    EndpointOutcome(e) = "pass" <=> e.trusted /\ (e.probe = "ok" \/ (e.kind = "hook" /\ e.probe # "unreachable"))
BY DEF Kinds, Values, EndpointOutcome

LEMMA WithinIsNotOver ==
  ASSUME hour \in Nat, NEW kind \in Aged, NEW at \in Nat PROVE Within(kind, at) <=> at # 0 /\ ~Over(kind, at)
BY DEF Within, Over

LEMMA SourceSound ==
  ASSUME hour \in Nat
  PROVE  \A e \in Kinds.source :
    SourceOutcome(e) = "pass" <=>
      e.known /\ (e.inactive \/ (~e.gap /\ (e.cadence => Within("cadence", IF e.active = 0 THEN Discovered ELSE e.active))))
<1> TAKE e \in Kinds.source
<1>1. PICK at : at = IF e.active = 0 THEN Discovered ELSE e.active
  OBVIOUS
<1>2. at \in Nat /\ at # 0
  BY <1>1 DEF Kinds, Discovered
<1>3. Within("cadence", at) <=> ~Over("cadence", at)
  BY <1>2, WithinIsNotOver
<1>4. Stalled(e) <=> e.gap \/ (e.cadence /\ Over("cadence", at))
  BY <1>1 DEF Stalled
<1>5. SourceOutcome(e) = "pass" <=> e.known /\ (e.inactive \/ ~Stalled(e))
  BY DEF SourceOutcome
<1> QED BY <1>1, <1>3, <1>4, <1>5

LEMMA FixturesSound ==
  \A e \in Kinds.fixtures :
    FixturesOutcome(e) = "pass" <=> e.expected \notin {"failed", "invalid"} /\ e.outside \in {"failed", "unsupported"}
BY DEF FixturesOutcome

LEMMA LagSound ==
  ASSUME hour \in Nat
  PROVE  \A e \in Kinds.lag :
    LagOutcome(e) = "pass" <=>
      e.schema /\ ~(e.replayed /\ e.inflated) /\ ~e.late /\ (e.received = 0 \/ Within("lag", e.received))
<1> TAKE e \in Kinds.lag
<1>1. e.received \in Nat
  BY DEF Kinds
<1>2. e.received # 0 => (Within("lag", e.received) <=> ~Over("lag", e.received))
  BY <1>1, WithinIsNotOver
<1>3. LagOutcome(e) = "pass" <=>
        e.schema /\ ~(e.replayed /\ e.inflated) /\ ~(e.late \/ (e.received # 0 /\ Over("lag", e.received)))
  BY DEF LagOutcome
<1> QED BY <1>2, <1>3

LEMMA RollupSound ==
  ASSUME hour \in Nat
  PROVE  \A e \in Kinds.rollup :
    RollupOutcome(e) = "pass" <=>
      /\ ~e.deep /\ e.formulas /\ e.migrated
      /\ (e.oldest = 0 \/ Within("repair", e.oldest)) /\ (e.watermark = 0 \/ Within("watermark", e.watermark))
<1> TAKE e \in Kinds.rollup
<1>1. e.oldest \in Nat /\ e.watermark \in Nat
  BY DEF Kinds
<1>2. /\ e.oldest # 0 => (Within("repair", e.oldest) <=> ~Over("repair", e.oldest))
      /\ e.watermark # 0 => (Within("watermark", e.watermark) <=> ~Over("watermark", e.watermark))
  BY <1>1, WithinIsNotOver
<1>3. RollupOutcome(e) = "pass" <=>
        /\ ~(e.deep \/ (e.oldest # 0 /\ Over("repair", e.oldest)) \/ (e.watermark # 0 /\ Over("watermark", e.watermark)))
        /\ e.formulas /\ e.migrated
  BY DEF RollupOutcome
<1> QED BY <1>2, <1>3

\* The worst of some lanes is one of them, and no worse is there.
LEMMA WorstIsThere ==
  ASSUME NEW lanes \in SUBSET Lane, lanes # {}
  PROVE  Worst(lanes) \in lanes /\ \A m \in lanes : Severity[m] <= Severity[Worst(lanes)]
<1>1. /\ Severity["agrees"] = 0 /\ Severity["degraded"] = 1 /\ Severity["mismatch"] = 2 /\ Severity["unknown_tolerance"] = 3
  BY DEF Severity
<1>2. \A l \in lanes : l \in {"agrees", "degraded", "mismatch", "unknown_tolerance"}
  BY DEF Lane
<1>3. \E l \in lanes : \A m \in lanes : Severity[m] <= Severity[l]
  <2>1. CASE "unknown_tolerance" \in lanes
    BY <1>1, <1>2, <2>1
  <2>2. CASE "unknown_tolerance" \notin lanes /\ "mismatch" \in lanes
    BY <1>1, <1>2, <2>2
  <2>3. CASE "unknown_tolerance" \notin lanes /\ "mismatch" \notin lanes /\ "degraded" \in lanes
    BY <1>1, <1>2, <2>3
  <2>4. CASE "unknown_tolerance" \notin lanes /\ "mismatch" \notin lanes /\ "degraded" \notin lanes
    <3>1. "agrees" \in lanes
      BY <1>2, <2>4
    <3> QED BY <1>1, <1>2, <2>4, <3>1
  <2> QED BY <2>1, <2>2, <2>3, <2>4
<1> QED BY <1>3 DEF Worst

LEMMA SessionsSound ==
  \A e \in Kinds.sessions :
    SessionsOutcome(e) = "pass" <=>
      \/ e.lanes = {"agrees"}
      \/ /\ e.lanes \subseteq {"agrees", "degraded"} /\ "degraded" \in e.lanes
         /\ e.tolerant /\ e.before # "agrees"
<1> TAKE e \in Kinds.sessions
<1>1. e.lanes \in SUBSET Lane /\ e.tolerant \in BOOLEAN /\ e.before \in {"none", "agrees", "degraded"}
  BY DEF Kinds, Values
<1>2. CASE e.lanes = {}
  BY <1>2 DEF SessionsOutcome
<1>3. CASE e.lanes # {}
  <2>1. PICK w : w = Worst(e.lanes)
    OBVIOUS
  <2>2. w \in e.lanes /\ (\A m \in e.lanes : Severity[m] <= Severity[w])
    BY <1>1, <1>3, <2>1, WorstIsThere
  <2>3. /\ Severity["agrees"] = 0 /\ Severity["degraded"] = 1 /\ Severity["mismatch"] = 2
        /\ Severity["unknown_tolerance"] = 3 /\ Severity["none"] = 0
    BY DEF Severity
  <2>4. \A m \in e.lanes : m \in {"agrees", "degraded", "mismatch", "unknown_tolerance"}
    BY <1>1 DEF Lane
  <2>5. SessionsOutcome(e) = "pass" <=>
          /\ w # "unknown_tolerance" /\ w # "mismatch"
          /\ ~(e.before # "none" /\ Severity[w] > Severity[e.before])
          /\ e.tolerant \/ e.lanes = {"agrees"}
    BY <1>3, <2>1 DEF SessionsOutcome
  <2>6. CASE w = "agrees"
    <3>1. e.lanes = {"agrees"}
      BY <2>2, <2>3, <2>4, <2>6
    <3> QED BY <1>1, <2>3, <2>5, <2>6, <3>1
  <2>7. CASE w = "degraded"
    <3>1. e.lanes \subseteq {"agrees", "degraded"} /\ "degraded" \in e.lanes /\ e.lanes # {"agrees"}
      BY <2>2, <2>3, <2>4, <2>7
    <3>2. (e.before # "none" /\ Severity[w] > Severity[e.before]) <=> e.before = "agrees"
      BY <1>1, <2>3, <2>7
    <3> QED BY <1>1, <2>5, <2>7, <3>1, <3>2
  <2>8. CASE w \in {"mismatch", "unknown_tolerance"}
    BY <2>2, <2>5, <2>8
  <2> QED BY <2>2, <2>4, <2>6, <2>7, <2>8
<1> QED BY <1>2, <1>3

LEMMA BackupSound ==
  ASSUME hour \in Nat
  PROVE  \A e \in Kinds.backup : BackupOutcome(e) = "pass" <=> e.checksum /\ Within("backup", e.at)
<1> TAKE e \in Kinds.backup
<1>1. e.at \in Nat
  BY DEF Kinds
<1>2. Within("backup", e.at) <=> e.at # 0 /\ ~Over("backup", e.at)
  BY <1>1, WithinIsNotOver
<1> QED BY <1>2 DEF BackupOutcome

LEMMA RestoreSound ==
  ASSUME hour \in Nat, lastTest \in [at : Nat, passed : BOOLEAN]
  PROVE  \A e \in Kinds.restore :
    Recorded(e, lastTest) => (RestoreOutcome(e) = "pass" <=> lastTest.passed /\ Within("restore", lastTest.at))
<1> TAKE e \in Kinds.restore
<1>1. lastTest.at \in Nat
  OBVIOUS
<1>2. Within("restore", lastTest.at) <=> lastTest.at # 0 /\ ~Over("restore", lastTest.at)
  BY <1>1, WithinIsNotOver
<1>3. RestoreOutcome(e) = "pass" <=> e.ran /\ e.passed /\ ~Over("restore", e.at)
  BY DEF RestoreOutcome
<1> QED BY <1>2, <1>3 DEF Recorded

LEMMA SoundIsBoolean == \A c \in Subjects : Sound(c) \in BOOLEAN
<1> TAKE c \in Subjects
<1>1. CASE c = "host"
  BY <1>1 DEF Sound
<1>2. CASE c = "endpoint"
  BY <1>2 DEF Sound
<1>3. CASE c = "source"
  BY <1>3 DEF Sound
<1>4. CASE c = "fixtures"
  BY <1>4 DEF Sound
<1>5. CASE c = "lag"
  BY <1>5 DEF Sound
<1>6. CASE c = "sessions"
  BY <1>6 DEF Sound
<1>7. CASE c = "rollup"
  BY <1>7 DEF Sound
<1>8. CASE c = "retention"
  BY <1>8 DEF Sound
<1>9. CASE c = "backup"
  BY <1>9 DEF Sound
<1>10. CASE c = "restore"
  BY <1>10 DEF Sound
<1> QED BY <1>1, <1>2, <1>3, <1>4, <1>5, <1>6, <1>7, <1>8, <1>9, <1>10 DEF Subjects

LEMMA OutcomeIsSound ==
  ASSUME ChecksInv, NEW c \in Examined PROVE Outcomes(c) = "pass" <=> Sound(c)
<1>1. c \in Subjects /\ hour \in Nat
  BY ExaminedAreKnown DEF ChecksInv
<1>2. /\ evidence.host \in Kinds.host /\ evidence.endpoint \in Kinds.endpoint /\ evidence.source \in Kinds.source
      /\ evidence.fixtures \in Kinds.fixtures /\ evidence.lag \in Kinds.lag /\ evidence.sessions \in Kinds.sessions
      /\ evidence.rollup \in Kinds.rollup /\ evidence.backup \in Kinds.backup /\ evidence.restore \in Kinds.restore
      /\ Recorded(evidence.restore, lastTest) /\ lastTest \in [at : Nat, passed : BOOLEAN]
  BY DEF ChecksInv, EvidenceState
<1>3. CASE c = "host"
  <2>1. Outcomes(c) = HostOutcome(evidence.host)
    BY <1>3 DEF Outcomes
  <2>2. Sound(c) <=> evidence.host.executable /\ evidence.host.root /\ evidence.host.plan # "drifted" /\ evidence.host.inventory = "ok"
    BY <1>3 DEF Sound
  <2> QED BY <1>2, <2>1, <2>2, HostSound
<1>4. CASE c = "endpoint"
  <2>1. Outcomes(c) = EndpointOutcome(evidence.endpoint)
    BY <1>4 DEF Outcomes
  <2> QED BY <1>2, <1>4, <2>1, EndpointSound DEF Sound
<1>5. CASE c = "source"
  <2>1. Outcomes(c) = SourceOutcome(evidence.source)
    BY <1>5 DEF Outcomes
  <2> QED BY <1>1, <1>2, <1>5, <2>1, SourceSound DEF Sound
<1>6. CASE c = "fixtures"
  <2>1. Outcomes(c) = FixturesOutcome(evidence.fixtures)
    BY <1>6 DEF Outcomes
  <2> QED BY <1>2, <1>6, <2>1, FixturesSound DEF Sound
<1>7. CASE c = "lag"
  <2>1. Outcomes(c) = LagOutcome(evidence.lag)
    BY <1>7 DEF Outcomes
  <2> QED BY <1>1, <1>2, <1>7, <2>1, LagSound DEF Sound
<1>8. CASE c = "sessions"
  <2>1. Outcomes(c) = SessionsOutcome(evidence.sessions)
    BY <1>8 DEF Outcomes
  <2> QED BY <1>2, <1>8, <2>1, SessionsSound DEF Sound
<1>9. CASE c = "rollup"
  <2>1. Outcomes(c) = RollupOutcome(evidence.rollup)
    BY <1>9 DEF Outcomes
  <2> QED BY <1>1, <1>2, <1>9, <2>1, RollupSound DEF Sound
<1>10. CASE c = "retention"
  BY <1>10 DEF Outcomes, Sound
<1>11. CASE c = "backup"
  <2>1. Outcomes(c) = BackupOutcome(evidence.backup)
    BY <1>11 DEF Outcomes
  <2> QED BY <1>1, <1>2, <1>11, <2>1, BackupSound DEF Sound
<1>12. CASE c = "restore"
  <2>1. Outcomes(c) = RestoreOutcome(evidence.restore)
    BY <1>12 DEF Outcomes
  <2> QED BY <1>1, <1>2, <1>12, <2>1, RestoreSound DEF Sound
<1> QED BY <1>1, <1>3, <1>4, <1>5, <1>6, <1>7, <1>8, <1>9, <1>10, <1>11, <1>12 DEF Subjects

-----------------------------------------------------------------------------
LEMMA ChecksInitInv == CheckInit => ChecksInv
<1> SUFFICES ASSUME CheckInit PROVE ChecksInv
  OBVIOUS
<1>1. evidence \in EvidenceState
  BY DEF CheckInit, Plain, EvidenceState, Kinds, Values, Lane, Replay
<1>2. Recorded(evidence.restore, lastTest) /\ lastTest \in [at : Nat, passed : BOOLEAN]
  BY DEF CheckInit, Plain, Recorded
<1>3. DOMAIN row = Examined /\ \A c \in Examined : RowFits(row[c])
  BY DEF CheckInit, NotRun, RowFits
<1>4. dimension \in Followed /\ supported \in BOOLEAN
  BY DEF CheckInit
<1>5. hour = 1 /\ changed = 0
  BY DEF CheckInit
<1> QED BY <1>1, <1>2, <1>3, <1>4, <1>5 DEF ChecksInv

\* A step that leaves the rows alone.
LEMMA RowsLeft ==
  ASSUME ChecksInv, UNCHANGED <<dimension, supported, row>>, hour' \in 1 .. LastHour, changed' \in 0 .. MaxChange,
         evidence' \in EvidenceState, Recorded(evidence'.restore, lastTest'), lastTest' \in [at : Nat, passed : BOOLEAN]
  PROVE  ChecksInv'
<1>1. Examined' = Examined
  BY DEF Examined
<1> QED BY <1>1 DEF ChecksInv

\* The subject of a check gets other evidence.
LEMMA EvidenceOfOne ==
  ASSUME NEW old \in EvidenceState, NEW c \in Subjects, NEW e, e \in Kinds[c]
  PROVE  [old EXCEPT ![c] = e] \in EvidenceState /\ (c # "restore" => [old EXCEPT ![c] = e].restore = old.restore)
<1>1. /\ c = "host" => e \in Kinds.host
      /\ c = "endpoint" => e \in Kinds.endpoint
      /\ c = "source" => e \in Kinds.source
      /\ c = "fixtures" => e \in Kinds.fixtures
      /\ c = "lag" => e \in Kinds.lag
      /\ c = "sessions" => e \in Kinds.sessions
      /\ c = "rollup" => e \in Kinds.rollup
      /\ c = "retention" => e \in Kinds.retention
      /\ c = "backup" => e \in Kinds.backup
      /\ c = "restore" => e \in Kinds.restore
  OBVIOUS
<1> QED BY <1>1 DEF EvidenceState, Subjects

LEMMA EvidenceStep == ASSUME ChecksInv, EvidenceChanges PROVE ChecksInv'
<1>0. PICK c \in Examined : \E v \in Values[c] :
        /\ c \notin {"backup", "restore"}
        /\ evidence' = [evidence EXCEPT ![c] = [f \in DOMAIN evidence[c] |-> IF f \in Timed THEN evidence[c][f] ELSE v[f]]]
  BY DEF EvidenceChanges
<1>1. PICK v \in Values[c] :
        /\ c \notin {"backup", "restore"}
        /\ evidence' = [evidence EXCEPT ![c] = [f \in DOMAIN evidence[c] |-> IF f \in Timed THEN evidence[c][f] ELSE v[f]]]
  BY <1>0
<1>2. PICK e : e = [f \in DOMAIN evidence[c] |-> IF f \in Timed THEN evidence[c][f] ELSE v[f]]
  OBVIOUS
<1>3. c \in Subjects /\ evidence \in EvidenceState
  BY ExaminedAreKnown DEF ChecksInv
<1>4. e \in Kinds[c]
  <2>1. CASE c = "host"
    <3>1. evidence[c] \in Values.host /\ v \in Values.host
      BY <1>3, <2>1 DEF EvidenceState, Kinds
    <3>2. e \in Values.host
      BY <1>2, <3>1 DEF Values, Timed
    <3> QED BY <2>1, <3>2 DEF Kinds
  <2>2. CASE c = "endpoint"
    <3>1. evidence[c] \in Values.endpoint /\ v \in Values.endpoint
      BY <1>3, <2>2 DEF EvidenceState, Kinds
    <3>2. e \in Values.endpoint
      BY <1>2, <3>1 DEF Values, Timed
    <3> QED BY <2>2, <3>2 DEF Kinds
  <2>3. CASE c = "fixtures"
    <3>1. evidence[c] \in Values.fixtures /\ v \in Values.fixtures
      BY <1>3, <2>3 DEF EvidenceState, Kinds
    <3>2. e \in Values.fixtures
      BY <1>2, <3>1 DEF Values, Timed
    <3> QED BY <2>3, <3>2 DEF Kinds
  <2>4. CASE c = "sessions"
    <3>1. evidence[c] \in Values.sessions /\ v \in Values.sessions
      BY <1>3, <2>4 DEF EvidenceState, Kinds
    <3>2. e \in Values.sessions
      BY <1>2, <3>1 DEF Values, Timed
    <3> QED BY <2>4, <3>2 DEF Kinds
  <2>5. CASE c = "retention"
    <3>1. evidence[c] \in Values.retention /\ v \in Values.retention
      BY <1>3, <2>5 DEF EvidenceState, Kinds
    <3>2. e \in Values.retention
      BY <1>2, <3>1 DEF Values, Timed
    <3> QED BY <2>5, <3>2 DEF Kinds
  <2>6. CASE c = "source"
    <3>1. evidence[c] \in Kinds.source /\ v \in Values.source
      BY <1>3, <2>6 DEF EvidenceState
    <3> QED BY <1>2, <2>6, <3>1 DEF Values, Kinds, Timed
  <2>7. CASE c = "lag"
    <3>1. evidence[c] \in Kinds.lag /\ v \in Values.lag
      BY <1>3, <2>7 DEF EvidenceState
    <3> QED BY <1>2, <2>7, <3>1 DEF Values, Kinds, Timed
  <2>8. CASE c = "rollup"
    <3>1. evidence[c] \in Kinds.rollup /\ v \in Values.rollup
      BY <1>3, <2>8 DEF EvidenceState
    <3> QED BY <1>2, <2>8, <3>1 DEF Values, Kinds, Timed
  <2> QED BY <1>1, <1>3, <2>1, <2>2, <2>3, <2>4, <2>5, <2>6, <2>7, <2>8 DEF Subjects
<1>5. evidence' = [evidence EXCEPT ![c] = e]
  BY <1>1, <1>2
<1>6. evidence' \in EvidenceState /\ evidence'.restore = evidence.restore
  <2>1. c # "restore"
    BY <1>1
  <2>2. [evidence EXCEPT ![c] = e] \in EvidenceState /\ (c # "restore" => [evidence EXCEPT ![c] = e].restore = evidence.restore)
    BY <1>3, <1>4, EvidenceOfOne
  <2> QED BY <1>5, <2>1, <2>2
<1>7. UNCHANGED <<dimension, supported, row, hour, lastTest>> /\ changed' \in 0 .. MaxChange
  BY DEF EvidenceChanges, Changes, ChecksInv
<1> QED BY <1>6, <1>7, RowsLeft DEF ChecksInv

LEMMA SourceStep == ASSUME ChecksInv, SourceMoves PROVE ChecksInv'
<1>1. hour \in Nat /\ evidence \in EvidenceState
  BY DEF ChecksInv
<1>2. evidence' \in EvidenceState /\ evidence'.restore = evidence.restore
  <2>1. CASE evidence' = [evidence EXCEPT !.source.active = hour]
    <3>1. PICK e : e = [evidence.source EXCEPT !.active = hour]
      OBVIOUS
    <3>2. evidence' = [evidence EXCEPT !["source"] = e]
      BY <1>1, <2>1, <3>1 DEF EvidenceState
    <3>3. e \in Kinds.source
      BY <1>1, <3>1 DEF EvidenceState, Kinds
    <3> QED BY <1>1, <3>2, <3>3, EvidenceOfOne DEF Subjects
  <2>2. CASE evidence' = [evidence EXCEPT !.lag.received = hour]
    <3>1. PICK e : e = [evidence.lag EXCEPT !.received = hour]
      OBVIOUS
    <3>2. evidence' = [evidence EXCEPT !["lag"] = e]
      BY <1>1, <2>2, <3>1 DEF EvidenceState
    <3>3. e \in Kinds.lag
      BY <1>1, <3>1 DEF EvidenceState, Kinds
    <3> QED BY <1>1, <3>2, <3>3, EvidenceOfOne DEF Subjects
  <2>3. ASSUME NEW at \in {0, hour}, evidence' = [evidence EXCEPT !.rollup.oldest = at]
        PROVE  evidence' \in EvidenceState /\ evidence'.restore = evidence.restore
    <3>1. PICK e : e = [evidence.rollup EXCEPT !.oldest = at]
      OBVIOUS
    <3>2. evidence' = [evidence EXCEPT !["rollup"] = e]
      BY <1>1, <2>3, <3>1 DEF EvidenceState
    <3>3. e \in Kinds.rollup
      BY <1>1, <3>1 DEF EvidenceState, Kinds
    <3> QED BY <1>1, <3>2, <3>3, EvidenceOfOne DEF Subjects
  <2>4. ASSUME NEW at \in {0, hour}, evidence' = [evidence EXCEPT !.rollup.watermark = at]
        PROVE  evidence' \in EvidenceState /\ evidence'.restore = evidence.restore
    <3>1. PICK e : e = [evidence.rollup EXCEPT !.watermark = at]
      OBVIOUS
    <3>2. evidence' = [evidence EXCEPT !["rollup"] = e]
      BY <1>1, <2>4, <3>1 DEF EvidenceState
    <3>3. e \in Kinds.rollup
      BY <1>1, <3>1 DEF EvidenceState, Kinds
    <3> QED BY <1>1, <3>2, <3>3, EvidenceOfOne DEF Subjects
  <2> QED BY <2>1, <2>2, <2>3, <2>4 DEF SourceMoves
<1>3. UNCHANGED <<dimension, supported, row, hour, lastTest>> /\ changed' \in 0 .. MaxChange
  BY DEF SourceMoves, Changes, ChecksInv
<1> QED BY <1>2, <1>3, RowsLeft DEF ChecksInv

LEMMA BackupStep == ASSUME ChecksInv, RunBackupCycle PROVE ChecksInv'
<1>1. PICK checksum \in BOOLEAN, scratch \in BOOLEAN, passed \in BOOLEAN :
        LET ran == scratch /\ checksum
        IN  /\ evidence' = [evidence EXCEPT !.backup = [at |-> hour, checksum |-> checksum],
                                            !.restore = PersistRestore(evidence.restore, hour, ran, ran /\ passed)]
            /\ lastTest' = IF ran THEN [at |-> hour, passed |-> passed] ELSE lastTest
  BY Zenon DEF RunBackupCycle
<1>2. PICK ran \in BOOLEAN : ran <=> scratch /\ checksum
  OBVIOUS
<1>3. /\ evidence \in EvidenceState /\ hour \in Nat \ {0} /\ lastTest \in [at : Nat, passed : BOOLEAN]
      /\ evidence.restore \in Kinds.restore /\ Recorded(evidence.restore, lastTest)
  BY DEF ChecksInv, EvidenceState
<1>4. PICK b, t : /\ b = [at |-> hour, checksum |-> checksum]
                  /\ t = PersistRestore(evidence.restore, hour, scratch /\ checksum, (scratch /\ checksum) /\ passed)
  OBVIOUS
<1>5. evidence' = [evidence EXCEPT !.backup = b, !.restore = t]
  BY <1>1, <1>4
<1>6. b \in Kinds.backup
  BY <1>3, <1>4 DEF Kinds
<1>7. t \in Kinds.restore /\ lastTest' \in [at : Nat, passed : BOOLEAN] /\ Recorded(t, lastTest')
  <2>1. CASE scratch /\ checksum
    <3>1. t = [at |-> hour, ran |-> TRUE, passed |-> passed]
      <4>1. t.at = hour /\ t = [at |-> t.at, ran |-> t.ran, passed |-> t.passed]
        BY <1>4, <2>1 DEF PersistRestore
      <4>2. t.ran = TRUE /\ t.passed = passed
        BY <1>4, <2>1 DEF PersistRestore
      <4> QED BY <4>1, <4>2
    <3>2. lastTest' = [at |-> hour, passed |-> passed]
      BY <1>1, <2>1
    <3> QED BY <1>3, <3>1, <3>2 DEF Kinds, Recorded
  <2>2. CASE ~(scratch /\ checksum)
    <3>1. lastTest' = lastTest
      BY <1>1, <2>2
    <3>2. t.at = evidence.restore.at /\ t.passed = evidence.restore.passed /\ t = [at |-> t.at, ran |-> t.ran, passed |-> t.passed]
      BY <1>4, <2>2 DEF PersistRestore
    <3>3. t.ran \in BOOLEAN /\ (t.ran <=> evidence.restore.ran)
      BY <1>3, <1>4, <2>2 DEF PersistRestore, Kinds
    <3>4. t \in Kinds.restore
      BY <1>3, <3>2, <3>3 DEF Kinds
    <3> QED BY <1>3, <3>1, <3>2, <3>3, <3>4 DEF Recorded
  <2> QED BY <2>1, <2>2
<1>8. evidence' \in EvidenceState /\ evidence'.restore = t
  BY <1>3, <1>5, <1>6, <1>7 DEF EvidenceState
<1>9. UNCHANGED <<dimension, supported, row, hour>> /\ changed' \in 0 .. MaxChange
  BY DEF RunBackupCycle, Changes, ChecksInv
<1> QED BY <1>7, <1>8, <1>9, RowsLeft DEF ChecksInv

\* A row is written.
LEMMA RowStep ==
  ASSUME ChecksInv, UNCHANGED <<dimension, supported, hour, evidence, changed, lastTest>>,
         NEW c, NEW entry, c \in Examined => RowFits(entry), row' = [row EXCEPT ![c] = entry]
  PROVE  ChecksInv'
<1>1. Examined' = Examined
  BY DEF Examined
<1>2. DOMAIN row' = Examined /\ \A d \in Examined : RowFits(row'[d])
  BY DEF ChecksInv
<1> QED BY <1>1, <1>2 DEF ChecksInv

LEMMA AuditStep == ASSUME ChecksInv, PendingRow \/ EvaluateRow PROVE ChecksInv'
<1>1. CASE PendingRow
  <2>1. PICK entry : entry = [NotRun EXCEPT !.status = "pending", !.at = hour]
    OBVIOUS
  <2>2. entry.status = "pending" /\ row' = [row EXCEPT ![Head(todo)] = entry]
    BY <1>1, <2>1 DEF PendingRow, NotRun
  <2>4. entry.at \in Nat
    BY <2>1 DEF NotRun, ChecksInv
  <2>3. RowFits(entry) /\ UNCHANGED <<dimension, supported, hour, evidence, changed, lastTest>>
    BY <1>1, <2>2, <2>4 DEF PendingRow, RowFits
  <2> QED BY <2>2, <2>3, RowStep
<1>2. CASE EvaluateRow
  <2>1. PICK c : c = Head(todo)
    OBVIOUS
  <2>2. PICK entry : entry = [status |-> IF Outcomes(c) \in {"pass", "skipped"} THEN Outcomes(c) ELSE "fail",
                              class |-> Outcomes(c), at |-> hour, sound |-> Sound(c)]
    OBVIOUS
  <2>3. row' = [row EXCEPT ![c] = entry] /\ UNCHANGED <<dimension, supported, hour, evidence, changed, lastTest>>
    BY <1>2, <2>1, <2>2 DEF EvaluateRow
  <2>4. ASSUME c \in Examined PROVE RowFits(entry)
    <3>1. Outcomes(c) = "pass" <=> Sound(c)
      BY <2>4, OutcomeIsSound
    <3>2. Sound(c) \in BOOLEAN
      BY <2>4, ExaminedAreKnown, SoundIsBoolean DEF ChecksInv
    <3>3. entry.status \in {"pass", "fail", "skipped"} /\ (entry.status = "pass" <=> Outcomes(c) = "pass")
      BY <2>2
    <3>4. entry.sound = Sound(c) /\ entry.at \in Nat
      BY <2>2 DEF ChecksInv
    <3> QED BY <3>1, <3>2, <3>3, <3>4 DEF RowFits
  <2> QED BY <2>3, <2>4, RowStep
<1> QED BY <1>1, <1>2

LEMMA ChecksInvStep == ChecksInv /\ [CheckNext]_checkVars => ChecksInv'
<1> SUFFICES ASSUME ChecksInv, [CheckNext]_checkVars PROVE ChecksInv'
  OBVIOUS
<1>1. CASE HourPasses \/ AuditBegins \/ AuditInterrupted \/ UNCHANGED checkVars
  <2>1. UNCHANGED <<dimension, supported, row, evidence, lastTest>> /\ hour' \in 1 .. LastHour
    BY <1>1 DEF HourPasses, AuditBegins, AuditInterrupted, checkVars, ChecksInv
  <2>2. changed' \in 0 .. MaxChange
    BY <1>1 DEF HourPasses, AuditBegins, AuditInterrupted, Changes, checkVars, ChecksInv
  <2> QED BY <2>1, <2>2, RowsLeft DEF ChecksInv
<1> QED BY <1>1, EvidenceStep, SourceStep, BackupStep, AuditStep DEF CheckNext

LEMMA ChecksInvariant == CheckSpec => []ChecksInv
BY ChecksInitInv, ChecksInvStep, PTL DEF CheckSpec

-----------------------------------------------------------------------------
\* A finding has a class, its row names it, an incident is one of a finding, and the last
\* finding of a finished audit has one.
FindingClass == Red \cup {"eligibility_unknown"}
AlarmsInv ==
  /\ \A c \in Examined : row[c].status = "fail" <=> row[c].class \in FindingClass
  /\ \A a \in alarms : a.check \in Examined /\ a.class \in FindingClass
  /\ \A c \in Examined : judged[c] \in FindingClass => \E a \in alarms : a.check = c /\ a.class = judged[c]

LEMMA OutcomeIsNamed == \A c \in Subjects : Outcomes(c) \in {"pass", "skipped"} \cup FindingClass
<1> TAKE c \in Subjects
<1>1. CASE c = "host"
  <2>1. Outcomes(c) = HostOutcome(evidence.host)
    BY <1>1 DEF Outcomes
  <2> QED BY <2>1 DEF HostOutcome, FindingClass, Red
<1>2. CASE c = "endpoint"
  <2>1. Outcomes(c) = EndpointOutcome(evidence.endpoint)
    BY <1>2 DEF Outcomes
  <2> QED BY <2>1 DEF EndpointOutcome, FindingClass, Red
<1>3. CASE c = "source"
  <2>1. Outcomes(c) = SourceOutcome(evidence.source)
    BY <1>3 DEF Outcomes
  <2> QED BY <2>1 DEF SourceOutcome, FindingClass, Red
<1>4. CASE c = "fixtures"
  <2>1. Outcomes(c) = FixturesOutcome(evidence.fixtures)
    BY <1>4 DEF Outcomes
  <2> QED BY <2>1 DEF FixturesOutcome, FindingClass, Red
<1>5. CASE c = "lag"
  <2>1. Outcomes(c) = LagOutcome(evidence.lag)
    BY <1>5 DEF Outcomes
  <2> QED BY <2>1 DEF LagOutcome, FindingClass, Red
<1>6. CASE c = "sessions"
  <2>1. Outcomes(c) = SessionsOutcome(evidence.sessions)
    BY <1>6 DEF Outcomes
  <2> QED BY <2>1 DEF SessionsOutcome, FindingClass, Red
<1>7. CASE c = "rollup"
  <2>1. Outcomes(c) = RollupOutcome(evidence.rollup)
    BY <1>7 DEF Outcomes
  <2> QED BY <2>1 DEF RollupOutcome, FindingClass, Red
<1>8. CASE c = "retention"
  BY <1>8 DEF Outcomes, FindingClass, Red
<1>9. CASE c = "backup"
  <2>1. Outcomes(c) = BackupOutcome(evidence.backup)
    BY <1>9 DEF Outcomes
  <2> QED BY <2>1 DEF BackupOutcome, FindingClass, Red
<1>10. CASE c = "restore"
  <2>1. Outcomes(c) = RestoreOutcome(evidence.restore)
    BY <1>10 DEF Outcomes
  <2> QED BY <2>1 DEF RestoreOutcome, FindingClass, Red
<1> QED BY <1>1, <1>2, <1>3, <1>4, <1>5, <1>6, <1>7, <1>8, <1>9, <1>10 DEF Subjects

\* What the incidents of a check become names findings too.
LEMMA ReportedIsNamed ==
  ASSUME AlarmsInv, NEW c \in Examined, NEW outcome, outcome.status = "fail" => outcome.class \in FindingClass,
         NEW a \in Reported(c, outcome)
  PROVE  a.check \in Examined /\ a.class \in FindingClass
<1>1. a \in AlarmsOf(c) \/ (outcome.status = "fail" /\ a = Alarm(c, outcome))
  BY DEF Reported
<1> QED BY <1>1 DEF AlarmsOf, Alarm, AlarmsInv

\* The incident of a finding is reported, and only a pass takes one back.
LEMMA ReportedTells ==
  ASSUME NEW c, NEW outcome
  PROVE  /\ outcome.status = "fail" => \E a \in Reported(c, outcome) : a.check = c /\ a.class = outcome.class
         /\ outcome.status = "skipped" => Reported(c, outcome) = AlarmsOf(c)
<1>1. ASSUME outcome.status = "fail" PROVE \E a \in Reported(c, outcome) : a.check = c /\ a.class = outcome.class
  <2>1. CASE \E a \in AlarmsOf(c) : a.class = outcome.class
    <3>1. Reported(c, outcome) = AlarmsOf(c)
      BY <1>1, <2>1 DEF Reported
    <3> QED BY <2>1, <3>1 DEF AlarmsOf
  <2>2. CASE ~\E a \in AlarmsOf(c) : a.class = outcome.class
    <3>1. Alarm(c, outcome) \in Reported(c, outcome)
      BY <1>1, <2>2 DEF Reported
    <3>2. Alarm(c, outcome).check = c /\ Alarm(c, outcome).class = outcome.class
      BY DEF Alarm
    <3> QED BY <3>1, <3>2
  <2> QED BY <2>1, <2>2
<1>2. outcome.status = "skipped" => Reported(c, outcome) = AlarmsOf(c)
  BY DEF Reported
<1> QED BY <1>1, <1>2

LEMMA SameDimension == [CheckNext]_checkVars => dimension' = dimension
<1>1. HourPasses \/ AuditBegins \/ PendingRow \/ AuditInterrupted => dimension' = dimension
  BY DEF HourPasses, AuditBegins, PendingRow, AuditInterrupted
<1>2. EvidenceChanges => dimension' = dimension
  BY Zenon DEF EvidenceChanges
<1>3. SourceMoves => dimension' = dimension
  BY Zenon DEF SourceMoves
<1>4. RunBackupCycle => dimension' = dimension
  BY Zenon DEF RunBackupCycle
<1>5. EvaluateRow => dimension' = dimension
  BY Zenon DEF EvaluateRow
<1> QED BY <1>1, <1>2, <1>3, <1>4, <1>5 DEF CheckNext, checkVars

LEMMA AlarmsStand ==
  ASSUME Examined' = Examined,
         \A d \in Examined : row'[d].status = "fail" <=> row'[d].class \in FindingClass,
         \A a \in alarms' : a.check \in Examined /\ a.class \in FindingClass,
         \A d \in Examined : judged'[d] \in FindingClass => \E a \in alarms' : a.check = d /\ a.class = judged'[d]
  PROVE  AlarmsInv'
BY DEF AlarmsInv, FindingClass, Red

LEMMA OnlyAuditsReport ==
  [CheckNext]_checkVars => UNCHANGED <<row, alarms, judged>> \/ PendingRow \/ EvaluateRow
<1>1. HourPasses \/ AuditBegins \/ AuditInterrupted => UNCHANGED <<row, alarms, judged>>
  BY DEF HourPasses, AuditBegins, AuditInterrupted
<1>2. EvidenceChanges => UNCHANGED <<row, alarms, judged>>
  BY Zenon DEF EvidenceChanges
<1>3. SourceMoves => UNCHANGED <<row, alarms, judged>>
  BY Zenon DEF SourceMoves
<1>4. RunBackupCycle => UNCHANGED <<row, alarms, judged>>
  BY Zenon DEF RunBackupCycle
<1>5. UNCHANGED checkVars => UNCHANGED <<row, alarms, judged>>
  BY DEF checkVars
<1> QED BY <1>1, <1>2, <1>3, <1>4, <1>5 DEF CheckNext

LEMMA AlarmsInvStep == ChecksInv /\ AlarmsInv /\ [CheckNext]_checkVars => AlarmsInv'
<1> SUFFICES ASSUME ChecksInv, AlarmsInv, [CheckNext]_checkVars PROVE AlarmsInv'
  OBVIOUS
<1>0. Examined' = Examined /\ DOMAIN row = Examined
  BY SameDimension DEF Examined, ChecksInv
<1>1. CASE UNCHANGED <<row, alarms, judged>>
  BY <1>0, <1>1 DEF AlarmsInv
<1>2. CASE PendingRow
  <2>1. PICK c, entry : c = Head(todo) /\ entry = [NotRun EXCEPT !.status = "pending", !.at = hour]
    OBVIOUS
  <2>2. row' = [row EXCEPT ![c] = entry] /\ UNCHANGED <<alarms, judged>>
    BY <1>2, <2>1 DEF PendingRow
  <2>3. entry.status = "pending" /\ entry.class \notin FindingClass
    BY <2>1 DEF NotRun, FindingClass, Red
  <2>4. \A d \in Examined : row'[d].status = "fail" <=> row'[d].class \in FindingClass
    BY <1>0, <2>2, <2>3 DEF AlarmsInv
  <2> QED BY <1>0, <2>2, <2>4 DEF AlarmsInv
<1>3. CASE EvaluateRow
  <2>1. PICK c : c = Head(todo)
    OBVIOUS
  <2>2. PICK entry : entry = [status |-> IF Outcomes(c) \in {"pass", "skipped"} THEN Outcomes(c) ELSE "fail",
                              class |-> Outcomes(c), at |-> hour, sound |-> Sound(c)]
    OBVIOUS
  <2>3. row' = [row EXCEPT ![c] = entry]
    BY <1>3, <2>1, <2>2 DEF EvaluateRow
  <2>4. ASSUME c \in Examined PROVE entry.status = "fail" <=> entry.class \in FindingClass
    <3>1. Outcomes(c) \in {"pass", "skipped"} \cup FindingClass
      BY <2>4, ExaminedAreKnown, OutcomeIsNamed DEF ChecksInv
    <3>2. "pass" \notin FindingClass /\ "skipped" \notin FindingClass
      BY DEF FindingClass, Red
    <3>3. entry.class = Outcomes(c) /\ (entry.status = "fail" <=> Outcomes(c) \notin {"pass", "skipped"})
      BY <2>2, <3>1, <3>2
    <3> QED BY <3>1, <3>2, <3>3
  <2>5. \A d \in Examined : row'[d].status = "fail" <=> row'[d].class \in FindingClass
    BY <1>0, <2>3, <2>4 DEF AlarmsInv
  <2>6. \A a \in alarms' : a.check \in Examined /\ a.class \in FindingClass
    <3>1. CASE alarms' = alarms
      BY <3>1 DEF AlarmsInv
    <3>2. CASE alarms' = UNION {Reported(d, row'[d]) : d \in Examined}
      <4> SUFFICES ASSUME NEW d \in Examined, NEW a \in Reported(d, row'[d])
                   PROVE  a.check \in Examined /\ a.class \in FindingClass
        BY <3>2
      <4>1. PICK outcome : outcome = row'[d]
        OBVIOUS
      <4> QED BY <2>5, <4>1, ReportedIsNamed
    <3> QED BY <1>3, <3>1, <3>2 DEF EvaluateRow
  <2>7. ASSUME NEW d \in Examined, judged'[d] \in FindingClass
        PROVE  \E a \in alarms' : a.check = d /\ a.class = judged'[d]
    <3>1. CASE UNCHANGED <<alarms, judged>>
      BY <2>7, <3>1 DEF AlarmsInv
    <3>2. CASE /\ alarms' = UNION {Reported(e, row'[e]) : e \in Examined}
               /\ judged' = [e \in Examined |-> IF row'[e].status = "skipped" THEN judged[e] ELSE row'[e].class]
      <4>1. PICK outcome : outcome = row'[d]
        OBVIOUS
      <4>2. Reported(d, outcome) \subseteq alarms'
        BY <3>2, <4>1
      <4>3. CASE outcome.status = "skipped"
        <5>1. judged'[d] = judged[d]
          BY <3>2, <4>1, <4>3
        <5>2. PICK a \in alarms : a.check = d /\ a.class = judged[d]
          BY <2>7, <5>1 DEF AlarmsInv
        <5>3. a \in Reported(d, outcome)
          BY <4>3, <5>2, ReportedTells DEF AlarmsOf
        <5> QED BY <4>2, <5>1, <5>2, <5>3
      <4>4. CASE outcome.status # "skipped"
        <5>1. judged'[d] = outcome.class
          BY <3>2, <4>1, <4>4
        <5>2. outcome.status = "fail"
          BY <2>5, <2>7, <4>1, <5>1
        <5> QED BY <4>2, <5>1, <5>2, ReportedTells
      <4> QED BY <4>3, <4>4
    <3> QED BY <1>3, <3>1, <3>2 DEF EvaluateRow
  <2>8. \A d \in Examined : judged'[d] \in FindingClass => \E a \in alarms' : a.check = d /\ a.class = judged'[d]
    BY <2>7
  <2> QED BY <1>0, <2>5, <2>6, <2>8, AlarmsStand
<1>4. UNCHANGED <<row, alarms, judged>> \/ PendingRow \/ EvaluateRow
  BY OnlyAuditsReport
<1> QED BY <1>1, <1>2, <1>3, <1>4

LEMMA AlarmsInvariant == CheckSpec => [](ChecksInv /\ AlarmsInv)
<1>1. CheckInit => AlarmsInv
  BY DEF CheckInit, NotRun, AlarmsInv, FindingClass, Red
<1> QED BY <1>1, AlarmsInvStep, ChecksInvariant, PTL DEF CheckSpec

-----------------------------------------------------------------------------
(* What the health says of it.                                             *)

\* Only a finding has dimensions.
LEMMA DimensionsOfFindings == \A class : FailureClassDimensions(class) # {} => class \in FindingClass
BY DEF FailureClassDimensions, FindingClass, Red

\* What an open incident tells shows in the dimensions of its class, and green is
\* derived only where none tells.
LEMMA TellingShows ==
  ASSUME NEW d
  PROVE  /\ Telling(d) # {} => Shows(d)
         /\ "green" \in DeriveHealth(d) => Telling(d) = {} /\ "green" \in DeriveDimension(d)
<1>1. \A class : Color(class) \in {"red", "yellow"}
  BY DEF Color
<1> QED BY <1>1 DEF DeriveHealth, Shows

LEMMA JudgedShow ==
  ASSUME AlarmsInv, NEW c \in Examined, NEW d \in FailureClassDimensions(judged[c])
  PROVE  Telling(d) # {}
<1>1. judged[c] \in FindingClass
  BY DimensionsOfFindings
<1>2. PICK a \in alarms : a.check = c /\ a.class = judged[c]
  BY <1>1 DEF AlarmsInv
<1> QED BY <1>2 DEF Telling

LEMMA HealthFacts == ChecksInv /\ AlarmsInv => HealthIsHonest
<1> SUFFICES ASSUME ChecksInv, AlarmsInv PROVE HealthIsHonest
  OBVIOUS
<1>1. \A c \in Examined : RowFits(row[c])
  BY DEF ChecksInv
<1>2. OutcomesAreSound
  BY <1>1 DEF OutcomesAreSound, RowFits
<1>3. \A class : Color(class) \in {"red", "yellow"}
  BY DEF Color
<1>4. FindingsShow
  <2>1. ASSUME NEW d, supported, Failing(d) # {} PROVE Shows(d)
    <3>1. Seen(d) # {}
      BY <2>1 DEF Failing
    <3>2. DeriveDimension(d) \subseteq {"red", "yellow"}
      BY <1>3, <2>1, <3>1 DEF DeriveDimension
    <3> QED BY <3>2, TellingShows DEF DeriveHealth, Shows
  <2> QED BY <2>1, JudgedShow, TellingShows DEF FindingsShow
<1>5. ASSUME NEW d \in DOMAIN Stages, "green" \in DeriveHealth(d)
      PROVE  supported /\ Telling(d) = {} /\ \A s \in DOMAIN Stages[d] : StagePassed(d, Stages[d][s])
  <2>1. Telling(d) = {} /\ "green" \in DeriveDimension(d)
    BY <1>5, TellingShows
  <2> QED BY <1>3, <2>1 DEF DeriveDimension
<1>6. ASSUME NEW d \in DOMAIN Stages, NEW s \in DOMAIN Stages[d], StagePassed(d, Stages[d][s])
      PROVE  /\ Examiners(Stages[d][s]) # {}
             /\ \A c \in Examiners(Stages[d][s]) : row[c].sound /\ hour - row[c].at <= Budget["window"]
  <2> PICK checks : checks = Stages[d][s]
    OBVIOUS
  <2>0. checks \subseteq UNION Range(Stages[d])
    BY DEF Range
  <2>1. Examiners(checks) = checks \cap Seen(d)
    <3>1. \A c \in Examined : row[c].status \in {"pass", "fail"} <=> row[c].status \notin {"none", "pending", "skipped"}
      BY <1>1 DEF RowFits
    <3> QED BY <2>0, <3>1 DEF Examiners, Seen
  <2>2. \A c \in Examiners(checks) : c \in Examined /\ row[c].status = "pass" /\ ~Over("window", row[c].at)
    BY <1>6, <2>1 DEF StagePassed, Seen
  <2>3. \A c \in Examiners(checks) : row[c].sound
    BY <1>1, <2>2 DEF RowFits
  <2>4. \A c \in Examiners(checks) : hour - row[c].at <= Budget["window"]
    <3>1. \A c \in Examiners(checks) : row[c].at \in Nat
      BY <1>1, <2>2 DEF RowFits
    <3>2. hour \in Nat /\ Budget["window"] \in Nat
      BY DEF ChecksInv
    <3> QED BY <2>2, <3>1, <3>2 DEF Over
  <2> QED BY <1>6, <2>1, <2>3, <2>4 DEF StagePassed
<1>7. GreenIsEarned
  BY <1>5, <1>6, JudgedShow DEF GreenIsEarned
<1> QED BY <1>2, <1>4, <1>7 DEF HealthIsHonest

\* However evidence changes, ages and is examined again, and wherever an audit is cut
\* short, an outcome is what its evidence was, the last finding of a finished audit shows
\* in every dimension of its class, and green is earned: every stage passed on sound
\* evidence within the window, the newest restore test that ran included.
THEOREM HealthStaysHonest == CheckSpec => []HealthIsHonest
BY AlarmsInvariant, HealthFacts, PTL

LEMMA ChecksTyped == CheckSpec => []ChecksTypeOK
<1>2. ChecksInv /\ AlarmsInv => ChecksTypeOK
  <2> SUFFICES ASSUME ChecksInv, AlarmsInv PROVE ChecksTypeOK
    OBVIOUS
  <2>1. DOMAIN evidence = DOMAIN Values
    BY DEF ChecksInv, EvidenceState, Values
  <2> QED BY <2>1 DEF ChecksInv, AlarmsInv, RowFits, FindingClass, ChecksTypeOK
<1> QED BY <1>2, AlarmsInvariant, PTL

HIDE CheckAssumption
HIDE DEF Aged

-----------------------------------------------------------------------------
(* The engine as a whole.                                                  *)

LEMMA PartsBegin == Init => AuditInit /\ ProbeInit /\ CanaryInit /\ CheckInit
BY DEF Init

\* A behaviour of the whole is one of every part.
LEMMA PartsStep ==
  [Next]_vars => [AuditNext]_auditVars /\ [ProbeNext]_probeVars /\ [CanaryNext]_canaryVars /\ [CheckNext]_checkVars
<1>1. CASE UNCHANGED vars
  BY <1>1 DEF vars
<1>2. CASE Next
  BY <1>2 DEF Next
<1> QED BY <1>1, <1>2

LEMMA SpecSteps == Spec => Init /\ [][Next]_vars
BY PTL DEF Spec

LEMMA PartsOfSpec == Spec => AuditSpec /\ ProbeSpec /\ CanarySpec /\ CheckSpec
BY SpecSteps, PartsBegin, PartsStep, PTL DEF AuditSpec, ProbeSpec, CanarySpec, CheckSpec

\* Runs are exclusive and their passes earned in the whole as in the part.
THEOREM RunsAreSafe == Spec => [](OneLiveRun /\ PassedIsEarned)
BY PartsOfSpec, RunsAreExclusive, PassesAreEarned, PTL

\* What the engine says is true of what it saw: of the checks that act and of the
\* health of every dimension.
THEOREM EngineIsHonest == Spec => [](ProbesAreBounded /\ HealthIsHonest)
BY PartsOfSpec, ProbesStayBounded, HealthStaysHonest, PTL

\* Every part of the engine keeps its types: whatever is interrupted, an incident is
\* one of a check and a class there is, and no auditor works on a run without a row.
THEOREM IntegrityTyped == Spec => []IntegrityTypeOK
BY PartsOfSpec, RecordsStayTrue, ProbesTyped, ChecksTyped, PTL DEF IntegrityTypeOK

\* With one instance the open incidents are those the newest outcomes call for and the
\* incidents of a key follow each other, and what else is stored of the runs agrees,
\* for any checks, crashes, refused recoveries and failed finalizations.
THEOREM RecordsAreTrue == Spec => []RecordsAgree
BY PartsOfSpec, RecordsStayTrue, PTL
===============================================================================
