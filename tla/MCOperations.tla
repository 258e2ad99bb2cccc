----------------------------- MODULE MCOperations -----------------------------
(***************************************************************************)
(* The operations of the appliance side by side.  They share no state, so  *)
(* a behaviour follows one of them (focus) and the others stay initial.    *)
(***************************************************************************)
EXTENDS JobLease, Approvals, Artifacts, MirrorMigration, LocalGuard, Workbench,
        Installer, Soak, Migrations, TLC

VARIABLE focus

vars == <<focus, jobVars, approvalVars, artifactVars, mirrorVars, guardVars, workVars,
          installVars, soakVars, migrationVars>>

\* What clients send: what is right at each guard, and what is not quite.
Local(path, method, host, origin, bearer, csrf) ==
  [path |-> path, method |-> method, peer |-> "loopback", forwarded |-> FALSE, host |-> host,
   origin |-> origin, bearer |-> bearer, csrf |-> csrf]
Reading == Local("incident", "GET", "ui port", "none", "read", FALSE)
Triaging == Local("incident", "PATCH", "ui port", "own", "mutation", TRUE)
Arriving == Local("ingress", "POST", "ingress port", "none", "ingress", FALSE)
Clients == {Reading, Triaging, Arriving,
  [Triaging EXCEPT !.bearer = "read"], [Triaging EXCEPT !.csrf = FALSE],
  [Triaging EXCEPT !.path = "read"], [Triaging EXCEPT !.path = "mutation", !.origin = "none"],
  [Triaging EXCEPT !.host = "no port"], [Reading EXCEPT !.forwarded = TRUE],
  [Reading EXCEPT !.peer = "bridge"], [Arriving EXCEPT !.origin = "own"],
  [Arriving EXCEPT !.bearer = "none"]}

\* An unknown payload and evidence about a component.
Findings == <<[incident |-> 1, component |-> FALSE], [incident |-> 2, component |-> TRUE]>>

\* Two targets of one agent's file; headers are the user's to set.
AgentTargets == [t \in {"otel", "hook"} |->
  IF t = "otel" THEN [required |-> [telemetry |-> "planned"], forbidden |-> {"exporter"},
                      never |-> {"headers"}]
  ELSE [required |-> [hooks |-> "planned"], forbidden |-> {}, never |-> {}]]
AgentKeys == {"telemetry", "hooks", "headers", "exporter"}

\* Real faults after the first cycles.
SoakFaults == <<"process_restart", "database_restart", "stop_the_world_upgrade_boundary">>

\* Builds: one, the next, which embeds a checksum that is equivalent to the one
\* applied before, and one whose integrity migration was edited.
Builds == << << <<"a", "b">>, <<"x">>, <<"r">> >>,
             << <<"a", "b'">>, <<"x", "y">>, <<"r">> >>,
             << <<"a">>, <<"edited">>, <<"r", "s">> >> >>
SameSQL == {<<"b", "b'">>}

Init ==
  /\ focus \in {"jobs", "approvals", "artifacts", "mirror", "guard", "workbench", "installer",
               "soak", "migrations"}
  /\ JobInit /\ ApprovalInit /\ ArtifactInit /\ GuardInit /\ WorkInit /\ InstallInit
  /\ SoakInit /\ MigrateInit
  /\ IF focus = "mirror" THEN MirrorInit
     ELSE MirrorInit /\ dbKeys = {} /\ differing = {}

Next ==
  /\ UNCHANGED focus
  /\ \/ focus = "jobs" /\ JobNext
     \/ focus = "approvals" /\ ApprovalNext
     \/ focus = "artifacts" /\ ArtifactNext
     \/ focus = "mirror" /\ MirrorNext
     \/ focus = "guard" /\ GuardNext
     \/ focus = "workbench" /\ WorkNext
     \/ focus = "installer" /\ InstallNext
     \/ focus = "soak" /\ SoakNext
     \/ focus = "migrations" /\ MigrateNext
  /\ IF focus = "jobs" THEN TRUE ELSE UNCHANGED jobVars
  /\ IF focus = "approvals" THEN TRUE ELSE UNCHANGED approvalVars
  /\ IF focus = "artifacts" THEN TRUE ELSE UNCHANGED artifactVars
  /\ IF focus = "mirror" THEN TRUE ELSE UNCHANGED mirrorVars
  /\ IF focus = "guard" THEN TRUE ELSE UNCHANGED guardVars
  /\ IF focus = "workbench" THEN TRUE ELSE UNCHANGED workVars
  /\ IF focus = "installer" THEN TRUE ELSE UNCHANGED installVars
  /\ IF focus = "soak" THEN TRUE ELSE UNCHANGED soakVars
  /\ IF focus = "migrations" THEN TRUE ELSE UNCHANGED migrationVars

Elsewhere == <<focus, approvalVars, artifactVars, guardVars, workVars, installVars,
               soakVars, migrationVars>>

\* The goroutines of a live process run; the supervisor restarts one that ended.
Spec ==
  /\ Init /\ [][Next]_vars
  /\ WF_vars(focus = "mirror" /\ Progress /\ UNCHANGED <<jobVars, Elsewhere>>)
  /\ \A w \in Worker :
       WF_vars(focus = "jobs" /\ (RenewLease(w) \/ (stage[w] = "stopping" /\ HandlerReturns(w)))
               /\ UNCHANGED <<mirrorVars, Elsewhere>>)

\* Every part keeps its types, and the previews held in memory their limit.
OperationsTypeOK ==
  /\ JobTypeOK /\ ApprovalTypeOK /\ ArtifactTypeOK /\ MirrorTypeOK
  /\ GuardTypeOK /\ WorkTypeOK /\ InstallTypeOK /\ SoakTypeOK
  /\ MigrateTypeOK

\* What an operator and his clients rely on: requests are admitted in bounds and
\* only changes that are authorized are made, plans own only their keys, the
\* incidents he works on are in order while he reads them, and whatever he starts
\* has the schema it was built for.
OperatorIsServed == GuardHolds /\ PlansOwnOnlyTheirs /\ WorkbenchHolds /\ SchemaIsKnown

\* What is written for others to rely on is true: an artifact that is published
\* verifies, and the evidence of a soak is earned.
PublishedIsTrue == ArtifactsVerify /\ PassIsEarned

Symmetry == Permutations(Importer) \cup Permutations(Fact)
=============================================================================
