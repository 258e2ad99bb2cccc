----------------------------- MODULE SpoolSharing -----------------------------
(***************************************************************************)
(* One spool file and several processes of the appliance on its volume     *)
(* (internal/observability/store.go and spool_linux.go; cmd/kansoku/main.go *)
(* builds a whole Appliance for every command; deploy/compose.yaml mounts  *)
(* kansoku-data into the service and into the one-shot commands).          *)
(*                                                                         *)
(* A process replays and drains the file when it starts, and appends to it *)
(* what PostgreSQL refuses.  The mutex of DurableSpool is one of a process, *)
(* so here it is the process being in one call at a time; between          *)
(* processes there are only the system calls.                              *)
(***************************************************************************)
EXTENDS DurableSpool

CONSTANTS
  Process,   \* the service and the one-shot commands
  MaxStart   \* bound: starts of processes

VARIABLES
  file,      \* the SpoolFile that bears the lane's name
  inode,     \* which file that is: a drain puts another one in its place
  process,   \* per process: [at, rec, fd, lines]
  stored,    \* records PostgreSQL holds
  acked,     \* records whose caller was told they are durable
  starts

sharingVars == <<file, inode, process, stored, acked, starts>>

Off == [at |-> "off", rec |-> CHOOSE r \in Records : TRUE, fd |-> 0, lines |-> <<>>]

SharingInit ==
  /\ file = EmptySpool /\ inode = 0
  /\ process = [p \in Process |-> Off]
  /\ stored = {} /\ acked = {} /\ starts = 0

Moves(p, from, to) == process[p].at = from /\ process' = [process EXCEPT ![p].at = to]

-----------------------------------------------------------------------------
\* NewAppliance: ReplaySpools reads the file once.
Start(p) ==
  /\ process[p].at = "off" /\ starts < MaxStart /\ starts' = starts + 1
  /\ process' = [process EXCEPT ![p] = [Off EXCEPT !.lines = file.frames,
       !.at = IF Undecodable(file) THEN "off"
              ELSE IF file.frames = <<>> THEN "serving" ELSE "replaying"]]
  /\ UNCHANGED <<file, inode, stored, acked>>

ReplayLine(p) ==
  /\ process[p].at = "replaying" /\ process[p].lines # <<>>
  /\ stored' = stored \cup {Head(process[p].lines).rec}
  /\ process' = [process EXCEPT ![p].lines = Tail(@)]
  /\ UNCHANGED <<file, inode, acked, starts>>

\* O_EXCL: the start fails where a ".drained" file exists, of a drain that was
\* interrupted or of one that another process is in the middle of.
CreateDrained(p) ==
  /\ process[p].lines = <<>>
  /\ IF file.temp THEN Moves(p, "replaying", "off") /\ UNCHANGED file
     ELSE Moves(p, "replaying", "draining") /\ file' = DrainCreated(file)
  /\ UNCHANGED <<inode, stored, acked, starts>>

RenameDrained(p) ==
  /\ Moves(p, "draining", "serving")
  /\ file' = DrainRenamed(file) /\ inode' = inode + 1
  /\ UNCHANGED <<stored, acked, starts>>

-----------------------------------------------------------------------------
\* runLane: a record PostgreSQL took, or one it refused and the file has room for.
Persist(p, r) ==
  /\ process[p].at = "serving" /\ stored' = stored \cup {r} /\ acked' = acked \cup {r}
  /\ UNCHANGED <<file, inode, process, starts>>

OpenSpool(p, r) ==
  /\ process[p].at = "serving" /\ r \notin acked /\ HasRoom(file)
  /\ process' = [process EXCEPT ![p].at = "opened", ![p].rec = r, ![p].fd = inode]
  /\ UNCHANGED <<file, inode, stored, acked, starts>>

\* The bytes go to the file that was opened, whatever has its name now.
WriteSpool(p) ==
  /\ Moves(p, "opened", "written")
  /\ file' = IF process[p].fd = inode THEN Appended(file, process[p].rec) ELSE file
  /\ UNCHANGED <<inode, stored, acked, starts>>

\* verifySpoolBinding, after the fsync: only a file that still has its name counts.
VerifySpool(p) ==
  /\ Moves(p, "written", "serving")
  /\ acked' = IF process[p].fd = inode THEN acked \cup {process[p].rec} ELSE acked
  /\ UNCHANGED <<file, inode, stored, starts>>

\* A command ends, or is killed; so is the service.
Stop(p) ==
  /\ process[p].at # "off" /\ process' = [process EXCEPT ![p] = Off]
  /\ UNCHANGED <<file, inode, stored, acked, starts>>

SharingNext ==
  \E p \in Process :
     \/ Start(p) \/ ReplayLine(p) \/ CreateDrained(p) \/ RenameDrained(p)
     \/ WriteSpool(p) \/ VerifySpool(p) \/ Stop(p)
     \/ \E r \in Records : Persist(p, r) \/ OpenSpool(p, r)

Spec == SharingInit /\ [][SharingNext]_sharingVars

-----------------------------------------------------------------------------
\* The comment of DurableIngressQueue (internal/runtime/queue.go:49-51): completion
\* is acknowledged only after PostgreSQL or the fsynced spool owns the record, so an
\* acknowledged record is in one of them from then on.
OwnedOnceAcked == acked \subseteq stored \cup Spooled(file)
=============================================================================
