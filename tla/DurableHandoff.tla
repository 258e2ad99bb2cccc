---------------------------- MODULE DurableHandoff ----------------------------
(***************************************************************************)
(* What the ingress boundary promises its clients, independent of lanes,   *)
(* files and processes: a record is first owned by durable storage, may    *)
(* then be acknowledged, and only then may a local checkpoint move past    *)
(* it; nothing owned is ever given up (ADR 0012 decision 4, ADR 0020       *)
(* decision 1, contracts/runtime/queue-and-durability.yaml).               *)
(***************************************************************************)
CONSTANT Records

VARIABLES
  owned,         \* records complete in PostgreSQL or retained in a spool
  acked,         \* records whose submission was answered with success
  checkpointed   \* records a local checkpoint has moved past

hvars == <<owned, acked, checkpointed>>

HInit ==
  /\ owned = {}
  /\ acked = {}
  /\ checkpointed = {}

\* Several records at once: a crash ends the appends of several lanes.
Own(rs) ==
  /\ owned' = owned \cup rs
  /\ UNCHANGED <<acked, checkpointed>>

Acknowledge(r) ==
  /\ r \in owned
  /\ acked' = acked \cup {r}
  /\ UNCHANGED <<owned, checkpointed>>

MoveCheckpoint(r) ==
  /\ r \in acked
  /\ checkpointed' = checkpointed \cup {r}
  /\ UNCHANGED <<owned, acked>>

HNext ==
  \/ \E rs \in SUBSET Records : Own(rs)
  \/ \E r \in Records : Acknowledge(r) \/ MoveCheckpoint(r)

HSpec == HInit /\ [][HNext]_hvars
===============================================================================
