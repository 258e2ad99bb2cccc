----------------------------- MODULE DurableSpool -----------------------------
(***************************************************************************)
(* One lane's emergency spool file (internal/observability/store.go,       *)
(* spool_linux.go) as a value, and what each file operation does to it.    *)
(*                                                                         *)
(* The file is a sequence of newline-terminated frames.  A frame that      *)
(* strictUnmarshal accepts is `whole`; what a short write leaves behind,   *)
(* and whatever is later glued to it, is one frame that is not.  `open`    *)
(* says that the last byte is not a newline; `temp` that the              *)
(* "<name>.drained" file of an unfinished drain exists beside it.          *)
(***************************************************************************)
EXTENDS Naturals, Sequences

CONSTANTS
  Records,        \* sanitized Event/Evidence pairs, told apart by identity only
  MaxSpoolFrames  \* the byte bound maxBytes, counted in frames

ASSUME SpoolBound == MaxSpoolFrames \in Nat

Frame == [rec : Records, whole : BOOLEAN]

SpoolFile == [frames : Seq(Frame), open : BOOLEAN, temp : BOOLEAN]

EmptySpool == [frames |-> << >>, open |-> FALSE, temp |-> FALSE]

\* appendSecureSpool's size test, made before the first byte is written.
HasRoom(file) == Len(file.frames) < MaxSpoolFrames

\* All bytes written.  On a file with no final newline the new bytes continue
\* the torn frame: the write succeeds and the frame stays undecodable.
Appended(file, r) ==
  IF file.open
    THEN [file EXCEPT !.open = FALSE]
    ELSE [file EXCEPT !.frames = Append(@, [rec |-> r, whole |-> TRUE])]

\* Only a prefix of the bytes reached the file.
TornAppended(file, r) ==
  IF file.open
    THEN file
    ELSE [file EXCEPT !.frames = Append(@, [rec |-> r, whole |-> FALSE]),
                      !.open = TRUE]

\* drainSecureSpool: create "<name>.drained", then rename it over the spool.
DrainCreated(file) == [file EXCEPT !.temp = TRUE]
DrainRenamed(file) == EmptySpool

\* The records some replay of this file could still hand to PostgreSQL.
Spooled(file) ==
  {file.frames[i].rec : i \in {j \in 1 .. Len(file.frames) : file.frames[j].whole}}

Undecodable(file) ==
  file.open \/ \E i \in 1 .. Len(file.frames) : ~file.frames[i].whole
===============================================================================
