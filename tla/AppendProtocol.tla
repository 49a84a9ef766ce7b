--------------------------- MODULE AppendProtocol ---------------------------
(***************************************************************************)
(* The multi-writer append protocol as pure operators: what one append     *)
(* intent is, when the catalog already holds it, and the verdict that      *)
(* AppendAttemptGuard reaches on every metadata reload before an update    *)
(* may be sent.                                                            *)
(*                                                                         *)
(* An intent is one PreparedFlush.  Its identity is the commit ID, the     *)
(* writer epoch and the generation range; `rows' stands for the rows of    *)
(* its Parquet files, named by the WAL generations they came from.         *)
(* Generations start at 1, so a checkpoint of generation 0 is an absent    *)
(* checkpoint property.                                                    *)
(***************************************************************************)
EXTENDS Integers

CONSTANT MaxWriters    \* max_writer_checkpoints_per_table

ASSUME MaxWritersAssumption == MaxWriters \in Nat

\* The value of flush ownership, of the sidecar file and of a task's local
\* `prepared' when there is none.
NoIntent == [id |-> 0, epoch |-> 0, lo |-> 0, hi |-> 0, rows |-> {}]

SameIdentity(p, i) ==
  p.id = i.id /\ p.epoch = i.epoch /\ p.lo = i.lo /\ p.hi = i.hi

\* The exact intent is found in retained snapshot history or in the
\* checkpoint.
IsPublished(history, i) == \E p \in history : SameIdentity(p, i)

\* Some snapshot carries the intent's commit ID with another epoch or range.
IsForged(history, i) == \E p \in history : p.id = i.id /\ ~SameIdentity(p, i)

\* Mutation: the guard forgets that a range must lie above the checkpoint.
Validate_NoOverlapCheck(history, epoch, gen, writers, i) ==
  IF IsForged(history, i) THEN "MetadataCorruption"
  ELSE IF IsPublished(history, i) THEN "AlreadyCommitted"
  ELSE IF gen = 0 /\ writers >= MaxWriters THEN "WriterRegistryFull"
  ELSE IF gen # 0 /\ i.epoch < epoch THEN "StaleWriterEpoch"
  ELSE "Accepted"

\* The guard's verdict on intent i against the writer's own checkpoint
\* (epoch, gen) and the number of writers that have registered one.
Validate(history, epoch, gen, writers, i) ==
  IF IsForged(history, i) THEN "MetadataCorruption"
  ELSE IF IsPublished(history, i) THEN "AlreadyCommitted"
  ELSE IF gen = 0 /\ writers >= MaxWriters THEN "WriterRegistryFull"
  ELSE IF gen # 0 /\ i.epoch < epoch THEN "StaleWriterEpoch"
  ELSE IF gen # 0 /\ i.lo <= gen THEN "ProtocolViolation"
  ELSE "Accepted"

\* The local epoch after observing `observed' in the writer's own checkpoint:
\* strictly above it, and never lowered.
EpochAbove(local, observed) == IF local > observed THEN local ELSE observed + 1
=============================================================================
