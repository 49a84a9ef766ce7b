----------------------------- MODULE ExactlyOnce -----------------------------
(***************************************************************************)
(* What one writer's write path promises about a table, with no WAL, no    *)
(* buffer, no retries and no crashes: batches are accepted one by one and  *)
(* published in groups, each group at one instant, in generation order.    *)
(* A group reaches up to a frontier and takes along every accepted batch   *)
(* below it, so an accepted batch is never skipped and, because a group    *)
(* lies above the previous frontier, no batch is published twice.  A batch *)
(* may be published without having been accepted: its client went away.    *)
(***************************************************************************)
EXTENDS Integers

CONSTANT Batches    \* the generations a writer can assign

VARIABLES accepted, published, frontier

vars == <<accepted, published, frontier>>

Init == accepted = {} /\ published = {} /\ frontier = 0

Accept(g) ==
  /\ g > frontier
  /\ g \notin accepted
  /\ accepted' = accepted \cup {g}
  /\ UNCHANGED <<published, frontier>>

Publish(group, top) ==
  /\ top \in group
  /\ \A g \in group : frontier < g /\ g <= top
  /\ \A g \in accepted : frontier < g /\ g <= top => g \in group
  /\ published' = published \cup group
  /\ frontier' = top
  /\ UNCHANGED accepted

Next ==
  \/ \E g \in Batches : Accept(g)
  \/ \E group \in SUBSET Batches, top \in Batches : Publish(group, top)

Spec == Init /\ [][Next]_vars
=============================================================================
