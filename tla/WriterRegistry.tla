--------------------------- MODULE WriterRegistry ---------------------------
(***************************************************************************)
(* Several writers appending to one table: the writer checkpoint registry  *)
(* in the table's properties, the commit identity in every snapshot's      *)
(* summary, and the guard that revalidates both on each reload of the      *)
(* metadata.  A node is a TeoDB process; two nodes may be deployed under   *)
(* the same writer slot, and so share a writer ID but not an epoch or a    *)
(* generation counter.  The Iceberg catalog applies an update only while   *)
(* the table's incarnation and current snapshot are those it was built     *)
(* on.  WritePath has one writer and its crashes; this module has the      *)
(* races between writers.                                                  *)
(***************************************************************************)
EXTENDS AppendProtocol, Sequences, FiniteSets

CONSTANTS Nodes,          \* TeoDB processes
          Slots,          \* writer slots, each with its derived writer ID
          SlotOf(_),      \* the slot a node is deployed under
          MaxAppends,     \* commit IDs issued
          MaxRange,       \* generations one flush drains
          Retries,        \* commit.retry.num-retries of Iceberg's transaction
          MaxEvents       \* lost replies and what others do to the table, together

\* With no retry at all a request that was given up for lost and lands late makes
\* the next one fail, and an intent that has landed would be retired.
ASSUME RegistryAssumption ==
  /\ IsFiniteSet(Slots) /\ \A n \in Nodes : SlotOf(n) \in Slots
  /\ MaxAppends \in Nat /\ MaxRange \in Nat /\ MaxEvents \in Nat /\ Retries \in Nat \ {0}

VARIABLES target, node, wire, landed, retired, done, issued, events

registryVars == <<target, node, wire, landed, retired, done, issued, events>>

Unregistered == NoIntent

NewTable(uuid, snapshot) ==
  [uuid |-> uuid, snapshot |-> snapshot, summaries |-> {},
   registry |-> [s \in Slots |-> Unregistered], damaged |-> FALSE, expired |-> FALSE]

RegistryInit ==
  /\ target = NewTable(1, 0)
  /\ node = [n \in Nodes |->
       [pc |-> "down", intent |-> NoIntent, seen |-> 0, tries |-> 0, sent |-> 0, uuid |-> 0,
        next |-> 1, epoch |-> 1]]
  /\ wire = {}
  /\ landed = <<>>
  /\ retired = {}
  /\ done = {}
  /\ issued = 0
  /\ events = 0

Registered == {s \in Slots : target.registry[s] # Unregistered}

\* The table is loaded: the generation counter starts above the writer's own
\* checkpoint and the local epoch is raised above the one found there.
Open(n) ==
  /\ node[n].pc = "down" \/ (node[n].pc = "idle" /\ node[n].uuid # target.uuid)
  /\ ~target.damaged
  /\ LET own == target.registry[SlotOf(n)]
         known == IF node[n].uuid = target.uuid THEN node[n].next ELSE 1
     IN  node' = [node EXCEPT
           ![n].pc = "idle", ![n].uuid = target.uuid,
           ![n].next = IF own.hi >= known THEN own.hi + 1 ELSE known,
           ![n].epoch = IF own = Unregistered THEN @ ELSE EpochAbove(@, own.epoch)]
  /\ UNCHANGED <<target, wire, landed, retired, done, issued, events>>

\* A flush drains a contiguous range and takes a fresh commit ID and the
\* node's current epoch.
Prepare(n) ==
  /\ node[n].pc = "idle"
  /\ issued < MaxAppends
  /\ issued' = issued + 1
  /\ \E length \in 1..MaxRange :
       LET hi == node[n].next + length - 1
       IN  node' = [node EXCEPT
             ![n].pc = "prepared", ![n].tries = 0,
             ![n].intent = [id |-> issued + 1, epoch |-> node[n].epoch, lo |-> node[n].next, hi |-> hi,
                            rows |-> node[n].next..hi]]
  /\ UNCHANGED <<target, wire, landed, retired, done, events>>

\* What is known of appends to the table: the summaries of the snapshots it
\* still retains and the writer's own checkpoint.
Known(n) ==
  LET own == target.registry[SlotOf(n)]
  IN  target.summaries \union (IF own = Unregistered THEN {} ELSE {own})

\* AppendAttemptGuard::validate on the metadata just loaded.  Every entry of
\* the registry must decode, whoever wrote it.
Verdict(n) ==
  LET own == target.registry[SlotOf(n)]
  IN  IF node[n].uuid # target.uuid THEN "TableIncarnationMismatch"
      ELSE IF target.damaged THEN "MetadataCorruption"
      ELSE Validate(Known(n), own.epoch, own.hi, Cardinality(Registered), node[n].intent)

\* The intent is proved committed: the buffer drops its rows.
Settle(n) ==
  /\ node' = [node EXCEPT ![n].pc = "idle", ![n].intent = NoIntent, ![n].next = node[n].intent.hi + 1]
  /\ done' = done \union {node[n].intent.id}
  /\ UNCHANGED retired

\* A definitive rejection: the intent is given up and its rows are pending
\* again, to be prepared under another commit ID.
Retire(n, epoch) ==
  /\ node' = [node EXCEPT ![n].pc = "idle", ![n].intent = NoIntent, ![n].epoch = epoch]
  /\ retired' = retired \union {node[n].intent.id}
  /\ UNCHANGED done

Moves(n, pc) ==
  /\ node' = [node EXCEPT ![n].pc = pc]
  /\ UNCHANGED <<retired, done>>

\* One attempt of Transaction::commit: the table is reloaded through the
\* guard before the update is built on it.
Reload(n) ==
  /\ node[n].pc = "prepared"
  /\ LET verdict == Verdict(n)
     IN  \/ /\ verdict = "Accepted"
            /\ node' = [node EXCEPT ![n].pc = "checked", ![n].seen = target.snapshot]
            /\ UNCHANGED <<retired, done>>
         \/ verdict = "AlreadyCommitted" /\ Settle(n)
         \/ /\ verdict = "StaleWriterEpoch"
            /\ Retire(n, EpochAbove(node[n].epoch, target.registry[SlotOf(n)].epoch))
         \/ /\ verdict \in {"WriterRegistryFull", "MetadataCorruption",
                            "TableIncarnationMismatch", "ProtocolViolation"}
            /\ Moves(n, "blocked")
  /\ UNCHANGED <<target, wire, landed, issued, events>>

\* The update goes out.  `sent' numbers a node's requests, so that one that was
\* given up for lost is told from its successor.
Send(n) ==
  /\ node[n].pc = "checked"
  /\ node' = [node EXCEPT ![n].pc = "waiting", ![n].sent = @ + 1]
  /\ wire' = wire \union
       {[node |-> n, intent |-> node[n].intent, uuid |-> node[n].uuid, seen |-> node[n].seen,
         request |-> node[n].sent + 1]}
  /\ UNCHANGED <<target, landed, retired, done, issued, events>>

\* The requirements an update carries: the table's UUID and the snapshot it
\* was built on.
Meets(m) == m.uuid = target.uuid /\ m.seen = target.snapshot

\* The catalog applies an update: a new snapshot whose summary names the
\* intent, and the writer's checkpoint, in one transaction.
Apply(m) ==
  /\ wire' = wire \ {m}
  /\ IF Meets(m)
     THEN /\ target' = [target EXCEPT !.snapshot = @ + 1,
                                    !.summaries = @ \union {m.intent},
                                    !.registry[SlotOf(m.node)] = m.intent]
          /\ landed' = Append(landed, [slot |-> SlotOf(m.node), node |-> m.node, uuid |-> m.uuid,
                                       intent |-> m.intent, damaged |-> target.damaged])
     ELSE UNCHANGED <<target, landed>>

\* A conflict: Iceberg rebases, or its retries are exhausted and the intent
\* is given up.
Conflicts(n) ==
  \/ /\ node[n].tries < Retries
     /\ node' = [node EXCEPT ![n].pc = "prepared", ![n].tries = @ + 1]
     /\ UNCHANGED <<retired, done>>
  \/ node[n].tries = Retries /\ Retire(n, node[n].epoch)

\* The node learns the outcome.
Answer(m) ==
  /\ node[m.node].pc = "waiting" /\ m.request = node[m.node].sent
  /\ Apply(m)
  /\ IF Meets(m) THEN Settle(m.node) ELSE Conflicts(m.node)
  /\ UNCHANGED <<issued, events>>

Event == events < MaxEvents /\ events' = events + 1

\* Mutation: an ambiguous answer is taken for a failure.
LoseReply_Retires(n) ==
  /\ node[n].pc = "waiting"
  /\ Event
  /\ Retire(n, node[n].epoch)
  /\ UNCHANGED <<target, wire, landed, issued>>

\* The request times out with its outcome unknown: it may have been applied
\* or may still be on its way.
LoseReply(n) ==
  /\ node[n].pc = "waiting"
  /\ Event
  /\ Moves(n, "unknown")
  /\ UNCHANGED <<target, wire, landed, issued>>

Late(m) ==
  /\ node[m.node].pc # "waiting" \/ m.request # node[m.node].sent
  /\ Apply(m)
  /\ UNCHANGED <<node, retired, done, issued, events>>

\* resolve_append_status: committed when the exact intent is found; otherwise
\* the same intent is committed again.  Every entry of the registry is decoded before
\* the verdict (validate_writer_checkpoints), so that a damaged one fails it even when
\* the intent is found in the history.
Resolve(n) ==
  /\ node[n].pc \in {"unknown", "blocked"}
  /\ IF node[n].uuid # target.uuid \/ IsForged(Known(n), node[n].intent) \/ target.damaged
     THEN Moves(n, "blocked")
     ELSE IF IsPublished(Known(n), node[n].intent)
     THEN Settle(n)
     ELSE /\ node' = [node EXCEPT ![n].pc = "prepared", ![n].tries = 0]
          /\ UNCHANGED <<retired, done>>
  /\ UNCHANGED <<target, wire, landed, issued, events>>

\* Another commit moves the current snapshot: a compaction's replace.
Replace ==
  /\ Event
  /\ target' = [target EXCEPT !.snapshot = @ + 1]
  /\ UNCHANGED <<node, wire, landed, retired, done, issued>>

\* Snapshots are expired by outside maintenance: their summaries are gone.
Expire ==
  /\ Event
  /\ target.summaries # {}
  /\ target' = [target EXCEPT !.summaries = {}, !.expired = TRUE]
  /\ UNCHANGED <<node, wire, landed, retired, done, issued>>

\* The table is dropped and created again.
Recreate ==
  /\ Event
  /\ target' = [NewTable(target.uuid + 1, target.snapshot + 1) EXCEPT !.expired = target.expired]
  /\ UNCHANGED <<node, wire, landed, retired, done, issued>>

\* A foreign tool leaves a registry entry that does not decode.  Setting a
\* property does not move the current snapshot.
Damage ==
  /\ Event
  /\ ~target.damaged
  /\ target' = [target EXCEPT !.damaged = TRUE]
  /\ UNCHANGED <<node, wire, landed, retired, done, issued>>

RegistryNext ==
  \/ \E n \in Nodes :
       Open(n) \/ Prepare(n) \/ Reload(n) \/ Send(n) \/ LoseReply(n) \/ Resolve(n)
  \/ \E m \in wire : Answer(m) \/ Late(m)
  \/ Replace \/ Expire \/ Recreate \/ Damage

RegistrySpec == RegistryInit /\ [][RegistryNext]_registryVars

-----------------------------------------------------------------------------
\* The registry never holds more writers than max_writer_checkpoints_per_table,
\* however many new writers are between their check and their commit: a new
\* entry always comes with a snapshot, so the loser's update is refused and
\* its rebase is checked again.
RegistryBounded == Cardinality(Registered) <= MaxWriters

\* Appends of one writer ID to one table land in generation order, never
\* twice, and under epochs that do not go down, even when two nodes share the
\* slot, a reply is lost, a request is delayed past its retry or snapshots
\* were expired.
RangesInOrder ==
  \A i, j \in DOMAIN landed :
    i < j /\ landed[i].slot = landed[j].slot /\ landed[i].uuid = landed[j].uuid
      => /\ landed[i].intent.hi < landed[j].intent.lo
         /\ landed[i].intent.epoch <= landed[j].intent.epoch

\* What a node concludes about its intent is true for ever: a completed one
\* has landed, and one that was given up (its rows go out again under another
\* commit ID) never does.  The one exception needs a second live node of the
\* same slot, whose checkpoint replaces the node's own, and the expiry of the
\* snapshot that named the intent.
VerdictsFinal ==
  /\ \A id \in done : \E i \in DOMAIN landed : landed[i].intent.id = id
  /\ \A i \in DOMAIN landed :
       landed[i].intent.id \in retired
         => /\ target.expired
            /\ \E n \in Nodes \ {landed[i].node} : SlotOf(n) = landed[i].slot

\* A registry entry nobody can decode stops every writer: of all that the nodes
\* had on the way, one append at most still lands on the damaged table.
DamageContained ==
  \A i, j \in DOMAIN landed :
    landed[i].damaged /\ landed[j].damaged /\ landed[i].uuid = landed[j].uuid => i = j

\* Writers of one table keep to the protocol however they race: the registry is
\* bounded, appends land in order and once, verdicts are final, and damage stops
\* every writer.
WritersInOrder == RegistryBounded /\ RangesInOrder /\ VerdictsFinal /\ DamageContained
=============================================================================
