---------------------------- MODULE SnapshotPins ----------------------------
(***************************************************************************)
(* The registry of snapshot pins of a single node (core/snapshot_pin.rs,   *)
(* InMemorySnapshotRegistry): the pins by query, to release them, and by   *)
(* table, for the sweeper to ask.  Every operation holds the one lock, so  *)
(* a history is a sequence of operations.                                  *)
(***************************************************************************)
EXTENDS Naturals, Sequences, FiniteSets, Functions, SequencesExt

\* The maps by_query and by_table, without the keys whose entry was removed.
NoPins == [byQuery |-> <<>>, byTable |-> <<>>]

\* entry(key).or_default().push(item)
PushTo(map, key, item) ==
  [k \in DOMAIN map \cup {key} |->
     LET old == IF k \in DOMAIN map THEN map[k] ELSE <<>>
     IN IF k = key THEN Append(old, item) ELSE old]

\* PinState::pin
PinSnapshot(s, op) ==
  [byQuery |-> PushTo(s.byQuery, op.query, op.table),
   byTable |-> PushTo(s.byTable, op.table, [query |-> op.query, snapshot |-> op.snapshot])]

\* PinState::release, of a query with any number of pins or none: a table without
\* pins is forgotten.
ReleaseQuery(s, q) ==
  LET left == [t \in DOMAIN s.byTable |->
                 IF t \in ToSet(s.byQuery[q]) THEN SelectSeq(s.byTable[t], LAMBDA p : p.query # q)
                 ELSE s.byTable[t]]
  IN IF q \notin DOMAIN s.byQuery THEN s
     ELSE [byQuery |-> Restrict(s.byQuery, DOMAIN s.byQuery \ {q}),
           byTable |-> Restrict(left, {t \in DOMAIN left : left[t] # <<>>})]

ApplyPinOp(s, op) == IF op.op = "pin" THEN PinSnapshot(s, op) ELSE ReleaseQuery(s, op.query)

\* PinState::active_snapshots
ActiveSnapshots(s, t) ==
  IF t \in DOMAIN s.byTable
    THEN [i \in DOMAIN s.byTable[t] |-> s.byTable[t][i].snapshot] ELSE <<>>

-----------------------------------------------------------------------------

\* After any history a table's active snapshots are those of the pins whose query
\* has not released since, each as often as it was pinned, and the registry holds
\* nothing for a query or a table without pins.
PinsOf(history, tables) ==
  LET s       == FoldLeft(ApplyPinOp, NoPins, history)
      held(i) == /\ history[i].op = "pin"
                 /\ \A j \in (i + 1)..Len(history) :
                      history[j].op = "release" => history[j].query # history[i].query
      live    == SelectSeq([i \in DOMAIN history |-> i], held)
  IN /\ \A t \in tables :
          LET mine == SelectSeq(live, LAMBDA i : history[i].table = t)
          IN ActiveSnapshots(s, t) = [n \in DOMAIN mine |-> history[mine[n]].snapshot]
     /\ DOMAIN s.byQuery = {history[i].query : i \in ToSet(live)}
     /\ DOMAIN s.byTable = {history[i].table : i \in ToSet(live)}
=============================================================================
