---------------------- MODULE WriterRegistryInvariant ----------------------
(***************************************************************************)
(* Writers of one table, for any number of nodes, slots, appends, retries  *)
(* and events: the registry stays within its bound, appends of a writer    *)
(* land in order and once, a verdict is final, and a damaged registry lets *)
(* through one append at most.                                             *)
(*                                                                         *)
(* The argument is about tickets: a request on the wire, and the one a     *)
(* node has checked and will send.  What the guard found when it accepted  *)
(* the ticket still holds as long as the ticket can be applied, because    *)
(* every change of the registry moves the current snapshot.  Verdicts rest *)
(* on one more fact: from the second attempt of a transaction on, every    *)
(* older request of the intent is behind the snapshot the node has seen.   *)
(***************************************************************************)
EXTENDS WriterRegistry, FiniteSetTheorems, TLAPS

Positive == Nat \ {0}

Intents ==
  {i \in [id : Positive, epoch : Positive, lo : Positive, hi : Positive, rows : SUBSET Nat] :
     i.lo <= i.hi}

Tables ==
  [uuid : Nat, snapshot : Nat, summaries : SUBSET Intents,
   registry : [Slots -> Intents \cup {NoIntent}], damaged : BOOLEAN, expired : BOOLEAN]

NodeStates ==
  [pc : {"down", "idle", "prepared", "checked", "waiting", "unknown", "blocked"},
   intent : Intents \cup {NoIntent}, seen : Nat, tries : Nat, sent : Nat, uuid : Nat,
   next : Positive, epoch : Positive]

Requests == [node : Nodes, intent : Intents, uuid : Nat, seen : Nat, request : Nat]

Landings ==
  [slot : Slots, node : Nodes, uuid : Nat, intent : Intents, damaged : BOOLEAN]

\* A node with an intent of its own.
Busy(n) == node[n].pc \notin {"down", "idle"}

RegistryType ==
  /\ target \in Tables /\ node \in [Nodes -> NodeStates]
  /\ wire \subseteq Requests /\ landed \in Seq(Landings)
  /\ retired \subseteq Nat /\ done \subseteq Nat /\ issued \in Nat /\ events \in Nat
  /\ \A n \in Nodes : Busy(n) => node[n].intent \in Intents

\* The request a node that has checked its intent is going to send.
Ticket(n) ==
  [node |-> n, intent |-> node[n].intent, uuid |-> node[n].uuid, seen |-> node[n].seen,
   request |-> node[n].sent + 1]

\* What the guard found when it accepted m is so now.
Ahead(m) ==
  LET own == target.registry[SlotOf(m.node)] IN
  /\ own = Unregistered => Cardinality(Registered) < MaxWriters
  /\ own # Unregistered => own.epoch <= m.intent.epoch
  /\ own.hi < m.intent.lo
  /\ \A i \in DOMAIN landed : landed[i].uuid = target.uuid => ~landed[i].damaged

\* A ticket that can still be applied is as good as when it was checked.
Timely(m) ==
  /\ m.seen <= target.snapshot
  /\ m.uuid # target.uuid => m.seen < target.snapshot
  /\ Meets(m) => Ahead(m)

TicketInv ==
  /\ \A m \in wire : Timely(m)
  /\ \A n \in Nodes : node[n].pc = "checked" => Timely(Ticket(n))
  /\ \A n \in Nodes : node[n].pc = "waiting" => node[n].seen <= target.snapshot

\* The table as what has landed on it: every summary and every checkpoint is of an
\* append that landed, and no append of this incarnation is above its checkpoint.
Recorded(r) ==
  /\ r.uuid <= target.uuid /\ r.slot = SlotOf(r.node)
  /\ r.uuid = target.uuid =>
       /\ r.intent.hi <= target.registry[r.slot].hi
       /\ r.intent.epoch <= target.registry[r.slot].epoch
       /\ r.damaged => target.damaged
       /\ target.expired \/ r.intent \in target.summaries

TableInv ==
  /\ \A p \in target.summaries : \E i \in DOMAIN landed : landed[i].intent = p
  /\ \A s \in Slots : target.registry[s] # Unregistered =>
       \E i \in DOMAIN landed : landed[i].intent = target.registry[s] /\ landed[i].slot = s
  /\ \A i \in DOMAIN landed : Recorded(landed[i])
  /\ RegistryBounded /\ RangesInOrder /\ DamageContained

\* A commit ID belongs to one intent of one node: r is a request or a landing.
Owned(r) ==
  /\ r.intent.id <= issued /\ r.intent.epoch <= node[r.node].epoch
  /\ \A n \in Nodes : Busy(n) /\ node[n].intent.id = r.intent.id =>
       r.node = n /\ r.intent = node[n].intent /\ r.uuid = node[n].uuid

OwnIntent(n) ==
  /\ node[n].intent.id <= issued /\ node[n].intent.id \notin retired
  /\ node[n].intent.epoch = node[n].epoch
  /\ \A k \in Nodes : Busy(k) /\ node[k].intent.id = node[n].intent.id => k = n

IdInv ==
  /\ \A n \in Nodes : Busy(n) => OwnIntent(n)
  /\ \A m \in wire : Owned(m) /\ m.request <= node[m.node].sent
  /\ \A i \in DOMAIN landed : Owned(landed[i])
  /\ \A id \in retired : id <= issued

\* The requests of node n's intent other than the one it waits for, after a first
\* conflict, are behind what the node has seen, and the intent has not landed.
Superseded(n) ==
  /\ node[n].pc = "prepared" /\ node[n].tries >= 1 =>
       \A m \in wire : m.intent.id = node[n].intent.id => m.seen < target.snapshot
  /\ node[n].pc \in {"checked", "waiting"} =>
       \A m \in wire : m.intent.id = node[n].intent.id =>
         /\ m.seen <= node[n].seen
         /\ node[n].tries >= 1 =>
              m.seen < node[n].seen \/ (node[n].pc = "waiting" /\ m.request = node[n].sent)
  /\ node[n].pc \in {"checked", "waiting"} /\ node[n].tries >= 1 =>
       \A i \in DOMAIN landed : landed[i].intent.id # node[n].intent.id
  /\ node[n].pc = "waiting" =>
       \A m \in wire : m.node = n /\ m.request = node[n].sent =>
         m.seen = node[n].seen /\ m.intent = node[n].intent

VerdictInv ==
  /\ VerdictsFinal
  /\ \A m \in wire : m.intent.id \in retired => m.seen < target.snapshot
  /\ \A n \in Nodes : Superseded(n)

RegistryInv == RegistryType /\ TicketInv /\ TableInv /\ IdInv /\ VerdictInv

-----------------------------------------------------------------------------
(* What the steps do to one node. *)

\* All nodes but n are as they were.
Only(n) ==
  /\ node' \in [Nodes -> NodeStates]
  /\ \A k \in Nodes : k # n => node'[k] = node[k]

\* Node n keeps its intent.
Keeps(n) ==
  /\ node'[n].intent = node[n].intent /\ node'[n].uuid = node[n].uuid
  /\ node'[n].epoch = node[n].epoch

\* Node n has no intent any more, and its epoch is not lowered.
Frees(n) ==
  /\ node'[n].pc = "idle"
  /\ node'[n].epoch >= node[n].epoch /\ node'[n].sent = node[n].sent

LEMMA Update ==
  ASSUME node \in [Nodes -> NodeStates], NEW n \in Nodes, NEW r \in NodeStates,
         node' = [node EXCEPT ![n] = r]
  PROVE  Only(n) /\ node'[n] = r
BY Zenon DEF Only

LEMMA NoIntentState == NoIntent \notin Intents
BY Zenon DEF NoIntent, Intents, Positive

LEMMA EpochRises ==
  ASSUME NEW local \in Positive, NEW observed \in Nat
  PROVE  EpochAbove(local, observed) \in Positive /\ EpochAbove(local, observed) >= local
BY DEF EpochAbove, Positive

LEMMA SettleFrees ==
  ASSUME RegistryType, NEW n \in Nodes, Busy(n), Settle(n)
  PROVE  /\ Only(n) /\ Frees(n) /\ retired' = retired
         /\ done' = done \cup {node[n].intent.id} /\ done' \subseteq Nat
<1>1. node[n] \in NodeStates /\ node[n].intent \in Intents
  BY Zenon DEF RegistryType
<1>2. node[n].intent.hi + 1 \in Positive /\ node[n].intent.id \in Nat
  BY <1>1 DEF Intents, Positive
<1> DEFINE h == node[n].intent.hi + 1
           r == [node[n] EXCEPT !.pc = "idle", !.intent = NoIntent, !.next = h]
<1>3. node' = [node EXCEPT ![n] = r]
  BY Zenon DEF Settle, RegistryType
<1> HIDE DEF h
<1>4. r \in NodeStates /\ r.pc = "idle" /\ r.epoch = node[n].epoch /\ r.sent = node[n].sent
  BY Zenon, <1>1, <1>2 DEF NodeStates, h
<1>5. Only(n) /\ node'[n] = r
  BY Zenon, <1>3, <1>4, Update DEF RegistryType
<1>6. node[n].epoch \in Nat
  BY Zenon, <1>1 DEF NodeStates, Positive
<1>7. Frees(n)
  BY <1>4, <1>5, <1>6 DEF Frees
<1> QED BY Zenon, <1>2, <1>5, <1>7 DEF Settle, RegistryType

LEMMA RetireFrees ==
  ASSUME RegistryType, NEW n \in Nodes, Busy(n), NEW e \in Positive, e >= node[n].epoch,
         Retire(n, e)
  PROVE  /\ Only(n) /\ Frees(n) /\ done' = done
         /\ retired' = retired \cup {node[n].intent.id} /\ retired' \subseteq Nat
<1>1. node[n] \in NodeStates /\ node[n].intent \in Intents
  BY Zenon DEF RegistryType
<1>2. node[n].intent.id \in Nat
  BY Zenon, <1>1 DEF Intents, Positive
<1> DEFINE r == [node[n] EXCEPT !.pc = "idle", !.intent = NoIntent, !.epoch = e]
<1>3. node' = [node EXCEPT ![n] = r]
  BY Zenon DEF Retire, RegistryType
<1>4. r \in NodeStates /\ r.pc = "idle" /\ r.epoch = e /\ r.sent = node[n].sent
  BY Zenon, <1>1 DEF NodeStates
<1>5. Only(n) /\ node'[n] = r
  BY Zenon, <1>3, <1>4, Update DEF RegistryType
<1>7. Frees(n)
  BY Zenon, <1>4, <1>5 DEF Frees
<1> QED BY Zenon, <1>2, <1>5, <1>7 DEF Retire, RegistryType

\* A node that only moves on: to a state p, with `seen' and `tries' as given.
LEMMA MoveKeeps ==
  ASSUME RegistryType, NEW n \in Nodes,
         NEW p \in {"prepared", "checked", "unknown", "blocked"}, NEW seen \in Nat,
         NEW tries \in Nat,
         node' = [node EXCEPT ![n].pc = p, ![n].seen = seen, ![n].tries = tries]
  PROVE  /\ Only(n) /\ Keeps(n) /\ node'[n].sent = node[n].sent
         /\ node'[n].pc = p /\ node'[n].seen = seen /\ node'[n].tries = tries
<1> DEFINE r == [node[n] EXCEPT !.pc = p, !.seen = seen, !.tries = tries]
<1>1. node[n] \in NodeStates
  BY Zenon DEF RegistryType
<1>2. node' = [node EXCEPT ![n] = r]
  BY Zenon DEF RegistryType
<1>3. /\ r \in NodeStates /\ r.pc = p /\ r.seen = seen /\ r.tries = tries
      /\ r.intent = node[n].intent /\ r.uuid = node[n].uuid /\ r.epoch = node[n].epoch
      /\ r.sent = node[n].sent
  BY Zenon, <1>1 DEF NodeStates
<1> HIDE DEF r
<1>4. Only(n) /\ node'[n] = r
  BY Zenon, <1>2, <1>3, Update DEF RegistryType
<1> QED BY Zenon, <1>3, <1>4 DEF Keeps

-----------------------------------------------------------------------------
(* The parts of the invariant, for any step of the forms above. *)

LEMMA InitRegistry == RegistryInit => RegistryInv
<1> SUFFICES ASSUME RegistryInit PROVE RegistryInv
  BY Zenon
<1>1. \A n \in Nodes : node[n].pc = "down"
  BY Zenon DEF RegistryInit
<1>2. wire = {} /\ landed = <<>> /\ retired = {} /\ done = {} /\ DOMAIN landed = {}
  BY DEF RegistryInit
<1>3. target.summaries = {} /\ target.registry = [s \in Slots |-> Unregistered]
  BY Zenon DEF RegistryInit, NewTable
<1>4. RegistryType
  <2>1. target \in Tables
    BY Zenon DEF RegistryInit, NewTable, Tables, Unregistered
  <2>2. node \in [Nodes -> NodeStates]
    BY DEF RegistryInit, NodeStates, Positive
  <2> QED BY <1>1, <2>1, <2>2 DEF RegistryInit, RegistryType, Busy
<1>5. TicketInv
  BY Zenon, <1>1, <1>2 DEF TicketInv
<1>6. TableInv
  <2>1. Registered = {}
    BY Zenon, <1>3 DEF Registered
  <2>2. RegistryBounded
    BY <2>1, FS_EmptySet, MaxWritersAssumption DEF RegistryBounded
  <2> QED BY Zenon, <1>2, <1>3, <2>2 DEF TableInv, RangesInOrder, DamageContained
<1>7. IdInv
  BY Zenon, <1>1, <1>2 DEF IdInv, Busy
<1>8. VerdictInv
  BY Zenon, <1>1, <1>2 DEF VerdictInv, VerdictsFinal, Superseded
<1> QED BY Zenon, <1>4, <1>5, <1>6, <1>7, <1>8 DEF RegistryInv

\* The table and what has landed on it do not change.
LEMMA TableKeeps ==
  ASSUME TableInv, UNCHANGED <<target, landed>>
  PROVE  TableInv'
BY ZenonT(40) DEF TableInv, Recorded, RegistryBounded, Registered, RangesInOrder, DamageContained

\* A ticket stays good while the table does not change, and after any step of the
\* current snapshot.
LEMMA TimelyKeeps ==
  ASSUME UNCHANGED <<target, landed>>, NEW m, Timely(m)
  PROVE  Timely(m)'
BY Zenon DEF Timely, Meets, Ahead, Registered

LEMMA TimelyMoves ==
  ASSUME target \in Tables, target' \in Tables, target'.snapshot = target.snapshot + 1,
         NEW m, m.seen \in Nat, Timely(m)
  PROVE  Timely(m)' /\ ~Meets(m)'
<1>1. target.snapshot \in Nat
  BY Zenon DEF Tables
<1>2. m.seen <= target.snapshot
  BY Zenon DEF Timely
<1> QED BY <1>1, <1>2 DEF Timely, Meets

\* One node changes and some requests are gone.
LEMMA TicketKeeps ==
  ASSUME RegistryType, TicketInv, NEW n \in Nodes, Only(n), UNCHANGED <<target, landed>>,
         wire' \subseteq wire,
         node'[n].pc = "checked" => Timely(Ticket(n)'),
         node'[n].pc = "waiting" => node'[n].seen <= target.snapshot
  PROVE  TicketInv'
<1>1. \A m \in wire' : Timely(m)'
  BY Zenon, TimelyKeeps DEF TicketInv
<1>2. ASSUME NEW k \in Nodes, node'[k].pc = "checked" PROVE Timely(Ticket(k))'
  <2>1. CASE k = n
    BY Zenon, <1>2, <2>1 DEF Timely, Meets, Ahead, Registered
  <2>2. CASE k # n
    <3>1. node'[k] = node[k]
      BY Zenon, <2>2 DEF Only
    <3>2. Ticket(k)' = Ticket(k) /\ Timely(Ticket(k))
      BY Zenon, <1>2, <3>1 DEF Ticket, TicketInv
    <3> QED BY Zenon, <3>2 DEF Timely, Meets, Ahead, Registered
  <2> QED BY Zenon, <2>1, <2>2
<1>3. \A k \in Nodes : node'[k].pc = "waiting" => node'[k].seen <= target'.snapshot
  BY Zenon DEF TicketInv, Only
<1> QED BY Zenon, <1>1, <1>2, <1>3 DEF TicketInv

\* Landings are those there were and, perhaps, one of a request.
Lands ==
  \A i \in DOMAIN landed' :
    \/ i \in DOMAIN landed /\ landed'[i] = landed[i]
    \/ \E m \in wire : /\ landed'[i].intent = m.intent /\ landed'[i].node = m.node
                       /\ landed'[i].uuid = m.uuid

\* A commit ID stays its owner's while node n keeps its intent or loses it.
LEMMA OwnedKeeps ==
  ASSUME RegistryType, NEW n \in Nodes, Only(n), issued' = issued,
         node'[n].epoch >= node[n].epoch, Busy(n)' => Busy(n) /\ Keeps(n),
         NEW r, r.node \in Nodes, r.intent \in Intents, Owned(r)
  PROVE  Owned(r)'
<1>1. r.intent.id <= issued'
  BY Zenon DEF Owned
<1>2. r.intent.epoch <= node'[r.node].epoch
  <2>1. r.intent.epoch \in Nat /\ node[r.node].epoch \in Nat /\ r.intent.epoch <= node[r.node].epoch
    BY Zenon DEF RegistryType, NodeStates, Positive, Intents, Owned
  <2>2. node'[r.node].epoch \in Nat
    BY Zenon DEF Only, NodeStates, Positive
  <2>3. CASE r.node = n
    BY <2>1, <2>2, <2>3
  <2>4. CASE r.node # n
    BY Zenon, <2>1, <2>4 DEF Only
  <2> QED BY Zenon, <2>3, <2>4
<1>3. ASSUME NEW k \in Nodes, Busy(k)', node'[k].intent.id = r.intent.id
      PROVE  r.node = k /\ r.intent = node'[k].intent /\ r.uuid = node'[k].uuid
  <2>1. Busy(k) /\ node'[k].intent = node[k].intent /\ node'[k].uuid = node[k].uuid
    <3>1. CASE k = n
      BY Zenon, <1>3, <3>1 DEF Keeps
    <3>2. CASE k # n
      BY Zenon, <1>3, <3>2 DEF Only, Busy
    <3> QED BY Zenon, <3>1, <3>2
  <2> QED BY Zenon, <1>3, <2>1 DEF Owned
<1> QED BY Zenon, <1>1, <1>2, <1>3 DEF Owned

LEMMA IdKeeps ==
  ASSUME RegistryType, IdInv, NEW n \in Nodes, Only(n), issued' = issued,
         node'[n].epoch >= node[n].epoch, node'[n].sent >= node[n].sent,
         Busy(n)' => Busy(n) /\ Keeps(n), wire' \subseteq wire, Lands,
         \/ retired' = retired
         \/ Busy(n) /\ ~Busy(n)' /\ retired' = retired \cup {node[n].intent.id}
  PROVE  IdInv'
<1>1. \A m \in wire : m.node \in Nodes /\ m.intent \in Intents /\ m.request \in Nat
  BY Zenon DEF RegistryType, Requests
<1>2. \A m \in wire : Owned(m)'
  BY Zenon, <1>1, OwnedKeeps DEF IdInv
<1>3. \A m \in wire' : Owned(m)' /\ m.request <= node'[m.node].sent
  <2> SUFFICES ASSUME NEW m \in wire' PROVE m.request <= node'[m.node].sent
    BY Zenon, <1>2
  <2>1. m.request <= node[m.node].sent /\ node[m.node].sent \in Nat /\ node'[m.node].sent \in Nat
    BY Zenon, <1>1 DEF IdInv, Only, RegistryType, NodeStates
  <2>2. node'[m.node].sent >= node[m.node].sent
    BY <1>1, <2>1 DEF Only
  <2> QED BY <1>1, <2>1, <2>2
<1>4. \A i \in DOMAIN landed' : Owned(landed[i])'
  <2> SUFFICES ASSUME NEW i \in DOMAIN landed' PROVE Owned(landed[i])'
    BY Zenon
  <2>1. CASE i \in DOMAIN landed /\ landed'[i] = landed[i]
    <3>1. landed[i] \in Landings
      BY <2>1 DEF RegistryType
    <3>2. landed[i].node \in Nodes /\ landed[i].intent \in Intents /\ Owned(landed[i])
      BY Zenon, <2>1, <3>1 DEF Landings, IdInv
    <3>3. PICK r : r = landed[i]
      BY Zenon
    <3>4. Owned(r)'
      BY Zenon, <3>2, <3>3, OwnedKeeps
    <3> QED BY Zenon, <2>1, <3>3, <3>4 DEF Owned
  <2>2. ASSUME NEW m \in wire, landed'[i].intent = m.intent, landed'[i].node = m.node,
               landed'[i].uuid = m.uuid
        PROVE  Owned(landed[i])'
    BY <1>2, <2>2 DEF Owned
  <2> QED BY Zenon, <2>1, <2>2 DEF Lands
<1>5. ASSUME NEW k \in Nodes, Busy(k)' PROVE OwnIntent(k)'
  <2>1. \A j \in Nodes : Busy(j)' =>
          /\ Busy(j) /\ node'[j].intent = node[j].intent /\ node'[j].epoch = node[j].epoch
    BY Zenon DEF Only, Busy, Keeps
  <2>2. node[k].intent.id \notin retired'
    <3>1. CASE retired' = retired
      BY Zenon, <1>5, <2>1, <3>1 DEF IdInv, OwnIntent
    <3>2. CASE Busy(n) /\ ~Busy(n)' /\ retired' = retired \cup {node[n].intent.id}
      BY Zenon, <1>5, <2>1, <3>2 DEF IdInv, OwnIntent
    <3> QED BY Zenon, <3>1, <3>2
  <2> QED BY ZenonT(40), <1>5, <2>1, <2>2 DEF IdInv, OwnIntent
<1>6. \A id \in retired' : id <= issued'
  BY Zenon DEF IdInv, OwnIntent
<1> QED BY Zenon, <1>3, <1>4, <1>5, <1>6 DEF IdInv

\* The requests of a node that is left alone stay as superseded as they were.
LEMMA SupersededKeeps ==
  ASSUME RegistryType, target' \in Tables, NEW k \in Nodes, Superseded(k), node'[k] = node[k],
         target'.snapshot >= target.snapshot,
         node[k].pc \in {"checked", "waiting"} => node[k].seen <= target.snapshot,
         \A m \in wire' : m \in wire \/ (m.node # k /\ (Busy(k) => m.intent.id # node[k].intent.id)),
         \A i \in DOMAIN landed' :
           \/ i \in DOMAIN landed /\ landed'[i] = landed[i]
           \/ Busy(k) => landed'[i].intent.id # node[k].intent.id
           \/ \E m \in wire : /\ landed'[i].intent = m.intent /\ Meets(m)
                              /\ ~(node[k].pc = "waiting" /\ m.request = node[k].sent)
  PROVE  Superseded(k)'
<1>1. /\ target.snapshot \in Nat /\ target'.snapshot \in Nat /\ node[k].seen \in Nat
      /\ \A m \in wire : m.seen \in Nat
  BY Zenon DEF RegistryType, Tables, NodeStates, Requests
<1>2. node[k].pc = "prepared" /\ node[k].tries >= 1 =>
        \A m \in wire' : m.intent.id = node[k].intent.id => m.seen < target'.snapshot
  <2> SUFFICES ASSUME node[k].pc = "prepared", node[k].tries >= 1, NEW m \in wire',
                      m.intent.id = node[k].intent.id
               PROVE  m.seen < target'.snapshot
    BY Zenon
  <2>1. m \in wire
    BY Zenon DEF Busy
  <2>2. m.seen < target.snapshot
    BY Zenon, <2>1 DEF Superseded
  <2> QED BY <1>1, <2>1, <2>2
<1>3. node[k].pc \in {"checked", "waiting"} =>
        \A m \in wire' : m.intent.id = node[k].intent.id =>
          /\ m.seen <= node[k].seen
          /\ node[k].tries >= 1 =>
               m.seen < node[k].seen \/ (node[k].pc = "waiting" /\ m.request = node[k].sent)
  BY Zenon DEF Busy, Superseded
<1>4. node[k].pc \in {"checked", "waiting"} /\ node[k].tries >= 1 =>
        \A i \in DOMAIN landed' : landed'[i].intent.id # node[k].intent.id
  <2> SUFFICES ASSUME node[k].pc \in {"checked", "waiting"}, node[k].tries >= 1,
                      NEW i \in DOMAIN landed', landed'[i].intent.id = node[k].intent.id
               PROVE  FALSE
    BY Zenon
  <2>1. ~(i \in DOMAIN landed /\ landed'[i] = landed[i]) /\ Busy(k)
    BY Zenon DEF Superseded, Busy
  <2>2. PICK m \in wire : /\ landed'[i].intent = m.intent /\ Meets(m)
                          /\ ~(node[k].pc = "waiting" /\ m.request = node[k].sent)
    BY Zenon, <2>1
  <2>3. m.seen < node[k].seen /\ m.seen = target.snapshot
    BY Zenon, <2>2 DEF Superseded, Meets
  <2>4. node[k].seen <= target.snapshot
    BY Zenon
  <2> QED BY <1>1, <2>3, <2>4
<1>5. node[k].pc = "waiting" =>
        \A m \in wire' : m.node = k /\ m.request = node[k].sent =>
          m.seen = node[k].seen /\ m.intent = node[k].intent
  BY Zenon DEF Superseded
<1> QED BY ZenonT(40), <1>2, <1>3, <1>4, <1>5 DEF Superseded

LEMMA SeenBehind ==
  ASSUME TicketInv, NEW k \in Nodes, node[k].pc \in {"checked", "waiting"}
  PROVE  node[k].seen <= target.snapshot
BY Zenon DEF TicketInv, Timely, Ticket

\* A step of node n that leaves the table alone.
LEMMA NodeStep ==
  ASSUME RegistryInv, NEW n \in Nodes, Only(n), UNCHANGED <<target, landed, issued>>,
         wire' \subseteq wire, events' \in Nat, retired' \subseteq Nat, done' \subseteq Nat,
         node'[n].epoch >= node[n].epoch, node'[n].sent >= node[n].sent,
         Busy(n)' => Busy(n) /\ Keeps(n),
         node'[n].pc = "checked" => Timely(Ticket(n)'),
         node'[n].pc = "waiting" => node'[n].seen <= target.snapshot,
         \/ retired' = retired
         \/ Busy(n) /\ ~Busy(n)' /\ retired' = retired \cup {node[n].intent.id},
         VerdictsFinal', \A m \in wire' : m.intent.id \in retired' => m.seen < target.snapshot,
         Superseded(n)'
  PROVE  RegistryInv'
<1> USE DEF RegistryInv
<1>1. RegistryType'
  BY Zenon DEF RegistryType, Only, Keeps, Busy
<1>2. TicketInv'
  BY Zenon, TicketKeeps
<1>3. TableInv'
  BY Zenon, TableKeeps
<1>4. IdInv'
  <2>1. Lands
    BY Zenon DEF Lands
  <2> QED BY Zenon, <2>1, IdKeeps
<1>5. ASSUME NEW k \in Nodes PROVE Superseded(k)'
  <2>1. CASE k = n
    BY Zenon, <2>1
  <2>2. CASE k # n
    <3>1. node'[k] = node[k] /\ Superseded(k)
      BY Zenon, <2>2 DEF Only, VerdictInv
    <3>2. target' \in Tables /\ target'.snapshot >= target.snapshot
      BY <1>1 DEF RegistryType, Tables
    <3>3. node[k].pc \in {"checked", "waiting"} => node[k].seen <= target.snapshot
      BY Zenon, SeenBehind
    <3> QED BY Zenon, <3>1, <3>2, <3>3, SupersededKeeps
  <2> QED BY Zenon, <2>1, <2>2
<1>6. VerdictInv'
  BY Zenon, <1>5 DEF VerdictInv
<1> QED BY Zenon, <1>1, <1>2, <1>3, <1>4, <1>6

LEMMA VerdictsKeep ==
  ASSUME VerdictsFinal, UNCHANGED <<target, landed, retired>>,
         \A id \in done' : id \in done \/ \E i \in DOMAIN landed : landed[i].intent.id = id
  PROVE  VerdictsFinal'
BY Zenon DEF VerdictsFinal

\* What the guard and resolve_append_status find published has landed.
LEMMA PublishedLanded ==
  ASSUME RegistryInv, NEW n \in Nodes, IsPublished(Known(n), node[n].intent)
  PROVE  \E i \in DOMAIN landed : landed[i].intent.id = node[n].intent.id
<1>1. PICK p \in Known(n) : p.id = node[n].intent.id
  BY Zenon DEF IsPublished, SameIdentity
<1>2. SlotOf(n) \in Slots
  BY Zenon, RegistryAssumption
<1>3. \E i \in DOMAIN landed : landed[i].intent = p
  <2>1. CASE p \in target.summaries
    BY Zenon, <2>1 DEF RegistryInv, TableInv
  <2>2. CASE p \notin target.summaries
    <3>1. p = target.registry[SlotOf(n)] /\ p # Unregistered
      BY Zenon, <1>1, <2>2 DEF Known
    <3> QED BY Zenon, <1>2, <3>1 DEF RegistryInv, TableInv
  <2> QED BY Zenon, <2>1, <2>2
<1> QED BY Zenon, <1>1, <1>3

LEMMA EntryFacts ==
  ASSUME NEW own \in Intents \cup {NoIntent}
  PROVE  /\ own = Unregistered => own.hi = 0
         /\ own # Unregistered => own.hi \in Positive /\ own.epoch \in Positive
<1>1. CASE own = NoIntent
  BY Zenon, <1>1 DEF Unregistered, NoIntent
<1>2. CASE own \in Intents
  <2>1. own.hi \in Positive /\ own.epoch \in Positive
    BY Zenon, <1>2 DEF Intents
  <2> QED BY Zenon, <1>2, <2>1, NoIntentState DEF Unregistered
<1> QED BY Zenon, <1>1, <1>2

\* What the guard has made sure of when it accepts an intent.
LEMMA AcceptedFacts ==
  ASSUME RegistryInv, NEW n \in Nodes, Busy(n), Verdict(n) = "Accepted"
  PROVE  LET own == target.registry[SlotOf(n)] IN
         /\ node[n].uuid = target.uuid /\ ~target.damaged
         /\ own = Unregistered => Cardinality(Registered) < MaxWriters
         /\ own # Unregistered => own.epoch <= node[n].intent.epoch
         /\ own.hi < node[n].intent.lo
<1> DEFINE own == target.registry[SlotOf(n)]
           i == node[n].intent
<1>1. own \in Intents \cup {NoIntent} /\ i \in Intents
  BY Zenon, RegistryAssumption DEF RegistryInv, RegistryType, Tables
<1>2. /\ own = Unregistered => own.hi = 0
      /\ own # Unregistered => own.hi \in Positive /\ own.epoch \in Positive
      /\ i.lo \in Positive /\ i.epoch \in Positive
  BY Zenon, <1>1, EntryFacts DEF Intents
<1>3. Cardinality(Registered) \in Nat
  BY Zenon, RegistryAssumption, FS_Subset, FS_CardinalityType DEF Registered
<1>4. node[n].uuid = target.uuid /\ ~target.damaged
  BY Zenon DEF Verdict
<1>5. Validate(Known(n), own.epoch, own.hi, Cardinality(Registered), i) = "Accepted"
  BY Zenon, <1>4 DEF Verdict
<1>6. /\ ~(own.hi = 0 /\ Cardinality(Registered) >= MaxWriters)
      /\ ~(own.hi # 0 /\ i.epoch < own.epoch) /\ ~(own.hi # 0 /\ i.lo <= own.hi)
  BY Zenon, <1>5 DEF Validate
<1> HIDE DEF own, i
<1>7. own = Unregistered => Cardinality(Registered) < MaxWriters
  BY <1>2, <1>3, <1>6, MaxWritersAssumption
<1>8. own # Unregistered => own.epoch <= i.epoch /\ own.hi < i.lo
  BY <1>2, <1>6 DEF Positive
<1>9. own = Unregistered => own.hi < i.lo
  BY <1>2 DEF Positive
<1> QED BY Zenon, <1>4, <1>7, <1>8, <1>9 DEF own, i

-----------------------------------------------------------------------------
(* A reload of the table through the guard, and the moves of one node. *)

\* An intent that the guard accepts has not landed: it would be at or below the
\* writer's checkpoint.
LEMMA AcceptedNotLanded ==
  ASSUME RegistryInv, NEW n \in Nodes, Busy(n), Verdict(n) = "Accepted", NEW i \in DOMAIN landed
  PROVE  landed[i].intent.id # node[n].intent.id
<1> SUFFICES ASSUME landed[i].intent.id = node[n].intent.id PROVE FALSE
  BY Zenon
<1> DEFINE own == target.registry[SlotOf(n)]
<1>1. own.hi < node[n].intent.lo /\ node[n].uuid = target.uuid
  BY Zenon, AcceptedFacts
<1>2. landed[i].node = n /\ landed[i].intent = node[n].intent /\ landed[i].uuid = target.uuid
  BY <1>1 DEF RegistryInv, IdInv, Owned
<1>3. Recorded(landed[i])
  BY Zenon DEF RegistryInv, TableInv
<1>4. node[n].intent.hi <= own.hi
  BY Zenon, <1>2, <1>3 DEF Recorded
<1>5. own \in Intents \cup {NoIntent} /\ node[n].intent \in Intents
  BY Zenon, RegistryAssumption DEF RegistryInv, RegistryType, Tables
<1>6. own.hi \in Nat
  BY <1>5, EntryFacts DEF Positive
<1>7. node[n].intent.lo \in Nat /\ node[n].intent.hi \in Nat /\ node[n].intent.lo <= node[n].intent.hi
  BY Zenon, <1>5 DEF Intents, Positive
<1> HIDE DEF own
<1> QED BY <1>1, <1>4, <1>6, <1>7

\* The guard accepts: the ticket is good, and older requests are behind it.
LEMMA AcceptStep ==
  ASSUME RegistryInv, NEW n \in Nodes, node[n].pc = "prepared", Verdict(n) = "Accepted",
         node' = [node EXCEPT ![n].pc = "checked", ![n].seen = target.snapshot],
         UNCHANGED <<target, wire, landed, retired, done, issued, events>>
  PROVE  RegistryInv'
<1>1. Busy(n) /\ node[n] \in NodeStates /\ target.snapshot \in Nat
  BY Zenon DEF Busy, RegistryInv, RegistryType, Tables
<1>4. /\ Only(n) /\ Keeps(n) /\ node'[n].sent = node[n].sent /\ node'[n].pc = "checked"
      /\ node'[n].seen = target.snapshot /\ node'[n].tries = node[n].tries
  <2> DEFINE r == [node[n] EXCEPT !.pc = "checked", !.seen = target.snapshot]
  <2>1. node' = [node EXCEPT ![n] = r]
    BY Zenon DEF RegistryInv, RegistryType
  <2>2. /\ r \in NodeStates /\ r.pc = "checked" /\ r.seen = target.snapshot
        /\ r.tries = node[n].tries /\ r.intent = node[n].intent /\ r.uuid = node[n].uuid
        /\ r.epoch = node[n].epoch /\ r.sent = node[n].sent
    BY Zenon, <1>1 DEF NodeStates
  <2> HIDE DEF r
  <2>3. Only(n) /\ node'[n] = r
    BY Zenon, <2>1, <2>2, Update DEF RegistryInv, RegistryType
  <2> QED BY Zenon, <2>2, <2>3 DEF Keeps
<1>5. Timely(Ticket(n)')
  <2> DEFINE m == Ticket(n)'
  <2>1. m.node = n /\ m.intent = node[n].intent /\ m.uuid = target.uuid /\ m.seen = target.snapshot
    BY Zenon, <1>1, <1>4, AcceptedFacts DEF Ticket, Keeps
  <2> HIDE DEF m
  <2>2. \A i \in DOMAIN landed : landed[i].uuid = target.uuid => ~landed[i].damaged
    BY Zenon, <1>1, AcceptedFacts DEF RegistryInv, TableInv, Recorded
  <2>3. Ahead(m)
    BY Zenon, <1>1, <2>1, <2>2, AcceptedFacts DEF Ahead
  <2>4. Timely(m)
    BY <1>1, <2>1, <2>3 DEF Timely
  <2> QED BY Zenon, <2>4 DEF m
<1>6. Superseded(n)'
  <2>1. \A m \in wire : m.seen <= target.snapshot
    BY Zenon DEF RegistryInv, TicketInv, Timely
  <2>2. node[n].tries >= 1 => \A m \in wire : m.intent.id = node[n].intent.id => m.seen < target.snapshot
    BY Zenon DEF RegistryInv, VerdictInv, Superseded
  <2>3. \A i \in DOMAIN landed : landed[i].intent.id # node[n].intent.id
    BY Zenon, <1>1, AcceptedNotLanded
  <2> QED BY Zenon, <1>4, <2>1, <2>2, <2>3 DEF Superseded, Keeps
<1>7. VerdictsFinal' /\ \A m \in wire' : m.intent.id \in retired' => m.seen < target.snapshot
  BY Zenon, VerdictsKeep DEF RegistryInv, VerdictInv
<1>8. node'[n].epoch >= node[n].epoch /\ node'[n].sent >= node[n].sent
  BY <1>1, <1>4 DEF Keeps, NodeStates, Positive
<1>9. events' \in Nat /\ retired' \subseteq Nat /\ done' \subseteq Nat
  BY Zenon DEF RegistryInv, RegistryType
<1> QED BY ZenonT(40), <1>1, <1>4, <1>5, <1>6, <1>7, <1>8, <1>9, NodeStep

\* A node that goes on to a state in which it waits for no answer, its intent with it.
LEMMA MoveStep ==
  ASSUME RegistryInv, NEW n \in Nodes, Busy(n), Only(n), Keeps(n), node'[n].sent = node[n].sent,
         node'[n].pc \in {"unknown", "blocked"} \/ (node'[n].pc = "prepared" /\ node'[n].tries = 0),
         events' \in Nat, UNCHANGED <<target, wire, landed, retired, done, issued>>
  PROVE  RegistryInv'
<1>1. Superseded(n)'
  BY DEF Superseded
<1>2. VerdictsFinal' /\ \A m \in wire' : m.intent.id \in retired' => m.seen < target.snapshot
  BY Zenon, VerdictsKeep DEF RegistryInv, VerdictInv
<1>3. node'[n].epoch >= node[n].epoch /\ node'[n].sent >= node[n].sent
  BY DEF Keeps, RegistryInv, RegistryType, NodeStates, Positive
<1>4. retired' \subseteq Nat /\ done' \subseteq Nat
  BY Zenon DEF RegistryInv, RegistryType
<1> QED BY Zenon, <1>1, <1>2, <1>3, <1>4, NodeStep

LEMMA BlockStep ==
  ASSUME RegistryInv, NEW n \in Nodes, Busy(n), NEW p \in {"unknown", "blocked"}, Moves(n, p),
         events' \in Nat, UNCHANGED <<target, wire, landed, issued>>
  PROVE  RegistryInv'
<1>1. node[n] \in NodeStates
  BY Zenon DEF RegistryInv, RegistryType
<1>2. PICK t \in Nat, v \in Nat : t = node[n].tries /\ v = node[n].seen
  BY Zenon, <1>1 DEF NodeStates
<1>3. node' = [node EXCEPT ![n].pc = p, ![n].seen = v, ![n].tries = t]
  BY Zenon, <1>1, <1>2 DEF Moves, RegistryInv, RegistryType, NodeStates
<1>4. Only(n) /\ Keeps(n) /\ node'[n].sent = node[n].sent /\ node'[n].pc = p
  BY ZenonT(40), <1>2, <1>3, MoveKeeps DEF RegistryInv
<1> QED BY Zenon, <1>4, MoveStep DEF Moves

\* An intent found published is settled.
LEMMA SettleStep ==
  ASSUME RegistryInv, NEW n \in Nodes, Busy(n), Settle(n),
         IsPublished(Known(n), node[n].intent),
         UNCHANGED <<target, wire, landed, issued, events>>
  PROVE  RegistryInv'
<1>1. /\ Only(n) /\ Frees(n) /\ retired' = retired
      /\ done' = done \cup {node[n].intent.id} /\ done' \subseteq Nat
  BY Zenon, SettleFrees DEF RegistryInv
<1>2. VerdictsFinal'
  BY Zenon, <1>1, PublishedLanded, VerdictsKeep DEF RegistryInv, VerdictInv
<1>3. ~Busy(n)' /\ Superseded(n)'
  BY Zenon, <1>1 DEF Frees, Busy, Superseded
<1>4. node'[n].sent >= node[n].sent /\ node'[n].epoch >= node[n].epoch
  BY <1>1 DEF Frees, RegistryInv, RegistryType, NodeStates
<1>5. \A m \in wire' : m.intent.id \in retired' => m.seen < target.snapshot
  BY Zenon, <1>1 DEF RegistryInv, VerdictInv
<1>6. events' \in Nat /\ retired' \subseteq Nat
  BY Zenon, <1>1 DEF RegistryInv, RegistryType
<1> QED BY Zenon, <1>1, <1>2, <1>3, <1>4, <1>5, <1>6, NodeStep DEF Frees

\* An intent is given up.  Its rows may be in the table only in the one case that
\* VerdictsFinal allows, and none of its requests can be applied any more.
LEMMA RetireStep ==
  ASSUME RegistryInv, NEW n \in Nodes, Busy(n), NEW e \in Positive, e >= node[n].epoch,
         Retire(n, e), wire' \subseteq wire, UNCHANGED <<target, landed, issued, events>>,
         \A m \in wire' : m.intent.id = node[n].intent.id => m.seen < target.snapshot,
         \A i \in DOMAIN landed : landed[i].intent.id = node[n].intent.id =>
           /\ target.expired
           /\ \E k \in Nodes \ {landed[i].node} : SlotOf(k) = landed[i].slot
  PROVE  RegistryInv'
<1>1. /\ Only(n) /\ Frees(n) /\ done' = done
      /\ retired' = retired \cup {node[n].intent.id} /\ retired' \subseteq Nat
  BY Zenon, RetireFrees DEF RegistryInv
<1>2. VerdictsFinal'
  BY Zenon, <1>1 DEF RegistryInv, VerdictInv, VerdictsFinal
<1>3. ~Busy(n)' /\ Superseded(n)'
  BY Zenon, <1>1 DEF Frees, Busy, Superseded
<1>4. node'[n].sent >= node[n].sent /\ node'[n].epoch >= node[n].epoch
  BY <1>1 DEF Frees, RegistryInv, RegistryType, NodeStates
<1>5. \A m \in wire' : m.intent.id \in retired' => m.seen < target.snapshot
  BY Zenon, <1>1 DEF RegistryInv, VerdictInv
<1>6. events' \in Nat /\ done' \subseteq Nat
  BY Zenon, <1>1 DEF RegistryInv, RegistryType
<1> QED BY Zenon, <1>1, <1>2, <1>3, <1>4, <1>5, <1>6, NodeStep DEF Frees

\* What the guard has found when it calls an epoch stale.
LEMMA StaleFacts ==
  ASSUME RegistryInv, NEW n \in Nodes, Busy(n), Verdict(n) = "StaleWriterEpoch"
  PROVE  /\ node[n].uuid = target.uuid /\ target.registry[SlotOf(n)] \in Intents
         /\ node[n].intent.epoch < target.registry[SlotOf(n)].epoch
         /\ node[n].intent \notin target.summaries
<1> DEFINE own == target.registry[SlotOf(n)]
           i == node[n].intent
<1>1. own \in Intents \cup {NoIntent}
  BY Zenon, RegistryAssumption DEF RegistryInv, RegistryType, Tables
<1>2. node[n].uuid = target.uuid
  BY Zenon DEF Verdict
<1>3. Validate(Known(n), own.epoch, own.hi, Cardinality(Registered), i) = "StaleWriterEpoch"
  BY Zenon, <1>2 DEF Verdict
<1>4. own.hi # 0 /\ i.epoch < own.epoch /\ ~IsPublished(Known(n), i)
  BY Zenon, <1>3 DEF Validate
<1>5. own \in Intents
  BY <1>1, <1>4 DEF NoIntent
<1>6. i \notin target.summaries
  BY Zenon, <1>4 DEF IsPublished, SameIdentity, Known
<1> QED BY Zenon, <1>2, <1>4, <1>5, <1>6

LEMMA StaleStep ==
  ASSUME RegistryInv, NEW n \in Nodes, Busy(n), Verdict(n) = "StaleWriterEpoch",
         Retire(n, EpochAbove(node[n].epoch, target.registry[SlotOf(n)].epoch)),
         UNCHANGED <<target, wire, landed, issued, events>>
  PROVE  RegistryInv'
<1> DEFINE own == target.registry[SlotOf(n)]
<1>1. /\ node[n].uuid = target.uuid /\ own \in Intents /\ node[n].intent.epoch < own.epoch
      /\ node[n].intent \notin target.summaries
  BY Zenon, StaleFacts
<1>2. node[n].epoch \in Positive /\ own.epoch \in Nat
  BY Zenon, <1>1 DEF RegistryInv, RegistryType, NodeStates, Intents, Positive
<1>3. PICK e \in Positive : e = EpochAbove(node[n].epoch, own.epoch) /\ e >= node[n].epoch
  BY Zenon, <1>2, EpochRises
<1>4. OwnIntent(n) /\ node[n].intent.epoch = node[n].epoch
  BY Zenon DEF RegistryInv, IdInv, OwnIntent
<1>5. ASSUME NEW m \in wire, m.intent.id = node[n].intent.id PROVE m.seen < target.snapshot
  <2>1. m.node = n /\ m.intent = node[n].intent /\ m.uuid = target.uuid
    BY ZenonT(40), <1>1, <1>5 DEF RegistryInv, IdInv, Owned
  <2>2. Timely(m) /\ m.seen \in Nat /\ target.snapshot \in Nat
    BY Zenon DEF RegistryInv, TicketInv, RegistryType, Requests, Tables
  <2>3. ~Ahead(m)
    <3>1. own # Unregistered
      BY Zenon, <1>1, NoIntentState DEF Unregistered
    <3>2. ~(own.epoch <= node[n].intent.epoch)
      BY <1>1, <1>2, <1>4 DEF Positive
    <3> QED BY Zenon, <2>1, <3>1, <3>2 DEF Ahead
  <2>4. m.seen # target.snapshot
    BY Zenon, <2>1, <2>2, <2>3 DEF Timely, Meets
  <2>5. m.seen <= target.snapshot
    BY Zenon, <2>2 DEF Timely
  <2> QED BY <2>2, <2>4, <2>5
<1>6. ASSUME NEW i \in DOMAIN landed, landed[i].intent.id = node[n].intent.id
      PROVE  target.expired /\ \E k \in Nodes \ {landed[i].node} : SlotOf(k) = landed[i].slot
  <2>1. /\ landed[i].node = n /\ landed[i].intent = node[n].intent
        /\ landed[i].uuid = target.uuid
    BY <1>1, <1>6 DEF RegistryInv, IdInv, Owned
  <2>2. Recorded(landed[i])
    BY Zenon DEF RegistryInv, TableInv
  <2>3. target.expired /\ landed[i].slot = SlotOf(n)
    BY Zenon, <1>1, <2>1, <2>2 DEF Recorded
  <2>4. own # Unregistered /\ SlotOf(n) \in Slots
    BY Zenon, <1>1, NoIntentState, RegistryAssumption DEF Unregistered
  <2>5. PICK j \in DOMAIN landed : landed[j].intent = own /\ landed[j].slot = SlotOf(n)
    BY Zenon, <2>4 DEF RegistryInv, TableInv
  <2>6. landed[j].node \in Nodes /\ landed[j].slot = SlotOf(landed[j].node)
    <3>1. landed[j] \in Landings
      BY DEF RegistryInv, RegistryType
    <3> QED BY Zenon, <3>1 DEF Landings, RegistryInv, TableInv, Recorded
  <2>7. own.epoch <= node[landed[j].node].epoch
    BY Zenon, <2>5 DEF RegistryInv, IdInv, Owned
  <2>8. landed[j].node # n
    <3> HIDE DEF own
    <3> QED BY <1>1, <1>2, <1>4, <2>7 DEF Positive
  <2> QED BY ZenonT(40), <2>1, <2>3, <2>5, <2>6, <2>8
<1>7. Retire(n, e)
  BY Zenon, <1>3
<1> QED BY Zenon, <1>3, <1>5, <1>6, <1>7, RetireStep

LEMMA ReloadStep ==
  ASSUME RegistryInv, NEW n \in Nodes, Reload(n)
  PROVE  RegistryInv'
<1>1. Busy(n) /\ node[n].pc = "prepared"
  BY Zenon DEF Reload, Busy
<1>2. CASE Verdict(n) = "Accepted" /\ node' = [node EXCEPT ![n].pc = "checked", ![n].seen = target.snapshot]
           /\ UNCHANGED <<retired, done>>
  BY Zenon, <1>1, <1>2, AcceptStep DEF Reload
<1>3. CASE Verdict(n) = "AlreadyCommitted" /\ Settle(n)
  <2>1. IsPublished(Known(n), node[n].intent)
    BY Zenon, <1>3 DEF Verdict, Validate
  <2> QED BY Zenon, <1>1, <1>3, <2>1, SettleStep DEF Reload
<1>4. CASE /\ Verdict(n) = "StaleWriterEpoch"
           /\ Retire(n, EpochAbove(node[n].epoch, target.registry[SlotOf(n)].epoch))
  BY Zenon, <1>1, <1>4, StaleStep DEF Reload
<1>5. CASE Moves(n, "blocked")
  <2>1. events' \in Nat
    BY Zenon DEF Reload, RegistryInv, RegistryType
  <2> QED BY Zenon, <1>1, <1>5, <2>1, BlockStep DEF Reload
<1> QED BY Zenon, <1>2, <1>3, <1>4, <1>5 DEF Reload

-----------------------------------------------------------------------------
(* The invariant is preserved by the other steps of a node and by an update *)
(* that the catalog refuses.                                               *)

LEMMA OpenStep ==
  ASSUME RegistryInv, NEW n \in Nodes, Open(n)
  PROVE  RegistryInv'
<1> DEFINE own == target.registry[SlotOf(n)]
<1>1. /\ node[n] \in NodeStates /\ own \in Intents \cup {NoIntent} /\ target.uuid \in Nat
      /\ ~Busy(n) /\ node[n].next \in Positive /\ node[n].epoch \in Positive
  BY Zenon, RegistryAssumption DEF Open, Busy, RegistryInv, RegistryType, Tables, NodeStates
<1>2. own.hi \in Nat /\ (own # Unregistered => own.epoch \in Nat)
  BY <1>1, EntryFacts DEF Positive
<1> DEFINE known == IF node[n].uuid = target.uuid THEN node[n].next ELSE 1
<1>3. PICK h \in Positive : h = IF own.hi >= known THEN own.hi + 1 ELSE known
  BY <1>1, <1>2 DEF Positive
<1>4. PICK e \in Positive :
        /\ e = IF own = Unregistered THEN node[n].epoch ELSE EpochAbove(node[n].epoch, own.epoch)
        /\ e >= node[n].epoch
  <2>1. CASE own = Unregistered
    BY <1>1, <2>1 DEF Positive
  <2>2. CASE own # Unregistered
    BY Zenon, <1>1, <1>2, <2>2, EpochRises
  <2> QED BY Zenon, <2>1, <2>2
<1> DEFINE r == [node[n] EXCEPT !.pc = "idle", !.uuid = target.uuid, !.next = h, !.epoch = e]
<1>5. node' = [node EXCEPT ![n] = r]
  BY Zenon, <1>1, <1>3, <1>4 DEF Open, RegistryInv, RegistryType, NodeStates
<1>6. r \in NodeStates /\ r.pc = "idle" /\ r.epoch = e /\ r.sent = node[n].sent
  BY Zenon, <1>1 DEF NodeStates
<1> HIDE DEF r
<1>7. Only(n) /\ node'[n] = r
  BY Zenon, <1>5, <1>6, Update DEF RegistryInv, RegistryType
<1>8. Frees(n) /\ ~Busy(n)' /\ Superseded(n)'
  BY Zenon, <1>4, <1>6, <1>7 DEF Frees, Busy, Superseded
<1>9. node'[n].sent >= node[n].sent /\ node'[n].epoch >= node[n].epoch
  BY <1>1, <1>8 DEF Frees, NodeStates
<1>10. VerdictsFinal' /\ \A m \in wire' : m.intent.id \in retired' => m.seen < target.snapshot
  BY Zenon, VerdictsKeep DEF Open, RegistryInv, VerdictInv
<1>11. /\ events' \in Nat /\ retired' \subseteq Nat /\ done' \subseteq Nat
       /\ UNCHANGED <<target, landed, issued, wire, retired>>
  BY Zenon DEF Open, RegistryInv, RegistryType
<1> QED BY Zenon, <1>7, <1>8, <1>9, <1>10, <1>11, NodeStep DEF Frees

\* A fresh commit ID is nobody else's.
LEMMA PrepareStep ==
  ASSUME RegistryInv, NEW n \in Nodes, Prepare(n)
  PROVE  RegistryInv'
<1> USE DEF RegistryInv
<1>1. /\ node[n] \in NodeStates /\ node[n].pc = "idle" /\ issued \in Nat /\ issued' = issued + 1
      /\ node[n].next \in Positive /\ node[n].epoch \in Positive
      /\ UNCHANGED <<target, wire, landed, retired, done, events>>
  BY Zenon DEF Prepare, RegistryType, NodeStates
<1>2. PICK length \in 1 .. MaxRange :
        LET hi == node[n].next + length - 1
        IN  node' = [node EXCEPT
              ![n].pc = "prepared", ![n].tries = 0,
              ![n].intent = [id |-> issued + 1, epoch |-> node[n].epoch, lo |-> node[n].next, hi |-> hi,
                             rows |-> node[n].next..hi]]
  BY Zenon DEF Prepare
<1>3. PICK hi \in Positive : hi = node[n].next + length - 1 /\ hi >= node[n].next
  BY <1>1, RegistryAssumption DEF Positive
<1> DEFINE i == [id |-> issued + 1, epoch |-> node[n].epoch, lo |-> node[n].next, hi |-> hi,
                 rows |-> node[n].next..hi]
           r == [node[n] EXCEPT !.pc = "prepared", !.tries = 0, !.intent = i]
<1>4. node' = [node EXCEPT ![n] = r]
  BY Zenon, <1>1, <1>2, <1>3 DEF RegistryType, NodeStates
<1>5. i \in Intents /\ i.id = issued + 1 /\ i.epoch = node[n].epoch
  <2>1. node[n].next .. hi \in SUBSET Nat
    BY <1>1, <1>3 DEF Positive
  <2>2. issued + 1 \in Positive
    BY <1>1 DEF Positive
  <2> QED BY Zenon, <1>1, <1>3, <2>1, <2>2 DEF Intents, Positive
<1> HIDE DEF i
<1>6. /\ r \in NodeStates /\ r.pc = "prepared" /\ r.tries = 0 /\ r.intent = i
      /\ r.epoch = node[n].epoch /\ r.sent = node[n].sent
  BY Zenon, <1>1, <1>5 DEF NodeStates
<1> HIDE DEF r
<1>7. Only(n) /\ node'[n] = r
  BY Zenon, <1>4, <1>6, Update DEF RegistryType
<1>8. RegistryType'
  BY <1>1, <1>5, <1>6, <1>7 DEF RegistryType, Only, Busy
<1>9. TicketInv'
  BY Zenon, <1>1, <1>6, <1>7, TicketKeeps
<1>10. TableInv'
  BY Zenon, <1>1, TableKeeps
<1>11. ASSUME NEW q, q.node \in Nodes, q.intent \in Intents, Owned(q) PROVE Owned(q)'
  <2>1. q.intent.id \in Nat /\ q.intent.id <= issued
    BY Zenon, <1>11 DEF Owned, Intents, Positive
  <2>2. q.intent.id <= issued' /\ q.intent.id # issued + 1
    BY <1>1, <2>1
  <2>3. node'[q.node].epoch = node[q.node].epoch
    BY Zenon, <1>6, <1>7, <1>11 DEF Only
  <2>4. ASSUME NEW k \in Nodes, Busy(k)', node'[k].intent.id = q.intent.id
        PROVE  q.node = k /\ q.intent = node'[k].intent /\ q.uuid = node'[k].uuid
    <3>1. k # n
      BY Zenon, <1>5, <1>6, <1>7, <2>2, <2>4
    <3> QED BY <1>7, <1>11, <2>4, <3>1 DEF Only, Busy, Owned
  <2> QED BY Zenon, <1>11, <2>2, <2>3, <2>4 DEF Owned
<1>12. IdInv'
  <2>1. \A m \in wire : m.node \in Nodes /\ m.intent \in Intents /\ m.request \in Nat
    BY Zenon DEF RegistryType, Requests
  <2>2. \A m \in wire' : Owned(m)' /\ m.request <= node'[m.node].sent
    BY Zenon, <1>1, <1>6, <1>7, <1>11, <2>1 DEF IdInv, Only
  <2>3. ASSUME NEW j \in DOMAIN landed' PROVE Owned(landed[j])'
    <3>1. landed[j] \in Landings /\ j \in DOMAIN landed
      BY <1>1 DEF RegistryType
    <3>2. landed[j].node \in Nodes /\ landed[j].intent \in Intents /\ Owned(landed[j])
      BY Zenon, <3>1 DEF Landings, IdInv
    <3>3. PICK q : q = landed[j]
      BY Zenon
    <3>4. Owned(q)'
      BY Zenon, <3>2, <3>3, <1>11
    <3> QED BY Zenon, <1>1, <3>3, <3>4 DEF Owned
  <2>4. \A id \in retired' : id <= issued'
    BY <1>1 DEF IdInv, RegistryType
  <2>5. \A k \in Nodes : k # n /\ Busy(k) => node[k].intent.id # issued + 1 /\ node[k].intent.id <= issued'
    <3> SUFFICES ASSUME NEW k \in Nodes, Busy(k)
                 PROVE  node[k].intent.id # issued + 1 /\ node[k].intent.id <= issued + 1
      BY Zenon, <1>1
    <3>1. node[k].intent.id \in Nat /\ node[k].intent.id <= issued
      BY Zenon DEF IdInv, OwnIntent, RegistryType, Intents, Positive
    <3> QED BY <1>1, <3>1
  <2>6. ASSUME NEW k \in Nodes, Busy(k)' PROVE OwnIntent(k)'
    <3>1. CASE k = n
      <4>1. issued + 1 <= issued' /\ issued + 1 \notin retired'
        BY <1>1 DEF IdInv, RegistryType
      <4>2. \A j \in Nodes : Busy(j)' /\ node'[j].intent.id = issued + 1 => j = n
        BY Zenon, <1>7, <2>5 DEF Only, Busy
      <4> QED BY ZenonT(40), <1>5, <1>6, <1>7, <3>1, <4>1, <4>2 DEF OwnIntent
    <3>2. CASE k # n
      <4>1. node'[k] = node[k] /\ Busy(k) /\ OwnIntent(k)
        BY Zenon, <1>7, <2>6, <3>2 DEF Only, Busy, IdInv
      <4>2. \A j \in Nodes : Busy(j)' /\ node'[j].intent.id = node[k].intent.id => j = k
        <5> SUFFICES ASSUME NEW j \in Nodes, Busy(j)', node'[j].intent.id = node[k].intent.id
                     PROVE  j = k
          BY Zenon
        <5>1. j # n
          BY ZenonT(40), <1>5, <1>6, <1>7, <2>5, <3>2, <4>1
        <5> QED BY Zenon, <1>7, <4>1, <5>1 DEF Only, Busy, OwnIntent
      <4> QED BY ZenonT(40), <1>1, <2>5, <3>2, <4>1, <4>2 DEF OwnIntent
    <3> QED BY Zenon, <3>1, <3>2
  <2> QED BY Zenon, <2>2, <2>3, <2>4, <2>6 DEF IdInv
<1>13. VerdictInv'
  <2>1. VerdictsFinal' /\ \A m \in wire' : m.intent.id \in retired' => m.seen < target'.snapshot
    BY Zenon, <1>1, VerdictsKeep DEF VerdictInv
  <2>2. ASSUME NEW k \in Nodes PROVE Superseded(k)'
    <3>1. CASE k = n
      BY <1>6, <1>7, <3>1 DEF Superseded
    <3>2. CASE k # n
      <4>1. node'[k] = node[k] /\ Superseded(k)
        BY Zenon, <1>7, <3>2 DEF Only, VerdictInv
      <4>2. target' \in Tables /\ target'.snapshot >= target.snapshot
        BY <1>1, <1>8 DEF RegistryType, Tables
      <4>3. node[k].pc \in {"checked", "waiting"} => node[k].seen <= target.snapshot
        BY Zenon, SeenBehind
      <4> QED BY Zenon, <1>1, <4>1, <4>2, <4>3, SupersededKeeps
    <3> QED BY Zenon, <3>1, <3>2
  <2> QED BY Zenon, <2>1, <2>2 DEF VerdictInv
<1> QED BY Zenon, <1>8, <1>9, <1>10, <1>12, <1>13

\* A ticket goes on the wire as it was checked.
LEMMA SendStep ==
  ASSUME RegistryInv, NEW n \in Nodes, Send(n)
  PROVE  RegistryInv'
<1> USE DEF RegistryInv
<1> DEFINE w == [node |-> n, intent |-> node[n].intent, uuid |-> node[n].uuid,
                 seen |-> node[n].seen, request |-> node[n].sent + 1]
<1>1. /\ node[n] \in NodeStates /\ node[n].pc = "checked" /\ Busy(n) /\ node[n].intent \in Intents
      /\ UNCHANGED <<target, landed, retired, done, issued, events>>
  BY Zenon DEF Send, Busy, RegistryType
<1>2. PICK c \in Nat : c = node[n].sent + 1
  BY <1>1 DEF NodeStates
<1> DEFINE r == [node[n] EXCEPT !.pc = "waiting", !.sent = c]
<1>3. node' = [node EXCEPT ![n] = r]
  BY Zenon, <1>1, <1>2 DEF Send, RegistryType, NodeStates
<1>4. /\ r \in NodeStates /\ r.pc = "waiting" /\ r.sent = c /\ r.seen = node[n].seen
      /\ r.tries = node[n].tries /\ r.intent = node[n].intent /\ r.uuid = node[n].uuid
      /\ r.epoch = node[n].epoch
  BY Zenon, <1>1, <1>2 DEF NodeStates
<1> HIDE DEF r
<1>5. Only(n) /\ node'[n] = r
  BY Zenon, <1>3, <1>4, Update DEF RegistryType
<1>6. Keeps(n) /\ Busy(n)'
  BY Zenon, <1>4, <1>5 DEF Keeps, Busy
<1>7. wire' = wire \cup {w} /\ w = Ticket(n)
  BY Zenon DEF Send, Ticket
<1>8. /\ w \in Requests /\ w.node = n /\ w.intent = node[n].intent /\ w.uuid = node[n].uuid
      /\ w.seen = node[n].seen /\ w.request = c
  BY Zenon, <1>1, <1>2 DEF Requests, NodeStates
<1>9. Timely(w)
  BY Zenon, <1>1, <1>7 DEF TicketInv
<1> HIDE DEF w
<1>10. RegistryType'
  BY Zenon, <1>1, <1>4, <1>5, <1>7, <1>8 DEF RegistryType, Only, Busy
<1>11. TicketInv'
  <2>1. \A m \in wire' : Timely(m)'
    BY Zenon, <1>1, <1>7, <1>9, TimelyKeeps DEF TicketInv
  <2>2. \A k \in Nodes : node'[k].pc = "checked" => Timely(Ticket(k))'
    <3> SUFFICES ASSUME NEW k \in Nodes, node'[k].pc = "checked" PROVE Timely(Ticket(k))'
      BY Zenon
    <3>1. node'[k] = node[k]
      BY Zenon, <1>4, <1>5 DEF Only
    <3>2. Ticket(k)' = Ticket(k) /\ Timely(Ticket(k))
      BY Zenon, <3>1 DEF Ticket, TicketInv
    <3> QED BY Zenon, <1>1, <3>2 DEF Timely, Meets, Ahead, Registered
  <2>3. \A k \in Nodes : node'[k].pc = "waiting" => node'[k].seen <= target'.snapshot
    BY Zenon, <1>1, <1>4, <1>5, SeenBehind DEF TicketInv, Only
  <2> QED BY Zenon, <2>1, <2>2, <2>3 DEF TicketInv
<1>12. TableInv'
  BY Zenon, <1>1, TableKeeps
<1>13. node'[n].epoch >= node[n].epoch /\ node'[n].sent >= node[n].sent
       /\ node[n].sent \in Nat /\ c > node[n].sent
  BY <1>1, <1>2, <1>4, <1>5 DEF NodeStates, Positive
<1>14. IdInv'
  <2>1. \A m \in wire : m.node \in Nodes /\ m.intent \in Intents /\ m.request \in Nat
    BY Zenon DEF RegistryType, Requests
  <2>2. OwnIntent(n)
    BY Zenon, <1>1 DEF IdInv
  <2>3. Owned(w)
    <3>1. node[n].intent.epoch <= node[n].epoch
      BY <1>1, <2>2 DEF OwnIntent, NodeStates, Positive
    <3> QED BY Zenon, <1>8, <2>2, <3>1 DEF Owned, OwnIntent
  <2>4. \A m \in wire' : Owned(m)'
    BY ZenonT(40), <1>1, <1>5, <1>6, <1>7, <1>8, <1>13, <2>1, <2>3, OwnedKeeps DEF IdInv
  <2>5. \A m \in wire' : m.request <= node'[m.node].sent
    <3> SUFFICES ASSUME NEW m \in wire' PROVE m.request <= node'[m.node].sent
      BY Zenon
    <3>1. CASE m = w
      BY <1>4, <1>5, <1>8, <3>1
    <3>2. CASE m \in wire
      <4>1. m.request <= node[m.node].sent /\ m.request \in Nat /\ node[m.node].sent \in Nat
        BY Zenon, <2>1, <3>2 DEF IdInv, RegistryType, NodeStates
      <4>2. CASE m.node = n
        BY <1>4, <1>5, <1>13, <4>1, <4>2
      <4>3. CASE m.node # n
        BY Zenon, <1>5, <2>1, <3>2, <4>1, <4>3 DEF Only
      <4> QED BY Zenon, <4>2, <4>3
    <3> QED BY Zenon, <1>7, <3>1, <3>2
  <2>6. ASSUME NEW j \in DOMAIN landed' PROVE Owned(landed[j])'
    <3>1. landed[j] \in Landings /\ j \in DOMAIN landed
      BY <1>1 DEF RegistryType
    <3>2. landed[j].node \in Nodes /\ landed[j].intent \in Intents /\ Owned(landed[j])
      BY Zenon, <3>1 DEF Landings, IdInv
    <3>3. PICK q : q = landed[j]
      BY Zenon
    <3>4. Owned(q)'
      BY Zenon, <1>1, <1>5, <1>6, <1>13, <3>2, <3>3, OwnedKeeps
    <3> QED BY Zenon, <1>1, <3>3, <3>4 DEF Owned
  <2>7. \A k \in Nodes : Busy(k)' =>
          Busy(k) /\ node'[k].intent = node[k].intent /\ node'[k].epoch = node[k].epoch
    BY Zenon, <1>1, <1>4, <1>5 DEF Only, Busy
  <2>8. \A k \in Nodes : Busy(k)' => OwnIntent(k)'
    BY <1>1, <2>7 DEF IdInv, OwnIntent
  <2> QED BY ZenonT(40), <1>1, <2>4, <2>5, <2>6, <2>8 DEF IdInv
<1>15. VerdictInv'
  <2>1. VerdictsFinal'
    BY Zenon, <1>1, VerdictsKeep DEF VerdictInv
  <2>2. \A m \in wire' : m.intent.id \in retired' => m.seen < target'.snapshot
    BY Zenon, <1>1, <1>7, <1>8 DEF VerdictInv, IdInv, OwnIntent
  <2>3. Superseded(n)'
    <3>1. \A m \in wire : m.intent.id = node[n].intent.id =>
            m.seen <= node[n].seen /\ (node[n].tries >= 1 => m.seen < node[n].seen)
      BY Zenon, <1>1 DEF VerdictInv, Superseded
    <3>2. node[n].tries >= 1 => \A i \in DOMAIN landed : landed[i].intent.id # node[n].intent.id
      BY Zenon, <1>1 DEF VerdictInv, Superseded
    <3>3. \A m \in wire : m.node = n => m.request # c
      <4> SUFFICES ASSUME NEW m \in wire, m.node = n PROVE m.request # c
        BY Zenon
      <4>1. m.request <= node[n].sent /\ m.request \in Nat
        BY Zenon DEF IdInv, RegistryType, Requests
      <4> QED BY <1>13, <4>1
    <3>4. w.seen <= node[n].seen
      BY <1>1, <1>8 DEF NodeStates
    <3> QED BY ZenonT(40), <1>1, <1>4, <1>5, <1>7, <1>8, <3>1, <3>2, <3>3, <3>4 DEF Superseded
  <2>4. ASSUME NEW k \in Nodes, k # n PROVE Superseded(k)'
    <3>1. node'[k] = node[k] /\ Superseded(k)
      BY Zenon, <1>5, <2>4 DEF Only, VerdictInv
    <3>2. target' \in Tables /\ target'.snapshot >= target.snapshot
      BY <1>1, <1>10 DEF RegistryType, Tables
    <3>3. node[k].pc \in {"checked", "waiting"} => node[k].seen <= target.snapshot
      BY Zenon, SeenBehind
    <3>4. \A m \in wire' : m \in wire \/ (m.node # k /\ (Busy(k) => m.intent.id # node[k].intent.id))
      BY <1>1, <1>7, <1>8, <2>4 DEF IdInv, OwnIntent
    <3> QED BY ZenonT(40), <1>1, <3>1, <3>2, <3>3, <3>4, SupersededKeeps
  <2> QED BY Zenon, <2>1, <2>2, <2>3, <2>4 DEF VerdictInv
<1> QED BY Zenon, <1>10, <1>11, <1>12, <1>14, <1>15

LEMMA ResolveStep ==
  ASSUME RegistryInv, NEW n \in Nodes, Resolve(n)
  PROVE  RegistryInv'
<1>1. Busy(n) /\ UNCHANGED <<target, wire, landed, issued, events>> /\ events' \in Nat
  BY Zenon DEF Resolve, Busy, RegistryInv, RegistryType
<1>2. CASE Moves(n, "blocked")
  BY Zenon, <1>1, <1>2, BlockStep
<1>3. CASE IsPublished(Known(n), node[n].intent) /\ Settle(n)
  BY Zenon, <1>1, <1>3, SettleStep
<1>4. CASE node' = [node EXCEPT ![n].pc = "prepared", ![n].tries = 0] /\ UNCHANGED <<retired, done>>
  <2>1. node[n] \in NodeStates
    BY Zenon DEF RegistryInv, RegistryType
  <2> DEFINE r == [node[n] EXCEPT !.pc = "prepared", !.tries = 0]
  <2>2. node' = [node EXCEPT ![n] = r]
    BY Zenon, <1>4 DEF RegistryInv, RegistryType
  <2>3. /\ r \in NodeStates /\ r.pc = "prepared" /\ r.tries = 0 /\ r.intent = node[n].intent
        /\ r.uuid = node[n].uuid /\ r.epoch = node[n].epoch /\ r.sent = node[n].sent
    BY Zenon, <2>1 DEF NodeStates
  <2> HIDE DEF r
  <2>4. Only(n) /\ node'[n] = r
    BY Zenon, <2>2, <2>3, Update DEF RegistryInv, RegistryType
  <2>5. Keeps(n) /\ node'[n].pc = "prepared" /\ node'[n].tries = 0 /\ node'[n].sent = node[n].sent
    BY Zenon, <2>3, <2>4 DEF Keeps
  <2> QED BY Zenon, <1>1, <1>4, <2>4, <2>5, MoveStep
<1> QED BY Zenon, <1>2, <1>3, <1>4 DEF Resolve

\* A request that does not meet its requirements is behind for good.
LEMMA MissedBehind ==
  ASSUME RegistryInv, NEW m \in wire, ~Meets(m)
  PROVE  m.seen < target.snapshot
<1>1. m.seen \in Nat /\ target.snapshot \in Nat
  BY Zenon DEF RegistryInv, RegistryType, Requests, Tables
<1>2. m.seen <= target.snapshot /\ (m.uuid # target.uuid => m.seen < target.snapshot)
  BY Zenon DEF RegistryInv, TicketInv, Timely
<1> QED BY <1>1, <1>2 DEF Meets

LEMMA LateMiss ==
  ASSUME RegistryInv, NEW m \in wire, ~Meets(m), wire' = wire \ {m},
         UNCHANGED <<target, node, landed, retired, done, issued, events>>
  PROVE  RegistryInv'
<1> DEFINE n == m.node
<1>1. n \in Nodes
  BY Zenon DEF RegistryInv, RegistryType, Requests
<1>2. PICK k \in Nodes : TRUE
  BY Zenon, <1>1
<1>3. Only(k) /\ Keeps(k) /\ (Busy(k)' => Busy(k))
  BY Zenon DEF Only, Keeps, Busy, RegistryInv, RegistryType
<1>4. node'[k].epoch >= node[k].epoch /\ node'[k].sent >= node[k].sent
  BY DEF RegistryInv, RegistryType, NodeStates, Positive
<1>5. node'[k].pc = "checked" => Timely(Ticket(k)')
  BY Zenon DEF RegistryInv, TicketInv, Ticket
<1>6. node'[k].pc = "waiting" => node'[k].seen <= target.snapshot
  BY Zenon DEF RegistryInv, TicketInv
<1>7. VerdictsFinal' /\ \A w \in wire' : w.intent.id \in retired' => w.seen < target.snapshot
  BY Zenon, VerdictsKeep DEF RegistryInv, VerdictInv
<1>8. Superseded(k)'
  <2>1. Superseded(k) /\ target' \in Tables /\ target'.snapshot >= target.snapshot
    BY DEF RegistryInv, VerdictInv, RegistryType, Tables
  <2>2. node[k].pc \in {"checked", "waiting"} => node[k].seen <= target.snapshot
    BY Zenon, SeenBehind DEF RegistryInv
  <2> QED BY Zenon, <2>1, <2>2, SupersededKeeps DEF RegistryInv
<1>9. events' \in Nat /\ retired' \subseteq Nat /\ done' \subseteq Nat
  BY Zenon DEF RegistryInv, RegistryType
<1> QED BY Zenon, <1>3, <1>4, <1>5, <1>6, <1>7, <1>8, <1>9, NodeStep

\* A conflict.  The request was the node's latest, so every other one of its
\* intent is behind as well; and on a second attempt nothing of it has landed.
LEMMA AnswerMiss ==
  ASSUME RegistryInv, NEW m \in wire, ~Meets(m), wire' = wire \ {m},
         node[m.node].pc = "waiting", m.request = node[m.node].sent, Conflicts(m.node),
         UNCHANGED <<target, landed, issued, events>>
  PROVE  RegistryInv'
<1>1. PICK n \in Nodes : n = m.node
  BY Zenon DEF RegistryInv, RegistryType, Requests
<1>2. Busy(n) /\ Superseded(n) /\ node[n] \in NodeStates /\ m.seen < target.snapshot
  BY Zenon, <1>1, MissedBehind DEF Busy, RegistryInv, RegistryType, VerdictInv
<1>3. m.seen = node[n].seen /\ m.intent = node[n].intent
  BY Zenon, <1>1, <1>2 DEF Superseded
<1>4. ASSUME NEW w \in wire, w.intent.id = node[n].intent.id PROVE w.seen < target.snapshot
  <2>1. w.seen <= node[n].seen
    BY Zenon, <1>1, <1>2, <1>4 DEF Superseded
  <2>2. w.seen \in Nat /\ m.seen \in Nat /\ target.snapshot \in Nat
    BY Zenon DEF RegistryInv, RegistryType, Requests, Tables
  <2> QED BY <1>2, <1>3, <2>1, <2>2
<1>5. CASE /\ node' = [node EXCEPT ![n].pc = "prepared", ![n].tries = @ + 1]
           /\ UNCHANGED <<retired, done>>
  <2> DEFINE t == node[n].tries + 1
             r == [node[n] EXCEPT !.pc = "prepared", !.tries = t]
  <2>1. t \in Nat
    BY <1>2 DEF NodeStates
  <2>2. node' = [node EXCEPT ![n] = r]
    BY Zenon, <1>5 DEF RegistryInv, RegistryType
  <2> HIDE DEF t
  <2>3. /\ r \in NodeStates /\ r.pc = "prepared" /\ r.intent = node[n].intent
        /\ r.uuid = node[n].uuid /\ r.epoch = node[n].epoch /\ r.sent = node[n].sent
    BY Zenon, <1>2, <2>1 DEF NodeStates
  <2> HIDE DEF r
  <2>4. Only(n) /\ node'[n] = r
    BY Zenon, <2>2, <2>3, Update DEF RegistryInv, RegistryType
  <2>5. Keeps(n) /\ node'[n].pc = "prepared"
    BY Zenon, <2>3, <2>4 DEF Keeps
  <2>6. Superseded(n)'
    BY Zenon, <1>4, <2>5 DEF Superseded, Keeps
  <2>7. VerdictsFinal' /\ \A w \in wire' : w.intent.id \in retired' => w.seen < target.snapshot
    BY Zenon, <1>5, VerdictsKeep DEF RegistryInv, VerdictInv
  <2>8. node'[n].epoch >= node[n].epoch /\ node'[n].sent >= node[n].sent
    BY <1>2, <2>3, <2>4 DEF NodeStates, Positive
  <2>9. events' \in Nat /\ retired' \subseteq Nat /\ done' \subseteq Nat
    BY Zenon, <1>5 DEF RegistryInv, RegistryType
  <2> QED BY ZenonT(40), <1>2, <1>5, <2>4, <2>5, <2>6, <2>7, <2>8, <2>9, NodeStep
<1>6. CASE node[n].tries = Retries /\ Retire(n, node[n].epoch)
  <2>1. node[n].tries >= 1
    BY <1>6, RegistryAssumption
  <2>2. \A i \in DOMAIN landed : landed[i].intent.id # node[n].intent.id
    BY Zenon, <1>1, <1>2, <2>1 DEF Superseded
  <2>3. PICK e \in Positive : e = node[n].epoch /\ e >= node[n].epoch
    BY <1>2 DEF NodeStates, Positive
  <2>4. Retire(n, e)
    BY Zenon, <1>6, <2>3
  <2> QED BY ZenonT(40), <1>2, <1>4, <2>2, <2>3, <2>4, RetireStep
<1> QED BY Zenon, <1>1, <1>5, <1>6 DEF Conflicts

=============================================================================
