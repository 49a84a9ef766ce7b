----------------------- MODULE WriterRegistryProofs -----------------------
(***************************************************************************)
(* The invariant of WriterRegistryInvariant, which the steps of a node     *)
(* keep, is kept by an update that the catalog applies and by what others  *)
(* do to the table too, and so by every step: the theorem.                 *)
(***************************************************************************)
EXTENDS WriterRegistryInvariant

-----------------------------------------------------------------------------
(* An update that the catalog applies. *)

\* What Apply does to the table when request m meets its requirements: N is the
\* place of the new landing, s the writer's slot.
Applied(m, s, N) ==
  /\ target' \in Tables /\ target'.snapshot = target.snapshot + 1
  /\ target'.uuid = target.uuid /\ target'.damaged = target.damaged
  /\ target'.expired = target.expired /\ target'.summaries = target.summaries \cup {m.intent}
  /\ target'.registry[s] = m.intent
  /\ \A t \in Slots : t # s => target'.registry[t] = target.registry[t]
  /\ landed' \in Seq(Landings) /\ DOMAIN landed' = DOMAIN landed \cup {N}
  /\ \A i \in DOMAIN landed : landed'[i] = landed[i] /\ i < N
  /\ landed'[N] = [slot |-> s, node |-> m.node, uuid |-> target.uuid, intent |-> m.intent,
                   damaged |-> target.damaged]

LEMMA AppliedFacts ==
  ASSUME RegistryInv, NEW m \in wire, Meets(m), Apply(m)
  PROVE  SlotOf(m.node) \in Slots /\ Applied(m, SlotOf(m.node), Len(landed) + 1)
<1>1. m \in Requests /\ SlotOf(m.node) \in Slots
  BY Zenon, RegistryAssumption DEF RegistryInv, RegistryType, Requests
<1>2. PICK s \in Slots : s = SlotOf(m.node)
  BY Zenon, <1>1
<1>3. PICK i \in Intents : i = m.intent
  BY Zenon, <1>1 DEF Requests
<1>4. target' = [target EXCEPT !.snapshot = @ + 1, !.summaries = @ \cup {i}, !.registry[s] = i]
  BY Zenon, <1>2, <1>3 DEF Apply
<1>5. target \in Tables
  BY Zenon DEF RegistryInv, RegistryType
<1>6. /\ target' \in Tables /\ target'.snapshot = target.snapshot + 1
      /\ target'.uuid = target.uuid /\ target'.damaged = target.damaged
      /\ target'.expired = target.expired /\ target'.summaries = target.summaries \cup {i}
      /\ target'.registry = [target.registry EXCEPT ![s] = i]
  <2> DEFINE v == target.snapshot + 1
             p == target.summaries \cup {i}
             g == [target.registry EXCEPT ![s] = i]
  <2>1. v \in Nat
    BY <1>5 DEF Tables
  <2>2. p \in SUBSET Intents
    BY Zenon, <1>5 DEF Tables
  <2>3. g \in [Slots -> Intents \cup {NoIntent}]
    BY Zenon, <1>5 DEF Tables
  <2>4. target' = [target EXCEPT !.snapshot = v, !.summaries = p, !.registry = g]
    BY Zenon, <1>4, <1>5 DEF Tables
  <2> HIDE DEF v, p, g
  <2>5. /\ target' \in Tables /\ target'.snapshot = v /\ target'.summaries = p
        /\ target'.registry = g /\ target'.uuid = target.uuid
        /\ target'.damaged = target.damaged /\ target'.expired = target.expired
    BY Zenon, <1>5, <2>1, <2>2, <2>3, <2>4 DEF Tables
  <2> QED BY Zenon, <2>5 DEF v, p, g
<1>7. target'.registry[s] = i /\ \A t \in Slots : t # s => target'.registry[t] = target.registry[t]
  BY Zenon, <1>5, <1>6 DEF Tables
<1> DEFINE q == [slot |-> s, node |-> m.node, uuid |-> target.uuid, intent |-> m.intent,
                 damaged |-> target.damaged]
<1>8. q \in Landings /\ landed' = Append(landed, q) /\ landed \in Seq(Landings)
  BY Zenon, <1>1, <1>2, <1>5 DEF Apply, Meets, Landings, Requests, Tables, RegistryInv, RegistryType
<1> HIDE DEF q
<1>9. /\ landed' \in Seq(Landings) /\ DOMAIN landed' = DOMAIN landed \cup {Len(landed) + 1}
      /\ \A j \in DOMAIN landed : landed'[j] = landed[j] /\ j < Len(landed) + 1
      /\ landed'[Len(landed) + 1] = q
  BY <1>8
<1> QED BY Zenon, <1>1, <1>2, <1>3, <1>6, <1>7, <1>9 DEF Applied, q

\* No landing of the writer on this table is above the one that is added.
LEMMA BelowNew ==
  ASSUME RegistryInv, NEW m \in wire, Meets(m), NEW i \in DOMAIN landed,
         landed[i].uuid = target.uuid, landed[i].slot = SlotOf(m.node)
  PROVE  landed[i].intent.hi < m.intent.lo /\ landed[i].intent.epoch <= m.intent.epoch
<1>1. Ahead(m) /\ Recorded(landed[i])
  BY Zenon DEF RegistryInv, TicketInv, Timely, TableInv
<1>2. PICK own : own = target.registry[SlotOf(m.node)]
  BY Zenon
<1>3. landed[i] \in Landings /\ m.intent \in Intents /\ m.node \in Nodes
  BY DEF RegistryInv, RegistryType, Requests
<1>4. own \in Intents \cup {NoIntent}
  BY Zenon, <1>2, <1>3, RegistryAssumption DEF RegistryInv, RegistryType, Tables
<1>5. /\ own.hi \in Nat /\ own.epoch \in Nat /\ m.intent.lo \in Nat /\ m.intent.epoch \in Nat
      /\ landed[i].intent.hi \in Nat \ {0} /\ landed[i].intent.epoch \in Nat
  BY <1>3, <1>4 DEF Intents, NoIntent, Landings, Positive
<1>6. landed[i].intent.hi <= own.hi /\ landed[i].intent.epoch <= own.epoch /\ own.hi < m.intent.lo
  BY Zenon, <1>1, <1>2 DEF Recorded, Ahead
<1>7. own # Unregistered
  <2>1. own = Unregistered => own.hi = 0
    BY DEF Unregistered, NoIntent
  <2> QED BY <1>5, <1>6, <2>1
<1>8. own.epoch <= m.intent.epoch
  BY Zenon, <1>1, <1>2, <1>7 DEF Ahead
<1> QED BY <1>5, <1>6, <1>8

LEMMA HitTable ==
  ASSUME RegistryInv, NEW m \in wire, Meets(m), NEW s \in Slots, s = SlotOf(m.node), NEW N,
         Applied(m, s, N)
  PROVE  TableInv'
<1>1. TableInv /\ Ahead(m) /\ m \in Requests /\ target \in Tables
  BY Zenon DEF RegistryInv, TicketInv, Timely, RegistryType
<1>2. \A p \in target'.summaries : \E i \in DOMAIN landed' : landed'[i].intent = p
  BY <1>1 DEF TableInv, Applied
<1>3. \A t \in Slots : target'.registry[t] # Unregistered =>
        \E i \in DOMAIN landed' : landed'[i].intent = target'.registry[t] /\ landed'[i].slot = t
  <2> SUFFICES ASSUME NEW t \in Slots, target'.registry[t] # Unregistered
               PROVE  \E i \in DOMAIN landed' : landed'[i].intent = target'.registry[t] /\ landed'[i].slot = t
    BY Zenon
  <2>1. CASE t = s
    BY <2>1 DEF Applied
  <2>2. CASE t # s
    BY <1>1, <2>2 DEF Applied, TableInv
  <2> QED BY Zenon, <2>1, <2>2
<1>4. \A i \in DOMAIN landed' : Recorded(landed[i])'
  <2>1. Recorded(landed[N])'
    <3>1. target'.uuid <= target'.uuid /\ m.intent.hi <= m.intent.hi /\ m.intent.epoch <= m.intent.epoch
      BY <1>1 DEF Applied, Tables, Requests, Intents, Positive
    <3>2. PICK r : r = landed'[N]
      BY Zenon
    <3>3. /\ r.slot = s /\ r.node = m.node /\ r.uuid = target'.uuid /\ r.intent = m.intent
          /\ r.damaged = target'.damaged /\ target'.registry[s] = m.intent
          /\ m.intent \in target'.summaries
      BY <3>2 DEF Applied
    <3>4. Recorded(r)'
      BY Zenon, <3>1, <3>3 DEF Recorded
    <3> QED BY Zenon, <3>2, <3>4 DEF Recorded
  <2>2. ASSUME NEW i \in DOMAIN landed PROVE Recorded(landed[i])'
    <3>1. PICK r : r = landed[i]
      BY Zenon
    <3>2. landed'[i] = r /\ Recorded(r) /\ r \in Landings
      BY <1>1, <2>2, <3>1 DEF Applied, TableInv, RegistryInv, RegistryType
    <3>3. r.uuid = target.uuid /\ r.slot = s => r.intent.hi < m.intent.lo /\ r.intent.epoch <= m.intent.epoch
      BY Zenon, <3>1, BelowNew
    <3>4. m.intent.lo <= m.intent.hi /\ m.intent.lo \in Nat /\ m.intent.hi \in Nat /\ r.intent.hi \in Nat
      BY Zenon, <1>1, <3>2 DEF Requests, Landings, Intents, Positive
    <3>5. r.uuid = target.uuid /\ r.slot = s => r.intent.hi <= m.intent.hi
      BY <3>3, <3>4
    <3>6. r.slot \in Slots
      BY Zenon, <3>2 DEF Landings
    <3>7. ASSUME r.uuid = target'.uuid
          PROVE  /\ r.intent.hi <= target'.registry[r.slot].hi
                 /\ r.intent.epoch <= target'.registry[r.slot].epoch
      <4>1. r.uuid = target.uuid
        BY Zenon, <3>7 DEF Applied
      <4>2. CASE r.slot = s
        BY Zenon, <3>3, <3>5, <4>1, <4>2 DEF Applied
      <4>3. CASE r.slot # s
        BY Zenon, <3>2, <3>6, <4>1, <4>3 DEF Applied, Recorded
      <4> QED BY Zenon, <4>2, <4>3
    <3>8. /\ r.uuid <= target'.uuid /\ r.slot = SlotOf(r.node)
          /\ r.uuid = target'.uuid /\ r.damaged => target'.damaged
          /\ r.uuid = target'.uuid => target'.expired \/ r.intent \in target'.summaries
      BY Zenon, <3>2 DEF Recorded, Applied
    <3>9. Recorded(r)'
      BY Zenon, <3>7, <3>8 DEF Recorded
    <3> QED BY Zenon, <3>2, <3>9 DEF Recorded
  <2> QED BY Zenon, <2>1, <2>2 DEF Applied
<1>5. RegistryBounded'
  <2>1. m.intent # Unregistered
    BY Zenon, <1>1, NoIntentState DEF Requests, Unregistered
  <2>2. Registered' = Registered \cup {s}
    BY Zenon, <2>1 DEF Registered, Applied
  <2>3. IsFiniteSet(Registered)
    BY Zenon, RegistryAssumption, FS_Subset DEF Registered
  <2>4. Cardinality(Registered) \in Nat
    BY Zenon, <2>3, FS_CardinalityType
  <2>5. CASE s \in Registered
    <3>1. Registered' = Registered
      BY Zenon, <2>2, <2>5
    <3> QED BY Zenon, <1>1, <3>1 DEF RegistryBounded, TableInv
  <2>6. CASE s \notin Registered
    <3>1. Cardinality(Registered) < MaxWriters
      BY Zenon, <1>1, <2>6 DEF Ahead, Registered
    <3>2. Cardinality(Registered \cup {s}) = Cardinality(Registered) + 1
      BY Zenon, <2>3, <2>6, FS_AddElement
    <3> QED BY <2>2, <2>4, <3>1, <3>2, MaxWritersAssumption DEF RegistryBounded
  <2> QED BY Zenon, <2>5, <2>6
<1>6. RangesInOrder'
  <2> SUFFICES ASSUME NEW i \in DOMAIN landed', NEW j \in DOMAIN landed', i < j,
                      landed'[i].slot = landed'[j].slot, landed'[i].uuid = landed'[j].uuid
               PROVE  /\ landed'[i].intent.hi < landed'[j].intent.lo
                      /\ landed'[i].intent.epoch <= landed'[j].intent.epoch
    BY Zenon DEF RangesInOrder
  <2>1. j \in DOMAIN landed => i \in DOMAIN landed
    BY DEF Applied, RegistryInv, RegistryType
  <2>2. CASE j \in DOMAIN landed
    BY <1>1, <2>1, <2>2 DEF Applied, TableInv, RangesInOrder
  <2>3. CASE j \notin DOMAIN landed
    <3>1. j = N /\ landed'[j].slot = s /\ landed'[j].uuid = target.uuid /\ landed'[j].intent = m.intent
      BY <2>3 DEF Applied
    <3>2. i \in DOMAIN landed /\ landed'[i] = landed[i]
      BY <3>1 DEF Applied, RegistryInv, RegistryType
    <3> QED BY Zenon, <3>1, <3>2, BelowNew
  <2> QED BY Zenon, <2>2, <2>3
<1>7. DamageContained'
  <2> SUFFICES ASSUME NEW i \in DOMAIN landed', NEW j \in DOMAIN landed', landed'[i].damaged,
                      landed'[j].damaged, landed'[i].uuid = landed'[j].uuid
               PROVE  i = j
    BY Zenon DEF DamageContained
  <2>1. ASSUME NEW k \in DOMAIN landed, landed[k].uuid = target.uuid PROVE ~landed[k].damaged
    BY Zenon, <1>1, <2>1 DEF Ahead
  <2>2. landed'[N].uuid = target.uuid
    BY DEF Applied
  <2>3. CASE i = N
    <3>1. j \notin DOMAIN landed
      BY ZenonT(40), <2>1, <2>2, <2>3 DEF Applied
    <3> QED BY Zenon, <2>3, <3>1 DEF Applied
  <2>4. CASE j = N
    <3>1. i \notin DOMAIN landed
      BY Zenon, <2>1, <2>2, <2>4 DEF Applied
    <3> QED BY Zenon, <2>4, <3>1 DEF Applied
  <2>5. CASE i \in DOMAIN landed /\ j \in DOMAIN landed
    <3>1. landed[i].damaged /\ landed[j].damaged /\ landed[i].uuid = landed[j].uuid
      BY Zenon, <2>5 DEF Applied
    <3> QED BY Zenon, <1>1, <2>5, <3>1 DEF TableInv, DamageContained
  <2> QED BY Zenon, <2>3, <2>4, <2>5 DEF Applied
<1> QED BY ZenonT(40), <1>2, <1>3, <1>4, <1>5, <1>6, <1>7 DEF TableInv

\* The node of the request either is told, and settles, or goes on without knowing.
LEMMA HitStep ==
  ASSUME RegistryInv, NEW m \in wire, Meets(m), NEW s \in Slots, s = SlotOf(m.node), NEW N,
         Applied(m, s, N), wire' = wire \ {m}, NEW n \in Nodes, n = m.node, Only(n),
         node'[n].epoch >= node[n].epoch, node'[n].sent >= node[n].sent,
         \/ node'[n] = node[n] /\ ~(node[n].pc = "waiting" /\ m.request = node[n].sent)
         \/ ~Busy(n)',
         retired' = retired, done' \subseteq done \cup {m.intent.id},
         UNCHANGED <<issued, events>>
  PROVE  RegistryInv'
<1> USE DEF RegistryInv
<1>1. \A k \in Nodes : Busy(k)' => node'[k] = node[k] /\ Busy(k)
  BY Zenon DEF Only, Busy
<1>2. target \in Tables /\ target' \in Tables /\ target'.snapshot = target.snapshot + 1
  BY Zenon DEF RegistryType, Applied
<1>3. target.snapshot \in Nat /\ target'.snapshot \in Nat /\ target'.snapshot >= target.snapshot
  BY <1>2 DEF Tables
<1>4. RegistryType'
  <2>1. m.intent.id \in Nat
    BY Zenon DEF RegistryType, Requests, Intents, Positive
  <2> QED BY Zenon, <1>1, <2>1 DEF RegistryType, Applied, Only
<1>5. TicketInv'
  <2>1. ASSUME NEW w \in wire' PROVE Timely(w)'
    <3>1. w \in wire /\ w.seen \in Nat /\ Timely(w)
      BY Zenon, <2>1 DEF RegistryType, Requests, TicketInv
    <3> QED BY Zenon, <1>2, <3>1, TimelyMoves
  <2>2. ASSUME NEW k \in Nodes, node'[k].pc = "checked" PROVE Timely(Ticket(k))'
    <3>1. PICK w : w = Ticket(k)
      BY Zenon
    <3>2. node'[k] = node[k]
      BY Zenon, <1>1, <2>2 DEF Busy
    <3>3. w.seen \in Nat /\ Timely(w)
      BY Zenon, <2>2, <3>1, <3>2 DEF Ticket, TicketInv, RegistryType, NodeStates
    <3>4. Timely(w)'
      BY Zenon, <1>2, <3>3, TimelyMoves
    <3>5. Ticket(k)' = w
      BY Zenon, <3>1, <3>2 DEF Ticket
    <3> QED BY Zenon, <3>4, <3>5 DEF Timely, Meets, Ahead, Registered
  <2>3. ASSUME NEW k \in Nodes, node'[k].pc = "waiting" PROVE node'[k].seen <= target'.snapshot
    <3>1. node'[k] = node[k]
      BY Zenon, <1>1, <2>3 DEF Busy
    <3>2. node[k].seen \in Nat /\ node[k].seen <= target.snapshot
      BY Zenon, <2>3, <3>1 DEF TicketInv, RegistryType, NodeStates
    <3> QED BY <1>2, <1>3, <3>1, <3>2
  <2> QED BY Zenon, <2>1, <2>2, <2>3 DEF TicketInv
<1>6. TableInv'
  BY Zenon, HitTable
<1>7. IdInv'
  <2>1. Lands
    BY DEF Lands, Applied, Meets
  <2>2. Busy(n)' => Busy(n) /\ Keeps(n)
    BY Zenon, <1>1 DEF Keeps
  <2> QED BY ZenonT(40), <2>1, <2>2, IdKeeps
<1>8. VerdictInv'
  <2>1. m.intent.id \notin retired
    <3>1. m.intent.id \in retired => m.seen < target.snapshot
      BY Zenon DEF VerdictInv
    <3> QED BY <1>3, <3>1 DEF Meets
  <2>2. VerdictsFinal'
    <3>1. \A id \in done' : \E i \in DOMAIN landed' : landed'[i].intent.id = id
      BY DEF VerdictInv, VerdictsFinal, Applied
    <3>2. ASSUME NEW i \in DOMAIN landed', landed'[i].intent.id \in retired'
          PROVE  /\ target'.expired
                 /\ \E k \in Nodes \ {landed'[i].node} : SlotOf(k) = landed'[i].slot
      <4>1. i \in DOMAIN landed /\ landed'[i] = landed[i] /\ target'.expired = target.expired
        BY <2>1, <3>2 DEF Applied
      <4> QED BY ZenonT(40), <3>2, <4>1 DEF VerdictInv, VerdictsFinal
    <3> QED BY Zenon, <3>1, <3>2 DEF VerdictsFinal
  <2>3. ASSUME NEW w \in wire', w.intent.id \in retired' PROVE w.seen < target'.snapshot
    <3>1. w.seen < target.snapshot /\ w.seen \in Nat
      BY Zenon, <2>3 DEF VerdictInv, RegistryType, Requests
    <3> QED BY <1>2, <1>3, <3>1
  <2>4. ASSUME NEW k \in Nodes PROVE Superseded(k)'
    <3>1. CASE ~Busy(k)'
      BY Zenon, <3>1 DEF Busy, Superseded
    <3>2. CASE Busy(k)'
      <4>1. node'[k] = node[k] /\ Busy(k) /\ Superseded(k)
        BY Zenon, <1>1, <3>2 DEF VerdictInv
      <4>2. node[k].pc \in {"checked", "waiting"} => node[k].seen <= target.snapshot
        BY Zenon, SeenBehind
      <4>3. \/ m.intent.id # node[k].intent.id
            \/ ~(node[k].pc = "waiting" /\ m.request = node[k].sent)
        <5>1. Owned(m)
          BY Zenon DEF IdInv
        <5>2. m.intent.id = node[k].intent.id => k = n
          BY ZenonT(40), <4>1, <5>1 DEF Owned
        <5> QED BY Zenon, <3>2, <5>2
      <4>4. \A i \in DOMAIN landed' :
              \/ i \in DOMAIN landed /\ landed'[i] = landed[i]
              \/ Busy(k) => landed'[i].intent.id # node[k].intent.id
              \/ \E w \in wire : /\ landed'[i].intent = w.intent /\ Meets(w)
                                 /\ ~(node[k].pc = "waiting" /\ w.request = node[k].sent)
        BY <4>3 DEF Applied
      <4> QED BY ZenonT(40), <1>2, <1>3, <4>1, <4>2, <4>4, SupersededKeeps
    <3> QED BY Zenon, <3>1, <3>2
  <2> QED BY Zenon, <2>2, <2>3, <2>4 DEF VerdictInv
<1> QED BY ZenonT(40), <1>4, <1>5, <1>6, <1>7, <1>8

LEMMA LateStep ==
  ASSUME RegistryInv, NEW m \in wire, Late(m)
  PROVE  RegistryInv'
<1>1. CASE ~Meets(m)
  BY Zenon, <1>1, LateMiss DEF Late, Apply
<1>2. CASE Meets(m)
  <2>1. PICK s \in Slots : s = SlotOf(m.node) /\ Applied(m, s, Len(landed) + 1)
    BY Zenon, <1>2, AppliedFacts DEF Late
  <2>2. PICK n \in Nodes : n = m.node
    BY Zenon DEF RegistryInv, RegistryType, Requests
  <2>3. Only(n) /\ node'[n].epoch >= node[n].epoch /\ node'[n].sent >= node[n].sent
    <3>1. node' = node /\ node \in [Nodes -> NodeStates]
      BY Zenon DEF Late, RegistryInv, RegistryType
    <3>2. node[n].epoch \in Nat /\ node[n].sent \in Nat
      BY Zenon, <3>1 DEF NodeStates, Positive
    <3> QED BY <3>1, <3>2 DEF Only
  <2>4. node'[n] = node[n] /\ ~(node[n].pc = "waiting" /\ m.request = node[n].sent)
    BY Zenon, <2>2 DEF Late
  <2>5. wire' = wire \ {m}
    BY Zenon DEF Late, Apply
  <2> QED BY ZenonT(40), <1>2, <2>1, <2>2, <2>3, <2>4, <2>5, HitStep DEF Late
<1> QED BY Zenon, <1>1, <1>2

LEMMA AnswerStep ==
  ASSUME RegistryInv, NEW m \in wire, Answer(m)
  PROVE  RegistryInv'
<1>1. CASE ~Meets(m)
  <2>1. Conflicts(m.node) /\ UNCHANGED <<target, landed, issued, events>> /\ wire' = wire \ {m}
    BY Zenon, <1>1 DEF Answer, Apply
  <2>2. node[m.node].pc = "waiting" /\ m.request = node[m.node].sent
    BY Zenon DEF Answer
  <2> QED BY Zenon, <1>1, <2>1, <2>2, AnswerMiss
<1>2. CASE Meets(m)
  <2>1. PICK s \in Slots : s = SlotOf(m.node) /\ Applied(m, s, Len(landed) + 1)
    BY Zenon, <1>2, AppliedFacts DEF Answer
  <2>2. PICK n \in Nodes : n = m.node
    BY Zenon DEF RegistryInv, RegistryType, Requests
  <2>3. Busy(n) /\ Settle(n)
    BY Zenon, <1>2, <2>2 DEF Answer, Busy
  <2>4. /\ Only(n) /\ Frees(n) /\ retired' = retired
        /\ done' = done \cup {node[n].intent.id}
    BY Zenon, <2>3, SettleFrees DEF RegistryInv
  <2>5. node[n].intent = m.intent
    BY Zenon, <2>2 DEF Answer, RegistryInv, VerdictInv, Superseded
  <2>6. ~Busy(n)' /\ node'[n].epoch >= node[n].epoch /\ node'[n].sent >= node[n].sent
    BY <2>4 DEF Frees, Busy, RegistryInv, RegistryType, NodeStates
  <2>7. wire' = wire \ {m} /\ done' \subseteq done \cup {m.intent.id} /\ UNCHANGED <<issued, events>>
    BY Zenon, <2>4, <2>5 DEF Answer, Apply
  <2> QED BY ZenonT(40), <1>2, <2>1, <2>2, <2>4, <2>6, <2>7, HitStep
<1> QED BY Zenon, <1>1, <1>2

-----------------------------------------------------------------------------
(* What others do to the table. *)

\* Steps of others on the table.
LEMMA TargetStep ==
  ASSUME RegistryInv, UNCHANGED <<node, wire, landed, retired, done, issued>>, events' \in Nat,
         target' \in Tables, target'.snapshot >= target.snapshot,
         target.expired => target'.expired, TableInv',
         \A m : m.seen \in Nat /\ Timely(m) => Timely(m)'
  PROVE  RegistryInv'
<1> USE DEF RegistryInv
<1>1. RegistryType'
  BY Zenon DEF RegistryType, Busy
<1>2. TicketInv'
  <2>1. \A m \in wire' : Timely(m)'
    BY Zenon DEF TicketInv, RegistryType, Requests
  <2>2. ASSUME NEW k \in Nodes, node'[k].pc = "checked" PROVE Timely(Ticket(k))'
    <3>1. PICK m : m = Ticket(k)
      BY Zenon
    <3>2. m.seen \in Nat /\ Timely(m)
      BY Zenon, <2>2, <3>1 DEF Ticket, TicketInv, RegistryType, NodeStates
    <3>3. Ticket(k)' = m
      BY Zenon, <3>1 DEF Ticket
    <3> QED BY Zenon, <3>2, <3>3 DEF Timely, Meets, Ahead, Registered
  <2>3. \A k \in Nodes : node'[k].pc = "waiting" => node'[k].seen <= target'.snapshot
    BY DEF TicketInv, RegistryType, NodeStates, Tables
  <2> QED BY Zenon, <2>1, <2>2, <2>3 DEF TicketInv
<1>3. IdInv'
  BY DEF IdInv, Owned, OwnIntent, Busy
<1>4. VerdictInv'
  <2>1. VerdictsFinal'
    BY Zenon DEF VerdictInv, VerdictsFinal
  <2>2. \A m \in wire' : m.intent.id \in retired' => m.seen < target'.snapshot
    BY DEF VerdictInv, RegistryType, Requests, Tables
  <2>3. ASSUME NEW k \in Nodes PROVE Superseded(k)'
    <3>1. Superseded(k) /\ node'[k] = node[k]
      BY Zenon DEF VerdictInv
    <3>2. node[k].pc \in {"checked", "waiting"} => node[k].seen <= target.snapshot
      BY Zenon, SeenBehind
    <3> QED BY Zenon, <3>1, <3>2, SupersededKeeps
  <2> QED BY Zenon, <2>1, <2>2, <2>3 DEF VerdictInv
<1> QED BY Zenon, <1>1, <1>2, <1>3, <1>4

LEMMA ReplaceStep ==
  ASSUME RegistryInv, Replace
  PROVE  RegistryInv'
<1> DEFINE v == target.snapshot + 1
<1>1. target \in Tables /\ events' \in Nat
  BY DEF Replace, Event, RegistryInv, RegistryType
<1>2. v \in Nat /\ v >= target.snapshot
  BY <1>1 DEF Tables
<1>3. target' = [target EXCEPT !.snapshot = v]
  BY Zenon DEF Replace
<1>4. v = target.snapshot + 1
  BY Zenon
<1> HIDE DEF v
<1>5. /\ target' \in Tables /\ target'.snapshot = v /\ target'.uuid = target.uuid
      /\ target'.summaries = target.summaries /\ target'.registry = target.registry
      /\ target'.damaged = target.damaged /\ target'.expired = target.expired
  BY ZenonT(40), <1>1, <1>2, <1>3 DEF Tables
<1>6. TableInv'
  BY <1>5 DEF Replace, RegistryInv, TableInv, Recorded, RegistryBounded, Registered,
              RangesInOrder, DamageContained
<1>7. \A m : m.seen \in Nat /\ Timely(m) => Timely(m)'
  BY ZenonT(40), <1>1, <1>4, <1>5, TimelyMoves
<1>8. UNCHANGED <<node, wire, landed, retired, done, issued>>
  BY Zenon DEF Replace
<1> QED BY ZenonT(40), <1>1, <1>2, <1>5, <1>6, <1>7, <1>8, TargetStep

LEMMA ExpireStep ==
  ASSUME RegistryInv, Expire
  PROVE  RegistryInv'
<1>1. target \in Tables /\ events' \in Nat
  BY DEF Expire, Event, RegistryInv, RegistryType
<1>2. target' = [target EXCEPT !.summaries = {}, !.expired = TRUE]
  BY Zenon DEF Expire
<1>3. /\ target' \in Tables /\ target'.snapshot = target.snapshot /\ target'.uuid = target.uuid
      /\ target'.summaries = {} /\ target'.registry = target.registry
      /\ target'.damaged = target.damaged /\ target'.expired
  BY Zenon, <1>1, <1>2 DEF Tables
<1>4. target'.snapshot >= target.snapshot
  BY <1>1, <1>3 DEF Tables
<1>5. TableInv'
  BY <1>3 DEF Expire, RegistryInv, TableInv, Recorded, RegistryBounded, Registered,
              RangesInOrder, DamageContained
<1>6. \A m : m.seen \in Nat /\ Timely(m) => Timely(m)'
  BY ZenonT(40), <1>3 DEF Expire, Timely, Meets, Ahead, Registered
<1>7. UNCHANGED <<node, wire, landed, retired, done, issued>>
  BY Zenon DEF Expire
<1> QED BY ZenonT(40), <1>1, <1>3, <1>4, <1>5, <1>6, <1>7, TargetStep

LEMMA RecreateStep ==
  ASSUME RegistryInv, Recreate
  PROVE  RegistryInv'
<1>1. target \in Tables /\ events' \in Nat
  BY DEF Recreate, Event, RegistryInv, RegistryType
<1>2. /\ target.uuid \in Nat /\ target.snapshot \in Nat
      /\ target.uuid + 1 \in Nat /\ target.snapshot + 1 \in Nat
  BY <1>1 DEF Tables
<1>3. /\ target'.snapshot = target.snapshot + 1 /\ target'.uuid = target.uuid + 1
      /\ target'.summaries = {} /\ target'.registry = [s \in Slots |-> Unregistered]
      /\ target'.damaged = FALSE /\ target'.expired = target.expired
      /\ DOMAIN target' = {"uuid", "snapshot", "summaries", "registry", "damaged", "expired"}
  BY Zenon DEF Recreate, NewTable
<1>4. target' \in Tables
  BY Zenon, <1>1, <1>2 DEF Recreate, NewTable, Tables, Unregistered
<1>5. TableInv'
  <2>1. Registered' = {}
    BY Zenon, <1>3 DEF Registered
  <2>2. RegistryBounded'
    BY <2>1, FS_EmptySet, MaxWritersAssumption DEF RegistryBounded
  <2>3. ASSUME NEW i \in DOMAIN landed PROVE Recorded(landed[i])'
    <3>1. PICK r : r = landed[i]
      BY Zenon
    <3>2. r.uuid <= target.uuid /\ r.slot = SlotOf(r.node) /\ r.uuid \in Nat
      <4>1. r \in Landings
        BY <2>3, <3>1 DEF RegistryInv, RegistryType
      <4>2. Recorded(r)
        BY Zenon, <2>3, <3>1 DEF RegistryInv, TableInv
      <4> QED BY Zenon, <4>1, <4>2 DEF Recorded, Landings
    <3>3. r.uuid <= target'.uuid /\ r.uuid # target'.uuid
      BY <1>2, <1>3, <3>2
    <3>4. Recorded(r)'
      BY Zenon, <3>2, <3>3 DEF Recorded
    <3> QED BY Zenon, <3>1, <3>4 DEF Recreate, Recorded
  <2>4. RangesInOrder' /\ DamageContained' /\ landed' = landed
    BY ZenonT(40) DEF Recreate, RegistryInv, TableInv, RangesInOrder, DamageContained
  <2> QED BY Zenon, <1>3, <2>2, <2>3, <2>4 DEF TableInv
<1>6. ASSUME NEW m, m.seen \in Nat, Timely(m) PROVE Timely(m)'
  BY Zenon, <1>1, <1>3, <1>4, <1>6, TimelyMoves
<1>7. UNCHANGED <<node, wire, landed, retired, done, issued>>
  BY Zenon DEF Recreate
<1>8. target'.snapshot >= target.snapshot
  BY <1>2, <1>3
<1> QED BY Zenon, <1>1, <1>3, <1>4, <1>5, <1>6, <1>7, <1>8, TargetStep

LEMMA DamageStep ==
  ASSUME RegistryInv, Damage
  PROVE  RegistryInv'
<1>1. target \in Tables /\ events' \in Nat
  BY DEF Damage, Event, RegistryInv, RegistryType
<1>2. target' = [target EXCEPT !.damaged = TRUE]
  BY Zenon DEF Damage
<1>3. /\ target' \in Tables /\ target'.snapshot = target.snapshot /\ target'.uuid = target.uuid
      /\ target'.summaries = target.summaries /\ target'.registry = target.registry
      /\ target'.damaged /\ target'.expired = target.expired
  BY Zenon, <1>1, <1>2 DEF Tables
<1>4. target'.snapshot >= target.snapshot
  BY SMTT(30), <1>1, <1>3 DEF Tables
<1>5. TableInv'
  BY <1>3 DEF Damage, RegistryInv, TableInv, Recorded, RegistryBounded, Registered,
              RangesInOrder, DamageContained
<1>6. \A m : m.seen \in Nat /\ Timely(m) => Timely(m)'
  BY Zenon, <1>3 DEF Damage, Timely, Meets, Ahead, Registered
<1>7. UNCHANGED <<node, wire, landed, retired, done, issued>>
  BY Zenon DEF Damage
<1> QED BY ZenonT(40), <1>1, <1>3, <1>4, <1>5, <1>6, <1>7, TargetStep

-----------------------------------------------------------------------------
(* The theorem. *)

LEMMA RegistryStutters ==
  ASSUME RegistryInv, UNCHANGED registryVars
  PROVE  RegistryInv'
<1> USE DEF RegistryInv
<1>1. UNCHANGED <<node, wire, landed, retired, done, issued>> /\ target' = target /\ events' = events
  BY Zenon DEF registryVars
<1>2. /\ target' \in Tables /\ target'.snapshot >= target.snapshot /\ events' \in Nat
      /\ target.expired => target'.expired
  BY <1>1 DEF RegistryType, Tables
<1>3. TableInv'
  BY Zenon, <1>1, TableKeeps
<1>4. \A m : m.seen \in Nat /\ Timely(m) => Timely(m)'
  BY Zenon, <1>1, TimelyKeeps
<1> QED BY Zenon, <1>1, <1>2, <1>3, <1>4, TargetStep

LEMMA RegistryNextStep ==
  ASSUME RegistryInv, [RegistryNext]_registryVars
  PROVE  RegistryInv'
<1>1. CASE \E n \in Nodes :
             Open(n) \/ Prepare(n) \/ Reload(n) \/ Send(n) \/ LoseReply(n) \/ Resolve(n)
  <2>1. PICK n \in Nodes :
             Open(n) \/ Prepare(n) \/ Reload(n) \/ Send(n) \/ LoseReply(n) \/ Resolve(n)
    BY Zenon, <1>1
  <2>2. CASE LoseReply(n)
    <3>1. Busy(n) /\ Moves(n, "unknown") /\ events' \in Nat /\ UNCHANGED <<target, wire, landed, issued>>
      BY <2>2 DEF LoseReply, Event, Busy, RegistryInv, RegistryType
    <3> QED BY Zenon, <3>1, BlockStep
  <2>3. CASE Open(n)
    BY Zenon, <2>3, OpenStep
  <2>4. CASE Prepare(n)
    BY ZenonT(40), <2>4, PrepareStep
  <2>5. CASE Reload(n)
    BY Zenon, <2>5, ReloadStep
  <2>6. CASE Send(n)
    BY Zenon, <2>6, SendStep
  <2>7. CASE Resolve(n)
    BY Zenon, <2>7, ResolveStep
  <2> QED BY ZenonT(40), <2>1, <2>2, <2>3, <2>4, <2>5, <2>6, <2>7
<1>2. CASE \E m \in wire : Answer(m) \/ Late(m)
  BY Zenon, <1>2, AnswerStep, LateStep
<1>3. CASE Replace \/ Expire \/ Recreate \/ Damage
  BY Zenon, <1>3, ReplaceStep, ExpireStep, RecreateStep, DamageStep
<1>4. CASE UNCHANGED registryVars
  BY Zenon, <1>4, RegistryStutters
<1> QED BY Zenon, <1>1, <1>2, <1>3, <1>4 DEF RegistryNext

\* Writers of one table keep to the commit protocol of AppendAttemptGuard and
\* resolve_append_status however many there are and however they race with each
\* other, with lost and late replies and with what others do to the table.
THEOREM RegistryCorrect == RegistrySpec => []WritersInOrder
<1>1. RegistryInv => WritersInOrder
  BY Zenon DEF RegistryInv, TableInv, VerdictInv, WritersInOrder
<1> QED BY <1>1, InitRegistry, RegistryNextStep, PTL DEF RegistrySpec
=============================================================================
