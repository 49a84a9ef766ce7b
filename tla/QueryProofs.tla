----------------------------- MODULE QueryProofs -----------------------------
(***************************************************************************)
(* Snapshot pins, whole results and the metadata cache's progress, for any *)
(* number of queries and tables, any commits, faults and leases.           *)
(*                                                                         *)
(* The inductive invariant says of each query what its place in the read   *)
(* path implies: which load lock it has, what it has read of the catalog,  *)
(* which of its pins stand in the registry and who will remove them, and   *)
(* which engine its batches came from.                                     *)
(***************************************************************************)
EXTENDS Query, TLAPS

Loaders   == {"load", "files", "insert"}
Locking   == {"wait", "load", "files", "insert"}
Resolving == {"resolve", "wait", "load", "files", "insert"}
Pinning   == {"pin", "pinning", "record"}
Places    == Preparing \cup Reading \cup {"idle", "cancelled", "done"}

PlanRec == [snap: Nat, files: Nat]
QueryRec ==
  [pc: Places, kind: {"none", "rest", "flight", "schema", "local"}, scan: SUBSET Tables,
   todo: SUBSET Tables, table: Tables \cup {Nothing}, meta: Nat, files: Nat,
   plan: [Tables -> PlanRec \cup {Nothing}], pinned: SUBSET Tables,
   until: [Tables -> Int], got: Seq({"local", "remote"})]

Types ==
  /\ role \in {"standalone", "distributed"} /\ now \in 0 .. MaxTime
  /\ version \in [Tables -> Nat \cup {Missing}]
  /\ cache \in [Tables -> Providers \cup {Nothing}]
  /\ lock \in [Queries -> Tables \cup {Shared, Nothing}] /\ holds \subseteq Queries
  /\ query \in [Queries -> QueryRec]
  /\ queryPins \subseteq Queries /\ stray \subseteq Queries \X Tables
  /\ pins = [k \in Queries \X Tables |-> pins[k]]
  /\ held \in [Queries -> SUBSET Tables] /\ releasing \in [Queries -> SUBSET Tables]
  /\ overflowed \in BOOLEAN /\ DOMAIN status = Queries

\* What the plan of a query reads is no older than what it pins.
PlanOf(r) == \A t \in Tables : r.plan[t] # Nothing => r.plan[t].snap <= r.plan[t].files

\* A cached provider is no older than its pin and no newer than the table.
CacheInv ==
  \A t \in Tables :
    /\ version[t] = Missing \/ FirstVersion[t] <= version[t]
    /\ cache[t] # Nothing =>
         /\ cache[t].snap <= cache[t].files
         /\ version[t] = Missing \/ cache[t].files <= version[t]

\* A query that resolves a table: its lock, and what it has read so far.
LoadOf(q, r) ==
  /\ q \in holds <=> r.pc \in Loaders
  /\ r.pc \in Locking => /\ r.table \in Tables /\ lock[q] \in {r.table, Shared}
                         /\ lock[q] = Shared => overflowed
  /\ r.pc = "files" => version[r.table] = Missing \/ r.meta <= version[r.table]
  /\ r.pc = "insert" => /\ r.meta <= r.files
                        /\ version[r.table] = Missing \/ r.files <= version[r.table]
                        /\ \/ overflowed \/ cache[r.table] = Nothing
                           \/ cache[r.table].files <= r.files

OneLoader == \A q, m \in holds : lock[q] = lock[m] => q = m

\* The pin of t that query q took stands, or its lease or its table is over.
Kept(q, r, t) ==
  \/ /\ pins[q, t].snap = r.plan[t].snap
     /\ role = "distributed" => pins[q, t].until = r.until[t]
  \/ /\ role = "distributed" /\ pins[q, t] = NoPin
     /\ version[t] = Missing \/ now > r.until[t]

\* The pin of t is left to its lease.
Lost(q, t) == role = "distributed" /\ <<q, t>> \in stray

\* Who will remove the pin of t.
Owned(q, r, t) ==
  \/ r.pc \in Preparing \cup Reading /\ t \in r.pinned
  \/ r.pc = "record" /\ t = r.table
  \/ r.pc \in {"cancelled", "done"} /\ t \in releasing[q]
  \/ r.pc \notin Resolving /\ r.pc # "idle" /\ Lost(q, t)

PinOf(q, r) ==
  /\ r.pc \in Resolving => r.pinned = {}
  /\ r.pc \in Pinning => r.todo \cap r.pinned = {}
  /\ r.pc \in {"pinning", "record"} => role = "distributed" /\ r.table \in Tables /\ r.table \in r.todo
  /\ r.pc \in Preparing \cup Reading =>
       /\ \A t \in r.pinned : Kept(q, r, t)
       /\ role = "distributed" => r.pinned \subseteq held[q]
       /\ releasing[q] = {}
  /\ r.pc \in Reading /\ r.pinned # {} => q \in queryPins
  /\ r.pc = "record" => Kept(q, r, r.table)
  /\ \A t \in Tables : pins[q, t] # NoPin => Owned(q, r, t)
  /\ role = "standalone" => releasing[q] = {} /\ held[q] = {}
  /\ r.pc = "idle" => releasing[q] = {}

\* The batches of a query come from its engine.
ResultOf(q, r) ==
  /\ r.pc \notin {"stream", "cancelled", "done"} => r.got = <<>>
  /\ r.pc = "stream" =>
       \A i \in DOMAIN r.got : r.got[i] = IF r.kind = "local" THEN "local" ELSE "remote"
  /\ \A i, j \in DOMAIN r.got : r.got[i] = r.got[j]
  /\ Len(r.got) <= NumBatches
  /\ status[q] = "completed" => r.pc = "done" /\ Len(r.got) = NumBatches

QueryInv(q, r) == PlanOf(r) /\ LoadOf(q, r) /\ PinOf(q, r) /\ ResultOf(q, r)

Inductive ==
  /\ Types /\ CacheInv /\ OneLoader
  /\ \A q \in Queries : QueryInv(q, query[q])

-----------------------------------------------------------------------------
(* Reading the invariant. *)

LEMMA Parts ==
  ASSUME Inductive
  PROVE  /\ Types /\ CacheInv /\ OneLoader
         /\ \A q \in Queries : PlanOf(query[q]) /\ LoadOf(q, query[q]) /\ PinOf(q, query[q])
                               /\ ResultOf(q, query[q])
  BY Zenon DEF Inductive, QueryInv

LEMMA Fields ==
  ASSUME NEW r \in QueryRec
  PROVE  /\ r.pc \in Places /\ r.kind \in {"none", "rest", "flight", "schema", "local"}
         /\ r.scan \in SUBSET Tables /\ r.todo \in SUBSET Tables /\ r.table \in Tables \cup {Nothing}
         /\ r.meta \in Nat /\ r.files \in Nat /\ r.plan \in [Tables -> PlanRec \cup {Nothing}]
         /\ r.pinned \in SUBSET Tables /\ r.until \in [Tables -> Int] /\ r.got \in Seq({"local", "remote"})
  BY DEF QueryRec

LEMMA Rows ==
  ASSUME Inductive, NEW q \in Queries
  PROVE  query[q] \in QueryRec
  BY Zenon DEF Inductive, Types

LEMMA IdleRecord ==
  /\ Idle \in QueryRec /\ Idle.pc = "idle" /\ Idle.pinned = {} /\ Idle.got = <<>>
  /\ \A t \in Tables : Idle.plan[t] = Nothing
  BY DEF Idle, QueryRec, Places

LEMMA DoneRecord ==
  ASSUME Inductive, NEW q \in Queries
  PROVE  /\ Done(q) \in QueryRec /\ Done(q).pc = "done" /\ Done(q).pinned = {}
         /\ \A t \in Tables : Done(q).plan[t] = Nothing
         /\ Done(q).got = IF Len(query[q].got) = NumBatches THEN query[q].got ELSE <<>>
<1> DEFINE g == IF Len(query[q].got) = NumBatches THEN query[q].got ELSE <<>>
<1>1. g \in Seq({"local", "remote"})
  <2>1. query[q].got \in Seq({"local", "remote"})
    BY Zenon, Rows, Fields
  <2> QED BY <2>1
<1>2. Done(q) = [Idle EXCEPT !.pc = "done", !.got = g]
  BY DEF Done
<1> HIDE DEF g
<1>3. "done" \in Places
  BY DEF Places
<1>4. /\ Done(q) \in QueryRec /\ Done(q).pc = "done" /\ Done(q).pinned = {} /\ Done(q).got = g
      /\ Done(q).plan = [t \in Tables |-> Nothing]
  BY ZenonT(40), <1>1, <1>2, <1>3, IdleRecord DEF Idle, QueryRec
<1> QED BY Zenon, <1>4 DEF g

LEMMA PlaceSets ==
  ASSUME NEW pc
  PROVE  /\ pc \in Loaders => pc \in Locking /\ pc # "wait"
         /\ pc \in Locking => pc \in Resolving /\ pc # "resolve"
         /\ pc \in Resolving => pc \in Preparing /\ pc \notin Pinning
         /\ pc \in Pinning => pc \in Preparing /\ pc \notin Resolving
         /\ pc \in Preparing => (pc \in Resolving \/ pc \in Pinning) /\ pc \notin Reading
         /\ pc \in Reading => pc \notin Preparing /\ pc \notin Locking /\ pc \notin Loaders
         /\ pc \in Preparing \cup Reading => pc \in Places /\ pc \notin {"idle", "cancelled", "done"}
  BY DEF Loaders, Locking, Resolving, Pinning, Preparing, Reading, Places

-----------------------------------------------------------------------------
(* One query moves. *)

\* The locks and the cache, as the other queries see them.
LoadFrame(q) ==
  /\ lock' \in [Queries -> Tables \cup {Shared, Nothing}] /\ holds' \subseteq Queries
  /\ cache' \in [Tables -> Providers \cup {Nothing}] /\ CacheInv'
  /\ overflowed' \in BOOLEAN /\ (overflowed => overflowed') /\ OneLoader'
  /\ \A m \in Queries : m # q => lock'[m] = lock[m] /\ (m \in holds' <=> m \in holds)
  /\ \A m \in Queries : m # q /\ query[m].pc = "insert" =>
       \/ overflowed' \/ cache'[query[m].table] = Nothing
       \/ cache'[query[m].table] = cache[query[m].table]

\* The registry, as the other queries see it.
PinFrame(q) ==
  /\ queryPins' \subseteq Queries /\ stray' \subseteq Queries \X Tables
  /\ pins' = [k \in Queries \X Tables |-> pins'[k]]
  /\ held' \in [Queries -> SUBSET Tables] /\ releasing' \in [Queries -> SUBSET Tables]
  /\ stray \subseteq stray'
  /\ \A m \in Queries : m # q =>
       /\ m \in queryPins' <=> m \in queryPins
       /\ held'[m] = held[m] /\ releasing'[m] = releasing[m]
       /\ \A t \in Tables : pins'[m, t] = pins[m, t]

StatusFrame(q) ==
  DOMAIN status' = Queries /\ \A m \in Queries : m # q => status'[m] = status[m]

LEMMA OtherLoads ==
  ASSUME Inductive, NEW q \in Queries, LoadFrame(q), UNCHANGED version,
         NEW m \in Queries, m # q, query'[m] = query[m]
  PROVE  LoadOf(m, query[m])'
<1>1. LoadOf(m, query[m])
  BY Zenon, Parts
<1>2. /\ lock'[m] = lock[m] /\ (m \in holds' <=> m \in holds) /\ (overflowed => overflowed')
      /\ query[m].pc = "insert" =>
           \/ overflowed' \/ cache'[query[m].table] = Nothing
           \/ cache'[query[m].table] = cache[query[m].table]
  BY Zenon DEF LoadFrame
<1> QED BY Zenon, <1>1, <1>2 DEF LoadOf

LEMMA OtherPins ==
  ASSUME Inductive, NEW q \in Queries, PinFrame(q), UNCHANGED <<role, now, version>>,
         NEW m \in Queries, m # q, query'[m] = query[m]
  PROVE  PinOf(m, query[m])'
<1>1. PinOf(m, query[m]) /\ query[m] \in QueryRec
  BY Zenon, Parts, Rows
<1>2. /\ m \in queryPins' <=> m \in queryPins
      /\ held'[m] = held[m] /\ releasing'[m] = releasing[m]
      /\ \A t \in Tables : pins'[m, t] = pins[m, t]
      /\ stray \subseteq stray'
  BY Zenon DEF PinFrame
<1>3. \A t \in Tables : Kept(m, query[m], t) => Kept(m, query[m], t)'
  BY Zenon, <1>2 DEF Kept
<1>4. \A t \in Tables : Owned(m, query[m], t) => Owned(m, query[m], t)'
  BY Zenon, <1>2 DEF Owned, Lost
<1>5. query[m].pinned \in SUBSET Tables
  BY Zenon, <1>1, Fields
<1>6. query[m].pc = "record" => query[m].pc \in {"pinning", "record"}
  OBVIOUS
<1> QED BY Zenon, <1>1, <1>2, <1>3, <1>4, <1>5, <1>6 DEF PinOf

LEMMA Compose ==
  ASSUME Inductive, NEW q \in Queries, NEW r \in QueryRec, query' = [query EXCEPT ![q] = r],
         UNCHANGED <<role, now, version>>, LoadFrame(q), PinFrame(q), StatusFrame(q),
         PlanOf(r), LoadOf(q, r)', PinOf(q, r)', ResultOf(q, r)'
  PROVE  Inductive'
<1>1. /\ query' \in [Queries -> QueryRec] /\ query'[q] = r
      /\ \A m \in Queries : m # q => query'[m] = query[m]
  BY Zenon, Parts DEF Types
<1>2. ASSUME NEW m \in Queries PROVE QueryInv(m, query[m])'
  <2>1. CASE m = q
    <3>1. PlanOf(query[q])'
      BY Zenon, <1>1 DEF PlanOf
    <3>2. LoadOf(q, query[q])' /\ PinOf(q, query[q])' /\ ResultOf(q, query[q])'
      BY Zenon, <1>1
    <3> QED BY Zenon, <2>1, <3>1, <3>2 DEF QueryInv
  <2>2. CASE m # q
    <3>1. query'[m] = query[m] /\ status'[m] = status[m] /\ PlanOf(query[m]) /\ ResultOf(m, query[m])
      BY Zenon, <1>1, <2>2, Parts DEF StatusFrame
    <3>2. LoadOf(m, query[m])' /\ PinOf(m, query[m])'
      BY Zenon, <2>2, <3>1, OtherLoads, OtherPins
    <3>3. PlanOf(query[m])'
      BY Zenon, <3>1 DEF PlanOf
    <3>4. ResultOf(m, query[m])'
      BY <3>1 DEF ResultOf
    <3> QED BY Zenon, <3>2, <3>3, <3>4 DEF QueryInv
  <2> QED BY Zenon, <2>1, <2>2
<1>3. Types'
  BY Zenon, <1>1, Parts DEF Types, LoadFrame, PinFrame, StatusFrame
<1> QED BY Zenon, <1>2, <1>3 DEF Inductive, LoadFrame

LEMMA LoadSame ==
  ASSUME Inductive, NEW q \in Queries, UNCHANGED <<version, cache, lock, holds, overflowed>>
  PROVE  LoadFrame(q)
<1>1. CacheInv' /\ OneLoader'
  BY Zenon, Parts DEF CacheInv, OneLoader
<1> QED BY Zenon, <1>1, Parts DEF LoadFrame, Types

LEMMA PinSame ==
  ASSUME Inductive, NEW q \in Queries, UNCHANGED <<queryPins, pins, held, releasing, stray>>
  PROVE  PinFrame(q)
  BY Zenon, Parts DEF PinFrame, Types

LEMMA StatusSame ==
  ASSUME Inductive, NEW q \in Queries, UNCHANGED status \/ \E s : status' = [status EXCEPT ![q] = s]
  PROVE  StatusFrame(q) /\ \A s : status' = [status EXCEPT ![q] = s] => status'[q] = s
  BY Parts DEF StatusFrame, Types

-----------------------------------------------------------------------------
(* A query ends: its future, its handle or its stream is dropped. *)

LEMMA WithoutPins ==
  ASSUME NEW q \in Queries, NEW ts \in SUBSET Tables, NEW W, W = Without(q, ts)
  PROVE  /\ W = [k \in Queries \X Tables |-> W[k]]
         /\ \A t \in ts : W[q, t] = NoPin
         /\ \A t \in Tables \ ts : W[q, t] = pins[q, t]
         /\ \A m \in Queries, t \in Tables : m # q => W[m, t] = pins[m, t]
<1>1. \A m \in Queries, t \in Tables : /\ <<m, t>> \in Queries \X Tables
                                       /\ <<m, t>>[1] = m /\ <<m, t>>[2] = t
  OBVIOUS
<1> QED BY Zenon, <1>1 DEF Without

LEMMA ReleasePins ==
  ASSUME Inductive, NEW q \in Queries, Release(q)
  PROVE  /\ pins' = [k \in Queries \X Tables |-> pins'[k]]
         /\ held' \in [Queries -> SUBSET Tables] /\ releasing' \in [Queries -> SUBSET Tables]
         /\ \A m \in Queries : m # q => /\ held'[m] = held[m] /\ releasing'[m] = releasing[m]
                                        /\ \A t \in Tables : pins'[m, t] = pins[m, t]
         /\ role = "standalone" => /\ \A t \in Tables : pins'[q, t] = NoPin
                                   /\ UNCHANGED <<held, releasing>>
         /\ role # "standalone" => /\ UNCHANGED pins /\ releasing'[q] = releasing[q] \cup held[q]
                                   /\ held'[q] = {}
<1>1. CASE role = "standalone"
  <2>1. pins' = Without(q, Tables) /\ UNCHANGED <<held, releasing>>
    BY Zenon, <1>1 DEF Release
  <2>2. PICK W : W = Without(q, Tables)
    OBVIOUS
  <2>3. /\ W = [k \in Queries \X Tables |-> W[k]] /\ \A t \in Tables : W[q, t] = NoPin
        /\ \A m \in Queries, t \in Tables : m # q => W[m, t] = pins[m, t]
    <3>1. \A m \in Queries, t \in Tables : /\ <<m, t>> \in Queries \X Tables
                                           /\ <<m, t>>[1] = m /\ <<m, t>>[2] = t
      OBVIOUS
    <3> QED BY Zenon, <2>2, <3>1 DEF Without
  <2>4. pins' = W
    BY Zenon, <2>1, <2>2
  <2>5. held' = held /\ releasing' = releasing
    BY Zenon, <2>1
  <2>6. held' \in [Queries -> SUBSET Tables] /\ releasing' \in [Queries -> SUBSET Tables]
    BY Zenon, <2>5, Parts DEF Types
  <2>7. pins' = [k \in Queries \X Tables |-> pins'[k]]
    BY Zenon, <2>3, <2>4
  <2> QED BY Zenon, <1>1, <2>3, <2>4, <2>5, <2>6, <2>7
<1>2. CASE role # "standalone"
  <2>1. /\ releasing' = [releasing EXCEPT ![q] = @ \cup held[q]]
        /\ held' = [held EXCEPT ![q] = {}] /\ UNCHANGED pins
    BY Zenon, <1>2 DEF Release
  <2>2. held \in [Queries -> SUBSET Tables] /\ releasing \in [Queries -> SUBSET Tables]
    BY Zenon, Parts DEF Types
  <2> QED BY Zenon, <1>2, <2>1, <2>2, Parts DEF Types
<1> QED BY Zenon, <1>1, <1>2

\* The registry keeps no pin of the query that nobody will remove.
LEMMA Unpinned ==
  ASSUME Inductive, NEW q \in Queries, Active(q), Unpin(q), UNCHANGED role
  PROVE  /\ PinFrame(q)
         /\ \A t \in Tables : pins'[q, t] # NoPin =>
              t \in releasing'[q] \/ (role = "distributed" /\ <<q, t>> \in stray')
         /\ role = "standalone" => releasing'[q] = {} /\ held'[q] = {}
<1> DEFINE o == query[q]
           D == q \in queryPins \/ (o.pc \in Preparing /\ o.pinned # {})
<1>1. /\ queryPins' = queryPins \ {q} /\ stray \subseteq stray'
      /\ stray' = IF o.pc = "record" THEN stray \cup {<<q, o.table>>} ELSE stray
      /\ D => Release(q)
      /\ ~D => UNCHANGED <<pins, held, releasing>>
  BY Zenon DEF Unpin
<1>2. PinOf(q, o) /\ o \in QueryRec /\ role \in {"standalone", "distributed"}
  BY Zenon, Parts, Rows DEF Types
<1>3. o.pc \in Preparing \cup Reading \/ o.pc = "cancelled"
  BY <1>2, Fields DEF Places, Active
<1>4. stray' \subseteq Queries \X Tables
  <2>1. o.pc = "record" => o.table \in Tables
    BY Zenon, <1>2 DEF PinOf
  <2> QED BY <1>1, <2>1, Parts DEF Types
<1>5. PinFrame(q)
  <2>1. CASE D
    BY Zenon, <1>1, <1>4, <2>1, ReleasePins, Parts DEF PinFrame, Types
  <2>2. CASE ~D
    BY Zenon, <1>1, <1>4, <2>2, Parts DEF PinFrame, Types
  <2> QED BY Zenon, <2>1, <2>2
<1>6. role = "standalone" => releasing'[q] = {} /\ held'[q] = {}
  BY Zenon, <1>1, <1>2, ReleasePins DEF PinOf
<1>7. ASSUME NEW t \in Tables, pins'[q, t] # NoPin
      PROVE  t \in releasing'[q] \/ (role = "distributed" /\ <<q, t>> \in stray')
  <2>1. pins'[q, t] = pins[q, t] /\ Owned(q, o, t)
    <3>1. pins'[q, t] = pins[q, t]
      BY Zenon, <1>1, <1>7, ReleasePins
    <3> QED BY Zenon, <1>2, <1>7, <3>1 DEF PinOf
  <2>2. role = "standalone" => ~D
    BY Zenon, <1>1, <1>7, ReleasePins
  <2>3. CASE o.pc \in Preparing \cup Reading /\ t \in o.pinned
    <3>1. D
      BY Zenon, <1>2, <2>3 DEF PinOf
    <3>2. role = "distributed" /\ role # "standalone"
      BY Zenon, <1>2, <2>2, <3>1
    <3>3. t \in held[q]
      BY Zenon, <1>2, <2>3, <3>2 DEF PinOf
    <3> QED BY Zenon, <1>1, <3>1, <3>2, <3>3, ReleasePins
  <2>4. CASE o.pc = "record" /\ t = o.table
    <3>1. role = "distributed"
      BY Zenon, <1>2, <2>4 DEF PinOf
    <3> QED BY Zenon, <1>1, <2>4, <3>1
  <2>5. CASE t \in releasing[q]
    BY Zenon, <1>1, <2>5, ReleasePins
  <2>6. CASE role = "distributed" /\ <<q, t>> \in stray
    BY Zenon, <1>1, <2>6
  <2> QED BY Zenon, <2>1, <2>3, <2>4, <2>5, <2>6 DEF Owned, Lost
<1> QED BY Zenon, <1>5, <1>6, <1>7

LEMMA DropStep ==
  ASSUME Inductive, NEW q \in Queries, Active(q), Drop(q),
         UNCHANGED <<role, now, version, overflowed>>,
         cache' \in [Tables -> Providers \cup {Nothing}],
         \A t \in Tables : cache'[t] = cache[t] \/ cache'[t] = Nothing,
         StatusFrame(q), status'[q] = "completed" => status[q] = "completed" \/ Len(query[q].got) = NumBatches
  PROVE  Inductive'
<1>1. PICK r : r = Done(q)
  OBVIOUS
<1>2. /\ r \in QueryRec /\ r.pc = "done" /\ r.pinned = {} /\ \A t \in Tables : r.plan[t] = Nothing
      /\ r.got = IF Len(query[q].got) = NumBatches THEN query[q].got ELSE <<>>
  BY Zenon, <1>1, DoneRecord
<1>3. /\ query' = [query EXCEPT ![q] = r] /\ lock' = [lock EXCEPT ![q] = Nothing]
      /\ holds' = holds \ {q} /\ Unpin(q)
  BY Zenon, <1>1 DEF Drop, Set
<1>4. /\ r.pc \notin Loaders /\ r.pc \notin Locking /\ r.pc \notin Resolving /\ r.pc \notin Pinning
      /\ r.pc \notin Preparing \cup Reading /\ r.pc \notin Reading /\ r.pc \notin {"pinning", "record"}
      /\ r.pc # "files" /\ r.pc # "insert" /\ r.pc # "record" /\ r.pc # "idle" /\ r.pc # "stream"
      /\ r.pc \in {"cancelled", "done"} /\ r.pc \in {"stream", "cancelled", "done"}
  BY <1>2 DEF Loaders, Locking, Resolving, Pinning, Preparing, Reading
<1>5. LoadFrame(q)
  <2>1. /\ lock \in [Queries -> Tables \cup {Shared, Nothing}] /\ holds \subseteq Queries
        /\ overflowed \in BOOLEAN
    BY Zenon, Parts DEF Types
  <2>2. /\ lock' \in [Queries -> Tables \cup {Shared, Nothing}]
        /\ \A m \in Queries : m # q => lock'[m] = lock[m]
    BY Zenon, <1>3, <2>1
  <2>3. CacheInv'
    BY Zenon, Parts DEF CacheInv
  <2>4. OneLoader'
    BY ZenonT(40), <1>3, <2>1, <2>2, Parts DEF OneLoader
  <2>5. \A m \in Queries : query[m].pc = "insert" =>
          cache'[query[m].table] = Nothing \/ cache'[query[m].table] = cache[query[m].table]
    <3>1. \A m \in Queries : query[m].pc = "insert" => query[m].table \in Tables
      BY Parts DEF LoadOf, Locking
    <3> QED BY Zenon, <3>1
  <2> QED BY Zenon, <1>3, <2>1, <2>2, <2>3, <2>4, <2>5 DEF LoadFrame
<1>6. LoadOf(q, r)'
  BY Zenon, <1>3, <1>4 DEF LoadOf
<1>7. PlanOf(r)
  BY Zenon, <1>2 DEF PlanOf
<1>8. PinFrame(q) /\ PinOf(q, r)'
  <2>1. /\ PinFrame(q)
        /\ \A t \in Tables : pins'[q, t] # NoPin =>
              t \in releasing'[q] \/ (role = "distributed" /\ <<q, t>> \in stray')
        /\ role = "standalone" => releasing'[q] = {} /\ held'[q] = {}
    BY Zenon, <1>3, Unpinned
  <2> QED BY Zenon, <1>4, <2>1 DEF PinOf, Owned, Lost
<1>9. ResultOf(q, r)'
  <2>1. ResultOf(q, query[q]) /\ query[q].pc # "done"
    BY Zenon, Parts DEF Active
  <2>2. /\ \A i, j \in DOMAIN r.got : r.got[i] = r.got[j]
        /\ Len(r.got) <= NumBatches
    <3>1. Len(<<>>) <= NumBatches /\ DOMAIN <<>> = {}
      BY QueryAssumption
    <3> QED BY ZenonT(40), <1>2, <2>1, <3>1 DEF ResultOf
  <2>3. status'[q] = "completed" => Len(r.got) = NumBatches
    BY Zenon, <1>2, <2>1 DEF ResultOf
  <2> QED BY Zenon, <1>2, <1>4, <2>2, <2>3 DEF ResultOf
<1> QED BY Zenon, <1>2, <1>3, <1>5, <1>6, <1>7, <1>8, <1>9, Compose

-----------------------------------------------------------------------------
(* prepare: resolving tables. *)

\* Before its batches a query has no result and is not completed.
LEMMA NotYet ==
  ASSUME Inductive, NEW q \in Queries, query[q].pc \notin {"stream", "cancelled", "done"}
  PROVE  query[q].got = <<>> /\ status[q] # "completed"
<1>1. ResultOf(q, query[q]) /\ query[q].pc # "done"
  BY Zenon, Parts
<1> QED BY Zenon, <1>1 DEF ResultOf

LEMMA EmptyResult ==
  ASSUME NEW q, NEW r, r.got = <<>>, status'[q] # "completed"
  PROVE  ResultOf(q, r)'
<1>1. DOMAIN <<>> = {} /\ Len(<<>>) <= NumBatches
  BY QueryAssumption
<1> QED BY Zenon, <1>1 DEF ResultOf

\* A query that resolves its tables has no pin yet.
LEMMA ResolvingPins ==
  ASSUME Inductive, NEW q \in Queries, query[q].pc \in Resolving \cup {"idle"},
         NEW r, r.pc \in Resolving \cup {"pin"}, r.pinned = {},
         UNCHANGED <<role, queryPins, pins, held, releasing, stray>>
  PROVE  PinFrame(q) /\ PinOf(q, r)'
<1>1. PinFrame(q)
  BY Zenon, PinSame
<1>2. /\ query[q].pc # "record" /\ query[q].pc \notin {"cancelled", "done"}
      /\ query[q].pc = "idle" \/ (query[q].pc \in Resolving /\ query[q].pc \in Preparing \cup Reading)
      /\ query[q].pc \in Preparing \cup Reading => query[q].pc \in Resolving
      /\ r.pc \notin {"pinning", "record"} /\ r.pc \notin Reading /\ r.pc # "record" /\ r.pc # "idle"
  BY DEF Resolving, Reading, Preparing
<1>3. PinOf(q, query[q])
  BY Zenon, Parts
<1>4. releasing[q] = {} /\ \A t \in Tables : ~Owned(q, query[q], t)
  BY Zenon, <1>2, <1>3 DEF PinOf, Owned
<1>5. \A t \in Tables : pins[q, t] = NoPin
  BY Zenon, <1>3, <1>4 DEF PinOf
<1> QED BY Zenon, <1>1, <1>2, <1>3, <1>4, <1>5 DEF PinOf

\* The lock of a query goes back.
LEMMA LockFreed ==
  ASSUME Inductive, NEW q \in Queries, lock' = [lock EXCEPT ![q] = Nothing], holds' = holds \ {q},
         UNCHANGED overflowed, cache' \in [Tables -> Providers \cup {Nothing}], CacheInv',
         \A m \in Queries : m # q /\ query[m].pc = "insert" =>
           \/ overflowed' \/ cache'[query[m].table] = Nothing
           \/ cache'[query[m].table] = cache[query[m].table],
         NEW r, r.pc \notin Locking
  PROVE  LoadFrame(q) /\ LoadOf(q, r)'
<1>1. /\ lock \in [Queries -> Tables \cup {Shared, Nothing}] /\ holds \subseteq Queries
      /\ overflowed \in BOOLEAN
  BY Zenon, Parts DEF Types
<1>2. /\ lock' \in [Queries -> Tables \cup {Shared, Nothing}]
      /\ \A m \in Queries : m # q => lock'[m] = lock[m]
  BY Zenon, <1>1
<1>3. OneLoader'
  BY ZenonT(40), <1>1, <1>2, Parts DEF OneLoader
<1>4. r.pc \notin Loaders /\ r.pc # "files" /\ r.pc # "insert"
  BY DEF Locking, Loaders
<1>5. LoadFrame(q)
  BY Zenon, <1>1, <1>2, <1>3 DEF LoadFrame
<1> QED BY Zenon, <1>4, <1>5 DEF LoadOf

\* A table is resolved to a provider.
LEMMA ResolvedStep ==
  ASSUME Inductive, NEW q \in Queries, NEW t \in Tables, NEW p, query[q].pc \in Resolving,
         Resolved(q, t, p),
         p = Nothing \/ (p.snap \in Nat /\ p.files \in Nat /\ p.snap <= p.files),
         UNCHANGED <<role, now, version, overflowed>>,
         UNCHANGED <<queryPins, pins, held, releasing, stray, status>>,
         cache' \in [Tables -> Providers \cup {Nothing}], CacheInv',
         \A m \in Queries : m # q /\ query[m].pc = "insert" =>
           \/ overflowed' \/ cache'[query[m].table] = Nothing
           \/ cache'[query[m].table] = cache[query[m].table]
  PROVE  Inductive'
<1> DEFINE o == query[q]
           left == o.todo \ {t}
           todo == IF left = {} THEN o.scan ELSE left
           pc == IF left = {} THEN "pin" ELSE "resolve"
<1>1. PICK r : r = [o EXCEPT !.plan[t] = Frozen(p), !.table = Nothing, !.meta = 0, !.files = 0,
                             !.todo = todo, !.pc = pc]
  BY Zenon
<1>2. /\ query' = [query EXCEPT ![q] = r] /\ lock' = [lock EXCEPT ![q] = Nothing] /\ holds' = holds \ {q}
  BY <1>1 DEF Resolved, Set
<1>3. o \in QueryRec /\ PinOf(q, o) /\ PlanOf(o)
  BY Zenon, Parts, Rows
<1>4. Frozen(p) \in PlanRec \cup {Nothing} /\ (Frozen(p) # Nothing => Frozen(p).snap <= Frozen(p).files)
  BY DEF Frozen, PlanRec
<1>5. todo \in SUBSET Tables /\ pc \in {"pin", "resolve"} /\ pc \in Places
  <2>1. o.todo \in SUBSET Tables /\ o.scan \in SUBSET Tables
    BY Zenon, <1>3, Fields
  <2> QED BY <2>1 DEF Places, Preparing
<1> HIDE DEF todo, pc
<1>6. [o.plan EXCEPT ![t] = Frozen(p)] \in [Tables -> PlanRec \cup {Nothing}]
  BY Zenon, <1>3, <1>4, Fields
<1>7. /\ r \in QueryRec /\ r.pc = pc /\ r.pinned = o.pinned /\ r.got = o.got
      /\ r.plan = [o.plan EXCEPT ![t] = Frozen(p)]
  BY Zenon, <1>1, <1>3, <1>5, <1>6 DEF QueryRec
<1>8. PlanOf(r)
  <2>1. o.plan \in [Tables -> PlanRec \cup {Nothing}]
    BY Zenon, <1>3, Fields
  <2> QED BY Zenon, <1>3, <1>4, <1>7, <2>1 DEF PlanOf
<1>9. r.pinned = {}
  BY Zenon, <1>3, <1>7 DEF PinOf
<1>10. /\ r.pc \notin Locking /\ r.pc \in Resolving \cup {"pin"} /\ o.pc \notin {"stream", "cancelled", "done"}
  BY <1>5, <1>7 DEF Locking, Resolving
<1>11. LoadFrame(q) /\ LoadOf(q, r)'
  BY Zenon, <1>2, <1>10, LockFreed
<1>12. PinFrame(q) /\ PinOf(q, r)'
  BY Zenon, <1>9, <1>10, ResolvingPins
<1>13. StatusFrame(q) /\ ResultOf(q, r)'
  <2>1. o.got = <<>> /\ status[q] # "completed"
    BY Zenon, <1>10, NotYet
  <2>2. r.got = <<>> /\ status'[q] # "completed"
    BY Zenon, <1>7, <2>1
  <2> QED BY Zenon, <2>2, EmptyResult, StatusSame
<1> QED BY Zenon, <1>2, <1>7, <1>8, <1>11, <1>12, <1>13, Compose

\* A cached provider, and a plan's, as a provider to resolve to.
LEMMA CachedProvider ==
  ASSUME Inductive, NEW t \in Tables
  PROVE  cache[t] = Nothing \/ (cache[t].snap \in Nat /\ cache[t].files \in Nat /\ cache[t].snap <= cache[t].files)
<1>1. cache[t] \in Providers \cup {Nothing}
  BY Zenon, Parts DEF Types
<1>2. cache[t] # Nothing => cache[t].snap <= cache[t].files
  BY Zenon, Parts DEF CacheInv
<1> QED BY <1>1, <1>2 DEF Providers

LEMMA PlannedProvider ==
  ASSUME Inductive, NEW q \in Queries, NEW t \in Tables
  PROVE  LET p == query[q].plan[t] IN p = Nothing \/ (p.snap \in Nat /\ p.files \in Nat /\ p.snap <= p.files)
<1>1. query[q].plan[t] \in PlanRec \cup {Nothing}
  BY Zenon, Rows, Fields
<1>2. query[q].plan[t] # Nothing => query[q].plan[t].snap <= query[q].plan[t].files
  BY Zenon, Parts DEF PlanOf
<1> QED BY <1>1, <1>2 DEF PlanRec

LEMMA CacheSame ==
  ASSUME Inductive, UNCHANGED <<version, cache>>
  PROVE  /\ cache' \in [Tables -> Providers \cup {Nothing}] /\ CacheInv'
         /\ \A m \in Queries : \/ overflowed' \/ cache'[query[m].table] = Nothing
                               \/ cache'[query[m].table] = cache[query[m].table]
  BY Zenon, Parts DEF Types, CacheInv

LEMMA BeginStep ==
  ASSUME Inductive, NEW q \in Queries, NEW a \in Requests[q], Begin(q, a[1], a[2])
  PROVE  Inductive'
<1>1. a[1] \in {"rest", "flight", "schema"} /\ a[2] \in SUBSET Tables
  <2>1. a \in {"rest", "flight", "schema"} \X (SUBSET Tables \ {{}})
    BY Zenon, QueryAssumption
  <2> QED BY <2>1
<1>2. PICK r : r = [Idle EXCEPT !.pc = "resolve", !.kind = a[1], !.scan = a[2], !.todo = a[2]]
  OBVIOUS
<1>3. /\ query[q].pc = "idle" /\ query' = [query EXCEPT ![q] = r]
      /\ status' = [status EXCEPT ![q] = "planning"]
      /\ UNCHANGED <<role, now, version>> /\ UNCHANGED <<version, cache, lock, holds, overflowed>>
      /\ UNCHANGED <<role, queryPins, pins, held, releasing, stray>>
  BY Zenon, <1>2 DEF Begin, Set, cacheVars, pinVars
<1>4. "resolve" \in Places
  BY DEF Places, Preparing
<1>5. /\ r \in QueryRec /\ r.pc = "resolve" /\ r.pinned = {} /\ r.got = <<>>
      /\ r.plan = Idle.plan
  BY Zenon, <1>1, <1>2, <1>4, IdleRecord DEF QueryRec
<1>6. PlanOf(r)
  BY Zenon, <1>5, IdleRecord DEF PlanOf
<1>7. /\ r.pc \notin Locking /\ r.pc \notin Loaders /\ r.pc # "files" /\ r.pc # "insert"
      /\ r.pc \in Resolving \cup {"pin"} /\ query[q].pc \notin Loaders
      /\ query[q].pc \in Resolving \cup {"idle"} /\ query[q].pc \notin {"stream", "cancelled", "done"}
  BY <1>3, <1>5 DEF Locking, Loaders, Resolving
<1>8. LoadOf(q, r)'
  <2>1. q \notin holds
    BY Zenon, <1>7, Parts DEF LoadOf
  <2> QED BY Zenon, <1>3, <1>7, <2>1 DEF LoadOf
<1>9. LoadFrame(q)
  BY Zenon, <1>3, LoadSame
<1>10. PinFrame(q) /\ PinOf(q, r)'
  BY Zenon, <1>3, <1>5, <1>7, ResolvingPins
<1>11. StatusFrame(q) /\ status'[q] = "planning"
  BY Zenon, <1>3, StatusSame
<1>12. ResultOf(q, r)'
  <2>1. status'[q] # "completed"
    BY <1>11
  <2> QED BY Zenon, <1>5, <2>1, EmptyResult
<1> QED BY Zenon, <1>3, <1>5, <1>6, <1>8, <1>9, <1>10, <1>11, <1>12, Compose

LEMMA LookupStep ==
  ASSUME Inductive, NEW q \in Queries, NEW t \in Tables, Lookup(q, t)
  PROVE  Inductive'
<1> DEFINE l == LoadLock(t)
<1>1. /\ query[q].pc = "resolve" /\ UNCHANGED <<role, now, version>>
      /\ UNCHANGED <<queryPins, pins, held, releasing, stray, status>> /\ UNCHANGED <<version, cache>>
      /\ UNCHANGED <<role, queryPins, pins, held, releasing, stray>>
  BY Zenon DEF Lookup, pinVars
<1>2. /\ query[q].pc \in Resolving /\ query[q].pc \in Resolving \cup {"idle"}
      /\ query[q].pc \notin Loaders /\ query[q].pc \notin {"stream", "cancelled", "done"}
      /\ "load" \in Loaders /\ "load" \in Resolving \cup {"pin"} /\ "load" \in Places
      /\ "wait" \notin Loaders /\ "wait" \in Resolving \cup {"pin"} /\ "wait" \in Places
  BY <1>1 DEF Resolving, Loaders, Places, Preparing
<1>3. CASE Resolved(q, t, cache[t]) /\ UNCHANGED overflowed
  BY Zenon, <1>1, <1>2, <1>3, ResolvedStep, CachedProvider, CacheSame
<1>4. CASE /\ lock' = [lock EXCEPT ![q] = l]
           /\ holds' = IF Taken(l) THEN holds ELSE holds \cup {q}
           /\ Set(q, [query[q] EXCEPT !.table = t, !.plan[t] = Frozen(cache[t]),
                        !.pc = IF Taken(l) THEN "wait" ELSE "load"])
           /\ overflowed' = (overflowed \/ l = Shared)
  <2> DEFINE o == query[q]
             pc == IF Taken(l) THEN "wait" ELSE "load"
  <2>1. PICK r : r = [o EXCEPT !.table = t, !.plan[t] = Frozen(cache[t]), !.pc = pc]
    OBVIOUS
  <2>2. query' = [query EXCEPT ![q] = r]
    BY <1>4, <2>1 DEF Set
  <2>3. o \in QueryRec /\ PinOf(q, o) /\ PlanOf(o) /\ LoadOf(q, o)
    BY Zenon, Parts, Rows
  <2>4. /\ Frozen(cache[t]) \in PlanRec \cup {Nothing}
        /\ (Frozen(cache[t]) # Nothing => Frozen(cache[t]).snap <= Frozen(cache[t]).files)
    BY CachedProvider DEF Frozen, PlanRec
  <2>5. l \in {t, Shared} /\ l \in Tables \cup {Shared, Nothing}
    BY Zenon DEF LoadLock, Own
  <2>6. /\ pc \in {"wait", "load"} /\ pc \in Places /\ pc \in Resolving \cup {"pin"} /\ (pc \in Loaders <=> ~Taken(l))
        /\ pc # "files" /\ pc # "insert"
    BY <1>2
  <2> HIDE DEF l, pc
  <2>7. o.plan \in [Tables -> PlanRec \cup {Nothing}]
    BY Zenon, <2>3, Fields
  <2>8. [o.plan EXCEPT ![t] = Frozen(cache[t])] \in [Tables -> PlanRec \cup {Nothing}]
    BY Zenon, <2>4, <2>7
  <2>9. /\ r \in QueryRec /\ r.pc = pc /\ r.pinned = o.pinned /\ r.got = o.got /\ r.table = t
        /\ r.plan = [o.plan EXCEPT ![t] = Frozen(cache[t])]
    BY Zenon, <2>1, <2>3, <2>6, <2>8 DEF QueryRec
  <2>10. PlanOf(r)
    BY Zenon, <2>3, <2>4, <2>7, <2>9 DEF PlanOf
  <2>11. r.pinned = {} /\ q \notin holds
    BY Zenon, <1>2, <2>3, <2>9 DEF PinOf, LoadOf
  <2>12. /\ lock \in [Queries -> Tables \cup {Shared, Nothing}] /\ holds \subseteq Queries
         /\ overflowed \in BOOLEAN
    BY Zenon, Parts DEF Types
  <2>13. /\ lock' \in [Queries -> Tables \cup {Shared, Nothing}] /\ lock'[q] = l
         /\ \A m \in Queries : m # q => lock'[m] = lock[m]
    BY Zenon, <1>4, <2>5, <2>12
  <2>14. /\ holds' \subseteq Queries /\ \A m \in Queries : m # q => (m \in holds' <=> m \in holds)
         /\ (q \in holds' <=> ~Taken(l))
    BY Zenon, <1>4, <2>11, <2>12
  <2>15. OneLoader'
    <3>1. ASSUME NEW m \in holds', NEW n \in holds', lock'[m] = lock'[n] PROVE m = n
      <4>1. CASE m # q /\ n # q
        BY Zenon, <2>13, <2>14, <3>1, <4>1, Parts DEF OneLoader
      <4>2. CASE m = q /\ n # q
        BY Zenon, <2>13, <2>14, <3>1, <4>2 DEF Taken
      <4>3. CASE n = q /\ m # q
        BY Zenon, <2>13, <2>14, <3>1, <4>3 DEF Taken
      <4> QED BY Zenon, <4>1, <4>2, <4>3
    <3> QED BY Zenon, <3>1 DEF OneLoader
  <2>16. overflowed' \in BOOLEAN /\ (overflowed => overflowed') /\ (l = Shared => overflowed')
    BY Zenon, <1>4
  <2>17. LoadFrame(q)
    BY Zenon, <1>1, <2>13, <2>14, <2>15, <2>16, CacheSame DEF LoadFrame
  <2>18. LoadOf(q, r)'
    BY Zenon, <2>5, <2>6, <2>9, <2>13, <2>14, <2>16 DEF LoadOf
  <2>19. PinFrame(q) /\ PinOf(q, r)'
    BY Zenon, <1>1, <1>2, <2>6, <2>9, <2>11, ResolvingPins
  <2>20. StatusFrame(q) /\ ResultOf(q, r)'
    <3>1. r.got = <<>> /\ status'[q] # "completed"
      BY Zenon, <1>1, <1>2, <2>9, NotYet
    <3> QED BY Zenon, <1>1, <3>1, EmptyResult, StatusSame
  <2> QED BY ZenonT(40), <1>1, <2>2, <2>9, <2>10, <2>17, <2>18, <2>19, <2>20, Compose
<1> QED BY Zenon, <1>3, <1>4 DEF Lookup

\* A loader that moves on: the lock it has, the plan and the pins stay.
LEMMA LoaderMoves ==
  ASSUME Inductive, NEW q \in Queries, query[q].pc \in Locking, NEW r \in QueryRec,
         query' = [query EXCEPT ![q] = r], r.pc \in Loaders, r.table = query[q].table,
         r.plan = query[q].plan, r.pinned = query[q].pinned, r.got = query[q].got,
         UNCHANGED <<role, now, version, cache, lock, overflowed>>,
         UNCHANGED <<queryPins, pins, held, releasing, stray, status>>,
         holds' = holds \cup {q}, query[q].pc = "wait" => ~Taken(lock[q]),
         r.pc = "files" => version[r.table] = Missing \/ r.meta <= version[r.table],
         r.pc = "insert" => /\ r.meta <= r.files
                            /\ version[r.table] = Missing \/ r.files <= version[r.table]
                            /\ \/ overflowed \/ cache[r.table] = Nothing
                               \/ cache[r.table].files <= r.files
  PROVE  Inductive'
<1> DEFINE o == query[q]
<1>1. PinOf(q, o) /\ PlanOf(o) /\ LoadOf(q, o) /\ OneLoader /\ holds \subseteq Queries
  BY Zenon, Parts DEF Types
<1>2. /\ o.pc \in Resolving /\ o.pc \in Resolving \cup {"idle"} /\ r.pc \in Resolving \cup {"pin"} /\ r.pc \in Locking
      /\ o.pc \notin {"stream", "cancelled", "done"} /\ (o.pc = "wait" \/ o.pc \in Loaders)
  BY DEF Locking, Loaders, Resolving
<1>3. PlanOf(r) /\ r.pinned = {}
  BY Zenon, <1>1, <1>2 DEF PlanOf, PinOf
<1>4. /\ holds' \subseteq Queries /\ \A m \in Queries : m # q => (m \in holds' <=> m \in holds)
      /\ q \in holds'
  BY Zenon, <1>1
<1>5. OneLoader'
  <2>1. CASE o.pc \in Loaders
    BY Zenon, <1>1, <2>1 DEF OneLoader, LoadOf
  <2>2. CASE o.pc = "wait"
    BY Zenon, <1>1, <2>2 DEF OneLoader, Taken
  <2> QED BY Zenon, <1>2, <2>1, <2>2
<1>6. LoadFrame(q)
  BY Zenon, <1>4, <1>5, CacheSame, Parts DEF LoadFrame, Types
<1>7. LoadOf(q, r)'
  BY Zenon, <1>1, <1>2, <1>4 DEF LoadOf
<1>8. PinFrame(q) /\ PinOf(q, r)'
  BY Zenon, <1>2, <1>3, ResolvingPins
<1>9. StatusFrame(q) /\ ResultOf(q, r)'
  <2>1. r.got = <<>> /\ status'[q] # "completed"
    BY Zenon, <1>2, NotYet
  <2> QED BY Zenon, <2>1, EmptyResult, StatusSame
<1> QED BY Zenon, <1>3, <1>6, <1>7, <1>8, <1>9, Compose

LEMMA AcquireStep ==
  ASSUME Inductive, NEW q \in Queries, Acquire(q)
  PROVE  Inductive'
<1> DEFINE o == query[q]
<1>1. /\ o.pc = "wait" /\ ~Taken(lock[q]) /\ UNCHANGED <<role, now, version, cache, overflowed>>
      /\ UNCHANGED <<role, now, version, overflowed>> /\ UNCHANGED <<version, cache>>
      /\ UNCHANGED <<queryPins, pins, held, releasing, stray, status>>
  BY Zenon DEF Acquire, pinVars
<1>2. o.pc \in Locking /\ o.pc \in Resolving /\ "load" \in Loaders /\ "load" \in Places
  BY <1>1 DEF Locking, Resolving, Loaders, Places, Preparing
<1>3. o.table \in Tables /\ o \in QueryRec
  BY Zenon, <1>2, Parts, Rows DEF LoadOf
<1>4. CASE Resolved(q, o.table, cache[o.table])
  BY Zenon, <1>1, <1>2, <1>3, <1>4, ResolvedStep, CachedProvider, CacheSame
<1>5. CASE /\ holds' = holds \cup {q} /\ UNCHANGED lock
           /\ Set(q, [o EXCEPT !.pc = "load"])
  <2>1. PICK r : r = [o EXCEPT !.pc = "load"]
    BY Zenon
  <2>2. query' = [query EXCEPT ![q] = r]
    BY Zenon, <1>5, <2>1 DEF Set
  <2>3. /\ r \in QueryRec /\ r.pc = "load" /\ r.table = o.table /\ r.plan = o.plan
        /\ r.pinned = o.pinned /\ r.got = o.got
    BY Zenon, <1>2, <1>3, <2>1 DEF QueryRec
  <2>4. r.pc \in Loaders /\ r.pc # "files" /\ r.pc # "insert"
    BY <1>2, <2>3
  <2> QED BY Zenon, <1>1, <1>2, <1>5, <2>2, <2>3, <2>4, LoaderMoves
<1> QED BY Zenon, <1>1, <1>4, <1>5 DEF Acquire

\* A load fails: the stale provider is served, or the query ends.
LEMMA LoadFailedStep ==
  ASSUME Inductive, NEW q \in Queries, query[q].pc \in Loaders, LoadFailed(q),
         UNCHANGED <<role, now, version>>
  PROVE  Inductive'
<1> DEFINE o == query[q]
           t == o.table
<1>1. o.pc \in Locking /\ o.pc \in Resolving /\ o.pc \notin {"idle", "done"}
  BY DEF Loaders, Locking, Resolving
<1>2. t \in Tables
  BY Zenon, <1>1, Parts DEF LoadOf
<1>3. CASE Resolved(q, t, o.plan[t]) /\ UNCHANGED <<cache, overflowed, pinVars, status>>
  <2>1. /\ UNCHANGED <<role, now, version, overflowed>> /\ UNCHANGED <<version, cache>>
        /\ UNCHANGED <<queryPins, pins, held, releasing, stray, status>>
    BY Zenon, <1>3 DEF pinVars
  <2> QED BY Zenon, <1>1, <1>2, <1>3, <2>1, ResolvedStep, PlannedProvider, CacheSame
<1>4. CASE Fail(q) /\ UNCHANGED <<cache, overflowed>>
  <2>1. Drop(q) /\ StatusFrame(q) /\ status'[q] = "failed"
    BY Zenon, <1>4, StatusSame DEF Fail
  <2>2. status'[q] # "completed" /\ Active(q)
    BY <1>1, <2>1 DEF Active
  <2> QED BY Zenon, <1>4, <2>1, <2>2, DropStep, CacheSame
<1> QED BY Zenon, <1>3, <1>4 DEF LoadFailed

LEMMA LoadTableStep ==
  ASSUME Inductive, NEW q \in Queries, LoadTable(q)
  PROVE  Inductive'
<1> DEFINE o == query[q]
           t == o.table
<1>1. o.pc = "load" /\ UNCHANGED <<role, now, version>>
  BY Zenon DEF LoadTable
<1>2. /\ o.pc \in Loaders /\ o.pc \in Locking /\ o.pc # "wait" /\ o.pc \notin {"idle", "done"}
      /\ "files" \in Loaders /\ "files" \in Places
  BY <1>1 DEF Locking, Loaders, Places, Preparing
<1>3. t \in Tables /\ o \in QueryRec /\ q \in holds
  BY Zenon, <1>2, Parts, Rows DEF LoadOf
<1>4. CASE /\ version[t] # Missing /\ Set(q, [o EXCEPT !.pc = "files", !.meta = version[t]])
           /\ UNCHANGED <<cacheVars, pinVars, status, faults>>
  <2>1. PICK r : r = [o EXCEPT !.pc = "files", !.meta = version[t]]
    OBVIOUS
  <2>2. /\ query' = [query EXCEPT ![q] = r] /\ UNCHANGED <<role, now, version, cache, lock, overflowed>>
        /\ UNCHANGED <<queryPins, pins, held, releasing, stray, status>> /\ holds' = holds
    BY Zenon, <1>1, <1>4, <2>1 DEF Set, cacheVars, pinVars
  <2>3. version[t] \in Nat
    BY Zenon, <1>3, <1>4, Parts DEF Types
  <2>4. /\ r \in QueryRec /\ r.pc = "files" /\ r.table = o.table /\ r.plan = o.plan
        /\ r.pinned = o.pinned /\ r.got = o.got /\ r.meta = version[t]
    BY Zenon, <1>2, <1>3, <2>1, <2>3 DEF QueryRec
  <2>5. r.pc \in Loaders /\ r.pc # "insert" /\ r.meta <= version[r.table]
    BY <1>2, <2>3, <2>4
  <2>6. holds' = holds \cup {q}
    BY <1>3, <2>2
  <2> QED BY Zenon, <1>2, <2>2, <2>4, <2>5, <2>6, LoaderMoves
<1>5. CASE /\ cache' = IF o.plan[t] = Nothing THEN cache ELSE [cache EXCEPT ![t] = Nothing]
           /\ Fail(q) /\ UNCHANGED overflowed
  <2>1. Drop(q) /\ StatusFrame(q) /\ status'[q] = "failed"
    BY Zenon, <1>5, StatusSame DEF Fail
  <2>2. status'[q] # "completed" /\ Active(q)
    BY <1>2, <2>1 DEF Active
  <2>3. /\ cache' \in [Tables -> Providers \cup {Nothing}]
        /\ \A u \in Tables : cache'[u] = cache[u] \/ cache'[u] = Nothing
    BY Zenon, <1>3, <1>5, Parts DEF Types
  <2> QED BY Zenon, <1>1, <1>5, <2>1, <2>2, <2>3, DropStep
<1>6. CASE LoadFailed(q)
  BY Zenon, <1>1, <1>2, <1>6, LoadFailedStep
<1> QED BY Zenon, <1>4, <1>5, <1>6 DEF LoadTable

LEMMA LoadLiveFilesStep ==
  ASSUME Inductive, NEW q \in Queries, LoadLiveFiles(q)
  PROVE  Inductive'
<1> DEFINE o == query[q]
           t == o.table
           v == version[t]
<1>1. o.pc = "files" /\ UNCHANGED <<role, now, version>>
  BY Zenon DEF LoadLiveFiles
<1>2. /\ o.pc \in Loaders /\ o.pc \in Locking /\ o.pc # "wait"
      /\ "insert" \in Loaders /\ "insert" \in Places
  BY <1>1 DEF Locking, Loaders, Places, Preparing
<1>3. t \in Tables /\ o \in QueryRec /\ q \in holds /\ (v = Missing \/ o.meta <= v)
  BY Zenon, <1>1, <1>2, Parts, Rows DEF LoadOf
<1>4. CASE /\ v # Missing /\ Set(q, [o EXCEPT !.pc = "insert", !.files = v])
           /\ UNCHANGED <<cacheVars, pinVars, status, faults>>
  <2>1. PICK r : r = [o EXCEPT !.pc = "insert", !.files = v]
    OBVIOUS
  <2>2. /\ query' = [query EXCEPT ![q] = r] /\ UNCHANGED <<role, now, version, cache, lock, overflowed>>
        /\ UNCHANGED <<queryPins, pins, held, releasing, stray, status>> /\ holds' = holds
    BY Zenon, <1>1, <1>4, <2>1 DEF Set, cacheVars, pinVars
  <2>3. v \in Nat
    BY Zenon, <1>3, <1>4, Parts DEF Types
  <2>4. /\ r \in QueryRec /\ r.pc = "insert" /\ r.table = o.table /\ r.plan = o.plan
        /\ r.pinned = o.pinned /\ r.got = o.got /\ r.files = v /\ r.meta = o.meta
    BY Zenon, <1>2, <1>3, <2>1, <2>3 DEF QueryRec
  <2>5. r.pc \in Loaders /\ r.pc # "files" /\ r.files <= version[r.table]
    BY <1>2, <2>3, <2>4
  <2>6. r.meta <= r.files /\ (cache[r.table] = Nothing \/ cache[r.table].files <= r.files)
    BY Zenon, <1>3, <1>4, <2>4, Parts DEF CacheInv
  <2>7. holds' = holds \cup {q}
    BY <1>3, <2>2
  <2> QED BY ZenonT(40), <1>2, <2>2, <2>4, <2>5, <2>6, <2>7, LoaderMoves
<1>5. CASE LoadFailed(q)
  BY Zenon, <1>1, <1>2, <1>5, LoadFailedStep
<1> QED BY Zenon, <1>4, <1>5 DEF LoadLiveFiles

LEMMA InsertStep ==
  ASSUME Inductive, NEW q \in Queries, Insert(q)
  PROVE  Inductive'
<1> DEFINE o == query[q]
           t == o.table
<1>1. PICK p : p = [snap |-> o.meta, files |-> o.files, at |-> now]
  BY Zenon
<1>2. /\ o.pc = "insert" /\ cache' = [cache EXCEPT ![t] = p] /\ Resolved(q, t, p)
      /\ UNCHANGED <<role, now, version, overflowed>>
      /\ UNCHANGED <<queryPins, pins, held, releasing, stray, status>>
  BY Zenon, <1>1 DEF Insert, pinVars
<1>3. o.pc \in Loaders /\ o.pc \in Locking /\ o.pc \in Resolving
  BY <1>2 DEF Locking, Loaders, Resolving
<1>4. /\ t \in Tables /\ o \in QueryRec /\ q \in holds /\ lock[q] \in {t, Shared}
      /\ (lock[q] = Shared => overflowed)
      /\ o.meta <= o.files /\ (version[t] = Missing \/ o.files <= version[t])
  BY Zenon, <1>2, <1>3, Parts, Rows DEF LoadOf
<1>5. p \in Providers /\ p.snap \in Nat /\ p.files \in Nat /\ p.snap <= p.files /\ p.files = o.files
  BY <1>1, <1>4, Parts DEF QueryRec, Providers, Types
<1>6. cache \in [Tables -> Providers \cup {Nothing}]
  BY Zenon, Parts DEF Types
<1>7. /\ cache' \in [Tables -> Providers \cup {Nothing}] /\ cache'[t] = p
      /\ \A u \in Tables : u # t => cache'[u] = cache[u]
  BY Zenon, <1>2, <1>4, <1>5, <1>6
<1>8. CacheInv'
  <2>1. ASSUME NEW u \in Tables
        PROVE  /\ version'[u] = Missing \/ FirstVersion[u] <= version'[u]
               /\ cache'[u] # Nothing =>
                    /\ cache'[u].snap <= cache'[u].files
                    /\ version'[u] = Missing \/ cache'[u].files <= version'[u]
    <3>1. CASE u = t
      BY Zenon, <1>2, <1>4, <1>5, <1>7, <3>1, Parts DEF CacheInv
    <3>2. CASE u # t
      BY Zenon, <1>2, <1>7, <3>2, Parts DEF CacheInv
    <3> QED BY Zenon, <3>1, <3>2
  <2> QED BY Zenon, <2>1 DEF CacheInv
<1>9. ASSUME NEW m \in Queries, m # q, query[m].pc = "insert"
      PROVE  overflowed' \/ cache'[query[m].table] = cache[query[m].table]
  <2>1. query[m].pc \in Loaders /\ query[m].pc \in Locking
    BY <1>9 DEF Loaders, Locking
  <2>2. /\ m \in holds /\ query[m].table \in Tables /\ lock[m] \in {query[m].table, Shared}
        /\ (lock[m] = Shared => overflowed)
    BY Zenon, <2>1, Parts DEF LoadOf
  <2>3. CASE query[m].table = t
    <3>1. lock[m] # lock[q]
      BY Zenon, <1>4, <1>9, <2>2, Parts DEF OneLoader
    <3> QED BY Zenon, <1>2, <1>4, <2>2, <2>3, <3>1
  <2>4. CASE query[m].table # t
    BY Zenon, <1>7, <2>2, <2>4
  <2> QED BY Zenon, <2>3, <2>4
<1> QED BY ZenonT(40), <1>2, <1>3, <1>4, <1>5, <1>7, <1>8, <1>9, ResolvedStep

-----------------------------------------------------------------------------
(* prepare: pinning the scanned snapshots. *)

\* A query past its tables moves and leaves the cache alone.
LEMMA Moves ==
  ASSUME Inductive, NEW q \in Queries, query[q].pc \notin Locking, NEW r \in QueryRec,
         query' = [query EXCEPT ![q] = r], r.pc \notin Locking, r.plan = query[q].plan,
         UNCHANGED <<role, now, version>>, UNCHANGED <<version, cache, lock, holds, overflowed>>,
         PinFrame(q), PinOf(q, r)', StatusFrame(q), ResultOf(q, r)'
  PROVE  Inductive'
<1>1. LoadOf(q, query[q]) /\ PlanOf(query[q])
  BY Zenon, Parts
<1>2. PlanOf(r)
  BY Zenon, <1>1 DEF PlanOf
<1>3. /\ query[q].pc \notin Loaders /\ r.pc \notin Loaders /\ r.pc # "files" /\ r.pc # "insert"
  BY DEF Loaders, Locking
<1>4. LoadFrame(q) /\ LoadOf(q, r)'
  BY Zenon, <1>1, <1>3, LoadSame DEF LoadOf
<1> QED BY Zenon, <1>2, <1>4, Compose

LEMMA PinSet ==
  ASSUME Inductive, NEW q \in Queries, NEW t \in Tables, NEW x,
         pins' = [pins EXCEPT ![<<q, t>>] = x]
  PROVE  /\ pins' = [k \in Queries \X Tables |-> pins'[k]] /\ pins'[q, t] = x
         /\ \A u \in Tables : u # t => pins'[q, u] = pins[q, u]
         /\ \A m \in Queries, u \in Tables : m # q => pins'[m, u] = pins[m, u]
<1>1. pins = [k \in Queries \X Tables |-> pins[k]]
  BY Zenon, Parts DEF Types
<1>2. \A m \in Queries, u \in Tables : <<m, u>> \in Queries \X Tables
  OBVIOUS
<1>3. DOMAIN pins = Queries \X Tables
  BY Zenon, <1>1
<1>4. PICK P : P = [pins EXCEPT ![<<q, t>>] = x]
  OBVIOUS
<1>5. /\ P = [k \in Queries \X Tables |-> P[k]] /\ P[q, t] = x
      /\ \A u \in Tables : u # t => P[q, u] = pins[q, u]
      /\ \A m \in Queries, u \in Tables : m # q => P[m, u] = pins[m, u]
  BY Zenon, <1>2, <1>3, <1>4
<1> QED BY Zenon, <1>4, <1>5

\* What a query that pins has, and what follows for its next record: the pins it
\* had are kept when its plan and their leases are.
LEMMA PinningFacts ==
  ASSUME Inductive, NEW q \in Queries, query[q].pc \in Pinning
  PROVE  /\ query[q] \in QueryRec /\ query[q].pinned \in SUBSET Tables
         /\ query[q].todo \in SUBSET Tables /\ query[q].todo \cap query[q].pinned = {}
         /\ \A u \in query[q].pinned : Kept(q, query[q], u)
         /\ role = "distributed" => query[q].pinned \subseteq held[q]
         /\ releasing[q] = {} /\ (role = "standalone" => held[q] = {})
         /\ \A u \in Tables : pins[q, u] # NoPin =>
              \/ u \in query[q].pinned \/ (query[q].pc = "record" /\ u = query[q].table)
              \/ Lost(q, u)
         /\ query[q].pc \in {"pinning", "record"} =>
              role = "distributed" /\ query[q].table \in Tables /\ query[q].table \in query[q].todo
         /\ query[q].pc = "record" => Kept(q, query[q], query[q].table)
         /\ query[q].pc \notin Locking /\ query[q].got = <<>> /\ status[q] # "completed"
         /\ query[q].plan \in [Tables -> PlanRec \cup {Nothing}] /\ query[q].until \in [Tables -> Int]
<1> DEFINE o == query[q]
<1>1. /\ o.pc \in Preparing \cup Reading /\ o.pc \notin {"cancelled", "done"} /\ o.pc \notin Locking
      /\ o.pc \notin {"stream", "cancelled", "done"}
  BY DEF Pinning, Preparing, Locking
<1>2. PinOf(q, o) /\ o \in QueryRec
  BY Zenon, Parts, Rows
<1>3. o.pinned \in SUBSET Tables /\ o.todo \in SUBSET Tables
  BY Zenon, <1>2, Fields
<1>4. \A u \in Tables : pins[q, u] # NoPin =>
        u \in o.pinned \/ (o.pc = "record" /\ u = o.table) \/ Lost(q, u)
  BY Zenon, <1>1, <1>2 DEF PinOf, Owned
<1>5. o.got = <<>> /\ status[q] # "completed"
  BY Zenon, <1>1, NotYet
<1>6. o.plan \in [Tables -> PlanRec \cup {Nothing}] /\ o.until \in [Tables -> Int]
  BY Zenon, <1>2, Fields
<1> QED BY Zenon, <1>1, <1>2, <1>3, <1>4, <1>5, <1>6 DEF PinOf

\* The pins of a query that goes on pinning.
LEMMA PinningOn ==
  ASSUME Inductive, NEW q \in Queries, query[q].pc \in Pinning, NEW r \in QueryRec,
         query' = [query EXCEPT ![q] = r], r.pc \in Pinning,
         r.plan = query[q].plan, r.got = query[q].got,
         UNCHANGED <<role, now, version>>, UNCHANGED <<version, cache, lock, holds, overflowed>>,
         UNCHANGED <<queryPins, releasing, status>>, PinFrame(q),
         r.todo \cap r.pinned = {}, \A u \in r.pinned : Kept(q, r, u)',
         role = "distributed" => r.pinned \subseteq held'[q],
         role = "standalone" => held'[q] = held[q],
         r.pc \in {"pinning", "record"} => role = "distributed" /\ r.table \in Tables /\ r.table \in r.todo,
         r.pc = "record" => Kept(q, r, r.table)',
         \A u \in Tables : pins'[q, u] # NoPin =>
           u \in r.pinned \/ (r.pc = "record" /\ u = r.table) \/ Lost(q, u)'
  PROVE  Inductive'
<1>1. /\ r.pc \in Preparing \cup Reading /\ r.pc \notin Resolving /\ r.pc \notin Reading /\ r.pc # "idle"
      /\ r.pc \notin Locking
  BY Zenon DEF Pinning, Preparing, Resolving, Reading, Locking
<1>2. /\ releasing[q] = {} /\ (role = "standalone" => held[q] = {}) /\ query[q].pc \notin Locking
      /\ query[q].got = <<>> /\ status[q] # "completed"
  BY Zenon, PinningFacts
<1>3. PinOf(q, r)'
  BY Zenon, <1>1, <1>2 DEF PinOf, Owned
<1>4. r.got = <<>> /\ status'[q] # "completed"
  BY Zenon, <1>2
<1>5. ResultOf(q, r)' /\ StatusFrame(q)
  BY Zenon, <1>4, EmptyResult, StatusSame
<1> QED BY Zenon, <1>1, <1>2, <1>3, <1>5, Moves

LEMMA PinStep ==
  ASSUME Inductive, NEW q \in Queries, NEW t \in Tables, Pin(q, t)
  PROVE  Inductive'
<1> DEFINE o == query[q]
<1>1. /\ o.pc = "pin" /\ t \in o.todo
      /\ UNCHANGED <<role, now, version>> /\ UNCHANGED <<version, cache, lock, holds, overflowed>>
      /\ UNCHANGED <<queryPins, releasing, stray, status>> /\ UNCHANGED held
  BY Zenon DEF Pin, Scanned, Unchanged, cacheVars
<1>2. /\ o.pc \in Pinning /\ o.pc # "record" /\ "pin" \in Pinning /\ "pinning" \in Pinning /\ "pinning" \in Places
  BY <1>1 DEF Pinning, Places, Preparing
<1>3. /\ o \in QueryRec /\ o.pinned \in SUBSET Tables /\ o.todo \in SUBSET Tables
      /\ o.todo \cap o.pinned = {} /\ \A u \in o.pinned : Kept(q, o, u)
      /\ role = "distributed" => o.pinned \subseteq held[q]
      /\ \A u \in Tables : pins[q, u] # NoPin => u \in o.pinned \/ Lost(q, u)
  BY Zenon, <1>2, PinningFacts
<1>4. t \notin o.pinned
  BY Zenon, <1>1, <1>3
<1>5. held' \in [Queries -> SUBSET Tables] /\ releasing' \in [Queries -> SUBSET Tables]
      /\ queryPins' \subseteq Queries /\ stray' \subseteq Queries \X Tables
  BY Zenon, <1>1, Parts DEF Types
<1>6. CASE role = "standalone"
  <2>1. PICK r : r = [o EXCEPT !.todo = @ \ {t}, !.pinned = @ \cup {t}]
    OBVIOUS
  <2>2. PICK x : x = [snap |-> o.plan[t].snap, until |-> 0]
    BY Zenon
  <2>3. query' = [query EXCEPT ![q] = r] /\ pins' = [pins EXCEPT ![<<q, t>>] = x]
    BY Zenon, <1>6, <2>1, <2>2 DEF Pin, Set
  <2>4. o.todo \ {t} \in SUBSET Tables /\ o.pinned \cup {t} \in SUBSET Tables
    BY Zenon, <1>3
  <2>5. /\ r \in QueryRec /\ r.pc = "pin" /\ r.plan = o.plan /\ r.got = o.got /\ r.until = o.until
        /\ r.todo = o.todo \ {t} /\ r.pinned = o.pinned \cup {t}
    BY Zenon, <1>1, <1>3, <2>1, <2>4 DEF QueryRec
  <2>6. x.snap = o.plan[t].snap
    BY <2>2
  <2>7. PinFrame(q)
    BY Zenon, <1>1, <1>5, <2>3, PinSet DEF PinFrame
  <2>8. role # "distributed" /\ r.pc \in Pinning /\ r.pc \notin {"pinning", "record"} /\ r.pc # "record"
    BY <1>2, <1>6, <2>5
  <2>9. \A u \in r.pinned : Kept(q, r, u)'
    <3>1. ASSUME NEW u \in o.pinned PROVE Kept(q, r, u)'
      <4>1. Kept(q, o, u) /\ u # t /\ u \in Tables
        BY Zenon, <1>3, <1>4, <3>1
      <4>2. pins'[q, u] = pins[q, u] /\ role' # "distributed" /\ pins[q, u].snap = o.plan[u].snap
        BY Zenon, <1>1, <2>3, <2>8, <4>1, PinSet DEF Kept
      <4> QED BY Zenon, <2>5, <4>2 DEF Kept
    <3>2. Kept(q, r, t)'
      <4>1. pins'[q, t] = x
        <5>1. pins = [k \in Queries \X Tables |-> pins[k]]
          BY Zenon, Parts DEF Types
        <5>2. <<q, t>> \in Queries \X Tables /\ DOMAIN pins = Queries \X Tables
          BY Zenon, <5>1
        <5> QED BY Zenon, <2>3, <5>2
      <4>3. role' # "distributed"
        BY Zenon, <1>1, <2>8
      <4>2. (pins'[q, t]).snap = r.plan[t].snap
        BY Zenon, <2>5, <2>6, <4>1
      <4> QED BY Zenon, <4>2, <4>3 DEF Kept
    <3> QED BY Zenon, <2>5, <3>1, <3>2
  <2>10. r.todo \cap r.pinned = {}
    BY Zenon, <1>3, <2>5
  <2>11. \A u \in Tables : pins'[q, u] # NoPin => u \in r.pinned \/ Lost(q, u)'
    <3>1. \A u \in Tables : u # t => pins'[q, u] = pins[q, u]
      BY Zenon, <2>3, PinSet
    <3>2. \A u \in Tables : Lost(q, u) => Lost(q, u)'
      BY Zenon, <1>1 DEF Lost
    <3> QED BY ZenonT(40), <1>3, <2>5, <3>1, <3>2
  <2> QED BY ZenonT(40), <1>1, <1>2, <2>3, <2>5, <2>7, <2>8, <2>9, <2>10, <2>11, PinningOn
<1>7. CASE role # "standalone"
  <2>1. PICK r : r = [o EXCEPT !.pc = "pinning", !.table = t, !.until[t] = now + LeaseTtl]
    OBVIOUS
  <2>2. query' = [query EXCEPT ![q] = r] /\ UNCHANGED pins
    BY ZenonT(40), <1>7, <2>1 DEF Pin, Set
  <2>3. o.until \in [Tables -> Int] /\ now + LeaseTtl \in Int
    <3>1. o.until \in [Tables -> Int] /\ now \in 0 .. MaxTime
      BY Zenon, <1>2, PinningFacts, Parts DEF Types
    <3> QED BY <3>1, QueryAssumption
  <2>4. PICK e : e = now + LeaseTtl
    OBVIOUS
  <2>5. /\ [o.until EXCEPT ![t] = e] \in [Tables -> Int]
        /\ \A u \in Tables : u # t => [o.until EXCEPT ![t] = e][u] = o.until[u]
    BY Zenon, <2>3, <2>4
  <2>6. /\ r \in QueryRec /\ r.pc = "pinning" /\ r.plan = o.plan /\ r.got = o.got /\ r.table = t
        /\ r.todo = o.todo /\ r.pinned = o.pinned /\ r.until = [o.until EXCEPT ![t] = e]
    BY Zenon, <1>2, <1>3, <2>1, <2>4, <2>5 DEF QueryRec
  <2>7. PinFrame(q)
    BY ZenonT(40), <1>1, <2>2, PinSame
  <2>8. role = "distributed" /\ r.pc \in Pinning /\ r.pc # "record"
    BY <1>2, <1>7, <2>6, Parts DEF Types
  <2>9. \A u \in r.pinned : Kept(q, r, u)'
    <3>1. ASSUME NEW u \in o.pinned PROVE Kept(q, r, u)'
      <4>1. Kept(q, o, u) /\ u # t /\ u \in Tables
        BY Zenon, <1>3, <1>4, <3>1
      <4>2. r.until[u] = o.until[u]
        BY Zenon, <2>5, <2>6, <4>1
      <4> QED BY ZenonT(40), <1>1, <2>2, <2>6, <4>1, <4>2 DEF Kept
    <3> QED BY Zenon, <2>6, <3>1
  <2>10. /\ r.todo \cap r.pinned = {} /\ r.table \in Tables /\ r.table \in r.todo
         /\ r.pinned \subseteq held'[q]
         /\ \A u \in Tables : pins'[q, u] # NoPin => u \in r.pinned \/ Lost(q, u)'
    <3>1. \A u \in Tables : Lost(q, u) => Lost(q, u)'
      BY Zenon, <1>1 DEF Lost
    <3> QED BY ZenonT(40), <1>1, <1>3, <2>2, <2>6, <2>8, <3>1
  <2>11. held'[q] = held[q]
    BY Zenon, <1>1
  <2> QED BY Zenon, <1>1, <1>2, <2>2, <2>6, <2>7, <2>8, <2>9, <2>10, <2>11, PinningOn
<1> QED BY Zenon, <1>6, <1>7

LEMMA PinWriteStep ==
  ASSUME Inductive, NEW q \in Queries, PinWrite(q)
  PROVE  Inductive'
<1> DEFINE o == query[q]
<1>0. PICK t : t = o.table
  OBVIOUS
<1>1. /\ o.pc = "pinning"
      /\ UNCHANGED <<role, now, version>> /\ UNCHANGED <<version, cache, lock, holds, overflowed>>
      /\ UNCHANGED <<queryPins, releasing, status>> /\ UNCHANGED held
  BY Zenon DEF PinWrite, Unchanged, cacheVars
<1>2. /\ o.pc \in Pinning /\ o.pc # "record" /\ o.pc \in {"pinning", "record"}
      /\ "pin" \in Pinning /\ "pin" \in Places /\ "record" \in Pinning /\ "record" \in Places
  BY <1>1 DEF Pinning, Places, Preparing
<1>3. /\ o \in QueryRec /\ o.pinned \in SUBSET Tables /\ o.todo \in SUBSET Tables
      /\ o.todo \cap o.pinned = {} /\ \A u \in o.pinned : Kept(q, o, u)
      /\ role = "distributed" /\ o.pinned \subseteq held[q] /\ t \in Tables /\ t \in o.todo
      /\ \A u \in Tables : pins[q, u] # NoPin => u \in o.pinned \/ Lost(q, u)
  BY Zenon, <1>0, <1>2, PinningFacts
<1>4. t \notin o.pinned
  BY Zenon, <1>3
<1>5. /\ held' \in [Queries -> SUBSET Tables] /\ releasing' \in [Queries -> SUBSET Tables]
      /\ queryPins' \subseteq Queries /\ held'[q] = held[q]
      /\ stray \subseteq stray' /\ stray' \subseteq Queries \X Tables
  <2>1. stray' = stray \/ stray' = stray \cup {<<q, t>>}
    BY Zenon, <1>0 DEF PinWrite
  <2>2. stray \subseteq Queries \X Tables /\ <<q, t>> \in Queries \X Tables
    BY Zenon, <1>3, Parts DEF Types
  <2> QED BY Zenon, <1>1, <2>1, <2>2, Parts DEF Types
<1>8. \A u \in Tables : Lost(q, u) => Lost(q, u)'
  BY Zenon, <1>1, <1>5 DEF Lost
<1>6. CASE /\ pins' = [pins EXCEPT ![<<q, t>>] = [snap |-> o.plan[t].snap, until |-> o.until[t]]]
           /\ Set(q, [o EXCEPT !.pc = "record"])
  <2>1. PICK r : r = [o EXCEPT !.pc = "record"]
    BY Zenon
  <2>2. PICK x : x = [snap |-> o.plan[t].snap, until |-> o.until[t]]
    BY Zenon
  <2>3. query' = [query EXCEPT ![q] = r] /\ pins' = [pins EXCEPT ![<<q, t>>] = x]
    BY Zenon, <1>6, <2>1, <2>2 DEF Set
  <2>4. /\ r \in QueryRec /\ r.pc = "record" /\ r.plan = o.plan /\ r.got = o.got /\ r.until = o.until
        /\ r.todo = o.todo /\ r.pinned = o.pinned /\ r.table = t
    BY ZenonT(40), <1>0, <1>2, <1>3, <2>1 DEF QueryRec
  <2>5. x.snap = o.plan[t].snap /\ x.until = o.until[t]
    BY <2>2
  <2>6. PinFrame(q)
    BY Zenon, <1>1, <1>3, <1>5, <2>3, PinSet DEF PinFrame
  <2>7. \A u \in r.pinned : Kept(q, r, u)'
    <3>1. ASSUME NEW u \in o.pinned PROVE Kept(q, r, u)'
      <4>1. Kept(q, o, u) /\ u # t /\ u \in Tables
        BY Zenon, <1>3, <1>4, <3>1
      <4>2. pins'[q, u] = pins[q, u]
        BY Zenon, <1>3, <2>3, <4>1, PinSet
      <4> QED BY Zenon, <1>1, <2>4, <4>1, <4>2 DEF Kept
    <3> QED BY Zenon, <2>4, <3>1
  <2>8. Kept(q, r, r.table)'
    <3>1. pins = [k \in Queries \X Tables |-> pins[k]]
      BY Zenon, Parts DEF Types
    <3>2. <<q, t>> \in Queries \X Tables /\ DOMAIN pins = Queries \X Tables
      BY Zenon, <1>3, <3>1
    <3>3. pins'[q, t] = x
      BY Zenon, <2>3, <3>2
    <3>4. (pins'[q, t]).snap = r.plan[t].snap /\ (pins'[q, t]).until = r.until[t]
      BY Zenon, <2>4, <2>5, <3>3
    <3> QED BY Zenon, <2>4, <3>4 DEF Kept
  <2>9. \A u \in Tables : pins'[q, u] # NoPin =>
          u \in r.pinned \/ (r.pc = "record" /\ u = r.table) \/ Lost(q, u)'
    <3>1. \A u \in Tables : u # t => pins'[q, u] = pins[q, u]
      BY Zenon, <1>3, <2>3, PinSet
    <3> QED BY Zenon, <1>3, <1>8, <2>4, <3>1
  <2>10. r.pc \in Pinning /\ r.todo \cap r.pinned = {} /\ r.table \in Tables /\ r.table \in r.todo
         /\ r.pinned \subseteq held'[q]
    BY Zenon, <1>2, <1>3, <1>5, <2>4
  <2> QED BY ZenonT(40), <1>1, <1>2, <1>3, <1>5, <2>3, <2>4, <2>6, <2>7, <2>8, <2>9, <2>10, PinningOn
<1>7. CASE /\ Set(q, [o EXCEPT !.pc = "pin", !.table = Nothing, !.todo = @ \ {t}])
           /\ \/ UNCHANGED pins
              \/ /\ pins' = [pins EXCEPT ![<<q, t>>] = [snap |-> o.plan[t].snap, until |-> o.until[t]]]
                 /\ stray' = stray \cup {<<q, t>>}
  <2>1. PICK r : r = [o EXCEPT !.pc = "pin", !.table = Nothing, !.todo = @ \ {t}]
    OBVIOUS
  <2>2. query' = [query EXCEPT ![q] = r]
    BY Zenon, <1>7, <2>1 DEF Set
  <2>3. o.todo \ {t} \in SUBSET Tables
    BY Zenon, <1>3
  <2>4. /\ r \in QueryRec /\ r.pc = "pin" /\ r.plan = o.plan /\ r.got = o.got /\ r.until = o.until
        /\ r.todo = o.todo \ {t} /\ r.pinned = o.pinned
    BY Zenon, <1>2, <1>3, <2>1, <2>3 DEF QueryRec
  <2>5. /\ pins' = [k \in Queries \X Tables |-> pins'[k]]
        /\ \A u \in Tables : u # t => pins'[q, u] = pins[q, u]
        /\ \A m \in Queries, u \in Tables : m # q => pins'[m, u] = pins[m, u]
        /\ pins'[q, t] = pins[q, t] \/ <<q, t>> \in stray'
    <3>1. CASE UNCHANGED pins
      BY Zenon, <3>1, Parts DEF Types
    <3>2. CASE /\ pins' = [pins EXCEPT ![<<q, t>>] = [snap |-> o.plan[t].snap, until |-> o.until[t]]]
               /\ stray' = stray \cup {<<q, t>>}
      <4>1. PICK x : x = [snap |-> o.plan[t].snap, until |-> o.until[t]]
        BY Zenon
      <4>2. pins' = [pins EXCEPT ![<<q, t>>] = x] /\ <<q, t>> \in stray'
        BY Zenon, <3>2, <4>1
      <4> QED BY Zenon, <1>3, <4>2, PinSet
    <3> QED BY Zenon, <1>7, <3>1, <3>2
  <2>6. PinFrame(q)
    BY Zenon, <1>1, <1>5, <2>5 DEF PinFrame
  <2>7. \A u \in r.pinned : Kept(q, r, u)'
    <3>1. ASSUME NEW u \in o.pinned PROVE Kept(q, r, u)'
      <4>1. Kept(q, o, u) /\ u # t /\ u \in Tables
        BY Zenon, <1>3, <1>4, <3>1
      <4> QED BY Zenon, <1>1, <2>4, <2>5, <4>1 DEF Kept
    <3> QED BY Zenon, <2>4, <3>1
  <2>8. r.todo \cap r.pinned = {} /\ r.pinned \subseteq held'[q]
    BY ZenonT(40), <1>3, <1>5, <2>4
  <2>9. \A u \in Tables : pins'[q, u] # NoPin => u \in r.pinned \/ Lost(q, u)'
    <3>1. ASSUME NEW u \in Tables, pins'[q, u] # NoPin PROVE u \in r.pinned \/ Lost(q, u)'
      <4>1. CASE pins'[q, u] = pins[q, u]
        BY Zenon, <1>3, <1>8, <2>4, <3>1, <4>1
      <4>2. CASE u = t /\ <<q, t>> \in stray'
        BY Zenon, <1>1, <1>3, <4>2 DEF Lost
      <4> QED BY Zenon, <2>5, <3>1, <4>1, <4>2
    <3> QED BY Zenon, <3>1
  <2>10. r.pc \in Pinning /\ r.pc \notin {"pinning", "record"} /\ r.pc # "record"
    BY <1>2, <2>4
  <2> QED BY ZenonT(40), <1>1, <1>2, <1>5, <2>2, <2>4, <2>6, <2>7, <2>8, <2>9, <2>10, PinningOn
<1> QED BY Zenon, <1>0, <1>6, <1>7 DEF PinWrite

LEMMA PinRecordStep ==
  ASSUME Inductive, NEW q \in Queries, PinRecord(q)
  PROVE  Inductive'
<1> DEFINE o == query[q]
           t == o.table
<1>1. /\ o.pc = "record" /\ held' = [held EXCEPT ![q] = @ \cup {t}]
      /\ UNCHANGED <<role, now, version>> /\ UNCHANGED <<version, cache, lock, holds, overflowed>>
      /\ UNCHANGED <<queryPins, releasing, stray, status>> /\ UNCHANGED pins
  BY Zenon DEF PinRecord, Unchanged, cacheVars
<1>2. /\ o.pc \in Pinning /\ o.pc \in {"pinning", "record"} /\ "pin" \in Pinning /\ "pin" \in Places
  BY <1>1 DEF Pinning, Places, Preparing
<1>3. /\ o \in QueryRec /\ o.pinned \in SUBSET Tables /\ o.todo \in SUBSET Tables
      /\ o.todo \cap o.pinned = {} /\ \A u \in o.pinned : Kept(q, o, u)
      /\ role = "distributed" /\ o.pinned \subseteq held[q] /\ t \in Tables /\ t \in o.todo
      /\ \A u \in Tables : pins[q, u] # NoPin => u \in o.pinned \/ u = t \/ Lost(q, u)
      /\ Kept(q, o, t)
  BY Zenon, <1>1, <1>2, PinningFacts
<1>4. PICK r : r = [o EXCEPT !.pc = "pin", !.table = Nothing, !.todo = @ \ {t}, !.pinned = @ \cup {t}]
  OBVIOUS
<1>5. query' = [query EXCEPT ![q] = r]
  BY Zenon, <1>4 DEF PinRecord, Set
<1>6. o.todo \ {t} \in SUBSET Tables /\ o.pinned \cup {t} \in SUBSET Tables
  BY Zenon, <1>3
<1>7. /\ r \in QueryRec /\ r.pc = "pin" /\ r.plan = o.plan /\ r.got = o.got /\ r.until = o.until
      /\ r.todo = o.todo \ {t} /\ r.pinned = o.pinned \cup {t}
  BY Zenon, <1>2, <1>3, <1>4, <1>6 DEF QueryRec
<1>8. /\ held \in [Queries -> SUBSET Tables] /\ releasing \in [Queries -> SUBSET Tables]
      /\ queryPins \subseteq Queries /\ stray \subseteq Queries \X Tables
      /\ pins = [k \in Queries \X Tables |-> pins[k]]
  BY Zenon, Parts DEF Types
<1>9. /\ held' \in [Queries -> SUBSET Tables] /\ held'[q] = held[q] \cup {t}
      /\ \A m \in Queries : m # q => held'[m] = held[m]
  BY Zenon, <1>1, <1>3, <1>8
<1>10. PinFrame(q)
  BY Zenon, <1>1, <1>8, <1>9 DEF PinFrame
<1>11. \A u \in r.pinned : Kept(q, r, u)'
  <2>1. ASSUME NEW u \in r.pinned PROVE Kept(q, r, u)'
    <3>1. Kept(q, o, u)
      BY Zenon, <1>3, <1>7, <2>1
    <3> QED BY Zenon, <1>1, <1>7, <3>1 DEF Kept
  <2> QED BY Zenon, <2>1
<1>12. /\ r.todo \cap r.pinned = {} /\ r.pinned \subseteq held'[q]
       /\ \A u \in Tables : pins'[q, u] # NoPin => u \in r.pinned \/ Lost(q, u)'
  <2>1. \A u \in Tables : Lost(q, u) => Lost(q, u)'
    BY Zenon, <1>1 DEF Lost
  <2> QED BY Zenon, <1>1, <1>3, <1>7, <1>9, <2>1
<1>13. r.pc \in Pinning /\ r.pc \notin {"pinning", "record"} /\ r.pc # "record" /\ role # "standalone"
  BY Zenon, <1>2, <1>3, <1>7
<1> QED BY ZenonT(40), <1>1, <1>2, <1>5, <1>7, <1>10, <1>11, <1>12, <1>13, PinningOn

-----------------------------------------------------------------------------
(* Reading what is planned. *)

\* A query that reads what it planned keeps what it pinned.
LEMMA ReadOn ==
  ASSUME Inductive, NEW q \in Queries, query[q].pc \in Reading \cup {"pin"}, NEW r \in QueryRec,
         query' = [query EXCEPT ![q] = r], r.pc \in Reading, r.plan = query[q].plan,
         r.pinned = query[q].pinned, r.until = query[q].until,
         UNCHANGED <<role, now, version>>, UNCHANGED <<version, cache, lock, holds, overflowed>>,
         UNCHANGED <<role, pins, held, releasing, stray>>, queryPins' \subseteq Queries,
         \A m \in Queries : m # q => (m \in queryPins' <=> m \in queryPins),
         r.pinned # {} => q \in queryPins',
         StatusFrame(q), ResultOf(q, r)'
  PROVE  Inductive'
<1> DEFINE o == query[q]
<1>1. PinOf(q, o) /\ o \in QueryRec
  BY Zenon, Parts, Rows
<1>2. /\ o.pc \in Preparing \cup Reading /\ o.pc \notin Locking /\ o.pc # "record"
      /\ o.pc \notin {"cancelled", "done"}
      /\ r.pc \in Preparing \cup Reading /\ r.pc \notin Locking /\ r.pc \notin Resolving /\ r.pc \notin Pinning
      /\ r.pc \notin {"pinning", "record"} /\ r.pc # "record" /\ r.pc # "idle"
  BY DEF Preparing, Reading, Locking, Resolving, Pinning
<1>3. o.pinned \in SUBSET Tables
  BY Zenon, <1>1, Fields
<1>4. PinFrame(q)
  BY Zenon, Parts DEF PinFrame, Types
<1>5. /\ \A t \in o.pinned : Kept(q, o, t) /\ (role = "distributed" => o.pinned \subseteq held[q])
      /\ releasing[q] = {} /\ (role = "standalone" => held[q] = {})
      /\ \A t \in Tables : pins[q, t] # NoPin => t \in o.pinned \/ Lost(q, t)
  BY Zenon, <1>1, <1>2 DEF PinOf, Owned
<1>6. \A t \in r.pinned : Kept(q, r, t)'
  BY Zenon, <1>5 DEF Kept
<1>7. \A t \in Tables : Lost(q, t) => Lost(q, t)'
  BY Zenon DEF Lost
<1>8. PinOf(q, r)'
  BY Zenon, <1>2, <1>5, <1>6, <1>7 DEF PinOf, Owned
<1> QED BY Zenon, <1>2, <1>4, <1>8, Moves

LEMMA PinDoneStep ==
  ASSUME Inductive, NEW q \in Queries, PinDone(q)
  PROVE  Inductive'
<1> DEFINE o == query[q]
<1>1. /\ o.pc = "pin" /\ queryPins' = IF o.pinned = {} THEN queryPins ELSE queryPins \cup {q}
      /\ UNCHANGED <<role, now, version>> /\ UNCHANGED <<version, cache, lock, holds, overflowed>>
      /\ UNCHANGED <<role, pins, held, releasing, stray>> /\ UNCHANGED status
  BY Zenon DEF PinDone, Unchanged, cacheVars
<1>2. PICK r : r = [o EXCEPT !.pc = "handle", !.todo = {}]
  OBVIOUS
<1>3. query' = [query EXCEPT ![q] = r] /\ o \in QueryRec
  BY Zenon, <1>2, Rows DEF PinDone, Set
<1>4. o.pc \in Pinning /\ o.pc \in Reading \cup {"pin"} /\ "handle" \in Reading /\ "handle" \in Places
  BY <1>1 DEF Pinning, Reading, Places
<1>5. /\ r \in QueryRec /\ r.pc = "handle" /\ r.plan = o.plan /\ r.got = o.got /\ r.until = o.until
      /\ r.pinned = o.pinned
  BY Zenon, <1>2, <1>3, <1>4 DEF QueryRec
<1>6. queryPins \subseteq Queries
  BY Zenon, Parts DEF Types
<1>7. /\ queryPins' \subseteq Queries /\ \A m \in Queries : m # q => (m \in queryPins' <=> m \in queryPins)
      /\ r.pinned # {} => q \in queryPins'
  BY <1>1, <1>5, <1>6
<1>8. r.got = <<>> /\ status'[q] # "completed"
  BY Zenon, <1>1, <1>4, <1>5, PinningFacts
<1>9. StatusFrame(q) /\ ResultOf(q, r)'
  BY Zenon, <1>1, <1>8, EmptyResult, StatusSame
<1> QED BY Zenon, <1>1, <1>3, <1>4, <1>5, <1>7, <1>9, ReadOn

-----------------------------------------------------------------------------
(* Execution. *)

\* A query that ends without a result, or with all of it.
LEMMA EndStep ==
  ASSUME Inductive, NEW q \in Queries, query[q].pc \notin {"idle", "done"}, Drop(q),
         UNCHANGED <<role, now, version>>, UNCHANGED <<cache, overflowed>>,
         \/ UNCHANGED status
         \/ \E s : s # "completed" /\ status' = [status EXCEPT ![q] = s]
         \/ status' = [status EXCEPT ![q] = "completed"] /\ Len(query[q].got) = NumBatches
  PROVE  Inductive'
<1>1. Active(q)
  BY Zenon DEF Active
<1>2. StatusFrame(q) /\ \A s : status' = [status EXCEPT ![q] = s] => status'[q] = s
  BY Zenon, StatusSame
<1>3. status'[q] = "completed" => status[q] = "completed" \/ Len(query[q].got) = NumBatches
  BY Zenon, <1>2
<1>4. /\ cache' \in [Tables -> Providers \cup {Nothing}]
      /\ \A t \in Tables : cache'[t] = cache[t] \/ cache'[t] = Nothing
  BY Zenon, Parts DEF Types
<1> QED BY Zenon, <1>1, <1>2, <1>3, <1>4, DropStep

LEMMA FailStep ==
  ASSUME Inductive, NEW q \in Queries, query[q].pc \notin {"idle", "done"}, Fail(q),
         UNCHANGED <<role, now, version>>, UNCHANGED <<cache, overflowed>>
  PROVE  Inductive'
<1>1. "failed" # "completed"
  OBVIOUS
<1> QED BY Zenon, <1>1, EndStep DEF Fail

LEMMA HandleDroppedStep ==
  ASSUME Inductive, NEW q \in Queries, HandleDropped(q)
  PROVE  Inductive'
<1>1. /\ query[q].pc = "handle" /\ Drop(q) /\ UNCHANGED <<role, now, version>>
      /\ UNCHANGED <<cache, overflowed>> /\ UNCHANGED status
  BY Zenon DEF HandleDropped
<1>2. query[q].pc \notin {"idle", "done"}
  BY <1>1
<1> QED BY Zenon, <1>1, <1>2, EndStep

\* The query goes to an engine, or to its stream.
LEMMA Started ==
  ASSUME Inductive, NEW q \in Queries, query[q].pc \in {"handle", "local"}, NEW r \in QueryRec,
         query' = [query EXCEPT ![q] = r], r.pc \in {"local", "stream"}, r.plan = query[q].plan,
         r.pinned = query[q].pinned, r.until = query[q].until, r.got = query[q].got,
         UNCHANGED <<role, now, version>>, UNCHANGED <<version, cache, lock, holds, overflowed>>,
         UNCHANGED <<queryPins, pins, held, releasing, stray>>,
         UNCHANGED status \/ status' = [status EXCEPT ![q] = "running"]
  PROVE  Inductive'
<1> DEFINE o == query[q]
<1>1. /\ o.pc \in Reading /\ o.pc \in Reading \cup {"pin"} /\ o.pc \notin {"stream", "cancelled", "done"}
      /\ r.pc \in Reading /\ "running" # "completed"
  BY DEF Reading
<1>2. o.got = <<>> /\ status[q] # "completed" /\ PinOf(q, o)
  BY Zenon, <1>1, NotYet, Parts
<1>3. StatusFrame(q) /\ \A s : status' = [status EXCEPT ![q] = s] => status'[q] = s
  BY Zenon, StatusSame
<1>4. r.got = <<>> /\ status'[q] # "completed"
  BY Zenon, <1>1, <1>2, <1>3
<1>5. ResultOf(q, r)'
  BY Zenon, <1>4, EmptyResult
<1>6. r.pinned # {} => q \in queryPins'
  BY Zenon, <1>1, <1>2 DEF PinOf
<1>7. queryPins' \subseteq Queries
  BY Zenon, Parts DEF Types
<1> QED BY Zenon, <1>1, <1>3, <1>5, <1>6, <1>7, ReadOn

LEMMA ExecuteStreamStep ==
  ASSUME Inductive, NEW q \in Queries, ExecuteStream(q)
  PROVE  Inductive'
<1> DEFINE o == query[q]
<1>1. o.pc = "handle" /\ UNCHANGED <<role, now, version>> /\ UNCHANGED <<cache, overflowed>>
  BY Zenon DEF ExecuteStream
<1>2. o.pc \in {"handle", "local"} /\ o.pc \notin {"idle", "done"} /\ {"local", "stream"} \subseteq Places
  BY <1>1 DEF Places, Reading
<1>3. CASE /\ UNCHANGED <<pinVars, lock, holds>>
           /\ \/ Running(q)
              \/ Set(q, [o EXCEPT !.pc = "local"]) /\ UNCHANGED status
  <2>1. PICK pc \in {"local", "stream"} : query' = [query EXCEPT ![q] = [o EXCEPT !.pc = pc]]
    BY Zenon, <1>3 DEF Running, Set
  <2>2. PICK r : r = [o EXCEPT !.pc = pc]
    BY Zenon
  <2>3. /\ r \in QueryRec /\ r.pc = pc /\ r.plan = o.plan /\ r.got = o.got /\ r.until = o.until
        /\ r.pinned = o.pinned
    BY ZenonT(40), <1>2, <2>2, Rows DEF QueryRec
  <2>4. /\ UNCHANGED <<version, cache, lock, holds, overflowed>>
        /\ UNCHANGED <<queryPins, pins, held, releasing, stray>>
        /\ UNCHANGED status \/ status' = [status EXCEPT ![q] = "running"]
    BY Zenon, <1>1, <1>3 DEF Running, pinVars
  <2>5. query' = [query EXCEPT ![q] = r]
    BY Zenon, <2>1, <2>2
  <2> QED BY ZenonT(40), <1>1, <1>2, <2>3, <2>4, <2>5, Started
<1>4. CASE Fail(q)
  BY Zenon, <1>1, <1>2, <1>4, FailStep
<1> QED BY Zenon, <1>3, <1>4 DEF ExecuteStream

LEMMA LocalStep ==
  ASSUME Inductive, NEW q \in Queries, Local(q)
  PROVE  Inductive'
<1> DEFINE o == query[q]
<1>1. o.pc = "local" /\ UNCHANGED <<role, now, version>> /\ UNCHANGED <<cache, overflowed>>
  BY Zenon DEF Local
<1>2. o.pc \in {"handle", "local"} /\ o.pc \notin {"idle", "done"} /\ "stream" \in Places
  BY <1>1 DEF Places, Reading
<1>3. CASE /\ status' = [status EXCEPT ![q] = "running"]
           /\ Set(q, [o EXCEPT !.pc = "stream", !.kind = "local"])
           /\ UNCHANGED <<pinVars, lock, holds, faults>>
  <2>1. PICK r : r = [o EXCEPT !.pc = "stream", !.kind = "local"]
    OBVIOUS
  <2>2. /\ r \in QueryRec /\ r.pc = "stream" /\ r.plan = o.plan /\ r.got = o.got /\ r.until = o.until
        /\ r.pinned = o.pinned
    BY ZenonT(40), <1>2, <2>1, Rows DEF QueryRec
  <2>3. /\ UNCHANGED <<version, cache, lock, holds, overflowed>>
        /\ UNCHANGED <<queryPins, pins, held, releasing, stray>>
        /\ query' = [query EXCEPT ![q] = r] /\ r.pc \in {"local", "stream"}
    BY Zenon, <1>1, <1>3, <2>1, <2>2 DEF Set, pinVars
  <2> QED BY ZenonT(40), <1>1, <1>2, <1>3, <2>2, <2>3, Started
<1>4. CASE Fail(q)
  BY Zenon, <1>1, <1>2, <1>4, FailStep
<1> QED BY Zenon, <1>3, <1>4 DEF Local

LEMMA BatchStep ==
  ASSUME Inductive, NEW q \in Queries, Batch(q)
  PROVE  Inductive'
<1> DEFINE o == query[q]
<1>1. /\ o.pc = "stream" /\ Len(o.got) < NumBatches /\ UNCHANGED <<role, now, version>>
      /\ UNCHANGED <<version, cache, lock, holds, overflowed>>
      /\ UNCHANGED <<queryPins, pins, held, releasing, stray>> /\ UNCHANGED status
  BY Zenon DEF Batch, Unchanged, cacheVars, pinVars
<1>2. /\ o.pc \in Reading /\ o.pc \in Reading \cup {"pin"}
  BY <1>1 DEF Reading
<1>3. PICK e \in {"local", "remote"} : e = Engine(q)
  BY DEF Engine
<1>4. PICK r : r = [o EXCEPT !.got = Append(@, e)]
  BY Zenon
<1>5. query' = [query EXCEPT ![q] = r]
  BY Zenon, <1>3, <1>4 DEF Batch, Set
<1>6. o \in QueryRec /\ PinOf(q, o) /\ ResultOf(q, o)
  BY Zenon, Parts, Rows
<1>7. o.got \in Seq({"local", "remote"})
  BY Zenon, <1>6, Fields
<1>8. Append(o.got, e) \in Seq({"local", "remote"})
  BY <1>7
<1>9. /\ r \in QueryRec /\ r.pc = "stream" /\ r.plan = o.plan /\ r.until = o.until
      /\ r.pinned = o.pinned /\ r.got = Append(o.got, e) /\ r.kind = o.kind
  BY Zenon, <1>1, <1>4, <1>6, <1>8 DEF QueryRec
<1>10. \A i \in DOMAIN o.got : o.got[i] = e
  BY Zenon, <1>1, <1>3, <1>6 DEF ResultOf, Engine
<1>11. \A i \in DOMAIN r.got : r.got[i] = e
  BY <1>7, <1>9, <1>10
<1>12. Len(r.got) <= NumBatches
  BY <1>1, <1>7, <1>9, QueryAssumption
<1>13. status'[q] # "completed"
  <2>1. o.pc # "done"
    BY <1>1
  <2> QED BY Zenon, <1>1, <1>6, <2>1 DEF ResultOf
<1>14. e = IF r.kind = "local" THEN "local" ELSE "remote"
  BY Zenon, <1>3, <1>9 DEF Engine
<1>15. ResultOf(q, r)'
  <2>1. r.pc \in {"stream", "cancelled", "done"}
    BY <1>9
  <2> QED BY ZenonT(40), <1>11, <1>12, <1>13, <1>14, <2>1 DEF ResultOf
<1>16. StatusFrame(q) /\ queryPins' \subseteq Queries /\ (r.pinned # {} => q \in queryPins')
  BY ZenonT(40), <1>1, <1>2, <1>6, <1>9, StatusSame, Parts DEF PinOf, Types
<1>17. r.pc \in Reading
  BY Zenon, <1>1, <1>2, <1>9
<1> QED BY Zenon, <1>1, <1>2, <1>5, <1>9, <1>15, <1>16, <1>17, ReadOn

LEMMA StreamFailsStep ==
  ASSUME Inductive, NEW q \in Queries, StreamFails(q)
  PROVE  Inductive'
<1>1. /\ query[q].pc = "stream" /\ Fail(q) /\ UNCHANGED <<role, now, version>>
      /\ UNCHANGED <<cache, overflowed>>
  BY Zenon DEF StreamFails
<1>2. query[q].pc \notin {"idle", "done"}
  BY <1>1
<1> QED BY Zenon, <1>1, <1>2, FailStep

LEMMA StreamEndsStep ==
  ASSUME Inductive, NEW q \in Queries, StreamEnds(q)
  PROVE  Inductive'
<1>1. /\ query[q].pc = "stream" /\ Len(query[q].got) = NumBatches /\ Drop(q)
      /\ status' = [status EXCEPT ![q] = "completed"] /\ UNCHANGED <<role, now, version>>
      /\ UNCHANGED <<cache, overflowed>>
  BY Zenon DEF StreamEnds
<1>2. query[q].pc \notin {"idle", "done"}
  BY <1>1
<1> QED BY Zenon, <1>1, <1>2, EndStep

-----------------------------------------------------------------------------
(* Deadlines, clients and crashes. *)

LEMMA TimeoutStep ==
  ASSUME Inductive, NEW q \in Queries, Timeout(q)
  PROVE  Inductive'
<1> DEFINE o == query[q]
<1>1. /\ o.pc \in Preparing \cup Reading /\ UNCHANGED <<role, now, version>>
      /\ UNCHANGED <<cache, overflowed>>
      /\ status' = IF o.kind = "schema" THEN status ELSE [status EXCEPT ![q] = "cancelled"]
  BY Zenon DEF Timeout
<1>2. o.pc \notin {"idle", "done"} /\ "cancelled" # "completed" /\ "cancelled" \in Places
  BY <1>1, PlaceSets DEF Places
<1>3. CASE ~(o.kind = "flight" /\ o.pc = "stream")
  <2>1. Drop(q)
    BY Zenon, <1>3 DEF Timeout
  <2>2. UNCHANGED status \/ \E s : s # "completed" /\ status' = [status EXCEPT ![q] = s]
    BY Zenon, <1>1, <1>2
  <2> QED BY Zenon, <1>1, <1>2, <2>1, <2>2, EndStep
<1>4. CASE o.kind = "flight" /\ o.pc = "stream"
  <2>1. PICK r : r = [o EXCEPT !.pc = "cancelled"]
    BY Zenon
  <2>2. o.pc \notin Preparing /\ o.pc # "record" /\ o.pc \notin Locking /\ o.kind # "schema" /\ Active(q)
    BY <1>2, <1>4 DEF Preparing, Locking, Active
  <2>3. /\ query' = [query EXCEPT ![q] = r] /\ queryPins' = queryPins \ {q}
        /\ (q \in queryPins => Release(q))
        /\ (q \notin queryPins => UNCHANGED <<pins, held, releasing>>)
        /\ UNCHANGED <<lock, holds, stray>> /\ status' = [status EXCEPT ![q] = "cancelled"]
    BY Zenon, <1>1, <1>4, <2>1, <2>2 DEF Timeout, Set
  <2>4. /\ r \in QueryRec /\ r.pc = "cancelled" /\ r.plan = o.plan /\ r.got = o.got
    BY ZenonT(40), <1>2, <2>1, Rows DEF QueryRec
  <2>5. Unpin(q)
    BY Zenon, <2>2, <2>3 DEF Unpin
  <2>6. /\ PinFrame(q)
        /\ \A t \in Tables : pins'[q, t] # NoPin =>
             t \in releasing'[q] \/ (role = "distributed" /\ <<q, t>> \in stray')
        /\ role = "standalone" => releasing'[q] = {} /\ held'[q] = {}
    BY Zenon, <1>1, <2>2, <2>5, Unpinned
  <2>7. /\ r.pc \notin Resolving /\ r.pc \notin Pinning /\ r.pc \notin {"pinning", "record"}
        /\ r.pc \notin Preparing \cup Reading /\ r.pc \notin Reading /\ r.pc # "record" /\ r.pc # "idle"
        /\ r.pc \in {"cancelled", "done"} /\ r.pc \notin Locking /\ r.pc # "stream"
        /\ r.pc \in {"stream", "cancelled", "done"}
    BY <2>4 DEF Resolving, Pinning, Preparing, Reading, Locking
  <2>8. PinOf(q, r)'
    BY Zenon, <1>1, <2>6, <2>7 DEF PinOf, Owned, Lost
  <2>9. StatusFrame(q) /\ status'[q] = "cancelled"
    BY Zenon, <2>3, StatusSame
  <2>10. status'[q] # "completed"
    BY <2>9
  <2>11. ResultOf(q, r)'
    <3>1. Len(r.got) <= NumBatches /\ \A i, j \in DOMAIN r.got : r.got[i] = r.got[j]
      BY <2>4, Parts DEF ResultOf
    <3> QED BY Zenon, <2>7, <2>10, <3>1 DEF ResultOf
  <2>12. UNCHANGED <<version, cache, lock, holds, overflowed>>
    BY Zenon, <1>1, <2>3
  <2> QED BY ZenonT(40), <1>1, <2>2, <2>3, <2>4, <2>6, <2>7, <2>8, <2>9, <2>11, <2>12, Moves
<1> QED BY Zenon, <1>3, <1>4

LEMMA GoneStep ==
  ASSUME Inductive, NEW q \in Queries, Gone(q)
  PROVE  Inductive'
<1>1. /\ Drop(q) /\ UNCHANGED <<role, now, version>> /\ UNCHANGED <<cache, overflowed>> /\ UNCHANGED status
  BY Zenon DEF Gone
<1>2. query[q].pc \notin {"idle", "done"}
  <2>1. query[q].pc = "cancelled" \/ Active(q)
    BY Zenon DEF Gone
  <2> QED BY <2>1 DEF Active
<1> QED BY Zenon, <1>1, <1>2, EndStep

\* Someone other than the node's queries moves: the clock, the catalog, the sweeper.
PinsOver ==
  /\ pins' = [k \in Queries \X Tables |-> pins'[k]]
  /\ \A m \in Queries, u \in Tables :
       \/ pins'[m, u] = pins[m, u]
       \/ /\ pins'[m, u] = NoPin /\ role = "distributed"
          /\ version'[u] = Missing \/ pins[m, u].until < now

LEMMA World ==
  ASSUME Inductive, UNCHANGED <<role, cache, lock, holds, overflowed>>,
         UNCHANGED <<query, queryPins, held, releasing, stray, status>>,
         now' \in 0 .. MaxTime, now <= now', version' \in [Tables -> Nat \cup {Missing}],
         \A u \in Tables : version'[u] = Missing \/ (version[u] # Missing /\ version[u] <= version'[u]),
         PinsOver
  PROVE  Inductive'
<1>1. Types'
  BY Zenon, Parts DEF Types, PinsOver
<1>2. version \in [Tables -> Nat \cup {Missing}] /\ cache \in [Tables -> Providers \cup {Nothing}]
      /\ now \in 0 .. MaxTime
  BY Zenon, Parts DEF Types
<1>3. \A u \in Tables, n \in Int :
        version[u] = Missing \/ n <= version[u] => version'[u] = Missing \/ n <= version'[u]
  <2>1. \A u \in Tables : version[u] \in Int /\ version'[u] \in Int
    BY <1>2 DEF Missing
  <2>2. \A a, b, n \in Int : a <= b /\ n <= a => n <= b
    OBVIOUS
  <2> QED BY <2>1, <2>2
<1>4. CacheInv'
  <2>1. ASSUME NEW u \in Tables
        PROVE  /\ version'[u] = Missing \/ FirstVersion[u] <= version'[u]
               /\ cache'[u] # Nothing =>
                    /\ cache'[u].snap <= cache'[u].files
                    /\ version'[u] = Missing \/ cache'[u].files <= version'[u]
    <3>1. FirstVersion[u] \in Int /\ (cache[u] # Nothing => cache[u].files \in Int)
      BY <1>2, QueryAssumption DEF Providers
    <3> QED BY Zenon, <1>3, <3>1, Parts DEF CacheInv
  <2> QED BY Zenon, <2>1 DEF CacheInv
<1>5. OneLoader'
  BY Zenon, Parts DEF OneLoader
<1>6. ASSUME NEW m \in Queries PROVE QueryInv(m, query[m])'
  <2> DEFINE r == query[m]
  <2>1. /\ r \in QueryRec /\ PlanOf(r) /\ LoadOf(m, r) /\ PinOf(m, r) /\ ResultOf(m, r)
    BY Zenon, Parts, Rows
  <2>2. r.meta \in Int /\ r.files \in Int /\ r.until \in [Tables -> Int] /\ r.pinned \in SUBSET Tables
    BY <2>1, Fields
  <2>3. /\ r.pc = "files" => r.pc \in Locking
        /\ r.pc = "insert" => r.pc \in Locking
        /\ r.pc = "record" => r.pc \in {"pinning", "record"}
    BY DEF Locking
  <2>4. LoadOf(m, r)'
    <3>1. r.pc = "files" => version'[r.table] = Missing \/ r.meta <= version'[r.table]
      BY Zenon, <1>3, <2>1, <2>2, <2>3 DEF LoadOf
    <3>2. r.pc = "insert" => version'[r.table] = Missing \/ r.files <= version'[r.table]
      BY Zenon, <1>3, <2>1, <2>2, <2>3 DEF LoadOf
    <3> QED BY Zenon, <2>1, <3>1, <3>2 DEF LoadOf
  <2>5. ASSUME NEW u \in Tables, Kept(m, r, u) PROVE Kept(m, r, u)'
    <3>1. r.until[u] \in Int /\ now \in Int /\ now' \in Int
      BY <1>2, <2>2
    <3>2. now > r.until[u] => now' > r.until[u]
      BY <3>1
    <3>3. CASE pins'[m, u] = pins[m, u]
      BY Zenon, <2>5, <3>2, <3>3 DEF Kept
    <3>4. CASE /\ pins'[m, u] = NoPin /\ role = "distributed"
               /\ version'[u] = Missing \/ pins[m, u].until < now
      <4>1. CASE pins[m, u].until = r.until[u]
        <5>1. version'[u] = Missing \/ r.until[u] < now
          BY Zenon, <3>4, <4>1
        <5>2. version'[u] = Missing \/ now' > r.until[u]
          BY <3>1, <3>2, <5>1
        <5> QED BY Zenon, <3>4, <5>2 DEF Kept
      <4>2. CASE version[u] = Missing \/ now > r.until[u]
        BY ZenonT(40), <3>2, <3>4, <4>2 DEF Kept
      <4> QED BY ZenonT(40), <2>5, <3>4, <4>1, <4>2 DEF Kept
    <3> QED BY Zenon, <3>3, <3>4 DEF PinsOver
  <2>6. \A u \in Tables : pins'[m, u] # NoPin => Owned(m, r, u)'
    BY Zenon, <2>1 DEF PinOf, Owned, Lost, PinsOver
  <2>7. PinOf(m, r)'
    BY ZenonT(40), <2>1, <2>2, <2>3, <2>5, <2>6 DEF PinOf
  <2>8. PlanOf(r)' /\ ResultOf(m, r)'
    BY <2>1 DEF PlanOf, ResultOf
  <2> QED BY Zenon, <2>4, <2>7, <2>8 DEF QueryInv
<1> QED BY Zenon, <1>1, <1>4, <1>5, <1>6 DEF Inductive

LEMMA CommitStep ==
  ASSUME Inductive, NEW t \in Tables, Commit(t)
  PROVE  Inductive'
<1>1. /\ version[t] # Missing /\ version' = [version EXCEPT ![t] = @ + 1] /\ UNCHANGED now
      /\ UNCHANGED <<role, cache, lock, holds, overflowed>>
      /\ UNCHANGED <<query, queryPins, held, releasing, stray, status>> /\ UNCHANGED pins
  BY Zenon DEF Commit, cacheVars, pinVars
<1>2. /\ version \in [Tables -> Nat \cup {Missing}] /\ now \in 0 .. MaxTime
      /\ pins = [k \in Queries \X Tables |-> pins[k]]
  BY Zenon, Parts DEF Types
<1>3. /\ version' \in [Tables -> Nat \cup {Missing}]
      /\ \A u \in Tables : version'[u] = Missing \/ (version[u] # Missing /\ version[u] <= version'[u])
  BY <1>1, <1>2 DEF Missing
<1>4. now' \in 0 .. MaxTime /\ now <= now'
  BY <1>1, <1>2
<1> QED BY ZenonT(40), <1>1, <1>2, <1>3, <1>4, World DEF PinsOver

LEMMA TickStep ==
  ASSUME Inductive, Tick
  PROVE  Inductive'
<1>1. /\ now < MaxTime /\ now' = now + 1 /\ UNCHANGED version
      /\ UNCHANGED <<role, cache, lock, holds, overflowed>>
      /\ UNCHANGED <<query, queryPins, held, releasing, stray, status>> /\ UNCHANGED pins
  BY Zenon DEF Tick, cacheVars, pinVars
<1>2. /\ version \in [Tables -> Nat \cup {Missing}] /\ now \in 0 .. MaxTime
      /\ pins = [k \in Queries \X Tables |-> pins[k]]
  BY Zenon, Parts DEF Types
<1>3. /\ version' \in [Tables -> Nat \cup {Missing}]
      /\ \A u \in Tables : version'[u] = Missing \/ (version[u] # Missing /\ version[u] <= version'[u])
  BY <1>1, <1>2 DEF Missing
<1>4. now' \in 0 .. MaxTime /\ now <= now'
  BY <1>1, <1>2, QueryAssumption
<1> QED BY ZenonT(40), <1>1, <1>2, <1>3, <1>4, World DEF PinsOver

LEMMA DropTableStep ==
  ASSUME Inductive, NEW t \in Tables, DropTable(t)
  PROVE  Inductive'
<1>1. /\ version' = [version EXCEPT ![t] = Missing] /\ UNCHANGED now
      /\ pins' = IF role = "standalone" THEN pins
                 ELSE [k \in Queries \X Tables |-> IF k[2] = t THEN NoPin ELSE pins[k]]
      /\ UNCHANGED <<role, cache, lock, holds, overflowed>>
      /\ UNCHANGED <<query, queryPins, held, releasing, stray, status>>
  BY Zenon DEF DropTable, cacheVars
<1>2. /\ version \in [Tables -> Nat \cup {Missing}] /\ now \in 0 .. MaxTime
      /\ pins = [k \in Queries \X Tables |-> pins[k]] /\ role \in {"standalone", "distributed"}
  BY Zenon, Parts DEF Types
<1>3. /\ version' \in [Tables -> Nat \cup {Missing}] /\ version'[t] = Missing
      /\ \A u \in Tables : version'[u] = Missing \/ (version[u] # Missing /\ version[u] <= version'[u])
  BY <1>1, <1>2 DEF Missing
<1>4. now' \in 0 .. MaxTime /\ now <= now'
  BY <1>1, <1>2
<1>5. \A m \in Queries, u \in Tables : /\ <<m, u>> \in Queries \X Tables /\ <<m, u>>[2] = u
  OBVIOUS
<1>6. PICK W : W = [k \in Queries \X Tables |-> IF k[2] = t THEN NoPin ELSE pins[k]]
  BY Zenon
<1>7. /\ W = [k \in Queries \X Tables |-> W[k]]
      /\ \A m \in Queries, u \in Tables : W[m, u] = IF u = t THEN NoPin ELSE pins[m, u]
  BY Zenon, <1>5, <1>6
<1>8. pins' = [k \in Queries \X Tables |-> pins'[k]]
  BY Zenon, <1>1, <1>2, <1>6, <1>7
<1>9. \A m \in Queries, u \in Tables :
        \/ pins'[m, u] = pins[m, u]
        \/ pins'[m, u] = NoPin /\ role = "distributed" /\ version'[u] = Missing
  BY Zenon, <1>1, <1>2, <1>3, <1>6, <1>7
<1> QED BY ZenonT(40), <1>1, <1>3, <1>4, <1>8, <1>9, World DEF PinsOver

LEMMA ExpireStaleStep ==
  ASSUME Inductive, NEW t \in Tables, ExpireStale(t)
  PROVE  Inductive'
<1> DEFINE Lapsed(k) == k[2] = t /\ pins[k] # NoPin /\ pins[k].until < now
<1>1. /\ role = "distributed" /\ UNCHANGED <<now, version>>
      /\ pins' = [k \in Queries \X Tables |-> IF Lapsed(k) THEN NoPin ELSE pins[k]]
      /\ UNCHANGED <<role, cache, lock, holds, overflowed>>
      /\ UNCHANGED <<query, queryPins, held, releasing, stray, status>>
  BY Zenon DEF ExpireStale, cacheVars
<1>2. version \in [Tables -> Nat \cup {Missing}] /\ now \in 0 .. MaxTime
  BY Zenon, Parts DEF Types
<1>3. /\ version' \in [Tables -> Nat \cup {Missing}]
      /\ \A u \in Tables : version'[u] = Missing \/ (version[u] # Missing /\ version[u] <= version'[u])
      /\ now' \in 0 .. MaxTime /\ now <= now'
  BY <1>1, <1>2 DEF Missing
<1>4. \A m \in Queries, u \in Tables : <<m, u>> \in Queries \X Tables
  OBVIOUS
<1>5. PICK W : W = [k \in Queries \X Tables |-> IF Lapsed(k) THEN NoPin ELSE pins[k]]
  BY Zenon
<1>6. \A m \in Queries, u \in Tables : W[m, u] = IF Lapsed(<<m, u>>) THEN NoPin ELSE pins[m, u]
  BY Zenon, <1>4, <1>5
<1>7. \A m \in Queries, u \in Tables : Lapsed(<<m, u>>) => pins[m, u].until < now
  BY Zenon
<1>8. W = [k \in Queries \X Tables |-> W[k]] /\ pins' = W
  BY <1>1, <1>5
<1> HIDE DEF Lapsed
<1>9. \A m \in Queries, u \in Tables :
        \/ pins'[m, u] = pins[m, u]
        \/ pins'[m, u] = NoPin /\ pins[m, u].until < now
  BY Zenon, <1>6, <1>7, <1>8
<1>10. pins' = [k \in Queries \X Tables |-> pins'[k]]
  BY Zenon, <1>8
<1> QED BY Zenon, <1>1, <1>3, <1>9, <1>10, World DEF PinsOver

\* One table of a release task.  Only a cancelled or ended query of a distributed
\* node has such a task.
LEMMA ReleaseTaskStep ==
  ASSUME Inductive, NEW q \in Queries, ReleaseTask(q)
  PROVE  Inductive'
<1>1. PICK r : r = query[q]
  OBVIOUS
<1>2. r \in QueryRec /\ PinOf(q, r) /\ ResultOf(q, r) /\ r.plan = query[q].plan
  BY Zenon, <1>1, Parts, Rows
<1>3. PICK t \in releasing[q] :
        /\ releasing' = [releasing EXCEPT ![q] = @ \ {t}]
        /\ \/ pins' = Without(q, {t}) /\ UNCHANGED stray
           \/ stray' = stray \cup {<<q, t>>} /\ UNCHANGED pins
  BY Zenon DEF ReleaseTask
<1>4. /\ UNCHANGED <<role, now, version>> /\ UNCHANGED <<version, cache, lock, holds, overflowed>>
      /\ UNCHANGED <<query, queryPins, held, status>>
  BY Zenon DEF ReleaseTask, cacheVars
<1>5. query' = [query EXCEPT ![q] = r]
  BY <1>1, <1>4, Parts DEF Types
<1>6. /\ held \in [Queries -> SUBSET Tables] /\ releasing \in [Queries -> SUBSET Tables]
      /\ queryPins \subseteq Queries /\ stray \subseteq Queries \X Tables
      /\ pins = [k \in Queries \X Tables |-> pins[k]] /\ role \in {"standalone", "distributed"}
  BY Zenon, Parts DEF Types
<1>7. /\ r.pc \notin Preparing \cup Reading /\ r.pc # "idle" /\ role = "distributed" /\ t \in Tables
  BY Zenon, <1>2, <1>3, <1>6 DEF PinOf
<1>8. /\ releasing' \in [Queries -> SUBSET Tables] /\ releasing'[q] = releasing[q] \ {t}
      /\ \A m \in Queries : m # q => releasing'[m] = releasing[m]
  BY Zenon, <1>3, <1>6
<1>9. /\ pins' = [k \in Queries \X Tables |-> pins'[k]]
      /\ \A m \in Queries, u \in Tables : m # q => pins'[m, u] = pins[m, u]
      /\ \A u \in Tables : u # t => pins'[q, u] = pins[q, u]
      /\ pins'[q, t] = NoPin \/ <<q, t>> \in stray'
      /\ stray \subseteq stray' /\ stray' \subseteq Queries \X Tables
  <2>1. PICK W : W = Without(q, {t})
    OBVIOUS
  <2>2. {t} \in SUBSET Tables
    BY Zenon, <1>7
  <2>3. /\ W = [k \in Queries \X Tables |-> W[k]] /\ \A u \in {t} : W[q, u] = NoPin
        /\ \A u \in Tables \ {t} : W[q, u] = pins[q, u]
        /\ \A m \in Queries, u \in Tables : m # q => W[m, u] = pins[m, u]
    <3>1. \A m \in Queries, u \in Tables : /\ <<m, u>> \in Queries \X Tables
                                           /\ <<m, u>>[1] = m /\ <<m, u>>[2] = u
      OBVIOUS
    <3> QED BY Zenon, <1>7, <2>1, <3>1 DEF Without
  <2>4. CASE pins' = W /\ UNCHANGED stray
    BY Zenon, <1>6, <2>3, <2>4
  <2>5. CASE stray' = stray \cup {<<q, t>>} /\ UNCHANGED pins
    <3>1. <<q, t>> \in Queries \X Tables
      BY Zenon, <1>7
    <3> QED BY Zenon, <1>6, <2>5, <3>1
  <2> QED BY Zenon, <1>3, <2>1, <2>4, <2>5
<1>10. PinFrame(q)
  BY Zenon, <1>4, <1>6, <1>8, <1>9 DEF PinFrame
<1>11. /\ r.pc \notin Resolving /\ r.pc \notin Pinning /\ r.pc \notin {"pinning", "record"}
       /\ r.pc \notin Reading /\ r.pc # "record" /\ r.pc \in {"cancelled", "done"} /\ r.pc \notin Locking
       /\ role # "standalone"
  <2>1. r.pc \in Places
    BY Zenon, <1>2, Fields
  <2> QED BY <1>7, <2>1 DEF Places, Preparing, Reading, Resolving, Pinning, Locking
<1>12. \A u \in Tables : pins'[q, u] # NoPin => Owned(q, r, u)'
  <2>1. ASSUME NEW u \in Tables, pins'[q, u] # NoPin
        PROVE  u \in releasing'[q] \/ <<q, u>> \in stray'
    <3>1. CASE u = t
      BY Zenon, <1>9, <2>1, <3>1
    <3>2. CASE u # t
      <4>1. Owned(q, r, u)
        BY Zenon, <1>2, <1>9, <2>1, <3>2 DEF PinOf
      <4> QED BY ZenonT(40), <1>7, <1>8, <1>9, <1>11, <3>2, <4>1 DEF Owned, Lost
    <3> QED BY Zenon, <3>1, <3>2
  <2> QED BY ZenonT(40), <1>4, <1>7, <1>11, <2>1 DEF Owned, Lost
<1>13. PinOf(q, r)'
  BY Zenon, <1>4, <1>7, <1>11, <1>12 DEF PinOf
<1>14. StatusFrame(q)
  BY Zenon, <1>4, StatusSame
<1>15. ResultOf(q, r)'
  BY <1>2, <1>4 DEF ResultOf
<1>16. query[q].pc \notin Locking
  BY Zenon, <1>1, <1>11
<1> QED BY ZenonT(40), <1>2, <1>4, <1>5, <1>10, <1>11, <1>13, <1>14, <1>15, <1>16, Moves

LEMMA CrashStep ==
  ASSUME Inductive, Crash
  PROVE  Inductive'
<1>1. /\ query' = [q \in Queries |-> IF Active(q) THEN Done(q) ELSE query[q]]
      /\ cache' = [t \in Tables |-> Nothing] /\ lock' = [q \in Queries |-> Nothing] /\ holds' = {}
      /\ queryPins' = {} /\ held' = [q \in Queries |-> {}] /\ releasing' = [q \in Queries |-> {}]
      /\ pins' = IF role = "standalone" THEN [k \in Queries \X Tables |-> NoPin] ELSE pins
      /\ stray' = stray \cup {k \in Queries \X Tables : pins'[k] # NoPin}
      /\ status' = [q \in Queries |-> "none"]
      /\ UNCHANGED <<role, now, version, overflowed>>
  BY Zenon DEF Crash
<1>2. /\ stray \subseteq Queries \X Tables /\ pins = [k \in Queries \X Tables |-> pins[k]]
      /\ role \in {"standalone", "distributed"}
  BY Zenon, Parts DEF Types
<1>3. \A q \in Queries : query[q] \in QueryRec /\ Done(q) \in QueryRec
  BY Zenon, Rows, DoneRecord
<1>4. query' \in [Queries -> QueryRec]
  BY Zenon, <1>1, <1>3
<1>5. /\ pins' = [k \in Queries \X Tables |-> pins'[k]]
      /\ role = "standalone" => \A q \in Queries, t \in Tables : pins'[q, t] = NoPin
  <2>1. CASE role = "standalone"
    <3>1. \A q \in Queries, t \in Tables : <<q, t>> \in Queries \X Tables
      OBVIOUS
    <3> QED BY Zenon, <1>1, <2>1, <3>1
  <2>2. CASE role # "standalone"
    BY Zenon, <1>1, <1>2, <2>2
  <2> QED BY Zenon, <2>1, <2>2
<1>6. /\ cache' \in [Tables -> Providers \cup {Nothing}] /\ lock' \in [Queries -> Tables \cup {Shared, Nothing}]
      /\ held' \in [Queries -> SUBSET Tables] /\ releasing' \in [Queries -> SUBSET Tables]
      /\ stray' \subseteq Queries \X Tables /\ DOMAIN status' = Queries
      /\ holds' \subseteq Queries /\ queryPins' \subseteq Queries
  BY Zenon, <1>1, <1>2
<1>7. Types'
  BY Zenon, <1>1, <1>4, <1>5, <1>6, Parts DEF Types
<1>8. CacheInv' /\ OneLoader'
  BY Zenon, <1>1, Parts DEF CacheInv, OneLoader
<1>9. ASSUME NEW q \in Queries PROVE QueryInv(q, query[q])'
  <2>1. PICK r : r = IF Active(q) THEN Done(q) ELSE query[q]
    OBVIOUS
  <2>2. query'[q] = r
    BY Zenon, <1>1, <2>1
  <2>3. /\ r.pc \in {"idle", "done"} /\ PlanOf(r)
        /\ \A i, j \in DOMAIN r.got : r.got[i] = r.got[j] /\ Len(r.got) <= NumBatches
        /\ r.pc \notin {"stream", "cancelled", "done"} => r.got = <<>>
        /\ r.pc = "idle" => \A t \in Tables : pins[q, t] = NoPin
    <3>1. CASE Active(q)
      <4>1. /\ r.pc = "done" /\ \A t \in Tables : r.plan[t] = Nothing
            /\ r.got = IF Len(query[q].got) = NumBatches THEN query[q].got ELSE <<>>
        BY Zenon, <2>1, <3>1, DoneRecord
      <4>2. ResultOf(q, query[q]) /\ DOMAIN <<>> = {} /\ Len(<<>>) <= NumBatches
        BY Parts, QueryAssumption
      <4>3. /\ \A i, j \in DOMAIN r.got : r.got[i] = r.got[j]
            /\ Len(r.got) <= NumBatches
        BY Zenon, <4>1, <4>2 DEF ResultOf
      <4>4. r.pc # "idle" /\ r.pc \in {"stream", "cancelled", "done"} /\ r.pc \in {"idle", "done"}
        BY <4>1
      <4> QED BY Zenon, <4>1, <4>3, <4>4 DEF PlanOf
    <3>2. CASE ~Active(q)
      <4>1. r = query[q] /\ r.pc \in {"idle", "done"}
        BY Zenon, <2>1, <3>2 DEF Active
      <4>2. ResultOf(q, r) /\ PlanOf(r) /\ PinOf(q, r)
        BY Zenon, <4>1, Parts
      <4>3. r.pc = "idle" => \A t \in Tables : ~Owned(q, r, t)
        BY DEF Owned, Preparing, Reading
      <4> QED BY ZenonT(40), <4>1, <4>2, <4>3 DEF ResultOf, PinOf
    <3> QED BY Zenon, <3>1, <3>2
  <2>4. /\ r.pc \notin Resolving /\ r.pc \notin Pinning /\ r.pc \notin {"pinning", "record"}
        /\ r.pc \notin Preparing \cup Reading /\ r.pc \notin Reading /\ r.pc # "record"
        /\ r.pc \notin Locking /\ r.pc \notin Loaders /\ r.pc # "files" /\ r.pc # "insert" /\ r.pc # "stream"
        /\ r.pc # "idle" => r.pc \in {"cancelled", "done"}
    BY Zenon, <2>3 DEF Resolving, Pinning, Preparing, Reading, Locking, Loaders
  <2>5. LoadOf(q, r)'
    BY Zenon, <1>1, <2>4 DEF LoadOf
  <2>6. \A t \in Tables : pins'[q, t] # NoPin => Owned(q, r, t)'
    <3>1. ASSUME NEW t \in Tables, pins'[q, t] # NoPin PROVE Owned(q, r, t)'
      <4>1. role # "standalone"
        BY Zenon, <1>5, <3>1
      <4>2. pins' = pins /\ role' = "distributed" /\ <<q, t>> \in stray'
        <5>1. <<q, t>> \in Queries \X Tables
          OBVIOUS
        <5>2. pins' = pins /\ role' = "distributed"
          BY <1>1, <1>2, <4>1
        <5> QED BY ZenonT(40), <1>1, <3>1, <5>1, <5>2
      <4>3. r.pc \in {"cancelled", "done"}
        BY Zenon, <2>3, <2>4, <3>1, <4>2
      <4>4. r.pc # "idle"
        BY <4>3
      <4> QED BY Zenon, <2>4, <4>2, <4>3, <4>4 DEF Owned, Lost
    <3> QED BY Zenon, <3>1
  <2>7. releasing'[q] = {} /\ held'[q] = {} /\ status'[q] = "none"
    BY Zenon, <1>1
  <2>8. PinOf(q, r)'
    BY Zenon, <2>4, <2>6, <2>7 DEF PinOf
  <2>9. status'[q] # "completed" /\ Len(r.got) <= NumBatches
    <3>1. status'[q] # "completed"
      BY <2>7
    <3>2. ResultOf(q, query[q]) /\ Len(<<>>) <= NumBatches
      BY Parts, QueryAssumption
    <3>3. Active(q) => Done(q).got = query[q].got \/ Done(q).got = <<>>
      BY Zenon, DoneRecord
    <3> QED BY ZenonT(40), <2>1, <3>1, <3>2, <3>3 DEF ResultOf
  <2>10. ResultOf(q, r)'
    BY ZenonT(40), <2>3, <2>4, <2>9 DEF ResultOf
  <2>11. PlanOf(query[q])'
    BY Zenon, <2>2, <2>3 DEF PlanOf
  <2>12. LoadOf(q, query[q])' /\ PinOf(q, query[q])' /\ ResultOf(q, query[q])'
    BY ZenonT(40), <2>2, <2>5, <2>8, <2>10
  <2> QED BY Zenon, <2>11, <2>12 DEF QueryInv
<1> QED BY Zenon, <1>7, <1>8, <1>9 DEF Inductive

-----------------------------------------------------------------------------
(* The invariant, and what it says. *)

LEMMA Begins == Init => Inductive
<1> SUFFICES ASSUME Init PROVE Inductive
  OBVIOUS
<1>1. 0 \in 0 .. MaxTime /\ FALSE \in BOOLEAN
  BY QueryAssumption
<1>2. Idle \in QueryRec /\ FirstVersion \in [Tables -> Nat \cup {Missing}]
  BY Zenon, IdleRecord, QueryAssumption
<1>3. query \in [Queries -> QueryRec] /\ version \in [Tables -> Nat \cup {Missing}]
  BY Zenon, <1>2 DEF Init
<1>4. pins = [k \in Queries \X Tables |-> pins[k]]
  BY DEF Init
<1>5. Types
  BY Zenon, <1>1, <1>3, <1>4 DEF Init, Types
<1>6. CacheInv /\ OneLoader
  <2>1. \A t \in Tables : FirstVersion[t] <= FirstVersion[t]
    BY QueryAssumption
  <2> QED BY Zenon, <2>1 DEF Init, CacheInv, OneLoader
<1>7. ASSUME NEW q \in Queries PROVE QueryInv(q, query[q])
  <2>1. query[q] = Idle
    BY Zenon DEF Init
  <2>2. /\ Idle.pc \notin Resolving /\ Idle.pc \notin Pinning /\ Idle.pc \notin {"pinning", "record"}
        /\ Idle.pc \notin Preparing \cup Reading /\ Idle.pc \notin Reading /\ Idle.pc # "record"
        /\ Idle.pc \notin Locking /\ Idle.pc \notin Loaders /\ Idle.pc # "files" /\ Idle.pc # "insert"
        /\ Idle.pc # "stream"
    BY IdleRecord DEF Resolving, Pinning, Preparing, Reading, Locking, Loaders
  <2>3. PlanOf(Idle)
    BY Zenon, IdleRecord DEF PlanOf
  <2>4. LoadOf(q, Idle)
    BY Zenon, <2>2 DEF LoadOf, Init
  <2>5. /\ \A t \in Tables : pins[q, t] = NoPin
        /\ releasing[q] = {} /\ held[q] = {} /\ status[q] # "completed"
    <3>1. \A t \in Tables : <<q, t>> \in Queries \X Tables
      OBVIOUS
    <3>2. \A t \in Tables : pins[q, t] = NoPin
      BY Zenon, <3>1 DEF Init
    <3>3. status[q] # "completed"
      BY DEF Init
    <3> QED BY Zenon, <3>2, <3>3 DEF Init
  <2>6. PinOf(q, Idle)
    BY Zenon, <2>2, <2>5 DEF PinOf
  <2>7. ResultOf(q, Idle)
    <3>1. DOMAIN <<>> = {} /\ Len(<<>>) <= NumBatches
      BY QueryAssumption
    <3> QED BY Zenon, <2>2, <2>5, <3>1, IdleRecord DEF ResultOf
  <2> QED BY Zenon, <2>1, <2>3, <2>4, <2>6, <2>7 DEF QueryInv
<1> QED BY Zenon, <1>5, <1>6, <1>7 DEF Inductive

LEMMA Stutters ==
  ASSUME Inductive, UNCHANGED vars
  PROVE  Inductive'
<1>1. /\ UNCHANGED <<role, cache, lock, holds, overflowed>> /\ UNCHANGED <<now, version, pins>>
      /\ UNCHANGED <<query, queryPins, held, releasing, stray, status>>
  BY Zenon DEF vars, cacheVars, pinVars
<1>2. /\ version \in [Tables -> Nat \cup {Missing}] /\ now \in 0 .. MaxTime
      /\ pins = [k \in Queries \X Tables |-> pins[k]]
  BY Zenon, Parts DEF Types
<1>3. /\ now' \in 0 .. MaxTime /\ now <= now' /\ version' \in [Tables -> Nat \cup {Missing}]
      /\ \A u \in Tables : version'[u] = Missing \/ (version[u] # Missing /\ version[u] <= version'[u])
  BY <1>1, <1>2 DEF Missing
<1>4. PinsOver
  BY Zenon, <1>1, <1>2 DEF PinsOver
<1> QED BY Zenon, <1>1, <1>3, <1>4, World

LEMMA Steps == Inductive /\ [Next]_vars => Inductive'
<1> SUFFICES ASSUME Inductive, [Next]_vars PROVE Inductive'
  OBVIOUS
<1>1. ASSUME NEW q \in Queries, Step(q) PROVE Inductive'
  <2>1. CASE \E a \in Requests[q] : Begin(q, a[1], a[2])
    BY Zenon, <2>1, BeginStep
  <2>2. CASE \E t \in Tables : Lookup(q, t) \/ Pin(q, t)
    BY Zenon, <2>2, LookupStep, PinStep
  <2>3. CASE Acquire(q) \/ LoadTable(q) \/ LoadLiveFiles(q) \/ Insert(q)
    BY Zenon, <2>3, AcquireStep, LoadTableStep, LoadLiveFilesStep, InsertStep
  <2>4. CASE PinWrite(q) \/ PinRecord(q) \/ PinDone(q)
    BY Zenon, <2>4, PinWriteStep, PinRecordStep, PinDoneStep
  <2>5. CASE HandleDropped(q) \/ ExecuteStream(q) \/ Local(q)
    BY ZenonT(40), <2>5, HandleDroppedStep, ExecuteStreamStep, LocalStep
  <2>6. CASE Batch(q) \/ StreamFails(q) \/ StreamEnds(q)
    BY Zenon, <2>6, BatchStep, StreamFailsStep, StreamEndsStep
  <2>7. CASE Timeout(q) \/ Gone(q) \/ ReleaseTask(q)
    BY Zenon, <2>7, TimeoutStep, GoneStep, ReleaseTaskStep
  <2> QED BY ZenonT(40), <1>1, <2>1, <2>2, <2>3, <2>4, <2>5, <2>6, <2>7 DEF Step
<1>2. ASSUME NEW t \in Tables, Commit(t) \/ DropTable(t) \/ ExpireStale(t) PROVE Inductive'
  BY Zenon, <1>2, CommitStep, DropTableStep, ExpireStaleStep
<1>3. CASE Crash \/ Tick
  BY Zenon, <1>3, CrashStep, TickStep
<1>4. CASE UNCHANGED vars
  BY Zenon, <1>4, Stutters
<1> QED BY Zenon, <1>1, <1>2, <1>3, <1>4 DEF Next

LEMMA Invariant == Spec => []Inductive
  BY Begins, Steps, PTL DEF Spec

LEMMA SaysPins == Inductive => PinsSound
<1> SUFFICES ASSUME Inductive PROVE PinsSound
  OBVIOUS
<1>1. Types /\ CacheInv
  BY Zenon, Parts
<1>2. ASSUME NEW q \in Queries
      PROVE  /\ query[q] \in QueryRec /\ PlanOf(query[q]) /\ LoadOf(q, query[q])
             /\ PinOf(q, query[q]) /\ query[q].pinned \in SUBSET Tables
  BY Zenon, Parts, Rows, Fields
<1>3. TypeOK
  <2>1. \A t \in Tables : version[t] \in {v \in Nat : v >= FirstVersion[t]} \cup {Missing}
    BY <1>1, QueryAssumption DEF Types, CacheInv
  <2>2. \A q \in holds : query[q].pc \in {"load", "files", "insert"}
    BY Zenon, <1>1, <1>2 DEF Types, LoadOf, Loaders
  <2>3. \A q \in holds : lock[q] # Nothing
    <3>1. ASSUME NEW q \in holds PROVE lock[q] # Nothing
      <4>1. q \in Queries /\ query[q].pc \in Locking
        BY Zenon, <1>1, <2>2, <3>1, PlaceSets DEF Types, Loaders
      <4>2. query[q].table \in Tables /\ lock[q] \in {query[q].table, Shared}
        BY Zenon, <1>2, <4>1 DEF LoadOf
      <4> QED BY Zenon, <4>2, QueryAssumption DEF Shared
    <3> QED BY Zenon, <3>1
  <2>4. \A q \in Queries : held[q] \cup releasing[q] \cup query[q].pinned \subseteq Tables
    <3>1. \A q \in Queries : held[q] \in SUBSET Tables /\ releasing[q] \in SUBSET Tables
      BY Zenon, <1>1 DEF Types
    <3> QED BY Zenon, <1>2, <3>1
  <2> QED BY ZenonT(40), <1>1, <2>1, <2>2, <2>3, <2>4 DEF TypeOK, Types
<1>4. PinHeld
  <2>1. ASSUME NEW q \in Queries, query[q].pc \in Reading, NEW t \in query[q].pinned
        PROVE  Kept(q, query[q], t)
    BY Zenon, <1>2, <2>1 DEF PinOf
  <2> QED BY Zenon, <2>1 DEF PinHeld, Kept
<1>5. PinsFreed
  <2>1. ASSUME NEW q \in Queries, NEW t \in Tables, pins[q, t] # NoPin
        PROVE  \/ Active(q)
               \/ t \in releasing[q]
               \/ role = "distributed" /\ <<q, t>> \in stray
    <3>1. Owned(q, query[q], t)
      BY Zenon, <1>2, <2>1 DEF PinOf
    <3>2. query[q].pc \in Preparing \cup Reading \/ query[q].pc = "record" => Active(q)
      BY DEF Preparing, Reading, Active
    <3> QED BY Zenon, <3>1, <3>2 DEF Owned, Lost
  <2> QED BY Zenon, <2>1 DEF PinsFreed
<1>6. FilesCoverPin
  <2>1. ASSUME NEW q \in Queries, NEW t \in Tables, query[q].plan[t] # Nothing
        PROVE  query[q].plan[t].files >= query[q].plan[t].snap
    <3>1. query[q].plan[t].snap \in Nat /\ query[q].plan[t].files \in Nat
          /\ query[q].plan[t].snap <= query[q].plan[t].files
      BY Zenon, <2>1, PlannedProvider
    <3> QED BY <3>1
  <2> QED BY Zenon, <2>1 DEF FilesCoverPin
<1> QED BY ZenonT(40), <1>3, <1>4, <1>5, <1>6 DEF PinsSound

\* For any queries, tables, leases, commits and faults: a pin is in the registry
\* while its query reads, unless its lease or its table is over; every pin has
\* someone who will remove it; and the files a plan reads are no older than the
\* snapshot it pins.
THEOREM SnapshotPinsSound == Spec => []PinsSound
  BY Invariant, SaysPins, PTL

\* The batches of a query come from one engine, whatever falls back, fails or is
\* cancelled, and a query that is reported completed delivered all of them.
THEOREM ResultsAreWhole == Spec => []WholeResult
<1>1. Inductive => WholeResult
  BY Zenon, Parts DEF ResultOf, WholeResult
<1> QED BY <1>1, Invariant, PTL

\* A step that keeps or forgets what is cached.
CacheKeeps == \A t \in Tables : cache'[t] = cache[t] \/ cache'[t] = Nothing

LEMMA KeepsAdvances ==
  ASSUME Inductive, CacheKeeps, NEW t \in Tables, cache[t] # Nothing, cache'[t] # Nothing
  PROVE  ~(cache'[t].files < cache[t].files)
<1>1. cache'[t] = cache[t] /\ cache[t] \in Providers
  BY Zenon, Parts DEF CacheKeeps, Types
<1>2. cache[t].files \in Nat
  BY <1>1 DEF Providers
<1>3. ~(cache[t].files < cache[t].files)
  BY <1>2
<1> QED BY Zenon, <1>1, <1>3

LEMMA LoadFailedKeeps ==
  ASSUME NEW q \in Queries, LoadFailed(q)
  PROVE  UNCHANGED cache
  BY Zenon DEF LoadFailed

LEMMA OthersKeep ==
  ASSUME Inductive, [Next]_vars, \A q \in Queries : ~Insert(q)
  PROVE  CacheKeeps
<1>1. ASSUME UNCHANGED cache PROVE CacheKeeps
  BY Zenon, <1>1 DEF CacheKeeps
<1>2. ASSUME NEW q \in Queries, Step(q) PROVE CacheKeeps
  <2>1. CASE \E a \in Requests[q] : Begin(q, a[1], a[2])
    BY Zenon, <1>1, <2>1 DEF Begin, cacheVars
  <2>2. CASE \E t \in Tables : Lookup(q, t) \/ Pin(q, t)
    BY Zenon, <1>1, <2>2 DEF Lookup, Pin, Unchanged, cacheVars
  <2>3. CASE Acquire(q) \/ LoadLiveFiles(q)
    BY Zenon, <1>1, <2>3, LoadFailedKeeps DEF Acquire, LoadLiveFiles, cacheVars
  <2>4. CASE LoadTable(q)
    <3>1. CASE UNCHANGED cache
      BY Zenon, <1>1, <3>1
    <3>2. CASE cache' = [cache EXCEPT ![query[q].table] = Nothing]
      <4>1. cache \in [Tables -> Providers \cup {Nothing}]
        BY Zenon, Parts DEF Types
      <4> QED BY Zenon, <3>2, <4>1 DEF CacheKeeps
    <3> QED BY Zenon, <2>4, <3>1, <3>2, LoadFailedKeeps DEF LoadTable, cacheVars
  <2>5. CASE PinWrite(q) \/ PinRecord(q) \/ PinDone(q) \/ Batch(q)
    BY Zenon, <1>1, <2>5 DEF PinWrite, PinRecord, PinDone, Batch, Unchanged, cacheVars
  <2>6. CASE HandleDropped(q) \/ ExecuteStream(q) \/ Local(q) \/ StreamFails(q) \/ StreamEnds(q)
    BY Zenon, <1>1, <2>6 DEF HandleDropped, ExecuteStream, Local, StreamFails, StreamEnds
  <2>7. CASE Timeout(q) \/ Gone(q) \/ ReleaseTask(q)
    BY Zenon, <1>1, <2>7 DEF Timeout, Gone, ReleaseTask, cacheVars
  <2> QED BY ZenonT(40), <1>2, <2>1, <2>2, <2>3, <2>4, <2>5, <2>6, <2>7 DEF Step
<1>3. ASSUME NEW t \in Tables, Commit(t) \/ DropTable(t) \/ ExpireStale(t) PROVE CacheKeeps
  BY Zenon, <1>1, <1>3 DEF Commit, DropTable, ExpireStale, cacheVars
<1>4. CASE Crash
  BY Zenon, <1>4 DEF Crash, CacheKeeps
<1>5. CASE Tick \/ UNCHANGED vars
  BY Zenon, <1>1, <1>5 DEF Tick, vars, cacheVars
<1> QED BY Zenon, <1>2, <1>3, <1>4, <1>5 DEF Next

\* Loads of a table come one after the other while the lock registry has room, so
\* no insertion ever replaces a provider by one with older files.
THEOREM CacheNeverGoesBack == Spec => CacheAdvances
<1> DEFINE Advance == \A t \in Tables :
      (cache[t] # Nothing /\ cache'[t] # Nothing /\ cache'[t].files < cache[t].files) => overflowed'
<1>1. Inductive /\ [Next]_vars => Advance
  <2> SUFFICES ASSUME Inductive, [Next]_vars, NEW t \in Tables, cache[t] # Nothing,
                      cache'[t] # Nothing, cache'[t].files < cache[t].files
               PROVE  overflowed'
    BY Zenon
  <2>1. CASE \A q \in Queries : ~Insert(q)
    BY Zenon, <2>1, OthersKeep, KeepsAdvances
  <2>2. ASSUME NEW q \in Queries, Insert(q) PROVE overflowed'
    <3> DEFINE o == query[q]
    <3>1. PICK p : p = [snap |-> o.meta, files |-> o.files, at |-> now]
      BY Zenon
    <3>2. o.pc = "insert" /\ cache' = [cache EXCEPT ![o.table] = p] /\ UNCHANGED overflowed
      BY Zenon, <2>2, <3>1 DEF Insert
    <3>3. cache \in [Tables -> Providers \cup {Nothing}] /\ o \in QueryRec
      BY Zenon, Parts, Rows DEF Types
    <3>4. CASE t # o.table
      <4>1. cache'[t] = cache[t]
        BY Zenon, <3>2, <3>3, <3>4
      <4>2. cache[t].files \in Nat
        BY <3>3 DEF Providers
      <4>3. ~(cache[t].files < cache[t].files)
        BY <4>2
      <4> QED BY Zenon, <4>1, <4>3
    <3>5. CASE t = o.table
      <4>1. cache'[t] = p /\ p.files = o.files
        BY <3>1, <3>2, <3>3, <3>5
      <4>2. cache[t].files \in Nat /\ o.files \in Nat
        BY <3>3, Fields DEF Providers
      <4>3. overflowed \/ cache[t].files <= o.files
        BY Zenon, <3>2, <3>5, Parts DEF LoadOf
      <4>4. o.files < cache[t].files
        BY Zenon, <4>1
      <4>5. overflowed
        BY <4>2, <4>3, <4>4
      <4> QED BY Zenon, <3>2, <4>5
    <3> QED BY Zenon, <3>4, <3>5
  <2> QED BY Zenon, <2>1, <2>2
<1>2. Spec => [][Advance]_vars
  <2>1. Inductive /\ [Next]_vars => [Advance]_vars
    BY <1>1
  <2> QED BY <2>1, Invariant, PTL DEF Spec
<1> QED BY <1>2 DEF CacheAdvances

=============================================================================
