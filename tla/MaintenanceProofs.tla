-------------------------- MODULE MaintenanceProofs --------------------------
(***************************************************************************)
(* What background maintenance never does to a table, for any number of    *)
(* nodes, files, snapshots and ticks: it deletes no file that a snapshot   *)
(* lists but one committed late, loses no row, doubles none while one node *)
(* works at a time, and two nodes work at a time only past the lock's time *)
(* to live or after a raced update of the lock.                            *)
(*                                                                         *)
(* The inductive invariant says of every stage of a node's loop what the   *)
(* rest of the loop relies on, as a predicate of the node's record; most   *)
(* steps change one record and nothing it is judged by (QuietStep).        *)
(***************************************************************************)
EXTENDS Maintenance, TLAPS

FileRec == [id: Nat, rows: SUBSET Nat, at: Nat]
Snap == [ts: Nat, adds: SUBSET FileRec, removes: SUBSET FileRec]
LockRec == [owner: Nodes \cup {NoOwner}, ts: Nat]

Replacing == {"replace", "replace_apply"}
Grouped == {"verify", "rewrite"} \cup Replacing
Loaded == {"plan_snapshot", "groups"} \cup Grouped
Labour == {"plan", "plan_files"} \cup Loaded
Locking == {"cas", "cas_apply"}
Releasing == {"release_cas", "release_apply"}
Sweeping == {"list", "delete"}

Stages == {"idle", "release"} \cup Labour \cup Locking \cup Releasing \cup Sweeping

NodeRec == [pc: Stages, expect: LockRec, at: Nat, base: Nat, files: SUBSET FileRec,
            inputs: SUBSET FileRec, output: SUBSET FileRec, protected: SUBSET FileRec,
            started: Nat]

Listed == Manifest(Current)
Superseded == UNION {snaps[j].removes : j \in 1 .. Current}
Standing == Listed \ Superseded

Types ==
  /\ now \in 1 .. MaxTime /\ files \in 0 .. MaxFiles /\ Current <= MaxSnaps
  /\ snaps \in Seq(Snap) /\ store \in SUBSET FileRec /\ upload \in SUBSET FileRec
  /\ lock \in LockRec /\ node \in [Nodes -> NodeRec]
  /\ raced \in BOOLEAN /\ twice \in BOOLEAN /\ slowest \in Nat

\* Uploaded and still to be committed: in the store, or so old by now that its
\* commit will be a late one.
Awaited(f) ==
  f.id <= files /\ f.at <= now /\ (f \in store \/ now - f.at + slowest >= MinAge)

\* The table: what it lists exists, or was committed late, and is numbered, and
\* what it supersedes it listed; a flush's file is new to it; its rows are all in files that stand.
TableInv ==
  /\ FilesExist
  /\ \A f \in Listed : f.id <= files
  /\ \A f \in Listed \cup upload : \A x \in f.rows : x <= files
  /\ \A k \in 1 .. Current : snaps[k].removes \subseteq Manifest(k)
  /\ \A f \in upload : Awaited(f) /\ f \notin Listed
  /\ \A f, g \in upload : f = g
  /\ \A u \in upload, f \in Listed : u.rows \cap f.rows = {}
  /\ \A f \in Listed : \A x \in f.rows : \E g \in Standing : x \in g.rows

\* A file that a sweep does not protect was committed after the sweep began; the
\* clock reading its deletions go by came at most `slowest' later.
SweepInv(r) ==
  /\ r.started <= now
  /\ \A k \in 1 .. Current : \A f \in snaps[k].adds : f \in r.protected \/ r.started <= snaps[k].ts
  /\ r.pc = "delete" => r.at <= now /\ r.at - r.started <= slowest

\* The file of a rewrite: one, awaited, nobody else's, with the rows of the inputs.
OutputInv(r) ==
  /\ \A o \in r.output : Awaited(o) /\ o \notin upload
  /\ \A o, p \in r.output : o = p
  /\ \A i \in r.inputs : \A x \in i.rows : \E o \in r.output : x \in o.rows
  /\ \A o \in r.output : \A x \in o.rows : \E i \in r.inputs : x \in i.rows

NodeInv(r) ==
  /\ r.base <= Current
  /\ r.pc \in Sweeping => SweepInv(r)
  /\ r.pc \in Loaded => r.files \subseteq Listed
  /\ r.pc \in Grouped => r.inputs \subseteq Listed /\ r.inputs \cap r.files = {}
  /\ r.pc \in Replacing => OutputInv(r)
  /\ r.pc = "replace" => r.output \cap Listed = {} \/ r.base < Current
  /\ r.pc = "replace_apply" => r.output \cap Listed = {}

Apart ==
  \A m, n \in Nodes : m # n /\ node[m].pc \in Replacing /\ node[n].pc \in Replacing =>
    node[m].output \cap node[n].output = {}

NodesInv == Apart /\ \A n \in Nodes : NodeInv(node[n])

\* With one node at a time at work, its plan is about files that stand.
OnceOf(r) ==
  /\ r.pc \in Loaded => r.files \subseteq Standing
  /\ r.pc \in {"verify", "rewrite", "replace_apply"} => r.inputs \subseteq Standing
  /\ r.pc = "replace" /\ r.base = Current => r.inputs \subseteq Standing

OnceInv ==
  ~twice => /\ \A m, n \in Nodes : node[m].pc \in Labour /\ node[n].pc \in Labour => m = n
            /\ \A f, g \in Standing : f = g \/ f.rows \cap g.rows = {}
            /\ \A n \in Nodes : OnceOf(node[n])

\* The lock is that of the node at work, unless its time is over.
LockOf(n, r) ==
  /\ r.pc \in Locking => /\ 1 <= r.at /\ r.at <= now
                         /\ r.expect.owner \in {n, NoOwner} \/ IsExpired(r.expect.ts, r.at)
  /\ r.pc \in Releasing => r.expect.owner = n
  /\ r.pc \in Labour => /\ 1 <= r.at /\ r.at <= now
                        /\ raced \/ lock = [owner |-> n, ts |-> r.at] \/ now - r.at > LockTtl

LockInv ==
  /\ lock.owner = NoOwner <=> lock.ts = 0
  /\ \A n \in Nodes : LockOf(n, node[n])

Inductive == Types /\ TableInv /\ NodesInv /\ OnceInv /\ LockInv

-----------------------------------------------------------------------------
(* What a step of one node, and a commit, change. *)

LEMMA Naturals ==
  /\ LockTtl \in Nat /\ MinAge \in Nat /\ MaxAge \in Nat
  /\ KeepLast \in Nat /\ KeepLast # 0 /\ MaxTime \in Nat /\ MaxTime # 0
  /\ InitialFiles \in Nat /\ MaxFiles \in Nat /\ MaxSnaps \in Nat
  /\ InitialFiles <= MaxFiles /\ InitialFiles <= MaxSnaps
  BY MaintenanceConstants

LEMMA Numbers ==
  ASSUME Types
  PROVE  now \in Nat /\ now >= 1 /\ files \in Nat /\ Current \in Nat /\ slowest \in Nat
  BY Naturals DEF Types, Current

LEMMA OneNode ==
  ASSUME Types, NEW n \in Nodes, NEW r \in NodeRec, node' = [node EXCEPT ![n] = r]
  PROVE  /\ node' \in [Nodes -> NodeRec] /\ node'[n] = r
         /\ \A m \in Nodes : m # n => node'[m] = node[m]
  BY Zenon DEF Types

LEMMA SameSnaps ==
  ASSUME UNCHANGED snaps
  PROVE  /\ Listed' = Listed /\ Superseded' = Superseded /\ Standing' = Standing
         /\ Current' = Current /\ \A k \in Nat : Manifest(k)' = Manifest(k)
<1>1. Current' = Current
  BY Zenon DEF Current
<1>2. \A k \in Nat : Manifest(k)' = Manifest(k)
  BY Zenon DEF Manifest
<1>3. Listed' = Listed
  BY Zenon, <1>1 DEF Listed, Manifest
<1>4. Superseded' = Superseded
  BY Zenon, <1>1 DEF Superseded
<1> QED BY Zenon, <1>1, <1>2, <1>3, <1>4 DEF Standing

\* fast_append: every manifest so far stays, and one more is listed.
LEMMA CommitLists ==
  ASSUME Types, NEW adds \in SUBSET FileRec, NEW removes \in SUBSET FileRec, Commit(adds, removes)
  PROVE  /\ snaps' \in Seq(Snap) /\ Current' = Current + 1 /\ Current' <= MaxSnaps
         /\ Listed' = Listed \cup adds /\ Superseded' = Superseded \cup removes
         /\ \A k \in 1 .. Current : Manifest(k)' = Manifest(k) /\ snaps'[k] = snaps[k]
         /\ \A k : k = Current' => /\ snaps'[k].removes = removes /\ Manifest(k)' = Listed'
                                  /\ snaps'[k].ts = now /\ snaps'[k].adds = adds
<1> DEFINE s == [ts |-> now, adds |-> adds, removes |-> removes]
<1>1. /\ s \in Snap /\ snaps \in Seq(Snap) /\ snaps' = Append(snaps, s) /\ Current < MaxSnaps
      /\ s.adds = adds /\ s.removes = removes /\ s.ts = now
  BY Numbers DEF Commit, Types, Snap
<1> HIDE DEF s
<1>2. /\ snaps' \in Seq(Snap) /\ Current \in Nat /\ Current' = Current + 1
      /\ \A k \in 1 .. Current : snaps'[k] = snaps[k]
      /\ snaps'[Current + 1] = s
  BY <1>1 DEF Current
<1>3. \A j : j \in 1 .. Current + 1 <=> j \in 1 .. Current \/ j = Current + 1
  BY <1>2
<1>4. Current' <= MaxSnaps
  BY <1>1, <1>2, Naturals
<1>5. Listed' = Listed \cup adds
  <2>1. \A f : f \in Listed' <=> \E j \in 1 .. Current + 1 : f \in snaps'[j].adds
    BY Zenon, <1>2 DEF Listed, Manifest
  <2>2. \A f : f \in Listed <=> \E j \in 1 .. Current : f \in snaps[j].adds
    BY Zenon DEF Listed, Manifest
  <2> QED BY Zenon, <2>1, <2>2, <1>1, <1>2, <1>3
<1>6. Superseded' = Superseded \cup removes
  <2>1. \A f : f \in Superseded' <=> \E j \in 1 .. Current + 1 : f \in snaps'[j].removes
    BY Zenon, <1>2 DEF Superseded
  <2>2. \A f : f \in Superseded <=> \E j \in 1 .. Current : f \in snaps[j].removes
    BY Zenon DEF Superseded
  <2> QED BY Zenon, <2>1, <2>2, <1>1, <1>2, <1>3
<1>7. ASSUME NEW k \in 1 .. Current PROVE Manifest(k)' = Manifest(k)
  <2>1. \A j \in 1 .. k : j \in 1 .. Current
    BY <1>2
  <2>2. \A j \in 1 .. k : snaps'[j] = snaps[j]
    BY Zenon, <2>1, <1>2
  <2> QED BY Zenon, <2>2 DEF Manifest
<1>8. ASSUME NEW k, k = Current'
      PROVE  /\ snaps'[k].removes = removes /\ Manifest(k)' = Listed'
             /\ snaps'[k].ts = now /\ snaps'[k].adds = adds
  BY Zenon, <1>8, <1>1, <1>2 DEF Listed, Manifest
<1> QED BY Zenon, <1>1, <1>2, <1>4, <1>5, <1>6, <1>7, <1>8

-----------------------------------------------------------------------------
(* A step of one node that leaves the table, the store and the lock alone. *)

LEMMA FileFields ==
  ASSUME NEW f \in FileRec
  PROVE  f.id \in Nat /\ f.at \in Nat /\ f.rows \subseteq Nat
  BY DEF FileRec

LEMMA SnapFields ==
  ASSUME Types, NEW k \in 1 .. Current
  PROVE  /\ snaps[k].ts \in Nat
         /\ \A f \in snaps[k].adds : f \in FileRec /\ f.at \in Nat
<1>1. snaps[k] \in Snap
  BY DEF Types, Current
<1>2. snaps[k].ts \in Nat /\ snaps[k].adds \subseteq FileRec
  BY <1>1 DEF Snap
<1> QED BY Zenon, <1>2, FileFields

\* An awaited file stays so whatever time passes and however long sweeps take.
LEMMA AwaitedKept ==
  ASSUME Types, NEW f \in FileRec, Awaited(f), now' \in Nat, now <= now', slowest' \in Nat,
         slowest <= slowest', files' \in Nat, files <= files',
         f \in store' \/ f \notin store \/ now - f.at >= MinAge
  PROVE  Awaited(f)'
<1>1. /\ f.id \in Nat /\ f.at \in Nat /\ MinAge \in Nat /\ now \in Nat /\ files \in Nat
      /\ slowest \in Nat
  BY Zenon, FileFields, Naturals, Numbers
<1>2. f.id <= files /\ f.at <= now /\ (f \in store \/ now - f.at + slowest >= MinAge)
  BY Zenon DEF Awaited
<1>3. f.id <= files' /\ f.at <= now'
  BY <1>1, <1>2
<1>4. ~(f \in store') => now' - f.at + slowest' >= MinAge
  BY <1>1, <1>2
<1> QED BY Zenon, <1>3, <1>4 DEF Awaited

\* ... and a listed one is there, or was committed late.
LEMMA ListedKept ==
  ASSUME Types, FilesExist, UNCHANGED snaps, slowest' \in Nat, slowest <= slowest',
         \A k \in 1 .. Current : \A f \in snaps[k].adds :
           f \in store' \/ f \notin store \/ CommittedLate(f, k)
  PROVE  FilesExist'
<1>1. Current' = Current
  BY Zenon, SameSnaps
<1> SUFFICES ASSUME NEW k \in 1 .. Current, NEW f \in snaps[k].adds, f \notin store'
             PROVE  CommittedLate(f, k)'
  BY Zenon, <1>1 DEF FilesExist, CommittedLate
<1>2. snaps[k].ts \in Nat /\ f.at \in Nat /\ MinAge \in Nat /\ slowest \in Nat
  BY Zenon, SnapFields, Naturals, Numbers
<1>3. CommittedLate(f, k)
  BY Zenon DEF FilesExist
<1>4. snaps[k].ts - f.at + slowest' >= MinAge
  BY <1>2, <1>3 DEF CommittedLate
<1> QED BY Zenon, <1>4 DEF CommittedLate

LEMMA QuietTable ==
  ASSUME Types, TableInv, UNCHANGED <<now, snaps, store, upload, files>>,
         slowest' \in Nat, slowest <= slowest'
  PROVE  TableInv' /\ \A r \in NodeRec : NodeInv(r) => NodeInv(r)'
<1>1. /\ Listed' = Listed /\ Superseded' = Superseded /\ Standing' = Standing
      /\ Current' = Current /\ \A k \in Nat : Manifest(k)' = Manifest(k)
  BY Zenon, SameSnaps
<1>2. \A k \in 1 .. Current : k \in Nat
  BY Numbers
<1>3. \A f \in FileRec : Awaited(f) => Awaited(f)'
  <2>1. now' \in Nat /\ now <= now' /\ files' \in Nat /\ files <= files'
    BY Numbers
  <2> QED BY Zenon, <2>1, AwaitedKept
<1>4. TableInv'
  <2>1. FilesExist'
    BY Zenon, ListedKept DEF TableInv
  <2>2. \A f \in upload : f \in FileRec
    BY Zenon DEF Types
  <2> QED BY Zenon, <1>1, <1>2, <1>3, <2>1, <2>2 DEF TableInv
<1>5. ASSUME NEW r \in NodeRec, NodeInv(r) PROVE NodeInv(r)'
  <2>1. r.at \in Nat /\ r.started \in Nat /\ slowest \in Nat /\ r.output \subseteq FileRec
    BY Numbers DEF NodeRec
  <2>2. r.at - r.started <= slowest => r.at - r.started <= slowest'
    BY <2>1
  <2>3. SweepInv(r) => SweepInv(r)'
    BY Zenon, <1>1, <2>2 DEF SweepInv
  <2>4. OutputInv(r) => OutputInv(r)'
    BY Zenon, <1>3, <2>1 DEF OutputInv
  <2> QED BY Zenon, <1>1, <1>5, <2>3, <2>4 DEF NodeInv
<1> QED BY Zenon, <1>4, <1>5

LEMMA QuietNodes ==
  ASSUME Types, TableInv, NodesInv, NEW n \in Nodes, NEW r \in NodeRec,
         node' = [node EXCEPT ![n] = r], UNCHANGED <<now, snaps, store, upload, files>>,
         slowest' \in Nat, slowest <= slowest', NodeInv(r)',
         r.pc \in Replacing => node[n].pc \in Replacing /\ r.output = node[n].output
  PROVE  TableInv' /\ NodesInv'
<1>1. /\ node'[n] = r
      /\ \A m \in Nodes : m # n => node'[m] = node[m]
  BY Zenon, OneNode
<1>2. TableInv' /\ \A q \in NodeRec : NodeInv(q) => NodeInv(q)'
  BY Zenon, QuietTable
<1>3. \A m \in Nodes : node[m] \in NodeRec /\ NodeInv(node[m])
  BY Zenon DEF NodesInv, Types
<1>4. \A m \in Nodes : NodeInv(node[m])'
  <2> SUFFICES ASSUME NEW m \in Nodes PROVE NodeInv(node[m])'
    OBVIOUS
  <2>1. CASE m = n
    BY Zenon, <1>1, <2>1 DEF NodeInv
  <2>2. CASE m # n
    <3>1. PICK q \in NodeRec : q = node[m] /\ NodeInv(q)
      BY Zenon, <1>3
    <3> QED BY Zenon, <1>1, <1>2, <2>2, <3>1 DEF NodeInv
  <2> QED BY Zenon, <2>1, <2>2
<1>5. Apart'
  BY ZenonT(30), <1>1 DEF NodesInv, Apart
<1> QED BY Zenon, <1>2, <1>4, <1>5 DEF NodesInv

LEMMA QuietOnce ==
  ASSUME Types, OnceInv, NEW n \in Nodes, NEW r \in NodeRec,
         node' = [node EXCEPT ![n] = r], UNCHANGED <<snaps, twice>>,
         ~twice => OnceOf(r), r.pc \in Labour => node[n].pc \in Labour
  PROVE  OnceInv'
<1> SUFFICES ASSUME ~twice PROVE OnceInv'
  BY Zenon DEF OnceInv
<1>1. /\ node'[n] = r
      /\ \A m \in Nodes : m # n => node'[m] = node[m]
  BY Zenon, OneNode
<1>2. Standing' = Standing /\ Current' = Current
  BY Zenon, SameSnaps
<1>3. \A m \in Nodes : OnceOf(node[m])'
  BY Zenon, <1>1, <1>2 DEF OnceInv, OnceOf
<1>4. \A l, m \in Nodes : node'[l].pc \in Labour /\ node'[m].pc \in Labour => l = m
  BY Zenon, <1>1 DEF OnceInv
<1>5. \A f, g \in Standing' : f = g \/ f.rows \cap g.rows = {}
  BY Zenon, <1>2 DEF OnceInv
<1> QED BY Zenon, <1>3, <1>4, <1>5 DEF OnceInv

LEMMA QuietLock ==
  ASSUME Types, LockInv, NEW n \in Nodes, NEW r \in NodeRec,
         node' = [node EXCEPT ![n] = r], UNCHANGED <<now, lock, raced>>, LockOf(n, r)
  PROVE  LockInv'
<1>1. /\ node'[n] = r
      /\ \A m \in Nodes : m # n => node'[m] = node[m]
  BY Zenon, OneNode
<1>2. \A m \in Nodes : LockOf(m, node[m])'
  BY Zenon, <1>1 DEF LockInv, LockOf
<1> QED BY Zenon, <1>2 DEF LockInv

LEMMA QuietStep ==
  ASSUME Inductive, NEW n \in Nodes, NEW r \in NodeRec, node' = [node EXCEPT ![n] = r],
         UNCHANGED <<now, snaps, store, upload, files, lock, raced, twice, slowest>>,
         NodeInv(r), ~twice => OnceOf(r), LockOf(n, r),
         r.pc \in Replacing => node[n].pc \in Replacing /\ r.output = node[n].output,
         r.pc \in Labour => node[n].pc \in Labour
  PROVE  Inductive'
<1>1. Types /\ TableInv /\ NodesInv /\ OnceInv /\ LockInv
  BY Zenon DEF Inductive
<1>0. slowest' \in Nat /\ slowest <= slowest' /\ slowest' = slowest
  BY <1>1, Numbers
<1>2. TableInv' /\ NodesInv'
  <2>1. NodeInv(r)'
    BY Zenon, <1>0, <1>1, QuietTable
  <2> QED BY Zenon, <1>0, <1>1, <2>1, QuietNodes
<1>3. OnceInv'
  BY Zenon, <1>1, QuietOnce
<1>4. LockInv'
  BY Zenon, <1>1, QuietLock
<1>5. Types'
  <2>1. node' \in [Nodes -> NodeRec]
    BY Zenon, <1>1, OneNode
  <2> QED BY Zenon, <1>1, <2>1 DEF Types, Current
<1> QED BY Zenon, <1>2, <1>3, <1>4, <1>5 DEF Inductive

\* A node with no plan and no sweep in hand.
LEMMA Resting ==
  ASSUME NEW n \in Nodes, NEW r \in NodeRec, r.base <= Current,
         r.pc \in {"idle", "release", "plan", "plan_files"} \cup Locking \cup Releasing
  PROVE  /\ NodeInv(r) /\ OnceOf(r) /\ r.pc \notin Replacing
         /\ r.pc \in {"idle", "release"} => LockOf(n, r) /\ r.pc \notin Labour
<1>1. /\ r.pc \notin Sweeping /\ r.pc \notin Loaded /\ r.pc \notin Grouped /\ r.pc \notin Replacing
      /\ r.pc # "replace" /\ r.pc # "replace_apply"
      /\ r.pc \notin {"verify", "rewrite", "replace_apply"}
  BY DEF Sweeping, Loaded, Grouped, Replacing, Labour, Locking, Releasing
<1>2. r.pc \in {"idle", "release"} => r.pc \notin Labour /\ r.pc \notin Locking /\ r.pc \notin Releasing
  BY DEF Sweeping, Loaded, Grouped, Replacing, Labour, Locking, Releasing
<1> QED BY Zenon, <1>1, <1>2 DEF NodeInv, OnceOf, LockOf

LEMMA IdleRecord ==
  ASSUME Types, NEW r, r = Idle \/ r = [Idle EXCEPT !.pc = "release"]
  PROVE  /\ r \in NodeRec /\ r.pc \in {"idle", "release"} /\ r.base <= Current
<1>1. [owner |-> NoOwner, ts |-> 0] \in LockRec
  BY DEF LockRec
<1>2. "idle" \in Stages /\ "release" \in Stages
  BY DEF Stages
<1>3. r \in NodeRec /\ r.pc \in {"idle", "release"} /\ r.base = 0
  BY <1>1, <1>2 DEF Idle, NodeRec
<1> QED BY <1>3, Numbers

\* The loop's pass ends, or a crash ends it.
LEMMA RestStep ==
  ASSUME Inductive, NEW n \in Nodes,
         Set(n, Idle) \/ Set(n, [Idle EXCEPT !.pc = "release"]),
         UNCHANGED <<now, snaps, store, upload, files, lock, raced, twice, slowest>>
  PROVE  Inductive'
<1>1. PICK r : /\ r = Idle \/ r = [Idle EXCEPT !.pc = "release"]
               /\ node' = [node EXCEPT ![n] = r]
  BY Zenon DEF Set
<1>2. r \in NodeRec /\ r.pc \in {"idle", "release"} /\ r.base <= Current
  BY Zenon, <1>1, IdleRecord DEF Inductive
<1>3. NodeInv(r) /\ OnceOf(r) /\ LockOf(n, r) /\ r.pc \notin Replacing /\ r.pc \notin Labour
  BY Zenon, <1>2, Resting
<1> QED BY Zenon, <1>1, <1>2, <1>3, QuietStep

LEMMA Fields ==
  ASSUME Types, NEW n \in Nodes
  PROVE  /\ node[n] \in NodeRec /\ node[n].pc \in Stages /\ node[n].expect \in LockRec
         /\ node[n].at \in Nat /\ node[n].base \in Nat /\ node[n].started \in Nat
         /\ node[n].files \subseteq FileRec /\ node[n].inputs \subseteq FileRec
         /\ node[n].output \subseteq FileRec /\ node[n].protected \subseteq FileRec
<1>1. node[n] \in NodeRec
  BY Zenon DEF Types
<1> QED BY <1>1 DEF NodeRec

LEMMA GotoRecord ==
  ASSUME Types, NEW n \in Nodes, NEW pc \in Stages, NEW r, r = [node[n] EXCEPT !.pc = pc]
  PROVE  /\ r \in NodeRec /\ r.pc = pc /\ r.expect = node[n].expect /\ r.at = node[n].at
         /\ r.base = node[n].base /\ r.files = node[n].files /\ r.inputs = node[n].inputs
         /\ r.output = node[n].output /\ r.protected = node[n].protected
         /\ r.started = node[n].started
<1>1. node[n] \in NodeRec
  BY Zenon, Fields
<1> QED BY <1>1 DEF NodeRec

LEMMA EndsRecord ==
  ASSUME Types, NEW n \in Nodes,
         NEW r, r = [node[n] EXCEPT !.pc = "groups", !.inputs = {}, !.output = {}]
  PROVE  /\ r \in NodeRec /\ r.pc = "groups" /\ r.at = node[n].at
         /\ r.base = node[n].base /\ r.files = node[n].files
<1>1. node[n] \in NodeRec
  BY Zenon, Fields
<1>2. "groups" \in Stages
  BY DEF Stages, Labour, Loaded
<1> QED BY Zenon, <1>1, <1>2 DEF NodeRec

LEMMA Parts ==
  ASSUME Inductive
  PROVE  /\ Types /\ TableInv /\ NodesInv /\ OnceInv /\ LockInv
         /\ \A n \in Nodes : /\ NodeInv(node[n]) /\ LockOf(n, node[n])
                             /\ ~twice => OnceOf(node[n])
  BY Zenon DEF Inductive, NodesInv, LockInv, OnceInv

\* The stages of a plan, and which of their promises hold in which.
LEMMA PlanStages ==
  /\ Replacing \subseteq Grouped /\ Grouped \subseteq Loaded /\ Loaded \subseteq Labour
  /\ {"verify", "rewrite", "replace_apply", "replace"} \subseteq Grouped
  /\ "groups" \in Loaded /\ "plan_snapshot" \in Loaded
  /\ "groups" \notin Grouped /\ "plan_snapshot" \notin Grouped
  /\ "plan" \in Labour /\ "plan_files" \in Labour /\ "plan" \notin Loaded /\ "plan_files" \notin Loaded
  /\ {"verify", "rewrite"} \cap Replacing = {}
  /\ Labour \cap (Locking \cup Releasing \cup Sweeping \cup {"idle", "release"}) = {}
  /\ Locking \cap (Releasing \cup Sweeping) = {} /\ Releasing \cap Sweeping = {}
  /\ Labour \subseteq Stages /\ Locking \subseteq Stages /\ Releasing \subseteq Stages
  /\ Sweeping \subseteq Stages
  /\ \A n \in Nodes : Working(n) <=> node[n].pc \in Labour
  BY DEF Replacing, Grouped, Loaded, Labour, Locking, Releasing, Sweeping, Stages, Working

\* A plan given up, or committed on the table as it is.
LEMMA PlanEndsStep ==
  ASSUME Inductive, NEW n \in Nodes, node[n].pc \in Grouped, PlanEnds(n),
         UNCHANGED <<now, snaps, store, upload, files, lock, raced, twice, slowest>>
  PROVE  Inductive'
<1> DEFINE r == [node[n] EXCEPT !.pc = "groups", !.inputs = {}, !.output = {}]
<1>1. node' = [node EXCEPT ![n] = r]
  BY Zenon DEF PlanEnds, Set
<1>2. /\ r \in NodeRec /\ r.pc = "groups" /\ r.at = node[n].at
      /\ r.base = node[n].base /\ r.files = node[n].files
  BY Zenon, Parts, EndsRecord
<1> HIDE DEF r
<1>3. NodeInv(r)
  BY Zenon, <1>2, Parts, PlanStages DEF NodeInv, Sweeping, Replacing
<1>4. ~twice => OnceOf(r)
  BY Zenon, <1>2, Parts, PlanStages DEF OnceOf
<1>5. LockOf(n, r)
  BY Zenon, <1>2, Parts, PlanStages DEF LockOf, Locking, Releasing
<1>6. node[n].pc \in Labour /\ r.pc \notin Replacing
  BY Zenon, <1>2, PlanStages DEF Replacing
<1> QED BY Zenon, <1>1, <1>2, <1>3, <1>4, <1>5, <1>6, QuietStep

-----------------------------------------------------------------------------
(* The quiet steps. *)

LEMMA KeepStep ==
  ASSUME Inductive, UNCHANGED <<now, snaps, store, upload, files, lock, node, raced, twice, slowest>>
  PROVE  Inductive'
<1>0. slowest' \in Nat /\ slowest <= slowest'
  BY Parts, Numbers
<1>1. TableInv' /\ \A r \in NodeRec : NodeInv(r) => NodeInv(r)'
  BY Zenon, <1>0, Parts, QuietTable
<1>2. NodesInv'
  <2>1. ASSUME NEW n \in Nodes PROVE NodeInv(node[n])'
    <3>1. PICK r \in NodeRec : r = node[n] /\ r = node'[n] /\ NodeInv(r)
      BY Zenon, Parts DEF Types
    <3> QED BY Zenon, <1>1, <3>1 DEF NodeInv
  <2> QED BY Zenon, <2>1, Parts DEF NodesInv, Apart
<1>3. Standing' = Standing /\ Current' = Current
  BY Zenon, SameSnaps
<1>4. OnceInv'
  BY Zenon, <1>3, Parts DEF OnceInv, OnceOf
<1>5. LockInv'
  BY Zenon, Parts DEF LockInv, LockOf
<1>6. Types'
  BY Zenon, Parts DEF Types, Current
<1> QED BY Zenon, <1>1, <1>2, <1>4, <1>5, <1>6 DEF Inductive

LEMMA AcquireLoadStep ==
  ASSUME Inductive, NEW n \in Nodes, AcquireLoad(n)
  PROVE  Inductive'
<1>1. CASE UNCHANGED node
  BY Zenon, <1>1, KeepStep DEF AcquireLoad
<1> DEFINE r == [Idle EXCEPT !.pc = "cas", !.expect = lock, !.at = now]
<1>2. CASE /\ ~(lock.owner \notin {n, NoOwner} /\ ~IsExpired(lock.ts, now))
           /\ node' = [node EXCEPT ![n] = r]
  <2>1. lock \in LockRec /\ now \in Nat /\ 1 <= now /\ "cas" \in Stages
    BY Parts, Numbers DEF Types, Stages, Locking
  <2>2. r \in NodeRec /\ r.pc = "cas" /\ r.expect = lock /\ r.at = now /\ r.base = 0
    BY Zenon, <2>1 DEF Idle, NodeRec
  <2> HIDE DEF r
  <2>3. r.base <= Current /\ 1 <= r.at /\ r.at <= now
    BY <2>1, <2>2, Numbers, Parts
  <2>4. NodeInv(r) /\ OnceOf(r) /\ r.pc \notin Replacing
    BY Zenon, <2>2, <2>3, Resting DEF Locking
  <2>5. r.pc \notin Labour /\ r.pc \notin Releasing
    BY <2>2 DEF Labour, Loaded, Grouped, Replacing, Releasing
  <2>6. LockOf(n, r)
    BY Zenon, <1>2, <2>2, <2>3, <2>5 DEF LockOf
  <2> QED BY Zenon, <1>2, <2>2, <2>4, <2>5, <2>6, QuietStep DEF AcquireLoad
<1> QED BY Zenon, <1>1, <1>2 DEF AcquireLoad, Set

LEMMA CheckStep ==
  ASSUME Inductive, NEW n \in Nodes, AcquireCheck(n) \/ ReleaseCheck(n)
  PROVE  Inductive'
<1>1. CASE Set(n, Idle)
  BY Zenon, <1>1, RestStep DEF AcquireCheck, ReleaseCheck
<1>2. ASSUME NEW pc, \/ pc = "cas_apply" /\ node[n].pc = "cas"
                     \/ pc = "release_apply" /\ node[n].pc = "release_cas",
             Goto(n, pc)
      PROVE  Inductive'
  <2> DEFINE r == [node[n] EXCEPT !.pc = pc]
  <2>1. node' = [node EXCEPT ![n] = r]
    BY Zenon, <1>2 DEF Goto, Set
  <2>2. /\ pc \in Stages /\ pc \notin Labour /\ pc \in Locking \cup Releasing
        /\ pc \in Locking <=> node[n].pc \in Locking
        /\ pc \in Releasing <=> node[n].pc \in Releasing
    BY <1>2 DEF Stages, Locking, Releasing, Labour, Loaded, Grouped, Replacing
  <2>3. /\ r \in NodeRec /\ r.pc = pc /\ r.expect = node[n].expect /\ r.at = node[n].at
        /\ r.base = node[n].base
    BY <2>2, Parts, GotoRecord
  <2> HIDE DEF r
  <2>4. r.base <= Current
    BY Zenon, <2>3, Parts DEF NodeInv
  <2>5. NodeInv(r) /\ OnceOf(r) /\ r.pc \notin Replacing
    BY Zenon, <2>2, <2>3, <2>4, Resting
  <2>6. LockOf(n, r)
    BY Zenon, <2>2, <2>3, Parts DEF LockOf
  <2> QED BY Zenon, <2>1, <2>2, <2>3, <2>5, <2>6, QuietStep DEF AcquireCheck, ReleaseCheck
<1> QED BY Zenon, <1>1, <1>2 DEF AcquireCheck, ReleaseCheck

LEMMA ReleaseLoadStep ==
  ASSUME Inductive, NEW n \in Nodes, ReleaseLoad(n)
  PROVE  Inductive'
<1>1. CASE Set(n, Idle)
  BY Zenon, <1>1, RestStep DEF ReleaseLoad
<1> DEFINE r == [Idle EXCEPT !.pc = "release_cas", !.expect = lock]
<1>2. CASE lock.owner = n /\ node' = [node EXCEPT ![n] = r]
  <2>1. lock \in LockRec /\ "release_cas" \in Stages
    BY Zenon, Parts DEF Types, Stages, Releasing
  <2>2. r \in NodeRec /\ r.pc = "release_cas" /\ r.expect = lock /\ r.base = 0
    BY Zenon, <2>1 DEF Idle, NodeRec
  <2> HIDE DEF r
  <2>3. r.base <= Current
    BY <2>2, Numbers, Parts
  <2>4. NodeInv(r) /\ OnceOf(r) /\ r.pc \notin Replacing
    BY Zenon, <2>2, <2>3, Resting DEF Releasing
  <2>5. r.pc \notin Labour /\ r.pc \notin Locking
    BY <2>2 DEF Labour, Loaded, Grouped, Replacing, Locking
  <2>6. LockOf(n, r)
    BY Zenon, <1>2, <2>2, <2>5 DEF LockOf
  <2> QED BY Zenon, <1>2, <2>2, <2>4, <2>5, <2>6, QuietStep DEF ReleaseLoad
<1> QED BY Zenon, <1>1, <1>2 DEF ReleaseLoad, Set

LEMMA PlanSnapshotStep ==
  ASSUME Inductive, NEW n \in Nodes, PlanSnapshot(n)
  PROVE  Inductive'
<1>1. CASE Set(n, [Idle EXCEPT !.pc = "release"])
  BY Zenon, <1>1, RestStep DEF PlanSnapshot
<1> DEFINE pc == IF node[n].pc = "plan" THEN "plan_files" ELSE "groups"
           r == [node[n] EXCEPT !.base = Current, !.pc = pc]
<1>2. CASE node' = [node EXCEPT ![n] = r]
  <2>1. node[n].pc \in {"plan", "plan_snapshot"}
    BY Zenon DEF PlanSnapshot
  <2>2. /\ pc \in Stages /\ pc \in Labour /\ pc \notin Grouped /\ pc \notin Replacing
        /\ pc \notin Sweeping /\ pc \notin Locking /\ pc \notin Releasing
        /\ node[n].pc \in Labour /\ (pc \in Loaded => node[n].pc \in Loaded)
    BY <2>1 DEF Stages, Labour, Loaded, Grouped, Replacing, Sweeping, Locking, Releasing
  <2> HIDE DEF pc
  <2>3. node[n] \in NodeRec /\ Current \in Nat
    BY Zenon, Parts, Fields, Numbers
  <2>4. /\ r \in NodeRec /\ r.pc = pc /\ r.at = node[n].at /\ r.base = Current
        /\ r.files = node[n].files
    BY Zenon, <2>2, <2>3 DEF NodeRec
  <2> HIDE DEF r
  <2>5. r.base <= Current
    BY <2>3, <2>4
  <2>6. NodeInv(r)
    BY Zenon, <2>2, <2>4, <2>5, Parts, PlanStages DEF NodeInv
  <2>7. ~twice => OnceOf(r)
    BY Zenon, <2>2, <2>4, Parts, PlanStages DEF OnceOf
  <2>8. LockOf(n, r)
    BY Zenon, <2>2, <2>4, Parts DEF LockOf
  <2> QED BY Zenon, <1>2, <2>2, <2>4, <2>6, <2>7, <2>8, QuietStep DEF PlanSnapshot
<1> QED BY Zenon, <1>1, <1>2 DEF PlanSnapshot, Set

LEMMA ListedFiles ==
  ASSUME Types
  PROVE  /\ \A k \in 0 .. Current : Manifest(k) \subseteq FileRec
         /\ Listed \subseteq FileRec /\ Standing \subseteq Listed
<1>1. \A j \in 1 .. Current : snaps[j].adds \subseteq FileRec
  <2>1. \A j \in 1 .. Current : snaps[j] \in Snap
    BY DEF Types, Current
  <2> QED BY <2>1 DEF Snap
<1>2. \A k \in 0 .. Current : \A j \in 1 .. k : j \in 1 .. Current
  BY Numbers
<1>3. Current \in 0 .. Current
  BY Numbers
<1>4. \A k \in 0 .. Current : Manifest(k) \subseteq FileRec
  BY Zenon, <1>1, <1>2 DEF Manifest
<1> QED BY Zenon, <1>3, <1>4 DEF Listed, Standing

LEMMA PlanFilesStep ==
  ASSUME Inductive, NEW n \in Nodes, PlanFiles(n)
  PROVE  Inductive'
<1> DEFINE pc == IF node[n].pc = "plan" THEN "plan_snapshot" ELSE "groups"
           r == [node[n] EXCEPT !.files = Standing, !.pc = pc]
<1>1. node[n].pc \in {"plan", "plan_files"} /\ node' = [node EXCEPT ![n] = r]
  BY Zenon DEF PlanFiles, Set, Live, Standing, Listed, Superseded
<1>2. /\ pc \in Stages /\ pc \in Labour /\ pc \notin Grouped /\ pc \notin Replacing
      /\ pc \notin Sweeping /\ pc \notin Locking /\ pc \notin Releasing
      /\ node[n].pc \in Labour
  BY <1>1 DEF Stages, Labour, Loaded, Grouped, Replacing, Sweeping, Locking, Releasing
<1> HIDE DEF pc
<1>3. node[n] \in NodeRec /\ Standing \in SUBSET FileRec /\ Standing \subseteq Listed
  BY Zenon, Parts, Fields, ListedFiles
<1>4. /\ r \in NodeRec /\ r.pc = pc /\ r.at = node[n].at /\ r.base = node[n].base
      /\ r.files = Standing
  BY Zenon, <1>2, <1>3 DEF NodeRec
<1> HIDE DEF r
<1>6. NodeInv(r)
  BY Zenon, <1>2, <1>3, <1>4, Parts, PlanStages DEF NodeInv
<1>7. OnceOf(r)
  BY Zenon, <1>2, <1>4, PlanStages DEF OnceOf
<1>8. LockOf(n, r)
  BY Zenon, <1>2, <1>4, Parts DEF LockOf
<1> QED BY Zenon, <1>1, <1>2, <1>4, <1>6, <1>7, <1>8, QuietStep DEF PlanFiles

LEMMA NextGroupStep ==
  ASSUME Inductive, NEW n \in Nodes, NextGroup(n)
  PROVE  Inductive'
<1>1. CASE Set(n, [Idle EXCEPT !.pc = "release"])
  BY Zenon, <1>1, RestStep DEF NextGroup
<1>2. ASSUME NEW inputs \in SUBSET node[n].files,
             Set(n, [node[n] EXCEPT !.pc = "verify", !.inputs = inputs, !.files = @ \ inputs])
      PROVE  Inductive'
  <2> DEFINE left == node[n].files \ inputs
             r == [node[n] EXCEPT !.pc = "verify", !.inputs = inputs, !.files = left]
  <2>1. node[n].pc = "groups" /\ node' = [node EXCEPT ![n] = r]
    BY Zenon, <1>2 DEF NextGroup, Set
  <2>2. /\ "verify" \in Stages /\ "verify" \notin Replacing /\ "verify" \in Labour
        /\ "verify" \notin Sweeping /\ "verify" \notin Locking /\ "verify" \notin Releasing
        /\ "groups" \in Loaded /\ "groups" \in Labour
    BY DEF Stages, Labour, Loaded, Grouped, Replacing, Sweeping, Locking, Releasing
  <2>3. /\ node[n] \in NodeRec /\ inputs \in SUBSET FileRec /\ left \in SUBSET FileRec
        /\ left \subseteq node[n].files /\ left \cap inputs = {}
    BY Zenon, <1>2, Parts, Fields
  <2> HIDE DEF left
  <2>4. /\ r \in NodeRec /\ r.pc = "verify" /\ r.at = node[n].at /\ r.base = node[n].base
        /\ r.files = left /\ r.inputs = inputs
    BY Zenon, <2>2, <2>3 DEF NodeRec
  <2> HIDE DEF r
  <2>5. node[n].files \subseteq Listed /\ (~twice => node[n].files \subseteq Standing)
    BY Zenon, <2>1, <2>2, Parts DEF NodeInv, OnceOf
  <2>6. NodeInv(r)
    <3>1. r.base <= Current
      BY Zenon, <2>4, Parts DEF NodeInv
    <3>2. r.files \subseteq Listed /\ r.inputs \subseteq Listed /\ r.inputs \cap r.files = {}
      BY Zenon, <1>2, <2>3, <2>4, <2>5
    <3> QED BY Zenon, <2>2, <2>4, <3>1, <3>2 DEF NodeInv, Replacing
  <2>7. ~twice => OnceOf(r)
    <3>1. ~twice => r.files \subseteq Standing /\ r.inputs \subseteq Standing
      BY Zenon, <1>2, <2>3, <2>4, <2>5
    <3> QED BY Zenon, <3>1 DEF OnceOf
  <2>8. LockOf(n, r)
    BY Zenon, <2>1, <2>2, <2>4, Parts DEF LockOf
  <2> QED BY Zenon, <2>1, <2>2, <2>4, <2>6, <2>7, <2>8, QuietStep DEF NextGroup
<1> QED BY Zenon, <1>1, <1>2 DEF NextGroup

LEMMA VerifyStep ==
  ASSUME Inductive, NEW n \in Nodes, Verify(n)
  PROVE  Inductive'
<1>1. node[n].pc = "verify" /\ node[n].pc \in Grouped
  BY Zenon, PlanStages DEF Verify
<1>2. CASE PlanEnds(n)
  BY Zenon, <1>1, <1>2, PlanEndsStep DEF Verify
<1>3. CASE Goto(n, "rewrite")
  <2> DEFINE r == [node[n] EXCEPT !.pc = "rewrite"]
  <2>1. node' = [node EXCEPT ![n] = r]
    BY Zenon, <1>3 DEF Goto, Set
  <2>2. /\ "rewrite" \in Stages /\ "rewrite" \notin Replacing /\ "rewrite" \notin Sweeping
        /\ "rewrite" \notin Locking /\ "rewrite" \notin Releasing
        /\ "rewrite" \in Labour /\ "verify" \in Labour /\ "verify" \in Grouped /\ "verify" \in Loaded
    BY DEF Stages, Labour, Loaded, Grouped, Replacing, Sweeping, Locking, Releasing
  <2>3. /\ r \in NodeRec /\ r.pc = "rewrite" /\ r.at = node[n].at /\ r.base = node[n].base
        /\ r.files = node[n].files /\ r.inputs = node[n].inputs
    BY <2>2, Parts, GotoRecord
  <2> HIDE DEF r
  <2>4. NodeInv(r)
    BY Zenon, <1>1, <2>2, <2>3, Parts DEF NodeInv, Replacing
  <2>5. ~twice => OnceOf(r)
    BY Zenon, <1>1, <2>2, <2>3, Parts DEF OnceOf
  <2>6. LockOf(n, r)
    BY Zenon, <1>1, <2>2, <2>3, Parts DEF LockOf
  <2> QED BY Zenon, <1>1, <2>1, <2>2, <2>3, <2>4, <2>5, <2>6, QuietStep DEF Verify
<1> QED BY Zenon, <1>2, <1>3 DEF Verify

\* Between the check of the base and the commit, and back.
LEMMA ReplaceStageStep ==
  ASSUME Inductive, NEW n \in Nodes, NEW pc \in Replacing, node[n].pc \in Replacing, Goto(n, pc),
         node[n].output \cap Listed = {}, ~twice => node[n].inputs \subseteq Standing,
         UNCHANGED <<now, snaps, store, upload, files, lock, raced, twice, slowest>>
  PROVE  Inductive'
<1> DEFINE r == [node[n] EXCEPT !.pc = pc]
<1>1. node' = [node EXCEPT ![n] = r]
  BY Zenon DEF Goto, Set
<1>2. /\ pc \in Stages /\ pc \notin Sweeping /\ pc \notin Locking /\ pc \notin Releasing
      /\ \A q \in Replacing : q \in Labour /\ q \in Grouped /\ q \in Loaded
  BY DEF Stages, Labour, Loaded, Grouped, Replacing, Sweeping, Locking, Releasing
<1>3. /\ r \in NodeRec /\ r.pc = pc /\ r.at = node[n].at /\ r.base = node[n].base
      /\ r.files = node[n].files /\ r.inputs = node[n].inputs /\ r.output = node[n].output
  BY <1>2, Parts, GotoRecord
<1> HIDE DEF r
<1>4. OutputInv(r)
  BY <1>3, Parts DEF NodeInv, OutputInv
<1>5. NodeInv(r)
  BY Zenon, <1>2, <1>3, <1>4, Parts DEF NodeInv
<1>6. ~twice => OnceOf(r)
  BY Zenon, <1>2, <1>3, Parts DEF OnceOf
<1>7. LockOf(n, r)
  BY Zenon, <1>2, <1>3, Parts DEF LockOf
<1> QED BY Zenon, <1>1, <1>2, <1>3, <1>5, <1>6, <1>7, QuietStep

LEMMA ReplaceCheckStep ==
  ASSUME Inductive, NEW n \in Nodes, ReplaceCheck(n)
  PROVE  Inductive'
<1>1. node[n].pc = "replace" /\ node[n].pc \in Grouped /\ "replace" \in Replacing
      /\ "replace_apply" \in Replacing
  BY Zenon, PlanStages DEF ReplaceCheck, Replacing
<1>2. CASE PlanEnds(n)
  BY Zenon, <1>1, <1>2, PlanEndsStep DEF ReplaceCheck
<1>3. CASE Current = node[n].base /\ Goto(n, "replace_apply")
  <2>1. ~(node[n].base < Current)
    BY <1>3, Parts, Numbers
  <2>2. node[n].output \cap Listed = {} /\ (~twice => node[n].inputs \subseteq Standing)
    BY Zenon, <1>1, <1>3, <2>1, Parts DEF NodeInv, OnceOf
  <2> QED BY Zenon, <1>1, <1>3, <2>2, ReplaceStageStep DEF ReplaceCheck
<1> QED BY Zenon, <1>2, <1>3 DEF ReplaceCheck

LEMMA ProtectStep ==
  ASSUME Inductive, NEW n \in Nodes, Protect(n)
  PROVE  Inductive'
<1>1. PICK pins \in SUBSET (1 .. Current) :
        Set(n, [Idle EXCEPT !.pc = "list", !.started = now, !.protected = Retained(pins)])
  BY Zenon DEF Protect
<1> DEFINE kept == Retained(pins)
           r == [Idle EXCEPT !.pc = "list", !.started = now, !.protected = kept]
<1>2. Listed \subseteq kept
  <2>1. CASE Current = 0
    <3>1. 1 .. Current = {}
      BY <2>1
    <3> QED BY Zenon, <3>1 DEF Listed, Manifest
  <2>2. CASE Current # 0
    <3>1. Current \in (1 .. Current) \ Expired(pins)
      BY <2>2, Parts, Numbers DEF Expired
    <3> QED BY Zenon, <3>1 DEF Retained, Listed
  <2> QED BY Zenon, <2>1, <2>2
<1>3. kept \in SUBSET FileRec
  <2>1. \A k \in 1 .. Current : k \in 0 .. Current
    BY Parts, Numbers
  <2> QED BY Zenon, <2>1, Parts, ListedFiles DEF Retained
<1> HIDE DEF kept
<1>4. /\ now \in Nat /\ "list" \in Stages /\ [owner |-> NoOwner, ts |-> 0] \in LockRec
      /\ "list" \notin Labour /\ "list" \notin Loaded /\ "list" \notin Grouped
      /\ "list" \notin Replacing /\ "list" \notin Locking /\ "list" \notin Releasing
  BY Parts, Numbers DEF Stages, LockRec, Labour, Loaded, Grouped, Replacing, Sweeping, Locking, Releasing
<1>5. r \in NodeRec /\ r.pc = "list" /\ r.started = now /\ r.protected = kept /\ r.base = 0
  BY Zenon, <1>4, <1>3 DEF Idle, NodeRec
<1>6. node' = [node EXCEPT ![n] = r]
  BY Zenon, <1>1 DEF Set, kept
<1> HIDE DEF r
<1>7. r.base <= Current /\ r.started <= now
  BY <1>4, <1>5, Parts, Numbers, Naturals
<1>8. NodeInv(r)
  <2>1. \A k \in 1 .. Current : snaps[k].adds \subseteq Listed
    BY Zenon DEF Listed, Manifest
  <2>2. SweepInv(r)
    <3>1. r.pc # "delete"
      BY <1>5
    <3> QED BY Zenon, <1>2, <1>5, <1>7, <2>1, <3>1 DEF SweepInv
  <2> QED BY Zenon, <2>2, <1>4, <1>5, <1>7 DEF NodeInv
<1>9. OnceOf(r) /\ LockOf(n, r)
  BY Zenon, <1>4, <1>5 DEF OnceOf, LockOf
<1> QED BY Zenon, <1>4, <1>5, <1>6, <1>8, <1>9, QuietStep DEF Protect

LEMMA ListStep ==
  ASSUME Inductive, NEW n \in Nodes, List(n)
  PROVE  Inductive'
<1>1. CASE Set(n, Idle) /\ UNCHANGED slowest
  BY Zenon, <1>1, RestStep DEF List
<1> DEFINE took == now - node[n].started
<1>0. PICK r : r = [node[n] EXCEPT !.pc = "delete", !.files = store, !.at = now]
  OBVIOUS
<1>2. CASE node' = [node EXCEPT ![n] = r] /\ slowest' = IF took > slowest THEN took ELSE slowest
  <2>1. /\ now \in Nat /\ now <= now /\ store \in SUBSET FileRec /\ "delete" \in Stages
        /\ "delete" \notin Labour /\ "delete" \notin Loaded /\ "delete" \notin Grouped
        /\ "delete" \notin Replacing /\ "delete" \notin Locking /\ "delete" \notin Releasing
    BY Parts, Numbers
       DEF Types, Stages, Labour, Loaded, Grouped, Replacing, Sweeping, Locking, Releasing
  <2>2. /\ node[n] \in NodeRec /\ node[n].pc = "list" /\ node[n].pc \in Sweeping
        /\ node[n].started \in Nat /\ slowest \in Nat
        /\ UNCHANGED <<now, snaps, store, upload, files, lock, raced, twice>>
    BY Zenon, Parts, Fields, Numbers DEF List, Sweeping
  <2>3. NodeInv(node[n]) /\ SweepInv(node[n]) /\ node[n].started <= now
    BY Zenon, <2>2, Parts DEF NodeInv, SweepInv
  <2>4. slowest' \in Nat /\ slowest <= slowest' /\ now - node[n].started <= slowest'
    BY <1>2, <2>1, <2>2, <2>3
  <2> HIDE DEF took
  <2>5. /\ r \in NodeRec /\ r.pc = "delete" /\ r.started = node[n].started /\ r.at = now
        /\ r.protected = node[n].protected /\ r.base = node[n].base
    BY Zenon, <1>0, <2>1, <2>2 DEF NodeRec
  <2>6. Listed' = Listed /\ Current' = Current
    BY Zenon, <2>2, SameSnaps
  <2>7. NodeInv(r)'
    <3>1. SweepInv(r)'
      BY Zenon, <2>1, <2>2, <2>3, <2>4, <2>5, <2>6 DEF SweepInv
    <3> QED BY Zenon, <2>1, <2>3, <2>5, <2>6, <3>1 DEF NodeInv
  <2>8. OnceOf(r) /\ LockOf(n, r)
    BY Zenon, <2>1, <2>5 DEF OnceOf, LockOf
  <2>9. TableInv' /\ NodesInv'
    BY Zenon, <1>2, <2>1, <2>2, <2>4, <2>5, <2>7, Parts, QuietNodes
  <2>10. OnceInv' /\ LockInv'
    BY Zenon, <1>2, <2>1, <2>2, <2>5, <2>8, Parts, QuietOnce, QuietLock
  <2>11. Types'
    <3>1. node' \in [Nodes -> NodeRec]
      BY Zenon, <1>2, <2>5, Parts, OneNode
    <3> QED BY Zenon, <2>2, <2>4, <2>6, <3>1, Parts DEF Types
  <2> QED BY Zenon, <2>9, <2>10, <2>11 DEF Inductive
<1> QED BY Zenon, <1>0, <1>1, <1>2 DEF List, Set

-----------------------------------------------------------------------------
(* The lock changes hands. *)

LEMMA ApplyStep ==
  ASSUME Inductive, NEW n \in Nodes, NEW r \in NodeRec, node' = [node EXCEPT ![n] = r],
         r.pc \in {"idle", "plan"}, r.base <= Current, lock' \in LockRec,
         UNCHANGED <<now, snaps, store, upload, files, slowest>>,
         raced' \in BOOLEAN, twice' \in BOOLEAN,
         twice => twice', raced => raced', lock'.owner = NoOwner <=> lock'.ts = 0,
         r.pc = "plan" => 1 <= r.at /\ r.at <= now /\ lock' = [owner |-> n, ts |-> r.at],
         r.pc = "plan" /\ ~twice' => \A m \in Nodes : m # n => node[m].pc \notin Labour,
         \A m \in Nodes : m # n /\ node[m].pc \in Labour /\ lock = [owner |-> m, ts |-> node[m].at]
           => raced' \/ now - node[m].at > LockTtl
  PROVE  Inductive'
<1>1. /\ node'[n] = r /\ node' \in [Nodes -> NodeRec]
      /\ \A m \in Nodes : m # n => node'[m] = node[m]
  BY Zenon, Parts, OneNode
<1>2. /\ NodeInv(r) /\ OnceOf(r) /\ r.pc \notin Replacing
      /\ r.pc = "idle" => LockOf(n, r) /\ r.pc \notin Labour
  BY Zenon, Resting
<1>3. TableInv' /\ NodesInv'
  <2>1. slowest' \in Nat /\ slowest <= slowest'
    BY Parts, Numbers
  <2>2. NodeInv(r)'
    BY Zenon, <1>2, <2>1, Parts, QuietTable
  <2> QED BY Zenon, <1>2, <2>1, <2>2, Parts, QuietNodes
<1>4. Types'
  BY Zenon, <1>1, Parts DEF Types, Current
<1>5. OnceInv'
  <2> SUFFICES ASSUME ~twice' PROVE OnceInv'
    BY Zenon DEF OnceInv
  <2>1. ~twice
    BY Zenon
  <2>2. Standing' = Standing /\ Current' = Current
    BY Zenon, SameSnaps
  <2>3. \A m \in Nodes : OnceOf(node[m])'
    BY Zenon, <1>1, <1>2, <2>1, <2>2, Parts DEF OnceOf
  <2>4. \A l, m \in Nodes : node'[l].pc \in Labour /\ node'[m].pc \in Labour => l = m
    BY Zenon, <1>1, <1>2, <2>1, Parts DEF OnceInv
  <2>5. \A f, g \in Standing' : f = g \/ f.rows \cap g.rows = {}
    BY Zenon, <2>1, <2>2, Parts DEF OnceInv
  <2> QED BY Zenon, <2>3, <2>4, <2>5 DEF OnceInv
<1>6. LockInv'
  <2>1. ASSUME NEW m \in Nodes, m # n PROVE LockOf(m, node[m])'
    <3>1. LockOf(m, node[m]) /\ node'[m] = node[m]
      BY Zenon, <2>1, <1>1, Parts
    <3> QED BY Zenon, <2>1, <3>1 DEF LockOf
  <2>2. LockOf(n, r)'
    <3>1. CASE r.pc = "idle"
      BY Zenon, <3>1, <1>2, PlanStages DEF LockOf
    <3>2. CASE r.pc = "plan"
      <4>1. r.pc \notin Locking /\ r.pc \notin Releasing
        BY <3>2 DEF Locking, Releasing
      <4> QED BY Zenon, <3>2, <4>1 DEF LockOf
    <3> QED BY Zenon, <3>1, <3>2
  <2> QED BY Zenon, <1>1, <2>1, <2>2 DEF LockInv, LockOf
<1> QED BY Zenon, <1>3, <1>4, <1>5, <1>6 DEF Inductive

\* A lock is taken over only when it was free, ours, or past its time to live
\* at the clock reading the new lock carries.
LEMMA AcquireApplyStep ==
  ASSUME Inductive, NEW n \in Nodes, AcquireApply(n)
  PROVE  Inductive'
<1>1. /\ node[n].pc \in Locking /\ LockOf(n, node[n]) /\ node[n].at \in Nat
      /\ node[n].expect \in LockRec /\ lock \in LockRec /\ now \in Nat /\ LockTtl \in Nat
      /\ raced \in BOOLEAN /\ twice \in BOOLEAN
  BY Zenon, Parts, Fields, Numbers, Naturals DEF AcquireApply, Locking, Types
<1>2. /\ 1 <= node[n].at /\ node[n].at <= now
      /\ node[n].expect.owner \in {n, NoOwner} \/ IsExpired(node[n].expect.ts, node[n].at)
  BY Zenon, <1>1 DEF LockOf
<1>3. /\ lock' = [owner |-> n, ts |-> node[n].at] /\ raced' = (raced \/ lock # node[n].expect)
      /\ UNCHANGED <<now, snaps, store, upload, files, slowest>>
  BY Zenon DEF AcquireApply
<1>4. lock' \in LockRec /\ (lock'.owner = NoOwner <=> lock'.ts = 0)
  BY <1>1, <1>2, <1>3, MaintenanceConstants DEF LockRec
<1>5. raced' \in BOOLEAN /\ (raced => raced')
  BY Zenon, <1>1, <1>3
<1>6. ASSUME NEW m \in Nodes, m # n, node[m].pc \in Labour,
             lock = [owner |-> m, ts |-> node[m].at]
      PROVE  raced' \/ now - node[m].at > LockTtl
  <2>1. CASE lock # node[n].expect
    BY Zenon, <1>3, <2>1
  <2>2. CASE lock = node[n].expect
    <3>1. 1 <= node[m].at /\ node[m].at \in Nat
      BY Zenon, <1>6, Parts, Fields DEF LockOf
    <3>2. node[n].expect.owner = m /\ node[n].expect.ts = node[m].at /\ m # NoOwner
      BY <1>6, <2>2, MaintenanceConstants
    <3>3. IsExpired(node[m].at, node[n].at)
      BY Zenon, <1>2, <1>6, <3>2
    <3> QED BY <1>1, <1>2, <3>1, <3>3 DEF IsExpired
  <2> QED BY Zenon, <2>1, <2>2
<1>7. CASE Enter(n)
  <2> DEFINE r == [Idle EXCEPT !.pc = "plan", !.at = node[n].at]
  <2>1. "plan" \in Stages /\ [owner |-> NoOwner, ts |-> 0] \in LockRec
    BY DEF Stages, Labour, LockRec
  <2>2. r \in NodeRec /\ r.pc = "plan" /\ r.at = node[n].at /\ r.base = 0
    BY Zenon, <1>1, <2>1 DEF Idle, NodeRec
  <2>3. node' = [node EXCEPT ![n] = r]
    BY Zenon, <1>7 DEF Enter, Set
  <2> HIDE DEF r
  <2>4. r.base <= Current
    BY <2>2, Parts, Numbers
  <2>5. /\ twice' \in BOOLEAN /\ (twice => twice')
        /\ ~twice' => \A m \in Nodes : m # n => node[m].pc \notin Labour
    BY Zenon, <1>1, <1>7, PlanStages DEF Enter
  <2>6. r.pc = "plan" => 1 <= r.at /\ r.at <= now /\ lock' = [owner |-> n, ts |-> r.at]
    BY Zenon, <1>2, <1>3, <2>2
  <2> QED BY Zenon, <1>3, <1>4, <1>5, <1>6, <2>2, <2>3, <2>4, <2>5, <2>6, ApplyStep
<1>8. CASE Set(n, Idle) /\ UNCHANGED twice
  <2>1. Idle \in NodeRec /\ Idle.pc = "idle" /\ Idle.base <= Current
    BY Zenon, Parts, IdleRecord DEF Idle
  <2>2. node' = [node EXCEPT ![n] = Idle] /\ twice' \in BOOLEAN /\ (twice => twice') /\ Idle.pc # "plan"
    BY Zenon, <1>1, <1>8, <2>1 DEF Set
  <2> QED BY Zenon, <1>3, <1>4, <1>5, <1>6, <2>1, <2>2, ApplyStep
<1> QED BY Zenon, <1>7, <1>8 DEF AcquireApply

LEMMA ReleaseApplyStep ==
  ASSUME Inductive, NEW n \in Nodes, ReleaseApply(n)
  PROVE  Inductive'
<1>1. /\ LockOf(n, node[n]) /\ node[n].pc \in Releasing /\ raced \in BOOLEAN /\ twice \in BOOLEAN
  BY Zenon, Parts DEF ReleaseApply, Releasing, Types
<1>2. node[n].expect.owner = n
  BY Zenon, <1>1 DEF LockOf
<1>3. lock' = [owner |-> NoOwner, ts |-> 0] /\ raced' = (raced \/ lock # node[n].expect)
  BY Zenon DEF ReleaseApply
<1>4. lock' \in LockRec /\ (lock'.owner = NoOwner <=> lock'.ts = 0)
  BY <1>3 DEF LockRec
<1>5. /\ raced' \in BOOLEAN /\ (raced => raced') /\ twice' \in BOOLEAN /\ (twice => twice')
      /\ node' = [node EXCEPT ![n] = Idle]
  BY Zenon, <1>1, <1>3 DEF ReleaseApply, Set
<1>6. ASSUME NEW m \in Nodes, m # n, lock = [owner |-> m, ts |-> node[m].at]
      PROVE  raced'
  <2>1. lock # node[n].expect
    BY <1>2, <1>6
  <2> QED BY Zenon, <1>3, <2>1
<1>7. Idle \in NodeRec /\ Idle.pc = "idle" /\ Idle.base <= Current /\ Idle.pc # "plan"
  BY Zenon, Parts, IdleRecord DEF Idle
<1>8. UNCHANGED <<now, snaps, store, upload, files, slowest>>
  BY Zenon DEF ReleaseApply
<1> QED BY Zenon, <1>4, <1>5, <1>6, <1>7, <1>8, ApplyStep

-----------------------------------------------------------------------------
(* The table, the store and the clock. *)

\* What a node's record promises survives a commit, an upload and a deletion
\* that spare its output.
LEMMA NodeKept ==
  ASSUME Types, NEW r \in NodeRec, NodeInv(r), now' = now, slowest' = slowest,
         Listed \subseteq Listed', r.base <= Current',
         \A k \in 1 .. Current' : (k \in 1 .. Current /\ snaps'[k] = snaps[k]) \/ snaps'[k].ts = now,
         r.pc \in Replacing => \A o \in r.output : Awaited(o)' /\ o \notin upload',
         r.pc = "replace" => (Listed' = Listed /\ Current' = Current) \/ r.base < Current',
         r.pc = "replace_apply" => r.output \cap Listed' = {}
  PROVE  NodeInv(r)'
<1>2. r.pc \in Sweeping => SweepInv(r)'
  <2> SUFFICES ASSUME r.pc \in Sweeping PROVE SweepInv(r)'
    OBVIOUS
  <2>1. SweepInv(r)
    BY Zenon DEF NodeInv
  <2>2. \A k \in 1 .. Current' : \A f \in snaps'[k].adds : f \in r.protected \/ r.started <= snaps'[k].ts
    BY Zenon, <2>1 DEF SweepInv
  <2> QED BY Zenon, <2>1, <2>2 DEF SweepInv
<1>3. r.pc \in Replacing => OutputInv(r)'
  BY Zenon DEF NodeInv, OutputInv
<1>4. r.pc \in Loaded => r.files \subseteq Listed'
  BY Zenon DEF NodeInv
<1>5. r.pc \in Grouped => r.inputs \subseteq Listed' /\ r.inputs \cap r.files = {}
  BY Zenon DEF NodeInv
<1>6. r.pc = "replace" => r.output \cap Listed' = {} \/ r.base < Current'
  BY Zenon DEF NodeInv
<1> QED BY Zenon, <1>2, <1>3, <1>4, <1>5, <1>6 DEF NodeInv

LEMMA SameOnce ==
  ASSUME OnceInv, UNCHANGED <<snaps, node, twice>>
  PROVE  OnceInv'
<1>1. Standing' = Standing /\ Current' = Current
  BY Zenon, SameSnaps
<1> QED BY Zenon, <1>1 DEF OnceInv, OnceOf

LEMMA SameLock ==
  ASSUME LockInv, UNCHANGED <<now, lock, node, raced>>
  PROVE  LockInv'
  BY Zenon DEF LockInv, LockOf

\* A new object is numbered past every file of the table and of its writers.
LEMMA NewFile ==
  ASSUME Inductive, NEW rows \in SUBSET Nat, NEW f, f = File(files + 1, rows),
         store' = store \cup {f}, files' = files + 1, now' = now, slowest' = slowest
  PROVE  /\ f \in FileRec /\ f.rows = rows /\ f \notin Listed /\ f \notin upload
         /\ \A n \in Nodes : node[n].pc \in Replacing => f \notin node[n].output
         /\ Awaited(f)' /\ \A g \in FileRec : Awaited(g) => Awaited(g)'
         /\ \A x \in Nat : x <= files => x <= files'
         /\ files' \in Nat
<1>1. now \in Nat /\ files \in Nat /\ slowest \in Nat
  BY Zenon, Parts, Numbers
<1>2. f \in FileRec /\ f.id = files + 1 /\ f.rows = rows /\ f.at = now
  BY <1>1 DEF File, FileRec
<1>3. ~(f.id <= files)
  BY <1>1, <1>2
<1>4. f \notin Listed /\ f \notin upload
  BY Zenon, <1>3, Parts DEF TableInv, Awaited
<1>5. \A n \in Nodes : node[n].pc \in Replacing => f \notin node[n].output
  BY <1>3, Parts DEF NodeInv, OutputInv, Awaited
<1>6. Awaited(f)'
  <2>1. f.id <= files' /\ f.at <= now'
    BY <1>1, <1>2
  <2>2. f \in store'
    BY Zenon
  <2> QED BY Zenon, <2>1, <2>2 DEF Awaited
<1>7. ASSUME NEW g \in FileRec, Awaited(g) PROVE Awaited(g)'
  <2>1. /\ now' \in Nat /\ now <= now' /\ slowest' \in Nat /\ slowest <= slowest'
        /\ files' \in Nat /\ files <= files'
    BY <1>1
  <2>2. g \in store' \/ g \notin store
    BY Zenon
  <2> QED BY Zenon, <1>7, <2>1, <2>2, Parts, AwaitedKept
<1>8. \A x \in Nat : x <= files => x <= files'
  BY <1>1
<1>9. files' \in Nat
  BY <1>1
<1> QED BY Zenon, <1>2, <1>4, <1>5, <1>6, <1>7, <1>8, <1>9

\* The table does not change, objects and numbers are added: the table's part
\* that a flush's upload does not touch.
LEMMA TableGrows ==
  ASSUME Types, TableInv, UNCHANGED <<snaps, slowest>>, store \subseteq store',
         \A x \in Nat : x <= files => x <= files'
  PROVE  /\ FilesExist'
         /\ \A f \in Listed' : f.id <= files' /\ f.at \in Nat /\ \A x \in f.rows : x <= files'
         /\ \A k \in 1 .. Current' : snaps'[k].removes \subseteq Manifest(k)'
         /\ \A f \in Listed' : \A x \in f.rows : \E g \in Standing' : x \in g.rows
<1>1. /\ Listed' = Listed /\ Superseded' = Superseded /\ Standing' = Standing
      /\ Current' = Current /\ \A k \in Nat : Manifest(k)' = Manifest(k)
  BY Zenon, SameSnaps
<1>2. \A k \in 1 .. Current : k \in Nat
  BY Numbers
<1>3. \A f \in Listed : f.id \in Nat /\ f.at \in Nat /\ f.rows \subseteq Nat
  BY Zenon, ListedFiles, FileFields
<1>4. FilesExist'
  <2>1. slowest' \in Nat /\ slowest <= slowest'
    BY Numbers
  <2> QED BY Zenon, <2>1, ListedKept DEF TableInv
<1> QED BY <1>1, <1>2, <1>3, <1>4 DEF TableInv

LEMMA UploadStep ==
  ASSUME Inductive, Upload
  PROVE  Inductive'
<1>0. PICK f : f = File(files + 1, {files + 1})
  OBVIOUS
<1>1. /\ upload = {} /\ upload' = {f} /\ store' = store \cup {f} /\ files' = files + 1
      /\ now' = now /\ files < MaxFiles
      /\ UNCHANGED <<snaps, lock, node, raced, twice, slowest>>
  BY Zenon, <1>0 DEF Upload
<1>2. files \in Nat /\ now \in Nat /\ {files + 1} \in SUBSET Nat
  BY Parts, Numbers
<1>3. /\ f \in FileRec /\ f.rows = {files + 1} /\ f \notin Listed
      /\ \A n \in Nodes : node[n].pc \in Replacing => f \notin node[n].output
      /\ Awaited(f)' /\ \A g \in FileRec : Awaited(g) => Awaited(g)'
      /\ \A x \in Nat : x <= files => x <= files'
  BY Zenon, <1>0, <1>1, <1>2, NewFile
<1>4. Listed' = Listed /\ Current' = Current
  BY Zenon, <1>1, SameSnaps
<1>5. TableInv'
  <2>1. /\ FilesExist'
        /\ \A g \in Listed' : g.id <= files' /\ \A x \in g.rows : x <= files'
        /\ \A k \in 1 .. Current' : snaps'[k].removes \subseteq Manifest(k)'
        /\ \A g \in Listed' : \A x \in g.rows : \E h \in Standing' : x \in h.rows
    BY Zenon, <1>1, <1>3, Parts, TableGrows
  <2>2. \A x \in f.rows : x <= files' /\ ~(x <= files)
    BY <1>1, <1>2, <1>3
  <2>3. \A g \in Listed' : f.rows \cap g.rows = {}
    BY Zenon, <1>4, <2>2, Parts DEF TableInv
  <2> QED BY Zenon, <1>1, <1>3, <1>4, <2>1, <2>2, <2>3 DEF TableInv
<1>6. \A n \in Nodes : NodeInv(node[n])'
  <2> SUFFICES ASSUME NEW n \in Nodes PROVE NodeInv(node[n])'
    OBVIOUS
  <2>1. node[n] \in NodeRec /\ NodeInv(node[n]) /\ node[n].output \subseteq FileRec /\ node'[n] = node[n]
    BY Zenon, <1>1, Parts, Fields
  <2>2. node[n].pc \in Replacing => \A o \in node[n].output : Awaited(o)' /\ o \notin upload'
    BY <1>1, <1>3, <2>1 DEF NodeInv, OutputInv
  <2>3. \A k \in 1 .. Current' : k \in 1 .. Current /\ snaps'[k] = snaps[k]
    BY Zenon, <1>1, <1>4
  <2>4. node[n].pc = "replace_apply" => node[n].output \cap Listed' = {}
    BY Zenon, <1>4, <2>1 DEF NodeInv
  <2>5. node[n].base <= Current'
    BY Zenon, <1>4, <2>1 DEF NodeInv
  <2> QED BY Zenon, <1>1, <1>4, <2>1, <2>2, <2>3, <2>4, <2>5, Parts, NodeKept DEF NodeInv
<1>7. NodesInv'
  BY Zenon, <1>1, <1>6, Parts DEF NodesInv, Apart
<1>8. Types'
  <2>1. files' \in 0 .. MaxFiles
    BY <1>1, <1>2, Naturals
  <2>2. store' \in SUBSET FileRec /\ upload' \in SUBSET FileRec
    BY Zenon, <1>1, <1>3, Parts DEF Types
  <2> QED BY Zenon, <1>1, <1>4, <2>1, <2>2, Parts DEF Types
<1> QED BY Zenon, <1>1, <1>5, <1>7, <1>8, Parts, SameOnce, SameLock DEF Inductive

LEMMA RewriteStep ==
  ASSUME Inductive, NEW n \in Nodes, Rewrite(n)
  PROVE  Inductive'
<1> DEFINE rows == UNION {i.rows : i \in node[n].inputs}
<1>0. PICK f : f = File(files + 1, rows)
  BY Zenon
<1>1. /\ node[n].pc = "rewrite" /\ files < MaxFiles
      /\ "rewrite" \in Grouped /\ "rewrite" \in Loaded /\ "rewrite" \in Labour
      /\ "replace" \in Replacing /\ "replace" \in Grouped /\ "replace" \in Loaded
      /\ "replace" \in Labour /\ "replace" \in Stages
      /\ "replace" \notin Sweeping /\ "replace" \notin Locking /\ "replace" \notin Releasing
  BY DEF Rewrite, Stages, Labour, Loaded, Grouped, Replacing, Sweeping, Locking, Releasing
<1>2. CASE PlanEnds(n) /\ UNCHANGED <<store, files>>
  BY Zenon, <1>1, <1>2, PlanEndsStep DEF Rewrite
<1>3. CASE /\ store' = store \cup {f} /\ files' = files + 1
           /\ Set(n, [node[n] EXCEPT !.pc = "replace", !.output = {f}])
  <2>0. PICK r : r = [node[n] EXCEPT !.pc = "replace", !.output = {f}]
    OBVIOUS
  <2>1. /\ UNCHANGED <<now, snaps, lock, upload, raced, twice, slowest>>
        /\ node' = [node EXCEPT ![n] = r]
    BY Zenon, <1>3, <2>0 DEF Rewrite, Set
  <2>2. rows \in SUBSET Nat
    BY Zenon, Parts, Fields, FileFields
  <2>3. /\ f \in FileRec /\ f.rows = rows /\ f \notin Listed /\ f \notin upload
        /\ \A m \in Nodes : node[m].pc \in Replacing => f \notin node[m].output
        /\ Awaited(f)' /\ \A g \in FileRec : Awaited(g) => Awaited(g)'
        /\ \A x \in Nat : x <= files => x <= files'
        /\ files' \in Nat
    BY Zenon, <1>0, <1>3, <2>1, <2>2, NewFile
  <2>4. \A x : x \in f.rows <=> \E i \in node[n].inputs : x \in i.rows
    BY Zenon, <2>3
  <2> HIDE DEF rows
  <2>5. /\ r \in NodeRec /\ r.pc = "replace" /\ r.at = node[n].at /\ r.base = node[n].base
        /\ r.files = node[n].files /\ r.inputs = node[n].inputs /\ r.output = {f}
    <3>1. node[n] \in NodeRec
      BY Zenon, Parts, Fields
    <3> QED BY Zenon, <3>1, <1>1, <2>0, <2>3 DEF NodeRec
  <2>6. /\ node'[n] = r /\ node' \in [Nodes -> NodeRec]
        /\ \A m \in Nodes : m # n => node'[m] = node[m]
    BY Zenon, <2>1, <2>5, Parts, OneNode
  <2>7. Listed' = Listed /\ Current' = Current /\ Standing' = Standing
    BY Zenon, <2>1, SameSnaps
  <2>8. TableInv'
    <3>1. /\ FilesExist'
          /\ \A g \in Listed' : g.id <= files' /\ \A x \in g.rows : x <= files'
          /\ \A k \in 1 .. Current' : snaps'[k].removes \subseteq Manifest(k)'
          /\ \A g \in Listed' : \A x \in g.rows : \E h \in Standing' : x \in h.rows
      BY Zenon, <1>3, <2>1, <2>3, Parts, TableGrows
    <3>2. \A u \in upload : u \in FileRec /\ u.rows \subseteq Nat
      BY Zenon, Parts, FileFields DEF Types
    <3>3. \A u \in upload' : Awaited(u)' /\ u \notin Listed' /\ \A x \in u.rows : x <= files'
      BY Zenon, <2>1, <2>3, <2>7, <3>2, Parts DEF TableInv
    <3>4. /\ \A g, h \in upload' : g = h
          /\ \A u \in upload', g \in Listed' : u.rows \cap g.rows = {}
      BY Zenon, <2>1, <2>7, Parts DEF TableInv
    <3> QED BY Zenon, <3>1, <3>3, <3>4 DEF TableInv
  <2>9. ASSUME NEW m \in Nodes, m # n PROVE NodeInv(node[m])'
    <3>1. node[m] \in NodeRec /\ NodeInv(node[m]) /\ node[m].output \subseteq FileRec /\ node'[m] = node[m]
      BY Zenon, <2>6, <2>9, Parts, Fields
    <3>2. node[m].pc \in Replacing => \A o \in node[m].output : Awaited(o)' /\ o \notin upload'
      BY Zenon, <2>1, <2>3, <3>1 DEF NodeInv, OutputInv
    <3>3. \A k \in 1 .. Current' : k \in 1 .. Current /\ snaps'[k] = snaps[k]
      BY Zenon, <2>1, <2>7
    <3>4. node[m].pc = "replace_apply" => node[m].output \cap Listed' = {}
      BY Zenon, <2>7, <3>1 DEF NodeInv
    <3>5. node[m].base <= Current'
      BY Zenon, <2>7, <3>1 DEF NodeInv
    <3> QED BY Zenon, <2>1, <2>7, <3>1, <3>2, <3>3, <3>4, <3>5, Parts, NodeKept DEF NodeInv
  <2>10. NodeInv(r)'
    <3>1. OutputInv(r)'
      BY Zenon, <2>1, <2>3, <2>4, <2>5 DEF OutputInv
    <3>2. /\ r.base <= Current' /\ r.files \subseteq Listed' /\ r.inputs \subseteq Listed'
          /\ r.inputs \cap r.files = {}
      BY Zenon, <1>1, <2>5, <2>7, Parts DEF NodeInv
    <3>3. r.output \cap Listed' = {}
      BY Zenon, <2>3, <2>5, <2>7
    <3> QED BY Zenon, <1>1, <2>5, <3>1, <3>2, <3>3 DEF NodeInv
  <2>11. NodesInv'
    <3>1. \A m \in Nodes : NodeInv(node[m])'
      BY Zenon, <2>6, <2>9, <2>10 DEF NodeInv
    <3>2. Apart'
      <4> SUFFICES ASSUME NEW l \in Nodes, NEW m \in Nodes, l # m,
                          node'[l].pc \in Replacing, node'[m].pc \in Replacing
                   PROVE  node'[l].output \cap node'[m].output = {}
        BY Zenon DEF Apart
      <4>1. CASE l # n /\ m # n
        BY Zenon, <4>1, <2>6, Parts DEF NodesInv, Apart
      <4>2. CASE l = n
        BY Zenon, <4>2, <2>3, <2>5, <2>6
      <4>3. CASE m = n
        BY Zenon, <4>3, <2>3, <2>5, <2>6
      <4> QED BY Zenon, <4>1, <4>2, <4>3
    <3> QED BY Zenon, <3>1, <3>2 DEF NodesInv
  <2>12. OnceInv'
    <3>1. ~twice => OnceOf(r)
      BY Zenon, <1>1, <2>5, Parts DEF OnceOf
    <3> QED BY Zenon, <1>1, <1>3, <2>1, <2>5, <3>1, Parts, QuietOnce
  <2>13. LockInv'
    <3>1. LockOf(n, r)
      BY Zenon, <1>1, <2>5, Parts DEF LockOf
    <3> QED BY Zenon, <1>3, <2>1, <2>5, <3>1, Parts, QuietLock
  <2>14. Types'
    <3>1. files' \in 0 .. MaxFiles
      BY <1>1, <1>3, <2>3, Parts, Numbers, Naturals
    <3>2. store' \in SUBSET FileRec
      BY Zenon, <1>3, <2>3, Parts DEF Types
    <3> QED BY Zenon, <2>1, <2>6, <2>7, <3>1, <3>2, Parts DEF Types
  <2> QED BY Zenon, <2>8, <2>11, <2>12, <2>13, <2>14 DEF Inductive
<1> QED BY Zenon, <1>0, <1>2, <1>3 DEF Rewrite

\* What a commit does to the table: the files it adds are awaited and in no
\* flush's hands, and the rows of what it supersedes are in what it adds.
LEMMA CommitTable ==
  ASSUME Inductive, NEW adds \in SUBSET FileRec, NEW removes \in SUBSET Listed, Commit(adds, removes),
         UNCHANGED <<now, store, files, slowest>>, upload' \subseteq upload,
         \A f \in adds : Awaited(f) /\ f \notin Listed /\ f \notin upload',
         \A f \in adds : \A x \in f.rows : x <= files,
         \A u \in upload', f \in adds : u.rows \cap f.rows = {},
         \A i \in removes : \A x \in i.rows : \E o \in adds : x \in o.rows
  PROVE  /\ TableInv' /\ Listed' = Listed \cup adds /\ Current' = Current + 1
         /\ Standing' = (Standing \ removes) \cup adds
         /\ snaps' \in Seq(Snap) /\ Current' <= MaxSnaps
         /\ \A f : Awaited(f)' <=> Awaited(f)
         /\ \A k \in 1 .. Current' :
              (k \in 1 .. Current /\ snaps'[k] = snaps[k]) \/ snaps'[k].ts = now
<1>1. /\ snaps' \in Seq(Snap) /\ Current' = Current + 1 /\ Current' <= MaxSnaps
      /\ Listed' = Listed \cup adds /\ Superseded' = Superseded \cup removes
      /\ \A k \in 1 .. Current : Manifest(k)' = Manifest(k) /\ snaps'[k] = snaps[k]
      /\ \A k : k = Current' => /\ snaps'[k].removes = removes /\ Manifest(k)' = Listed'
                               /\ snaps'[k].ts = now /\ snaps'[k].adds = adds
  <2>1. removes \in SUBSET FileRec
    BY Zenon, Parts, ListedFiles
  <2> QED BY Zenon, <2>1, Parts, CommitLists
<1>2. Superseded \subseteq Listed
  <2>1. \A k \in 1 .. Current : \A j \in 1 .. k : j \in 1 .. Current
    BY Parts, Numbers
  <2>2. \A k \in 1 .. Current : snaps[k].removes \subseteq Manifest(k) /\ Manifest(k) \subseteq Listed
    BY <2>1, Parts DEF TableInv, Manifest, Listed
  <2> QED BY Zenon, <2>2 DEF Superseded
<1>3. Standing' = (Standing \ removes) \cup adds
  BY Zenon, <1>1, <1>2 DEF Standing
<1>4. \A f : Awaited(f)' <=> Awaited(f)
  BY Zenon DEF Awaited
<1>5. \A k \in 1 .. Current' : snaps'[k].removes \subseteq Manifest(k)'
  <2>1. \A k \in 1 .. Current' : k \in 1 .. Current \/ k = Current'
    BY <1>1, Parts, Numbers
  <2>2. \A k \in 1 .. Current : snaps'[k].removes \subseteq Manifest(k)'
    BY <1>1, Parts DEF TableInv
  <2>3. \A k : k = Current' => snaps'[k].removes \subseteq Manifest(k)'
    BY Zenon, <1>1
  <2> QED BY Zenon, <2>1, <2>2, <2>3
<1>6. \A f \in Listed' : \A x \in f.rows : \E g \in Standing' : x \in g.rows
  <2> SUFFICES ASSUME NEW f \in Listed', NEW x \in f.rows
               PROVE  \E g \in Standing' : x \in g.rows
    BY Zenon
  <2>1. CASE f \in adds
    BY Zenon, <2>1, <1>3
  <2>2. CASE f \in Listed
    <3>1. PICK g \in Standing : x \in g.rows
      BY Zenon, <2>2, Parts DEF TableInv
    <3> QED BY Zenon, <3>1, <1>3
  <2> QED BY Zenon, <2>1, <2>2, <1>1
<1>11. \A k \in 1 .. Current' : k \in 1 .. Current \/ k = Current'
  BY <1>1, Parts, Numbers
<1>12. \A k \in 1 .. Current' :
         (k \in 1 .. Current /\ snaps'[k] = snaps[k]) \/ snaps'[k].ts = now
  BY Zenon, <1>1, <1>11
<1>13. FilesExist'
  <2> SUFFICES ASSUME NEW k \in 1 .. Current', NEW f \in snaps'[k].adds, f \notin store'
               PROVE  snaps'[k].ts - f.at + slowest' >= MinAge
    BY Zenon DEF FilesExist, CommittedLate
  <2>1. CASE k \in 1 .. Current
    BY Zenon, <1>1, <2>1, Parts DEF TableInv, FilesExist, CommittedLate
  <2>2. CASE k = Current'
    BY Zenon, <1>1, <2>2 DEF Awaited
  <2> QED BY Zenon, <1>11, <2>1, <2>2
<1>7. \A f \in Listed' : f.id <= files'
  BY Zenon, <1>1, Parts DEF TableInv, Awaited
<1>8. \A f \in Listed' \cup upload' : \A x \in f.rows : x <= files'
  BY Zenon, <1>1, Parts DEF TableInv
<1>9. /\ \A f \in upload' : Awaited(f)' /\ f \notin Listed'
      /\ \A f, g \in upload' : f = g
      /\ \A u \in upload', f \in Listed' : u.rows \cap f.rows = {}
  BY Zenon, <1>1, <1>4, Parts DEF TableInv
<1>10. TableInv'
  BY Zenon, <1>5, <1>6, <1>7, <1>8, <1>9, <1>13 DEF TableInv
<1> QED BY Zenon, <1>1, <1>3, <1>4, <1>10, <1>12

\* ... and to the nodes that take no part in it.
LEMMA CommitOthers ==
  ASSUME Inductive, NEW adds \in SUBSET FileRec, NEW m \in Nodes, node'[m] = node[m],
         now' = now, slowest' = slowest, Listed' = Listed \cup adds, Current' = Current + 1,
         upload' \subseteq upload, \A f : Awaited(f)' <=> Awaited(f),
         \A k \in 1 .. Current' : (k \in 1 .. Current /\ snaps'[k] = snaps[k]) \/ snaps'[k].ts = now,
         node[m].pc = "replace_apply" => node[m].output \cap adds = {}
  PROVE  NodeInv(node[m])'
<1>1. node[m] \in NodeRec /\ NodeInv(node[m]) /\ node[m].base \in Nat /\ Current \in Nat
  BY Zenon, Parts, Fields, Numbers
<1>2. node[m].base < Current' /\ node[m].base <= Current'
  BY <1>1 DEF NodeInv
<1>5. node[m].pc \in Replacing => \A o \in node[m].output : Awaited(o)' /\ o \notin upload'
  BY Zenon, <1>1 DEF NodeInv, OutputInv
<1>6. node[m].pc = "replace_apply" => node[m].output \cap Listed' = {}
  BY Zenon, <1>1 DEF NodeInv
<1>7. Listed \subseteq Listed'
  BY Zenon
<1> QED BY Zenon, <1>1, <1>2, <1>5, <1>6, <1>7, Parts, NodeKept DEF NodeInv

\* The replace commit, answered or not.
LEMMA ReplaceCommit ==
  ASSUME Inductive, NEW n \in Nodes, node[n].pc = "replace_apply",
         Commit(node[n].output, node[n].inputs), PlanEnds(n) \/ Goto(n, "replace"),
         UNCHANGED <<now, store, lock, upload, files, raced, twice, slowest>>
  PROVE  Inductive'
<1> DEFINE adds == node[n].output
           removes == node[n].inputs
<1>1. /\ "replace_apply" \in Replacing /\ "replace_apply" \in Grouped /\ "replace_apply" \in Loaded
      /\ "replace_apply" \in Labour /\ "replace" \in Replacing /\ "replace" \in Grouped
      /\ "replace" \in Loaded /\ "groups" \in Loaded /\ "groups" \notin Grouped
      /\ "groups" \notin Replacing
      /\ \A pc \in {"replace", "groups"} : /\ pc \in Stages /\ pc \in Labour /\ pc \notin Sweeping
                                          /\ pc \notin Locking /\ pc \notin Releasing
  BY DEF Stages, Labour, Loaded, Grouped, Replacing, Sweeping, Locking, Releasing
<1>2. /\ NodeInv(node[n]) /\ OutputInv(node[n]) /\ adds \cap Listed = {} /\ removes \subseteq Listed
      /\ removes \cap node[n].files = {} /\ node[n].files \subseteq Listed
      /\ adds \in SUBSET FileRec /\ node[n].base \in Nat /\ node[n].base <= Current /\ Current \in Nat
  BY Zenon, <1>1, Parts, Fields, Numbers DEF NodeInv
<1>3. /\ \A f \in adds : Awaited(f) /\ f \notin upload
      /\ \A i \in removes : \A x \in i.rows : \E o \in adds : x \in o.rows
      /\ \A o \in adds : \A x \in o.rows : \E i \in removes : x \in i.rows
      /\ \A o, p \in adds : o = p
  BY Zenon, <1>2 DEF OutputInv
<1>4. /\ TableInv' /\ Listed' = Listed \cup adds /\ Current' = Current + 1
      /\ Standing' = (Standing \ removes) \cup adds
      /\ snaps' \in Seq(Snap) /\ Current' <= MaxSnaps
      /\ \A f : Awaited(f)' <=> Awaited(f)
      /\ \A k \in 1 .. Current' :
           (k \in 1 .. Current /\ snaps'[k] = snaps[k]) \/ snaps'[k].ts = now
  <2>1. \A f \in adds : Awaited(f) /\ f \notin Listed /\ f \notin upload'
    BY Zenon, <1>2, <1>3
  <2>2. \A f \in adds : \A x \in f.rows : x <= files
    BY Zenon, <1>2, <1>3, Parts DEF TableInv
  <2>3. \A u \in upload', f \in adds : u.rows \cap f.rows = {}
    BY Zenon, <1>2, <1>3, Parts DEF TableInv
  <2>4. /\ removes \in SUBSET Listed /\ adds \in SUBSET FileRec /\ Commit(adds, removes)
        /\ upload' \subseteq upload /\ UNCHANGED <<now, store, files, slowest>>
    BY Zenon, <1>2
  <2>5. \A i \in removes : \A x \in i.rows : \E o \in adds : x \in o.rows
    BY Zenon, <1>3
  <2> HIDE DEF adds, removes
  <2> QED BY ZenonT(60), <2>1, <2>2, <2>3, <2>4, <2>5, CommitTable
<1>5. PICK r : /\ r \in NodeRec /\ node' = [node EXCEPT ![n] = r] /\ r.pc \in {"replace", "groups"}
               /\ r.at = node[n].at /\ r.base = node[n].base /\ r.files = node[n].files
               /\ r.pc = "replace" => r.inputs = removes /\ r.output = adds
  <2>1. CASE PlanEnds(n)
    <3> DEFINE r == [node[n] EXCEPT !.pc = "groups", !.inputs = {}, !.output = {}]
    <3>1. /\ r \in NodeRec /\ r.pc = "groups" /\ r.at = node[n].at
          /\ r.base = node[n].base /\ r.files = node[n].files
      BY Zenon, Parts, EndsRecord
    <3>2. node' = [node EXCEPT ![n] = r]
      BY Zenon, <2>1 DEF PlanEnds, Set
    <3> HIDE DEF r
    <3>3. r.pc # "replace"
      BY <3>1
    <3> QED BY Zenon, <3>1, <3>2, <3>3
  <2>2. CASE Goto(n, "replace")
    <3> DEFINE r == [node[n] EXCEPT !.pc = "replace"]
    <3>1. /\ r \in NodeRec /\ r.pc = "replace" /\ r.at = node[n].at /\ r.base = node[n].base
          /\ r.files = node[n].files /\ r.inputs = removes /\ r.output = adds
      BY <1>1, Parts, GotoRecord
    <3>2. node' = [node EXCEPT ![n] = r]
      BY Zenon, <2>2 DEF Goto, Set
    <3> HIDE DEF r
    <3> QED BY Zenon, <3>1, <3>2
  <2> QED BY Zenon, <2>1, <2>2
<1>6. /\ node'[n] = r /\ node' \in [Nodes -> NodeRec]
      /\ \A m \in Nodes : m # n => node'[m] = node[m]
  BY Zenon, <1>5, Parts, OneNode
<1>7. r.base < Current' /\ r.base <= Current' /\ r.base # Current'
  BY <1>2, <1>4, <1>5
<1>8. NodeInv(r)'
  <2>1. r.files \subseteq Listed'
    BY Zenon, <1>2, <1>4, <1>5
  <2>2. CASE r.pc = "groups"
    <3>1. r.pc # "replace" /\ r.pc # "replace_apply"
      BY <2>2
    <3> QED BY Zenon, <2>1, <2>2, <3>1, <1>1, <1>7 DEF NodeInv
  <2>3. CASE r.pc = "replace"
    <3>1. r.inputs \subseteq Listed' /\ r.inputs \cap r.files = {} /\ r.pc # "replace_apply"
      BY Zenon, <2>3, <1>2, <1>4, <1>5
    <3>2. OutputInv(r)'
      BY Zenon, <2>3, <1>3, <1>4, <1>5 DEF OutputInv
    <3> QED BY Zenon, <2>1, <2>3, <3>1, <3>2, <1>1, <1>7 DEF NodeInv
  <2> QED BY Zenon, <2>2, <2>3, <1>5
<1>9. ASSUME NEW m \in Nodes, m # n PROVE NodeInv(node[m])'
  <2>1. node[m].pc = "replace_apply" => node[m].output \cap adds = {}
    BY Zenon, <1>1, <1>9, Parts DEF NodesInv, Apart
  <2> QED BY Zenon, <1>2, <1>3, <1>4, <1>6, <1>9, <2>1, CommitOthers
<1>10. NodesInv'
  <2>1. \A m \in Nodes : NodeInv(node[m])'
    BY Zenon, <1>6, <1>8, <1>9 DEF NodeInv
  <2>2. \A m \in Nodes : node'[m].pc \in Replacing =>
          node[m].pc \in Replacing /\ node'[m].output = node[m].output
    BY Zenon, <1>1, <1>5, <1>6
  <2>3. Apart'
    BY Zenon, <2>2, Parts DEF NodesInv, Apart
  <2> QED BY Zenon, <2>1, <2>3 DEF NodesInv
<1>11. OnceInv'
  <2> SUFFICES ASSUME ~twice PROVE OnceInv'
    BY Zenon DEF OnceInv
  <2>1. removes \subseteq Standing /\ node[n].files \subseteq Standing
    BY Zenon, <1>1, Parts DEF OnceOf
  <2>2. \A l, m \in Nodes : node'[l].pc \in Labour /\ node'[m].pc \in Labour => l = m
    BY Zenon, <1>1, <1>6, Parts DEF OnceInv
  <2>3. \A f, g \in Standing' : f = g \/ f.rows \cap g.rows = {}
    <3>1. \A f, g \in Standing : f = g \/ f.rows \cap g.rows = {}
      BY Zenon, Parts DEF OnceInv
    <3>2. \A f \in adds, g \in Standing \ removes : f.rows \cap g.rows = {}
      BY <1>3, <2>1, <3>1
    <3>3. \A f \in adds, g \in Standing \ removes : g.rows \cap f.rows = {}
      BY Zenon, <3>2
    <3> QED BY Zenon, <1>3, <1>4, <3>1, <3>2, <3>3
  <2>4. OnceOf(r)'
    <3>1. r.files \subseteq Standing'
      BY Zenon, <1>2, <1>4, <1>5, <2>1
    <3>2. r.pc \notin {"verify", "rewrite", "replace_apply"}
      BY <1>5
    <3> QED BY Zenon, <1>7, <3>1, <3>2 DEF OnceOf
  <2>5. ASSUME NEW m \in Nodes, m # n PROVE OnceOf(node[m])'
    <3>1. node'[m] = node[m] /\ node[m].pc \notin Labour
      BY Zenon, <1>1, <1>6, <2>5, Parts DEF OnceInv
    <3>2. /\ node[m].pc \notin Loaded /\ node[m].pc # "replace"
          /\ node[m].pc \notin {"verify", "rewrite", "replace_apply"}
      BY Zenon, <3>1, PlanStages
    <3> QED BY Zenon, <3>1, <3>2 DEF OnceOf
  <2> QED BY Zenon, <1>6, <2>2, <2>3, <2>4, <2>5 DEF OnceInv, OnceOf
<1>12. LockInv'
  <2>1. LockOf(n, r)
    BY Zenon, <1>1, <1>5, Parts DEF LockOf
  <2> QED BY Zenon, <1>5, <2>1, Parts, QuietLock
<1>13. Types'
  BY Zenon, <1>4, <1>6, Parts DEF Types
<1> QED BY Zenon, <1>4, <1>10, <1>11, <1>12, <1>13 DEF Inductive

LEMMA ReplaceApplyStep ==
  ASSUME Inductive, NEW n \in Nodes, ReplaceApply(n)
  PROVE  Inductive'
<1>1. CASE Commit(node[n].output, node[n].inputs)
  BY Zenon, <1>1, ReplaceCommit DEF ReplaceApply
<1>2. CASE Goto(n, "replace") /\ UNCHANGED snaps
  <2>1. node[n].pc = "replace_apply" /\ "replace_apply" \in Replacing /\ "replace" \in Replacing
    BY Zenon DEF ReplaceApply, Replacing
  <2>2. node[n].output \cap Listed = {} /\ (~twice => node[n].inputs \subseteq Standing)
    BY Zenon, <2>1, Parts DEF NodeInv, OnceOf
  <2> QED BY Zenon, <1>2, <2>1, <2>2, ReplaceStageStep DEF ReplaceApply
<1> QED BY Zenon, <1>1, <1>2 DEF ReplaceApply

LEMMA AppendStep ==
  ASSUME Inductive, NEW f \in upload, Append_(f)
  PROVE  Inductive'
<1>1. /\ upload' = upload \ {f} /\ UNCHANGED <<now, store, lock, node, files, raced, twice, slowest>>
      /\ upload' \subseteq upload
  BY Zenon DEF Append_
<1>2. /\ f \in FileRec /\ Awaited(f) /\ f \notin Listed /\ upload' = {}
      /\ \A g \in Listed : f.rows \cap g.rows = {} /\ g.rows \cap f.rows = {}
      /\ \A x \in f.rows : x <= files
  BY Zenon, <1>1, Parts DEF Types, TableInv
<1>3. CASE UNCHANGED snaps
  <2>1. Listed' = Listed /\ Current' = Current /\ Standing' = Standing /\ \A k \in Nat : Manifest(k)' = Manifest(k)
    BY Zenon, <1>3, SameSnaps
  <2>2. \A g : Awaited(g)' <=> Awaited(g)
    BY Zenon, <1>1 DEF Awaited
  <2>3. \A k \in 1 .. Current : k \in Nat
    BY Parts, Numbers
  <2>4. TableInv'
    <3>1. FilesExist'
      BY Zenon, <1>1, <1>3, <2>1, Parts DEF TableInv, FilesExist, CommittedLate
    <3> QED BY <1>1, <1>2, <1>3, <2>1, <2>2, <2>3, <3>1, Parts DEF TableInv
  <2>5. NodesInv'
    <3>1. ASSUME NEW m \in Nodes PROVE NodeInv(node[m])'
      <4>1. node[m].pc \in Sweeping => SweepInv(node[m])'
        BY Zenon, <1>1, <1>3, <2>1, Parts DEF NodeInv, SweepInv
      <4>2. node[m].pc \in Replacing => OutputInv(node[m])'
        <5>1. node[m].pc \in Replacing => OutputInv(node[m])
          BY Zenon, Parts DEF NodeInv
        <5>2. node'[m] = node[m] /\ \A o : o \notin upload => o \notin upload'
          BY Zenon, <1>1
        <5> QED BY Zenon, <2>2, <5>1, <5>2 DEF OutputInv
      <4> QED BY Zenon, <1>1, <2>1, <4>1, <4>2, Parts DEF NodeInv
    <3> QED BY Zenon, <1>1, <3>1, Parts DEF NodesInv, Apart
  <2>6. Types'
    BY Zenon, <1>1, <1>3, <2>1, Parts DEF Types
  <2> QED BY Zenon, <1>1, <1>3, <2>4, <2>5, <2>6, Parts, SameOnce, SameLock DEF Inductive
<1>4. CASE Commit({f}, {})
  <2>1. {f} \in SUBSET FileRec /\ {} \in SUBSET Listed
    BY Zenon, <1>2
  <2>2. /\ \A g \in {f} : Awaited(g) /\ g \notin Listed /\ g \notin upload'
        /\ \A g \in {f} : \A x \in g.rows : x <= files
        /\ \A u \in upload', g \in {f} : u.rows \cap g.rows = {}
        /\ \A i \in {} : \A x \in i.rows : \E o \in {f} : x \in o.rows
    BY Zenon, <1>2
  <2>3. /\ TableInv' /\ Listed' = Listed \cup {f} /\ Current' = Current + 1
        /\ Standing' = (Standing \ {}) \cup {f}
        /\ snaps' \in Seq(Snap) /\ Current' <= MaxSnaps
        /\ \A g : Awaited(g)' <=> Awaited(g)
        /\ \A k \in 1 .. Current' :
             (k \in 1 .. Current /\ snaps'[k] = snaps[k]) \/ snaps'[k].ts = now
    BY Zenon, <1>1, <1>4, <2>1, <2>2, CommitTable
  <2>4. ASSUME NEW m \in Nodes PROVE NodeInv(node[m])'
    <3>1. node[m].pc = "replace_apply" => node[m].output \cap {f} = {}
      <4>1. node[m].pc = "replace_apply" => node[m].pc \in Replacing
        BY DEF Replacing
      <4>2. node[m].pc = "replace_apply" => OutputInv(node[m])
        BY Zenon, <4>1, Parts DEF NodeInv
      <4>3. node[m].pc = "replace_apply" => \A o \in node[m].output : o \notin upload
        BY Zenon, <4>2 DEF OutputInv
      <4> QED BY Zenon, <4>3
    <3> QED BY Zenon, <1>1, <2>1, <2>2, <2>3, <3>1, CommitOthers
  <2>5. NodesInv'
    BY Zenon, <1>1, <2>4, Parts DEF NodesInv, Apart
  <2>6. OnceInv'
    <3> SUFFICES ASSUME ~twice PROVE OnceInv'
      BY Zenon, <1>1 DEF OnceInv
    <3>1. \A m \in Nodes : node[m].base # Current'
      <4>1. \A m \in Nodes : node[m].base \in Nat /\ node[m].base <= Current
        BY Zenon, Parts, Fields DEF NodeInv
      <4> QED BY <4>1, <2>3, Parts, Numbers
    <3>2. \A m \in Nodes : OnceOf(node[m])'
      BY Zenon, <1>1, <2>3, <3>1, Parts DEF OnceOf
    <3>3. \A g, h \in Standing' : g = h \/ g.rows \cap h.rows = {}
      BY Zenon, <1>2, <2>3, Parts DEF OnceInv, Standing
    <3> QED BY Zenon, <1>1, <3>2, <3>3, Parts DEF OnceInv
  <2>7. Types'
    BY Zenon, <1>1, <1>2, <2>3, Parts DEF Types
  <2> QED BY Zenon, <1>1, <2>3, <2>5, <2>6, <2>7, Parts, SameLock DEF Inductive
<1> QED BY Zenon, <1>3, <1>4 DEF Append_

\* The deletion of a candidate: past the orphan age by now, and, if listed,
\* committed after the sweep's protected set was read, late.
LEMMA Spared ==
  ASSUME Inductive, NEW n \in Nodes, node[n].pc = "delete", NEW f \in Candidates(n), f \in FileRec
  PROVE  /\ now - f.at >= MinAge
         /\ \A k \in 1 .. Current : f \in snaps[k].adds => CommittedLate(f, k)
<1>1. /\ node[n].started \in Nat /\ node[n].at \in Nat /\ f.at \in Nat /\ now \in Nat
      /\ MinAge \in Nat /\ slowest \in Nat
  BY Zenon, Parts, Fields, FileFields, Numbers, Naturals
<1>2. SweepInv(node[n])
  BY Zenon, Parts DEF NodeInv, Sweeping
<1>3. f \notin node[n].protected /\ node[n].at - f.at >= MinAge
  BY Zenon DEF Candidates
<1>4. node[n].at <= now /\ node[n].at - node[n].started <= slowest
  BY Zenon, <1>2 DEF SweepInv
<1>5. now - f.at >= MinAge
  BY <1>1, <1>3, <1>4
<1>6. ASSUME NEW k \in 1 .. Current, f \in snaps[k].adds PROVE CommittedLate(f, k)
  <2>1. snaps[k].ts \in Nat
    BY Zenon, Parts, SnapFields
  <2>2. node[n].started <= snaps[k].ts
    BY Zenon, <1>2, <1>3, <1>6 DEF SweepInv
  <2>3. snaps[k].ts - f.at + slowest >= MinAge
    BY <1>1, <1>3, <1>4, <2>1, <2>2
  <2> QED BY Zenon, <2>3 DEF CommittedLate
<1> QED BY Zenon, <1>5, <1>6

LEMMA DeleteStep ==
  ASSUME Inductive, NEW n \in Nodes, Delete(n)
  PROVE  Inductive'
<1>1. CASE Set(n, Idle) /\ UNCHANGED store
  BY Zenon, <1>1, RestStep DEF Delete
<1>2. ASSUME NEW f \in Candidates(n), Set(n, [node[n] EXCEPT !.files = @ \ {f}]),
             store' = store \ {f} \/ UNCHANGED store
      PROVE  Inductive'
  <2> DEFINE left == node[n].files \ {f}
  <2>0. PICK r : r = [node[n] EXCEPT !.files = left]
    BY Zenon
  <2>1. /\ node[n].pc = "delete"
        /\ UNCHANGED <<now, snaps, lock, upload, files, raced, twice, slowest>>
        /\ node' = [node EXCEPT ![n] = r]
    BY Zenon, <1>2, <2>0 DEF Delete, Set
  <2>2. node[n] \in NodeRec /\ left \in SUBSET FileRec /\ f \in FileRec
    BY Zenon, <1>2, Parts, Fields DEF Candidates
  <2> HIDE DEF left
  <2>3. /\ r \in NodeRec /\ r.pc = "delete" /\ r.started = node[n].started /\ r.at = node[n].at
        /\ r.protected = node[n].protected /\ r.base = node[n].base
    BY <2>0, <2>1, <2>2 DEF NodeRec
  <2>4. /\ now - f.at >= MinAge
        /\ \A k \in 1 .. Current : f \in snaps[k].adds => CommittedLate(f, k)
    BY Zenon, <2>1, <2>2, Spared
  <2>5. \A g \in FileRec : Awaited(g) => Awaited(g)'
    <3>1. /\ now' \in Nat /\ now <= now' /\ slowest' \in Nat /\ slowest <= slowest'
          /\ files' \in Nat /\ files <= files'
      BY <2>1, Parts, Numbers
    <3>2. \A g : g \in store' \/ g \notin store \/ now - g.at >= MinAge
      BY Zenon, <1>2, <2>4
    <3> QED BY Zenon, <3>1, <3>2, Parts, AwaitedKept
  <2>6. Listed' = Listed /\ Current' = Current /\ Standing' = Standing /\ \A k \in Nat : Manifest(k)' = Manifest(k)
    BY Zenon, <2>1, SameSnaps
  <2>7. /\ node'[n] = r /\ node' \in [Nodes -> NodeRec]
        /\ \A m \in Nodes : m # n => node'[m] = node[m]
    BY Zenon, <2>1, <2>3, Parts, OneNode
  <2>8. TableInv'
    <3>1. \A k \in 1 .. Current : k \in Nat
      BY Parts, Numbers
    <3>2. FilesExist'
      <4>1. slowest' \in Nat /\ slowest <= slowest'
        BY <2>1, Parts, Numbers
      <4>2. \A k \in 1 .. Current : \A g \in snaps[k].adds :
              g \in store' \/ g \notin store \/ CommittedLate(g, k)
        BY Zenon, <1>2, <2>4
      <4> QED BY Zenon, <2>1, <4>1, <4>2, Parts, ListedKept DEF TableInv
    <3>3. \A u \in upload : u \in FileRec
      BY Zenon, Parts DEF Types
    <3> QED BY <2>1, <2>5, <2>6, <3>1, <3>2, <3>3, Parts DEF TableInv
  <2>9. /\ "delete" \notin Labour /\ "delete" \notin Loaded /\ "delete" \notin Grouped
        /\ "delete" \notin Replacing /\ "delete" \notin Locking /\ "delete" \notin Releasing
        /\ "delete" \in Sweeping
    BY DEF Labour, Loaded, Grouped, Replacing, Sweeping, Locking, Releasing
  <2>10. NodeInv(r)'
    <3>1. SweepInv(r)'
      BY Zenon, <2>1, <2>3, <2>6, <2>9, Parts DEF SweepInv, NodeInv
    <3> QED BY Zenon, <2>3, <2>6, <2>9, <3>1, Parts DEF NodeInv
  <2>11. ASSUME NEW m \in Nodes, m # n PROVE NodeInv(node[m])'
    <3>1. NodeInv(node[m]) /\ node'[m] = node[m] /\ node[m].output \subseteq FileRec
      BY Zenon, <2>7, <2>11, Parts, Fields
    <3>2. node[m].pc \in Replacing => OutputInv(node[m])'
      BY Zenon, <2>1, <2>5, <3>1 DEF NodeInv, OutputInv
    <3> QED BY Zenon, <2>1, <2>6, <3>1, <3>2 DEF NodeInv, SweepInv
  <2>12. NodesInv'
    <3>1. \A m \in Nodes : NodeInv(node[m])'
      BY Zenon, <2>7, <2>10, <2>11 DEF NodeInv
    <3>2. Apart'
      BY Zenon, <2>3, <2>7, <2>9, Parts DEF NodesInv, Apart
    <3> QED BY Zenon, <3>1, <3>2 DEF NodesInv
  <2>13. OnceInv'
    <3>1. OnceOf(r)
      BY Zenon, <2>3, <2>9 DEF OnceOf
    <3> QED BY Zenon, <2>1, <2>3, <2>9, <3>1, Parts, QuietOnce
  <2>14. LockInv'
    <3>1. LockOf(n, r)
      BY Zenon, <2>3, <2>9 DEF LockOf
    <3> QED BY Zenon, <2>1, <2>3, <3>1, Parts, QuietLock
  <2>15. Types'
    <3>1. store' \in SUBSET FileRec
      BY Zenon, <1>2, Parts DEF Types
    <3> QED BY Zenon, <2>1, <2>6, <2>7, <3>1, Parts DEF Types
  <2> QED BY Zenon, <2>8, <2>12, <2>13, <2>14, <2>15 DEF Inductive
<1> QED BY Zenon, <1>1, <1>2 DEF Delete

LEMMA TickStep ==
  ASSUME Inductive, Tick
  PROVE  Inductive'
<1>1. /\ now' = now + 1 /\ now < MaxTime /\ now \in Nat /\ now >= 1
      /\ LockTtl \in Nat /\ MaxTime \in Nat /\ slowest \in Nat /\ files \in Nat
      /\ UNCHANGED <<snaps, store, lock, node, upload, files, raced, twice, slowest>>
  BY Zenon, Parts, Numbers, Naturals DEF Tick
<1>2. Listed' = Listed /\ Current' = Current /\ Standing' = Standing /\ \A k \in Nat : Manifest(k)' = Manifest(k)
  BY Zenon, <1>1, SameSnaps
<1>3. \A f \in FileRec : Awaited(f) => Awaited(f)'
  <2>1. /\ now' \in Nat /\ now <= now' /\ slowest' \in Nat /\ slowest <= slowest'
        /\ files' \in Nat /\ files <= files'
    BY <1>1
  <2> QED BY Zenon, <1>1, <2>1, Parts, AwaitedKept
<1>4. TableInv'
  <2>1. \A k \in 1 .. Current : k \in Nat
    BY Parts, Numbers
  <2>2. \A f \in upload : Awaited(f)'
    BY Zenon, <1>3, Parts DEF Types, TableInv
  <2>3. FilesExist'
    BY Zenon, <1>1, <1>2, Parts DEF TableInv, FilesExist, CommittedLate
  <2> QED BY <1>1, <1>2, <2>1, <2>2, <2>3, Parts DEF TableInv
<1>5. ASSUME NEW n \in Nodes PROVE NodeInv(node[n])'
  <2>1. /\ NodeInv(node[n]) /\ node'[n] = node[n] /\ node[n].started \in Nat /\ node[n].at \in Nat
        /\ node[n].output \subseteq FileRec
    BY Zenon, <1>1, Parts, Fields
  <2>2. node[n].pc \in Sweeping => SweepInv(node[n])'
    <3>1. /\ node[n].started <= now => node[n].started <= now'
          /\ node[n].at <= now => node[n].at <= now'
      BY <1>1, <2>1
    <3> QED BY Zenon, <1>1, <1>2, <2>1, <3>1 DEF NodeInv, SweepInv
  <2>3. node[n].pc \in Replacing => OutputInv(node[n])'
    BY Zenon, <1>1, <1>3, <2>1 DEF NodeInv, OutputInv
  <2> QED BY Zenon, <1>2, <2>1, <2>2, <2>3 DEF NodeInv
<1>6. NodesInv'
  BY Zenon, <1>1, <1>5, Parts DEF NodesInv, Apart
<1>7. LockInv'
  <2>1. ASSUME NEW n \in Nodes PROVE LockOf(n, node[n])'
    <3>1. LockOf(n, node[n]) /\ node'[n] = node[n] /\ node[n].at \in Nat
      BY Zenon, <1>1, Parts, Fields
    <3>2. /\ node[n].at <= now => node[n].at <= now'
          /\ now - node[n].at > LockTtl => now' - node[n].at > LockTtl
      BY <1>1, <3>1
    <3> QED BY Zenon, <1>1, <3>1, <3>2 DEF LockOf
  <2> QED BY Zenon, <1>1, <2>1, Parts DEF LockInv
<1>8. Types'
  <2>1. now' \in 1 .. MaxTime
    BY <1>1
  <2> QED BY Zenon, <1>1, <1>2, <2>1, Parts DEF Types
<1> QED BY Zenon, <1>1, <1>4, <1>6, <1>7, <1>8, Parts, SameOnce DEF Inductive

-----------------------------------------------------------------------------
(* The theorems. *)

LEMMA Begins ==
  Init => Inductive
<1> SUFFICES ASSUME Init PROVE Inductive
  OBVIOUS
<1>1. /\ now = 1 /\ upload = {} /\ files = InitialFiles /\ store = {File(f, {f}) : f \in 1 .. InitialFiles}
      /\ snaps = [f \in 1 .. InitialFiles |-> [ts |-> 1, adds |-> {File(f, {f})}, removes |-> {}]]
      /\ lock = [owner |-> NoOwner, ts |-> 0] /\ node = [n \in Nodes |-> Idle]
      /\ raced = FALSE /\ twice = FALSE /\ slowest = 0
  BY Zenon DEF Init
<1> DEFINE F(f) == File(f, {f})
<1>2. \A f \in 1 .. InitialFiles : /\ F(f) \in FileRec /\ F(f).rows = {f} /\ F(f).id <= InitialFiles
                                  /\ f <= InitialFiles
                                  /\ [ts |-> 1, adds |-> {F(f)}, removes |-> {}] \in Snap
  BY <1>1, Naturals DEF File, FileRec, Snap
<1> HIDE DEF F
<1>3. snaps \in Seq(Snap) /\ Current = InitialFiles
  <2>1. snaps \in [1 .. InitialFiles -> Snap] /\ InitialFiles \in Nat
    BY Zenon, <1>1, <1>2, Naturals DEF F
  <2> QED BY <2>1 DEF Current
<1>13. \A f \in 1 .. InitialFiles : snaps[f].adds = {F(f)} /\ snaps[f].removes = {}
  BY Zenon, <1>1 DEF F
<1>14. \A g : g \in store <=> \E f \in 1 .. InitialFiles : g = F(f)
  BY Zenon, <1>1 DEF F
<1>15. \A g \in store : g \in FileRec /\ g.id <= InitialFiles /\ \A x \in g.rows : x <= InitialFiles
  <2> SUFFICES ASSUME NEW g \in store
               PROVE  g \in FileRec /\ g.id <= InitialFiles /\ \A x \in g.rows : x <= InitialFiles
    OBVIOUS
  <2>1. PICK f \in 1 .. InitialFiles : g = F(f)
    BY Zenon, <1>14
  <2>2. F(f) \in FileRec /\ F(f).rows = {f} /\ F(f).id <= InitialFiles /\ f <= InitialFiles
    BY Zenon, <1>2
  <2> QED BY <2>1, <2>2
<1>4. Listed = store
  <2>1. \A g : g \in Listed <=> \E f \in 1 .. InitialFiles : g \in snaps[f].adds
    BY Zenon, <1>3 DEF Listed, Manifest
  <2>2. \A g : g \in Listed <=> \E f \in 1 .. InitialFiles : g = F(f)
    BY <2>1, <1>13
  <2> QED BY Zenon, <2>2, <1>14
<1>5. Superseded = {} /\ Standing = store
  <2>1. \A g : g \in Superseded <=> \E f \in 1 .. InitialFiles : g \in snaps[f].removes
    BY Zenon, <1>3 DEF Superseded
  <2>2. Superseded = {}
    BY Zenon, <2>1, <1>13
  <2> QED BY Zenon, <2>2, <1>4 DEF Standing
<1>6. Idle \in NodeRec /\ Idle.pc = "idle" /\ Idle.base = 0
  <2>1. [owner |-> NoOwner, ts |-> 0] \in LockRec /\ "idle" \in Stages
    BY DEF LockRec, Stages
  <2> QED BY <2>1 DEF Idle, NodeRec
<1>7. Types
  <2>1. now \in 1 .. MaxTime /\ files \in 0 .. MaxFiles /\ Current <= MaxSnaps /\ lock \in LockRec
    BY <1>1, <1>3, Naturals DEF LockRec
  <2>2. store \in SUBSET FileRec
    BY Zenon, <1>15
  <2>3. slowest \in Nat
    BY <1>1
  <2> QED BY Zenon, <1>1, <1>3, <1>6, <2>1, <2>2, <2>3 DEF Types
<1>8. TableInv
  <2>1. \A f \in store : f.id <= files /\ \A x \in f.rows : x <= files
    BY <1>1, <1>15
  <2>2. \A k \in 1 .. Current : snaps[k].removes \subseteq Manifest(k)
    BY Zenon, <1>13, <1>3
  <2>3. FilesExist
    BY Zenon, <1>4 DEF FilesExist, Listed, Manifest
  <2> QED BY Zenon, <1>1, <1>4, <1>5, <2>1, <2>2, <2>3 DEF TableInv
<1>9. /\ NodeInv(Idle) /\ OnceOf(Idle) /\ Idle.pc \notin Labour /\ Idle.pc \notin Replacing
      /\ \A n \in Nodes : LockOf(n, Idle) /\ node[n] = Idle
  <2>1. Idle.base <= Current
    BY <1>3, <1>6, Naturals
  <2>2. Idle.pc \notin Labour /\ Idle.pc \notin Replacing
    BY Zenon, <1>6, PlanStages
  <2>3. \A n \in Nodes : NodeInv(Idle) /\ OnceOf(Idle) /\ LockOf(n, Idle)
    BY Zenon, <1>6, <2>1, Resting
  <2>4. \A n \in Nodes : node[n] = Idle
    BY Zenon, <1>1
  <2>5. NodeInv(Idle) /\ OnceOf(Idle)
    <3>1. /\ Idle.pc \notin Sweeping /\ Idle.pc \notin Loaded /\ Idle.pc \notin Grouped
          /\ Idle.pc \notin {"verify", "rewrite", "replace_apply"} /\ Idle.pc # "replace"
      BY <1>6 DEF Sweeping, Loaded, Grouped, Replacing
    <3> QED BY Zenon, <2>1, <2>2, <3>1 DEF NodeInv, OnceOf
  <2> QED BY Zenon, <2>2, <2>3, <2>4, <2>5
<1>10. NodesInv
  BY Zenon, <1>9 DEF NodesInv, Apart
<1>11. OnceInv
  <2>1. \A f, g \in store : f = g \/ f.rows \cap g.rows = {}
    <3> SUFFICES ASSUME NEW f \in 1 .. InitialFiles, NEW g \in 1 .. InitialFiles,
                        F(f).rows \cap F(g).rows # {}
                 PROVE  F(f) = F(g)
      BY <1>14
    <3>1. f = g
      BY Zenon, <1>2
    <3> QED BY Zenon, <3>1
  <2> QED BY Zenon, <1>5, <1>9, <2>1 DEF OnceInv
<1>12. LockInv
  <2>1. lock.owner = NoOwner /\ lock.ts = 0
    BY <1>1
  <2> QED BY Zenon, <1>9, <2>1 DEF LockInv
<1> QED BY Zenon, <1>7, <1>8, <1>10, <1>11, <1>12 DEF Inductive

LEMMA Steps ==
  Inductive /\ [Next]_vars => Inductive'
<1> SUFFICES ASSUME Inductive, [Next]_vars PROVE Inductive'
  OBVIOUS
<1>1. CASE UNCHANGED vars
  BY Zenon, <1>1, KeepStep DEF vars
<1>2. ASSUME NEW n \in Nodes, Compact(n) PROVE Inductive'
  BY Zenon, <1>2, AcquireLoadStep, CheckStep, AcquireApplyStep, PlanSnapshotStep, PlanFilesStep,
     NextGroupStep, VerifyStep, RewriteStep, ReplaceCheckStep, ReplaceApplyStep, ReleaseLoadStep,
     ReleaseApplyStep DEF Compact
<1>3. ASSUME NEW n \in Nodes, Sweep(n) PROVE Inductive'
  BY Zenon, <1>3, ProtectStep, ListStep, DeleteStep DEF Sweep
<1>4. ASSUME NEW n \in Nodes, Crash(n) PROVE Inductive'
  BY Zenon, <1>4, RestStep DEF Crash
<1> QED BY Zenon, <1>1, <1>2, <1>3, <1>4, UploadStep, AppendStep, TickStep DEF Next

LEMMA Invariant == Spec => []Inductive
  BY Begins, Steps, PTL DEF Spec

\* No orphan sweep deletes a file that a snapshot lists, unless the file's age
\* when it was committed and the longest sweep together reached the orphan age:
\* for any ages, node counts and durations, with nothing assumed about how long
\* a flush keeps its intent or a sweep its protected set.
THEOREM SweepsSpareListed == Spec => []FilesExist
<1>1. Inductive => FilesExist
  BY Zenon DEF Inductive, TableInv
<1> QED BY <1>1, Invariant, PTL

\* Every committed row stays in a live file; it is in one only while nodes
\* take turns under the compaction lock; and they do, unless a lock outlived
\* its time to live or an update of it raced another.
THEOREM CompactionKeepsRows == Spec => []RowsSound
<1>1. Inductive => TypeOK
  <2> SUFFICES ASSUME Inductive PROVE TypeOK
    OBVIOUS
  <2>1. lock.owner \in Nodes \cup {NoOwner} /\ (lock.owner = NoOwner <=> lock.ts = 0)
    BY Parts DEF Types, LockRec, LockInv
  <2>2. \A n \in Nodes : node[n].base <= Current
    BY Zenon, Parts DEF NodeInv
  <2> QED BY Zenon, <2>1, <2>2, Parts DEF TypeOK, Types, TableInv
<1>2. Inductive => RowsKept
  <2> SUFFICES ASSUME Inductive PROVE RowsKept
    OBVIOUS
  <2>1. \A f \in Manifest(Current) : \A x \in f.rows : \E g \in Live(Current) : x \in g.rows
    BY Zenon, Parts DEF TableInv, Listed, Standing, Superseded, Live
  <2> QED BY <2>1 DEF RowsKept, CommittedRows
<1>3. Inductive => RowsOnce
  BY Zenon, Parts DEF OnceInv, Standing, Superseded, Listed, Live, RowsOnce, Disjoint
<1>4. Inductive => LockHeld
  <2> SUFFICES ASSUME Inductive, NEW m \in Nodes, NEW n \in Nodes, m # n, Working(m), Working(n),
                      ~raced, ~(now - node[m].at > LockTtl), ~(now - node[n].at > LockTtl)
               PROVE  FALSE
    BY Zenon DEF LockHeld
  <2>1. node[m].pc \in Labour /\ node[n].pc \in Labour
    BY Zenon, PlanStages
  <2>2. lock = [owner |-> m, ts |-> node[m].at] /\ lock = [owner |-> n, ts |-> node[n].at]
    BY Zenon, <2>1, Parts DEF LockOf
  <2> QED BY <2>2
<1> QED BY <1>1, <1>2, <1>3, <1>4, Invariant, PTL DEF RowsSound

=============================================================================
