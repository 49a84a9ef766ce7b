---------------------------- MODULE WalRootProofs ----------------------------
(***************************************************************************)
(* The lease, the epochs, the commits and the segments of a WAL root, for  *)
(* any number of processes, clusters and lives.                            *)
(*                                                                         *)
(* As long as no release removes a lease file that another process has     *)
(* open, every process that has the file open has the one `.lease' names,  *)
(* so two holders would hold the same lock; the holder is then the last    *)
(* life there was, and everything it reads was written by earlier ones.    *)
(***************************************************************************)
EXTENDS WalRoot, TLAPS

Writers == Clusters \cup {Fresh}

Process ==
  [pc : {"down", "opened", "locked", "created", "read", "raised", "up", "unlocked"},
   inode : Nat, boot : Nat, config : Clusters \cup {NoCluster},
   cluster : Writers \cup {NoCluster}, epoch : Nat, next : Nat, open : Nat, loaded : BOOLEAN]

RootType ==
  /\ proc \in [Procs -> Process]
  /\ boots \in Nat /\ locks \in Seq(Nat) /\ lease \in 0..Len(locks)
  /\ identity \in [cluster : Writers \cup {NoCluster}, epoch : Nat]
  /\ durable \in [cluster : Writers \cup {NoCluster}, epoch : Nat]
  /\ segments \in SUBSET [seq : 0..MaxSegments, boot : Nat]
  /\ checkpoint \in [Writers -> Nat]
  /\ served \in SUBSET [boot : Nat, epoch : Nat]
  /\ commits \in SUBSET [writer : Writers, epoch : Nat, boot : Nat]
  /\ unlinked \in BOOLEAN /\ replaced \in BOOLEAN

\* A process that holds the lock it took.
Held == {"locked", "created", "read", "raised", "up"}
Holds(p) == proc[p].pc \in Held

\* The lock of a holder is its own, and while no file was removed under a process,
\* all processes have the same file open and the holder is the last life.
LeaseOf(p) ==
  /\ proc[p].pc # "down" => proc[p].inode \in 1..Len(locks)
  /\ proc[p].pc \in {"down", "opened"} => proc[p].boot = NoBoot
  /\ proc[p].pc \notin {"down", "opened"} => proc[p].boot \in 1..boots
  /\ Holds(p) => locks[proc[p].inode] = proc[p].boot
  /\ ~unlinked => /\ proc[p].pc # "down" => proc[p].inode = lease
                  /\ Holds(p) => proc[p].boot = boots

BootsDiffer ==
  \A p, q \in Procs : p # q /\ proc[p].boot # NoBoot => proc[p].boot # proc[q].boot

LeaseInv == BootsDiffer /\ \A p \in Procs : LeaseOf(p)

\* An identity that is there names a writer, and what is durable is not ahead of
\* what is there: a process that serves, and a root with segments, have a durable one.
IdentityInv ==
  /\ identity = NoIdentity \/ identity.cluster \in Writers
  /\ durable = NoIdentity \/ (durable.cluster \in Writers /\ identity.cluster \in Writers)
  /\ segments # {} => durable.cluster \in Writers
  /\ \A p \in Procs :
       /\ proc[p].pc \in {"created", "read", "raised", "up"} =>
            proc[p].cluster \in Writers /\ identity.cluster \in Writers
       /\ proc[p].pc = "up" => durable.cluster \in Writers

Base == RootType /\ LeaseInv /\ IdentityInv

\* What a process knows at each stage of its life.
LifeOf(p) ==
  /\ proc[p].pc \notin {"up", "unlocked"} => proc[p].open = 0 /\ proc[p].loaded = FALSE
  /\ proc[p].pc \in {"down", "opened", "locked", "created"} => proc[p].epoch = 0
  /\ proc[p].pc \in {"raised", "up"} => proc[p].epoch > 0
  /\ proc[p].open # 0 => proc[p].loaded = TRUE

LifeInv == \A p \in Procs : LifeOf(p)

\* The epoch on disk is the holder's, durable once it serves, and no epoch that was
\* served is above the durable one.
EpochOf(p) ==
  /\ proc[p].pc \in {"created", "read", "raised", "up"} => proc[p].epoch = identity.epoch
  /\ proc[p].pc = "raised" => durable.epoch < identity.epoch
  /\ proc[p].pc = "up" => durable.epoch = identity.epoch

ServedInv ==
  /\ durable.epoch <= identity.epoch
  /\ \A s \in served : s.boot <= boots /\ s.epoch <= durable.epoch
  /\ \A a, b \in served : a.boot < b.boot => a.epoch < b.epoch

EpochInv == ~unlinked /\ ~replaced => ServedInv /\ \A p \in Procs : EpochOf(p)

\* A process that loaded the table has an epoch no other life committed under.
CommitOf(p) ==
  proc[p].pc = "up" /\ proc[p].loaded = TRUE =>
    \A c \in commits : c.writer = proc[p].cluster => c.epoch < proc[p].epoch \/ c.boot = proc[p].boot

CommittedInv ==
  /\ \A c \in commits : 0 < c.epoch /\ c.epoch <= checkpoint[c.writer]
  /\ \A a, b \in commits : a.writer = b.writer /\ a.epoch = b.epoch => a.boot = b.boot

CommitInv == ~unlinked => CommittedInv /\ \A p \in Procs : CommitOf(p)

\* The next segment's number is above all there are.
SegmentOf(p) == proc[p].pc = "up" => \A s \in segments : s.seq < proc[p].next

SegmentInv ==
  ~unlinked => /\ \A a, b \in segments : a.seq = b.seq => a.boot = b.boot
               /\ \A p \in Procs : SegmentOf(p)

RootInv == Base /\ LifeInv /\ EpochInv /\ CommitInv /\ SegmentInv

-----------------------------------------------------------------------------
(* The lease. *)

\* What a step of one process changes.
LEMMA OneProcess ==
  ASSUME RootType, NEW p \in Procs, NEW r \in Process, proc' = [proc EXCEPT ![p] = r]
  PROVE  /\ proc' \in [Procs -> Process] /\ proc'[p] = r
         /\ \A q \in Procs : q # p => proc'[q] = proc[q]
  BY Zenon DEF RootType

\* Two holders would hold the same lock.
LEMMA HolderUnique ==
  ASSUME RootType, LeaseInv, ~unlinked, NEW p \in Procs, NEW q \in Procs, Holds(p), Holds(q)
  PROVE  p = q
<1>1. proc[p].boot = boots /\ proc[q].boot = boots
  BY Zenon DEF LeaseInv, LeaseOf
<1>2. proc[p].boot \in 1..boots
  BY Zenon DEF LeaseInv, LeaseOf, BootsDiffer, Holds, Held
<1>3. proc[p].boot # NoBoot
  BY <1>2 DEF RootType, NoBoot
<1> QED BY Zenon, <1>1, <1>3 DEF LeaseInv, BootsDiffer

LEMMA OneHolderHolds == RootType /\ LeaseInv => OneHolder
<1> SUFFICES ASSUME RootType, LeaseInv, ~unlinked, NEW p \in Holders, NEW q \in Holders
             PROVE  p = q
  BY Zenon DEF OneHolder
<1>1. p \in Procs /\ q \in Procs /\ Holds(p) /\ Holds(q)
  BY Zenon DEF Holders, Holds, Held, LeaseInv, LeaseOf, RootType, Process
<1> QED BY Zenon, <1>1, HolderUnique

\* A step of a holder that stays one does not touch the lease.
LEMMA HolderStepsKeepLease ==
  ASSUME RootType, LeaseInv, NEW p \in Procs, NEW r \in Process,
         Holds(p), r.pc \in Held, r.inode = proc[p].inode, r.boot = proc[p].boot,
         proc' = [proc EXCEPT ![p] = r], UNCHANGED <<lease, locks, boots, unlinked>>
  PROVE  LeaseInv'
<1>1. /\ proc'[p] = r
      /\ \A q \in Procs : q # p => proc'[q] = proc[q]
  BY Zenon DEF RootType
<1>2. \A q \in Procs : /\ proc'[q].inode = proc[q].inode /\ proc'[q].boot = proc[q].boot
                       /\ (proc'[q].pc \in Held) = (proc[q].pc \in Held)
                       /\ (proc'[q].pc = "down") = (proc[q].pc = "down")
                       /\ (proc'[q].pc \in {"down", "opened"}) = (proc[q].pc \in {"down", "opened"})
  BY <1>1 DEF Held, Holds
<1> QED BY <1>2 DEF LeaseInv, LeaseOf, BootsDiffer, Holds, Held

\* A process that stops lets go of its own lock and of no other.
LEMMA UnlockedOthers ==
  ASSUME RootType, LeaseInv, NEW p \in Procs
  PROVE  /\ Unlocked(p) \in Seq(Nat) /\ Len(Unlocked(p)) = Len(locks)
         /\ \A q \in Procs : q # p /\ Holds(q) =>
              Unlocked(p)[proc[q].inode] = proc[q].boot
<1>1. DOMAIN locks = 1..Len(locks) /\ Len(locks) \in Nat /\ \A i \in 1..Len(locks) : locks[i] \in Nat
  BY DEF RootType
<1>2. Unlocked(p) \in [1..Len(locks) -> Nat]
  BY Zenon, <1>1 DEF Unlocked, NoBoot
<1>3. Unlocked(p) \in Seq(Nat) /\ Len(Unlocked(p)) = Len(locks)
  BY <1>1, <1>2
<1>4. ASSUME NEW q \in Procs, q # p, Holds(q) PROVE Unlocked(p)[proc[q].inode] = proc[q].boot
  <2>1. /\ proc[q].inode \in 1..Len(locks) /\ locks[proc[q].inode] = proc[q].boot
        /\ proc[p].boot # NoBoot => proc[p].boot # proc[q].boot
    BY Zenon, <1>4 DEF LeaseInv, LeaseOf, BootsDiffer, Holds, Held
  <2> QED BY Zenon, <2>1, <1>1 DEF Unlocked
<1> QED BY Zenon, <1>3, <1>4

LEMMA StopKeepsLease ==
  ASSUME RootType, LeaseInv, NEW p \in Procs, Stop(p), UNCHANGED <<lease, boots, unlinked>>
  PROVE  LeaseInv'
<1>1. /\ proc'[p] = Down /\ locks' = Unlocked(p)
      /\ \A q \in Procs : q # p => proc'[q] = proc[q]
  BY Zenon DEF RootType, Stop
<1>2. proc'[p].pc = "down" /\ proc'[p].boot = NoBoot
  BY <1>1 DEF Down
<1>3. Len(locks') = Len(locks)
  BY Zenon, <1>1, UnlockedOthers
<1>4. ASSUME NEW q \in Procs PROVE LeaseOf(q)'
  <2>1. CASE q = p
    BY Zenon, <2>1, <1>2 DEF LeaseOf, Holds, Held
  <2>2. CASE q # p
    <3>1. proc'[q] = proc[q] /\ (Holds(q)' <=> Holds(q))
      BY Zenon, <2>2, <1>1 DEF Holds
    <3>2. Holds(q) => locks'[proc[q].inode] = proc[q].boot
      BY Zenon, <2>2, <1>1, UnlockedOthers
    <3> QED BY Zenon, <3>1, <3>2, <1>3 DEF LeaseInv, LeaseOf
  <2> QED BY Zenon, <2>1, <2>2
<1>5. BootsDiffer'
  BY Zenon, <1>1, <1>2 DEF LeaseInv, BootsDiffer
<1> QED BY Zenon, <1>4, <1>5 DEF LeaseInv

\* The lease file is opened, or made when nobody has one open.
LEMMA OpenLeaseKeepsLease ==
  ASSUME RootType, LeaseInv, NEW p \in Procs, NEW config \in Clusters \cup {NoCluster},
         OpenLease(p, config)
  PROVE  LeaseInv' /\ RootType'
<1> DEFINE inode == IF lease = 0 THEN Len(locks) + 1 ELSE lease
           r == [Down EXCEPT !.pc = "opened", !.inode = inode, !.config = config]
<1>1. /\ proc' = [proc EXCEPT ![p] = r] /\ lease' = inode
      /\ locks' = IF lease = 0 THEN Append(locks, NoBoot) ELSE locks
      /\ proc[p].pc = "down"
      /\ UNCHANGED <<identity, durable, segments, checkpoint, boots, served, commits, unlinked, replaced>>
  BY Zenon DEF OpenLease
<1>2. Len(locks) \in Nat /\ inode \in Nat
  BY DEF RootType
<1>3. r \in Process /\ r.pc = "opened" /\ r.inode = inode /\ r.boot = NoBoot
  BY Zenon, <1>2 DEF Process, Down, NoBoot
<1>4. /\ locks' \in Seq(Nat) /\ Len(locks') >= Len(locks) /\ inode \in 1..Len(locks')
      /\ \A i \in 1..Len(locks) : locks'[i] = locks[i]
  BY <1>1 DEF RootType, NoBoot
<1> HIDE DEF r
<1>6. /\ proc' \in [Procs -> Process] /\ proc'[p] = r
      /\ \A q \in Procs : q # p => proc'[q] = proc[q]
  BY Zenon, <1>1, <1>3, OneProcess
<1>5. RootType'
  <2>1. lease' \in 0..Len(locks')
    BY <1>1, <1>4
  <2> HIDE DEF inode
  <2> QED BY Zenon, <1>1, <1>4, <1>6, <2>1 DEF RootType
<1>7. BootsDiffer'
  BY ZenonT(40), <1>6, <1>3 DEF LeaseInv, BootsDiffer
<1>8. ASSUME NEW q \in Procs PROVE LeaseOf(q)'
  <2>1. CASE q = p
    BY Zenon, <2>1, <1>1, <1>3, <1>4, <1>6 DEF LeaseOf, Holds, Held
  <2>2. CASE q # p
    <3>1. proc'[q] = proc[q] /\ (Holds(q)' <=> Holds(q)) /\ LeaseOf(q)
      BY Zenon, <2>2, <1>6 DEF Holds, LeaseInv
    <3>2. ~unlinked /\ proc[q].pc # "down" => lease # 0 /\ lease' = lease
      BY <3>1, <1>1, <1>2 DEF LeaseOf
    <3>3. Holds(q) => proc[q].inode \in 1..Len(locks) /\ locks'[proc[q].inode] = locks[proc[q].inode]
      BY Zenon, <3>1, <1>4 DEF LeaseOf, Holds, Held
    <3> QED BY <3>1, <3>2, <3>3, <1>1, <1>2, <1>4 DEF LeaseOf, RootType
  <2> QED BY Zenon, <2>1, <2>2
<1> QED BY Zenon, <1>5, <1>7, <1>8 DEF LeaseInv

LEMMA StopTyped ==
  ASSUME RootType, LeaseInv, NEW p \in Procs, Stop(p),
         UNCHANGED <<lease, boots, identity, durable, segments, checkpoint, served, commits, unlinked,
                     replaced>>
  PROVE  RootType'
<1>1. Down \in Process
  BY Zenon DEF Down, Process, NoBoot
<1>2. proc' \in [Procs -> Process]
  BY Zenon, <1>1, OneProcess DEF Stop
<1>3. locks' \in Seq(Nat) /\ Len(locks') = Len(locks)
  BY Zenon, UnlockedOthers DEF Stop
<1> QED BY Zenon, <1>2, <1>3 DEF RootType

\* try_lock_exclusive: the lock was free, so there is no holder of it, and unless a
\* file was removed there is no holder at all.
LEMMA TryLockKeepsLease ==
  ASSUME RootType, LeaseInv, NEW p \in Procs, TryLock(p)
  PROVE  LeaseInv' /\ RootType'
<1>1. CASE ~(locks[proc[p].inode] = NoBoot /\ boots < MaxBoots)
  BY Zenon, <1>1, StopKeepsLease, StopTyped DEF TryLock
<1>2. CASE locks[proc[p].inode] = NoBoot /\ boots < MaxBoots
  <2> DEFINE r == [proc[p] EXCEPT !.pc = "locked", !.boot = boots + 1]
  <2>1. /\ proc[p].pc = "opened" /\ boots' = boots + 1
        /\ proc' = [proc EXCEPT ![p] = r]
        /\ locks' = [locks EXCEPT ![proc[p].inode] = boots + 1]
        /\ UNCHANGED <<lease, identity, durable, segments, checkpoint, served, commits, unlinked, replaced>>
    BY Zenon, <1>2 DEF TryLock
  <2>2. r \in Process /\ r.pc = "locked" /\ r.boot = boots + 1 /\ r.inode = proc[p].inode
    <3>1. proc[p] \in Process /\ boots + 1 \in Nat
      BY DEF RootType
    <3> QED BY Zenon, <3>1 DEF Process
  <2> HIDE DEF r
  <2>3. /\ proc' \in [Procs -> Process] /\ proc'[p] = r
        /\ \A q \in Procs : q # p => proc'[q] = proc[q]
    BY Zenon, <2>1, <2>2, OneProcess
  <2>4. proc[p].inode \in 1..Len(locks) /\ LeaseOf(p)
    BY Zenon, <2>1 DEF LeaseInv, LeaseOf
  <2>5. /\ locks' \in Seq(Nat) /\ Len(locks') = Len(locks)
        /\ locks'[proc[p].inode] = boots + 1
        /\ \A i \in 1..Len(locks) : i # proc[p].inode => locks'[i] = locks[i]
    BY <2>1, <2>4 DEF RootType
  <2>6. RootType'
    <3>1. boots' \in Nat
      BY <2>1 DEF RootType
    <3> QED BY Zenon, <2>1, <2>3, <2>5, <3>1 DEF RootType
  <2>7. BootsDiffer'
    <3>1. \A q \in Procs : proc[q].boot # boots + 1
      <4>1. boots \in Nat /\ \A q \in Procs : proc[q].boot \in 0..boots
        BY SMTT(30) DEF LeaseInv, LeaseOf, RootType, Process, NoBoot
      <4> QED BY <4>1
    <3> QED BY ZenonT(40), <3>1, <2>2, <2>3 DEF BootsDiffer, LeaseInv
  <2>8. ASSUME NEW q \in Procs PROVE LeaseOf(q)'
    <3>1. CASE q = p
      BY SMTT(30), <3>1, <2>1, <2>2, <2>3, <2>4, <2>5 DEF LeaseOf, Holds, Held, RootType
    <3>2. CASE q # p
      <4>1. proc'[q] = proc[q] /\ (Holds(q)' <=> Holds(q)) /\ LeaseOf(q)
        BY Zenon, <3>2, <2>3 DEF Holds, LeaseInv
      <4>2. Holds(q) => proc[q].inode # proc[p].inode /\ proc[q].inode \in 1..Len(locks)
        <5> SUFFICES ASSUME Holds(q) PROVE proc[q].inode # proc[p].inode /\ proc[q].inode \in 1..Len(locks)
          BY Zenon
        <5>1. locks[proc[q].inode] = proc[q].boot /\ proc[q].boot \in 1..boots
              /\ proc[q].inode \in 1..Len(locks)
          BY Zenon, <4>1 DEF LeaseOf, Holds, Held
        <5> QED BY <5>1, <1>2 DEF NoBoot, RootType
      <4>3. Holds(q) => unlinked
        BY Zenon, <4>1, <4>2, <2>4, <2>1 DEF LeaseOf, Holds, Held
      <4> QED BY <4>1, <4>2, <4>3, <2>1, <2>5 DEF LeaseOf, RootType
    <3> QED BY Zenon, <3>1, <3>2
  <2> QED BY Zenon, <2>6, <2>7, <2>8 DEF LeaseInv
<1> QED BY Zenon, <1>1, <1>2

\* release_lease, its first half.
LEMMA UnlockKeepsLease ==
  ASSUME RootType, LeaseInv, NEW p \in Procs, Unlock(p)
  PROVE  LeaseInv' /\ RootType'
<1> DEFINE r == [proc[p] EXCEPT !.pc = "unlocked"]
<1>1. /\ proc[p].pc = "up" /\ proc' = [proc EXCEPT ![p] = r] /\ locks' = Unlocked(p)
      /\ UNCHANGED <<lease, identity, durable, segments, checkpoint, boots, served, commits, unlinked, replaced>>
  BY Zenon DEF Unlock, Goes
<1>2. r \in Process /\ r.pc = "unlocked" /\ r.boot = proc[p].boot /\ r.inode = proc[p].inode
  <2>1. proc[p] \in Process
    BY Zenon DEF RootType
  <2> QED BY Zenon, <2>1 DEF Process
<1> HIDE DEF r
<1>3. /\ proc' \in [Procs -> Process] /\ proc'[p] = r
      /\ \A q \in Procs : q # p => proc'[q] = proc[q]
  BY Zenon, <1>1, <1>2, OneProcess
<1>4. locks' \in Seq(Nat) /\ Len(locks') = Len(locks)
  BY Zenon, <1>1, UnlockedOthers
<1>5. RootType'
  BY Zenon, <1>1, <1>3, <1>4 DEF RootType
<1>6. BootsDiffer'
  BY <1>2, <1>3 DEF BootsDiffer, LeaseInv
<1>7. ASSUME NEW q \in Procs PROVE LeaseOf(q)'
  <2>1. CASE q = p
    BY Zenon, <2>1, <1>1, <1>2, <1>3, <1>4 DEF LeaseInv, LeaseOf, Holds, Held
  <2>2. CASE q # p
    <3>1. proc'[q] = proc[q] /\ (Holds(q)' <=> Holds(q)) /\ LeaseOf(q)
      BY Zenon, <2>2, <1>3 DEF Holds, LeaseInv
    <3>2. Holds(q) => locks'[proc[q].inode] = proc[q].boot
      BY Zenon, <2>2, <1>1, UnlockedOthers
    <3> QED BY Zenon, <3>1, <3>2, <1>1, <1>4 DEF LeaseOf
  <2> QED BY Zenon, <2>1, <2>2
<1> QED BY Zenon, <1>5, <1>6, <1>7 DEF LeaseInv

\* release_lease, its second half: the ghost says whether somebody was in between.
LEMMA RemoveLeaseKeepsLease ==
  ASSUME RootType, LeaseInv, NEW p \in Procs, RemoveLease(p)
  PROVE  LeaseInv' /\ RootType'
<1>1. /\ proc[p].pc = "unlocked" /\ proc' = [proc EXCEPT ![p] = Down] /\ lease' = 0
      /\ unlinked' = (unlinked \/ (lease # 0 /\ \E q \in Procs \ {p} : HasOpen(q, lease)))
      /\ UNCHANGED <<locks, identity, durable, segments, checkpoint, boots, served, commits, replaced>>
  BY Zenon DEF RemoveLease
<1>2. Down \in Process
  BY Zenon DEF Down, Process, NoBoot
<1>3. /\ proc' \in [Procs -> Process] /\ proc'[p] = Down
      /\ \A q \in Procs : q # p => proc'[q] = proc[q]
  BY Zenon, <1>1, <1>2, OneProcess
<1>4. RootType'
  <2>1. lease' \in 0..Len(locks') /\ unlinked' \in BOOLEAN
    BY <1>1 DEF RootType
  <2> QED BY Zenon, <1>1, <1>3, <2>1 DEF RootType
<1>5. BootsDiffer'
  BY <1>3 DEF BootsDiffer, LeaseInv, Down
<1>6. ASSUME NEW q \in Procs PROVE LeaseOf(q)'
  <2>1. CASE q = p
    BY Zenon, <2>1, <1>1, <1>3 DEF LeaseOf, Holds, Held, Down
  <2>2. CASE q # p
    <3>1. proc'[q] = proc[q] /\ (Holds(q)' <=> Holds(q)) /\ LeaseOf(q) /\ LeaseOf(p)
      BY Zenon, <2>2, <1>3 DEF Holds, LeaseInv
    <3>2. ~unlinked' => ~unlinked /\ proc[q].pc = "down"
      <4> SUFFICES ASSUME ~unlinked' PROVE ~unlinked /\ proc[q].pc = "down"
        BY Zenon
      <4>1. ~unlinked /\ proc[p].inode = lease /\ lease # 0
        BY <1>1, <3>1 DEF LeaseOf, RootType
      <4>2. ~HasOpen(q, lease)
        BY Zenon, <1>1, <4>1, <2>2
      <4> QED BY Zenon, <4>1, <4>2, <3>1 DEF HasOpen, LeaseOf
    <3> QED BY Zenon, <3>1, <3>2, <1>1 DEF LeaseOf, Holds, Held
  <2> QED BY Zenon, <2>1, <2>2
<1> QED BY Zenon, <1>4, <1>5, <1>6 DEF LeaseInv

\* Without processes nothing is held.
LEMMA AllDownKeepLease ==
  ASSUME RootType, \A p \in Procs : proc'[p] = Down
  PROVE  LeaseInv'
  BY DEF LeaseInv, BootsDiffer, LeaseOf, Holds, Held, Down

LEMMA PowerLossKeepsBase == ASSUME Base, PowerLoss PROVE Base'
<1> USE DEF Base
<1>1. /\ proc' = [p \in Procs |-> Down] /\ locks' = [i \in DOMAIN locks |-> NoBoot]
      /\ identity' \in {identity, durable} /\ durable' = identity'
      /\ UNCHANGED <<lease, segments, checkpoint, boots, served, commits, unlinked, replaced>>
  BY Zenon DEF PowerLoss
<1>2. Down \in Process
  BY Zenon DEF Down, Process, NoBoot
<1>3. proc' \in [Procs -> Process] /\ \A p \in Procs : proc'[p] = Down
  BY Zenon, <1>1, <1>2
<1>4. locks' \in Seq(Nat) /\ Len(locks') = Len(locks)
  <2>1. DOMAIN locks = 1..Len(locks) /\ Len(locks) \in Nat
    BY DEF RootType
  <2>2. locks' \in [1..Len(locks) -> Nat]
    BY Zenon, <1>1, <2>1 DEF NoBoot
  <2> QED BY <2>1, <2>2
<1>5. RootType'
  BY Zenon, <1>1, <1>3, <1>4 DEF RootType
<1>6. LeaseInv'
  BY Zenon, <1>3, AllDownKeepLease
<1>7. IdentityInv'
  <2>1. \A p \in Procs : proc'[p].pc = "down"
    BY <1>3 DEF Down
  <2> QED BY Zenon, <1>1, <2>1 DEF IdentityInv
<1> QED BY Zenon, <1>5, <1>6, <1>7

LEMMA ReplaceVolumeKeepsBase == ASSUME Base, ReplaceVolume PROVE Base'
<1> USE DEF Base
<1>1. /\ \A p \in Procs : proc[p].pc = "down"
      /\ replaced' = TRUE /\ identity' = NoIdentity /\ durable' = NoIdentity /\ segments' = {}
      /\ lease' = 0
      /\ UNCHANGED <<proc, locks, checkpoint, boots, served, commits, unlinked>>
  BY Zenon DEF ReplaceVolume
<1>2. NoIdentity \in [cluster : Writers \cup {NoCluster}, epoch : Nat]
  BY Zenon DEF NoIdentity
<1>3. RootType'
  <2>1. lease' \in 0..Len(locks')
    BY <1>1 DEF RootType
  <2> QED BY Zenon, <1>1, <1>2, <2>1 DEF RootType
<1>4. LeaseInv'
  BY Zenon, <1>1 DEF LeaseInv, BootsDiffer, LeaseOf, Holds, Held
<1>5. IdentityInv'
  BY Zenon, <1>1 DEF IdentityInv
<1> QED BY Zenon, <1>3, <1>4, <1>5

-----------------------------------------------------------------------------
(* The identity, and the steps of a holder. *)

LEMMA IdentityKept ==
  ASSUME IdentityInv, UNCHANGED <<identity, durable, segments>>,
         \A q \in Procs : \/ proc'[q] = proc[q]
                         \/ proc'[q].pc \in {"down", "opened", "locked", "unlocked"}
  PROVE  IdentityInv'
  BY Zenon DEF IdentityInv

LEMMA StopKeepsBase ==
  ASSUME Base, NEW p \in Procs, Stop(p),
         UNCHANGED <<lease, boots, identity, durable, segments, checkpoint, served, commits, unlinked,
                     replaced>>
  PROVE  Base'
<1>1. \A q \in Procs : proc'[q] = proc[q] \/ proc'[q].pc = "down"
  BY Zenon DEF Base, RootType, Stop, Down
<1> QED BY Zenon, <1>1, StopTyped, StopKeepsLease, IdentityKept DEF Base

LEMMA LeaseStepsKeepBase ==
  ASSUME Base, NEW p \in Procs,
         \/ \E config \in Clusters \cup {NoCluster} : OpenLease(p, config)
         \/ TryLock(p) \/ Unlock(p) \/ RemoveLease(p)
  PROVE  Base'
<1>1. RootType' /\ LeaseInv'
  BY Zenon, OpenLeaseKeepsLease, TryLockKeepsLease, UnlockKeepsLease, RemoveLeaseKeepsLease DEF Base
<1>2. UNCHANGED <<identity, durable, segments>>
  BY Zenon DEF OpenLease, TryLock, Unlock, RemoveLease
<1>3. \A q \in Procs : q # p => proc'[q] = proc[q]
  BY Zenon DEF OpenLease, TryLock, Unlock, RemoveLease, Stop, Goes, Base, RootType
<1>4. proc'[p].pc \in {"down", "opened", "locked", "unlocked"}
  <2>1. proc[p] \in Process
    BY Zenon DEF Base, RootType
  <2>2. ASSUME NEW config \in Clusters \cup {NoCluster}, OpenLease(p, config)
        PROVE  proc'[p].pc = "opened"
    BY Zenon, <2>2 DEF OpenLease, Down, Base, RootType
  <2>3. CASE TryLock(p)
    BY <2>1, <2>3 DEF TryLock, Stop, Down, Base, RootType, Process
  <2>4. CASE Unlock(p)
    BY Zenon, <2>1, <2>4 DEF Unlock, Goes, Base, RootType, Process
  <2>5. CASE RemoveLease(p)
    BY Zenon, <2>5 DEF RemoveLease, Down, Base, RootType
  <2> QED BY Zenon, <2>2, <2>3, <2>4, <2>5
<1> QED BY Zenon, <1>1, <1>2, <1>3, <1>4, IdentityKept DEF Base

LEMMA HolderStepKeepsBase ==
  ASSUME Base, NEW p \in Procs, NEW r \in Process,
         Holds(p), r.pc \in Held, r.inode = proc[p].inode, r.boot = proc[p].boot,
         proc' = [proc EXCEPT ![p] = r], UNCHANGED <<lease, locks, boots, unlinked, replaced>>,
         identity' \in [cluster : Writers \cup {NoCluster}, epoch : Nat],
         identity' = identity \/ identity'.cluster \in Writers,
         durable' = durable \/ (durable' = identity' /\ identity'.cluster \in Writers),
         segments' \in SUBSET [seq : 0..MaxSegments, boot : Nat],
         segments' # {} => durable'.cluster \in Writers,
         checkpoint' \in [Writers -> Nat], served' \in SUBSET [boot : Nat, epoch : Nat],
         commits' \in SUBSET [writer : Writers, epoch : Nat, boot : Nat],
         r.pc # "locked" => r.cluster \in Writers /\ identity'.cluster \in Writers,
         r.pc = "up" => durable'.cluster \in Writers
  PROVE  Base'
<1>1. /\ proc' \in [Procs -> Process] /\ proc'[p] = r
      /\ \A q \in Procs : q # p => proc'[q] = proc[q]
  BY Zenon, OneProcess DEF Base
<1>2. RootType'
  BY Zenon, <1>1 DEF Base, RootType
<1>3. LeaseInv'
  BY Zenon, HolderStepsKeepLease DEF Base
<1>4. IdentityInv'
  BY Zenon, <1>1, WalRootAssumption DEF Base, IdentityInv, NoIdentity, Writers
<1> QED BY Zenon, <1>2, <1>3, <1>4 DEF Base

\* The number SyncRaised gives the next segment is above all others.
LEMMA NextSegmentFree ==
  ASSUME Base, NEW next \in ScanNextSeq
  PROVE  next \in Nat /\ \A s \in segments : s.seq < next
<1>1. \A s \in segments : s.seq \in Nat
  BY WalRootAssumption DEF Base, RootType
<1>2. PICK n \in {s.seq : s \in segments} \cup {0} :
        next = n + 1 /\ \A s \in segments : s.seq <= n
  BY Zenon DEF ScanNextSeq
<1>3. n \in Nat
  BY <1>1
<1> QED BY <1>1, <1>2, <1>3

\* Opening: the identity is created or read, and the epoch raised.
LEMMA OpeningKeepsBase ==
  ASSUME Base, NEW p \in Procs,
         CreateIdentity(p) \/ SyncCreated(p) \/ ReadIdentity(p) \/ RaiseEpoch(p) \/ SyncRaised(p)
  PROVE  Base'
<1>1. proc[p] \in Process
  BY Zenon DEF Base, RootType
<1> USE DEF Base
<1>2. CASE CreateIdentity(p)
  <2>1. CASE segments # {}
    BY Zenon, <1>2, <2>1, StopKeepsBase DEF CreateIdentity
  <2>2. CASE segments = {}
    <3> DEFINE cluster == IF proc[p].config = NoCluster THEN Fresh ELSE proc[p].config
               r == [proc[p] EXCEPT !.pc = "created", !.cluster = cluster]
    <3>1. /\ proc[p].pc = "locked" /\ proc' = [proc EXCEPT ![p] = r]
          /\ identity' = [cluster |-> cluster, epoch |-> 0]
          /\ UNCHANGED <<lease, locks, durable, segments, checkpoint, boots, served, commits, unlinked, replaced>>
      BY Zenon, <1>2, <2>2 DEF CreateIdentity
    <3>2. cluster \in Writers
      BY Zenon, <1>1 DEF Process, Writers
    <3>3. r \in Process /\ r.pc = "created" /\ r.cluster = cluster /\ r.inode = proc[p].inode
          /\ r.boot = proc[p].boot
      BY Zenon, <1>1, <3>2 DEF Process
    <3>4. Holds(p) /\ r.pc \in Held
      BY Zenon, <3>1, <3>3 DEF Holds, Held
    <3>5. identity' \in [cluster : Writers \cup {NoCluster}, epoch : Nat] /\ identity'.cluster \in Writers
      BY Zenon, <3>1, <3>2
    <3> HIDE DEF r, cluster
    <3> QED BY Zenon, <3>1, <3>2, <3>3, <3>4, <3>5, <2>2, HolderStepKeepsBase DEF RootType
  <2> QED BY Zenon, <2>1, <2>2
<1>3. CASE SyncCreated(p)
  <2> DEFINE r == [proc[p] EXCEPT !.pc = "read"]
  <2>1. /\ proc[p].pc = "created" /\ proc' = [proc EXCEPT ![p] = r] /\ durable' = identity
        /\ UNCHANGED <<lease, locks, identity, segments, checkpoint, boots, served, commits, unlinked, replaced>>
    BY Zenon, <1>3 DEF SyncCreated, Goes
  <2>2. r \in Process /\ r.pc = "read" /\ r.cluster = proc[p].cluster /\ r.inode = proc[p].inode
        /\ r.boot = proc[p].boot
    BY Zenon, <1>1 DEF Process
  <2>3. Holds(p) /\ r.pc \in Held /\ proc[p].cluster \in Writers /\ identity.cluster \in Writers
    BY Zenon, <2>1, <2>2 DEF Holds, Held, IdentityInv
  <2> HIDE DEF r
  <2> QED BY Zenon, <2>1, <2>2, <2>3, HolderStepKeepsBase DEF RootType
<1>4. CASE ReadIdentity(p)
  <2>1. CASE proc[p].config \notin {NoCluster, identity.cluster}
    BY Zenon, <1>4, <2>1, StopKeepsBase DEF ReadIdentity
  <2>2. CASE proc[p].config \in {NoCluster, identity.cluster}
    <3> DEFINE r == [proc[p] EXCEPT !.pc = "read", !.cluster = identity.cluster, !.epoch = identity.epoch]
    <3>1. /\ proc[p].pc = "locked" /\ identity # NoIdentity /\ proc' = [proc EXCEPT ![p] = r]
          /\ UNCHANGED <<lease, locks, identity, durable, segments, checkpoint, boots, served, commits, unlinked, replaced>>
      BY Zenon, <1>4, <2>2 DEF ReadIdentity
    <3>2. identity.cluster \in Writers /\ identity.epoch \in Nat
      BY Zenon, <3>1 DEF IdentityInv, RootType
    <3>3. r \in Process /\ r.pc = "read" /\ r.cluster = identity.cluster /\ r.inode = proc[p].inode
          /\ r.boot = proc[p].boot
      BY Zenon, <1>1, <3>2 DEF Process
    <3>4. Holds(p) /\ r.pc \in Held
      BY Zenon, <3>1, <3>3 DEF Holds, Held
    <3> HIDE DEF r
    <3> QED BY Zenon, <3>1, <3>2, <3>3, <3>4, HolderStepKeepsBase DEF RootType, IdentityInv
  <2> QED BY Zenon, <2>1, <2>2
<1>5. CASE RaiseEpoch(p)
  <2> DEFINE r == [proc[p] EXCEPT !.pc = "raised", !.epoch = proc[p].epoch + 1]
  <2>1. /\ proc[p].pc = "read" /\ proc' = [proc EXCEPT ![p] = r]
        /\ identity' = [cluster |-> proc[p].cluster, epoch |-> proc[p].epoch + 1]
        /\ UNCHANGED <<lease, locks, durable, segments, checkpoint, boots, served, commits, unlinked, replaced>>
    BY Zenon, <1>5 DEF RaiseEpoch
  <2>2. proc[p].cluster \in Writers /\ proc[p].epoch + 1 \in Nat
    BY <2>1, <1>1 DEF IdentityInv, Process
  <2>3. r \in Process /\ r.pc = "raised" /\ r.cluster = proc[p].cluster /\ r.inode = proc[p].inode
        /\ r.boot = proc[p].boot
    BY Zenon, <1>1, <2>2 DEF Process
  <2>4. Holds(p) /\ r.pc \in Held
    BY Zenon, <2>1, <2>3 DEF Holds, Held
  <2>5. identity' \in [cluster : Writers \cup {NoCluster}, epoch : Nat] /\ identity'.cluster \in Writers
    BY Zenon, <2>1, <2>2
  <2> HIDE DEF r
  <2> QED BY Zenon, <2>1, <2>2, <2>3, <2>4, <2>5, HolderStepKeepsBase DEF RootType, IdentityInv
<1>6. CASE SyncRaised(p)
  <2>0. PICK next \in ScanNextSeq : proc' = [proc EXCEPT ![p].pc = "up", ![p].next = next]
    BY Zenon, <1>6 DEF SyncRaised
  <2> DEFINE r == [proc[p] EXCEPT !.pc = "up", !.next = next]
  <2>1. /\ proc[p].pc = "raised" /\ proc' = [proc EXCEPT ![p] = r] /\ durable' = identity
        /\ served' = served \cup {[boot |-> proc[p].boot, epoch |-> proc[p].epoch]}
        /\ UNCHANGED <<lease, locks, identity, segments, checkpoint, boots, commits, unlinked, replaced>>
    BY Zenon, <1>6, <2>0 DEF SyncRaised
  <2>2. next \in Nat
    BY Zenon, NextSegmentFree
  <2>3. r \in Process /\ r.pc = "up" /\ r.cluster = proc[p].cluster /\ r.inode = proc[p].inode
        /\ r.boot = proc[p].boot
    BY Zenon, <1>1, <2>2 DEF Process
  <2>4. Holds(p) /\ r.pc \in Held /\ proc[p].cluster \in Writers /\ identity.cluster \in Writers
    BY Zenon, <2>1, <2>3 DEF Holds, Held, IdentityInv
  <2>5. served' \in SUBSET [boot : Nat, epoch : Nat]
    BY SMTT(30), <2>1, <1>1 DEF RootType, Process
  <2> HIDE DEF r
  <2> QED BY Zenon, <2>1, <2>3, <2>4, <2>5, HolderStepKeepsBase DEF RootType
<1> QED BY Zenon, <1>2, <1>3, <1>4, <1>5, <1>6

\* observe_epoch_and_bump
LEMMA ObservesKeepsBase ==
  ASSUME Base, NEW p \in Procs, NEW known \in Process, NEW observed \in Nat,
         proc[p].pc = "up", known.pc = "up", known.cluster = proc[p].cluster,
         known.inode = proc[p].inode, known.boot = proc[p].boot,
         Observes(p, observed, known),
         UNCHANGED <<lease, locks, segments, checkpoint, boots, commits, unlinked, replaced>>
  PROVE  Base'
<1> USE DEF Base
<1>1. /\ Holds(p) /\ "up" \in Held /\ proc[p].cluster \in Writers /\ identity.cluster \in Writers
      /\ durable.cluster \in Writers /\ proc[p] \in Process
  BY Zenon DEF Holds, Held, IdentityInv, RootType
<1>2. CASE proc[p].epoch > observed
  <2>1. proc' = [proc EXCEPT ![p] = known] /\ UNCHANGED <<identity, durable, served>>
    BY Zenon, <1>2 DEF Observes
  <2> QED BY Zenon, <1>1, <2>1, HolderStepKeepsBase DEF RootType
<1>3. CASE ~(proc[p].epoch > observed)
  <2> DEFINE r == [known EXCEPT !.epoch = observed + 1]
  <2>1. /\ identity' = [cluster |-> proc[p].cluster, epoch |-> observed + 1] /\ durable' = identity'
        /\ proc' = [proc EXCEPT ![p] = r]
        /\ served' = served \cup {[boot |-> proc[p].boot, epoch |-> observed + 1]}
    BY Zenon, <1>3 DEF Observes
  <2>2. r \in Process /\ r.pc = "up" /\ r.cluster = proc[p].cluster /\ r.inode = proc[p].inode
        /\ r.boot = proc[p].boot
    BY DEF Process
  <2>3. /\ identity' \in [cluster : Writers \cup {NoCluster}, epoch : Nat]
        /\ identity'.cluster \in Writers
    BY <1>1, <2>1
  <2>4. served \in SUBSET [boot : Nat, epoch : Nat] /\ proc[p].boot \in Nat /\ observed + 1 \in Nat
    BY <1>1 DEF RootType, Process
  <2>5. served' \in SUBSET [boot : Nat, epoch : Nat]
    <3> HIDE DEF r, Base
    <3> QED BY <2>1, <2>4
  <2> HIDE DEF r
  <2> QED BY Zenon, <1>1, <2>1, <2>2, <2>3, <2>5, HolderStepKeepsBase DEF RootType
<1> QED BY Zenon, <1>2, <1>3

LEMMA LoadTableKeepsBase == ASSUME Base, NEW p \in Procs, LoadTable(p) PROVE Base'
<1> DEFINE known == [proc[p] EXCEPT !.loaded = TRUE]
           observed == checkpoint[proc[p].cluster]
<1>1. /\ proc[p].pc = "up" /\ proc[p] \in Process /\ proc[p].cluster \in Writers
      /\ identity.cluster \in Writers /\ durable.cluster \in Writers /\ observed \in Nat
  BY Zenon DEF LoadTable, Base, RootType, IdentityInv
<1>2. known \in Process /\ known.pc = "up" /\ known.cluster = proc[p].cluster
      /\ known.inode = proc[p].inode /\ known.boot = proc[p].boot
  BY Zenon, <1>1 DEF Process
<1>3. UNCHANGED <<lease, locks, segments, checkpoint, boots, commits, unlinked, replaced>>
  BY Zenon DEF LoadTable
<1>4. CASE observed = 0
  <2>1. proc' = [proc EXCEPT ![p] = known] /\ UNCHANGED <<identity, durable, served>>
    BY Zenon, <1>4 DEF LoadTable
  <2>2. Holds(p) /\ "up" \in Held
    BY Zenon, <1>1 DEF Holds, Held
  <2> HIDE DEF known, observed
  <2> QED BY Zenon, <1>1, <1>2, <1>3, <2>1, <2>2, HolderStepKeepsBase DEF Base, RootType
<1>5. CASE observed # 0
  <2>1. Observes(p, observed, known)
    BY Zenon, <1>5 DEF LoadTable
  <2> HIDE DEF known, observed
  <2> QED BY Zenon, <1>1, <1>2, <1>3, <2>1, ObservesKeepsBase
<1> QED BY Zenon, <1>4, <1>5

LEMMA CommitKeepsBase == ASSUME Base, NEW p \in Procs, Commit(p) PROVE Base'
<1> DEFINE observed == checkpoint[proc[p].cluster]
<1>1. /\ proc[p].pc = "up" /\ proc[p] \in Process /\ proc[p].cluster \in Writers
      /\ identity.cluster \in Writers /\ durable.cluster \in Writers /\ observed \in Nat
  BY Zenon DEF Commit, Base, RootType, IdentityInv
<1>2. UNCHANGED <<lease, locks, segments, boots, unlinked, replaced>>
  BY Zenon DEF Commit
<1>3. CASE proc[p].epoch < observed
  <2>1. Observes(p, observed, proc[p]) /\ UNCHANGED <<checkpoint, commits>>
    BY Zenon, <1>3 DEF Commit
  <2> HIDE DEF observed
  <2> QED BY Zenon, <1>1, <1>2, <2>1, ObservesKeepsBase
<1>4. CASE ~(proc[p].epoch < observed)
  <2>1. /\ checkpoint' = [checkpoint EXCEPT ![proc[p].cluster] = proc[p].epoch]
        /\ commits' = commits \cup {[writer |-> proc[p].cluster, epoch |-> proc[p].epoch,
                                     boot |-> proc[p].boot]}
        /\ UNCHANGED <<proc, identity, durable, served>>
    BY Zenon, <1>4 DEF Commit
  <2>2. checkpoint' \in [Writers -> Nat] /\ commits' \in SUBSET [writer : Writers, epoch : Nat, boot : Nat]
    BY <2>1, <1>1 DEF Base, RootType, Process
  <2>3. RootType'
    BY Zenon, <1>2, <2>1, <2>2 DEF Base, RootType
  <2>4. LeaseInv' /\ IdentityInv'
    BY Zenon, <1>2, <2>1 DEF Base, LeaseInv, LeaseOf, BootsDiffer, Holds, IdentityInv
  <2> QED BY Zenon, <2>3, <2>4 DEF Base
<1> QED BY Zenon, <1>3, <1>4

LEMMA SegmentStepsKeepBase ==
  ASSUME Base, NEW p \in Procs, OpenSegment(p) \/ (\E s \in segments : Collect(p, s))
  PROVE  Base'
<1>1. CASE OpenSegment(p)
  <2> DEFINE r == [proc[p] EXCEPT !.next = proc[p].next + 1, !.open = proc[p].next]
  <2>1. /\ proc[p].pc = "up" /\ proc' = [proc EXCEPT ![p] = r] /\ proc[p].next <= MaxSegments
        /\ segments' = segments \cup {[seq |-> proc[p].next, boot |-> proc[p].boot]}
        /\ UNCHANGED <<lease, locks, identity, durable, checkpoint, boots, served, commits, unlinked, replaced>>
    BY Zenon, <1>1 DEF OpenSegment
  <2>2. /\ Holds(p) /\ "up" \in Held /\ proc[p].cluster \in Writers /\ identity.cluster \in Writers
        /\ durable.cluster \in Writers /\ proc[p] \in Process
    BY Zenon, <2>1 DEF Holds, Held, Base, IdentityInv, RootType
  <2>3. r \in Process /\ r.pc = "up" /\ r.cluster = proc[p].cluster /\ r.inode = proc[p].inode
        /\ r.boot = proc[p].boot
    <3>1. proc[p].next \in Nat /\ proc[p].next + 1 \in Nat
      BY <2>2 DEF Process
    <3>2. proc[p].pc = "up"
      BY Zenon, <2>1
    <3> QED BY Zenon, <2>2, <3>1, <3>2 DEF Process
  <2>4. segments' \in SUBSET [seq : 0..MaxSegments, boot : Nat]
    <3>1. proc[p].next \in Nat /\ proc[p].boot \in Nat
      BY Zenon, <2>2 DEF Process
    <3>2. proc[p].next \in 0..MaxSegments
      BY <2>1, <3>1, WalRootAssumption
    <3>3. [seq |-> proc[p].next, boot |-> proc[p].boot] \in [seq : 0..MaxSegments, boot : Nat]
      BY Zenon, <3>1, <3>2
    <3> QED BY Zenon, <2>1, <3>3 DEF Base, RootType
  <2> HIDE DEF r
  <2> QED BY Zenon, <2>1, <2>2, <2>3, <2>4, HolderStepKeepsBase DEF Base, RootType
<1>2. ASSUME NEW s \in segments, Collect(p, s) PROVE Base'
  <2>1. /\ segments' \in SUBSET segments
        /\ UNCHANGED <<proc, lease, locks, identity, durable, checkpoint, boots, served, commits, unlinked, replaced>>
    BY Zenon, <1>2 DEF Collect
  <2>2. RootType'
    BY Zenon, <2>1 DEF Base, RootType
  <2>3. LeaseInv' /\ IdentityInv'
    BY Zenon, <2>1 DEF Base, LeaseInv, LeaseOf, BootsDiffer, Holds, IdentityInv
  <2> QED BY Zenon, <2>2, <2>3 DEF Base
<1> QED BY Zenon, <1>1, <1>2

LEMMA InitBase == RootInit => Base
<1> SUFFICES ASSUME RootInit PROVE Base
  BY Zenon
<1>1. Down \in Process /\ Down.pc = "down" /\ Down.boot = NoBoot
  BY Zenon DEF Down, Process, NoBoot
<1>2. NoIdentity \in [cluster : Writers \cup {NoCluster}, epoch : Nat]
  BY Zenon DEF NoIdentity
<1>3. RootType
  <2>1. proc \in [Procs -> Process] /\ checkpoint \in [Writers -> Nat]
    BY Zenon, <1>1 DEF RootInit, Writers
  <2>2. boots \in Nat /\ locks \in Seq(Nat) /\ lease \in 0..Len(locks)
    BY DEF RootInit
  <2> QED BY Zenon, <1>2, <2>1, <2>2 DEF RootInit, RootType
<1>4. LeaseInv /\ IdentityInv
  BY Zenon, <1>1 DEF RootInit, LeaseInv, LeaseOf, BootsDiffer, Holds, Held, IdentityInv
<1> QED BY Zenon, <1>3, <1>4 DEF Base

LEMMA StepBase == ASSUME Base, [RootNext]_rootVars PROVE Base'
<1>1. CASE UNCHANGED rootVars
  BY Zenon, <1>1 DEF rootVars, Base, RootType, LeaseInv, LeaseOf, BootsDiffer, Holds, IdentityInv
<1>2. CASE RootNext
  <2>1. ASSUME NEW p \in Procs, Crash(p) PROVE Base'
    BY Zenon, <2>1, StopKeepsBase DEF Crash
  <2> QED
    BY Zenon, <1>2, <2>1, LeaseStepsKeepBase, OpeningKeepsBase, LoadTableKeepsBase, CommitKeepsBase,
       SegmentStepsKeepBase, PowerLossKeepsBase, ReplaceVolumeKeepsBase DEF RootNext
<1> QED BY Zenon, <1>1, <1>2

-----------------------------------------------------------------------------
(* Lives, epochs, commits and segments. *)

Others(p) == \A q \in Procs : q # p => proc'[q] = proc[q]

LEMMA OnlyHolder ==
  ASSUME Base, ~unlinked, NEW p \in Procs, Holds(p)
  PROVE  \A q \in Procs : q # p => proc[q].pc \notin Held
  BY Zenon, HolderUnique DEF Base, Holds

LEMMA LifeKept ==
  ASSUME LifeInv, NEW p \in Procs, Others(p), LifeOf(p)'
  PROVE  LifeInv'
  BY Zenon DEF LifeInv, LifeOf, Others

\* A step that touches none of what the epochs are about, but a process.
LEMMA EpochKept ==
  ASSUME Base, EpochInv, NEW p \in Procs, Others(p), UNCHANGED <<identity, durable, served, replaced>>,
         unlinked => unlinked', boots' \in Nat, boots' >= boots, EpochInv => EpochOf(p)'
  PROVE  EpochInv'
<1> SUFFICES ASSUME ~unlinked', ~replaced' PROVE ServedInv' /\ \A q \in Procs : EpochOf(q)'
  BY Zenon DEF EpochInv
<1>1. ServedInv /\ \A q \in Procs : EpochOf(q)
  BY Zenon DEF EpochInv
<1>2. ServedInv'
  BY <1>1 DEF ServedInv, Base, RootType
<1>3. \A q \in Procs : EpochOf(q)'
  BY Zenon, <1>1 DEF EpochOf, Others
<1> QED BY Zenon, <1>2, <1>3

\* A step of the holder.
LEMMA EpochHolder ==
  ASSUME Base, EpochInv, NEW p \in Procs, Holds(p), Others(p), UNCHANGED <<unlinked, replaced>>,
         ~unlinked /\ ~replaced => ServedInv' /\ EpochOf(p)'
  PROVE  EpochInv'
<1> SUFFICES ASSUME ~unlinked, ~replaced PROVE ServedInv' /\ \A q \in Procs : EpochOf(q)'
  BY Zenon DEF EpochInv
<1>1. \A q \in Procs : q # p => proc[q].pc \notin Held
  BY Zenon, OnlyHolder
<1>2. \A q \in Procs : q # p => EpochOf(q)'
  BY Zenon, <1>1 DEF EpochOf, Others, Held
<1> QED BY Zenon, <1>2

LEMMA CommitKept ==
  ASSUME CommitInv, NEW p \in Procs, Others(p), UNCHANGED <<checkpoint, commits>>,
         unlinked => unlinked', ~unlinked => CommitOf(p)'
  PROVE  CommitInv'
<1> SUFFICES ASSUME ~unlinked' PROVE CommittedInv' /\ \A q \in Procs : CommitOf(q)'
  BY Zenon DEF CommitInv
<1>1. CommittedInv /\ \A q \in Procs : CommitOf(q)
  BY Zenon DEF CommitInv
<1>2. CommittedInv'
  BY Zenon, <1>1 DEF CommittedInv
<1>3. \A q \in Procs : CommitOf(q)'
  BY <1>1 DEF CommitOf, Others
<1> QED BY Zenon, <1>2, <1>3

LEMMA SegmentKept ==
  ASSUME SegmentInv, NEW p \in Procs, Others(p), segments' \in SUBSET segments,
         unlinked => unlinked', ~unlinked => SegmentOf(p)'
  PROVE  SegmentInv'
<1> SUFFICES ASSUME ~unlinked'
             PROVE  /\ \A a, b \in segments' : a.seq = b.seq => a.boot = b.boot
                    /\ \A q \in Procs : SegmentOf(q)'
  BY Zenon DEF SegmentInv
<1>1. /\ \A a, b \in segments : a.seq = b.seq => a.boot = b.boot
      /\ \A q \in Procs : SegmentOf(q)
  BY Zenon DEF SegmentInv
<1>2. \A q \in Procs : SegmentOf(q)'
  BY Zenon, <1>1 DEF SegmentOf, Others
<1> QED BY Zenon, <1>1, <1>2

\* A process that does not serve, and does not touch the root.
LEMMA LeaseStepKeepsInv ==
  ASSUME RootInv, Base', NEW p \in Procs, Others(p), LifeOf(p)', proc'[p].pc \notin Held \ {"locked"},
         UNCHANGED <<identity, durable, segments, checkpoint, served, commits, replaced>>,
         unlinked => unlinked', boots' >= boots
  PROVE  RootInv'
<1>1. EpochOf(p)' /\ CommitOf(p)' /\ SegmentOf(p)'
  BY Zenon DEF EpochOf, CommitOf, SegmentOf, Held
<1>2. boots' \in Nat
  BY Zenon DEF Base, RootType
<1> QED BY Zenon, <1>1, <1>2, LifeKept, EpochKept, CommitKept, SegmentKept DEF RootInv

LEMMA StopKeepsInv ==
  ASSUME RootInv, Base', NEW p \in Procs, Stop(p),
         UNCHANGED <<identity, durable, segments, checkpoint, served, commits, replaced, unlinked, boots>>
  PROVE  RootInv'
<1>1. Others(p) /\ proc'[p] = Down
  BY Zenon DEF Stop, Others, RootInv, Base, RootType
<1>2. LifeOf(p)' /\ proc'[p].pc \notin Held \ {"locked"} /\ boots' >= boots
  BY <1>1 DEF LifeOf, Down, Held, RootInv, Base, RootType
<1> QED BY Zenon, <1>1, <1>2, LeaseStepKeepsInv

LEMMA LeaseStepsKeepInv ==
  ASSUME RootInv, NEW p \in Procs,
         \/ \E config \in Clusters \cup {NoCluster} : OpenLease(p, config)
         \/ TryLock(p) \/ Unlock(p) \/ RemoveLease(p) \/ Crash(p)
  PROVE  RootInv'
<1>1. Base' /\ proc[p] \in Process /\ proc \in [Procs -> Process] /\ boots \in Nat
  BY Zenon, LeaseStepsKeepBase, StopKeepsBase DEF Crash, RootInv, Base, RootType
<1>2. LifeOf(p)
  BY Zenon DEF RootInv, LifeInv
<1>3. ASSUME NEW config \in Clusters \cup {NoCluster}, OpenLease(p, config) PROVE RootInv'
  <2> DEFINE inode == IF lease = 0 THEN Len(locks) + 1 ELSE lease
             r == [Down EXCEPT !.pc = "opened", !.inode = inode, !.config = config]
  <2>1. Others(p) /\ proc'[p] = r
    BY Zenon, <1>1, <1>3 DEF OpenLease, Others
  <2>2. r.pc = "opened" /\ r.epoch = 0 /\ r.open = 0 /\ r.loaded = FALSE
    BY Zenon DEF Down
  <2>3. LifeOf(p)' /\ proc'[p].pc \notin Held \ {"locked"}
    BY Zenon, <2>1, <2>2 DEF LifeOf, Held
  <2>4. UNCHANGED <<identity, durable, segments, checkpoint, served, commits, replaced, unlinked, boots>>
    BY Zenon, <1>3 DEF OpenLease
  <2>5. boots' >= boots
    BY <1>1, <2>4
  <2> QED BY Zenon, <1>1, <2>1, <2>3, <2>4, <2>5, LeaseStepKeepsInv
<1>4. CASE TryLock(p)
  <2>1. CASE ~(locks[proc[p].inode] = NoBoot /\ boots < MaxBoots)
    BY Zenon, <1>1, <1>4, <2>1, StopKeepsInv DEF TryLock
  <2>2. CASE locks[proc[p].inode] = NoBoot /\ boots < MaxBoots
    <3> DEFINE r == [proc[p] EXCEPT !.pc = "locked", !.boot = boots + 1]
    <3>1. /\ proc[p].pc = "opened" /\ proc' = [proc EXCEPT ![p] = r] /\ boots' = boots + 1
          /\ UNCHANGED <<identity, durable, segments, checkpoint, served, commits, replaced, unlinked>>
      BY Zenon, <1>4, <2>2 DEF TryLock
    <3>2. Others(p) /\ proc'[p] = r
      BY Zenon, <1>1, <3>1 DEF Others
    <3>3. r.pc = "locked" /\ r.epoch = proc[p].epoch /\ r.open = proc[p].open /\ r.loaded = proc[p].loaded
      BY Zenon, <1>1 DEF Process
    <3> HIDE DEF r
    <3>4. LifeOf(p)' /\ proc'[p].pc \notin Held \ {"locked"}
      BY Zenon, <1>2, <3>1, <3>2, <3>3 DEF LifeOf, Held
    <3>5. boots' >= boots
      BY <1>1, <3>1
    <3> QED BY Zenon, <1>1, <3>1, <3>2, <3>4, <3>5, LeaseStepKeepsInv
  <2> QED BY Zenon, <2>1, <2>2
<1>5. CASE Unlock(p)
  <2> DEFINE r == [proc[p] EXCEPT !.pc = "unlocked"]
  <2>1. /\ Others(p) /\ proc'[p] = r /\ boots' >= boots
        /\ UNCHANGED <<identity, durable, segments, checkpoint, served, commits, replaced, unlinked>>
    BY <1>1, <1>5 DEF Unlock, Goes, Others
  <2>2. r.pc = "unlocked" /\ r.open = proc[p].open /\ r.loaded = proc[p].loaded
    BY Zenon, <1>1 DEF Process
  <2> HIDE DEF r
  <2>3. LifeOf(p)' /\ proc'[p].pc \notin Held \ {"locked"}
    BY Zenon, <1>2, <2>1, <2>2 DEF LifeOf, Held
  <2> QED BY Zenon, <1>1, <2>1, <2>3, LeaseStepKeepsInv
<1>6. CASE RemoveLease(p)
  <2>1. UNCHANGED <<identity, durable, segments, checkpoint, served, commits, replaced, boots>>
    BY Zenon, <1>6 DEF RemoveLease
  <2>2. unlinked => unlinked'
    BY Zenon, <1>6 DEF RemoveLease
  <2>3. Others(p) /\ proc'[p] = Down
    BY Zenon, <1>1, <1>6 DEF RemoveLease, Others
  <2>4. LifeOf(p)' /\ proc'[p].pc \notin Held \ {"locked"}
    BY <2>3 DEF LifeOf, Down, Held
  <2>5. boots' >= boots
    BY <1>1, <2>1
  <2> QED BY Zenon, <1>1, <2>1, <2>2, <2>3, <2>4, <2>5, LeaseStepKeepsInv
<1>7. CASE Crash(p)
  BY Zenon, <1>1, <1>7, StopKeepsInv DEF Crash
<1> QED BY Zenon, <1>3, <1>4, <1>5, <1>6, <1>7

\* A holder that does not serve yet.
LEMMA OpeningStepKeepsInv ==
  ASSUME RootInv, Base', NEW p \in Procs, Holds(p), Others(p), LifeOf(p)',
         proc'[p].pc \in {"created", "read", "raised"},
         UNCHANGED <<segments, checkpoint, boots, served, commits, unlinked, replaced>>,
         EpochInv /\ ~unlinked /\ ~replaced =>
           /\ durable'.epoch <= identity'.epoch /\ durable.epoch <= durable'.epoch /\ EpochOf(p)'
  PROVE  RootInv'
<1>1. EpochInv'
  <2>1. ASSUME ~unlinked, ~replaced PROVE ServedInv'
    <3>1. ServedInv /\ durable'.epoch <= identity'.epoch /\ durable.epoch <= durable'.epoch
      BY Zenon, <2>1 DEF RootInv, EpochInv
    <3>2. durable.epoch \in Nat /\ durable'.epoch \in Nat /\ served \in SUBSET [boot : Nat, epoch : Nat]
      BY Zenon DEF RootInv, Base, RootType
    <3> QED BY <3>1, <3>2 DEF ServedInv
  <2> QED BY Zenon, <2>1, EpochHolder DEF RootInv
<1>2. CommitOf(p)' /\ SegmentOf(p)'
  BY Zenon DEF CommitOf, SegmentOf
<1> QED BY Zenon, <1>1, <1>2, LifeKept, CommitKept, SegmentKept DEF RootInv

LEMMA CreateIdentityKeepsInv == ASSUME RootInv, NEW p \in Procs, CreateIdentity(p) PROVE RootInv'
<1>1. Base' /\ proc[p] \in Process /\ proc \in [Procs -> Process] /\ durable.epoch \in Nat
  BY Zenon, OpeningKeepsBase DEF RootInv, Base, RootType
<1>2. CASE segments # {}
  BY Zenon, <1>1, <1>2, StopKeepsInv DEF CreateIdentity
<1>3. CASE segments = {}
  <2> DEFINE cluster == IF proc[p].config = NoCluster THEN Fresh ELSE proc[p].config
             r == [proc[p] EXCEPT !.pc = "created", !.cluster = cluster]
  <2>1. /\ proc[p].pc = "locked" /\ proc' = [proc EXCEPT ![p] = r] /\ identity = NoIdentity
        /\ identity' = [cluster |-> cluster, epoch |-> 0]
        /\ UNCHANGED <<durable, segments, checkpoint, boots, served, commits, unlinked, replaced>>
    BY Zenon, <1>3 DEF CreateIdentity
  <2>2. r.pc = "created" /\ r.epoch = proc[p].epoch /\ r.open = proc[p].open /\ r.loaded = proc[p].loaded
    BY Zenon, <1>1 DEF Process
  <2>3. Others(p) /\ proc'[p] = r /\ Holds(p) /\ LifeOf(p)
    BY Zenon, <1>1, <2>1 DEF Others, Holds, Held, RootInv, LifeInv
  <2> HIDE DEF r, cluster
  <2>4. LifeOf(p)' /\ proc'[p].epoch = 0
    BY Zenon, <2>1, <2>2, <2>3 DEF LifeOf
  <2>5. identity.epoch = 0 /\ identity'.epoch = 0
    BY Zenon, <2>1 DEF NoIdentity
  <2>6. ASSUME EpochInv, ~unlinked, ~replaced
        PROVE  durable'.epoch <= identity'.epoch /\ durable.epoch <= durable'.epoch /\ EpochOf(p)'
    <3>1. durable.epoch <= identity.epoch
      BY Zenon, <2>6 DEF EpochInv, ServedInv
    <3>2. EpochOf(p)'
      BY Zenon, <2>2, <2>3, <2>4, <2>5 DEF EpochOf
    <3> QED BY <1>1, <2>1, <2>5, <3>1, <3>2
  <2> QED BY Zenon, <1>1, <2>1, <2>2, <2>3, <2>4, <2>6, OpeningStepKeepsInv
<1> QED BY Zenon, <1>2, <1>3

LEMMA SyncCreatedKeepsInv == ASSUME RootInv, NEW p \in Procs, SyncCreated(p) PROVE RootInv'
<1> DEFINE r == [proc[p] EXCEPT !.pc = "read"]
<1>1. /\ Base' /\ proc[p] \in Process /\ proc \in [Procs -> Process]
      /\ durable.epoch \in Nat /\ identity.epoch \in Nat
  BY Zenon, OpeningKeepsBase DEF RootInv, Base, RootType
<1>2. /\ proc[p].pc = "created" /\ proc' = [proc EXCEPT ![p] = r] /\ durable' = identity
      /\ UNCHANGED <<identity, segments, checkpoint, boots, served, commits, unlinked, replaced>>
  BY Zenon DEF SyncCreated, Goes
<1>3. r.pc = "read" /\ r.epoch = proc[p].epoch /\ r.open = proc[p].open /\ r.loaded = proc[p].loaded
  BY Zenon, <1>1 DEF Process
<1>4. Others(p) /\ proc'[p] = r /\ Holds(p) /\ LifeOf(p)
  BY Zenon, <1>1, <1>2 DEF Others, Holds, Held, RootInv, LifeInv
<1> HIDE DEF r
<1>5. LifeOf(p)'
  BY Zenon, <1>2, <1>3, <1>4 DEF LifeOf
<1>6. ASSUME EpochInv, ~unlinked, ~replaced
      PROVE  durable'.epoch <= identity'.epoch /\ durable.epoch <= durable'.epoch /\ EpochOf(p)'
  <2>1. durable.epoch <= identity.epoch /\ EpochOf(p)
    BY Zenon, <1>6 DEF EpochInv, ServedInv
  <2>2. EpochOf(p)'
    BY Zenon, <1>2, <1>3, <1>4, <2>1 DEF EpochOf
  <2> QED BY <1>1, <1>2, <2>1, <2>2
<1> QED BY Zenon, <1>1, <1>2, <1>3, <1>4, <1>5, <1>6, OpeningStepKeepsInv

LEMMA ReadIdentityKeepsInv == ASSUME RootInv, NEW p \in Procs, ReadIdentity(p) PROVE RootInv'
<1>1. /\ Base' /\ proc[p] \in Process /\ proc \in [Procs -> Process]
      /\ durable.epoch \in Nat /\ identity.epoch \in Nat
  BY Zenon, OpeningKeepsBase DEF RootInv, Base, RootType
<1>2. CASE proc[p].config \notin {NoCluster, identity.cluster}
  BY Zenon, <1>1, <1>2, StopKeepsInv DEF ReadIdentity
<1>3. CASE proc[p].config \in {NoCluster, identity.cluster}
  <2> DEFINE r == [proc[p] EXCEPT !.pc = "read", !.cluster = identity.cluster, !.epoch = identity.epoch]
  <2>1. /\ proc[p].pc = "locked" /\ proc' = [proc EXCEPT ![p] = r]
        /\ UNCHANGED <<identity, durable, segments, checkpoint, boots, served, commits, unlinked, replaced>>
    BY Zenon, <1>3 DEF ReadIdentity
  <2>2. r.pc = "read" /\ r.epoch = identity.epoch /\ r.open = proc[p].open /\ r.loaded = proc[p].loaded
    BY Zenon, <1>1 DEF Process
  <2>3. Others(p) /\ proc'[p] = r /\ Holds(p) /\ LifeOf(p)
    BY Zenon, <1>1, <2>1 DEF Others, Holds, Held, RootInv, LifeInv
  <2> HIDE DEF r
  <2>4. LifeOf(p)' /\ EpochOf(p)'
    BY Zenon, <2>1, <2>2, <2>3 DEF LifeOf, EpochOf
  <2>5. ASSUME EpochInv, ~unlinked, ~replaced
        PROVE  durable'.epoch <= identity'.epoch /\ durable.epoch <= durable'.epoch /\ EpochOf(p)'
    <3>1. durable.epoch <= identity.epoch
      BY Zenon, <2>5 DEF EpochInv, ServedInv
    <3> QED BY <1>1, <2>1, <2>4, <3>1
  <2> QED BY Zenon, <1>1, <2>1, <2>2, <2>3, <2>4, <2>5, OpeningStepKeepsInv
<1> QED BY Zenon, <1>2, <1>3

LEMMA RaiseEpochKeepsInv == ASSUME RootInv, NEW p \in Procs, RaiseEpoch(p) PROVE RootInv'
<1> DEFINE r == [proc[p] EXCEPT !.pc = "raised", !.epoch = proc[p].epoch + 1]
<1>1. /\ Base' /\ proc[p] \in Process /\ proc \in [Procs -> Process]
      /\ durable.epoch \in Nat /\ identity.epoch \in Nat
  BY Zenon, OpeningKeepsBase DEF RootInv, Base, RootType
<1>2. /\ proc[p].pc = "read" /\ proc' = [proc EXCEPT ![p] = r]
      /\ identity' = [cluster |-> proc[p].cluster, epoch |-> proc[p].epoch + 1]
      /\ UNCHANGED <<durable, segments, checkpoint, boots, served, commits, unlinked, replaced>>
  BY Zenon DEF RaiseEpoch
<1>3. /\ r.pc = "raised" /\ r.epoch = proc[p].epoch + 1 /\ r.open = proc[p].open
      /\ r.loaded = proc[p].loaded /\ proc[p].epoch \in Nat
  BY Zenon, <1>1 DEF Process
<1>4. Others(p) /\ proc'[p] = r /\ Holds(p) /\ LifeOf(p)
  BY Zenon, <1>1, <1>2 DEF Others, Holds, Held, RootInv, LifeInv
<1> HIDE DEF r
<1>5. LifeOf(p)'
  <2>1. proc'[p].epoch > 0 /\ proc'[p].pc = "raised"
    BY <1>3, <1>4
  <2> QED BY Zenon, <1>2, <1>3, <1>4, <2>1 DEF LifeOf
<1>6. ASSUME EpochInv, ~unlinked, ~replaced
      PROVE  durable'.epoch <= identity'.epoch /\ durable.epoch <= durable'.epoch /\ EpochOf(p)'
  <2>1. durable.epoch <= identity.epoch /\ EpochOf(p)
    BY Zenon, <1>6 DEF EpochInv, ServedInv
  <2>2. proc[p].epoch = identity.epoch /\ identity'.epoch = proc[p].epoch + 1
    BY Zenon, <1>2, <2>1 DEF EpochOf
  <2>3. durable'.epoch < identity'.epoch /\ durable.epoch <= durable'.epoch /\ durable'.epoch <= identity'.epoch
    BY <1>1, <1>2, <2>1, <2>2
  <2>4. EpochOf(p)'
    BY Zenon, <1>3, <1>4, <2>2, <2>3 DEF EpochOf
  <2> QED BY Zenon, <2>3, <2>4
<1> QED BY Zenon, <1>1, <1>2, <1>3, <1>4, <1>5, <1>6, OpeningStepKeepsInv

\* An epoch above the durable one is served by the last life.
LEMMA ServesAbove ==
  ASSUME Base, ServedInv, NEW n \in Nat, durable.epoch < n, boots' = boots,
         served' = served \cup {[boot |-> boots, epoch |-> n]},
         durable'.epoch = n, identity'.epoch = n
  PROVE  ServedInv'
<1>1. /\ durable.epoch \in Nat /\ served \in SUBSET [boot : Nat, epoch : Nat] /\ boots \in Nat
  BY Zenon DEF Base, RootType
<1>2. /\ \A s \in served : s.boot <= boots /\ s.epoch <= durable.epoch /\ s.boot \in Nat /\ s.epoch \in Nat
      /\ \A a, b \in served : a.boot < b.boot => a.epoch < b.epoch
  BY Zenon, <1>1 DEF ServedInv
<1>3. \A s \in served' : s \in served \/ (s.boot = boots /\ s.epoch = n)
  OBVIOUS
<1>4. \A s \in served' : s.boot <= boots /\ s.epoch <= n
  <2> SUFFICES ASSUME NEW s \in served' PROVE s.boot <= boots /\ s.epoch <= n
    BY Zenon
  <2>1. CASE s \in served
    BY <1>1, <1>2, <2>1
  <2>2. CASE s.boot = boots /\ s.epoch = n
    BY <1>1, <2>2
  <2> QED BY Zenon, <1>3, <2>1, <2>2
<1>5. \A a, b \in served' : a.boot < b.boot => a.epoch < b.epoch
  <2> SUFFICES ASSUME NEW a \in served', NEW b \in served', a.boot < b.boot PROVE a.epoch < b.epoch
    BY Zenon
  <2>1. CASE a \in served /\ b \in served
    BY Zenon, <1>2, <2>1
  <2>2. CASE a \in served /\ b.boot = boots /\ b.epoch = n
    BY <1>1, <1>2, <2>2
  <2>3. CASE a.boot = boots
    <3>1. b.boot <= boots /\ b.boot \in Nat
      BY Zenon, <1>1, <1>2, <1>3, <1>4
    <3> QED BY <1>1, <2>3, <3>1
  <2> QED BY Zenon, <1>3, <2>1, <2>2, <2>3
<1> QED BY <1>4, <1>5 DEF ServedInv

\* The directory is synced, and the process serves.
LEMMA SyncRaisedKeepsInv == ASSUME RootInv, NEW p \in Procs, SyncRaised(p) PROVE RootInv'
<1>0. PICK next \in ScanNextSeq : proc' = [proc EXCEPT ![p].pc = "up", ![p].next = next]
  BY Zenon DEF SyncRaised
<1> DEFINE r == [proc[p] EXCEPT !.pc = "up", !.next = next]
<1>1. /\ Base' /\ proc[p] \in Process /\ proc \in [Procs -> Process] /\ identity.epoch \in Nat
  BY Zenon, OpeningKeepsBase DEF RootInv, Base, RootType
<1>2. /\ proc[p].pc = "raised" /\ proc' = [proc EXCEPT ![p] = r] /\ durable' = identity
      /\ served' = served \cup {[boot |-> proc[p].boot, epoch |-> proc[p].epoch]}
      /\ UNCHANGED <<identity, segments, checkpoint, boots, commits, unlinked, replaced>>
  BY Zenon, <1>0 DEF SyncRaised
<1>3. next \in Nat /\ \A s \in segments : s.seq < next
  BY Zenon, NextSegmentFree DEF RootInv
<1>4. /\ r.pc = "up" /\ r.epoch = proc[p].epoch /\ r.open = proc[p].open /\ r.loaded = proc[p].loaded
      /\ r.next = next
  BY Zenon, <1>1, <1>3 DEF Process
<1>5. Others(p) /\ proc'[p] = r /\ Holds(p) /\ LifeOf(p) /\ LeaseOf(p)
  BY Zenon, <1>1, <1>2 DEF Others, Holds, Held, RootInv, LifeInv, Base, LeaseInv
<1> HIDE DEF r
<1>6. LifeOf(p)' /\ CommitOf(p)' /\ SegmentOf(p)'
  <2>1. LifeOf(p)' /\ proc'[p].loaded = FALSE
    BY Zenon, <1>2, <1>4, <1>5 DEF LifeOf
  <2>2. SegmentOf(p)'
    BY Zenon, <1>2, <1>3, <1>4, <1>5 DEF SegmentOf
  <2> QED BY Zenon, <2>1, <2>2 DEF CommitOf
<1>7. ASSUME ~unlinked, ~replaced PROVE ServedInv' /\ EpochOf(p)'
  <2>1. ServedInv /\ EpochOf(p) /\ proc[p].boot = boots
    BY Zenon, <1>5, <1>7 DEF RootInv, EpochInv, LeaseOf
  <2>2. proc[p].epoch = identity.epoch /\ durable.epoch < identity.epoch
    BY Zenon, <1>2, <2>1 DEF EpochOf
  <2>3. ServedInv'
    BY Zenon, <1>1, <1>2, <2>1, <2>2, ServesAbove DEF RootInv
  <2>4. EpochOf(p)'
    BY Zenon, <1>2, <1>4, <1>5, <2>2 DEF EpochOf
  <2> QED BY Zenon, <2>3, <2>4
<1>8. EpochInv'
  BY Zenon, <1>2, <1>5, <1>7, EpochHolder DEF RootInv
<1> QED BY Zenon, <1>1, <1>2, <1>5, <1>6, <1>8, LifeKept, CommitKept, SegmentKept DEF RootInv

\* A process that serves learns of an epoch, and of what else `known' has.
LEMMA ObservesKeepsInv ==
  ASSUME RootInv, Base', NEW p \in Procs, NEW known \in Process, NEW observed \in Nat,
         proc[p].pc = "up", known.pc = "up", known.cluster = proc[p].cluster,
         known.boot = proc[p].boot, known.epoch = proc[p].epoch, known.next = proc[p].next,
         known.open = proc[p].open, known.loaded = TRUE,
         observed = checkpoint[proc[p].cluster], Observes(p, observed, known),
         UNCHANGED <<segments, checkpoint, boots, commits, unlinked, replaced>>
  PROVE  RootInv'
<1>1. /\ proc[p] \in Process /\ proc \in [Procs -> Process] /\ Holds(p) /\ LifeOf(p) /\ LeaseOf(p)
      /\ proc[p].epoch \in Nat /\ identity.epoch \in Nat /\ durable.epoch \in Nat
      /\ commits \in SUBSET [writer : Writers, epoch : Nat, boot : Nat]
  BY Zenon DEF RootInv, Base, RootType, Holds, Held, LifeInv, LeaseInv, Process
<1>2. \A c \in commits : ~unlinked /\ c.writer = proc[p].cluster => c.epoch <= observed
  BY Zenon DEF RootInv, CommitInv, CommittedInv
<1>3. CASE proc[p].epoch > observed
  <2>1. Others(p) /\ proc'[p] = known /\ UNCHANGED <<identity, durable, served>>
    BY Zenon, <1>1, <1>3 DEF Observes, Others
  <2>2. LifeOf(p)' /\ EpochOf(p) = EpochOf(p)' /\ SegmentOf(p) = SegmentOf(p)'
    BY Zenon, <1>1, <2>1 DEF LifeOf, EpochOf, SegmentOf
  <2>3. ~unlinked => CommitOf(p)'
    BY <1>1, <1>2, <1>3, <2>1 DEF CommitOf
  <2>4. EpochInv'
    <3>1. ASSUME ~unlinked, ~replaced PROVE ServedInv' /\ EpochOf(p)'
      BY Zenon, <2>1, <2>2, <3>1 DEF RootInv, EpochInv, ServedInv
    <3> QED BY Zenon, <1>1, <2>1, <3>1, EpochHolder DEF RootInv
  <2>5. ~unlinked => SegmentOf(p)'
    BY Zenon, <2>2 DEF RootInv, SegmentInv
  <2> QED BY Zenon, <2>1, <2>2, <2>3, <2>4, <2>5, LifeKept, CommitKept, SegmentKept DEF RootInv
<1>4. CASE ~(proc[p].epoch > observed)
  <2> DEFINE r == [known EXCEPT !.epoch = observed + 1]
  <2>1. /\ identity' = [cluster |-> proc[p].cluster, epoch |-> observed + 1] /\ durable' = identity'
        /\ proc' = [proc EXCEPT ![p] = r]
        /\ served' = served \cup {[boot |-> proc[p].boot, epoch |-> observed + 1]}
    BY Zenon, <1>4 DEF Observes
  <2>2. /\ r.pc = "up" /\ r.cluster = proc[p].cluster /\ r.boot = proc[p].boot
        /\ r.epoch = observed + 1 /\ r.next = proc[p].next /\ r.open = proc[p].open /\ r.loaded = TRUE
    BY Zenon DEF Process
  <2>3. Others(p) /\ proc'[p] = r
    BY Zenon, <1>1, <2>1 DEF Others
  <2> HIDE DEF r
  <2>4. LifeOf(p)'
    <3>1. proc'[p].epoch > 0
      BY <2>2, <2>3
    <3> QED BY Zenon, <2>2, <2>3, <3>1 DEF LifeOf
  <2>5. ~unlinked => CommitOf(p)'
    <3>1. \A c \in commits : ~unlinked /\ c.writer = proc[p].cluster => c.epoch < observed + 1
      BY <1>1, <1>2
    <3> QED BY Zenon, <2>2, <2>3, <3>1 DEF CommitOf
  <2>6. EpochInv'
    <3>1. ASSUME ~unlinked, ~replaced PROVE ServedInv' /\ EpochOf(p)'
      <4>1. ServedInv /\ EpochOf(p) /\ proc[p].boot = boots
        BY Zenon, <1>1, <3>1 DEF RootInv, EpochInv, LeaseOf
      <4>2. durable.epoch < observed + 1
        <5>1. durable.epoch = proc[p].epoch
          BY ZenonT(40), <4>1 DEF EpochOf
        <5> QED BY <1>1, <1>4, <5>1
      <4>3. ServedInv'
        BY <2>1, <4>1, <4>2, ServesAbove DEF RootInv
      <4>4. EpochOf(p)'
        BY Zenon, <2>1, <2>2, <2>3 DEF EpochOf
      <4> QED BY Zenon, <4>3, <4>4
    <3> QED BY Zenon, <1>1, <2>3, <3>1, EpochHolder DEF RootInv
  <2>7. ~unlinked => SegmentOf(p)'
    BY Zenon, <2>2, <2>3 DEF RootInv, SegmentInv, SegmentOf
  <2> QED BY Zenon, <2>3, <2>4, <2>5, <2>6, <2>7, LifeKept, CommitKept, SegmentKept DEF RootInv
<1> QED BY Zenon, <1>3, <1>4

LEMMA LoadTableKeepsInv == ASSUME RootInv, NEW p \in Procs, LoadTable(p) PROVE RootInv'
<1> DEFINE known == [proc[p] EXCEPT !.loaded = TRUE]
           observed == checkpoint[proc[p].cluster]
<1>1. /\ Base' /\ proc[p] \in Process /\ proc \in [Procs -> Process] /\ proc[p].pc = "up"
      /\ proc[p].cluster \in Writers /\ observed \in Nat /\ Holds(p) /\ LifeOf(p)
  BY Zenon, LoadTableKeepsBase DEF LoadTable, RootInv, Base, RootType, IdentityInv, Holds, Held, LifeInv
<1>2. /\ known \in Process /\ known.pc = "up" /\ known.cluster = proc[p].cluster
      /\ known.boot = proc[p].boot /\ known.epoch = proc[p].epoch /\ known.next = proc[p].next
      /\ known.open = proc[p].open /\ known.loaded = TRUE
  BY Zenon, <1>1 DEF Process
<1>3. UNCHANGED <<segments, checkpoint, boots, commits, unlinked, replaced>>
  BY Zenon DEF LoadTable
<1>4. CASE observed = 0
  <2>1. Others(p) /\ proc'[p] = known /\ UNCHANGED <<identity, durable, served>>
    BY Zenon, <1>1, <1>4 DEF LoadTable, Others
  <2> HIDE DEF known
  <2>2. LifeOf(p)' /\ EpochOf(p) = EpochOf(p)' /\ SegmentOf(p) = SegmentOf(p)'
    BY Zenon, <1>1, <1>2, <1>3, <2>1 DEF LifeOf, EpochOf, SegmentOf
  <2>3. ~unlinked => CommitOf(p)'
    <3>1. ASSUME ~unlinked, NEW c \in commits, c.writer = proc[p].cluster PROVE FALSE
      <4>1. 0 < c.epoch /\ c.epoch <= observed /\ c.epoch \in Nat
        BY Zenon, <3>1 DEF RootInv, CommitInv, CommittedInv, Base, RootType
      <4> QED BY <1>4, <4>1
    <3> QED BY Zenon, <1>2, <1>3, <2>1, <3>1 DEF CommitOf
  <2>4. EpochInv'
    <3>1. ASSUME ~unlinked, ~replaced PROVE ServedInv' /\ EpochOf(p)'
      BY Zenon, <1>3, <2>1, <2>2, <3>1 DEF RootInv, EpochInv, ServedInv
    <3> QED BY Zenon, <1>1, <1>3, <2>1, <3>1, EpochHolder DEF RootInv
  <2>5. ~unlinked => SegmentOf(p)'
    BY Zenon, <2>2 DEF RootInv, SegmentInv
  <2> QED BY Zenon, <1>1, <1>3, <2>1, <2>2, <2>3, <2>4, <2>5, LifeKept, CommitKept, SegmentKept DEF RootInv
<1>5. CASE observed # 0
  <2>1. Observes(p, observed, known)
    BY Zenon, <1>5 DEF LoadTable
  <2> HIDE DEF known
  <2> QED BY Zenon, <1>1, <1>2, <1>3, <2>1, ObservesKeepsInv
<1> QED BY Zenon, <1>4, <1>5

LEMMA CommitKeepsInv == ASSUME RootInv, NEW p \in Procs, Commit(p) PROVE RootInv'
<1> DEFINE observed == checkpoint[proc[p].cluster]
<1>1. /\ Base' /\ proc[p] \in Process /\ proc[p].pc = "up" /\ proc[p].cluster \in Writers
      /\ observed \in Nat /\ Holds(p) /\ LifeOf(p)
  BY Zenon, CommitKeepsBase DEF Commit, RootInv, Base, RootType, IdentityInv, Holds, Held, LifeInv
<1>2. proc[p].loaded = TRUE /\ proc[p].epoch > 0 /\ proc[p].epoch \in Nat
  BY Zenon, <1>1 DEF Commit, LifeOf, Process
<1>3. UNCHANGED <<segments, boots, unlinked, replaced>>
  BY Zenon DEF Commit
<1>4. CASE proc[p].epoch < observed
  BY Zenon, <1>1, <1>2, <1>3, <1>4, ObservesKeepsInv DEF Commit
<1>5. CASE ~(proc[p].epoch < observed)
  <2> DEFINE new == [writer |-> proc[p].cluster, epoch |-> proc[p].epoch, boot |-> proc[p].boot]
  <2>1. /\ checkpoint' = [checkpoint EXCEPT ![proc[p].cluster] = proc[p].epoch]
        /\ commits' = commits \cup {new} /\ UNCHANGED <<proc, identity, durable, served>>
    BY Zenon, <1>5 DEF Commit
  <2>2. LifeInv' /\ EpochInv' /\ SegmentInv'
    BY Zenon, <1>3, <2>1 DEF RootInv, LifeInv, LifeOf, EpochInv, EpochOf, ServedInv, SegmentInv, SegmentOf
  <2>3. ASSUME ~unlinked PROVE CommittedInv' /\ \A q \in Procs : CommitOf(q)'
    <3>1. CommittedInv /\ CommitOf(p) /\ \A q \in Procs : q # p => proc[q].pc \notin Held
      BY Zenon, <1>1, <2>3, OnlyHolder DEF RootInv, CommitInv
    <3>2. /\ checkpoint \in [Writers -> Nat]
          /\ commits \in SUBSET [writer : Writers, epoch : Nat, boot : Nat]
      BY Zenon DEF RootInv, Base, RootType
    <3>3. \A c \in commits' : 0 < c.epoch /\ c.epoch <= checkpoint'[c.writer]
      <4> SUFFICES ASSUME NEW c \in commits' PROVE 0 < c.epoch /\ c.epoch <= checkpoint'[c.writer]
        BY Zenon
      <4>1. CASE c = new
        BY <1>1, <1>2, <2>1, <3>2, <4>1
      <4>2. CASE c \in commits
        <5>1. 0 < c.epoch /\ c.epoch <= checkpoint[c.writer] /\ c.epoch \in Nat /\ c.writer \in Writers
          BY Zenon, <3>1, <3>2, <4>2 DEF CommittedInv
        <5>2. CASE c.writer = proc[p].cluster
          BY <1>1, <1>2, <1>5, <2>1, <3>2, <5>1, <5>2
        <5>3. CASE c.writer # proc[p].cluster
          BY Zenon, <2>1, <3>2, <5>1, <5>3
        <5> QED BY Zenon, <5>2, <5>3
      <4> QED BY Zenon, <2>1, <4>1, <4>2
    <3>4. \A c \in commits : c.writer = new.writer /\ c.epoch = new.epoch => c.boot = new.boot
      BY <1>1, <1>2, <3>1, <3>2 DEF CommitOf
    <3>5. \A a, b \in commits' : a.writer = b.writer /\ a.epoch = b.epoch => a.boot = b.boot
      <4> HIDE DEF new
      <4> QED BY ZenonT(40), <2>1, <3>1, <3>4 DEF CommittedInv
    <3>6. \A q \in Procs : CommitOf(q)'
      BY <2>1, <3>1 DEF CommitOf, Held
    <3> QED BY Zenon, <3>3, <3>5, <3>6 DEF CommittedInv
  <2> QED BY Zenon, <1>1, <1>3, <2>2, <2>3 DEF RootInv, CommitInv
<1> QED BY Zenon, <1>4, <1>5

LEMMA SegmentStepsKeepInv ==
  ASSUME RootInv, NEW p \in Procs, OpenSegment(p) \/ (\E s \in segments : Collect(p, s))
  PROVE  RootInv'
<1>1. /\ Base' /\ proc[p] \in Process /\ proc \in [Procs -> Process]
      /\ segments \in SUBSET [seq : 0..MaxSegments, boot : Nat]
  BY Zenon, SegmentStepsKeepBase DEF RootInv, Base, RootType
<1>2. CASE OpenSegment(p)
  <2> DEFINE r == [proc[p] EXCEPT !.next = proc[p].next + 1, !.open = proc[p].next]
             new == [seq |-> proc[p].next, boot |-> proc[p].boot]
  <2>1. /\ proc[p].pc = "up" /\ proc[p].loaded /\ proc' = [proc EXCEPT ![p] = r]
        /\ segments' = segments \cup {new}
        /\ UNCHANGED <<identity, durable, checkpoint, boots, served, commits, unlinked, replaced>>
    BY Zenon, <1>2 DEF OpenSegment
  <2>2. /\ r.pc = "up" /\ r.cluster = proc[p].cluster /\ r.boot = proc[p].boot
        /\ r.epoch = proc[p].epoch /\ r.next = proc[p].next + 1 /\ r.loaded = proc[p].loaded
        /\ proc[p].next \in Nat
    BY Zenon, <1>1, <2>1 DEF Process
  <2>3. Others(p) /\ proc'[p] = r /\ Holds(p) /\ LifeOf(p)
    BY Zenon, <1>1, <2>1 DEF Others, Holds, Held, RootInv, LifeInv
  <2>4. proc[p].loaded = TRUE
    BY Zenon, <1>1, <2>1 DEF Process
  <2> HIDE DEF r
  <2>5. LifeOf(p)' /\ EpochOf(p) = EpochOf(p)' /\ CommitOf(p) = CommitOf(p)'
    BY ZenonT(40), <2>1, <2>2, <2>3, <2>4 DEF LifeOf, EpochOf, CommitOf
  <2>6. EpochInv'
    <3>1. ASSUME ~unlinked, ~replaced PROVE ServedInv' /\ EpochOf(p)'
      BY Zenon, <2>1, <2>5, <3>1 DEF RootInv, EpochInv, ServedInv
    <3> QED BY Zenon, <2>1, <2>3, <3>1, EpochHolder DEF RootInv
  <2>7. ~unlinked => CommitOf(p)'
    BY Zenon, <2>5 DEF RootInv, CommitInv
  <2>8. SegmentInv'
    <3> SUFFICES ASSUME ~unlinked
                 PROVE  /\ \A a, b \in segments' : a.seq = b.seq => a.boot = b.boot
                        /\ \A q \in Procs : SegmentOf(q)'
      BY Zenon, <2>1 DEF SegmentInv
    <3>1. /\ \A a, b \in segments : a.seq = b.seq => a.boot = b.boot
          /\ \A s \in segments : s.seq < proc[p].next /\ s.seq \in Nat
          /\ \A q \in Procs : q # p => proc[q].pc \notin Held
      BY <1>1, <2>1, <2>3, OnlyHolder, WalRootAssumption DEF RootInv, SegmentInv, SegmentOf
    <3>2. \A s \in segments : s.seq # new.seq
      BY <2>2, <3>1
    <3>3. \A s \in segments' : s.seq < proc[p].next + 1
      BY <2>1, <2>2, <3>1
    <3>4. SegmentOf(p)'
      BY Zenon, <2>1, <2>2, <2>3, <3>3 DEF SegmentOf
    <3>5. \A q \in Procs : q # p => SegmentOf(q)'
      BY Zenon, <2>3, <3>1 DEF SegmentOf, Others, Held
    <3>6. \A a, b \in segments' : a.seq = b.seq => a.boot = b.boot
      <4> HIDE DEF new
      <4> QED BY ZenonT(40), <2>1, <3>1, <3>2
    <3> QED BY Zenon, <3>4, <3>5, <3>6
  <2> QED BY Zenon, <1>1, <2>1, <2>3, <2>5, <2>6, <2>7, <2>8, LifeKept, CommitKept DEF RootInv
<1>3. ASSUME NEW s \in segments, Collect(p, s) PROVE RootInv'
  <2>1. /\ segments' \in SUBSET segments
        /\ UNCHANGED <<proc, identity, durable, checkpoint, boots, served, commits, unlinked, replaced>>
    BY Zenon, <1>3 DEF Collect
  <2>2. LifeInv' /\ EpochInv' /\ CommitInv'
    BY Zenon, <2>1 DEF RootInv, LifeInv, LifeOf, EpochInv, EpochOf, ServedInv, CommitInv, CommitOf, CommittedInv
  <2>3. SegmentInv'
    BY Zenon, <2>1 DEF RootInv, SegmentInv, SegmentOf
  <2> QED BY Zenon, <1>1, <2>2, <2>3 DEF RootInv
<1> QED BY Zenon, <1>2, <1>3

\* The machine stops, or the volume is another.
LEMMA MachineStepsKeepInv == ASSUME RootInv, PowerLoss \/ ReplaceVolume PROVE RootInv'
<1>1. Base' /\ identity.epoch \in Nat /\ durable.epoch \in Nat /\ served \in SUBSET [boot : Nat, epoch : Nat]
  BY Zenon, PowerLossKeepsBase, ReplaceVolumeKeepsBase DEF RootInv, Base, RootType
<1>2. CASE PowerLoss
  <2>1. /\ \A q \in Procs : proc'[q] = Down
        /\ identity' \in {identity, durable} /\ durable' = identity'
        /\ UNCHANGED <<segments, checkpoint, boots, served, commits, unlinked, replaced>>
    BY Zenon, <1>2 DEF PowerLoss
  <2>2. \A q \in Procs : LifeOf(q)' /\ EpochOf(q)' /\ CommitOf(q)' /\ SegmentOf(q)'
    BY <2>1 DEF LifeOf, EpochOf, CommitOf, SegmentOf, Down
  <2>3. ASSUME ServedInv PROVE ServedInv'
    BY <1>1, <2>1, <2>3 DEF ServedInv
  <2>4. CommittedInv => CommittedInv'
    BY Zenon, <2>1 DEF CommittedInv
  <2> QED BY Zenon, <1>1, <2>1, <2>2, <2>3, <2>4 DEF RootInv, LifeInv, EpochInv, CommitInv, SegmentInv
<1>3. CASE ReplaceVolume
  <2>1. /\ \A q \in Procs : proc[q].pc = "down"
        /\ replaced' = TRUE /\ segments' = {}
        /\ UNCHANGED <<proc, checkpoint, boots, served, commits, unlinked>>
    BY Zenon, <1>3 DEF ReplaceVolume
  <2>2. LifeInv' /\ CommitInv'
    BY Zenon, <2>1 DEF RootInv, LifeInv, LifeOf, CommitInv, CommitOf, CommittedInv
  <2> QED BY Zenon, <1>1, <2>1, <2>2 DEF RootInv, EpochInv, SegmentInv, SegmentOf
<1> QED BY Zenon, <1>2, <1>3

LEMMA InitInv == RootInit => RootInv
<1> SUFFICES ASSUME RootInit PROVE RootInv
  BY Zenon
<1>1. \A q \in Procs : proc[q] = Down
  BY Zenon DEF RootInit
<1>2. \A q \in Procs : LifeOf(q) /\ EpochOf(q) /\ CommitOf(q) /\ SegmentOf(q)
  BY <1>1 DEF LifeOf, EpochOf, CommitOf, SegmentOf, Down
<1>3. ServedInv /\ CommittedInv /\ segments = {}
  BY DEF RootInit, ServedInv, CommittedInv, NoIdentity
<1> QED BY Zenon, <1>2, <1>3, InitBase DEF RootInv, LifeInv, EpochInv, CommitInv, SegmentInv

LEMMA StepInv == ASSUME RootInv, [RootNext]_rootVars PROVE RootInv'
<1>1. CASE UNCHANGED rootVars
  <2>1. Base'
    BY Zenon, StepBase DEF RootInv
  <2> QED
    BY Zenon, <1>1, <2>1 DEF rootVars, RootInv, LifeInv, LifeOf, EpochInv, EpochOf, ServedInv,
                      CommitInv, CommitOf, CommittedInv, SegmentInv, SegmentOf
<1>2. CASE RootNext
  BY Zenon, <1>2, LeaseStepsKeepInv, CreateIdentityKeepsInv, SyncCreatedKeepsInv, ReadIdentityKeepsInv,
     RaiseEpochKeepsInv, SyncRaisedKeepsInv, LoadTableKeepsInv, CommitKeepsInv,
     SegmentStepsKeepInv, MachineStepsKeepInv DEF RootNext
<1> QED BY Zenon, <1>1, <1>2

LEMMA InvOwned == RootInv => OneHolder /\ EpochsOwned /\ CommitsOwned /\ SegmentsOwned
<1> SUFFICES ASSUME RootInv PROVE OneHolder /\ EpochsOwned /\ CommitsOwned /\ SegmentsOwned
  BY Zenon
<1>1. OneHolder
  BY Zenon, OneHolderHolds DEF RootInv, Base
<1>2. EpochsOwned /\ CommitsOwned
  BY Zenon DEF RootInv, EpochInv, ServedInv, CommitInv, CommittedInv, EpochsOwned, CommitsOwned
<1>3. segments # {} => durable # NoIdentity
  BY WalRootAssumption DEF RootInv, Base, IdentityInv, NoIdentity, Writers
<1> QED BY Zenon, <1>1, <1>2, <1>3 DEF RootInv, SegmentInv, SegmentsOwned

\* A WAL root has one owner: for any number of processes, lives, clusters, segments and
\* epochs, at most one process holds the lease; no epoch that WalManager::open or
\* observe_epoch_and_bump gives out is given to two lives, over crashes, power losses and
\* undone renames; commits under one epoch are of one life, on a replaced volume too; and no
\* segment is written by two lives, nor left without a durable identity. All but the last
\* hold as long as no release removed a lease file that another process had open.
THEOREM WalRootOwned == RootSpec => []RootOwned
<1>1. RootInit => RootInv
  BY Zenon, InitInv
<1>2. RootInv /\ [RootNext]_rootVars => RootInv'
  BY Zenon, StepInv
<1> QED BY <1>1, <1>2, InvOwned, PTL DEF RootSpec, RootOwned

\* WalManager::open's lease: one process at a time, but for a removed lease file.
THEOREM LeaseExclusive == RootSpec => []OneHolder
BY WalRootOwned, PTL DEF RootOwned

\* An epoch is served by one life, which is what observe_epoch_and_bump is for.
THEOREM EpochExclusive == RootSpec => []EpochsOwned
BY WalRootOwned, PTL DEF RootOwned

\* What the guard's epoch check relies on: commits under one epoch are of one life.
THEOREM CommitsExclusive == RootSpec => []CommitsOwned
BY WalRootOwned, PTL DEF RootOwned

\* A segment has one writer, and a root with segments an identity to be opened by.
THEOREM SegmentsExclusive == RootSpec => []SegmentsOwned
BY WalRootOwned, PTL DEF RootOwned
=============================================================================
