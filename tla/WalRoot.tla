------------------------------ MODULE WalRoot ------------------------------
(***************************************************************************)
(* Who owns a WAL root: processes that take its lease, read, create or     *)
(* refuse its identity, raise the writer epoch, number their segments,     *)
(* commit under that epoch and let the lease go again; with crashes, power *)
(* loss and a replaced volume in between.                                  *)
(*                                                                         *)
(* Sources: teodb-storage/src/wal/{manager,state,identity,writer}.rs,      *)
(* teodb-ingest/src/buffer/registry.rs, teodb-ingest/src/flush/commit.rs.  *)
(*                                                                         *)
(* The lease is a lock on the inode `.lease' names, which a release unlinks. *)
(* A boot is one life of a process from the moment it holds the lock.      *)
(***************************************************************************)
EXTENDS Integers, Sequences, FiniteSets

CONSTANTS
  Procs,       \* processes started on the root, one after another or at once
  Clusters,    \* cluster ids a process may be configured with
  Fresh,       \* the id a root gets when none is configured
  NoCluster,   \* no cluster id: none configured, or no identity file
  MaxBoots,    \* how many lives there are
  MaxSegments, \* how many segments a root may have
  MaxEpoch     \* how far the epoch is raised

ASSUME WalRootAssumption ==
  /\ NoCluster \notin Clusters \cup {Fresh}
  /\ MaxBoots \in Nat /\ MaxSegments \in Nat /\ MaxEpoch \in Nat

NoBoot == 0

VARIABLES
  proc,        \* what each process does, and what it knows
  lease,       \* the inode `.lease' names, 0 when there is no such file
  locks,       \* the boot that holds the lock of each inode ever made
  identity,    \* writer-identity.json as processes see it
  durable,     \* and as it is after a power loss
  segments,    \* the numbers of the segments, with the boots that wrote them
  checkpoint,  \* the epoch of the table's checkpoint of each writer
  boots,       \* lives so far
  served,      \* [boot, epoch] of every life that got as far as serving
  commits,     \* [writer, epoch, boot] of every commit
  unlinked,    \* whether a release removed a lease file another process had open
  replaced     \* whether the volume was replaced

rootVars == <<proc, lease, locks, identity, durable, segments, checkpoint, boots,
              served, commits, unlinked, replaced>>

NoIdentity == [cluster |-> NoCluster, epoch |-> 0]

Down == [pc |-> "down", inode |-> 0, boot |-> NoBoot, config |-> NoCluster,
         cluster |-> NoCluster, epoch |-> 0, next |-> 0, open |-> 0, loaded |-> FALSE]

RootInit ==
  /\ proc = [p \in Procs |-> Down]
  /\ lease = 0 /\ locks = <<>>
  /\ identity = NoIdentity /\ durable = NoIdentity
  /\ segments = {}
  /\ checkpoint = [w \in Clusters \cup {Fresh} |-> 0]
  /\ boots = 0 /\ served = {} /\ commits = {}
  /\ unlinked = FALSE /\ replaced = FALSE

Goes(p, pc) == proc' = [proc EXCEPT ![p].pc = pc]

\* A process that stops lets its lock go, whatever inode it is on.
Unlocked(p) == [i \in DOMAIN locks |-> IF proc[p].boot # NoBoot /\ locks[i] = proc[p].boot
                                         THEN NoBoot ELSE locks[i]]

Stop(p) == proc' = [proc EXCEPT ![p] = Down] /\ locks' = Unlocked(p)

-----------------------------------------------------------------------------
(* WalManager::open. *)

\* The lease file is opened or created, not yet locked.
OpenLease(p, config) ==
  /\ proc[p].pc = "down" /\ boots < MaxBoots
  /\ LET inode == IF lease = 0 THEN Len(locks) + 1 ELSE lease
     IN /\ proc' = [proc EXCEPT ![p] = [Down EXCEPT !.pc = "opened", !.inode = inode,
                                                    !.config = config]]
        /\ lease' = inode
        /\ locks' = IF lease = 0 THEN Append(locks, NoBoot) ELSE locks
  /\ UNCHANGED <<identity, durable, segments, checkpoint, boots, served, commits, unlinked, replaced>>

\* try_lock_exclusive: a lock that is taken ends the process.
TryLock(p) ==
  /\ proc[p].pc = "opened"
  /\ IF locks[proc[p].inode] = NoBoot /\ boots < MaxBoots
       THEN /\ boots' = boots + 1
            /\ proc' = [proc EXCEPT ![p].pc = "locked", ![p].boot = boots + 1]
            /\ locks' = [locks EXCEPT ![proc[p].inode] = boots + 1]
       ELSE Stop(p) /\ UNCHANGED boots
  /\ UNCHANGED <<lease, identity, durable, segments, checkpoint, served, commits, unlinked, replaced>>

\* A root without an identity gets one, at epoch 0, unless it holds segments.
CreateIdentity(p) ==
  /\ proc[p].pc = "locked" /\ identity = NoIdentity
  /\ IF segments # {}
       THEN Stop(p) /\ UNCHANGED identity
       ELSE LET cluster == IF proc[p].config = NoCluster THEN Fresh ELSE proc[p].config
            IN /\ identity' = [cluster |-> cluster, epoch |-> 0]
               /\ proc' = [proc EXCEPT ![p].pc = "created", ![p].cluster = cluster]
               /\ UNCHANGED locks
  /\ UNCHANGED <<lease, durable, segments, checkpoint, boots, served, commits, unlinked, replaced>>

\* The second half of persist_identity: the directory is synced.
SyncCreated(p) ==
  /\ proc[p].pc = "created"
  /\ durable' = identity /\ Goes(p, "read")
  /\ UNCHANGED <<lease, locks, identity, segments, checkpoint, boots, served, commits, unlinked, replaced>>

\* The identity is read and checked against the configuration.
ReadIdentity(p) ==
  /\ proc[p].pc = "locked" /\ identity # NoIdentity
  /\ IF proc[p].config \notin {NoCluster, identity.cluster}
       THEN Stop(p)
       ELSE /\ proc' = [proc EXCEPT ![p].pc = "read", ![p].cluster = identity.cluster,
                                    ![p].epoch = identity.epoch]
            /\ UNCHANGED locks
  /\ UNCHANGED <<lease, identity, durable, segments, checkpoint, boots, served, commits, unlinked, replaced>>

\* Mutant: a boot takes the epoch it reads.
RaiseEpoch_Kept(p) ==
  /\ proc[p].pc = "read" /\ proc[p].epoch < MaxEpoch
  /\ identity' = [cluster |-> proc[p].cluster, epoch |-> proc[p].epoch]
  /\ Goes(p, "raised")
  /\ UNCHANGED <<lease, locks, durable, segments, checkpoint, boots, served, commits, unlinked, replaced>>

\* The next epoch is renamed into place.
RaiseEpoch(p) ==
  /\ proc[p].pc = "read" /\ proc[p].epoch < MaxEpoch
  /\ identity' = [cluster |-> proc[p].cluster, epoch |-> proc[p].epoch + 1]
  /\ proc' = [proc EXCEPT ![p].pc = "raised", ![p].epoch = @ + 1]
  /\ UNCHANGED <<lease, locks, durable, segments, checkpoint, boots, served, commits, unlinked, replaced>>

\* The next segment number: one above the largest there is, or 1.
ScanNextSeq ==
  {n + 1 : n \in {m \in {s.seq : s \in segments} \cup {0} : \A s \in segments : s.seq <= m}}

\* The directory is synced, and the next segment number is one above all others.
\* The process serves.
SyncRaised(p) ==
  /\ proc[p].pc = "raised"
  /\ durable' = identity
  /\ \E next \in ScanNextSeq : proc' = [proc EXCEPT ![p].pc = "up", ![p].next = next]
  /\ served' = served \cup {[boot |-> proc[p].boot, epoch |-> proc[p].epoch]}
  /\ UNCHANGED <<lease, locks, identity, segments, checkpoint, boots, commits, unlinked, replaced>>

-----------------------------------------------------------------------------
(* A process that is up. *)

\* observe_epoch_and_bump: an epoch not above the observed one is raised above it,
\* on disk first; `known' is the process with what else it learned.
Observes(p, observed, known) ==
  IF proc[p].epoch > observed
    THEN proc' = [proc EXCEPT ![p] = known] /\ UNCHANGED <<identity, durable, served>>
    ELSE /\ observed < MaxEpoch
         /\ identity' = [cluster |-> proc[p].cluster, epoch |-> observed + 1]
         /\ durable' = identity'
         /\ proc' = [proc EXCEPT ![p] = [known EXCEPT !.epoch = observed + 1]]
         /\ served' = served \cup {[boot |-> proc[p].boot, epoch |-> observed + 1]}

\* get_or_load, or the replay of the WAL: the table's metadata is loaded, with the
\* writer's own checkpoint if it has one.
LoadTable(p) ==
  /\ proc[p].pc = "up" /\ ~proc[p].loaded
  /\ LET known == [proc[p] EXCEPT !.loaded = TRUE]
     IN IF checkpoint[proc[p].cluster] = 0
          THEN proc' = [proc EXCEPT ![p] = known] /\ UNCHANGED <<identity, durable, served>>
          ELSE Observes(p, checkpoint[proc[p].cluster], known)
  /\ UNCHANGED <<lease, locks, segments, checkpoint, boots, commits, unlinked, replaced>>

\* open_segment: the file is created, or appended to when it exists.
OpenSegment(p) ==
  /\ proc[p].pc = "up" /\ proc[p].loaded /\ proc[p].next <= MaxSegments
  /\ segments' = segments \cup {[seq |-> proc[p].next, boot |-> proc[p].boot]}
  /\ proc' = [proc EXCEPT ![p].next = @ + 1, ![p].open = proc[p].next]
  /\ UNCHANGED <<lease, locks, identity, durable, checkpoint, boots, served, commits, unlinked, replaced>>

\* A segment whose frames are all committed is deleted, unless it is the open one.
Collect(p, s) ==
  /\ proc[p].pc = "up" /\ s \in segments /\ s.seq # proc[p].open
  /\ segments' = {t \in segments : t.seq # s.seq}
  /\ UNCHANGED <<proc, lease, locks, identity, durable, checkpoint, boots, served, commits, unlinked, replaced>>

\* A flush commits under the process's epoch, or learns that it is stale.  Its request
\* is answered at once; one that lands late is WriterRegistry's.
Commit(p) ==
  /\ proc[p].pc = "up" /\ proc[p].open # 0
  /\ IF proc[p].epoch < checkpoint[proc[p].cluster]
       THEN /\ Observes(p, checkpoint[proc[p].cluster], proc[p])
            /\ UNCHANGED <<checkpoint, commits>>
       ELSE /\ checkpoint' = [checkpoint EXCEPT ![proc[p].cluster] = proc[p].epoch]
            /\ commits' = commits \cup {[writer |-> proc[p].cluster, epoch |-> proc[p].epoch,
                                         boot |-> proc[p].boot]}
            /\ UNCHANGED <<proc, identity, durable, served>>
  /\ UNCHANGED <<lease, locks, segments, boots, unlinked, replaced>>

-----------------------------------------------------------------------------
(* The end of a process. *)

\* release_lease: the lock first,
Unlock(p) ==
  /\ proc[p].pc = "up"
  /\ Goes(p, "unlocked") /\ locks' = Unlocked(p)
  /\ UNCHANGED <<lease, identity, durable, segments, checkpoint, boots, served, commits, unlinked, replaced>>

HasOpen(p, inode) == proc[p].pc # "down" /\ proc[p].inode = inode

\* then the file, whoever has it by now.
RemoveLease(p) ==
  /\ proc[p].pc = "unlocked"
  /\ lease' = 0
  /\ unlinked' = (unlinked \/ (lease # 0 /\ \E q \in Procs \ {p} : HasOpen(q, lease)))
  /\ proc' = [proc EXCEPT ![p] = Down]
  /\ UNCHANGED <<locks, identity, durable, segments, checkpoint, boots, served, commits, replaced>>

\* A process dies, or a step of its opening fails.
Crash(p) ==
  /\ proc[p].pc # "down"
  /\ Stop(p)
  /\ UNCHANGED <<lease, identity, durable, segments, checkpoint, boots, served, commits, unlinked, replaced>>

\* The machine loses power: all processes end, and a rename that was not synced may
\* be undone.
PowerLoss ==
  /\ \E p \in Procs : proc[p].pc # "down"
  /\ proc' = [p \in Procs |-> Down]
  /\ locks' = [i \in DOMAIN locks |-> NoBoot]
  /\ identity' \in {identity, durable} /\ durable' = identity'
  /\ UNCHANGED <<lease, segments, checkpoint, boots, served, commits, unlinked, replaced>>

\* A new volume takes the place of the root while nobody runs.
ReplaceVolume ==
  /\ ~replaced /\ identity # NoIdentity /\ \A p \in Procs : proc[p].pc = "down"
  /\ replaced' = TRUE
  /\ identity' = NoIdentity /\ durable' = NoIdentity /\ segments' = {} /\ lease' = 0
  /\ UNCHANGED <<proc, locks, checkpoint, boots, served, commits, unlinked>>

RootNext ==
  \/ \E p \in Procs, config \in Clusters \cup {NoCluster} : OpenLease(p, config)
  \/ \E p \in Procs : TryLock(p) \/ CreateIdentity(p) \/ SyncCreated(p) \/ ReadIdentity(p)
                        \/ RaiseEpoch(p) \/ SyncRaised(p) \/ LoadTable(p) \/ OpenSegment(p)
                        \/ Commit(p) \/ Unlock(p) \/ RemoveLease(p) \/ Crash(p)
  \/ \E p \in Procs, s \in segments : Collect(p, s)
  \/ PowerLoss \/ ReplaceVolume

RootSpec == RootInit /\ [][RootNext]_rootVars

-----------------------------------------------------------------------------

Holders == {p \in Procs : proc[p].boot # NoBoot /\ proc[p].pc # "unlocked"}

\* What the lease gives: one process at a time, unless a release removed the file
\* under a process that already had it open.
OneHolder == unlinked \/ \A p, q \in Holders : p = q

\* An epoch is served by one life only, over crashes and power losses, as long as the
\* lease and the volume are kept; and it never goes back.
EpochsOwned ==
  unlinked \/ replaced \/
    \A a, b \in served : a.boot < b.boot => a.epoch < b.epoch

\* All commits of a writer under an epoch are of one life, on a replaced volume too:
\* what a stale epoch is rejected by.
CommitsOwned ==
  unlinked \/ \A a, b \in commits : a.writer = b.writer /\ a.epoch = b.epoch => a.boot = b.boot

\* A segment is written by one life, and a root that holds segments has a durable
\* identity, so that it can be opened again.
SegmentsOwned ==
  /\ unlinked \/ \A a, b \in segments : a.seq = b.seq => a.boot = b.boot
  /\ segments # {} => durable # NoIdentity

\* A WAL root has one owner at a time, and what an owner leaves is told from what
\* the next one does: by lease, epoch, commit and segment.
RootOwned == OneHolder /\ EpochsOwned /\ CommitsOwned /\ SegmentsOwned
=============================================================================
