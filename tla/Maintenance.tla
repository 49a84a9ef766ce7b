----------------------------- MODULE Maintenance -----------------------------
(***************************************************************************)
(* Background maintenance of one table by several nodes.                   *)
(*                                                                         *)
(*   lock        the advisory compaction lock kept in table properties     *)
(*   compaction  plan, rewrite, replace commit, release                    *)
(*   sweep       protected set, listing, pin re-check, deletion            *)
(*   flush       upload of a data file, then its append commit             *)
(*                                                                         *)
(* Iceberg's Transaction::commit reloads the table before it applies its   *)
(* actions, so what TeoDB checked on the table it had loaded is checked in *)
(* one step and applied in another.  A replace is a fast_append whose      *)
(* summary names the files it supersedes; every earlier manifest stays     *)
(* listed in the new snapshot.  Snapshot k is snaps[k]; time is in ticks.  *)
(***************************************************************************)
EXTENDS Integers, Sequences, FiniteSets

CONSTANTS
  Nodes,        \* data nodes
  Compactors,   \* nodes whose loop compacts
  Sweepers,     \* nodes whose loop sweeps
  NoOwner,      \* the lock property is absent
  LockTtl,      \* maintenance.lock_ttl_secs
  MinAge,       \* maintenance.orphan_retention_secs
  MaxAge,       \* maintenance.snapshot_retention_secs
  KeepLast,     \* maintenance.snapshot_keep_last
  InitialFiles, \* files committed before the behaviour starts
  MaxTime, MaxFiles, MaxSnaps, MaxCycles, MaxFaults   \* bounds

ASSUME MaintenanceConstants ==
  /\ Compactors \subseteq Nodes /\ Sweepers \subseteq Nodes /\ NoOwner \notin Nodes
  /\ {LockTtl, MinAge, MaxAge} \subseteq Nat
  /\ KeepLast \in Nat \ {0} /\ MaxTime \in Nat \ {0}
  /\ {InitialFiles, MaxFiles, MaxSnaps} \subseteq Nat
  /\ InitialFiles <= MaxFiles /\ InitialFiles <= MaxSnaps

VARIABLES
  now,
  snaps,     \* committed snapshots: [ts, adds, removes]
  store,     \* objects under the table's data/ prefix
  lock,      \* teodb.compaction.owner and lock_ts: [owner, ts]
  node,      \* the maintenance loop of each node
  upload,    \* the files flushes have uploaded and not committed
  files, cycles, faults,
  raced,     \* history: a property update was applied over a value it had not checked
  twice,     \* history: two nodes worked on the table under the lock at once
  slowest    \* history: the longest a sweep took from its protected set to its age check

vars == <<now, snaps, store, lock, node, upload, files, cycles, faults, raced, twice, slowest>>

-----------------------------------------------------------------------------
(* The table. *)

File(id, rows) == [id |-> id, rows |-> rows, at |-> now]

\* Manifest entries of snapshot k: fast_append keeps all earlier manifests.
Manifest(k) == UNION {snaps[j].adds : j \in 1 .. k}

\* Mutation: the read path does not reconcile the markers.
Live_NoMarkers(k) == Manifest(k)

\* live_data_files: the markers along the lineage are taken off.
Live(k) == Manifest(k) \ UNION {snaps[j].removes : j \in 1 .. k}

Current == Len(snaps)

Commit(adds, removes) ==
  /\ Current < MaxSnaps
  /\ snaps' = Append(snaps, [ts |-> now, adds |-> adds, removes |-> removes])

\* select_expired_snapshots: beyond the newest keep_last, older than the
\* cutoff, not current and not pinned.
Expired(pins) ==
  {k \in 1 .. Current : /\ Current - k >= KeepLast
                        /\ snaps[k].ts < now - MaxAge
                        /\ k # Current /\ k \notin pins}

\* retained_file_set: every entry of every retained snapshot's manifests.
Retained(pins) == UNION {Manifest(k) : k \in (1 .. Current) \ Expired(pins)}

Idle == [pc |-> "idle", expect |-> [owner |-> NoOwner, ts |-> 0], at |-> 0,
         base |-> 0, files |-> {}, inputs |-> {}, output |-> {},
         protected |-> {}, started |-> 0]

Set(n, r) == node' = [node EXCEPT ![n] = r]
Goto(n, pc) == Set(n, [node[n] EXCEPT !.pc = pc])

\* The plan is over, one way or another.
PlanEnds(n) == Set(n, [node[n] EXCEPT !.pc = "groups", !.inputs = {}, !.output = {}])

Fault == faults > 0 /\ faults' = faults - 1

\* Between a successful acquire and the release that follows the last group.
Working(n) ==
  node[n].pc \in {"plan", "plan_files", "plan_snapshot", "groups", "verify", "rewrite",
                  "replace", "replace_apply"}

Enter(n) ==
  /\ Set(n, [Idle EXCEPT !.pc = "plan", !.at = node[n].at])
  /\ twice' = (twice \/ \E m \in Nodes \ {n} : Working(m))

-----------------------------------------------------------------------------
(* The compaction lock. *)

\* A lock without a timestamp is expired.
IsExpired(ts, at) == ts = 0 \/ at - ts > LockTtl

\* try_acquire reads the clock, then loads the table: our own lock is
\* refreshed, a free or expired one is taken, any other makes us skip.
AcquireLoad(n) ==
  /\ n \in Compactors /\ node[n].pc = "idle" /\ cycles < MaxCycles
  /\ cycles' = cycles + 1
  /\ IF lock.owner \notin {n, NoOwner} /\ ~IsExpired(lock.ts, now)
     THEN UNCHANGED node
     ELSE Set(n, [Idle EXCEPT !.pc = "cas", !.expect = lock, !.at = now])
  /\ UNCHANGED <<now, snaps, store, lock, upload, files, faults, raced, twice, slowest>>

\* update_table_properties loads again and compares the expected values.
AcquireCheck(n) ==
  /\ node[n].pc = "cas"
  /\ IF lock = node[n].expect THEN Goto(n, "cas_apply") ELSE Set(n, Idle)
  /\ UNCHANGED <<now, snaps, store, lock, upload, files, cycles, faults, raced, twice, slowest>>

\* The properties are set on whatever the table is now.  A lost answer is a
\* failed acquire: the lock stays behind.
AcquireApply(n) ==
  /\ node[n].pc = "cas_apply"
  /\ lock' = [owner |-> n, ts |-> node[n].at]
  /\ raced' = (raced \/ lock # node[n].expect)
  /\ \/ Enter(n) /\ UNCHANGED faults
     \/ Fault /\ Set(n, Idle) /\ UNCHANGED twice
  /\ UNCHANGED <<now, snaps, store, upload, files, cycles, slowest>>

\* release: only our own lock, by the same two-step update.
ReleaseLoad(n) ==
  /\ node[n].pc = "release"
  /\ IF lock.owner = n
     THEN Set(n, [Idle EXCEPT !.pc = "release_cas", !.expect = lock])
     ELSE Set(n, Idle)
  /\ UNCHANGED <<now, snaps, store, lock, upload, files, cycles, faults, raced, twice, slowest>>

ReleaseCheck(n) ==
  /\ node[n].pc = "release_cas"
  /\ IF lock = node[n].expect THEN Goto(n, "release_apply") ELSE Set(n, Idle)
  /\ UNCHANGED <<now, snaps, store, lock, upload, files, cycles, faults, raced, twice, slowest>>

ReleaseApply(n) ==
  /\ node[n].pc = "release_apply"
  /\ lock' = [owner |-> NoOwner, ts |-> 0]
  /\ raced' = (raced \/ lock # node[n].expect)
  /\ Set(n, Idle)
  /\ UNCHANGED <<now, snaps, store, upload, files, cycles, faults, twice, slowest>>

-----------------------------------------------------------------------------
(* Compaction. *)

\* try_join!(load_table, load_live_files): two loads, in either order.
PlanSnapshot(n) ==
  /\ node[n].pc \in {"plan", "plan_snapshot"}
  /\ IF Current = 0 THEN Set(n, [Idle EXCEPT !.pc = "release"])
     ELSE Set(n, [node[n] EXCEPT !.base = Current,
                    !.pc = IF @ = "plan" THEN "plan_files" ELSE "groups"])
  /\ UNCHANGED <<now, snaps, store, lock, upload, files, cycles, faults, raced, twice, slowest>>

PlanFiles(n) ==
  /\ node[n].pc \in {"plan", "plan_files"}
  /\ Set(n, [node[n] EXCEPT !.files = Live(Current),
               !.pc = IF @ = "plan" THEN "plan_snapshot" ELSE "groups"])
  /\ UNCHANGED <<now, snaps, store, lock, upload, files, cycles, faults, raced, twice, slowest>>

\* The next partition group, or the end of the table.  CompactionPlan
\* has the policy; any group is possible here.
NextGroup(n) ==
  /\ node[n].pc = "groups"
  /\ \/ \E inputs \in SUBSET node[n].files \ {{}} :
          Set(n, [node[n] EXCEPT !.pc = "verify", !.inputs = inputs, !.files = @ \ inputs])
     \/ Set(n, [Idle EXCEPT !.pc = "release"])
  /\ UNCHANGED <<now, snaps, store, lock, upload, files, cycles, faults, raced, twice, slowest>>

\* compact, step 1: the plan's snapshot must still be current.
Verify(n) ==
  /\ node[n].pc = "verify"
  /\ IF Current = node[n].base THEN Goto(n, "rewrite") ELSE PlanEnds(n)
  /\ UNCHANGED <<now, snaps, store, lock, upload, files, cycles, faults, raced, twice, slowest>>

\* Steps 2 and 3: an unreadable input aborts the plan.
Rewrite(n) ==
  LET f == File(files + 1, UNION {i.rows : i \in node[n].inputs}) IN
  /\ node[n].pc = "rewrite" /\ files < MaxFiles
  /\ IF node[n].inputs \subseteq store
     THEN /\ store' = store \cup {f} /\ files' = files + 1
          /\ Set(n, [node[n] EXCEPT !.pc = "replace", !.output = {f}])
     ELSE PlanEnds(n) /\ UNCHANGED <<store, files>>
  /\ UNCHANGED <<now, snaps, lock, upload, cycles, faults, raced, twice, slowest>>

\* Step 4, try_commit_replace: the base is compared on the loaded table; a
\* conflict leaves the output as an orphan.
ReplaceCheck(n) ==
  /\ node[n].pc = "replace"
  /\ IF Current = node[n].base THEN Goto(n, "replace_apply") ELSE PlanEnds(n)
  /\ UNCHANGED <<now, snaps, store, lock, upload, files, cycles, faults, raced, twice, slowest>>

\* The transaction applies to the reloaded table.  A catalog error, before or
\* after the commit took effect, is retried from the check.
ReplaceApply(n) ==
  /\ node[n].pc = "replace_apply"
  /\ \/ Commit(node[n].output, node[n].inputs) /\ PlanEnds(n) /\ UNCHANGED faults
     \/ Commit(node[n].output, node[n].inputs) /\ Goto(n, "replace") /\ Fault
     \/ Goto(n, "replace") /\ Fault /\ UNCHANGED snaps
  /\ UNCHANGED <<now, store, lock, upload, files, cycles, raced, twice, slowest>>

-----------------------------------------------------------------------------
(* Orphan sweep. *)

\* Mutation: what is protected is the current snapshot's live files.
Protect_LiveOnly(n) ==
  /\ n \in Sweepers /\ node[n].pc = "idle" /\ cycles < MaxCycles
  /\ cycles' = cycles + 1
  /\ Set(n, [Idle EXCEPT !.pc = "list", !.started = now, !.protected = Live(Current)])
  /\ UNCHANGED <<now, snaps, store, lock, upload, files, faults, raced, twice, slowest>>

\* Active pins, then the files of every retained snapshot.  The pins of the
\* running queries are some set of snapshots.
Protect(n) ==
  /\ n \in Sweepers /\ node[n].pc = "idle" /\ cycles < MaxCycles
  /\ cycles' = cycles + 1
  /\ \E pins \in SUBSET (1 .. Current) :
       Set(n, [Idle EXCEPT !.pc = "list", !.started = now, !.protected = Retained(pins)])
  /\ UNCHANGED <<now, snaps, store, lock, upload, files, faults, raced, twice, slowest>>

\* A pin that appeared outside the retained set aborts the sweep.
List(n) ==
  /\ node[n].pc = "list"
  /\ \/ /\ Set(n, [node[n] EXCEPT !.pc = "delete", !.files = store, !.at = now])
        /\ slowest' = IF now - node[n].started > slowest THEN now - node[n].started ELSE slowest
     \/ Set(n, Idle) /\ UNCHANGED slowest
  /\ UNCHANGED <<now, snaps, store, lock, upload, files, cycles, faults, raced, twice>>

\* Listed, not referenced, old enough when the deletion began.
Candidates(n) ==
  {f \in node[n].files \ node[n].protected : node[n].at - f.at >= MinAge}

\* One object at a time; a failed delete is logged and passed over.
Delete(n) ==
  /\ node[n].pc = "delete"
  /\ IF Candidates(n) = {}
     THEN Set(n, Idle) /\ UNCHANGED <<store, faults>>
     ELSE \E f \in Candidates(n) :
            /\ Set(n, [node[n] EXCEPT !.files = @ \ {f}])
            /\ \/ store' = store \ {f} /\ UNCHANGED faults
               \/ Fault /\ UNCHANGED store
  /\ UNCHANGED <<now, snaps, lock, upload, files, cycles, raced, twice, slowest>>

-----------------------------------------------------------------------------
(* Flushes, the clock, crashes. *)

\* A flush uploads the file of some new row.
Upload ==
  /\ files < MaxFiles /\ upload = {}
  /\ upload' = {File(files + 1, {files + 1})}
  /\ store' = store \cup upload'
  /\ files' = files + 1
  /\ UNCHANGED <<now, snaps, lock, node, cycles, faults, raced, twice, slowest>>

\* The append commits on any base, or the flush fails and leaves an orphan.  The
\* intent of a flush is kept for as long as it takes: a retry or a recovery
\* commits it at any age, and does not look whether its files are still there.
Append_(f) ==
  /\ f \in upload /\ upload' = upload \ {f}
  /\ \/ Commit({f}, {}) /\ UNCHANGED faults
     \/ Fault /\ UNCHANGED snaps
  /\ UNCHANGED <<now, store, lock, node, files, cycles, raced, twice, slowest>>

Tick ==
  /\ now < MaxTime /\ now' = now + 1
  /\ UNCHANGED <<snaps, store, lock, node, upload, files, cycles, faults, raced, twice, slowest>>

Crash(n) ==
  /\ node[n].pc # "idle" /\ Fault /\ Set(n, Idle)
  /\ UNCHANGED <<now, snaps, store, lock, upload, files, cycles, raced, twice, slowest>>

Init ==
  /\ now = 1 /\ upload = {} /\ files = InitialFiles
  /\ store = {File(f, {f}) : f \in 1 .. InitialFiles}
  /\ snaps = [f \in 1 .. InitialFiles |-> [ts |-> 1, adds |-> {File(f, {f})}, removes |-> {}]]
  /\ lock = [owner |-> NoOwner, ts |-> 0]
  /\ node = [n \in Nodes |-> Idle]
  /\ cycles = 0 /\ faults = MaxFaults /\ raced = FALSE /\ twice = FALSE
  /\ slowest = 0

Compact(n) ==
  \/ AcquireLoad(n) \/ AcquireCheck(n) \/ AcquireApply(n)
  \/ PlanSnapshot(n) \/ PlanFiles(n) \/ NextGroup(n) \/ Verify(n) \/ Rewrite(n)
  \/ ReplaceCheck(n) \/ ReplaceApply(n)
  \/ ReleaseLoad(n) \/ ReleaseCheck(n) \/ ReleaseApply(n)

Sweep(n) == Protect(n) \/ List(n) \/ Delete(n)

Next ==
  \/ \E n \in Nodes : Compact(n) \/ Sweep(n) \/ Crash(n)
  \/ Upload \/ (\E f \in upload : Append_(f)) \/ Tick

Spec == Init /\ [][Next]_vars

-----------------------------------------------------------------------------
(* Properties. *)

TypeOK ==
  /\ now \in 1 .. MaxTime /\ Current <= MaxSnaps /\ files \in 0 .. MaxFiles
  /\ lock.owner \in Nodes \cup {NoOwner} /\ (lock.owner = NoOwner <=> lock.ts = 0)
  /\ \A k \in 1 .. Current : snaps[k].removes \subseteq Manifest(k)
  /\ \A n \in Nodes : node[n].base <= Current

\* The age of a file when snapshot k listed it, and the longest sweep so far,
\* together reach the age from which unlisted files are deleted.
CommittedLate(f, k) == snaps[k].ts - f.at + slowest >= MinAge

\* A sweep deletes a file of a snapshot only if that file was committed late:
\* not one a flush or a compaction commits in time while the sweep runs, nor a
\* superseded one an older snapshot needs, however long nodes, sweeps and
\* intents last and wherever one of them stops.
FilesExist == \A k \in 1 .. Current : \A f \in snaps[k].adds : f \in store \/ CommittedLate(f, k)

\* "Only files older than min_age are eligible, so in-progress writers that have
\* not yet committed are never raced": false of an intent that outlives min_age.
WritersNeverRaced == Manifest(Current) \cup upload \subseteq store

CommittedRows == UNION {f.rows : f \in Manifest(Current)}

\* Whatever compactions commit, and however many nodes believe they hold the
\* lock, every committed row is in some live file.
RowsKept == CommittedRows \subseteq UNION {f.rows : f \in Live(Current)}

Disjoint == \A f, g \in Live(Current) : f = g \/ f.rows \cap g.rows = {}

\* As long as one node at a time works under the lock, every row is in one
\* live file only, through concurrent appends, conflicts and lost answers.
RowsOnce == twice \/ Disjoint

\* ... and two nodes work at once only after a lock outlived its TTL, or after
\* a property update that raced another between its check and its commit.
LockHeld ==
  \A m, n \in Nodes : m # n /\ Working(m) /\ Working(n) =>
    raced \/ now - node[m].at > LockTtl \/ now - node[n].at > LockTtl

\* Compaction keeps every row, and keeps it once but for two nodes that really
\* worked at the same time, which takes an expired lock or a raced update.
RowsSound == TypeOK /\ RowsKept /\ RowsOnce /\ LockHeld

\* "Even if the lock is double-held, at most one compaction can commit": no
\* file is superseded twice.
OneCompactionCommits ==
  \A j, k \in 1 .. Current : j # k => snaps[j].removes \cap snaps[k].removes = {}
=============================================================================
