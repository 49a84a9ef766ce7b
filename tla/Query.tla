------------------------------- MODULE Query -------------------------------
(***************************************************************************)
(* The read path of a node: a query resolves its tables through the        *)
(* metadata cache, pins the snapshots it scans, executes (on the scheduler *)
(* or, when that cannot be reached, locally) and streams its batches.      *)
(* Pins live in the memory of a standalone node and in table properties,   *)
(* under a lease, in a distributed one.  Commits, the sweeper's expiry of  *)
(* stale pins, deadlines, clients that go away and crashes run beside it.  *)
(*                                                                         *)
(* A table's snapshots are numbered by the catalog; version 0 is a table   *)
(* without a snapshot.  A provider is [snap, files, at]: the snapshot id   *)
(* that is pinned, the version whose files are read, and when it was       *)
(* loaded.                                                                 *)
(***************************************************************************)
EXTENDS Integers, FiniteSets, Sequences

LOCAL INSTANCE FiniteSetsExt

CONSTANTS
  Queries,      \* query ids
  Tables,
  Nothing,      \* no table, no provider
  Requests,     \* query -> the <<kind, tables>> it may be; the kinds are "rest",
                \* "flight" and "schema" (Flight's planning of a result schema)
  MetadataTtl,  \* query.metadata_refresh_secs
  MaxLocks,     \* load-lock registry's max_entries
  LeaseTtl,     \* lease of a catalog pin
  NumBatches,   \* record batches of a result
  FirstVersion, \* table -> version at the start
  MaxCommits,   \* bound: commits to the tables that exist, together
  MaxTime,      \* bound: clock
  MaxFaults,    \* bound: faults of all kinds together
  Faults        \* "load", "pin", "release", "unreachable", "fail", "timeout",
                \* "gone", "drop", "crash"

ASSUME QueryAssumption ==
  /\ IsFiniteSet(Queries) /\ IsFiniteSet(Tables) /\ Nothing \notin Tables
  /\ MetadataTtl \in Nat \ {0} /\ MaxLocks \in Nat \ {0} /\ LeaseTtl \in Nat
  /\ NumBatches \in Nat /\ MaxCommits \in Nat /\ MaxTime \in Nat /\ MaxFaults \in Nat
  /\ \A q \in Queries : Requests[q] \subseteq
       {"rest", "flight", "schema"} \X (SUBSET Tables \ {{}})
  /\ FirstVersion \in [Tables -> Nat]
  /\ "overflow" \notin Tables \cup {Nothing}

VARIABLES
  role,       \* "standalone" or "distributed": which registry, and the fallback
  now,
  version,    \* table -> its version in the catalog, or Missing
  cache,      \* table -> provider, or Nothing
  lock,       \* query -> load lock it refers to, or Nothing
  holds,      \* queries that hold their lock
  query,      \* query -> its future, see Idle
  queryPins,  \* queries in the engine's query_pins map
  pins,       \* <<query, table>> -> [snap, until], or Nothing: the registry
  held,       \* query -> tables recorded by this node's catalog registry
  releasing,  \* query -> tables a release task still has to visit
  status,     \* query -> QueryStatus, or "none"
  overflowed, \* history: a load lock came from the overflow stripes
  stray,      \* history: pins no release task will visit
  faults

cacheVars == <<cache, lock, holds, overflowed>>
pinVars   == <<queryPins, pins, held, releasing, stray>>
vars == <<role, now, version, cacheVars, query, pinVars, status, faults>>

Missing == -1
NoPin == [snap |-> Missing, until |-> 0]
Shared == "overflow"       \* the one overflow stripe
Own(t) == t                \* the lock of an entry of the registry

Idle == [pc |-> "idle", kind |-> "none", scan |-> {}, todo |-> {}, table |-> Nothing,
         meta |-> 0, files |-> 0, plan |-> [t \in Tables |-> Nothing], pinned |-> {},
         until |-> [t \in Tables |-> 0], got |-> <<>>]

Preparing == {"resolve", "wait", "load", "files", "insert", "pin", "pinning", "record"}
Reading   == {"handle", "local", "stream"}
Active(q) == query[q].pc \notin {"idle", "done"}

Fault(k) == k \in Faults /\ faults > 0 /\ faults' = faults - 1

Set(q, fields) == query' = [query EXCEPT ![q] = fields]
Done(q) == [Idle EXCEPT !.pc = "done",
              !.got = IF Len(query[q].got) = NumBatches THEN query[q].got ELSE <<>>]

-----------------------------------------------------------------------------
(* Pins. *)

Registered(q) == {t \in Tables : pins[q, t] # NoPin}

Without(q, ts) == [k \in Queries \X Tables |->
                     IF k[1] = q /\ k[2] \in ts THEN NoPin ELSE pins[k]]

\* release_query_snapshot_pins: at once in memory, by a spawned task otherwise.
\* The task takes the tables recorded for the query.
Release(q) ==
  IF role = "standalone"
  THEN pins' = Without(q, Tables) /\ UNCHANGED <<held, releasing>>
  ELSE /\ releasing' = [releasing EXCEPT ![q] = @ \cup held[q]]
       /\ held' = [held EXCEPT ![q] = {}]
       /\ UNCHANGED pins

\* The future, the handle or the stream of the query is dropped.  While it is
\* prepared the pins taken so far are dropped one by one; later the PinReleaser
\* releases them unless a cancel already did.  A pin whose write was applied but
\* not yet answered is recorded nowhere.
Unpin(q) ==
  /\ queryPins' = queryPins \ {q}
  /\ stray' = IF query[q].pc = "record" THEN stray \cup {<<q, query[q].table>>} ELSE stray
  /\ IF q \in queryPins \/ (query[q].pc \in Preparing /\ query[q].pinned # {})
     THEN Release(q) ELSE UNCHANGED <<pins, held, releasing>>

\* Mutation: the handle of a query that is not executed keeps its pins.
Drop_ForgetsHandle(q) ==
  /\ Set(q, Done(q))
  /\ lock' = [lock EXCEPT ![q] = Nothing]
  /\ holds' = holds \ {q}
  /\ IF query[q].pc = "handle" THEN UNCHANGED pinVars ELSE Unpin(q)

Drop(q) ==
  /\ Set(q, Done(q))
  /\ lock' = [lock EXCEPT ![q] = Nothing]
  /\ holds' = holds \ {q}
  /\ Unpin(q)

\* One table of a release task; a failed removal is left to the lease.
ReleaseTask(q) ==
  /\ releasing[q] # {}
  /\ \E t \in releasing[q] :
       /\ releasing' = [releasing EXCEPT ![q] = @ \ {t}]
       /\ \/ pins' = Without(q, {t}) /\ UNCHANGED <<stray, faults>>
          \/ Fault("release") /\ stray' = stray \cup {<<q, t>>} /\ UNCHANGED pins
  /\ UNCHANGED <<role, now, version, cacheVars, query, queryPins, held, status>>

\* The sweeper's expire_stale: a lease that has lapsed is removed by any node.
ExpireStale(t) ==
  /\ role = "distributed"
  /\ \E q \in Queries : pins[q, t] # NoPin /\ pins[q, t].until < now
  /\ pins' = [k \in Queries \X Tables |->
       IF k[2] = t /\ pins[k] # NoPin /\ pins[k].until < now THEN NoPin ELSE pins[k]]
  /\ UNCHANGED <<role, now, version, cacheVars, query, queryPins, held, releasing,
                 stray, status, faults>>

-----------------------------------------------------------------------------
(* prepare: resolving tables through the metadata cache. *)

Begin(q, kind, scan) ==
  /\ query[q].pc = "idle"
  /\ Set(q, [Idle EXCEPT !.pc = "resolve", !.kind = kind, !.scan = scan, !.todo = scan])
  /\ status' = [status EXCEPT ![q] = "planning"]
  /\ UNCHANGED <<role, now, version, cacheVars, pinVars, faults>>

Fail(q) == Drop(q) /\ status' = [status EXCEPT ![q] = "failed"]

Fresh(t) == cache[t] # Nothing /\ now - cache[t].at < MetadataTtl

\* LoadLockRegistry::lock: the live entry of the key, a new entry below the
\* cap, or an overflow stripe.
Live == {l \in Tables : \E q \in Queries : lock[q] = l}
LoadLock(t) ==
  IF Own(t) \in Live \/ Cardinality(Live) < MaxLocks THEN Own(t) ELSE Shared

Taken(l) == \E q \in holds : lock[q] = l

\* What a plan keeps of a provider.
Frozen(p) == IF p = Nothing THEN Nothing ELSE [snap |-> p.snap, files |-> p.files]

\* The table is resolved to a provider; the guard and the lock are dropped.
Resolved(q, t, p) ==
  /\ LET left == query[q].todo \ {t} IN
     Set(q, [query[q] EXCEPT !.plan[t] = Frozen(p), !.table = Nothing,
               !.meta = 0, !.files = 0,
               !.todo = IF left = {} THEN query[q].scan ELSE left,
               !.pc = IF left = {} THEN "pin" ELSE "resolve"])
  /\ lock' = [lock EXCEPT ![q] = Nothing]
  /\ holds' = holds \ {q}

\* MetadataCache::table: fresh entries are served, stale ones are refreshed by
\* whoever gets the lock at once and served stale to everyone else, and a
\* missing entry is loaded by one query at a time.
Lookup(q, t) ==
  LET l == LoadLock(t) IN
  /\ query[q].pc = "resolve" /\ t \in query[q].todo
  /\ \/ /\ Fresh(t) \/ (cache[t] # Nothing /\ Taken(l))
        /\ Resolved(q, t, cache[t]) /\ UNCHANGED overflowed
     \/ /\ ~Fresh(t) /\ ~(cache[t] # Nothing /\ Taken(l))
        /\ lock' = [lock EXCEPT ![q] = l]
        /\ holds' = IF Taken(l) THEN holds ELSE holds \cup {q}
        /\ Set(q, [query[q] EXCEPT !.table = t, !.plan[t] = Frozen(cache[t]),
                     !.pc = IF Taken(l) THEN "wait" ELSE "load"])
        /\ overflowed' = (overflowed \/ l = Shared)
  /\ UNCHANGED <<role, now, version, cache, pinVars, status, faults>>

\* Mutation: the loader does not wait for the lock.
Acquire_NoWait(q) ==
  /\ query[q].pc = "wait"
  /\ IF Fresh(query[q].table)
     THEN Resolved(q, query[q].table, cache[query[q].table])
     ELSE /\ holds' = holds \cup {q}
          /\ Set(q, [query[q] EXCEPT !.pc = "load"])
          /\ UNCHANGED lock
  /\ UNCHANGED <<role, now, version, cache, overflowed, pinVars, status, faults>>

Acquire(q) ==
  /\ query[q].pc = "wait" /\ ~Taken(lock[q])
  /\ IF Fresh(query[q].table)
     THEN Resolved(q, query[q].table, cache[query[q].table])
     ELSE /\ holds' = holds \cup {q}
          /\ Set(q, [query[q] EXCEPT !.pc = "load"])
          /\ UNCHANGED lock
  /\ UNCHANGED <<role, now, version, cache, overflowed, pinVars, status, faults>>

\* A failed refresh serves the stale provider it was to replace; a failed first
\* load fails the query, which prepare does not retry: classify_planning_error
\* makes no retryable error.
LoadFailed(q) ==
  LET t == query[q].table IN
  IF query[q].plan[t] # Nothing
  THEN Resolved(q, t, query[q].plan[t]) /\ UNCHANGED <<cache, overflowed, pinVars, status>>
  ELSE Fail(q) /\ UNCHANGED <<cache, overflowed>>

\* load_provider's load_table.  A refresh forgets a table that is gone.
LoadTable(q) ==
  LET t == query[q].table IN
  /\ query[q].pc = "load"
  /\ \/ /\ version[t] # Missing
        /\ Set(q, [query[q] EXCEPT !.pc = "files", !.meta = version[t]])
        /\ UNCHANGED <<cacheVars, pinVars, status, faults>>
     \/ /\ version[t] = Missing
        /\ cache' = IF query[q].plan[t] = Nothing THEN cache
                    ELSE [cache EXCEPT ![t] = Nothing]
        /\ Fail(q) /\ UNCHANGED <<overflowed, faults>>
     \/ Fault("load") /\ LoadFailed(q)
  /\ UNCHANGED <<role, now, version>>

\* load_live_files, a second read of the catalog.  Files of a table that had no
\* snapshot a moment ago are taken for corruption by with_live_files.
LoadLiveFiles(q) ==
  LET t == query[q].table  v == version[t] IN
  /\ query[q].pc = "files"
  /\ \/ /\ v # Missing /\ (query[q].meta = 0 => v = 0)
        /\ Set(q, [query[q] EXCEPT !.pc = "insert", !.files = v])
        /\ UNCHANGED <<cacheVars, pinVars, status, faults>>
     \/ /\ v = Missing \/ (query[q].meta = 0 /\ v > 0)
        /\ LoadFailed(q) /\ UNCHANGED faults
     \/ Fault("load") /\ LoadFailed(q)
  /\ UNCHANGED <<role, now, version>>

\* The provider enters the cache.
Insert(q) ==
  LET t == query[q].table
      p == [snap |-> query[q].meta, files |-> query[q].files, at |-> now] IN
  /\ query[q].pc = "insert"
  /\ cache' = [cache EXCEPT ![t] = p]
  /\ Resolved(q, t, p)
  /\ UNCHANGED <<role, now, version, overflowed, pinVars, status, faults>>

-----------------------------------------------------------------------------
(* prepare: pinning the scanned snapshots. *)

Unchanged == UNCHANGED <<role, now, version, cacheVars>>

Scanned(q) == {t \in query[q].todo : query[q].plan[t].snap # 0}

\* registry.pin of one scan target: atomic in memory; a catalog pin fixes its
\* lease before the property is written.
Pin(q, t) ==
  /\ query[q].pc = "pin" /\ t \in Scanned(q)
  /\ IF role = "standalone"
     THEN /\ Set(q, [query[q] EXCEPT !.todo = @ \ {t}, !.pinned = @ \cup {t}])
          /\ pins' = [pins EXCEPT ![<<q, t>>] = [snap |-> query[q].plan[t].snap, until |-> 0]]
     ELSE /\ Set(q, [query[q] EXCEPT !.pc = "pinning", !.table = t,
                                     !.until[t] = now + LeaseTtl])
          /\ UNCHANGED pins
  /\ UNCHANGED <<queryPins, held, releasing, stray, status, faults>> /\ Unchanged

\* cas_set.  A failure is logged and the query goes on without that pin, which the
\* catalog may have applied all the same: then nobody but the lease removes it.
PinWrite(q) ==
  LET t == query[q].table
      written == pins' = [pins EXCEPT ![<<q, t>>] = [snap |-> query[q].plan[t].snap,
                                                 until |-> query[q].until[t]]]
      without == Set(q, [query[q] EXCEPT !.pc = "pin", !.table = Nothing, !.todo = @ \ {t}])
  IN
  /\ query[q].pc = "pinning"
  /\ \/ /\ version[t] # Missing /\ written
        /\ Set(q, [query[q] EXCEPT !.pc = "record"])
        /\ UNCHANGED <<stray, faults>>
     \/ version[t] = Missing /\ without /\ UNCHANGED <<pins, stray, faults>>
     \/ Fault("pin") /\ without /\ UNCHANGED <<pins, stray>>
     \/ /\ version[t] # Missing /\ Fault("pin") /\ written /\ without
        /\ stray' = stray \cup {<<q, t>>}
  /\ UNCHANGED <<queryPins, held, releasing, status>> /\ Unchanged

\* The write is answered: record_local and a SnapshotPin for the query.
PinRecord(q) ==
  LET t == query[q].table IN
  /\ query[q].pc = "record"
  /\ held' = [held EXCEPT ![q] = @ \cup {t}]
  /\ Set(q, [query[q] EXCEPT !.pc = "pin", !.table = Nothing,
                             !.todo = @ \ {t}, !.pinned = @ \cup {t}])
  /\ UNCHANGED <<queryPins, pins, releasing, stray, status, faults>> /\ Unchanged

PinDone(q) ==
  /\ query[q].pc = "pin" /\ Scanned(q) = {}
  /\ Set(q, [query[q] EXCEPT !.pc = "handle", !.todo = {}])
  /\ queryPins' = IF query[q].pinned = {} THEN queryPins ELSE queryPins \cup {q}
  /\ UNCHANGED <<pins, held, releasing, stray, status, faults>> /\ Unchanged

-----------------------------------------------------------------------------
(* Execution. *)

\* A request for a schema ends with its handle.
HandleDropped(q) ==
  /\ query[q].pc = "handle" /\ query[q].kind = "schema"
  /\ Drop(q)
  /\ UNCHANGED <<role, now, version, cache, overflowed, status, faults>>

Running(q) ==
  /\ status' = [status EXCEPT ![q] = "running"]
  /\ Set(q, [query[q] EXCEPT !.pc = "stream"])

\* execute_stream takes the plan and the releaser out of the handle.  With
\* execute_with_fallback an unreachable scheduler, before any batch, sends the
\* prepared plan to the local engine of a distributed node.
ExecuteStream(q) ==
  /\ query[q].pc = "handle" /\ query[q].kind # "schema"
  /\ \/ Running(q) /\ UNCHANGED <<pinVars, lock, holds, faults>>
     \/ /\ role = "distributed" /\ Fault("unreachable")
        /\ Set(q, [query[q] EXCEPT !.pc = "local"])
        /\ UNCHANGED <<pinVars, lock, holds, status>>
     \/ Fault("fail") /\ Fail(q)
  /\ UNCHANGED <<role, now, version, cache, overflowed>>

\* A query executes on one engine; its batches are marked with that engine.
Local(q) ==
  /\ query[q].pc = "local"
  /\ \/ /\ status' = [status EXCEPT ![q] = "running"]
        /\ Set(q, [query[q] EXCEPT !.pc = "stream", !.kind = "local"])
        /\ UNCHANGED <<pinVars, lock, holds, faults>>
     \/ Fault("fail") /\ Fail(q)
  /\ UNCHANGED <<role, now, version, cache, overflowed>>

Engine(q) == IF query[q].kind = "local" THEN "local" ELSE "remote"

Batch(q) ==
  /\ query[q].pc = "stream" /\ Len(query[q].got) < NumBatches
  /\ Set(q, [query[q] EXCEPT !.got = Append(@, Engine(q))])
  /\ UNCHANGED <<pinVars, status, faults>> /\ Unchanged

\* Mutation: an engine lost in the middle of a stream is replaced, too.
StreamFails_FallsBack(q) ==
  /\ query[q].pc = "stream" /\ Fault("fail")
  /\ Set(q, [query[q] EXCEPT !.pc = "local"])
  /\ UNCHANGED <<pinVars, status>> /\ Unchanged

\* track_stream: an error ends the stream, whatever its cause.
StreamFails(q) ==
  /\ query[q].pc = "stream" /\ Fault("fail")
  /\ Fail(q)
  /\ UNCHANGED <<role, now, version, cache, overflowed>>

StreamEnds(q) ==
  /\ query[q].pc = "stream" /\ Len(query[q].got) = NumBatches
  /\ Drop(q) /\ status' = [status EXCEPT ![q] = "completed"]
  /\ UNCHANGED <<role, now, version, cache, overflowed, faults>>

-----------------------------------------------------------------------------
(* Deadlines, clients and crashes. *)

\* The deadline passes: REST and updates drop what they wait for and cancel; a
\* Flight stream is cancelled while it still exists; planning a schema just ends.
Timeout(q) ==
  /\ Fault("timeout")
  /\ query[q].pc \in Preparing \cup Reading
  /\ IF query[q].kind = "flight" /\ query[q].pc = "stream"
     THEN /\ Set(q, [query[q] EXCEPT !.pc = "cancelled"])
          /\ queryPins' = queryPins \ {q}
          /\ IF q \in queryPins THEN Release(q) ELSE UNCHANGED <<pins, held, releasing>>
          /\ UNCHANGED <<lock, holds, stray>>
     ELSE Drop(q)
  /\ status' = IF query[q].kind = "schema" THEN status
               ELSE [status EXCEPT ![q] = "cancelled"]
  /\ UNCHANGED <<role, now, version, cache, overflowed>>

\* The client goes away, or REST has enough rows: what exists is dropped.
Gone(q) ==
  /\ \/ query[q].pc = "cancelled" /\ UNCHANGED faults
     \/ Active(q) /\ query[q].pc # "cancelled" /\ Fault("gone")
  /\ Drop(q)
  /\ UNCHANGED <<role, now, version, cache, overflowed, status>>

\* Everything but the catalog is gone.
Crash ==
  /\ Fault("crash")
  /\ query' = [q \in Queries |-> IF Active(q) THEN Done(q) ELSE query[q]]
  /\ cache' = [t \in Tables |-> Nothing]
  /\ lock' = [q \in Queries |-> Nothing] /\ holds' = {}
  /\ queryPins' = {} /\ held' = [q \in Queries |-> {}]
  /\ releasing' = [q \in Queries |-> {}]
  /\ pins' = IF role = "standalone" THEN [k \in Queries \X Tables |-> NoPin] ELSE pins
  /\ stray' = stray \cup {k \in Queries \X Tables : pins'[k] # NoPin}
  /\ status' = [q \in Queries |-> "none"]
  /\ UNCHANGED <<role, now, version, overflowed>>

\* The commits that count against the bound.
Commits ==
  MapThenSumSet(LAMBDA t : version[t] - FirstVersion[t], {t \in Tables : version[t] # Missing})

Commit(t) ==
  /\ version[t] # Missing /\ Commits < MaxCommits
  /\ version' = [version EXCEPT ![t] = @ + 1]
  /\ UNCHANGED <<role, now, cacheVars, query, pinVars, status, faults>>

DropTable(t) ==
  /\ version[t] # Missing /\ Fault("drop")
  /\ version' = [version EXCEPT ![t] = Missing]
  /\ pins' = IF role = "standalone" THEN pins
             ELSE [k \in Queries \X Tables |-> IF k[2] = t THEN NoPin ELSE pins[k]]
  /\ UNCHANGED <<role, now, cacheVars, query, queryPins, held, releasing, stray, status>>

Tick ==
  /\ now < MaxTime
  /\ now' = now + 1
  /\ UNCHANGED <<role, version, cacheVars, query, pinVars, status, faults>>

-----------------------------------------------------------------------------
Init ==
  /\ role \in {"standalone", "distributed"}
  /\ now = 0 /\ version = FirstVersion
  /\ cache = [t \in Tables |-> Nothing]
  /\ lock = [q \in Queries |-> Nothing] /\ holds = {} /\ overflowed = FALSE
  /\ query = [q \in Queries |-> Idle]
  /\ queryPins = {} /\ pins = [k \in Queries \X Tables |-> NoPin]
  /\ held = [q \in Queries |-> {}] /\ releasing = [q \in Queries |-> {}] /\ stray = {}
  /\ status = [q \in Queries |-> "none"]
  /\ faults = MaxFaults

Step(q) ==
  \/ \E r \in Requests[q] : Begin(q, r[1], r[2])
  \/ \E t \in Tables : Lookup(q, t) \/ Pin(q, t)
  \/ Acquire(q) \/ LoadTable(q) \/ LoadLiveFiles(q) \/ Insert(q)
  \/ PinWrite(q) \/ PinRecord(q) \/ PinDone(q)
  \/ HandleDropped(q) \/ ExecuteStream(q) \/ Local(q)
  \/ Batch(q) \/ StreamFails(q) \/ StreamEnds(q)
  \/ Timeout(q) \/ Gone(q) \/ ReleaseTask(q)

Next ==
  \/ \E q \in Queries : Step(q)
  \/ \E t \in Tables : Commit(t) \/ DropTable(t) \/ ExpireStale(t)
  \/ Crash \/ Tick

Spec == Init /\ [][Next]_vars

-----------------------------------------------------------------------------
Providers == [snap: Nat, files: Nat, at: 0 .. MaxTime]

TypeOK ==
  /\ role \in {"standalone", "distributed"} /\ now \in 0 .. MaxTime
  /\ \A t \in Tables : version[t] \in {v \in Nat : v >= FirstVersion[t]} \cup {Missing}
  /\ \A t \in Tables : cache[t] \in Providers \cup {Nothing}
  /\ \A q \in Queries : lock[q] \in Tables \cup {Shared, Nothing}
  /\ holds \subseteq {q \in Queries : query[q].pc \in {"load", "files", "insert"}}
  /\ \A q \in holds : lock[q] # Nothing
  /\ \A q \in Queries : held[q] \cup releasing[q] \cup query[q].pinned \subseteq Tables
  /\ queryPins \subseteq Queries /\ stray \subseteq Queries \X Tables

\* What a load lock is for: while the registry has room, the loads of a table
\* come one after the other, so its cached provider never goes back to older
\* files (MetadataCache::table, LoadLockRegistry::lock).
CacheAdvances ==
  [][\A t \in Tables :
       (cache[t] # Nothing /\ cache'[t] # Nothing /\ cache'[t].files < cache[t].files)
         => overflowed']_vars

\* A query that holds a plan, executes or streams has every snapshot it managed
\* to pin in the registry until the lease lapses or the table goes, through the
\* handle, the fallback and the stream (BallistaQueryState.pin_releaser).
PinHeld ==
  \A q \in Queries : query[q].pc \in Reading =>
    \A t \in query[q].pinned :
      \/ pins[q, t].snap = query[q].plan[t].snap
      \/ role = "distributed" /\ pins[q, t] = NoPin
         /\ (version[t] = Missing \/ now > query[q].until[t])

\* Every pin has someone who will remove it: its query, a release task, or, when
\* the release failed, was cut off by a crash or never learned of the pin, the
\* lease.  On a standalone node no pin outlives its query.
PinsFreed ==
  \A q \in Queries, t \in Tables : pins[q, t] # NoPin =>
    \/ Active(q)
    \/ t \in releasing[q]
    \/ role = "distributed" /\ <<q, t>> \in stray

\* The files a plan reads are never older than the snapshot it pins, so the pin
\* keeps nothing from being read that the snapshot had (load_provider).
FilesCoverPin ==
  \A q \in Queries, t \in Tables :
    query[q].plan[t] # Nothing => query[q].plan[t].files >= query[q].plan[t].snap

\* A pin is there while its query reads, goes when nobody reads, and stands for no
\* more than is read.
PinsSound == TypeOK /\ PinHeld /\ PinsFreed /\ FilesCoverPin

\* "before any batch is produced - never after partial results": the batches of
\* a query come from one engine, and a completed query delivered all of them.
WholeResult ==
  \A q \in Queries :
    /\ \A i, j \in DOMAIN query[q].got : query[q].got[i] = query[q].got[j]
    /\ Len(query[q].got) <= NumBatches
    /\ status[q] = "completed" => Len(query[q].got) = NumBatches

-----------------------------------------------------------------------------
(* Statements of the documents and comments that the code does not keep. *)

\* "At planning time, TeoDB resolves the current Iceberg snapshot for each
\* scanned table. The query engine pins the snapshot": the snapshot that is
\* pinned is the one that is read.
PinIsRead ==
  \A q \in Queries, t \in Tables :
    query[q].plan[t] # Nothing => query[q].plan[t].files = query[q].plan[t].snap

\* "Running queries are protected from cleanup by snapshot pins": no lease ends
\* before its query.
LeaseOutlivesQuery ==
  \A q \in Queries : query[q].pc \in Reading =>
    \A t \in query[q].pinned : version[t] = Missing \/ pins[q, t] # NoPin
=============================================================================
