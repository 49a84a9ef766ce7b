----------------------------- MODULE ObjectCache -----------------------------
(***************************************************************************)
(* The local whole-object cache in front of the object store.              *)
(*                                                                         *)
(*   CacheIndex     entries, LRU order and byte count under one mutex;     *)
(*                  one .bin file per checksum, written through a .tmp     *)
(*   SingleFlight   one fetch per object at a time, the others wait        *)
(*   CachedStorage  get, get_range, put, delete and copy                   *)
(*   maintenance    persists the index; a restart loads it                 *)
(*                                                                         *)
(* An action is the code between two await points.  A checksum stands for  *)
(* the content it is computed from; last_access_ms is an order of entries. *)
(***************************************************************************)
EXTENDS Integers, Sequences, FiniteSets, SequencesExt

CONSTANTS
  Objects,      \* object URIs
  Contents,     \* the bytes an object can have
  PutContents,  \* the bytes the callers' puts write
  Absent,       \* no such object, no result
  Size,         \* [Contents -> Nat]
  Procs,        \* concurrent callers
  Calls,        \* the operations they issue
  MaxTotal,     \* cache.max_total_bytes
  MaxObject,    \* cache.max_per_object_bytes
  InitialStore, \* [Objects -> Contents \cup {Absent}]
  MaxOps, MaxFaults, Faults     \* bounds; Faults \subseteq {"cancel", "crash"}

ASSUME CacheConstants ==
  /\ PutContents \subseteq Contents
  /\ Absent \notin Contents /\ Size \in [Contents -> Nat]
  /\ MaxTotal \in Nat /\ MaxObject \in Nat
  /\ Calls \subseteq {"get", "range", "put", "delete", "copy"}

VARIABLES
  store,      \* the object store
  held,       \* history: every content an object ever had
  entries,    \* uri -> checksum of its entry, Absent: none
  lru,        \* uris by last access, oldest first
  total,      \* IndexState.total_bytes
  tmp, bin,   \* the files of a checksum: "none", "torn" or "whole"
  flight,     \* SingleFlight: the leader of an object's fetch
  proc, ops,
  dirty, saved, persist,   \* the index on disk and the task that writes it
  excess,     \* history: bytes an interrupted eviction or an old index left
  faults

indexVars == <<entries, lru, total>>
fileVars  == <<tmp, bin>>
diskVars  == <<dirty, saved, persist>>
vars == <<store, held, indexVars, fileVars, flight, proc, ops, diskVars, excess, faults>>

-----------------------------------------------------------------------------

Idle == [pc |-> "idle", op |-> "none", uri |-> Absent, data |-> Absent, seen |-> Absent,
         evict |-> <<>>, file |-> Absent, leader |-> Absent, result |-> Absent]

Goto(p, pc) == proc' = [proc EXCEPT ![p].pc = pc]
Set(p, r) == proc' = [proc EXCEPT ![p] = r]

\* The call is over: `result' is what the caller gets, or "error".
Done(p, r) == [Idle EXCEPT !.pc = "done", !.op = proc[p].op, !.uri = proc[p].uri, !.result = r]
Return(p, r) == Set(p, Done(p, r))

RECURSIVE SumSizes(_, _)
SumSizes(es, uris) ==
  IF uris = {} THEN 0
  ELSE LET u == CHOOSE u \in uris : TRUE IN
       (IF es[u] = Absent THEN 0 ELSE Size[es[u]]) + SumSizes(es, uris \ {u})

Drop(u) == SelectSeq(lru, LAMBDA v : v # u)

\* Entry, LRU key and bytes of a uri leave the index together.
RemoveEntry(u) ==
  /\ entries' = [entries EXCEPT ![u] = Absent]
  /\ lru' = Drop(u)
  /\ total' = IF entries[u] = Absent THEN total
              ELSE IF total >= Size[entries[u]] THEN total - Size[entries[u]] ELSE 0

InsertEntry(u, c) ==
  /\ entries' = [entries EXCEPT ![u] = c]
  /\ lru' = Append(Drop(u), u)
  /\ total' = Size[c] + (IF entries[u] = Absent THEN total ELSE total - Size[entries[u]])

\* maybe_evict: oldest entries until the total is at 90% of the limit.
EvictionList ==
  LET toFree == total - ((MaxTotal * 9) \div 10)
      before(n) == SumSizes(entries, {lru[k] : k \in 1 .. n - 1})
  IN IF total <= MaxTotal THEN <<>>
     ELSE SubSeq(lru, 1, Cardinality({n \in 1 .. Len(lru) : before(n) < toFree}))

-----------------------------------------------------------------------------
(* get_cached. *)

\* What the caller does next once the cache has no answer.
Missed(p) == IF proc[p].op = "range" THEN "range_miss" ELSE "join"

\* The entry is cloned under the mutex; the file is read after it.
GetEntry(p) ==
  /\ proc[p].pc = "lookup"
  /\ IF entries[proc[p].uri] = Absent THEN Goto(p, Missed(p))
     ELSE Set(p, [proc[p] EXCEPT !.pc = "read", !.seen = entries[proc[p].uri]])
  /\ UNCHANGED <<store, held, indexVars, fileVars, flight, ops, diskVars, excess, faults>>

Touch(u) == IF entries[u] = Absent THEN UNCHANGED lru ELSE lru' = Append(Drop(u), u)

\* Mutation: the checksum of what was read is not compared.
ReadFile_Unverified(p) ==
  LET u == proc[p].uri  c == proc[p].seen IN
  /\ proc[p].pc = "read"
  /\ IF bin[c] = "none"
     THEN RemoveEntry(u) /\ Set(p, [proc[p] EXCEPT !.pc = Missed(p), !.seen = Absent])
     ELSE /\ Touch(u) /\ UNCHANGED <<entries, total>>
          /\ Return(p, IF bin[c] = "torn" THEN "torn" ELSE c)
  /\ UNCHANGED <<store, held, fileVars, flight, ops, diskVars, excess, faults>>

\* A whole file is a hit, a missing one drops the entry, a torn one is removed.
ReadFile(p) ==
  LET u == proc[p].uri  c == proc[p].seen IN
  /\ proc[p].pc = "read"
  /\ \/ /\ bin[c] = "whole" /\ Touch(u) /\ Return(p, c)
        /\ UNCHANGED <<entries, total>>
     \/ bin[c] = "none" /\ RemoveEntry(u) /\ Set(p, [proc[p] EXCEPT !.pc = Missed(p), !.seen = Absent])
     \/ /\ bin[c] = "torn" /\ RemoveEntry(u)
        /\ Set(p, [proc[p] EXCEPT !.pc = "unlink_miss", !.seen = Absent,
                                  !.file = entries[u]])
  /\ UNCHANGED <<store, held, fileVars, flight, ops, diskVars, excess, faults>>

\* remove, after the mutex: the file goes, and with it every entry's copy of
\* the same bytes.
Unlink(p, next) ==
  /\ bin' = IF proc[p].file = Absent THEN bin ELSE [bin EXCEPT ![proc[p].file] = "none"]
  /\ dirty' = (dirty \/ proc[p].file # Absent)
  /\ Set(p, [proc[p] EXCEPT !.pc = next, !.file = Absent])

UnlinkTorn(p) ==
  /\ proc[p].pc = "unlink_miss" /\ Unlink(p, Missed(p))
  /\ UNCHANGED <<store, held, indexVars, tmp, flight, ops, saved, persist, excess, faults>>

\* A small range goes to the store; a large one that covers most of the object
\* loads it whole.
RangeMiss(p) ==
  /\ proc[p].pc = "range_miss"
  /\ \/ Return(p, IF store[proc[p].uri] = Absent THEN "not_found" ELSE store[proc[p].uri])
     \/ Set(p, [proc[p] EXCEPT !.pc = "lookup", !.op = "get"])
  /\ UNCHANGED <<store, held, indexVars, fileVars, flight, ops, diskVars, excess, faults>>

-----------------------------------------------------------------------------
(* SingleFlight. *)

\* The map is read; inserting our channel is a separate step.
Join(p) ==
  /\ proc[p].pc = "join"
  /\ IF flight[proc[p].uri] # Absent
     THEN Set(p, [proc[p] EXCEPT !.pc = "wait", !.leader = flight[proc[p].uri]])
     ELSE Goto(p, "lead")
  /\ UNCHANGED <<store, held, indexVars, fileVars, flight, ops, diskVars, excess, faults>>

Lead(p) ==
  /\ proc[p].pc = "lead"
  /\ flight' = [flight EXCEPT ![proc[p].uri] = p]
  /\ Set(p, [proc[p] EXCEPT !.pc = "fetch", !.leader = p])
  /\ UNCHANGED <<store, held, indexVars, fileVars, ops, diskVars, excess, faults>>

\* A waiter whose channel got a value, or was closed, takes it.
Wait(p) ==
  /\ proc[p].pc = "answered" /\ Return(p, proc[p].result)
  /\ UNCHANGED <<store, held, indexVars, fileVars, flight, ops, diskVars, excess, faults>>

\* p leaves as r; the waiters on its channel find `answer' in it.
Broadcast(p, r, answer) ==
  LET waits(q) == q # p /\ proc[q].pc = "wait" /\ proc[q].leader = proc[p].leader IN
  proc' = [q \in Procs |-> IF q = p THEN r
                          ELSE IF waits(q) THEN [proc[q] EXCEPT !.pc = "answered", !.result = answer]
                          ELSE proc[q]]

\* The leader's fetch: inner.get and inner.head; a failure is the result.
Fetch(p) ==
  LET c == store[proc[p].uri] IN
  /\ proc[p].pc = "fetch"
  /\ Set(p, IF c = Absent THEN [proc[p] EXCEPT !.pc = "land", !.result = "not_found"]
            ELSE [proc[p] EXCEPT !.pc = "fill", !.data = c, !.result = c])
  /\ UNCHANGED <<store, held, indexVars, fileVars, flight, ops, diskVars, excess, faults>>

\* Waiters get the bytes, or the failure as an internal error whatever it was.
\* The entry in the map goes with the guard: the key's, whoever inserted it.
Land(p) ==
  /\ proc[p].pc = "land"
  /\ flight' = [flight EXCEPT ![proc[p].uri] = Absent]
  /\ Broadcast(p, Done(p, proc[p].result),
               IF proc[p].result = "not_found" THEN "error" ELSE proc[p].result)
  /\ UNCHANGED <<store, held, indexVars, fileVars, ops, diskVars, excess, faults>>

-----------------------------------------------------------------------------
(* put_cached and maybe_evict. *)

After(p) == IF proc[p].op \in {"get", "range"} THEN "land" ELSE "end"

\* An oversized object is not cached.  File::create truncates the .tmp.
WriteBegin(p) ==
  /\ proc[p].pc = "fill"
  /\ IF Size[proc[p].data] > MaxObject
     THEN Goto(p, After(p)) /\ UNCHANGED tmp
     ELSE tmp' = [tmp EXCEPT ![proc[p].data] = "torn"] /\ Goto(p, "writing")
  /\ UNCHANGED <<store, held, indexVars, bin, flight, ops, diskVars, excess, faults>>

\* The bytes land in the file we opened, even if it was renamed meanwhile.
WriteEnd(p) ==
  LET c == proc[p].data IN
  /\ proc[p].pc = "writing"
  /\ tmp' = IF tmp[c] = "torn" THEN [tmp EXCEPT ![c] = "whole"] ELSE tmp
  /\ bin' = IF tmp[c] = "none" /\ bin[c] = "torn" THEN [bin EXCEPT ![c] = "whole"] ELSE bin
  /\ Goto(p, "rename")
  /\ UNCHANGED <<store, held, indexVars, flight, ops, diskVars, excess, faults>>

\* Without a .tmp the rename fails, and with it the caller's operation.
Rename(p) ==
  LET c == proc[p].data IN
  /\ proc[p].pc = "rename"
  /\ IF tmp[c] = "none"
     THEN /\ Set(p, [proc[p] EXCEPT !.pc = After(p), !.result = "error"])
          /\ UNCHANGED fileVars
     ELSE /\ bin' = [bin EXCEPT ![c] = tmp[c]] /\ tmp' = [tmp EXCEPT ![c] = "none"]
          /\ Goto(p, "insert")
  /\ UNCHANGED <<store, held, indexVars, flight, ops, diskVars, excess, faults>>

Insert(p) ==
  /\ proc[p].pc = "insert"
  /\ InsertEntry(proc[p].uri, proc[p].data)
  /\ Goto(p, "evict")
  /\ UNCHANGED <<store, held, fileVars, flight, ops, diskVars, excess, faults>>

\* The victims are chosen under the mutex and removed one by one after it.
ChooseVictims(p) ==
  /\ proc[p].pc = "evict"
  /\ Set(p, [proc[p] EXCEPT !.evict = EvictionList, !.pc = "evicting"])
  /\ UNCHANGED <<store, held, indexVars, fileVars, flight, ops, diskVars, excess, faults>>

EvictOne(p) ==
  /\ proc[p].pc = "evicting"
  /\ IF proc[p].evict = <<>>
     THEN Goto(p, After(p)) /\ dirty' = TRUE /\ UNCHANGED indexVars
     ELSE /\ RemoveEntry(Head(proc[p].evict)) /\ UNCHANGED dirty
          /\ Set(p, [proc[p] EXCEPT !.pc = "unlink_evicted", !.evict = Tail(@),
                                    !.file = entries[Head(proc[p].evict)]])
  /\ UNCHANGED <<store, held, fileVars, flight, ops, saved, persist, excess, faults>>

UnlinkEvicted(p) ==
  /\ proc[p].pc = "unlink_evicted" /\ Unlink(p, "evicting")
  /\ UNCHANGED <<store, held, indexVars, tmp, flight, ops, saved, persist, excess, faults>>

-----------------------------------------------------------------------------
(* put, delete, copy: the entry is removed, then the store changes. *)

Invalidate(p) ==
  /\ proc[p].pc = "invalidate"
  /\ RemoveEntry(proc[p].uri)
  /\ Set(p, [proc[p] EXCEPT !.pc = "unlink", !.file = entries[proc[p].uri]])
  /\ UNCHANGED <<store, held, fileVars, flight, ops, diskVars, excess, faults>>

UnlinkInvalid(p) ==
  /\ proc[p].pc = "unlink" /\ Unlink(p, "store")
  /\ UNCHANGED <<store, held, indexVars, tmp, flight, ops, saved, persist, excess, faults>>

Write(u, c) ==
  /\ store' = [store EXCEPT ![u] = c]
  /\ held' = [held EXCEPT ![u] = (@ \cup {c}) \ {Absent}]

\* A put fills the cache with what it wrote; delete and copy do not.
StoreStep(p) ==
  LET u == proc[p].uri IN
  /\ proc[p].pc = "store"
  /\ \/ proc[p].op = "put" /\ Write(u, proc[p].data) /\ Goto(p, "fill")
     \/ proc[p].op = "delete" /\ Write(u, Absent) /\ Goto(p, "end")
     \/ /\ proc[p].op = "copy" /\ Goto(p, "end")
        /\ \E from \in Objects \ {u} : Write(u, store[from])
  /\ UNCHANGED <<indexVars, fileVars, flight, ops, diskVars, excess, faults>>

End(p) ==
  /\ proc[p].pc = "end" /\ Return(p, proc[p].result)
  /\ UNCHANGED <<store, held, indexVars, fileVars, flight, ops, diskVars, excess, faults>>

-----------------------------------------------------------------------------

Call(p, op, u, c) ==
  /\ proc[p].pc \in {"idle", "done"} /\ ops < MaxOps
  /\ c \in IF op = "put" THEN PutContents ELSE {Absent}
  /\ ops' = ops + 1
  /\ Set(p, [Idle EXCEPT !.pc = IF op \in {"get", "range"} THEN "lookup" ELSE "invalidate",
                         !.op = op, !.uri = u, !.data = c])
  /\ UNCHANGED <<store, held, indexVars, fileVars, flight, diskVars, excess, faults>>

\* Mutation: the waiters are not told that their leader is gone.
Cancel_LeavesWaiters(p) ==
  /\ "cancel" \in Faults /\ faults > 0 /\ faults' = faults - 1
  /\ proc[p].pc \notin {"idle", "done"}
  /\ Set(p, Idle)
  /\ flight' = IF proc[p].leader = p THEN [flight EXCEPT ![proc[p].uri] = Absent] ELSE flight
  /\ excess' = IF total > excess THEN total ELSE excess
  /\ UNCHANGED <<store, held, indexVars, fileVars, ops, diskVars>>

\* The caller's future is dropped at an await: its channel closes, and the
\* flight's guard removes the key.
Cancel(p) ==
  /\ "cancel" \in Faults /\ faults > 0 /\ faults' = faults - 1
  /\ proc[p].pc \notin {"idle", "done"}
  /\ IF proc[p].leader = p THEN Broadcast(p, Idle, "error") ELSE Set(p, Idle)
  /\ flight' = IF proc[p].leader = p THEN [flight EXCEPT ![proc[p].uri] = Absent] ELSE flight
  /\ excess' = IF total > excess THEN total ELSE excess
  /\ UNCHANGED <<store, held, indexVars, fileVars, ops, diskVars>>

\* persist_if_dirty: clear the flag, copy the entries, write and rename.
PersistBegin ==
  /\ persist.pc = "idle" /\ dirty
  /\ dirty' = FALSE /\ persist' = [persist EXCEPT !.pc = "cleared"]
  /\ UNCHANGED <<store, held, indexVars, fileVars, flight, proc, ops, saved, excess, faults>>

PersistCopy ==
  /\ persist.pc = "cleared"
  /\ persist' = [pc |-> "copied", copy |-> entries]
  /\ UNCHANGED <<store, held, indexVars, fileVars, flight, proc, ops, dirty, saved, excess, faults>>

\* Mutation: the dirty flag is cleared once more after the write.
PersistWrite_ClearsLast ==
  /\ persist.pc = "copied"
  /\ saved' = persist.copy /\ dirty' = FALSE
  /\ persist' = [pc |-> "idle", copy |-> [u \in Objects |-> Absent]]
  /\ UNCHANGED <<store, held, indexVars, fileVars, flight, proc, ops, excess, faults>>

PersistWrite ==
  /\ persist.pc = "copied"
  /\ saved' = persist.copy
  /\ persist' = [pc |-> "idle", copy |-> [u \in Objects |-> Absent]]
  /\ UNCHANGED <<store, held, indexVars, fileVars, flight, proc, ops, dirty, excess, faults>>

\* A crash, and open_with_config: temporary files go, the saved index is
\* loaded with its own order and total.
Restart ==
  /\ "crash" \in Faults /\ faults > 0 /\ faults' = faults - 1
  /\ proc' = [p \in Procs |-> Idle] /\ flight' = [u \in Objects |-> Absent]
  /\ tmp' = [c \in Contents |-> "none"]
  /\ entries' = saved /\ total' = SumSizes(saved, Objects)
  /\ lru' \in SetToSeqs({u \in Objects : saved[u] # Absent})
  /\ excess' = SumSizes(saved, Objects)
  /\ dirty' = FALSE /\ persist' = [pc |-> "idle", copy |-> [u \in Objects |-> Absent]]
  /\ UNCHANGED <<store, held, bin, ops, saved>>

Init ==
  /\ store = InitialStore /\ held = [u \in Objects |-> {InitialStore[u]} \ {Absent}]
  /\ entries = [u \in Objects |-> Absent] /\ lru = <<>> /\ total = 0
  /\ tmp = [c \in Contents |-> "none"] /\ bin = [c \in Contents |-> "none"]
  /\ flight = [u \in Objects |-> Absent] /\ proc = [p \in Procs |-> Idle]
  /\ ops = 0 /\ dirty = FALSE /\ saved = [u \in Objects |-> Absent]
  /\ persist = [pc |-> "idle", copy |-> [u \in Objects |-> Absent]]
  /\ excess = 0 /\ faults = MaxFaults

Step(p) ==
  \/ GetEntry(p) \/ ReadFile(p) \/ UnlinkTorn(p) \/ RangeMiss(p)
  \/ Join(p) \/ Lead(p) \/ Wait(p) \/ Fetch(p) \/ Land(p)
  \/ WriteBegin(p) \/ WriteEnd(p) \/ Rename(p) \/ Insert(p)
  \/ ChooseVictims(p) \/ EvictOne(p) \/ UnlinkEvicted(p)
  \/ Invalidate(p) \/ UnlinkInvalid(p) \/ StoreStep(p) \/ End(p)

Next ==
  \/ \E p \in Procs : \/ Step(p) \/ Cancel(p)
                      \/ \E op \in Calls, u \in Objects, c \in Contents \cup {Absent} :
                           Call(p, op, u, c)
  \/ PersistBegin \/ PersistCopy \/ PersistWrite \/ Restart

Spec == Init /\ [][Next]_vars

-----------------------------------------------------------------------------
(* Properties. *)

Quiet == \A p \in Procs : proc[p].pc \in {"idle", "done"}

TypeOK ==
  /\ entries \in [Objects -> Contents \cup {Absent}] /\ total \in Nat
  /\ lru \in Seq(Objects) /\ IsInjective(lru)
  /\ \A c \in Contents : {tmp[c], bin[c]} \subseteq {"none", "torn", "whole"}
  /\ \A u \in Objects : flight[u] = Absent \/ flight[u] \in Procs

\* The byte count and the LRU order agree with the entries after every
\* operation, however inserts, evictions, invalidations and reads interleave.
Accounting ==
  /\ total = SumSizes(entries, Objects)
  /\ Len(lru) = Cardinality({u \in Objects : entries[u] # Absent})
  /\ \A u \in Objects : entries[u] # Absent => \E k \in 1 .. Len(lru) : lru[k] = u

\* A read never returns torn bytes or another object's: what it returns is
\* something the object held.
CleanReads ==
  \A p \in Procs : proc[p].pc = "done" /\ proc[p].op \in {"get", "range"} =>
    proc[p].result \in held[proc[p].uri] \cup {"error", "not_found"}

\* When no call is running the cache is within its limit, unless a cancelled
\* call or an index loaded from disk left it above.
Bounded == Quiet => total <= MaxTotal \/ total <= excess

\* With nothing running and the index not marked dirty, the index on disk has
\* every entry: a mutation during a persist is not forgotten.
IndexFresh ==
  Quiet /\ faults = MaxFaults /\ persist.pc = "idle" /\ ~dirty =>
    \A u \in Objects : entries[u] # Absent => saved[u] = entries[u]

\* The index is what it says: counts, order, limit and the copy on disk agree with
\* the entries (CacheIndex).
IndexSound == TypeOK /\ Accounting /\ Bounded /\ IndexFresh

\* A caller that waits on a fetch waits on one that still runs: no leader ends,
\* fails or is dropped without its waiters learning of it.
WaitersHaveLeader ==
  \A p \in Procs : proc[p].pc = "wait" =>
    LET l == proc[p].leader IN
    l # p /\ proc[l].leader = l /\ proc[l].uri = proc[p].uri /\ proc[l].pc \notin {"idle", "done"}

\* "A local cache reduces repeated object-store reads without changing
\* correctness": a read of an object that is in the store does not fail.
ReadsSucceed ==
  \A p \in Procs : proc[p].pc = "done" /\ proc[p].op \in {"get", "range"} =>
    (proc[p].result = "error" => store[proc[p].uri] = Absent)

\* "Writes, deletes, and copies invalidate affected entries."
NoStaleEntry == Quiet => \A u \in Objects : entries[u] \in {Absent, store[u]}

\* "Configuration controls: Total cache size": the files fit the limit too.
DiskBounded ==
  Quiet => \A c \in Contents : bin[c] # "none" => \E u \in Objects : entries[u] = c
=============================================================================
