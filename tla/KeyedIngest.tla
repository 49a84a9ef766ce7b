----------------------------- MODULE KeyedIngest -----------------------------
(***************************************************************************)
(* Ingest with idempotency keys: the claim-before-WAL handshake of         *)
(* IdempotencyIndex, the index's bounds (a time to live and a capacity),   *)
(* and its reconstruction by WAL replay, which drops a record whose key it *)
(* has already seen.                                                       *)
(*                                                                         *)
(* A request that acquired its key is a batch: requests[r] keeps its key,  *)
(* table incarnation, claim time, generation and progress.  The flush is   *)
(* reduced to what the handshake can disturb: a range of generations is    *)
(* prepared durably, then committed or restored after a crash.             *)
(***************************************************************************)
EXTENDS Integers, FiniteSets, Sequences

CONSTANTS
  Keys,         \* idempotency keys
  TTL,          \* how long a key is remembered
  Cap,          \* max_keys_per_table
  MaxRequests,  \* bound: requests that acquire a key
  MaxTime,      \* bound: clock
  MaxDrops,     \* bound: table incarnations after the first
  MaxFaults,    \* bound: faults of all kinds together
  Faults        \* "append", "torn", "cancel", "full", "crash"

ASSUME KeyedAssumption ==
  /\ IsFiniteSet(Keys) /\ Keys # {}
  /\ TTL \in Nat /\ Cap \in Nat \ {0} /\ MaxRequests \in Nat
  /\ MaxTime \in Nat /\ MaxDrops \in Nat /\ MaxFaults \in Nat
  /\ Faults \subseteq {"append", "torn", "cancel", "full", "crash"}

VARIABLES
  mode,       \* "up", "replaying", "down", "exited"
  now,
  requests,   \* sequence of [key, table, at, gen, pc]
  inProgress, \* key -> claim time, or Never
  completed,  \* key -> [batch, at], batch 0 for none
  table,      \* current incarnation of the table
  nextGen, frontier,
  reserved, pending, inFlight,   \* sets of batches
  wal,        \* batches with a replayable record
  prepared,   \* batches of the durable prepared intent
  orphans,    \* batches of prepared intents of dropped incarnations
  published,
  todo,       \* replay plan
  forgotten,  \* history: batches published before the last restart
  faults

vars == <<mode, now, requests, inProgress, completed, table, nextGen, frontier,
          reserved, pending, inFlight, wal, prepared, orphans, published, todo,
          forgotten, faults>>

indexVars == <<inProgress, completed>>
bufferVars == <<nextGen, frontier, reserved, pending, inFlight, prepared, orphans,
                published>>

Never == -1
NoReceipt == [batch |-> 0, at |-> Never]
Batches == DOMAIN requests
Gen(b) == requests[b].gen
Key(b) == requests[b].key

\* Requests that hold their claim: claimed, reserved with the frame queued, or
\* durable and not yet admitted.
Open == {"claimed", "queued", "durable"}

Fault(k) == k \in Faults /\ faults > 0 /\ faults' = faults - 1

At(r, pc) == requests' = [requests EXCEPT ![r].pc = pc]

Alive(at) == at # Never /\ now - at <= TTL

-----------------------------------------------------------------------------
(* The index. *)

IsDuplicate(k) == completed[k].batch # 0 /\ Alive(completed[k].at)

\* Mutation: a key whose request is still in flight is acquired again.
Acquires_IgnoresInProgress(k) == ~IsDuplicate(k)

Acquires(k) == ~IsDuplicate(k) /\ ~Alive(inProgress[k])

\* The completed map after inserting a receipt: above its capacity the cache
\* evicts an entry of its own choice.
Remember(k, b, at) ==
  LET all  == [completed EXCEPT ![k] = [batch |-> b, at |-> at]]
      held == {j \in Keys : all[j].batch # 0}
  IN  IF Cardinality(held) <= Cap THEN completed' = all
      ELSE \E victim \in held : completed' = [all EXCEPT ![victim] = NoReceipt]

\* complete removes whatever claim the key has now and keeps its claim time.
Complete(k, b) ==
  IF inProgress[k] = Never THEN UNCHANGED indexVars
  ELSE /\ Remember(k, b, inProgress[k])
       /\ inProgress' = [inProgress EXCEPT ![k] = Never]

Abort(k) ==
  /\ inProgress' = [inProgress EXCEPT ![k] = Never]
  /\ UNCHANGED completed

-----------------------------------------------------------------------------
(* Ingest. *)

\* claim answers Acquired.  The other answers change nothing but the removal of
\* an expired receipt.
Claim(k) ==
  /\ mode = "up" /\ Len(requests) < MaxRequests
  /\ Acquires(k)
  /\ inProgress' = [inProgress EXCEPT ![k] = now]
  /\ completed' = [completed EXCEPT ![k] = NoReceipt]
  /\ requests' = Append(requests, [key |-> k, table |-> table, at |-> now,
                                   gen |-> 0, pc |-> "claimed"])
  /\ UNCHANGED <<mode, now, table, bufferVars, wal, todo, forgotten, faults>>

\* A request whose table was dropped meanwhile holds the old buffer.
Reserve(r) ==
  /\ requests[r].pc = "claimed"
  /\ IF requests[r].table = table
     THEN /\ requests' = [requests EXCEPT ![r].pc = "queued", ![r].gen = nextGen]
          /\ nextGen' = nextGen + 1
          /\ reserved' = reserved \cup {r}
     ELSE At(r, "queued") /\ UNCHANGED <<nextGen, reserved>>
  /\ UNCHANGED <<mode, now, indexVars, table, frontier, pending, inFlight, wal,
                 prepared, orphans, published, todo, forgotten, faults>>

ReserveFail(r) ==
  /\ Fault("full")
  /\ requests[r].pc = "claimed"
  /\ At(r, "failed")
  /\ Abort(Key(r))
  /\ UNCHANGED <<mode, now, table, bufferVars, wal, todo, forgotten>>

WalAppend(r) ==
  /\ requests[r].pc = "queued"
  /\ At(r, "durable")
  /\ wal' = wal \cup {r}
  /\ UNCHANGED <<mode, now, indexVars, table, bufferVars, todo, forgotten, faults>>

\* Mutation: the failed request completes its key instead of releasing it.
AppendFail_Completes(r) ==
  /\ Fault("append")
  /\ requests[r].pc = "queued"
  /\ At(r, "failed")
  /\ wal' = wal
  /\ reserved' = reserved \ {r}
  /\ Complete(Key(r), r)
  /\ UNCHANGED <<mode, now, table, nextGen, frontier, pending, inFlight, prepared,
                 orphans, published, todo, forgotten>>

\* The append fails; a frame the truncation does not remove is replayed later.
AppendFail(r) ==
  /\ Fault("append")
  /\ requests[r].pc = "queued"
  /\ At(r, "failed")
  /\ \/ wal' = wal
     \/ "torn" \in Faults /\ wal' = wal \cup {r}
  /\ reserved' = reserved \ {r}
  /\ Abort(Key(r))
  /\ UNCHANGED <<mode, now, table, nextGen, frontier, pending, inFlight, prepared,
                 orphans, published, todo, forgotten>>

\* The batch is admitted, the key completed and the client answered.
Admit(r) ==
  /\ requests[r].pc = "durable"
  /\ At(r, "acked")
  /\ reserved' = reserved \ {r}
  /\ pending' = IF requests[r].table = table THEN pending \cup {r} ELSE pending
  /\ Complete(Key(r), r)
  /\ UNCHANGED <<mode, now, table, nextGen, frontier, inFlight, wal, prepared,
                 orphans, published, todo, forgotten, faults>>

\* The request's future is dropped at its await: claim and reservation stay, and
\* a frame already sent is written.
Cancel(r) ==
  /\ Fault("cancel")
  /\ requests[r].pc \in {"queued", "durable"}
  /\ At(r, "gone")
  /\ wal' \in {wal, wal \cup {r}}
  /\ UNCHANGED <<mode, now, indexVars, table, bufferVars, todo, forgotten>>

\* drop_table and the creation of a new incarnation: the buffer and every key
\* are forgotten and the tombstone voids the records so far.  Requests in flight
\* go on, and the sidecar of an unresolved intent stays unless its flush failed
\* before the table was created again.
DropTable ==
  /\ mode = "up" /\ table <= MaxDrops
  /\ table' = table + 1
  /\ nextGen' = 1 /\ frontier' = 0
  /\ reserved' = {} /\ pending' = {} /\ inFlight' = {}
  /\ prepared' = {} /\ orphans' \in {orphans, orphans \cup prepared}
  /\ wal' = {}
  /\ inProgress' = [k \in Keys |-> Never]
  /\ completed' = [k \in Keys |-> NoReceipt]
  /\ UNCHANGED <<mode, now, requests, published, todo, forgotten, faults>>

Tick ==
  /\ now < MaxTime
  /\ now' = now + 1
  /\ UNCHANGED <<mode, requests, indexVars, table, bufferVars, wal, todo,
                 forgotten, faults>>

-----------------------------------------------------------------------------
(* Flush, reduced to its durable steps. *)

Low(s)  == CHOOSE g \in {Gen(b) : b \in s} : \A b \in s : g <= Gen(b)
High(s) == CHOOSE g \in {Gen(b) : b \in s} : \A b \in s : Gen(b) <= g

\* Mutation: the drain takes every pending batch.
Drainable_PastReserved == pending

Drainable == {b \in pending : \A r \in reserved : Gen(b) < Gen(r)}

Prepare ==
  /\ mode = "up" /\ prepared = {} /\ Drainable # {}
  /\ inFlight' = Drainable
  /\ prepared' = Drainable
  /\ pending' = pending \ Drainable
  /\ UNCHANGED <<mode, now, requests, indexVars, table, nextGen, frontier,
                 reserved, wal, orphans, published, todo, forgotten, faults>>

\* The guard refuses a range that is not above the checkpoint.
Commit ==
  /\ mode = "up" /\ prepared # {}
  /\ Low(prepared) > frontier
  /\ published' = published \cup prepared
  /\ frontier' = High(prepared)
  /\ inFlight' = {} /\ prepared' = {}
  /\ UNCHANGED <<mode, now, requests, indexVars, table, nextGen, reserved,
                 pending, wal, orphans, todo, forgotten, faults>>

-----------------------------------------------------------------------------
(* Crash and replay. *)

Crash ==
  /\ Fault("crash")
  /\ mode \in {"up", "replaying"}
  /\ mode' = "down"
  /\ requests' = [r \in Batches |->
       IF requests[r].pc \in Open THEN [requests[r] EXCEPT !.pc = "gone"]
       ELSE requests[r]]
  /\ inProgress' = [k \in Keys |-> Never]
  /\ completed' = [k \in Keys |-> NoReceipt]
  /\ reserved' = {} /\ pending' = {} /\ inFlight' = {} /\ todo' = {}
  /\ UNCHANGED <<now, table, nextGen, frontier, wal, prepared, orphans, published,
                 forgotten>>

\* load_target_metadata fails on a record or a sidecar of another incarnation.
Foreign == orphans \cup {b \in wal : requests[b].table # table}

\* The replay plan, and the buffer's first generation from the checkpoint.
Recover ==
  /\ mode = "down"
  /\ mode' = IF Foreign = {} THEN "replaying" ELSE "exited"
  /\ nextGen' = frontier + 1
  /\ todo' = {b \in wal : Gen(b) > frontier}
  /\ forgotten' = published
  /\ UNCHANGED <<now, requests, indexVars, table, frontier, reserved, pending,
                 inFlight, wal, prepared, orphans, published, faults>>

\* (generation, batch_id) order.
Before(a, b) == Gen(a) < Gen(b) \/ (Gen(a) = Gen(b) /\ a <= b)

\* restore_prepared: the replayed rows of the range become the in-flight set;
\* its two ends must be among them.
Restore(rows) ==
  LET range == {b \in rows : Low(prepared) <= Gen(b) /\ Gen(b) <= High(prepared)} IN
  IF {Low(prepared), High(prepared)} \subseteq {Gen(b) : b \in range}
  THEN /\ inFlight' = range
       /\ pending' = rows \ range
       /\ UNCHANGED mode
  ELSE /\ pending' = rows
       /\ mode' = "exited"
       /\ UNCHANGED inFlight

Unresolved == prepared # {} /\ inFlight = {}

\* One record: its key is claimed and completed at once, or is a duplicate of a
\* record replayed before it and the record is skipped.
ReplayRecord(b) ==
  /\ mode = "replaying" /\ b \in todo /\ \A c \in todo : Before(b, c)
  /\ todo' = todo \ {b}
  /\ IF ~Acquires(Key(b))
     THEN UNCHANGED <<mode, indexVars, nextGen, pending, inFlight>>
     ELSE /\ nextGen' = IF nextGen > Gen(b) THEN nextGen ELSE Gen(b) + 1
          /\ Remember(Key(b), b, now) /\ UNCHANGED inProgress
          /\ IF Unresolved /\ Gen(b) >= High(prepared)
             THEN Restore(pending \cup {b})
             ELSE pending' = pending \cup {b} /\ UNCHANGED <<mode, inFlight>>
  /\ UNCHANGED <<now, requests, table, frontier, reserved, wal, prepared,
                 orphans, published, forgotten, faults>>

\* Sidecars left over are resolved, then ingest opens.
ReplayDone ==
  /\ mode = "replaying" /\ todo = {}
  /\ IF Unresolved
     THEN Restore(pending)
     ELSE mode' = "up" /\ UNCHANGED <<pending, inFlight>>
  /\ UNCHANGED <<now, requests, indexVars, table, nextGen, frontier, reserved,
                 wal, prepared, orphans, published, todo, forgotten, faults>>

-----------------------------------------------------------------------------
Init ==
  /\ mode = "up" /\ now = 0 /\ requests = <<>>
  /\ inProgress = [k \in Keys |-> Never]
  /\ completed = [k \in Keys |-> NoReceipt]
  /\ table = 1 /\ nextGen = 1 /\ frontier = 0
  /\ reserved = {} /\ pending = {} /\ inFlight = {}
  /\ wal = {} /\ prepared = {} /\ orphans = {} /\ published = {} /\ todo = {}
  /\ forgotten = {} /\ faults = MaxFaults

Request(r) ==
  \/ Reserve(r) \/ ReserveFail(r)
  \/ WalAppend(r) \/ AppendFail(r) \/ Admit(r) \/ Cancel(r)

Next ==
  \/ \E k \in Keys : Claim(k)
  \/ \E r \in Batches : Request(r)
  \/ DropTable \/ Tick
  \/ Prepare \/ Commit
  \/ Crash \/ Recover \/ ReplayDone
  \/ \E b \in todo : ReplayRecord(b)

Spec == Init /\ [][Next]_vars

-----------------------------------------------------------------------------
TypeOK ==
  /\ mode \in {"up", "replaying", "down", "exited"}
  /\ now \in 0 .. MaxTime /\ table \in 1 .. (MaxDrops + 1) /\ faults \in 0 .. MaxFaults
  /\ requests \in Seq([key: Keys, table: 1 .. (MaxDrops + 1), at: 0 .. MaxTime,
                       gen: 0 .. MaxRequests, pc: Open \cup {"acked", "failed", "gone"}])
  /\ inProgress \in [Keys -> Never .. MaxTime]
  /\ completed \in [Keys -> [batch: 0 .. MaxRequests, at: Never .. MaxTime]]
  /\ nextGen \in 1 .. (MaxRequests + 1) /\ frontier \in 0 .. MaxRequests
  /\ \A s \in {reserved, pending, inFlight, wal, prepared, orphans, published, todo,
               forgotten} :
       s \subseteq Batches

Acked == {r \in Batches : requests[r].pc = "acked"}

\* Where the rows of the current table's batches are: the buffer, the files of the
\* prepared intent, the table.
Landed == {b \in pending \cup inFlight \cup prepared \cup published :
             requests[b].table = table}

\* A failed append of the key left its frame in the log.
Torn(k) == \E b \in wal : requests[b].pc = "failed" /\ Key(b) = k

\* Within the window, a key's rows land once: while no claim of the key is older
\* than the time to live, no more keys than the capacity were used and the table
\* was not dropped, of two batches with the same key in the buffer or the table one
\* was already published when the process last started (the index is rebuilt from
\* unflushed records only), or is a failed append that replay found below a
\* restored range and that the guard will never let pass.  Whatever requests fail,
\* are dropped or are retried.
KeyLandsOnce ==
  (mode = "up" /\ table = 1 /\ Cardinality({Key(r) : r \in Batches}) <= Cap) =>
    \A a, b \in pending \cup inFlight \cup published :
      (/\ a # b /\ Key(a) = Key(b)
       /\ \A r \in Batches : Key(r) = Key(a) => Alive(requests[r].at))
        => \/ {a, b} \cap forgotten # {}
           \/ \E c \in {a, b} : requests[c].pc = "failed" /\ Gen(c) <= frontier

\* Replay drops a record as a duplicate only when the rows of its key are kept:
\* every acknowledged batch of the current table is served by a batch of its key,
\* unless replay may take the frame of a failed append for it.
AckedKeyServed ==
  mode = "up" =>
    \A r \in Acked : requests[r].table = table =>
      Torn(Key(r)) \/ \E b \in Landed : Key(b) = Key(r)

\* A receipt served to a duplicate request stands for a batch of that key that is
\* durable unless its table was dropped, also when the claim it completed was
\* another request's.
ReceiptDurable ==
  \A k \in Keys : completed[k].batch # 0 =>
    LET b == completed[k].batch IN
    Key(b) = k /\ (b \in wal \/ requests[b].table # table)

\* An answered key stands for rows: a receipt for a durable batch of that key, and
\* an acknowledged batch, dropped by replay as a duplicate or not, for rows that
\* are served.
ReceiptHonoured == TypeOK /\ AckedKeyServed /\ ReceiptDurable

-----------------------------------------------------------------------------
(* Statements of the documents and comments that the code does not keep. *)

\* "Exactly one concurrent caller per key acquires it": no two requests hold the
\* same key of the same table under claims that have not expired.
OneOwner ==
  \A r, q \in Batches :
    (/\ r # q /\ Key(r) = Key(q) /\ requests[r].table = requests[q].table
     /\ requests[r].pc \in Open /\ requests[q].pc \in Open)
      => ~(Alive(requests[r].at) /\ Alive(requests[q].at))

\* evict_table is there because receipts of an old incarnation "would silently
\* swallow ingests into the new one".
ReceiptOfThisTable ==
  \A k \in Keys : completed[k].batch # 0 => requests[completed[k].batch].table = table

\* "The ingest receipt's exact local position is (table_uuid, writer_id,
\* generation)": two acknowledged batches of a table differ in generation.
PositionsDiffer ==
  \A r, q \in Acked :
    r # q /\ requests[r].table = requests[q].table => Gen(r) # Gen(q)

\* The prepared intent's "exact WAL range" can be reclaimed: recovery does not
\* fail on it.
RangeReclaimed == mode # "exited"
=============================================================================
