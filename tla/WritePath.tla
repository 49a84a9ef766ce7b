------------------------------ MODULE WritePath ------------------------------
(***************************************************************************)
(* One table's write path on one writer node, from ingest to the Iceberg   *)
(* catalog and through crash recovery.                                     *)
(*                                                                         *)
(*   ingest      reserve a generation, append to the WAL, admit the batch  *)
(*   flush       drain, write Parquet, persist the prepared sidecar,       *)
(*               commit to the catalog, resolve an ambiguous answer,       *)
(*               complete or retire the intent                             *)
(*   recovery    replay the WAL, resolve the sidecar, open for ingest      *)
(*   catalog     validate and apply appends (the remote service)           *)
(*                                                                         *)
(* A batch is named by its generation.  An action is the code between two  *)
(* await points; a crash may fall between any two actions, and the future  *)
(* of a client's request may be dropped at any await point.                *)
(***************************************************************************)
EXTENDS AppendProtocol, FiniteSets

CONSTANTS
  MaxGen,      \* Generation::MAX: the generation that is never assigned
  Capacity,    \* max_bytes of the buffer, counted in batches
  NumRetries,  \* status_check.num_retries
  MaxPeers,    \* bound: commits by other writers
  MaxCommits,  \* bound: commit IDs this writer mints
  MaxFaults,   \* bound: environment faults of all kinds together
  Faults       \* the kinds of fault the environment may inject

FaultKinds ==
  {"append",    \* a WAL group write fails
   "torn",      \* ... and the best-effort truncation does not undo it
   "cancel",    \* the future of an ingest, flush or recheck call is dropped
   "write",     \* the Parquet upload fails
   "sidecar",   \* persisting or removing the sidecar file fails
   "load",      \* a catalog metadata load fails
   "connect",   \* the catalog cannot be reached for the update request
   "lost",      \* the answer to the update request is lost
   "delay",     \* ... while the request itself is still on its way
   "crash"}     \* the process dies, or is started again after it exited

ASSUME ConstantsAssumption ==
  /\ MaxGen \in Nat \ {0} /\ Capacity \in Nat /\ NumRetries \in Nat
  /\ MaxPeers \in Nat /\ MaxCommits \in Nat /\ MaxFaults \in Nat
  /\ Faults \subseteq FaultKinds

VARIABLES
  mode,       \* "down", "replaying", "up", or "exited" after a failed startup
  \* TableBuffer
  loaded,     \* the registry holds a buffer for the table
  nextGen, highWater,
  pending, inFlight, reserved,     \* sets of generations
  flush,      \* [state: Idle | Prepared | Blocked, intent]
  \* ingest requests and the WAL writer's queue
  live,       \* generations whose ingest future is still running
  queued,     \* generations whose frame has not been written yet
  \* the WAL directory
  wal,        \* generations with a replayable record
  walCut,     \* committed cutoff used by WAL GC
  sidecar,    \* the prepared-intent file
  epoch,      \* writer epoch of the identity file
  detached,   \* blocking file operations whose awaiting future was dropped
  \* the task that holds the flush lock: a flush, a recheck, or recovery
  task,       \* [pc, ctx, intent, checks, absent]
  \* recovery
  todo,       \* replay plan: uncommitted records not yet visited
  rside,      \* sidecar still to be resolved
  \* the catalog
  cat,        \* [epoch, gen: own checkpoint, history, peers]
  net,        \* dispatched updates whose snapshot requirement still holds
  \* history and bounds
  acked,      \* generations acknowledged to a client
  nextId,     \* commit IDs are minted in order
  faults      \* faults left

bufferVars  == <<loaded, nextGen, highWater, pending, inFlight, reserved, flush>>
ingestVars  == <<live, queued>>
walVars     == <<wal, walCut, sidecar, epoch, detached>>
replayVars  == <<todo, rside>>
catalogVars == <<cat, net>>
ghostVars   == <<acked, nextId>>
vars == <<mode, bufferVars, ingestVars, walVars, task, replayVars,
          catalogVars, ghostVars, faults>>

-----------------------------------------------------------------------------
(* Types. *)

Idle      == [state |-> "Idle", intent |-> NoIntent]
Holding(i) == [state |-> "Prepared", intent |-> i]
Blocked(i) == [state |-> "Blocked", intent |-> i]

NoTask == [pc |-> "idle", ctx |-> "none", intent |-> NoIntent,
           checks |-> 0, absent |-> 0]

PCs == {"idle", "writing", "persist", "commit", "rebase", "sent", "status",
        "retire", "walmark", "unlink", "gc", "exit"}

\* Who runs the task: a flush, its status-resolution loop, a recheck of a
\* blocked table, or startup recovery of the sidecar.  A flush of a replaying
\* node is the one recovery starts when replay fills the buffer.
Contexts == {"none", "flush", "resolve", "recheck", "recover"}

\* The generations that can be assigned.
Generations == 1 .. (MaxGen - 1)

IntentType == [id: Nat, epoch: Nat, lo: 0 .. (MaxGen - 1),
               hi: 0 .. (MaxGen - 1), rows: SUBSET Generations]

FlushType == [state: {"Idle", "Prepared", "Blocked"}, intent: IntentType]

DetachedType == [op: {"persist", "remove"}, intent: IntentType]

TaskType == [pc: PCs, ctx: Contexts, intent: IntentType, checks: Nat, absent: Nat]

CatalogType == [epoch: Nat, gen: 0 .. (MaxGen - 1), history: SUBSET IntentType,
                peers: Nat]

ModeTypes ==
  mode \in {"down", "replaying", "up", "exited"} /\ loaded \in BOOLEAN

NumberTypes ==
  /\ nextGen \in 1 .. MaxGen
  /\ highWater \in 0 .. (MaxGen - 1) /\ walCut \in 0 .. (MaxGen - 1)
  /\ epoch \in Nat /\ nextId \in Nat /\ faults \in Nat

SetTypes ==
  /\ pending \subseteq Generations /\ inFlight \subseteq Generations
  /\ reserved \subseteq Generations /\ live \subseteq Generations
  /\ queued \subseteq Generations /\ wal \subseteq Generations
  /\ todo \subseteq Generations /\ acked \subseteq Generations

RecordTypes ==
  /\ flush \in FlushType
  /\ task \in TaskType
  /\ sidecar \in IntentType /\ rside \in IntentType
  /\ detached \subseteq DetachedType
  /\ cat \in CatalogType
  /\ net \subseteq IntentType

\* No generation past the last assignable one is ever reserved, logged,
\* buffered, prepared or committed, and every field has its type.
TypeOK == ModeTypes /\ NumberTypes /\ SetTypes /\ RecordTypes

-----------------------------------------------------------------------------
(* Helpers. *)

Larger(a, b) == IF a >= b THEN a ELSE b

\* One environment fault of kind k happens.
Fault(k) == k \in Faults /\ faults > 0 /\ faults' = faults - 1

Verdict(i) == Validate(cat.history, cat.epoch, cat.gen, cat.peers, i)

\* ensure_capacity
HasRoom ==
  Cardinality(pending) + Cardinality(inFlight) + Cardinality(reserved) < Capacity

\* Mutation: the drain takes every pending batch.
Drainable_PastReserved == pending

\* A drain never passes a generation whose WAL append is still in progress.
Drainable == {g \in pending : \A r \in reserved : g < r}

At(pc) == task' = [task EXCEPT !.pc = pc]

\* The task ends in an error and releases the flush lock.  Startup propagates
\* the error of every task it awaits.
ReturnError ==
  task' = IF mode = "replaying" THEN [task EXCEPT !.pc = "exit"] ELSE NoTask

\* Everything a process loses when it stops, in mode m.
Stop(m) ==
  /\ mode' = m
  /\ loaded' = FALSE
  /\ nextGen' = 1 /\ highWater' = 0
  /\ pending' = {} /\ inFlight' = {} /\ reserved' = {}
  /\ flush' = Idle
  /\ live' = {} /\ queued' = {}
  /\ detached' = {}
  /\ todo' = {} /\ rside' = NoIntent
  /\ task' = NoTask

\* Mutation: the in-flight rows are dropped instead of returned.
MergeBack_Drops ==
  /\ pending' = pending
  /\ inFlight' = {}

MergeBack ==
  /\ pending' = pending \cup inFlight
  /\ inFlight' = {}

-----------------------------------------------------------------------------
(* Ingest. *)

\* BufferRegistry::get_or_load, by the first ingest or by recovery.
GetOrLoad ==
  /\ ~loaded
  /\ \/ mode = "up"
     \/ mode = "replaying" /\ (todo # {} \/ rside # NoIntent)
  /\ loaded' = TRUE
  /\ highWater' = cat.gen
  /\ nextGen' = cat.gen + 1
  /\ epoch' = IF cat.gen = 0 THEN epoch ELSE EpochAbove(epoch, cat.epoch)
  /\ walCut' = cat.gen
  /\ UNCHANGED <<mode, pending, inFlight, reserved, flush, ingestVars, wal,
                 sidecar, detached, task, replayVars, catalogVars, ghostVars,
                 faults>>

\* TableBuffer::reserve; the frame goes to the WAL writer's channel.
Reserve ==
  /\ mode = "up" /\ loaded
  /\ flush.state # "Blocked"
  /\ HasRoom
  /\ nextGen < MaxGen
  /\ nextGen' = nextGen + 1
  /\ reserved' = reserved \cup {nextGen}
  /\ live' = live \cup {nextGen}
  /\ queued' = queued \cup {nextGen}
  /\ UNCHANGED <<mode, loaded, highWater, pending, inFlight, flush, walVars,
                 task, replayVars, catalogVars, ghostVars, faults>>

\* The WAL writer makes a queued frame durable.
WalAppend(g) ==
  /\ g \in queued
  /\ queued' = queued \ {g}
  /\ wal' = wal \cup {g}
  /\ UNCHANGED <<mode, bufferVars, live, walCut, sidecar, epoch, detached, task,
                 replayVars, catalogVars, ghostVars, faults>>

\* A group write fails: the frame is truncated away, if the truncation works,
\* and a request that still waits releases its reservation.
WalAppendFail(g) ==
  /\ Fault("append")
  /\ g \in queued
  /\ queued' = queued \ {g}
  /\ \/ wal' = wal
     \/ "torn" \in Faults /\ wal' = wal \cup {g}
  /\ reserved' = IF g \in live THEN reserved \ {g} ELSE reserved
  /\ live' = live \ {g}
  /\ UNCHANGED <<mode, loaded, nextGen, highWater, pending, inFlight, flush,
                 walCut, sidecar, epoch, detached, task, replayVars,
                 catalogVars, ghostVars>>

\* The append is durable: insert_reserved_at admits the batch and the client is
\* answered.
Admit(g) ==
  /\ g \in live \cap wal
  /\ live' = live \ {g}
  /\ reserved' = reserved \ {g}
  /\ pending' = pending \cup {g}
  /\ nextGen' = Larger(nextGen, g + 1)
  /\ acked' = acked \cup {g}
  /\ UNCHANGED <<mode, loaded, highWater, inFlight, flush, queued, walVars,
                 task, replayVars, catalogVars, nextId, faults>>

\* The client disconnects and its ingest future is dropped between reserve and
\* insert_reserved; a frame that was already sent is still written.
CancelIngest(g) ==
  /\ Fault("cancel")
  /\ g \in live
  /\ live' = live \ {g}
  /\ queued' \in {queued, queued \ {g}}
  /\ UNCHANGED <<mode, bufferVars, walVars, task, replayVars, catalogVars,
                 ghostVars>>

-----------------------------------------------------------------------------
(* Flush: from the buffer to a durable prepared intent. *)

\* flush_once_inner finds a prepared intent and resumes it.
ResumePrepared ==
  /\ mode = "up" /\ task = NoTask
  /\ flush.state = "Prepared"
  /\ task' = [NoTask EXCEPT !.pc = "persist", !.ctx = "flush",
                            !.intent = flush.intent]
  /\ UNCHANGED <<mode, bufferVars, ingestVars, walVars, replayVars,
                 catalogVars, ghostVars, faults>>

\* drain_pending_to_in_flight; a set left in flight by an earlier task is
\* taken as it is.
DrainInto(t) ==
  /\ flush.state = "Idle"
  /\ nextId <= MaxCommits
  /\ IF inFlight # {}
     THEN UNCHANGED <<pending, inFlight>>
     ELSE /\ Drainable # {}
          /\ inFlight' = Drainable
          /\ pending' = pending \ Drainable
  /\ task' = t

StartedFlush == [NoTask EXCEPT !.pc = "writing", !.ctx = "flush"]

Drain ==
  /\ mode = "up" /\ task = NoTask
  /\ DrainInto(StartedFlush)
  /\ UNCHANGED <<mode, loaded, nextGen, highWater, reserved, flush, ingestVars,
                 walVars, replayVars, catalogVars, ghostVars, faults>>

\* Mutation: the range ends at the last assigned generation.
SetPrepared_ToLastAssigned ==
  /\ task.pc = "writing"
  /\ \E lo \in inFlight :
       /\ \A g \in inFlight : lo <= g
       /\ LET i == [id |-> nextId, epoch |-> epoch, lo |-> lo,
                    hi |-> nextGen - 1, rows |-> inFlight]
          IN  /\ flush' = Holding(i)
              /\ task' = [task EXCEPT !.pc = "persist", !.intent = i]
  /\ nextId' = nextId + 1
  /\ UNCHANGED <<mode, loaded, nextGen, highWater, pending, inFlight, reserved,
                 ingestVars, walVars, replayVars, catalogVars, acked, faults>>

\* The data files are written under a new commit ID and set_prepared installs
\* the intent.
SetPrepared ==
  /\ task.pc = "writing"
  /\ \E lo, hi \in inFlight :
       /\ \A g \in inFlight : lo <= g /\ g <= hi
       /\ LET i == [id |-> nextId, epoch |-> epoch, lo |-> lo, hi |-> hi,
                    rows |-> inFlight]
          IN  /\ flush' = Holding(i)
              /\ task' = [task EXCEPT !.pc = "persist", !.intent = i]
  /\ nextId' = nextId + 1
  /\ UNCHANGED <<mode, loaded, nextGen, highWater, pending, inFlight, reserved,
                 ingestVars, walVars, replayVars, catalogVars, acked, faults>>

\* The upload fails and rollback_unprepared_flush returns the rows.
WriteFail ==
  /\ Fault("write")
  /\ task.pc = "writing"
  /\ MergeBack
  /\ ReturnError
  /\ UNCHANGED <<mode, loaded, nextGen, highWater, reserved, flush, ingestVars,
                 walVars, replayVars, catalogVars, ghostVars>>

\* persist_prepared: the sidecar is created, or is already this intent.
PersistPrepared ==
  /\ task.pc = "persist"
  /\ sidecar \in {NoIntent, task.intent}
  /\ sidecar' = task.intent
  /\ At("commit")
  /\ UNCHANGED <<mode, bufferVars, ingestVars, wal, walCut, epoch, detached,
                 replayVars, catalogVars, ghostVars, faults>>

\* ... or the file holds a different intent.
PersistRefused ==
  /\ task.pc = "persist"
  /\ sidecar \notin {NoIntent, task.intent}
  /\ ReturnError
  /\ UNCHANGED <<mode, bufferVars, ingestVars, walVars, replayVars,
                 catalogVars, ghostVars, faults>>

\* ... or the file system fails, before or after the rename.
PersistFail ==
  /\ Fault("sidecar")
  /\ task.pc = "persist"
  /\ sidecar' \in IF sidecar = NoIntent THEN {NoIntent, task.intent} ELSE {sidecar}
  /\ ReturnError
  /\ UNCHANGED <<mode, bufferVars, ingestVars, wal, walCut, epoch, detached,
                 replayVars, catalogVars, ghostVars>>

-----------------------------------------------------------------------------
(* Commit: commit_flush, and what each caller makes of its answer. *)

\* Mutation: off by one at the high water.
CanMark_Below(i) ==
  IF inFlight = {} THEN i.hi < highWater
  ELSE i.hi \in inFlight /\ \A g \in inFlight : g <= i.hi

\* mark_committed accepts a completion only if its range ends where the
\* in-flight set ends, or lies below the high water when nothing is in flight.
CanMark(i) ==
  IF inFlight = {} THEN i.hi <= highWater
  ELSE i.hi \in inFlight /\ \A g \in inFlight : g <= i.hi

\* The catalog has proved the intent: the buffer side of complete_flush and
\* complete_prepared.
Complete ==
  LET i == task.intent IN
  IF CanMark(i)
  THEN /\ inFlight' = {}
       /\ highWater' = Larger(highWater, i.hi)
       /\ flush' = Idle
       /\ At("walmark")
  ELSE /\ UNCHANGED <<inFlight, highWater, flush>>
       /\ ReturnError

\* mark_flush_blocked, reported as an error.
Block ==
  /\ flush' = Blocked(task.intent)
  /\ ReturnError

\* Recovery contains every unproved outcome as a blocked flush and goes on.
Contain ==
  /\ flush' = Blocked(task.intent)
  /\ rside' = NoIntent
  /\ task' = NoTask

\* The tail of resolve_unknown's loop after check number n with a consecutive
\* NotCommitted answers: check again, or give up because the retries or the
\* deadline are exhausted.
CheckAgain(n, a) ==
  \/ /\ n <= NumRetries
     /\ task' = [task EXCEPT !.pc = "status", !.checks = n, !.absent = a]
     /\ UNCHANGED flush
  \/ Block

\* CommitStateUnknown.
Ambiguous ==
  \/ /\ task.ctx = "flush"
     /\ task' = [task EXCEPT !.pc = "status", !.ctx = "resolve"]
     /\ UNCHANGED <<flush, rside>>
  \/ task.ctx = "resolve" /\ CheckAgain(task.checks, 0) /\ UNCHANGED rside
  \/ task.ctx = "recheck" /\ task' = NoTask /\ UNCHANGED <<flush, rside>>
  \/ task.ctx = "recover" /\ Contain

\* A definitive failure other than a guard rejection: the intent is retired.
Definite ==
  IF task.ctx = "recover" THEN Contain
  ELSE At("retire") /\ UNCHANGED <<flush, rside>>

\* try_commit_append's bootstrap load fails: nothing was sent by this attempt.
BootstrapFail ==
  /\ Fault("load")
  /\ task.pc = "commit"
  /\ Definite
  /\ UNCHANGED <<mode, loaded, nextGen, highWater, pending, inFlight, reserved,
                 ingestVars, walVars, todo, catalogVars, ghostVars>>

\* The guard accepts the freshly loaded metadata and update_table is sent with
\* the requirement that the snapshot has not moved.
Dispatch ==
  /\ task.pc \in {"commit", "rebase"}
  /\ Verdict(task.intent) = "Accepted"
  /\ net' = net \cup {task.intent}
  /\ At("sent")
  /\ UNCHANGED <<mode, bufferVars, ingestVars, walVars, replayVars, cat,
                 ghostVars, faults>>

\* The guard finds the exact intent, or the update is answered with success.
ProvedCommitted ==
  /\ \/ task.pc \in {"commit", "rebase"} /\ Verdict(task.intent) = "AlreadyCommitted"
     \/ task.pc \in {"sent", "status"} /\ IsPublished(cat.history, task.intent)
  /\ Complete
  /\ UNCHANGED <<mode, loaded, nextGen, pending, reserved, ingestVars, walVars,
                 replayVars, catalogVars, ghostVars, faults>>

\* The guard rejects the intent.
Rejected ==
  /\ task.pc \in {"commit", "rebase"}
  /\ Verdict(task.intent) \notin {"Accepted", "AlreadyCommitted"}
  /\ IF task.ctx = "recover"
     THEN Contain /\ UNCHANGED epoch
     ELSE /\ UNCHANGED rside
          /\ IF Verdict(task.intent) = "StaleWriterEpoch"
             THEN /\ epoch' = EpochAbove(epoch, cat.epoch)
                  /\ At("retire")
                  /\ UNCHANGED flush
             ELSE Block /\ UNCHANGED epoch
  /\ UNCHANGED <<mode, loaded, nextGen, highWater, pending, inFlight, reserved,
                 ingestVars, wal, walCut, sidecar, detached, todo, catalogVars,
                 ghostVars, faults>>

\* The snapshot moved under the update: Iceberg reloads and tries again, or has
\* no retries left and reports a conflict.
SnapshotMoved ==
  /\ task.pc = "sent"
  /\ task.intent \notin net
  /\ ~IsPublished(cat.history, task.intent)
  /\ \/ At("rebase") /\ UNCHANGED <<flush, rside>>
     \/ Definite
  /\ UNCHANGED <<mode, loaded, nextGen, highWater, pending, inFlight, reserved,
                 ingestVars, walVars, todo, catalogVars, ghostVars, faults>>

\* Nobody waits for the update any more: it is lost, or still on its way.
Unattended ==
  net' = IF "delay" \in Faults THEN net ELSE net \ {task.intent}

\* A reload or the update ends in an error that may follow publication.
LoseReply ==
  /\ Fault("lost")
  /\ task.pc \in {"commit", "rebase", "sent"}
  /\ IF task.pc = "sent" THEN Unattended ELSE UNCHANGED net
  /\ Ambiguous
  /\ UNCHANGED <<mode, loaded, nextGen, highWater, pending, inFlight, reserved,
                 ingestVars, walVars, todo, cat, ghostVars>>

\* The connection is refused: ExternalRetryable keeps the intent as it is.
ConnectFail ==
  /\ Fault("connect")
  /\ task.pc \in {"commit", "rebase"}
  /\ IF task.ctx = "recover" THEN Contain
     ELSE ReturnError /\ UNCHANGED <<flush, rside>>
  /\ UNCHANGED <<mode, loaded, nextGen, highWater, pending, inFlight, reserved,
                 ingestVars, walVars, todo, catalogVars, ghostVars>>

\* Mutation: a recheck of an absent commit does not resume it.
StatusAbsent_RecheckStops ==
  /\ task.pc = "status"
  /\ ~IsPublished(cat.history, task.intent)
  /\ LET n == task.checks + 1
         a == task.absent + 1
     IN  IF task.ctx = "resolve" /\ a < 2
         THEN CheckAgain(n, a)
         ELSE /\ task' = IF task.ctx = "recheck" THEN NoTask
                         ELSE [task EXCEPT !.pc = "commit", !.checks = n, !.absent = a]
              /\ UNCHANGED flush
  /\ UNCHANGED <<mode, loaded, nextGen, highWater, pending, inFlight, reserved,
                 ingestVars, walVars, replayVars, catalogVars, ghostVars, faults>>

\* check_append_status does not find the intent.  resolve_unknown resumes the
\* same intent after two such answers in a row, the other callers after one.
StatusAbsent ==
  /\ task.pc = "status"
  /\ ~IsPublished(cat.history, task.intent)
  /\ LET n == task.checks + 1
         a == task.absent + 1
     IN  IF task.ctx = "resolve" /\ a < 2
         THEN CheckAgain(n, a)
         ELSE /\ task' = [task EXCEPT !.pc = "commit", !.checks = n, !.absent = a]
              /\ UNCHANGED flush
  /\ UNCHANGED <<mode, loaded, nextGen, highWater, pending, inFlight, reserved,
                 ingestVars, walVars, replayVars, catalogVars, ghostVars, faults>>

\* check_append_status cannot load the metadata and answers Unknown.
StatusUnknown ==
  /\ Fault("load")
  /\ task.pc = "status"
  /\ \/ task.ctx = "resolve" /\ CheckAgain(task.checks + 1, 0) /\ UNCHANGED rside
     \/ task.ctx = "recheck" /\ task' = NoTask /\ UNCHANGED <<flush, rside>>
     \/ task.ctx = "recover" /\ Contain
  /\ UNCHANGED <<mode, loaded, nextGen, highWater, pending, inFlight, reserved,
                 ingestVars, walVars, todo, catalogVars, ghostVars>>

-----------------------------------------------------------------------------
(* Completion and retirement of an intent. *)

\* Mutation: the WAL cutoff moves to the last assigned generation.
WalMark_LastAssigned ==
  /\ task.pc = "walmark"
  /\ walCut' = Larger(walCut, nextGen - 1)
  /\ At("unlink")
  /\ UNCHANGED <<mode, bufferVars, ingestVars, wal, sidecar, epoch, detached,
                 replayVars, catalogVars, ghostVars, faults>>

\* WalManager::mark_committed.
WalMark ==
  /\ task.pc = "walmark"
  /\ walCut' = Larger(walCut, task.intent.hi)
  /\ At("unlink")
  /\ UNCHANGED <<mode, bufferVars, ingestVars, wal, sidecar, epoch, detached,
                 replayVars, catalogVars, ghostVars, faults>>

\* The task goes on after the sidecar's removal: recovery to the next record, a
\* flush to WAL GC.
AfterUnlink ==
  IF task.ctx = "recover"
  THEN task' = NoTask /\ rside' = NoIntent
  ELSE At("gc") /\ UNCHANGED rside

Unlink ==
  /\ task.pc = "unlink"
  /\ sidecar' = NoIntent
  /\ AfterUnlink
  /\ UNCHANGED <<mode, bufferVars, ingestVars, wal, walCut, epoch, detached,
                 todo, catalogVars, ghostVars, faults>>

\* The removal fails: a flush only warns, recovery fails startup.
UnlinkFail ==
  /\ Fault("sidecar")
  /\ task.pc = "unlink"
  /\ IF task.ctx = "recover" THEN ReturnError /\ UNCHANGED rside ELSE AfterUnlink
  /\ UNCHANGED <<mode, bufferVars, ingestVars, walVars, todo, catalogVars,
                 ghostVars>>

\* WalManager::gc deletes closed segments that hold only committed records.
Collect == \E dead \in SUBSET {g \in wal : g <= walCut} : wal' = wal \ dead

Gc ==
  /\ task.pc = "gc"
  /\ Collect
  /\ task' = NoTask
  /\ UNCHANGED <<mode, bufferVars, ingestVars, walCut, sidecar, epoch, detached,
                 replayVars, catalogVars, ghostVars, faults>>

\* The rejected intent's sidecar is removed and mark_flush_failed returns its
\* rows to pending.
Retire ==
  /\ task.pc = "retire"
  /\ sidecar' = NoIntent
  /\ MergeBack
  /\ flush' = Idle
  /\ ReturnError
  /\ UNCHANGED <<mode, loaded, nextGen, highWater, reserved, ingestVars, wal,
                 walCut, epoch, detached, replayVars, catalogVars, ghostVars,
                 faults>>

\* ... or the removal fails and the intent keeps its owner.
RetireFail ==
  /\ Fault("sidecar")
  /\ task.pc = "retire"
  /\ ReturnError
  /\ UNCHANGED <<mode, bufferVars, ingestVars, walVars, replayVars,
                 catalogVars, ghostVars>>

\* recheck_blocked, by an operator or by the background resolver.
Recheck ==
  /\ mode = "up" /\ task = NoTask
  /\ flush.state = "Blocked"
  /\ task' = [NoTask EXCEPT !.pc = "status", !.ctx = "recheck",
                            !.intent = flush.intent]
  /\ UNCHANGED <<mode, bufferVars, ingestVars, walVars, replayVars,
                 catalogVars, ghostVars, faults>>

\* The file operation a task is awaiting runs on a blocking thread and outlives
\* the task.
Outliving ==
  IF task.pc = "persist" THEN {[op |-> "persist", intent |-> task.intent]}
  ELSE IF task.pc \in {"unlink", "retire"}
       THEN {[op |-> "remove", intent |-> task.intent]}
       ELSE {}

\* The client of a flush or recheck call disconnects.
CancelFlush ==
  /\ Fault("cancel")
  /\ mode = "up" /\ task # NoTask
  /\ task' = NoTask
  /\ detached' = detached \cup Outliving
  /\ IF task.pc = "sent" THEN Unattended ELSE UNCHANGED net
  /\ UNCHANGED <<mode, bufferVars, ingestVars, wal, walCut, sidecar, epoch,
                 replayVars, cat, ghostVars>>

\* A detached file operation runs.
RunDetached(d) ==
  /\ d \in detached
  /\ detached' = detached \ {d}
  /\ sidecar' = IF d.op = "remove" THEN NoIntent
                ELSE IF sidecar = NoIntent THEN d.intent ELSE sidecar
  /\ UNCHANGED <<mode, bufferVars, ingestVars, wal, walCut, epoch, task,
                 replayVars, catalogVars, ghostVars, faults>>

-----------------------------------------------------------------------------
(* The catalog. *)

\* A dispatched update is applied: the snapshot and the checkpoint move
\* together, and every other update in flight loses its snapshot requirement.
CatalogApply(i) ==
  /\ i \in net
  /\ cat' = [cat EXCEPT !.epoch = i.epoch, !.gen = i.hi,
                        !.history = @ \cup {i}]
  /\ net' = {}
  /\ UNCHANGED <<mode, bufferVars, ingestVars, walVars, task, replayVars,
                 ghostVars, faults>>

\* Another writer's append.
PeerCommit ==
  /\ cat.peers < MaxPeers
  /\ cat' = [cat EXCEPT !.peers = @ + 1]
  /\ net' = {}
  /\ UNCHANGED <<mode, bufferVars, ingestVars, walVars, task, replayVars,
                 ghostVars, faults>>

-----------------------------------------------------------------------------
(* Crash and recovery. *)

Crash ==
  /\ Fault("crash")
  /\ mode \in {"replaying", "up"}
  /\ Stop("down")
  /\ IF task.pc = "sent" THEN Unattended ELSE UNCHANGED net
  /\ UNCHANGED <<wal, walCut, sidecar, epoch, cat, ghostVars>>

\* Startup returned an error and the process exits ...
StartupFails ==
  /\ task.pc = "exit"
  /\ Stop("exited")
  /\ UNCHANGED <<wal, walCut, sidecar, epoch, catalogVars, ghostVars, faults>>

\* ... until it is started again.
Restart ==
  /\ Fault("crash")
  /\ mode = "exited"
  /\ mode' = "down"
  /\ UNCHANGED <<bufferVars, ingestVars, walVars, task, replayVars, catalogVars,
                 ghostVars>>

\* WalManager::open takes a new epoch; replay_wal_inner plans the replay, lists
\* the sidecars, loads the catalog's checkpoint and seeds epoch and cutoff from
\* it.  A WAL without records or sidecar needs no metadata.
Open ==
  /\ mode = "down"
  /\ mode' = "replaying"
  /\ rside' = sidecar
  /\ todo' = {g \in wal : g > cat.gen}
  /\ IF wal = {} /\ sidecar = NoIntent
     THEN epoch' = epoch + 1 /\ UNCHANGED walCut
     ELSE /\ epoch' = IF cat.gen = 0 THEN epoch + 1
                      ELSE EpochAbove(epoch + 1, cat.epoch)
          /\ walCut' = cat.gen
  /\ UNCHANGED <<bufferVars, ingestVars, wal, sidecar, detached, task,
                 catalogVars, ghostVars, faults>>

\* restore_prepared reclaims the sidecar's range from the replayed rows, then
\* resolve_prepared asks the catalog.  Its failure fails startup.
Restore(i, rows) ==
  LET range == {g \in rows : i.lo <= g /\ g <= i.hi} IN
  IF inFlight = {} /\ (i.hi <= highWater \/ {i.lo, i.hi} \subseteq range)
  THEN /\ inFlight' = IF i.hi <= highWater THEN {} ELSE range
       /\ pending' = rows \ inFlight'
       /\ flush' = Holding(i)
       /\ task' = [NoTask EXCEPT !.pc = "status", !.ctx = "recover", !.intent = i]
  ELSE /\ pending' = rows
       /\ task' = [NoTask EXCEPT !.pc = "exit"]
       /\ UNCHANGED <<inFlight, flush>>

\* The next record in generation order.
NextRecord(g) ==
  /\ mode = "replaying" /\ task = NoTask /\ loaded
  /\ g \in todo /\ \A h \in todo : g <= h

\* The record is admitted again; at the end of the sidecar's range the sidecar
\* is resolved.
ReplayRecord(g) ==
  /\ NextRecord(g)
  /\ HasRoom
  /\ todo' = todo \ {g}
  /\ nextGen' = Larger(nextGen, g + 1)
  /\ IF rside # NoIntent /\ g >= rside.hi
     THEN Restore(rside, pending \cup {g})
     ELSE /\ pending' = pending \cup {g}
          /\ UNCHANGED <<inFlight, flush, task>>
  /\ UNCHANGED <<mode, loaded, highWater, reserved, ingestVars, walVars, rside,
                 catalogVars, ghostVars, faults>>

\* The buffer is full: recovery flushes what it has replayed, unless that would
\* give part of a prepared range a new identity.
ReplayFull(g) ==
  /\ NextRecord(g)
  /\ ~HasRoom
  /\ IF \/ rside # NoIntent /\ g > rside.lo
        \/ flush.state # "Idle"
        \/ inFlight = {} /\ Drainable = {}
     THEN /\ task' = [NoTask EXCEPT !.pc = "exit"]
          /\ UNCHANGED <<pending, inFlight>>
     ELSE DrainInto(StartedFlush)
  /\ UNCHANGED <<mode, loaded, nextGen, highWater, reserved, flush, ingestVars,
                 walVars, replayVars, catalogVars, ghostVars, faults>>

\* A sidecar whose records the checkpoint covers is resolved after the replay.
ResolveRemaining ==
  /\ mode = "replaying" /\ task = NoTask /\ loaded
  /\ todo = {} /\ rside # NoIntent
  /\ Restore(rside, pending)
  /\ UNCHANGED <<mode, loaded, nextGen, highWater, reserved, ingestVars, walVars,
                 replayVars, catalogVars, ghostVars, faults>>

\* Recovery ends with WAL GC and ingest opens.
ReplayDone ==
  /\ mode = "replaying" /\ task = NoTask
  /\ todo = {} /\ rside = NoIntent
  /\ mode' = "up"
  /\ Collect
  /\ UNCHANGED <<bufferVars, ingestVars, walCut, sidecar, epoch, detached, task,
                 replayVars, catalogVars, ghostVars, faults>>

-----------------------------------------------------------------------------
Init ==
  /\ mode = "down"
  /\ loaded = FALSE /\ nextGen = 1 /\ highWater = 0
  /\ pending = {} /\ inFlight = {} /\ reserved = {} /\ flush = Idle
  /\ live = {} /\ queued = {}
  /\ wal = {} /\ walCut = 0 /\ sidecar = NoIntent /\ epoch = 0 /\ detached = {}
  /\ task = NoTask
  /\ todo = {} /\ rside = NoIntent
  /\ cat = [epoch |-> 0, gen |-> 0, history |-> {}, peers |-> 0]
  /\ net = {}
  /\ acked = {} /\ nextId = 1 /\ faults = MaxFaults

Ingest ==
  \/ GetOrLoad
  \/ Reserve
  \/ \E g \in queued : WalAppend(g) \/ WalAppendFail(g)
  \/ \E g \in live : Admit(g) \/ CancelIngest(g)

Flush ==
  \/ ResumePrepared \/ Drain \/ SetPrepared \/ WriteFail
  \/ PersistPrepared \/ PersistRefused \/ PersistFail
  \/ BootstrapFail \/ Dispatch \/ ProvedCommitted \/ Rejected \/ SnapshotMoved
  \/ LoseReply \/ ConnectFail \/ StatusAbsent \/ StatusUnknown
  \/ WalMark \/ Unlink \/ UnlinkFail \/ Gc \/ Retire \/ RetireFail
  \/ Recheck \/ CancelFlush
  \/ \E d \in detached : RunDetached(d)

Catalog ==
  \/ \E i \in net : CatalogApply(i)
  \/ PeerCommit

Recovery ==
  \/ Crash \/ StartupFails \/ Restart \/ Open
  \/ \E g \in todo : ReplayRecord(g) \/ ReplayFull(g)
  \/ ResolveRemaining \/ ReplayDone

Next == Ingest \/ Flush \/ Catalog \/ Recovery

Spec == Init /\ [][Next]_vars

-----------------------------------------------------------------------------
(* Safety. *)

Published == UNION {i.rows : i \in cat.history}

\* An acknowledged batch is never lost: its WAL record survives every crash and
\* every WAL GC until the batch's rows are in the table.
NoAckedLoss == \A g \in acked : g \in wal \/ g \in Published

\* No batch's rows are published by two commits, however often a commit is
\* retried, resumed after a crash or delivered late.
PublishedOnce ==
  \A p, q \in cat.history : p.rows \cap q.rows # {} => p = q

\* The two local cutoffs, the buffer's high water and the one WAL GC deletes
\* by, never run ahead of the checkpoint the catalog has committed.
CutoffsProved == highWater <= cat.gen /\ walCut <= cat.gen

\* The checkpoint is a frontier: recovery skips every WAL record at or below it,
\* so no acknowledged batch below it may be missing from the table.
FrontierComplete == \A g \in acked : g <= cat.gen => g \in Published

\* While the node serves, every acknowledged batch that is not yet in the table
\* is in the buffer, where queries see it and a flush can take it: after failed
\* and abandoned flushes, and after recovery.
AckedBuffered == mode = "up" => acked \ Published \subseteq pending \cup inFlight

\* When a task learns that its intent is committed, mark_committed accepts the
\* completion: the in-flight set is the intent's, or is already accounted for.
CompletionAccepted ==
  (/\ task.pc \in {"commit", "rebase", "sent", "status"}
   /\ IsPublished(cat.history, task.intent)) => CanMark(task.intent)

\* The writer's checkpoint only moves forward, although late and resumed
\* requests of earlier runs and earlier intents may still reach the catalog.
CheckpointAdvances == [][cat'.gen >= cat.gen /\ cat'.epoch >= cat.epoch]_vars

Abstract == INSTANCE ExactlyOnce WITH
  Batches <- Generations, accepted <- acked, published <- Published,
  frontier <- cat.gen

\* The write path, with its WAL, retries, crashes and recovery, implements
\* exactly-once publication in generation order.
ExactlyOncePublication == Abstract!Spec

-----------------------------------------------------------------------------
(* The inductive invariant behind these properties. *)

\* Every place that can hold an intent: after a crash, a cancelled call or a
\* delay, any of them may send it to the catalog again.
Intents ==
  {sidecar, rside, flush.intent, task.intent} \cup net
    \cup {d.intent : d \in detached}

Running == mode \in {"replaying", "up"}

\* An intent's rows span its range.
WellFormed(i) ==
  1 <= i.lo /\ i.hi \in i.rows /\ \A g \in i.rows : i.lo <= g /\ g <= i.hi

\* No acknowledged batch is passed over when the intent moves the checkpoint.
Covers(i) == \A g \in acked : g <= i.hi => g \in i.rows \/ g \in Published

\* A later run replays the end of the intent's range, unless it is committed,
\* so a new generation is always above it.
Accounted(h) ==
  /\ h <= cat.gen \/ h \in wal
  /\ Running => h <= cat.gen \/ h \in todo \/ (loaded /\ h < nextGen)

IntentsSound ==
  \A i \in Intents :
    (i = NoIntent \/ WellFormed(i)) /\ Covers(i) /\ Accounted(i.hi)

\* A dispatched update still satisfies the guard that admitted it.
CatalogSound ==
  /\ cat.gen = 0 => cat.epoch = 0
  /\ \A p \in cat.history : p.hi <= cat.gen /\ \A g \in p.rows : g <= cat.gen
  /\ \A i \in net : i.lo > cat.gen /\ i.epoch >= cat.epoch

ControlSound ==
  /\ task.pc \notin {"idle", "writing", "exit"} => task.intent # NoIntent
  /\ flush.state # "Idle" => flush.intent # NoIntent
  /\ task.pc = "walmark" => task.intent.hi <= cat.gen
  /\ ~Running => task = NoTask /\ ~loaded
  /\ mode # "replaying" => todo = {}
  /\ mode # "up" => reserved = {}
  /\ ~loaded => pending = {} /\ inFlight = {} /\ reserved = {}
  /\ live \subseteq reserved

\* Every acknowledged batch has an owner, and the buffer's sets are ordered:
\* published or in flight, then pending, then still to be replayed.
BufferSound ==
  /\ Running => acked \subseteq Published \cup pending \cup inFlight \cup todo
  /\ \A g \in pending \cup inFlight :
       g < nextGen /\ (g \in wal \/ g <= cat.gen) /\ \A t \in todo : g < t
  /\ \A g \in pending \cap acked : g \in Published \/ \A h \in inFlight : h < g
  /\ todo \subseteq wal \cup 0 .. cat.gen
  /\ loaded => cat.gen < nextGen \/ cat.gen \in todo

\* A generation whose append is in progress is above everything the write path
\* may still commit.
ReservedAbove ==
  \A r \in reserved :
    /\ r > cat.gen /\ r \notin acked
    /\ \A g \in inFlight : g < r
    /\ \A i \in Intents : i.hi < r

\* The positions at which a task holds an intent that is not completed or given up.
Holds == {"persist", "commit", "rebase", "sent", "status", "retire"}

\* Whoever holds an intent could complete it: nothing is put in flight or taken
\* back behind its back.
Completable ==
  /\ flush.state # "Idle" => CanMark(flush.intent)
  /\ task.pc \in Holds => CanMark(task.intent)
  /\ task.pc = "writing" => flush.state = "Idle"
  /\ ~loaded => flush.state = "Idle" /\ task.pc \notin Holds \cup {"writing"}

\* The properties above and what makes them inductive: wherever a crash, a
\* cancelled call or a delay leaves an intent, committing it there passes over
\* no acknowledged batch and no generation whose append is in progress.
Inductive ==
  /\ TypeOK
  /\ CatalogSound /\ IntentsSound /\ ControlSound /\ BufferSound /\ ReservedAbove
  /\ Completable
  /\ NoAckedLoss /\ PublishedOnce /\ CutoffsProved /\ FrontierComplete

-----------------------------------------------------------------------------
(* Statements of the repository's documents and comments that the write path *)
(* does not keep under every fault.                                          *)

\* "A new identity is never created for an unresolved commit": while an update
\* of an intent can still be applied, the buffer prepares no other intent for
\* any of its rows.
NoNewIdentity ==
  \A i \in net :
    flush.state # "Idle" /\ flush.intent.rows \cap i.rows # {} => flush.intent = i

\* "The prepared sidecar is durable before the first catalog request": an
\* update is sent only while the sidecar holds its intent.
SidecarBeforeRequest == [][\A i \in net' \ net : sidecar = i]_vars

\* Persisting the sidecar again on every attempt "closes the cancellation
\* window": the owner of an intent finds no sidecar or its own.
SidecarIsOwners == task.pc = "persist" => sidecar \in {NoIntent, task.intent}

\* Recovery contains "every non-committed outcome ... as FlushBlocked": it
\* never ends in a failed startup.
StartupContained == mode # "exited"

\* A flush in flight, its status checks, the file operations it left behind,
\* the catalog and recovery all go on: the runtime schedules every task, the
\* flush loop and the blocked-table resolver tick for ever, and the catalog
\* handles what it receives.  Nothing is assumed of clients, of operators or
\* of the environment's faults.
IngestProgress ==
  \/ \E g \in queued : WalAppend(g)
  \/ \E g \in live : Admit(g)

FlushProgress ==
  \/ ResumePrepared \/ Drain \/ SetPrepared
  \/ PersistPrepared \/ PersistRefused
  \/ Dispatch \/ ProvedCommitted \/ Rejected \/ SnapshotMoved \/ StatusAbsent
  \/ WalMark \/ Unlink \/ Gc \/ Retire
  \/ Recheck

RecoveryProgress ==
  \/ StartupFails \/ Open
  \/ mode = "replaying" /\ GetOrLoad
  \/ \E g \in todo : ReplayRecord(g) \/ ReplayFull(g)
  \/ ResolveRemaining \/ ReplayDone

FairSpec ==
  /\ Spec
  /\ WF_vars(IngestProgress) /\ WF_vars(FlushProgress) /\ WF_vars(RecoveryProgress)
  /\ WF_vars(\E i \in net : CatalogApply(i))
  /\ WF_vars(\E d \in detached : RunDetached(d))

\* An acknowledged batch is eventually in the table.
AckedIsPublished == \A g \in Generations : g \in acked ~> g \in Published

\* Invariant I1: "a WAL-durable batch is always admitted".  A record that
\* becomes durable while the node serves reaches the buffer, or the table.
DurableAdmitted ==
  \A g \in Generations :
    g \in wal ~> g \in pending \cup inFlight \cup Published

=============================================================================
