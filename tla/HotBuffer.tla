----------------------------- MODULE HotBuffer -----------------------------
(***************************************************************************)
(* The hot buffer of a table (buffer/table.rs) with its byte accounting,   *)
(* its reservations and the entries it keeps for readers of an older       *)
(* snapshot, filled by ingestion, emptied by the flusher, and filled again *)
(* from the WAL after a crash (replay.rs) under the same byte limit.       *)
(* WritePath has the commit protocol; here it is a step of the catalog.    *)
(***************************************************************************)
EXTENDS Integers, Sequences, FiniteSets, SequencesExt

CONSTANTS
  BatchSizes,     \* batch_byte_size of a batch: one of these
  MaxBytes,       \* buffer_max_bytes
  LastGeneration, \* Generation::MAX
  Grace,          \* committed_grace
  Overheads,      \* bytes a batch decoded from the WAL counts above the original
  Instants,       \* bound: instants
  Crashes         \* bound: crashes

ASSUME HotBufferAssumption ==
  /\ BatchSizes \subseteq Nat \ {0} /\ MaxBytes \in Nat /\ LastGeneration \in Nat \ {0}
  /\ Grace \in Nat /\ Overheads \subseteq Nat /\ Instants \in Nat /\ Crashes \in Nat

VARIABLES
  buf,       \* BufferState
  reserved,  \* reserved_generations, with the bytes of each
  intent,    \* flush_state: its name, the range of the prepared flush and its rows
  log,       \* the records in the WAL
  answered,  \* generations whose requests were answered
  snapshots, \* of the table: the writer's checkpoint, the rows, when it was marked
  readable,  \* the oldest snapshot a reader of this process may hold
  phase,     \* "up", "replaying", "resolving" or, after a failed recovery, "exited"
  owed,      \* the sidecar recovery has yet to resolve (prepared_by_uuid)
  todo,      \* records still to replay, in generation order
  overhead,  \* of the batches decoded by this process
  tick, crashes

recoveryVars == <<phase, owed, todo, overhead, crashes>>
logVars == <<log, answered>>
snapshotVars == <<snapshots, readable>>
bufferVars == <<buf, reserved, intent, logVars, snapshotVars, recoveryVars, tick>>

BufferEntry(g, size) == [gen |-> g, size |-> size]
NotPrepared == [state |-> "Idle", lo |-> 0, hi |-> 0, rows |-> {}]
Unmarked == -1

SizeOf(entries) == FoldLeft(LAMBDA n, e : n + e.size, 0, entries)
GensOf(entries) == {entries[i].gen : i \in DOMAIN entries}
LowestOf(S)  == CHOOSE g \in S : \A h \in S : g <= h
HighestOf(S) == CHOOSE g \in S : \A h \in S : h <= g
Logged == {e.gen : e \in log}
NewestSnapshot == snapshots[Len(snapshots)]

\* TableBuffer::new, above the catalog's checkpoint.
NewBuffer(checkpoint) ==
  [nextGen |-> checkpoint + 1, high |-> checkpoint, pending |-> <<>>, inFlight |-> <<>>,
   recent |-> <<>>, pendingBytes |-> 0, inFlightBytes |-> 0, reservedBytes |-> 0]

BufferInit ==
  /\ buf = NewBuffer(0) /\ reserved = {} /\ intent = NotPrepared
  /\ log = {} /\ answered = {}
  /\ snapshots = <<[hi |-> 0, rows |-> {}, marked |-> 0]>> /\ readable = 1
  /\ phase = "up" /\ owed = NotPrepared /\ todo = <<>> /\ overhead = 0
  /\ tick = 0 /\ crashes = 0

-----------------------------------------------------------------------------
(* Ingestion. *)

\* ensure_capacity
Fits(size) == buf.pendingBytes + buf.inFlightBytes + buf.reservedBytes + size <= MaxBytes

\* reserve
ReserveBatch(size) ==
  /\ phase = "up" /\ intent.state # "Blocked"
  /\ Fits(size)
  /\ buf.nextGen # LastGeneration
  /\ buf' = [buf EXCEPT !.nextGen = @ + 1, !.reservedBytes = @ + size]
  /\ reserved' = reserved \cup {BufferEntry(buf.nextGen, size)}
  /\ UNCHANGED <<intent, logVars, snapshotVars, recoveryVars, tick>>

AppendRecord(e) ==
  /\ phase = "up" /\ e.gen \notin Logged
  /\ log' = log \cup {e}
  /\ UNCHANGED <<buf, reserved, intent, answered, snapshotVars, recoveryVars, tick>>

\* The append failed, its frame is truncated away: release_reservation.
ReleaseReservation(e) ==
  /\ phase = "up" /\ e.gen \notin Logged
  /\ reserved' = reserved \ {e}
  /\ buf' = [buf EXCEPT !.reservedBytes = @ - e.size]
  /\ UNCHANGED <<intent, logVars, snapshotVars, recoveryVars, tick>>

\* admit_entry
Admit(b, e) ==
  [b EXCEPT !.pending = Append(@, e), !.pendingBytes = @ + e.size,
            !.nextGen = IF e.gen + 1 > @ THEN e.gen + 1 ELSE @]

\* insert_reserved_at, which cannot fail; the request is answered.
InsertReserved(e) ==
  /\ phase = "up" /\ e.gen \in Logged
  /\ reserved' = reserved \ {e}
  /\ buf' = Admit([buf EXCEPT !.reservedBytes = @ - e.size], e)
  /\ answered' = answered \cup {e.gen}
  /\ UNCHANGED <<intent, log, snapshotVars, recoveryVars, tick>>

-----------------------------------------------------------------------------
(* The flusher, which holds the table's flush lock. *)

\* Mutation: entries above a reservation are drained too.
DrainPending_PastReserved ==
  /\ phase = "up" /\ intent = NotPrepared /\ buf.inFlight = <<>> /\ buf.pending # <<>>
  /\ buf' = [buf EXCEPT !.pending = <<>>, !.inFlight = buf.pending,
                        !.pendingBytes = 0, !.inFlightBytes = SizeOf(buf.pending)]
  /\ UNCHANGED <<reserved, intent, logVars, snapshotVars, recoveryVars, tick>>

\* drain_pending_to_in_flight: nothing past the lowest reservation.
DrainPending ==
  LET drains(e) == \A r \in reserved : e.gen < r.gen
      drained   == SelectSeq(buf.pending, drains)
      remaining == SelectSeq(buf.pending, LAMBDA e : ~drains(e))
  IN /\ phase = "up" /\ intent = NotPrepared /\ buf.inFlight = <<>> /\ drained # <<>>
     /\ buf' = [buf EXCEPT !.pending = remaining, !.inFlight = drained,
                           !.pendingBytes = SizeOf(remaining), !.inFlightBytes = SizeOf(drained)]
     /\ UNCHANGED <<reserved, intent, logVars, snapshotVars, recoveryVars, tick>>

\* set_prepared, in memory, and the sidecar's write, as one step: a crash between them
\* loses both, as one before them does.  WritePath has the write that fails.
SetPreparedRange ==
  /\ phase = "up" /\ intent = NotPrepared /\ buf.inFlight # <<>>
  /\ LET gens == GensOf(buf.inFlight)
     IN intent' = [state |-> "Prepared", lo |-> LowestOf(gens), hi |-> HighestOf(gens),
                   rows |-> gens]
  /\ UNCHANGED <<buf, reserved, logVars, snapshotVars, recoveryVars, tick>>

\* merge_in_flight_back_to_pending
MergedBack(b) ==
  [b EXCEPT !.pending = b.inFlight \o @, !.inFlight = <<>>,
            !.pendingBytes = @ + b.inFlightBytes, !.inFlightBytes = 0]

IsPublished == intent # NotPrepared /\ intent.hi <= NewestSnapshot.hi

\* rollback_unprepared_flush, and mark_flush_failed once publication was rejected.
GiveBack ==
  /\ phase = "up" /\ buf.inFlight # <<>> /\ ~IsPublished
  /\ buf' = MergedBack(buf)
  /\ intent' = NotPrepared
  /\ UNCHANGED <<reserved, logVars, snapshotVars, recoveryVars, tick>>

\* mark_flush_blocked, when the outcome of the commit cannot be told.
MarkBlocked ==
  /\ phase = "up" /\ intent.state = "Prepared"
  /\ intent' = [intent EXCEPT !.state = "Blocked"]
  /\ UNCHANGED <<buf, reserved, logVars, snapshotVars, recoveryVars, tick>>

NewSnapshot(flush, marked) ==
  [hi |-> flush.hi, rows |-> NewestSnapshot.rows \cup flush.rows, marked |-> marked]

\* The catalog takes the commit, and with it the writer's checkpoint.
PublishFlush ==
  /\ phase = "up" /\ intent # NotPrepared /\ ~IsPublished
  /\ snapshots' = Append(snapshots, NewSnapshot(intent, Unmarked))
  /\ UNCHANGED <<buf, reserved, intent, logVars, readable, recoveryVars, tick>>

\* mark_committed
Committed(b, hi) ==
  LET recent == IF Grace = 0 \/ b.inFlight = <<>> THEN b.recent
                ELSE Append(b.recent, [at |-> tick, entries |-> b.inFlight])
  IN [b EXCEPT !.inFlight = <<>>, !.inFlightBytes = 0,
               !.recent = SelectSeq(recent, LAMBDA r : tick - r.at <= Grace),
               !.high = IF hi > @ THEN hi ELSE @]

FinishFlush ==
  /\ phase = "up" /\ IsPublished
  /\ buf' = Committed(buf, intent.hi)
  /\ intent' = NotPrepared
  /\ snapshots' = [snapshots EXCEPT ![Len(snapshots)].marked = tick]
  /\ UNCHANGED <<reserved, logVars, readable, recoveryVars, tick>>

-----------------------------------------------------------------------------
(* Crash and recovery. *)

\* The records above the checkpoint are to be replayed, and a sidecar resolved.
CrashBuffer ==
  /\ phase # "exited" /\ crashes < Crashes
  /\ crashes' = crashes + 1
  /\ phase' = "replaying"
  /\ buf' = NewBuffer(NewestSnapshot.hi) /\ reserved' = {}
  /\ owed' = IF owed = NotPrepared THEN intent ELSE owed
  /\ intent' = NotPrepared
  /\ todo' = SetToSortSeq({e \in log : e.gen > NewestSnapshot.hi},
                          LAMBDA d, e : d.gen < e.gen)
  /\ overhead' \in Overheads
  /\ readable' = Len(snapshots)
  /\ UNCHANGED <<logVars, snapshots, tick>>

\* The buffer when what was replayed so far is flushed.
ReplayedSoFar ==
  [NotPrepared EXCEPT !.hi = HighestOf(GensOf(buf.pending)), !.rows = GensOf(buf.pending)]

Flushed(b, flush) ==
  Committed([b EXCEPT !.inFlight = b.pending, !.pending = <<>>, !.pendingBytes = 0], flush.hi)

\* insert_with_generation_at, while recovery holds no reservation.
Admits(b, e) == b.pendingBytes + b.inFlightBytes + b.reservedBytes + e.size <= MaxBytes

\* A record is put back under its own generation.  Without room what was put
\* back is flushed first, unless a prepared flush owns the table: the range of the
\* sidecar must stay whole, and persist_prepared refuses a second sidecar.  That flush
\* is taken to succeed: when it fails recovery ends with its error.
ReplayRecord ==
  /\ phase = "replaying" /\ todo # <<>>
  /\ LET e == BufferEntry(todo[1].gen, todo[1].size + overhead)
         after == Flushed(buf, ReplayedSoFar)
     IN \/ /\ Admits(buf, e)
           /\ buf' = Admit(buf, e) /\ UNCHANGED snapshotVars
           /\ phase' = IF owed # NotPrepared /\ e.gen >= owed.hi THEN "resolving" ELSE phase
           /\ todo' = Tail(todo)
        \/ /\ ~Admits(buf, e) /\ owed = NotPrepared /\ intent = NotPrepared /\ buf.pending # <<>>
           /\ snapshots' = Append(snapshots, NewSnapshot(ReplayedSoFar, tick))
           /\ readable' = Len(snapshots')
           /\ IF Admits(after, e)
                THEN buf' = Admit(after, e) /\ todo' = Tail(todo) /\ UNCHANGED phase
                ELSE buf' = after /\ phase' = "exited" /\ UNCHANGED todo
        \/ /\ ~Admits(buf, e)
           /\ owed # NotPrepared \/ intent # NotPrepared \/ buf.pending = <<>>
           /\ phase' = "exited" /\ UNCHANGED <<buf, snapshotVars, todo>>
  /\ UNCHANGED <<reserved, intent, logVars, owed, overhead, tick, crashes>>

\* Mutation: the range leaves out its first generation.
InRange_AboveLo(g) == g > owed.lo /\ g <= owed.hi

InRange(g) == g >= owed.lo /\ g <= owed.hi

\* restore_prepared: the entries of the range are in flight again.
Restored ==
  LET back == SelectSeq(buf.pending, LAMBDA e : InRange(e.gen))
      rest == SelectSeq(buf.pending, LAMBDA e : ~InRange(e.gen))
  IN IF owed.hi <= buf.high THEN buf
     ELSE [buf EXCEPT !.pending = rest, !.inFlight = back,
                      !.pendingBytes = SizeOf(rest), !.inFlightBytes = SizeOf(back)]

RangeIsWhole ==
  owed.hi <= buf.high \/ {owed.lo, owed.hi} \subseteq GensOf(Restored.inFlight)

\* resolve_prepared: restored, then found or put in the catalog, or else blocked.
ResolvePrepared ==
  /\ phase = "resolving"
  /\ \/ /\ ~RangeIsWhole
        /\ phase' = "exited" /\ UNCHANGED <<buf, intent, owed, snapshots, readable>>
     \/ /\ RangeIsWhole
        /\ phase' = "replaying" /\ owed' = NotPrepared
        /\ LET landed == owed.hi <= NewestSnapshot.hi
           IN \/ UNCHANGED snapshots
              \/ ~landed /\ snapshots' = Append(snapshots, NewSnapshot(owed, tick))
        /\ \/ /\ owed.hi <= snapshots'[Len(snapshots')].hi
              /\ buf' = Committed(Restored, owed.hi) /\ intent' = NotPrepared
           \/ buf' = Restored /\ intent' = [owed EXCEPT !.state = "Blocked"]
        /\ readable' = Len(snapshots')
  /\ UNCHANGED <<reserved, logVars, todo, overhead, tick, crashes>>

\* The records are replayed; a sidecar whose records the checkpoint covers is left.
ReplayEnds ==
  /\ phase = "replaying" /\ todo = <<>>
  /\ phase' = IF owed = NotPrepared THEN "up" ELSE "resolving"
  /\ UNCHANGED <<buf, reserved, intent, logVars, snapshotVars, owed, todo, overhead, crashes, tick>>

TickBuffer ==
  /\ tick < Instants /\ tick' = tick + 1
  /\ UNCHANGED <<buf, reserved, intent, logVars, snapshotVars, recoveryVars>>

BufferNext ==
  \/ \E size \in BatchSizes : ReserveBatch(size)
  \/ \E e \in reserved : AppendRecord(e) \/ ReleaseReservation(e) \/ InsertReserved(e)
  \/ DrainPending \/ SetPreparedRange \/ GiveBack \/ MarkBlocked \/ PublishFlush
  \/ FinishFlush \/ CrashBuffer \/ ReplayRecord \/ ResolvePrepared \/ ReplayEnds
  \/ TickBuffer

-----------------------------------------------------------------------------
(* Properties. *)

\* The byte counters say what is in the buffer, through every way in and out of it,
\* and with the reservations they stay within max_bytes: a reserved batch always
\* has its room ("once the WAL append succeeds, the reservation guarantees buffer
\* admission").
BytesAccounted ==
  /\ buf.pendingBytes = SizeOf(buf.pending)
  /\ buf.inFlightBytes = SizeOf(buf.inFlight)
  /\ buf.reservedBytes = SizeOf(SetToSeq(reserved))
  /\ buf.pendingBytes + buf.inFlightBytes + buf.reservedBytes <= MaxBytes

\* snapshot_for_query
Overlay ==
  buf.pending \o buf.inFlight
    \o FlattenSeq([i \in DOMAIN buf.recent |->
                     IF tick - buf.recent[i].at <= Grace THEN buf.recent[i].entries ELSE <<>>])

\* "The overlay's per-entry generation cutoff makes this exact": on any snapshot that
\* was the newest at some time within the grace, the snapshot's rows and the entries
\* above its cutoff hold every row that was answered for, and no row twice.
OverlayExact ==
  phase = "up" =>
    \A k \in readable..Len(snapshots) :
      LET above == SelectSeq(Overlay, LAMBDA e : e.gen > snapshots[k].hi)
      IN (k = Len(snapshots) \/ snapshots[k + 1].marked = Unmarked
            \/ tick - snapshots[k + 1].marked <= Grace) =>
           /\ answered \subseteq snapshots[k].rows \cup GensOf(above)
           /\ snapshots[k].rows \cap GensOf(above) = {}
           /\ Len(above) = Cardinality(GensOf(above))

\* The buffer holds what it counts, and with any snapshot a reader may have each
\* answered row exactly once.
BufferExact == BytesAccounted /\ OverlayExact

\* Recovery finds the whole range of a prepared flush and has room for every record
\* ("With an unchanged buffer limit, the original range necessarily fits because it
\* was produced from this same bounded buffer"): it gives up only when decoded
\* batches count more than the original ones did, and then only while a prepared
\* flush owns the table or on a batch that no longer fits alone.
RecoverySucceeds ==
  /\ phase = "resolving" => RangeIsWhole
  /\ phase = "exited" =>
       /\ overhead > 0
       /\ owed # NotPrepared \/ intent # NotPrepared \/ todo[1].size + overhead > MaxBytes
=============================================================================
