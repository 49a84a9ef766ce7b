----------------------------- MODULE WalSegments -----------------------------
(***************************************************************************)
(* The WAL as segment files: the writer task with group commit and         *)
(* rotation, garbage collection passes that run beside it, drop            *)
(* tombstones, committed cutoffs, and the replay plan of a restart.        *)
(*                                                                         *)
(* A frame is an append [table, inc, gen] or, with gen 0, the tombstone of *)
(* a table.  Requests of many clients reach the writer in any order, so    *)
(* its queue is a set.  Publication in the catalog appears only as the     *)
(* frontier that the cutoffs are taken from.                               *)
(***************************************************************************)
EXTENDS Integers, FiniteSets, Sequences, SequencesExt, FiniteSetsExt

CONSTANTS
  Tables,
  Passes,        \* garbage collection passes that may run at the same time
  SegmentLimit,  \* max_segment_bytes, in frames
  MaxGroup,      \* MAX_GROUP_FRAMES
  RecoveryMode,  \* "fail" or "salvage"
  MaxGen,        \* bound: generations of a table's first incarnation, one fewer
                 \* of each later one
  MaxInc,        \* bound: incarnations of a table
  MaxWaiting,    \* bound: requests in the writer's queue
  MaxSegment,    \* bound: segment sequence numbers
  MaxPasses,     \* bound: garbage collection passes
  MaxOverlap,    \* bound: incarnations of a table and passes running beside them
  MaxFaults,     \* bound: faults of all kinds together
  Faults         \* "write", "torn", "unlink", "read", "persist", "corrupt", "crash"

ASSUME SegmentsAssumption ==
  /\ IsFiniteSet(Tables) /\ IsFiniteSet(Passes)
  /\ SegmentLimit \in Nat \ {0} /\ MaxGroup \in Nat \ {0}
  /\ RecoveryMode \in {"fail", "salvage"}
  /\ MaxGen \in Nat /\ MaxInc \in Nat \ {0} /\ MaxWaiting \in Nat /\ MaxSegment \in Nat
  /\ MaxPasses \in Nat /\ MaxOverlap \in Nat /\ MaxFaults \in Nat
  /\ Faults \subseteq {"write", "torn", "unlink", "read", "persist", "corrupt", "crash"}

VARIABLES
  mode,       \* "up", "replaying", "sealing" and "collecting" (the tombstones and the
              \* last pass of recovery), "down", or why startup failed
  files,      \* sequence numbers of the *.wal files
  frames,     \* sequence number -> frames that can be decoded
  bad,        \* files with a corrupt frame after the decodable ones
  open,       \* the writer's open segment, or 0
  written,    \* frames the writer put into it
  opening,    \* the file created for open_segment, not yet current, or 0
  currentSeq, \* what the writer publishes for gc: the open segment, or 0
  nextSeq,
  waiting,    \* frames sent to the writer
  clearing,   \* tables whose tombstone is acknowledged and whose cutoffs are not cleared
  committed,  \* <<table, inc>> -> cutoff in memory
  saved,      \* the cutoffs in committed.json
  gc,         \* pass -> its state
  passes,
  plan,       \* replay entries left: [frame, seg]
  reading,    \* segment the replay has open, or 0
  sealed,     \* tables to be tombstoned at the end of recovery
  catalog,    \* table -> [inc, dropped]
  frontier,   \* <<table, inc>> -> last published generation
  nextGen,    \* table -> next generation of its incarnation
  acked,      \* history: acknowledged appends, [frame, seg]
  voided,     \* history: appends before a tombstone of their table, and the segment
              \* of that tombstone, [entry, by]
  exposed,    \* history: segments that became current after a pass had read
              \* currentSeq and before it listed the directory
  faults

fileVars == <<files, frames, bad>>
writerVars == <<open, written, opening, currentSeq, nextSeq>>
cutoffVars == <<clearing, committed, saved>>
gcVars == <<gc, passes>>
replayVars == <<plan, reading, sealed>>
tableVars == <<catalog, frontier, nextGen>>
historyVars == <<acked, voided, exposed>>

vars == <<mode, fileVars, writerVars, waiting, cutoffVars, gcVars, replayVars,
          tableVars, historyVars, faults>>

Keys == Tables \X (1 .. MaxInc)
Segments == 1 .. MaxSegment
KeyOf(f) == <<f.table, f.inc>>
Tombstone(t) == [table |-> t, inc |-> 0, gen |-> 0]
IsDrop(f) == f.gen = 0

Idle == [pc |-> "idle", cut |-> [k \in Keys |-> 0], current |-> 0, left |-> {},
         seen |-> {}, scan |-> [n \in Segments |-> <<>>], kept |-> {}]

Fault(k) == k \in Faults /\ faults > 0 /\ faults' = faults - 1

\* Frames at positions of a set of segments, in append order.
Positions(segs, content) == UNION {{n} \X DOMAIN content[n] : n \in segs}
Later(p, q) == p[1] > q[1] \/ (p[1] = q[1] /\ p[2] > q[2])

\* A later tombstone of the frame's table is among the segments.
VoidIn(segs, content, p) ==
  \E q \in Positions(segs, content) :
    /\ Later(q, p) /\ IsDrop(content[q[1]][q[2]])
    /\ content[q[1]][q[2]].table = content[p[1]][p[2]].table

\* The entries of prepare_replay_all: every decodable append that no later
\* tombstone voids.
Entries ==
  {[frame |-> frames[p[1]][p[2]], seg |-> p[1]] :
     p \in {q \in Positions(files, frames) :
              ~IsDrop(frames[q[1]][q[2]]) /\ ~VoidIn(files, frames, q)}}

Acked == {e.frame : e \in acked}
Voided == {v.entry : v \in voided}

Running == {g \in Passes : gc[g].pc # "idle"}

Failed == {"corrupt", "foreign", "moved", "unsealed"}

-----------------------------------------------------------------------------
(* Clients of the WAL. *)

\* A batch of the current incarnation gets the next generation and is sent.
Send(t) ==
  /\ mode = "up" /\ ~catalog[t].dropped
  /\ nextGen[t] + catalog[t].inc <= MaxGen + 1 /\ Cardinality(waiting) < MaxWaiting
  /\ waiting' = waiting \cup {[table |-> t, inc |-> catalog[t].inc, gen |-> nextGen[t]]}
  /\ nextGen' = [nextGen EXCEPT ![t] = @ + 1]
  /\ UNCHANGED <<mode, fileVars, writerVars, cutoffVars, gcVars, replayVars,
                 catalog, frontier, historyVars, faults>>

\* The table is dropped in the catalog and its tombstone is sent.
Drop(t) ==
  /\ mode = "up" /\ ~catalog[t].dropped
  /\ catalog[t].inc < MaxInc /\ Cardinality(waiting) < MaxWaiting
  /\ Cardinality(Running) + catalog[t].inc < MaxOverlap
  /\ nextGen[t] + catalog[t].inc <= MaxGen + 1
  /\ catalog' = [catalog EXCEPT ![t].dropped = TRUE]
  /\ waiting' = waiting \cup {Tombstone(t)}
  /\ UNCHANGED <<mode, fileVars, writerVars, cutoffVars, gcVars, replayVars,
                 frontier, nextGen, historyVars, faults>>

\* Created again; the drop may still be waiting for its tombstone.
Create(t) ==
  /\ mode = "up" /\ catalog[t].dropped
  /\ catalog' = [catalog EXCEPT ![t] = [inc |-> @.inc + 1, dropped |-> FALSE]]
  /\ nextGen' = [nextGen EXCEPT ![t] = 1]
  /\ UNCHANGED <<mode, fileVars, writerVars, waiting, cutoffVars, gcVars,
                 replayVars, frontier, historyVars, faults>>

\* A flush publishes generations up to an acknowledged one; none that is still
\* being appended is at or below it.
Publishable(t, g) ==
  /\ frontier[<<t, catalog[t].inc>>] < g
  /\ [table |-> t, inc |-> catalog[t].inc, gen |-> g] \in Acked
  /\ \A f \in waiting : KeyOf(f) = <<t, catalog[t].inc>> => f.gen > g

Publish(t, g) ==
  /\ mode = "up" /\ ~catalog[t].dropped /\ Publishable(t, g)
  /\ frontier' = [frontier EXCEPT ![<<t, catalog[t].inc>>] = g]
  /\ UNCHANGED <<mode, fileVars, writerVars, waiting, cutoffVars, gcVars,
                 replayVars, catalog, nextGen, historyVars, faults>>

\* The checkpoint file is written, or its write fails.
Persist(cut) ==
  \/ saved' = cut /\ UNCHANGED faults
  \/ Fault("persist") /\ UNCHANGED saved

\* Mutation: every generation handed out is marked.
MarkCommitted_Ahead(t) ==
  LET k == <<t, catalog[t].inc>> IN
  /\ mode = "up" /\ committed[k] < frontier[k]
  /\ committed' = [committed EXCEPT ![k] = nextGen[t] - 1]
  /\ Persist(committed')
  /\ UNCHANGED <<mode, fileVars, writerVars, waiting, clearing, gcVars, replayVars,
                 tableVars, historyVars>>

\* complete_flush marks what it published.
MarkCommitted(t) ==
  LET k == <<t, catalog[t].inc>> IN
  /\ mode = "up" /\ committed[k] < frontier[k]
  /\ committed' = [committed EXCEPT ![k] = frontier[k]]
  /\ Persist(committed')
  /\ UNCHANGED <<mode, fileVars, writerVars, waiting, clearing, gcVars, replayVars,
                 tableVars, historyVars>>

\* append_drop_tombstone after its append: the cutoffs of the name are dropped.
ClearCutoffs(t) ==
  /\ mode \in {"up", "sealing"} /\ t \in clearing
  /\ clearing' = clearing \ {t}
  /\ committed' = [k \in Keys |-> IF k[1] = t THEN 0 ELSE committed[k]]
  /\ Persist(committed')
  /\ UNCHANGED <<mode, fileVars, writerVars, waiting, gcVars, replayVars, tableVars,
                 historyVars>>

-----------------------------------------------------------------------------
(* The writer task. *)

\* Passes that have read currentSeq and not yet listed the directory.
Unlisted == {g \in Passes : gc[g].pc = "list"}

\* open_segment up to its await: the file exists before it is current.
CreateSegment ==
  /\ mode \in {"up", "sealing"} /\ waiting # {}
  /\ open = 0 /\ opening = 0 /\ nextSeq <= MaxSegment
  /\ opening' = nextSeq /\ nextSeq' = nextSeq + 1
  /\ files' = files \cup {nextSeq}
  /\ frames' = [frames EXCEPT ![nextSeq] = <<>>]
  /\ bad' = bad \ {nextSeq}
  /\ exposed' = IF Unlisted # {} THEN exposed \cup {nextSeq} ELSE exposed
  /\ UNCHANGED <<mode, open, written, currentSeq, waiting, cutoffVars, gcVars,
                 replayVars, tableVars, acked, voided, faults>>

OpenSegment ==
  /\ opening # 0
  /\ open' = opening /\ currentSeq' = opening /\ opening' = 0 /\ written' = 0
  /\ UNCHANGED <<mode, fileVars, nextSeq, waiting, cutoffVars, gcVars, replayVars,
                 tableVars, historyVars, faults>>

\* Requests that the writer may find queued together, in the order they came.
Groups ==
  {q \in UNION {[1 .. n -> waiting] : n \in 1 .. MaxGroup} :
     Cardinality(Range(q)) = Len(q)}

\* A tombstone of recovery that cannot be written ends startup.
ModeAfterFailure == IF mode = "sealing" THEN "unsealed" ELSE mode

\* The file cannot be opened: the group's waiters get the error.
OpenFail ==
  /\ opening # 0 /\ Fault("write")
  /\ opening' = 0 /\ mode' = ModeAfterFailure
  /\ \E q \in Groups : waiting' = waiting \ Range(q)
  /\ UNCHANGED <<fileVars, open, written, currentSeq, nextSeq, cutoffVars, gcVars,
                 replayVars, tableVars, historyVars>>

\* A group that does not fit closes the segment; rotate() has no callers outside
\* tests.
Rotate ==
  /\ open # 0 /\ written # 0
  /\ \E q \in Groups : written + Len(q) > SegmentLimit
  /\ open' = 0 /\ written' = 0 /\ currentSeq' = 0
  /\ UNCHANGED <<mode, fileVars, opening, nextSeq, waiting, cutoffVars, gcVars,
                 replayVars, tableVars, historyVars, faults>>

\* Frames put at the end of the open segment.  Writes to a file that has been
\* unlinked succeed and reach no file.
Extended(q) ==
  [n \in Segments |-> IF n = open /\ n \in files THEN frames[n] \o q ELSE frames[n]]

DropsIn(q) == {q[i].table : i \in {j \in DOMAIN q : IsDrop(q[j])}}

\* The appends of q, where they are written.
Appends(q) == {[frame |-> f, seg |-> open] : f \in {h \in Range(q) : ~IsDrop(h)}}

\* Appends that precede a tombstone of their table when q is written last.
VoidedBy(q) ==
  LET earlier == {e \in acked : e.frame.table \in DropsIn(q)}
      grouped == {e \in Appends(q) : \E i, j \in DOMAIN q :
                    i < j /\ q[i] = e.frame /\ q[j] = Tombstone(e.frame.table)}
  IN {[entry |-> e, by |-> open] : e \in earlier \cup grouped}

\* A group is written, synced and acknowledged.  Frames of a table that come
\* before a tombstone in the same group are acknowledged and void.
WriteGroup ==
  \E q \in Groups :
    /\ open # 0 /\ (written + Len(q) <= SegmentLimit \/ written = 0)
    /\ frames' = Extended(q)
    /\ written' = written + Len(q)
    /\ waiting' = waiting \ Range(q)
    /\ clearing' = clearing \cup DropsIn(q)
    /\ acked' = acked \cup Appends(q)
    /\ voided' = voided \cup VoidedBy(q)
    /\ UNCHANGED <<mode, files, bad, open, opening, currentSeq, nextSeq, committed,
                   saved, gcVars, replayVars, tableVars, exposed, faults>>

\* A group fails: it is truncated away unless the truncation fails too, its
\* waiters get the error, and the segment is closed.
WriteFail ==
  \E q \in Groups, n \in 0 .. MaxGroup :
    /\ Fault("write")
    /\ open # 0 /\ n <= Len(q) /\ (n > 0 => "torn" \in Faults)
    /\ frames' = Extended(SubSeq(q, 1, n))
    /\ waiting' = waiting \ Range(q)
    /\ open' = 0 /\ written' = 0 /\ currentSeq' = 0
    /\ voided' = voided \cup VoidedBy(SubSeq(q, 1, n))
    /\ mode' = ModeAfterFailure
    /\ UNCHANGED <<files, bad, opening, nextSeq, cutoffVars, gcVars, replayVars,
                   tableVars, acked, exposed>>

-----------------------------------------------------------------------------
(* A garbage collection pass. *)

\* The cutoffs are copied and currentSeq is read.
Started(cut) == [Idle EXCEPT !.pc = "list", !.cut = cut, !.current = currentSeq]

GcStart(g) ==
  /\ mode = "up" /\ gc[g].pc = "idle" /\ passes < MaxPasses
  /\ \A t \in Tables :
       Cardinality(Running) + catalog[t].inc + (IF catalog[t].dropped THEN 1 ELSE 0)
         < MaxOverlap
  /\ gc' = [gc EXCEPT ![g] = Started(committed)]
  /\ passes' = passes + 1
  /\ exposed' = exposed \cup ({opening} \ {0})
  /\ UNCHANGED <<mode, fileVars, writerVars, waiting, cutoffVars, replayVars,
                 tableVars, acked, voided, faults>>

\* candidate_segments: every file but the one that was current.
GcList(g) ==
  /\ gc[g].pc = "list"
  /\ gc' = [gc EXCEPT ![g].pc = "scan", ![g].left = files \ {gc[g].current}]
  /\ UNCHANGED <<mode, fileVars, writerVars, waiting, cutoffVars, passes, replayVars,
                 tableVars, historyVars, faults>>

Scanned(g, n) ==
  [gc EXCEPT ![g].left = @ \ {n}, ![g].seen = @ \cup {n}, ![g].scan[n] = frames[n]]

\* The scan ends with the first segment that cannot be read.
GcScan(g) ==
  /\ gc[g].pc = "scan"
  /\ IF gc[g].left = {}
     THEN /\ gc' = [gc EXCEPT ![g].pc = "delete", ![g].left = gc[g].seen]
          /\ UNCHANGED faults
     ELSE LET n == Min(gc[g].left) IN
          \/ n \in files /\ gc' = Scanned(g, n) /\ UNCHANGED faults
          \/ /\ n \notin files
             /\ gc' = [gc EXCEPT ![g].pc = "delete", ![g].left = gc[g].seen]
             /\ UNCHANGED faults
          \/ /\ Fault("read")
             /\ gc' = [gc EXCEPT ![g].pc = "delete", ![g].left = gc[g].seen]
  /\ UNCHANGED <<mode, fileVars, writerVars, waiting, cutoffVars, passes, replayVars,
                 tableVars, historyVars>>

\* Mutation: a tombstone is dead at once.
Dead_TombstoneAtOnce(p, n, i) ==
  LET f == p.scan[n][i] IN
  IF IsDrop(f) THEN TRUE
  ELSE VoidIn(p.seen, p.scan, <<n, i>>) \/ f.gen <= p.cut[KeyOf(f)]

\* Mutation: a tombstone voids the frames after it too.
Dead_AnyTombstone(p, n, i) ==
  LET f == p.scan[n][i] IN
  IF IsDrop(f) THEN f.table \notin p.kept
  ELSE \/ \E m \in p.seen : Tombstone(f.table) \in Range(p.scan[m])
       \/ f.gen <= p.cut[KeyOf(f)]

\* A frame the pass considers dead: void, committed, or a tombstone with nothing
\* left to void.
Dead(p, n, i) ==
  LET f == p.scan[n][i] IN
  IF IsDrop(f) THEN f.table \notin p.kept
  ELSE VoidIn(p.seen, p.scan, <<n, i>>) \/ f.gen <= p.cut[KeyOf(f)]

Deletable(p, n) ==
  /\ n \notin bad /\ p.scan[n] # <<>>
  /\ \A i \in DOMAIN p.scan[n] : Dead(p, n, i)

Retained(p, n) ==
  p.kept \cup {p.scan[n][i].table : i \in {j \in DOMAIN p.scan[n] : ~IsDrop(p.scan[n][j])}}

\* The segments are deleted or retained in append order.  A file that is already
\* gone, or that cannot be unlinked, is retained.
GcDelete(g) ==
  /\ gc[g].pc = "delete" /\ gc[g].left # {}
  /\ LET n == Min(gc[g].left)
         kept == [gc EXCEPT ![g].left = @ \ {n}, ![g].kept = Retained(gc[g], n)]
     IN \/ /\ Deletable(gc[g], n) /\ n \in files
           /\ files' = files \ {n}
           /\ gc' = [gc EXCEPT ![g].left = @ \ {n}]
           /\ UNCHANGED faults
        \/ /\ ~(Deletable(gc[g], n) /\ n \in files)
           /\ gc' = kept /\ UNCHANGED <<files, faults>>
        \/ /\ Fault("unlink") /\ Deletable(gc[g], n)
           /\ gc' = kept /\ UNCHANGED files
  /\ UNCHANGED <<mode, frames, bad, writerVars, waiting, cutoffVars, passes,
                 replayVars, tableVars, historyVars>>

GcDone(g) ==
  /\ gc[g].pc = "delete" /\ gc[g].left = {}
  /\ gc' = [gc EXCEPT ![g] = Idle]
  /\ UNCHANGED <<mode, fileVars, writerVars, waiting, cutoffVars, passes, replayVars,
                 tableVars, historyVars, faults>>

-----------------------------------------------------------------------------
(* Crash and recovery. *)

\* What a process that ends leaves: its memory is gone, and the next one reads
\* the cutoffs and the highest sequence number from the directory.
Restarted ==
  /\ mode' = "down"
  /\ open' = 0 /\ written' = 0 /\ opening' = 0 /\ currentSeq' = 0
  /\ nextSeq' = Max(files \cup {0}) + 1
  /\ waiting' = {} /\ clearing' = {} /\ committed' = saved
  /\ gc' = [g \in Passes |-> Idle]
  /\ plan' = {} /\ reading' = 0 /\ sealed' = {}
  /\ acked' = acked \ {e \in Voided : e.seg \notin files}
  /\ UNCHANGED <<files, bad, saved, passes, tableVars, exposed>>

\* The history forgets voided records that are gone: a later process may use
\* their generations and segment numbers again.
Remembered(vs) == {v \in vs : v.entry.seg \in files}

\* Some frames of the group being written may have reached the file.
Crash ==
  /\ mode \in {"up", "replaying", "sealing", "collecting"} /\ Fault("crash") /\ Restarted
  /\ \E q \in Groups \cup {<<>>} :
       /\ q # <<>> => open # 0 /\ "torn" \in Faults
       /\ frames' = Extended(q) /\ voided' = Remembered(voided \cup VoidedBy(q))

\* A failed startup is tried again.
Restart ==
  mode \in Failed /\ Restarted /\ voided' = Remembered(voided) /\ UNCHANGED <<frames, faults>>

\* A frame of a segment is damaged: it and what follows cannot be decoded.
Corrupt ==
  /\ mode = "down" /\ Fault("corrupt")
  /\ \E n \in files : \E i \in DOMAIN frames[n] :
       /\ frames' = [frames EXCEPT ![n] = SubSeq(@, 1, i - 1)]
       /\ bad' = bad \cup {n}
       /\ acked' = {e \in acked : e.seg = n => e.frame \in Range(SubSeq(frames[n], 1, i - 1))}
  /\ UNCHANGED <<mode, files, writerVars, waiting, cutoffVars, gcVars, replayVars,
                 tableVars, voided, exposed>>

PlannedTables == {e.frame.table : e \in Entries}
PlannedGens(t) == {e.frame.gen : e \in {d \in Entries : KeyOf(d.frame) = <<t, catalog[t].inc>>}}

\* A planned record belongs to an incarnation that is not the catalog's.
ForeignPlanned ==
  \E e \in Entries : LET c == catalog[e.frame.table] IN ~c.dropped /\ c.inc # e.frame.inc

\* The plan is built and checked against the catalog, the cutoffs of its keys
\* are taken from the checkpoints, and tables that no longer exist are noted.
\* Salvage moves a corrupt segment out of the directory.
Recover ==
  /\ mode = "down"
  /\ IF bad \cap files # {} /\ RecoveryMode = "fail"
     THEN mode' = "corrupt" /\ UNCHANGED <<files, plan, sealed, committed, nextGen>>
     ELSE /\ files' = files \ bad
          /\ IF ForeignPlanned
             THEN mode' = "foreign" /\ UNCHANGED <<plan, sealed, committed, nextGen>>
             ELSE /\ mode' = "replaying"
                  /\ plan' = Entries
                  /\ sealed' = {t \in PlannedTables : catalog[t].dropped}
                  /\ committed' = [k \in Keys |->
                       IF k[1] \in PlannedTables /\ catalog[k[1]] = [inc |-> k[2], dropped |-> FALSE]
                       THEN frontier[k] ELSE committed[k]]
                  /\ nextGen' = [t \in Tables |->
                       1 + Max(PlannedGens(t) \cup {frontier[<<t, catalog[t].inc>>]})]
  /\ UNCHANGED <<frames, bad, writerVars, waiting, clearing, saved, gcVars, reading,
                 catalog, frontier, historyVars, faults>>

NextEntry(e) == e \in plan /\ \A d \in plan : e.frame.gen <= d.frame.gen

\* next_record: a segment that is opened must be the one that was planned.
ReplayNext ==
  /\ mode = "replaying" /\ Running = {}
  /\ \E e \in plan :
       /\ NextEntry(e)
       /\ IF e.seg # reading /\ e.seg \notin files \cup bad
          THEN mode' = "moved" /\ UNCHANGED <<plan, reading>>
          ELSE plan' = plan \ {e} /\ reading' = e.seg /\ UNCHANGED mode
  /\ UNCHANGED <<fileVars, writerVars, waiting, cutoffVars, gcVars, sealed, tableVars,
                 historyVars, faults>>

\* A record is read and what was replayed of its table is published, marked, and
\* followed by a pass: before the record is buffered when the buffer is full, or
\* with it when it ends the range of a prepared intent.
RecoveryFlush(g) ==
  /\ mode = "replaying" /\ Running = {} /\ passes < MaxPasses
  /\ \E e \in plan :
       LET k == KeyOf(e.frame)
           ahead == {d.frame : d \in plan}
           replayed == {d.frame.gen : d \in {c \in Entries :
                          KeyOf(c.frame) = k /\ c.frame \notin ahead}}
       IN \E hi \in replayed \cup {e.frame.gen} :
            /\ NextEntry(e) /\ ~catalog[k[1]].dropped
            /\ e.seg = reading \/ e.seg \in files \cup bad
            /\ frontier[k] < hi /\ \A n \in replayed : n <= hi
            /\ plan' = plan \ {e} /\ reading' = e.seg
            /\ frontier' = [frontier EXCEPT ![k] = hi]
            /\ committed' = [committed EXCEPT ![k] = hi]
  /\ Persist(committed')
  /\ gc' = [gc EXCEPT ![g] = Started(committed')]
  /\ passes' = passes + 1
  /\ UNCHANGED <<mode, fileVars, writerVars, waiting, clearing, sealed, catalog,
                 nextGen, historyVars>>

\* Tables the catalog no longer has are tombstoned, a last pass runs, and ingest
\* opens.
ReplayDone ==
  /\ mode = "replaying" /\ plan = {} /\ Running = {}
  /\ mode' = "sealing"
  /\ waiting' = {Tombstone(t) : t \in sealed}
  /\ UNCHANGED <<fileVars, writerVars, cutoffVars, gcVars, replayVars, tableVars,
                 historyVars, faults>>

SealDone(g) ==
  /\ mode = "sealing" /\ waiting = {} /\ clearing = {}
  /\ mode' = "collecting"
  /\ IF passes < MaxPasses
     THEN gc' = [gc EXCEPT ![g] = Started(committed)] /\ passes' = passes + 1
     ELSE UNCHANGED gcVars
  /\ UNCHANGED <<fileVars, writerVars, waiting, cutoffVars, replayVars, tableVars,
                 historyVars, faults>>

RecoveryDone ==
  /\ mode = "collecting" /\ Running = {}
  /\ mode' = "up"
  /\ UNCHANGED <<fileVars, writerVars, waiting, cutoffVars, gcVars, replayVars,
                 tableVars, historyVars, faults>>

-----------------------------------------------------------------------------
Init ==
  /\ mode = "up"
  /\ files = {} /\ frames = [n \in Segments |-> <<>>] /\ bad = {}
  /\ open = 0 /\ written = 0 /\ opening = 0 /\ currentSeq = 0 /\ nextSeq = 1
  /\ waiting = {} /\ clearing = {}
  /\ committed = [k \in Keys |-> 0] /\ saved = [k \in Keys |-> 0]
  /\ gc = [g \in Passes |-> Idle] /\ passes = 0
  /\ plan = {} /\ reading = 0 /\ sealed = {}
  /\ catalog = [t \in Tables |-> [inc |-> 1, dropped |-> FALSE]]
  /\ frontier = [k \in Keys |-> 0]
  /\ nextGen = [t \in Tables |-> 1]
  /\ acked = {} /\ voided = {} /\ exposed = {}
  /\ faults = MaxFaults

Client(t) ==
  \/ Send(t) \/ Drop(t) \/ Create(t)
  \/ \E g \in 1 .. MaxGen : Publish(t, g)
  \/ MarkCommitted(t) \/ ClearCutoffs(t)

Writer == CreateSegment \/ OpenSegment \/ OpenFail \/ Rotate \/ WriteGroup \/ WriteFail

Collector(g) == GcStart(g) \/ GcList(g) \/ GcScan(g) \/ GcDelete(g) \/ GcDone(g)

Recovery ==
  \/ Crash \/ Restart \/ Corrupt \/ Recover
  \/ ReplayNext \/ ReplayDone \/ RecoveryDone
  \/ \E g \in Passes : RecoveryFlush(g) \/ SealDone(g)

Next ==
  \/ \E t \in Tables : Client(t)
  \/ Writer
  \/ \E g \in Passes : Collector(g)
  \/ Recovery

Spec == Init /\ [][Next]_vars

-----------------------------------------------------------------------------
Frames == [table: Tables, inc: 0 .. MaxInc, gen: 0 .. MaxGen]
Located == [frame: Frames, seg: Segments]

TypeOK ==
  /\ mode \in {"up", "replaying", "sealing", "collecting", "down"} \cup Failed
  /\ files \subseteq Segments /\ bad \subseteq Segments /\ exposed \subseteq Segments
  /\ frames \in [Segments -> Seq(Frames)]
  /\ open \in 0 .. MaxSegment /\ opening \in 0 .. MaxSegment
  /\ currentSeq \in {0, open} /\ nextSeq \in 1 .. (MaxSegment + 1)
  /\ waiting \subseteq Frames
  /\ voided \subseteq [entry: Located, by: Segments] /\ acked \subseteq Located /\ plan \subseteq Located
  /\ clearing \subseteq Tables /\ sealed \subseteq Tables
  /\ committed \in [Keys -> 0 .. MaxGen] /\ saved \in [Keys -> 0 .. MaxGen]
  /\ frontier \in [Keys -> 0 .. MaxGen] /\ nextGen \in [Tables -> 1 .. (MaxGen + 1)]

\* Acknowledged appends that are not yet in the table and that no tombstone
\* follows.
Live == {e \in acked \ Voided : e.frame.gen > frontier[KeyOf(e.frame)]}

\* Whatever passes, rotations, failures and restarts happen, a live acknowledged
\* append stays replayable; frames of an exposed segment are not covered (see
\* OpenSegmentKept).
LiveKept == {e \in Live : e.seg \notin exposed} \subseteq Entries

\* A record that a tombstone voided stays void: no pass deletes the tombstone
\* while the record is in the directory, also when the pass ended in the middle or
\* failed to delete a segment; tombstones in an exposed segment are not covered
\* (see TombstoneKept).
NoResurrection ==
  mode = "up" => \A v \in voided : v.entry \in Entries => v.by \in exposed

\* The cutoffs that passes delete by never run ahead of the catalog, also when a
\* table is dropped and created again or the checkpoint file is old.
CutoffsBehind ==
  /\ TypeOK
  /\ \A k \in Keys : committed[k] <= frontier[k] /\ saved[k] <= frontier[k]
  /\ \A g \in Passes, k \in Keys : gc[g].cut[k] <= frontier[k]

-----------------------------------------------------------------------------
(* Statements of the comments that the code does not keep. *)

\* "published by the writer task so gc() never deletes the segment currently
\* being written"
OpenSegmentKept == open # 0 => open \in files

\* "A tombstone frame is dead only once no earlier retained segment still holds
\* records for its table": no voided record becomes replayable again.
TombstoneKept == mode = "up" => Entries \cap Voided = {}

\* "every ACKed batch is durable": a tombstone voids no acknowledged append of
\* the incarnation that exists now.
DropScoped ==
  \A e \in Voided : catalog[e.frame.table] # [inc |-> e.frame.inc, dropped |-> FALSE]

\* Recovery works on "a stable WAL snapshot".
PlanStable == mode # "moved"

\* "startup replay self-heals missing tombstones"
SelfHeals == mode # "foreign"

\* Salvage "keeps the records decoded before the corruption": the next recovery
\* still finds those that are live.
PrefixKept == mode = "down" => Live \subseteq Entries
=============================================================================
