--------------------------- MODULE TableLifecycle ---------------------------
(***************************************************************************)
(* Data definition against running writes on one node.                     *)
(*                                                                         *)
(*   statements  CREATE and DROP of tables and namespaces, over REST and   *)
(*               SQL: the catalog call, then its effects on this node      *)
(*               (buffer eviction, WAL tombstone, storage purge)           *)
(*   ingest      buffer lookup or load, schema-on-write, reserve, append,  *)
(*               acknowledge                                               *)
(*   flush       drain, upload and intent, commit, completion              *)
(*   restart     crash, replay                                             *)
(*                                                                         *)
(* A table name lives through incarnations 1, 2, ... (its table_uuid); the *)
(* buffer, the WAL records and the sidecar carry the incarnation, while    *)
(* the registry, the tombstone and the storage prefix go by name.  An      *)
(* action is the code between two await points.  Faults of the commit      *)
(* protocol itself are WritePath's subject and are left out here.          *)
(***************************************************************************)
EXTENDS Integers, Sequences, FiniteSets

CONSTANTS
  Tables,       \* table names
  Namespace,    \* the namespace of a table: [Tables -> namespaces]
  Sessions,     \* connections that send DDL statements
  Writers,      \* connections that send rows
  Operations,   \* the kinds of statement the sessions send
  MaxInc,       \* bound: incarnations of one name
  MaxRows,      \* bound: rows
  MaxStatements,\* bound: statements
  MaxFaults,    \* bound: faults of all kinds together
  Faults        \* {"crash", "abandon", "tombstone", "purge"} or fewer

Namespaces == {Namespace[t] : t \in Tables}

ASSUME LifecycleConstants ==
  /\ Operations \subseteq {"create", "drop", "create_ns", "drop_ns"}
  /\ Faults \subseteq {"crash", "abandon", "tombstone", "purge"}

VARIABLES
  mode,        \* "up", "down", or "exited" after a refused startup
  \* the catalog and the object store
  spaces,      \* namespaces that exist
  cat,         \* the incarnation a name denotes now; 0: no such table
  made,        \* incarnations created so far
  ckpt,        \* this writer's checkpoint: <<table, incarnation>> -> generation
  snapshots,   \* [table, inc, file]: data files of committed snapshots
  store,       \* data files in the object store
  \* the node's memory
  reg,         \* BufferRegistry: index of the table's buffer; 0: none
  bufs,        \* every buffer some task may still hold
  sess, ingest,
  \* the WAL directory
  wal,         \* append and drop records in log order
  sidecars,    \* prepared intents
  \* history and bounds
  acked, tainted, rows, statements, faults

catalogVars == <<spaces, cat, made, ckpt>>
objectVars  == <<snapshots, store>>
diskVars    == <<wal, sidecars>>
boundVars   == <<rows, statements, faults>>
vars == <<mode, catalogVars, objectVars, reg, bufs, sess, ingest, diskVars,
          acked, tainted, boundVars>>

-----------------------------------------------------------------------------
(* Records. *)

\* A DdlPlan; `entry' tells SQL from REST, whose handlers differ in their first
\* steps.
Plan(op, t, entry, purge) == [op |-> op, table |-> t, entry |-> entry, purge |-> purge]

Plans == {Plan(op, t, e, p) : op \in Operations, t \in Tables,
                              e \in {"rest", "sql"}, p \in BOOLEAN}

IdleSession == [pc |-> "idle", plan |-> Plan("none", "none", "none", FALSE), todo |-> {}]

IdleWriter == [pc |-> "idle", table |-> "none", buf |-> 0, inc |-> 0, gen |-> 0,
               second |-> FALSE, row |-> 0]

Row(id, t, i, g) == [id |-> id, table |-> t, inc |-> i, gen |-> g]

DataFile(t, rs) == [table |-> t, rows |-> rs]

NewBuffer(t, i, g, rs) ==
  [table |-> t, inc |-> i, next |-> g, rows |-> rs, flush |-> "idle", inFlight |-> {}]

Keys == Tables \X (1 .. MaxInc)

Fault(k) == k \in Faults /\ faults > 0 /\ faults' = faults - 1

MaxGenOf(rs) == CHOOSE g \in {r.gen : r \in rs} : \A r \in rs : r.gen <= g
MinGenOf(rs) == CHOOSE g \in {r.gen : r \in rs} : \A r \in rs : g <= r.gen

-----------------------------------------------------------------------------
(* Statements. *)

\* A statement has changed the catalog and still owes the node some effect.
Owes(s, t) ==
  \/ sess[s].pc \in {"evict", "tombstone", "purge", "delete"} /\ sess[s].plan.table = t
  \/ sess[s].pc \in {"sweep", "sweep_tombstone"} /\ Namespace[sess[s].plan.table] = Namespace[t]

Overlapped(t) == \E s \in Sessions : Owes(s, t)

\* History: the statement ends without its remaining effects, and nothing
\* else will apply them to the incarnations it dropped.
Dropped(t) == {<<t, i>> : i \in (1 .. made[t]) \ {cat[t]}}
CutShort(s) == tainted' = tainted \cup UNION {Dropped(t) : t \in {t \in Tables : Owes(s, t)}}

Goto(s, pc) == sess' = [sess EXCEPT ![s].pc = pc]
Finish(s)   == sess' = [sess EXCEPT ![s] = IdleSession]

FirstStep(p) ==
  CASE p.op = "create" -> IF p.entry = "sql" THEN "ensure_ns" ELSE "create"
    [] p.op = "drop"   -> IF p.purge THEN "load" ELSE "drop"
    [] OTHER -> p.op

Begin(s, p) ==
  /\ mode = "up" /\ sess[s].pc = "idle" /\ statements < MaxStatements
  /\ p.purge => p.op = "drop"
  /\ p.entry = "sql" => p.op = "create" \/ p.purge     \* else both entries do the same
  /\ sess' = [sess EXCEPT ![s] = [pc |-> FirstStep(p), plan |-> p, todo |-> {}]]
  /\ statements' = statements + 1
  /\ UNCHANGED <<mode, catalogVars, objectVars, reg, bufs, ingest, diskVars,
                 acked, tainted, rows, faults>>

\* CREATE SCHEMA and the auto-created namespace of SQL's CREATE TABLE:
\* AlreadyExists is no error for the latter.
CreateNamespace(s) ==
  /\ sess[s].pc \in {"ensure_ns", "create_ns"}
  /\ spaces' = spaces \cup {Namespace[sess[s].plan.table]}
  /\ IF sess[s].pc = "ensure_ns" THEN Goto(s, "create") ELSE Finish(s)
  /\ UNCHANGED <<mode, cat, made, ckpt, objectVars, reg, bufs, ingest, diskVars,
                 acked, tainted, boundVars>>

\* The catalog's create_table: a fresh incarnation, or nothing changes.
NewIncarnation(t) ==
  /\ made[t] < MaxInc
  /\ made' = [made EXCEPT ![t] = @ + 1]
  /\ cat' = [cat EXCEPT ![t] = made[t] + 1]

\* Mutation: CREATE ... IF NOT EXISTS of an existing table reports a change.
CreateTable_AlwaysChanged(s) ==
  LET t == sess[s].plan.table IN
  /\ sess[s].pc = "create"
  /\ IF Namespace[t] \notin spaces
     THEN Finish(s) /\ UNCHANGED <<cat, made>>
     ELSE Goto(s, "evict") /\ IF cat[t] # 0 THEN UNCHANGED <<cat, made>> ELSE NewIncarnation(t)
  /\ UNCHANGED <<mode, spaces, ckpt, objectVars, reg, bufs, ingest, diskVars,
                 acked, tainted, boundVars>>

\* CREATE TABLE: an existing table is an error or, with IF NOT EXISTS, an
\* unchanged result; neither has effects on the node.
CreateTable(s) ==
  LET t == sess[s].plan.table IN
  /\ sess[s].pc = "create"
  /\ IF Namespace[t] \notin spaces \/ cat[t] # 0
     THEN Finish(s) /\ UNCHANGED <<cat, made>>
     ELSE Goto(s, "evict") /\ NewIncarnation(t)
  /\ UNCHANGED <<mode, spaces, ckpt, objectVars, reg, bufs, ingest, diskVars,
                 acked, tainted, boundVars>>

\* The location a purge will empty is read before the drop.
LoadForPurge(s) ==
  /\ sess[s].pc = "load"
  /\ IF cat[sess[s].plan.table] = 0 THEN Finish(s) ELSE Goto(s, "drop")
  /\ UNCHANGED <<mode, catalogVars, objectVars, reg, bufs, ingest, diskVars,
                 acked, tainted, boundVars>>

\* DROP TABLE: SQL purges before the statement's effects, REST after them.
DropTable(s) ==
  LET p == sess[s].plan IN
  /\ sess[s].pc = "drop"
  /\ IF cat[p.table] = 0
     THEN Finish(s) /\ UNCHANGED cat
     ELSE /\ cat' = [cat EXCEPT ![p.table] = 0]
          /\ Goto(s, IF p.purge /\ p.entry = "sql" THEN "purge" ELSE "evict")
  /\ UNCHANGED <<mode, spaces, made, ckpt, objectVars, reg, bufs, ingest, diskVars,
                 acked, tainted, boundVars>>

\* The buffer of the name is discarded, whatever incarnation it holds.
Evict(s) ==
  LET p == sess[s].plan IN
  /\ sess[s].pc = "evict"
  /\ reg' = [reg EXCEPT ![p.table] = 0]
  /\ IF p.op = "create" THEN Finish(s) ELSE Goto(s, "tombstone")
  /\ UNCHANGED <<mode, catalogVars, objectVars, bufs, ingest, diskVars,
                 acked, tainted, boundVars>>

Tombstone(t) == [op |-> "drop", table |-> t]

\* A failed tombstone is only logged.
AppendTombstone(s) ==
  LET p == sess[s].plan IN
  /\ sess[s].pc = "tombstone"
  /\ IF p.purge /\ p.entry = "rest" THEN Goto(s, "purge") ELSE Finish(s)
  /\ \/ wal' = Append(wal, Tombstone(p.table)) /\ UNCHANGED <<faults, tainted>>
     \/ Fault("tombstone") /\ CutShort(s) /\ UNCHANGED wal
  /\ UNCHANGED <<mode, catalogVars, objectVars, reg, bufs, ingest, sidecars,
                 acked, rows, statements>>

\* Everything under the name's prefix is listed, then deleted one by one.
ListForPurge(s) ==
  /\ sess[s].pc = "purge"
  /\ sess' = [sess EXCEPT ![s].pc = "delete",
                          ![s].todo = {f \in store : f.table = sess[s].plan.table}]
  /\ UNCHANGED <<mode, catalogVars, objectVars, reg, bufs, ingest, diskVars,
                 acked, tainted, boundVars>>

PurgeOne(s) ==
  /\ sess[s].pc = "delete"
  /\ \E f \in sess[s].todo :
       /\ store' = store \ {f}
       /\ sess' = [sess EXCEPT ![s].todo = @ \ {f}]
  /\ UNCHANGED <<mode, catalogVars, snapshots, reg, bufs, ingest, diskVars,
                 acked, tainted, boundVars>>

\* A failed delete ends the statement with an error; in SQL the effects that
\* would follow are then never applied.
PurgeEnd(s) ==
  /\ sess[s].pc = "delete"
  /\ \/ /\ sess[s].todo = {} /\ UNCHANGED <<faults, tainted>>
        /\ IF sess[s].plan.entry = "sql" THEN Goto(s, "evict") ELSE Finish(s)
     \/ sess[s].todo # {} /\ Fault("purge") /\ Finish(s) /\ CutShort(s)
  /\ UNCHANGED <<mode, catalogVars, objectVars, reg, bufs, ingest, diskVars,
                 acked, rows, statements>>

\* DROP SCHEMA: the catalog refuses a namespace that still has tables.
DropNamespace(s) ==
  LET n == Namespace[sess[s].plan.table] IN
  /\ sess[s].pc = "drop_ns"
  /\ IF n \notin spaces \/ \E t \in Tables : Namespace[t] = n /\ cat[t] # 0
     THEN Finish(s) /\ UNCHANGED spaces
     ELSE /\ spaces' = spaces \ {n}
          /\ sess' = [sess EXCEPT ![s].pc = "sweep",
                        ![s].todo = {t \in Tables : Namespace[t] = n /\ reg[t] # 0}]
  /\ UNCHANGED <<mode, cat, made, ckpt, objectVars, reg, bufs, ingest, diskVars,
                 acked, tainted, boundVars>>

\* For every listed table: evict, then tombstone.
SweepNamespace(s) ==
  /\ \/ /\ sess[s].pc = "sweep" /\ sess[s].todo = {} /\ Finish(s)
        /\ UNCHANGED <<reg, wal>>
     \/ /\ sess[s].pc = "sweep"
        /\ \E t \in sess[s].todo :
             /\ reg' = [reg EXCEPT ![t] = 0]
             /\ sess' = [sess EXCEPT ![s].pc = "sweep_tombstone", ![s].todo = @ \ {t},
                                     ![s].plan.table = t]
        /\ UNCHANGED wal
     \/ /\ sess[s].pc = "sweep_tombstone" /\ Goto(s, "sweep")
        /\ wal' = Append(wal, Tombstone(sess[s].plan.table))
        /\ UNCHANGED reg
  /\ UNCHANGED <<mode, catalogVars, objectVars, bufs, ingest, sidecars,
                 acked, tainted, boundVars>>

\* The client is gone: the handler's future is dropped at an await point.
Abandon(s) ==
  /\ sess[s].pc # "idle" /\ Fault("abandon") /\ Finish(s) /\ CutShort(s)
  /\ UNCHANGED <<mode, catalogVars, objectVars, reg, bufs, ingest, diskVars,
                 acked, rows, statements>>

-----------------------------------------------------------------------------
(* Ingest. *)

\* History: an ingest works on an incarnation the catalog no longer names, or
\* while some statement has changed the catalog and owes its effects.
Taint(t, i) ==
  tainted' = IF Overlapped(t) \/ cat[t] # i THEN tainted \cup {<<t, i>>} ELSE tainted

\* The registry's buffer, else the catalog is asked.
Lookup(w, t) ==
  /\ mode = "up" /\ ingest[w].pc = "idle" /\ rows < MaxRows
  /\ IF reg[t] # 0
     THEN /\ ingest' = [ingest EXCEPT ![w] = [IdleWriter EXCEPT !.pc = "reserve",
                                               !.table = t, !.buf = reg[t]]]
          /\ Taint(t, bufs[reg[t]].inc)
     ELSE /\ ingest' = [ingest EXCEPT ![w] = [IdleWriter EXCEPT !.pc = "load", !.table = t]]
          /\ UNCHANGED tainted
  /\ UNCHANGED <<mode, catalogVars, objectVars, reg, bufs, sess, diskVars, acked, boundVars>>

\* load_table: a missing table is created from the rows, once.
LoadTable(w) ==
  LET t == ingest[w].table IN
  /\ ingest[w].pc = "load"
  /\ ingest' = [ingest EXCEPT ![w] =
       IF cat[t] # 0 THEN [@ EXCEPT !.pc = "register", !.inc = cat[t],
                                    !.gen = ckpt[<<t, cat[t]>>]]
       ELSE IF @.second THEN IdleWriter
       ELSE [@ EXCEPT !.pc = "auto_ns"]]
  /\ UNCHANGED <<mode, catalogVars, objectVars, reg, bufs, sess, diskVars,
                 acked, tainted, boundVars>>

AutoCreateNamespace(w) ==
  /\ ingest[w].pc = "auto_ns"
  /\ spaces' = spaces \cup {Namespace[ingest[w].table]}
  /\ ingest' = [ingest EXCEPT ![w].pc = "auto_create"]
  /\ UNCHANGED <<mode, cat, made, ckpt, objectVars, reg, bufs, sess, diskVars,
                 acked, tainted, boundVars>>

\* Schema-on-write: AlreadyExists is success, then the table is loaded again.
AutoCreateTable(w) ==
  LET t == ingest[w].table IN
  /\ ingest[w].pc = "auto_create"
  /\ IF Namespace[t] \notin spaces
     THEN ingest' = [ingest EXCEPT ![w] = IdleWriter] /\ UNCHANGED <<cat, made>>
     ELSE /\ ingest' = [ingest EXCEPT ![w].pc = "load", ![w].second = TRUE]
          /\ IF cat[t] # 0 THEN UNCHANGED <<cat, made>> ELSE NewIncarnation(t)
  /\ UNCHANGED <<mode, spaces, ckpt, objectVars, reg, bufs, sess, diskVars,
                 acked, tainted, boundVars>>

\* get_or_insert_with: the first loader's buffer wins; the metadata may have
\* aged since it was loaded.
Register(w) ==
  LET t == ingest[w].table
      fresh == NewBuffer(t, ingest[w].inc, ingest[w].gen + 1, {})
      b == IF reg[t] # 0 THEN reg[t] ELSE Len(bufs) + 1
  IN
  /\ ingest[w].pc = "register"
  /\ bufs' = IF reg[t] # 0 THEN bufs ELSE Append(bufs, fresh)
  /\ reg' = [reg EXCEPT ![t] = b]
  /\ ingest' = [ingest EXCEPT ![w].pc = "reserve", ![w].buf = b]
  /\ Taint(t, bufs'[b].inc)
  /\ UNCHANGED <<mode, catalogVars, objectVars, sess, diskVars, acked, boundVars>>

\* The buffer of the writer, and the row it carries.
Held(w) == bufs[ingest[w].buf]
RowOf(w) == Row(ingest[w].row, ingest[w].table, Held(w).inc, ingest[w].gen)

Reserve(w) ==
  /\ ingest[w].pc = "reserve" /\ rows < MaxRows
  /\ rows' = rows + 1
  /\ ingest' = [ingest EXCEPT ![w].pc = "append", ![w].row = rows + 1,
                              ![w].gen = Held(w).next]
  /\ bufs' = [bufs EXCEPT ![ingest[w].buf].next = @ + 1]
  /\ Taint(ingest[w].table, Held(w).inc)
  /\ UNCHANGED <<mode, catalogVars, objectVars, reg, sess, diskVars, acked,
                 statements, faults>>

WalAppend(w) ==
  /\ ingest[w].pc = "append"
  /\ wal' = Append(wal, [op |-> "append", row |-> RowOf(w)])
  /\ ingest' = [ingest EXCEPT ![w].pc = "admit"]
  /\ Taint(ingest[w].table, Held(w).inc)
  /\ UNCHANGED <<mode, catalogVars, objectVars, reg, bufs, sess, sidecars, acked, boundVars>>

\* Into the buffer the request holds, registered or not, and acknowledged.
Admit(w) ==
  /\ ingest[w].pc = "admit"
  /\ bufs' = [bufs EXCEPT ![ingest[w].buf].rows = @ \cup {RowOf(w)}]
  /\ acked' = acked \cup {RowOf(w)}
  /\ ingest' = [ingest EXCEPT ![w] = IdleWriter]
  /\ Taint(ingest[w].table, Held(w).inc)
  /\ UNCHANGED <<mode, catalogVars, objectVars, reg, sess, diskVars, boundVars>>

-----------------------------------------------------------------------------
(* Flush of a registered buffer; it goes on when the buffer is evicted. *)

\* A reservation below a pending row holds the row back.
Drainable(b) ==
  {r \in bufs[b].rows : \A w \in Writers :
     ingest[w].buf = b /\ ingest[w].pc \in {"append", "admit"} => r.gen < ingest[w].gen}

FlushStart(t) ==
  LET b == reg[t] IN
  /\ mode = "up" /\ b # 0 /\ bufs[b].flush = "idle" /\ Drainable(b) # {}
  /\ bufs' = [bufs EXCEPT ![b].flush = "writing", ![b].inFlight = Drainable(b)]
  /\ UNCHANGED <<mode, catalogVars, objectVars, reg, sess, ingest, diskVars,
                 acked, tainted, boundVars>>

\* Upload under the name's prefix, then persist the intent.
FlushPrepare(b) ==
  LET f == DataFile(bufs[b].table, bufs[b].inFlight) IN
  /\ bufs[b].flush = "writing"
  /\ store' = store \cup {f}
  /\ sidecars' = {c \in sidecars : c.table # f.table \/ c.inc # bufs[b].inc}
                   \cup {[table |-> f.table, inc |-> bufs[b].inc, rows |-> f.rows]}
  /\ bufs' = [bufs EXCEPT ![b].flush = "prepared"]
  /\ UNCHANGED <<mode, catalogVars, snapshots, reg, sess, ingest, wal,
                 acked, tainted, boundVars>>

Sidecar(b) == {c \in sidecars : c.table = bufs[b].table /\ c.inc = bufs[b].inc}

\* The catalog applies an intent: the incarnation must match and the range
\* must lie above the writer's checkpoint.
Publish(t, i, rs) ==
  /\ snapshots' = snapshots \cup {[table |-> t, inc |-> i, file |-> DataFile(t, rs)]}
  /\ ckpt' = [ckpt EXCEPT ![<<t, i>>] = MaxGenOf(rs)]

\* Mutation: the guard does not compare the table UUID.
FlushCommit_AnyIncarnation(b) ==
  LET t == bufs[b].table  rs == bufs[b].inFlight IN
  /\ bufs[b].flush = "prepared"
  /\ IF cat[t] # 0 /\ MinGenOf(rs) > ckpt[<<t, cat[t]>>]
     THEN Publish(t, cat[t], rs) /\ bufs' = [bufs EXCEPT ![b].flush = "committed"]
     ELSE UNCHANGED <<snapshots, ckpt>> /\ bufs' = [bufs EXCEPT ![b].flush = "blocked"]
  /\ UNCHANGED <<mode, spaces, cat, made, store, reg, sess, ingest, diskVars,
                 acked, tainted, boundVars>>

\* A missing table is a definite failure: the intent is retired and the rows
\* return to pending.  A mismatch of incarnation or range blocks the table.
FlushCommit(b) ==
  LET t == bufs[b].table  i == bufs[b].inc  rs == bufs[b].inFlight IN
  /\ bufs[b].flush = "prepared"
  /\ \/ /\ cat[t] = i /\ MinGenOf(rs) > ckpt[<<t, i>>]
        /\ Publish(t, i, rs)
        /\ bufs' = [bufs EXCEPT ![b].flush = "committed"]
        /\ UNCHANGED sidecars
     \/ /\ cat[t] = 0
        /\ bufs' = [bufs EXCEPT ![b].flush = "idle", ![b].inFlight = {}]
        /\ sidecars' = sidecars \ Sidecar(b)
        /\ UNCHANGED <<snapshots, ckpt>>
     \/ /\ cat[t] # 0 /\ (cat[t] # i \/ MinGenOf(rs) <= ckpt[<<t, i>>])
        /\ bufs' = [bufs EXCEPT ![b].flush = "blocked"]
        /\ UNCHANGED <<snapshots, ckpt, sidecars>>
  /\ UNCHANGED <<mode, spaces, cat, made, store, reg, sess, ingest, wal,
                 acked, tainted, boundVars>>

FlushComplete(b) ==
  /\ bufs[b].flush = "committed"
  /\ bufs' = [bufs EXCEPT ![b].flush = "idle", ![b].rows = @ \ bufs[b].inFlight,
                          ![b].inFlight = {}]
  /\ sidecars' = sidecars \ Sidecar(b)
  /\ UNCHANGED <<mode, catalogVars, objectVars, reg, sess, ingest, wal,
                 acked, tainted, boundVars>>

-----------------------------------------------------------------------------
(* Restart. *)

Crash ==
  /\ mode = "up" /\ Fault("crash")
  /\ mode' = "down"
  /\ sess' = [s \in Sessions |-> IdleSession] /\ ingest' = [w \in Writers |-> IdleWriter]
  /\ reg' = [t \in Tables |-> 0] /\ bufs' = <<>>
  /\ tainted' = tainted \cup
       UNION {Dropped(t) : t \in {t \in Tables : cat[t] # 0 /\ Overlapped(t)}}
  /\ UNCHANGED <<catalogVars, objectVars, diskVars, acked, rows, statements>>

\* Append records no later tombstone of their name voids.
Live ==
  {wal[k].row : k \in {k \in 1 .. Len(wal) :
     wal[k].op = "append" /\ \A m \in k + 1 .. Len(wal) :
       wal[m].op = "drop" => wal[m].table # wal[k].row.table}}

RecoveryKeys == {<<r.table, r.inc>> : r \in Live} \cup {<<c.table, c.inc>> : c \in sidecars}

\* A record or an intent of another incarnation than the catalog's, an intent
\* beside records of another incarnation, or an intent of a table that is gone.
Refused ==
  \/ \E k \in RecoveryKeys : cat[k[1]] \notin {0, k[2]}
  \/ \E c \in sidecars : cat[c.table] = 0

\* Uncommitted records of a table go into its buffer.
Replayed(t) ==
  {r \in Live : r.table = t /\ r.inc = cat[t] /\ r.gen > ckpt[<<t, cat[t]>>]}

\* The rows of an intent the catalog does not hold yet: recovery commits them.
Unresolved(t) ==
  UNION {c.rows : c \in {c \in sidecars : c.table = t /\
                           MaxGenOf(c.rows) > ckpt[<<t, cat[t]>>]}}

\* Replay as a whole: tables of the catalog get a buffer with what is neither
\* committed nor part of an intent, intents are committed, and tables the
\* catalog no longer has are tombstoned.
Recover ==
  LET present == {t \in Tables : cat[t] # 0 /\ \E k \in RecoveryKeys : k[1] = t}
      gone == {k[1] : k \in RecoveryKeys} \ present
      intents == {t \in present : Unresolved(t) # {}}
      order == CHOOSE q \in [1 .. Cardinality(present) -> present] :
                 {q[n] : n \in DOMAIN q} = present
      cut(t) == IF t \in intents THEN MaxGenOf(Unresolved(t)) ELSE ckpt[<<t, cat[t]>>]
      rest(t) == {r \in Replayed(t) : r.gen > cut(t)}
      next(t) == IF rest(t) = {} THEN cut(t) + 1 ELSE MaxGenOf(rest(t)) + 1
  IN
  /\ mode \in {"down", "exited"}
  /\ IF Refused
     THEN mode' = "exited" /\ UNCHANGED <<ckpt, snapshots, reg, bufs, diskVars>>
     ELSE /\ mode' = "up"
          /\ bufs' = [n \in DOMAIN order |->
                        NewBuffer(order[n], cat[order[n]], next(order[n]), rest(order[n]))]
          /\ reg' = [t \in Tables |->
                       IF t \in present THEN CHOOSE n \in DOMAIN order : order[n] = t ELSE 0]
          /\ ckpt' = [k \in Keys |-> IF k[1] \in present /\ cat[k[1]] = k[2]
                                     THEN cut(k[1]) ELSE ckpt[k]]
          /\ snapshots' = snapshots \cup
               {[table |-> t, inc |-> cat[t], file |-> DataFile(t, Unresolved(t))] : t \in intents}
          /\ sidecars' = {}
          /\ \E q \in [1 .. Cardinality(gone) -> gone] :
               /\ {q[n] : n \in DOMAIN q} = gone
               /\ wal' = wal \o [n \in DOMAIN q |-> Tombstone(q[n])]
  /\ UNCHANGED <<spaces, cat, made, store, sess, ingest, acked, tainted, boundVars>>

-----------------------------------------------------------------------------

Init ==
  /\ mode = "up" /\ spaces = Namespaces
  /\ cat = [t \in Tables |-> 0] /\ made = [t \in Tables |-> 0]
  /\ ckpt = [k \in Keys |-> 0] /\ snapshots = {} /\ store = {}
  /\ reg = [t \in Tables |-> 0] /\ bufs = <<>>
  /\ sess = [s \in Sessions |-> IdleSession] /\ ingest = [w \in Writers |-> IdleWriter]
  /\ wal = <<>> /\ sidecars = {} /\ acked = {} /\ tainted = {}
  /\ rows = 0 /\ statements = 0 /\ faults = MaxFaults

Statement(s) ==
  \/ \E p \in Plans : Begin(s, p)
  \/ CreateNamespace(s) \/ CreateTable(s) \/ LoadForPurge(s) \/ DropTable(s)
  \/ Evict(s) \/ AppendTombstone(s)
  \/ ListForPurge(s) \/ PurgeOne(s) \/ PurgeEnd(s)
  \/ DropNamespace(s) \/ SweepNamespace(s) \/ Abandon(s)

Ingest(w) ==
  \/ \E t \in Tables : Lookup(w, t)
  \/ LoadTable(w) \/ AutoCreateNamespace(w) \/ AutoCreateTable(w)
  \/ Register(w) \/ Reserve(w) \/ WalAppend(w) \/ Admit(w)

Flush ==
  \/ \E t \in Tables : FlushStart(t)
  \/ \E b \in 1 .. Len(bufs) : FlushPrepare(b) \/ FlushCommit(b) \/ FlushComplete(b)

Next ==
  \/ \E s \in Sessions : Statement(s)
  \/ \E w \in Writers : Ingest(w)
  \/ Flush \/ Crash \/ Recover

Spec == Init /\ [][Next]_vars

-----------------------------------------------------------------------------
(* Properties. *)

\* The rows of an incarnation that its committed files, still in the store, hold.
Served(t, i) ==
  UNION {s.file.rows : s \in {s \in snapshots : s.table = t /\ s.inc = i /\ s.file \in store}}

\* Acknowledged rows of the incarnation the name denotes now.
Owed == {r \in acked : cat[r.table] = r.inc}

\* A row is on disk for good: served, or in the log where replay will find it.
Kept(r) == r \in Served(r.table, r.inc) \/ (r \in Live /\ r.gen > ckpt[<<r.table, r.inc>>])

\* As long as no ingest worked on an incarnation between a statement's catalog
\* change and its effects, no statement, crash or flush loses one of the
\* incarnation's acknowledged rows: DROP, CREATE and purge act by name, and
\* must only hit what is gone.
AckedKept == \A r \in Owed : <<r.table, r.inc>> \notin tainted => Kept(r)

\* ... and while the node is up such a row is served or in the buffer the
\* registry would flush.
AckedBuffered ==
  mode = "up" => \A r \in Owed : <<r.table, r.inc>> \notin tainted =>
    \/ r \in Served(r.table, r.inc)
    \/ reg[r.table] # 0 /\ r \in bufs[reg[r.table]].rows

\* A recreated table never shows rows of the table that had its name before.
NoForeignRows == \A s \in snapshots : \A r \in s.file.rows : r.inc = s.inc /\ r.table = s.table

\* Records of a dropped incarnation do not outlive its DROP in the log: once
\* the name is taken again and no statement owes effects, replay finds no
\* record of an older incarnation, which would make it refuse to start.
\* Excepted are ingests that overlapped the statement, and statements that a
\* crash, a disconnect or a failed effect cut short.
NoStaleRecords ==
  \A r \in Live : cat[r.table] \notin {0, r.inc} =>
    Overlapped(r.table) \/ <<r.table, r.inc>> \in tainted

\* The same two statements without the exception for overlapping ingests.
AckedKeptAlways == \A r \in Owed : Kept(r)
Restartable == mode # "exited"

TypeOK ==
  /\ mode \in {"up", "down", "exited"} /\ spaces \subseteq Namespaces
  /\ \A t \in Tables : cat[t] \in {0, made[t]} /\ made[t] \in 0 .. MaxInc
  /\ \A k \in Keys : ckpt[k] \in Nat /\ (k[2] > made[k[1]] => ckpt[k] = 0)
  /\ \A t \in Tables : reg[t] \in 0 .. Len(bufs)
  /\ \A t \in Tables : reg[t] # 0 => bufs[reg[t]].table = t

\* Incarnations of a name stay apart, in the log and in the table: nothing of a
\* dropped table comes back under the one that took its name.
IncarnationsApart == TypeOK /\ NoStaleRecords /\ NoForeignRows

\* An acknowledged row of the current incarnation is never out of reach: not for a
\* restart, and not for the registry of a running node.
AckedServed == AckedKept /\ AckedBuffered
=============================================================================
