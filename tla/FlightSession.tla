---------------------------- MODULE FlightSession ----------------------------
(***************************************************************************)
(* What a FlightSQL client and the node's Flight service exchange.         *)
(*                                                                         *)
(*   queries  get_flight_info or CreatePreparedStatement plans a statement *)
(*            and hands out a ticket; do_get decodes the ticket, plans the *)
(*            statement again and streams the result under one deadline    *)
(*   puts     do_put takes batches one at a time: reserve, WAL, buffer,    *)
(*            PutResult                                                    *)
(*   updates  a CommandStatementUpdate in do_put runs DDL                  *)
(*                                                                         *)
(* There is one table; `shape' is its current definition, and a new        *)
(* definition is a new number.  The answer to a statement is told apart by *)
(* its schema: the statement and the shape it was planned on.  A step of a *)
(* client is the code between two await points.                            *)
(***************************************************************************)
EXTENDS Integers, Sequences, FiniteSets

CONSTANTS
  Clients,
  Mixes,         \* [jobs, calls]: what the clients do together, among "query", "put" and
                 \* "update", and how often
  MaxShapes,     \* bound: definitions of the table
  MaxHandles,    \* bound: prepared statements created
  MaxMessages,   \* bound: messages of one put stream
  Room           \* batches the buffer may hold, reserved ones included

VARIABLES
  mix,        \* one of Mixes
  shape,      \* the table's definition, 0 while it does not exist
  shapes,     \* definitions made so far
  registered, \* the definition whose buffer the node has registered, 0 when none
  store,      \* PreparedStatementStore: handle -> SQL
  handles,    \* handles made so far
  client,     \* what each client is doing
  puts,       \* the put streams, in the order in which they were opened
  log,        \* the records of their batches
  buffer,     \* the buffer of each definition
  calls

putVars == <<puts, log, buffer>>
flightVars == <<mix, shape, shapes, registered, store, handles, client, putVars, calls>>

-----------------------------------------------------------------------------
(* Commands, tickets and plans. *)

MetadataSql == {"catalogs", "db_schemas", "tables"}
Markers == {"__table_types__", "__primary_keys__"}
Commands == {"select", "blank", "sql_info", "prepared"} \cup MetadataSql \cup Markers

Ticket(type, text, handle) == [type |-> type, text |-> text, handle |-> handle]
NoTicket == Ticket("none", "none", 0)

\* A schema, or the reason why there is none.
Schema(of, at) == [ok |-> TRUE, of |-> of, at |-> at]
Failed(why) == [ok |-> FALSE, of |-> why, at |-> 0]

\* engine.prepare: a marker is no statement, the metadata statements read
\* information_schema and the other one reads the table.
Planned(sql) ==
  IF sql \in MetadataSql THEN Schema(sql, 0)
  ELSE IF sql = "select" /\ shape # 0 THEN Schema(sql, shape)
  ELSE Failed("plan")

\* The ticket of a statement, or of a marker, holds its text.
TicketFor(sql) == Ticket("CommandStatementQuery", sql, 0)

Info(schema, ticket) == [schema |-> schema, ticket |-> IF schema.ok THEN ticket ELSE NoTicket]

\* get_flight_info: decode_flight_info_request and the ways to answer it.
FlightInfo(command) ==
  CASE command = "blank" -> Info(Failed("invalid"), NoTicket)
    [] command \in {"select"} \cup MetadataSql -> Info(Planned(command), TicketFor(command))
    [] command \in Markers -> Info(Schema(command, 0), TicketFor(command))
    [] command = "sql_info" -> Info(Schema(command, 0), Ticket("CommandGetSqlInfo", command, 0))
    [] OTHER -> Info(Failed("unimplemented"), NoTicket)

\* get_schema: only a statement is planned, the others have their schema.
GetSchema(command) ==
  CASE command = "blank" -> Failed("invalid")
    [] command = "select" -> Planned(command)
    [] command \in MetadataSql \cup Markers \cup {"sql_info"} -> Schema(command, 0)
    [] OTHER -> Failed("unimplemented")

\* extract_sql_from_ticket.
Extract(ticket) ==
  CASE ticket.type = "TicketStatementQuery" ->
         IF ticket.handle \in DOMAIN store THEN [ok |-> TRUE, of |-> store[ticket.handle]]
         ELSE Failed("not_found")
    [] ticket.type = "CommandStatementQuery" -> [ok |-> TRUE, of |-> ticket.text]
    [] OTHER -> Failed("invalid")

-----------------------------------------------------------------------------
(* Queries. *)

Idle == [pc |-> "idle", command |-> "none", told |-> Failed("none"), ticket |-> NoTicket,
         sql |-> "none", got |-> Failed("none"), applied |-> 0,
         from |-> [shape |-> 0, shapes |-> 0]]

GoTo(c, pc) == client' = [client EXCEPT ![c].pc = pc]
Starts(c, job) == job \in mix.jobs /\ client[c].pc = "idle" /\ calls < mix.calls /\ calls' = calls + 1

\* The client has the answer; with a ticket it may go on.
Tell(c, command, info) ==
  client' = [client EXCEPT ![c] =
    [Idle EXCEPT !.pc = IF info.schema.ok THEN "told" ELSE "refused", !.command = command,
                 !.told = info.schema, !.ticket = info.ticket]]

Done(c) ==
  /\ client[c].pc \in {"told", "refused", "failed", "answered"}
  /\ client' = [client EXCEPT ![c] = Idle]
  /\ UNCHANGED <<mix, shape, shapes, registered, store, handles, putVars, calls>>

\* get_flight_info; poll_flight_info answers with the same.  Planning may time
\* out.
AskInfo(c, command) ==
  /\ Starts(c, "query")
  /\ \/ Tell(c, command, FlightInfo(command))
     \/ /\ command \in {"select"} \cup MetadataSql
        /\ Tell(c, command, Info(Failed("deadline"), NoTicket))
  /\ UNCHANGED <<mix, shape, shapes, registered, store, handles, putVars>>

\* CreatePreparedStatement: the statement is planned for its schema only, and
\* its text is kept under a fresh handle.
HandleCreate(c, sql) ==
  LET h == handles + 1 IN
  /\ handles < MaxHandles
  /\ Starts(c, "query")
  /\ Tell(c, sql, Info(Planned(sql), Ticket("TicketStatementQuery", "none", h)))
  /\ IF Planned(sql).ok
     THEN /\ handles' = h
          /\ store' = [k \in DOMAIN store \cup {h} |-> IF k = h THEN sql ELSE store[k]]
     ELSE UNCHANGED <<store, handles>>
  /\ UNCHANGED <<mix, shape, shapes, registered, putVars>>

Without(h) == [k \in DOMAIN store \ {h} |-> store[k]]

\* ClosePreparedStatement, by a client that holds the handle.
HandleClose(c) ==
  /\ client[c].pc = "told" /\ client[c].ticket.type = "TicketStatementQuery"
  /\ store' = Without(client[c].ticket.handle)
  /\ client' = [client EXCEPT ![c] = Idle]
  /\ UNCHANGED <<mix, shape, shapes, registered, handles, putVars, calls>>

\* The cache forgets an entry: one that was idle for an hour, or any one when
\* it holds MAX_PREPARED_STATEMENTS.
Forget(h) ==
  /\ store' = Without(h)
  /\ UNCHANGED <<mix, shape, shapes, registered, handles, client, putVars, calls>>

Reply(c, pc, schema) == client' = [client EXCEPT ![c].pc = pc, ![c].got = schema]

\* A client fetches the first endpoint of the answer: the one ticket it got.
Fetches(c) == client[c].pc = "told" /\ client[c].ticket # NoTicket

\* do_get up to its first await: SqlInfo and the markers are answered at once.
DoGet(c) ==
  LET ticket == client[c].ticket  sql == Extract(ticket) IN
  /\ Fetches(c)
  /\ IF ticket.type = "CommandGetSqlInfo" THEN Reply(c, "answered", Schema("sql_info", 0))
     ELSE IF ~sql.ok THEN Reply(c, "failed", sql)
     ELSE IF sql.of \in Markers THEN Reply(c, "answered", Schema(sql.of, 0))
     ELSE client' = [client EXCEPT ![c].pc = "planning", ![c].sql = sql.of]
  /\ UNCHANGED <<mix, shape, shapes, registered, store, handles, putVars, calls>>

\* The statement is planned again; its schema is the first message, so that an
\* empty result has one as well.
DoGetPlan(c) ==
  LET plan == Planned(client[c].sql) IN
  /\ client[c].pc = "planning"
  /\ Reply(c, IF plan.ok THEN "streaming" ELSE "failed", plan)
  /\ UNCHANGED <<mix, shape, shapes, registered, store, handles, putVars, calls>>

\* The stream ends, or fails, or the deadline passes.
DoGetEnd(c) ==
  /\ \/ client[c].pc = "streaming" /\ GoTo(c, "answered")
     \/ client[c].pc \in {"planning", "streaming"} /\ Reply(c, "failed", Failed("deadline"))
     \/ client[c].pc = "streaming" /\ Reply(c, "failed", Failed("engine"))
  /\ UNCHANGED <<mix, shape, shapes, registered, store, handles, putVars, calls>>

-----------------------------------------------------------------------------
(* Puts. *)

EmptyBuffer == [pending |-> <<>>, reserved |-> {}, next |-> 1, flushed |-> <<>>]
OnePut(p, n, gen) == [put |-> p, n |-> n, gen |-> gen]

\* do_put reads the descriptor: the stream keeps the buffer and the schema it
\* finds now for as long as it lasts.  get_or_load finds the buffer that is
\* registered, of an earlier definition if DDL has not evicted it.
DoPut(c) ==
  LET found == IF registered # 0 THEN registered ELSE shape IN
  /\ Starts(c, "put")
  /\ registered' = found
  /\ IF found = 0 THEN GoTo(c, "refused") /\ UNCHANGED puts
     ELSE /\ puts' = Append(puts, [pc |-> "open", shape |-> found, acks |-> 0, messages |-> 0,
                                   sent |-> 0, gen |-> 0])
          /\ UNCHANGED client
  /\ UNCHANGED <<mix, shape, shapes, store, handles, log, buffer>>

Bodies(kind) == IF kind \in {"batch", "misfit"} THEN 1 ELSE 0
PutTo(p, pc, kind) == puts' = [puts EXCEPT ![p].pc = pc, ![p].messages = @ + 1,
                                           ![p].sent = @ + Bodies(kind)]

HasRoom(b) == Len(b.pending) + Cardinality(b.reserved) < Room

\* Mutation: a batch that is refused is skipped.
PutReceive_GoesOn(p, kind) ==
  LET i == puts[p].shape  b == buffer[i] IN
  /\ puts[p].pc = "open" /\ puts[p].messages < MaxMessages
  /\ \/ kind = "batch" /\ HasRoom(b)
        /\ puts' = [puts EXCEPT ![p].pc = "append", ![p].gen = b.next, ![p].messages = @ + 1,
                                ![p].sent = @ + 1]
        /\ buffer' = [buffer EXCEPT ![i].reserved = @ \cup {b.next}, ![i].next = @ + 1]
     \/ kind = "batch" /\ ~HasRoom(b) /\ PutTo(p, "open", kind) /\ UNCHANGED buffer
     \/ kind \in {"misfit", "header"} /\ PutTo(p, "open", kind) /\ UNCHANGED buffer
     \/ kind = "error" /\ PutTo(p, "failed", kind) /\ UNCHANGED buffer
     \/ kind = "end" /\ PutTo(p, "ended", kind) /\ UNCHANGED buffer
  /\ UNCHANGED <<mix, shape, shapes, registered, store, handles, client, log, calls>>

\* The next message: one without a body is skipped, and the first batch that
\* does not decode, fit the schema or find room ends the stream with its error.
PutReceive(p, kind) ==
  LET i == puts[p].shape  b == buffer[i] IN
  /\ puts[p].pc = "open" /\ puts[p].messages < MaxMessages
  /\ \/ kind = "batch" /\ HasRoom(b)
        /\ puts' = [puts EXCEPT ![p].pc = "append", ![p].gen = b.next, ![p].messages = @ + 1,
                                ![p].sent = @ + 1]
        /\ buffer' = [buffer EXCEPT ![i].reserved = @ \cup {b.next}, ![i].next = @ + 1]
     \/ kind = "batch" /\ ~HasRoom(b) /\ PutTo(p, "failed", kind) /\ UNCHANGED buffer
     \/ kind = "header" /\ PutTo(p, "open", kind) /\ UNCHANGED buffer
     \/ kind \in {"misfit", "error"} /\ PutTo(p, "failed", kind) /\ UNCHANGED buffer
     \/ kind = "end" /\ PutTo(p, "ended", kind) /\ UNCHANGED buffer
  /\ UNCHANGED <<mix, shape, shapes, registered, store, handles, client, log, calls>>

This(p) == OnePut(p, puts[p].acks + 1, puts[p].gen)

\* The record is durable: the batch goes into the buffer and is acknowledged.
PutAppended(p) ==
  LET i == puts[p].shape IN
  /\ puts[p].pc = "append"
  /\ log' = Append(log, This(p))
  /\ buffer' = [buffer EXCEPT ![i].reserved = @ \ {puts[p].gen},
                              ![i].pending = Append(@, This(p))]
  /\ puts' = [puts EXCEPT ![p].pc = "open", ![p].acks = @ + 1]
  /\ UNCHANGED <<mix, shape, shapes, registered, store, handles, client, calls>>

\* The WAL refuses the record: the reservation is given back.
PutAppendFails(p) ==
  /\ puts[p].pc = "append"
  /\ buffer' = [buffer EXCEPT ![puts[p].shape].reserved = @ \ {puts[p].gen}]
  /\ puts' = [puts EXCEPT ![p].pc = "failed"]
  /\ UNCHANGED <<mix, shape, shapes, registered, store, handles, client, log, calls>>

\* The client is gone and the stream's future is dropped: a reservation stays,
\* and the record it was waiting for may still become durable.
HangUp(p) ==
  /\ \/ puts[p].pc = "open" /\ puts' = [puts EXCEPT ![p].pc = "ended"] /\ UNCHANGED log
     \/ /\ puts[p].pc = "append" /\ puts' = [puts EXCEPT ![p].pc = "hung"]
        /\ log' \in {log, Append(log, This(p))}
  /\ UNCHANGED <<mix, shape, shapes, registered, store, handles, client, buffer, calls>>

\* A flush of the registered buffer takes the batches below every reservation;
\* the table refuses those of another definition.
Drain(i) ==
  LET free(x) == \A g \in buffer[i].reserved : x.gen < g
      taken == SelectSeq(buffer[i].pending, free)
  IN
  /\ i = registered /\ i = shape /\ taken # <<>>
  /\ buffer' = [buffer EXCEPT ![i].pending = SelectSeq(@, LAMBDA x : ~free(x)),
                              ![i].flushed = @ \o taken]
  /\ UNCHANGED <<mix, shape, shapes, registered, store, handles, client, puts, log, calls>>

-----------------------------------------------------------------------------
(* Updates. *)

Creates == {"create", "create_if_not_exists"}
Purges == {"drop_purge", "drop_purge_if_exists"}
Guarded == {"create_if_not_exists", "drop_if_exists", "drop_purge_if_exists"}
Ddl == Creates \cup Purges \cup Guarded \cup {"drop"}

UpdateStart(c, ddl) ==
  /\ Starts(c, "update")
  /\ client' = [client EXCEPT ![c] =
       [Idle EXCEPT !.pc = "routing", !.command = ddl,
                    !.from = [shape |-> shape, shapes |-> shapes]]]
  /\ UNCHANGED <<mix, shape, shapes, registered, store, handles, putVars>>

\* The catalog refuses the statement: with IF [NOT] EXISTS it is answered all
\* the same, as one that changed nothing and has no effects on the node.
CatalogRefuses(c, why) ==
  /\ IF client[c].command \in Guarded THEN Reply(c, "answered", Schema("update", 0))
     ELSE Reply(c, "failed", Failed(why))
  /\ UNCHANGED <<shape, shapes>>

\* The catalog takes the statement; the reply arrives, or is lost and the
\* statement fails although it was applied.
CatalogTakes(c, new, next) ==
  /\ shape' = new /\ shapes' = IF new = 0 THEN shapes ELSE new
  /\ client' \in {[client EXCEPT ![c].pc = next, ![c].applied = @ + 1],
                  [client EXCEPT ![c].pc = "failed", ![c].got = Failed("catalog"),
                                 ![c].applied = @ + 1]}

\* DdlExecutor::create_table, with the namespace before the table.
UpdateCreate(c) ==
  /\ client[c].pc = "routing" /\ client[c].command \in Creates
  /\ \/ shape = 0 /\ shapes < MaxShapes /\ CatalogTakes(c, shapes + 1, "applied")
     \/ shape # 0 /\ CatalogRefuses(c, "exists")
     \/ Reply(c, "failed", Failed("catalog")) /\ UNCHANGED <<shape, shapes>>
  /\ UNCHANGED <<mix, registered, store, handles, putVars, calls>>

\* DdlExecutor::drop_table with PURGE asks where the table is before it drops it.
UpdateLocate(c) ==
  /\ client[c].pc = "routing" /\ client[c].command \in Purges
  /\ \/ shape # 0 /\ GoTo(c, "located") /\ UNCHANGED <<shape, shapes>>
     \/ shape = 0 /\ CatalogRefuses(c, "not_found")
     \/ Reply(c, "failed", Failed("catalog")) /\ UNCHANGED <<shape, shapes>>
  /\ UNCHANGED <<mix, registered, store, handles, putVars, calls>>

UpdateDrop(c) ==
  LET purges == client[c].command \in Purges IN
  /\ client[c].command \in Ddl \ Creates
  /\ client[c].pc = IF purges THEN "located" ELSE "routing"
  /\ \/ shape # 0 /\ CatalogTakes(c, 0, IF purges THEN "purging" ELSE "applied")
     \/ shape = 0 /\ CatalogRefuses(c, "not_found")
     \/ Reply(c, "failed", Failed("catalog")) /\ UNCHANGED <<shape, shapes>>
  /\ UNCHANGED <<mix, registered, store, handles, putVars, calls>>

\* purge_table_storage, after the drop: when it fails so does the statement, and
\* the table is gone from the catalog.
UpdatePurge(c) ==
  /\ client[c].pc = "purging"
  /\ GoTo(c, "applied") \/ Reply(c, "failed", Failed("purge"))
  /\ UNCHANGED <<mix, shape, shapes, registered, store, handles, putVars, calls>>

\* apply_post_ddl evicts the table's buffer, whichever it is by now, and the
\* statement is answered.
UpdateEnd(c) ==
  /\ client[c].pc = "applied" /\ Reply(c, "answered", Schema("update", 0))
  /\ registered' = 0
  /\ UNCHANGED <<mix, shape, shapes, store, handles, putVars, calls>>

\* The deadline passes at some await and the rest of the statement is dropped.
UpdateTimesOut(c) ==
  /\ client[c].pc \in {"routing", "located", "purging", "applied"}
  /\ Reply(c, "failed", Failed("deadline"))
  /\ UNCHANGED <<mix, shape, shapes, registered, store, handles, putVars, calls>>

-----------------------------------------------------------------------------

FlightInit ==
  /\ mix \in Mixes /\ shape = 1 /\ shapes = 1 /\ registered = 0
  /\ store = <<>> /\ handles = 0
  /\ client = [c \in Clients |-> Idle]
  /\ puts = <<>> /\ log = <<>> /\ buffer = [i \in 1 .. MaxShapes |-> EmptyBuffer]
  /\ calls = 0

FlightNext ==
  \/ \E c \in Clients :
       \/ \E command \in Commands : AskInfo(c, command)
       \/ \E sql \in {"select", "tables", "blank"} : HandleCreate(c, sql)
       \/ HandleClose(c) \/ DoGet(c) \/ DoGetPlan(c) \/ DoGetEnd(c) \/ Done(c)
       \/ DoPut(c)
       \/ \E ddl \in Ddl : UpdateStart(c, ddl)
       \/ UpdateCreate(c) \/ UpdateLocate(c) \/ UpdateDrop(c) \/ UpdatePurge(c)
       \/ UpdateEnd(c) \/ UpdateTimesOut(c)
  \/ \E h \in DOMAIN store : Forget(h)
  \/ \E p \in DOMAIN puts :
       \/ \E kind \in {"header", "batch", "misfit", "error", "end"} : PutReceive(p, kind)
       \/ PutAppended(p) \/ PutAppendFails(p) \/ HangUp(p)
  \/ \E i \in 1 .. shapes : Drain(i)

FlightSpec == FlightInit /\ [][FlightNext]_flightVars

-----------------------------------------------------------------------------
(* Properties. *)

\* A ticket the service handed out is answered with the schema it announced,
\* which is also what get_schema tells, unless the table has been defined anew
\* since.  It is refused only when the table is gone, the prepared statement
\* closed or forgotten, or when the engine fails or is too slow.
TicketsServe ==
  \A c \in Clients : client[c].ticket # NoTicket =>
       LET s == client[c] IN
       /\ s.pc = "told" /\ (s.told.of = "select" => s.told.at = shape) =>
            GetSchema(s.command) = s.told
       /\ s.pc \in {"streaming", "answered"} =>
            s.got.of = s.told.of /\ (s.got.at = s.told.at \/ shapes > s.told.at)
       /\ s.pc = "failed" =>
            \/ s.got.of \in {"deadline", "engine"}
            \/ s.got.of = "plan" /\ s.told.of = "select" /\ (shape = 0 \/ shapes > s.told.at)
            \/ s.got.of = "not_found" /\ s.ticket.handle \in (1 .. handles) \ DOMAIN store

\* The records of a put stream in the log's order.
RecordsOf(p) == SelectSeq(log, LAMBDA r : r.put = p)

\* A client can count on what it was told: the batches acknowledged are the
\* first ones the stream sent that had a body, each durable and in the table's
\* buffer or flushed, in order; past them at most the one that was under way
\* when the client left is durable.
PutsAccounted ==
  \A p \in DOMAIN puts :
    LET records == RecordsOf(p)
        b == buffer[puts[p].shape]
        kept == SelectSeq(b.flushed \o b.pending, LAMBDA r : r.put = p)
    IN
    /\ \A k \in DOMAIN records : records[k].n = k
    /\ \A k \in 2 .. Len(records) : records[k - 1].gen < records[k].gen
    /\ kept = SubSeq(records, 1, puts[p].acks)
    /\ Len(records) = puts[p].acks \/ (puts[p].pc = "hung" /\ Len(records) = puts[p].acks + 1)
    /\ puts[p].sent = puts[p].acks
         \/ (puts[p].pc \in {"append", "hung", "failed"} /\ puts[p].sent = puts[p].acks + 1)

\* A buffer takes no more than it has room for, and only the batch that is
\* being written, or was when its client left, keeps later ones from a flush.
ReservationsOwned ==
  \A i \in 1 .. MaxShapes :
    /\ Len(buffer[i].pending) + Cardinality(buffer[i].reserved) <= Room
    /\ \A g \in buffer[i].reserved :
         \E p \in DOMAIN puts :
           puts[p].shape = i /\ puts[p].gen = g /\ puts[p].pc \in {"append", "hung"}

\* At some moment of the call there was a table, or there was none.
Existed(s) == s.from.shape # 0 \/ shapes > s.from.shapes
Absent(s) == s.from.shape = 0 \/ shape # s.from.shape

\* A statement that was answered has been applied or, with IF [NOT] EXISTS, may
\* have found things as it wants them; one that is told the table exists or does
\* not was not applied; and each was so at some moment of the call.  A statement
\* that fails otherwise may have been applied: when the catalog's reply was lost,
\* the purge after the drop failed, or the deadline passed.
UpdatesTold ==
  \A c \in Clients : client[c].command \in Ddl =>
    LET s == client[c]
        creates == s.command \in Creates
    IN
    /\ s.pc = "answered" =>
         /\ s.applied = 1 \/ s.command \in Guarded
         /\ IF creates THEN Existed(s) ELSE Absent(s)
    /\ s.pc = "failed" /\ s.got.of \in {"exists", "not_found"} =>
         /\ s.applied = 0 /\ s.command \notin Guarded
         /\ IF creates THEN Existed(s) ELSE Absent(s)
    /\ s.pc = "failed" /\ s.got.of = "purge" => s.command \in Purges /\ Absent(s)

\* What a Flight client is told is so: a ticket is answered as announced, the
\* batches of a put that were acknowledged are in the buffer the stream was opened
\* on, reservations do not pile up, and the answer to a DDL statement agrees with
\* what the catalog did.
FlightAnswersTrue == TicketsServe /\ PutsAccounted /\ ReservationsOwned /\ UpdatesTold
=============================================================================
