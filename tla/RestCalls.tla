------------------------------ MODULE RestCalls ------------------------------
(***************************************************************************)
(* Calls of the REST API through the client library, which sends a request *)
(* again when the exchange fails or the answer looks transient.            *)
(*                                                                         *)
(* A caller's call is a sequence of attempts.  A request may be lost, late *)
(* or answered to nobody; its handler may be dropped at an await, because  *)
(* the client has gone or the request deadline has passed.  The node stays *)
(* up.  Time is not modelled: every time-out may occur at any moment.      *)
(* The library's own ingest sends no key; a keyed call is that of a caller *)
(* who posts a body with a key through the same resilient client.          *)
(***************************************************************************)
EXTENDS Integers, Sequences, FiniteSets

CONSTANT
  Scripts        \* sequences of [op, keyed, retries]: the calls made, each by a caller of
                 \* its own with its HttpClientConfig::max_retries

VARIABLES
  script,     \* one of Scripts
  calls,      \* its calls that have begun
  wire,       \* requests on their way to the node: <<call, attempt>>
  running,    \* ingests between their reservation and the end of their append
  landed,     \* durable batches: [call, gen, at], at "log" only, in the "buffer", in a
              \* flush ("flight"), or in the "table" for all the node knows
  intent,     \* TableFlushState: "idle", "prepared" or "blocked"
  held,       \* reserved generations
  generation, \* generations given out
  space,      \* the call that made the namespace, 0 while there is none
  table       \* and the table

tables == <<space, table>>
buffers == <<running, landed, intent, held, generation>>
restVars == <<script, calls, wire, buffers, tables>>

-----------------------------------------------------------------------------
(* Errors and what they become. *)

Broken == {"Parquet", "Arrow", "DataFusion", "QueryExecution", "Catalog", "Iceberg", "Wal",
           "Internal", "MetadataCorruption", "ExternalFatal"}
Passing == {"Conflict", "CommitStateUnknown", "FlushBlocked", "RateLimited", "Backpressure",
            "Unavailable", "ObjectStore", "ExternalRetryable"}

IsRetryable(e) == e \in Passing

HttpStatus(e) ==
  CASE e \in {"InvalidArgument", "Config"} -> 400
    [] e = "Unauthorized" -> 401
    [] e = "Forbidden" -> 403
    [] e = "NotFound" -> 404
    [] e \in {"AlreadyExists", "Conflict", "StaleWriterEpoch", "WriterRegistryFull",
              "TableIncarnationMismatch", "WriteProtocol"} -> 409
    [] e = "ResultTooLarge" -> 413
    [] e = "RateLimited" -> 429
    [] e \in Broken -> 500
    [] OTHER -> 503

GrpcCode(e) ==
  CASE e \in {"InvalidArgument", "Config"} -> "InvalidArgument"
    [] e = "Unauthorized" -> "Unauthenticated"
    [] e = "Forbidden" -> "PermissionDenied"
    [] e = "NotFound" -> "NotFound"
    [] e = "AlreadyExists" -> "AlreadyExists"
    [] e = "Conflict" -> "Aborted"
    [] e \in {"StaleWriterEpoch", "WriterRegistryFull", "TableIncarnationMismatch",
              "WriteProtocol"} -> "FailedPrecondition"
    [] e \in {"RateLimited", "Backpressure", "ResultTooLarge"} -> "ResourceExhausted"
    [] e \in Broken -> "Internal"
    [] OTHER -> "Unavailable"

\* retry_after_ms: only the rate limiter knows when to come back.
RetryAfter(e) == e = "RateLimited"

\* The tonic status of an error.
FlightStatus(e) == [code |-> GrpcCode(e), after |-> RetryAfter(e)]

\* A REST answer: without problem details, or the problem details of an error.
Answer(status) == [status |-> status, code |-> "none", retryable |-> FALSE, after |-> FALSE]
Problem(e) ==
  [status |-> HttpStatus(e), code |-> e, retryable |-> IsRetryable(e), after |-> RetryAfter(e)]
\* The deadline of the request as a whole is no problem of a handler.
RequestTimeout == Answer(408)
NoAnswer == Answer(0)

\* RetryTransientMiddleware: how it takes a response.
RetryStatus(status) ==
  IF status \in 200 .. 299 THEN "success"
  ELSE IF status >= 500 \/ status \in {408, 429} THEN "transient"
  ELSE "fatal"

-----------------------------------------------------------------------------
(* The client. *)

Told == {i \in DOMAIN calls : calls[i].pc = "told"}
Accepted == {i \in Told : calls[i].op = "ingest" /\ calls[i].told = "ok"}
Pending == {b \in landed : b.at = "buffer"}
InFlight == {b \in landed : b.at = "flight"}
Generations(batches) == {b.gen : b \in batches}
NoFlush == [flight |-> {}, held |-> {}]

\* `owed': the accepted generations in the buffer when a flush is called for;
\* `met': those in flight and those reserved when the one that was answered ran.
NewCall(c) ==
  [op |-> c.op, keyed |-> c.keyed, retries |-> c.retries, pc |-> "send", n |-> 1,
   answer |-> NoAnswer, told |-> "none", doubt |-> FALSE, claim |-> "none", met |-> NoFlush,
   owed |-> Generations({b \in Pending \cup InFlight : c.op = "flush" /\ b.call \in Accepted})]

Call ==
  /\ Len(calls) < Len(script)
  /\ calls' = Append(calls, NewCall(script[Len(calls) + 1]))
  /\ UNCHANGED <<script, wire, buffers, tables>>

Send(i) ==
  /\ calls[i].pc = "send"
  /\ calls' = [calls EXCEPT ![i].pc = "wait"]
  /\ wire' = wire \cup {<<i, calls[i].n>>}
  /\ UNCHANGED <<script, buffers, tables>>

\* The attempt is over without a usable answer: another one, while the budget
\* lasts, or the caller learns what happened.  `doubt': some attempt may have
\* had its effect for all the client knows.
EndAttempt(i, transient, told, doubt) ==
  calls' = [calls EXCEPT ![i] =
    IF transient /\ @.n <= @.retries
    THEN [@ EXCEPT !.pc = "send", !.n = @ + 1, !.answer = NoAnswer, !.doubt = @ \/ doubt]
    ELSE [@ EXCEPT !.pc = "told", !.told = told, !.doubt = @ \/ doubt]]

\* No connection, or no answer in time, or the connection breaks.  What was sent
\* may still arrive, and be answered to nobody.
Break(i) ==
  /\ \/ calls[i].pc = "send" /\ UNCHANGED wire
     \/ calls[i].pc = "wait" /\ wire' \in {wire, wire \ {<<i, calls[i].n>>}}
  /\ \E transient \in BOOLEAN :
       EndAttempt(i, transient, "transport", calls[i].pc # "send")
  /\ UNCHANGED <<script, buffers, tables>>

\* The status decides; only a success is read further, and a body that cannot be
\* read then is an error that nobody retries.
Receive(i) ==
  LET status == calls[i].answer.status  verdict == RetryStatus(status) IN
  /\ calls[i].pc = "answered"
  /\ \/ verdict = "success" /\ EndAttempt(i, FALSE, "ok", FALSE)
     \/ verdict = "success" /\ EndAttempt(i, FALSE, "unread", TRUE)
     \/ verdict # "success"
        /\ EndAttempt(i, verdict = "transient", "server", status >= 500 \/ status = 408)
  /\ UNCHANGED <<script, wire, buffers, tables>>

-----------------------------------------------------------------------------
(* The node. *)

\* The client still waits for this attempt.
Listening(m) == calls[m[1]].pc = "wait" /\ calls[m[1]].n = m[2]

Answered(cs, m, answer) ==
  IF Listening(m) THEN [cs EXCEPT ![m[1]].pc = "answered", ![m[1]].answer = answer] ELSE cs
Respond(m, answer) == calls' = Answered(calls, m, answer)

\* What may be said before anything is changed: by the layers around the
\* handlers or by the checks at a handler's start.
Refusals(op) ==
  {"RateLimited", "InvalidArgument"} \cup
  CASE op = "read" -> {"Unauthorized", "Forbidden", "NotFound", "Conflict", "ResultTooLarge",
                       "Unavailable", "ObjectStore", "ExternalRetryable"} \cup (Broken \ {"Wal"})
    [] OTHER -> {}

Refuse(m, e) ==
  /\ wire' = wire \ {m}
  /\ Respond(m, Problem(e))
  /\ UNCHANGED <<script, buffers, tables>>

Read(m) ==
  /\ calls[m[1]].op = "read"
  /\ wire' = wire \ {m}
  /\ \E answer \in {Answer(200), RequestTimeout} : Respond(m, answer)
  /\ UNCHANGED <<script, buffers, tables>>

\* create_namespace.  The catalog's own reply may be lost.
Create(m) ==
  /\ calls[m[1]].op = "create"
  /\ wire' = wire \ {m}
  /\ \/ space # 0 /\ Respond(m, Problem("AlreadyExists")) /\ UNCHANGED space
     \/ space = 0 /\ space' = m[1]
        /\ \E answer \in {Answer(201), Problem("Catalog"), RequestTimeout} : Respond(m, answer)
     \/ \E answer \in {Problem("Catalog"), RequestTimeout} : Respond(m, answer) /\ UNCHANGED space
  /\ UNCHANGED <<script, buffers, table>>

\* auto_create_table, when there is no table; it takes what others made meanwhile.
AutoCreate(m) ==
  /\ table' = IF table = 0 THEN m[1] ELSE table
  /\ space' = IF table = 0 /\ space = 0 THEN m[1] ELSE space

\* The catalog fails at the namespace or at the table, or its reply is lost.
IngestNoTable(m) ==
  /\ calls[m[1]].op = "ingest" /\ table = 0
  /\ wire' = wire \ {m}
  /\ \/ AutoCreate(m)
     \/ space' \in {space, IF space = 0 THEN m[1] ELSE space} /\ UNCHANGED table
  /\ \E answer \in {Problem("Catalog"), RequestTimeout} : Respond(m, answer)
  /\ UNCHANGED <<script, buffers>>

\* Mutation: a key another request holds counts as landed.
IngestStart_BusyIsDone(m) ==
  LET c == calls[m[1]] IN
  /\ c.op = "ingest"
  /\ wire' = wire \ {m}
  /\ AutoCreate(m)
  /\ \/ /\ \/ c.keyed /\ c.claim # "none" /\ Respond(m, Answer(200))
           \/ Respond(m, Problem("InvalidArgument"))
        /\ UNCHANGED <<running, held, generation>>
     \/ /\ c.keyed => c.claim = "none"
        /\ Respond(m, Problem("Backpressure"))
        /\ UNCHANGED <<running, held, generation>>
     \/ /\ c.keyed => c.claim = "none"
        /\ generation' = generation + 1 /\ held' = held \cup {generation + 1}
        /\ running' = running \cup {[m |-> m, gen |-> generation + 1]}
        /\ calls' = [calls EXCEPT ![m[1]].claim = IF c.keyed THEN "busy" ELSE "none"]
  /\ UNCHANGED <<script, landed, intent>>

\* The table is there or made from the rows' schema, which they may not fit all
\* the same; the key is claimed and a generation reserved; then the append is
\* awaited.
IngestStart(m) ==
  LET c == calls[m[1]] IN
  /\ c.op = "ingest"
  /\ wire' = wire \ {m}
  /\ AutoCreate(m)
  /\ \/ /\ \/ c.keyed /\ c.claim = "busy" /\ Respond(m, Problem("Conflict"))
           \/ c.keyed /\ c.claim = "done" /\ Respond(m, Answer(200))
           \/ Respond(m, Problem("InvalidArgument"))
        /\ UNCHANGED <<running, held, generation>>
     \/ /\ c.keyed => c.claim = "none"
        /\ Respond(m, Problem("Backpressure"))
        /\ UNCHANGED <<running, held, generation>>
     \/ /\ c.keyed => c.claim = "none"
        /\ generation' = generation + 1 /\ held' = held \cup {generation + 1}
        /\ running' = running \cup {[m |-> m, gen |-> generation + 1]}
        /\ calls' = [calls EXCEPT ![m[1]].claim = IF c.keyed THEN "busy" ELSE "none"]
  /\ UNCHANGED <<script, landed, intent>>

Batch(r, at) == [call |-> r.m[1], gen |-> r.gen, at |-> at]
Claimed(r, claim) ==
  [calls EXCEPT ![r.m[1]].claim = IF calls[r.m[1]].keyed THEN claim ELSE "none"]

IngestDone(r) ==
  /\ running' = running \ {r} /\ held' = held \ {r.gen}
  /\ landed' = landed \cup {Batch(r, "buffer")}
  /\ calls' = Answered(Claimed(r, "done"), r.m, Answer(202))
  /\ UNCHANGED <<script, wire, intent, generation, tables>>

\* The append fails; the record may be in the log all the same.
IngestFails(r) ==
  /\ running' = running \ {r} /\ held' = held \ {r.gen}
  /\ landed' \in {landed, landed \cup {Batch(r, "log")}}
  /\ calls' = Answered(Claimed(r, "none"), r.m, Problem("Wal"))
  /\ UNCHANGED <<script, wire, intent, generation, tables>>

\* The handler is dropped at its await, by the deadline or because nobody
\* listens: claim and reservation stay.
IngestDropped(r) ==
  /\ running' = running \ {r}
  /\ landed' \in {landed, landed \cup {Batch(r, "log")}}
  /\ Respond(r.m, RequestTimeout)
  /\ UNCHANGED <<script, wire, intent, held, generation, tables>>

\* drain_pending_to_in_flight: what is in flight already, and nothing else, or
\* the pending batches below every reservation.
Taken == IF InFlight # {} THEN InFlight ELSE {b \in Pending : \A g \in held : b.gen < g}

\* What a flush does with the batches it has taken, and answers.
Outcome(at, state, answer) ==
  [landed |-> (landed \ Taken) \cup {[b EXCEPT !.at = at] : b \in Taken},
   intent |-> state, answer |-> answer]

\* commit_flush, with the status checks of resolve_unknown: published; kept as it
\* is; given back to the buffer; or blocked.
CommitOutcomes ==
  {Outcome("table", "idle", Answer(200))}
    \cup {Outcome("flight", IF intent = "idle" THEN "prepared" ELSE intent, Problem(e)) :
            e \in {"ExternalRetryable", "Wal"}}
    \cup {Outcome("buffer", "idle", Problem(e)) : e \in {"StaleWriterEpoch", "Conflict"}}
    \cup {Outcome("flight", "blocked", Problem(e)) : e \in {"WriterRegistryFull", "FlushBlocked"}}

\* flush_once: an intent that was kept is committed as it is; before there is one,
\* the data files are written, and a failure gives the batches back.
FlushOutcomes ==
  IF intent = "blocked" THEN {[landed |-> landed, intent |-> intent, answer |-> Problem("FlushBlocked")]}
  ELSE IF Taken = {} THEN {[landed |-> landed, intent |-> intent, answer |-> Answer(200)]}
  ELSE CommitOutcomes \cup
       IF intent = "idle" THEN {Outcome("buffer", "idle", Problem("ObjectStore"))} ELSE {}

\* The flush is dropped at an await, with its batches in flight.
FlushDropped ==
  {[landed |-> landed, intent |-> intent, answer |-> RequestTimeout]} \cup
  IF intent = "blocked" \/ Taken = {} THEN {}
  ELSE {Outcome("flight", state, RequestTimeout) :
          state \in IF intent = "idle" THEN {"idle", "prepared"} ELSE {intent}}

\* flush_table for a caller.
FlushTable(m) ==
  /\ calls[m[1]].op = "flush"
  /\ wire' = wire \ {m}
  /\ \/ /\ table = 0 /\ Respond(m, Problem("NotFound"))
        /\ UNCHANGED <<landed, intent>>
     \/ /\ table # 0
        /\ \E o \in FlushOutcomes \cup FlushDropped :
             /\ landed' = o.landed /\ intent' = o.intent
             /\ calls' = IF Listening(m)
                         THEN [Answered(calls, m, o.answer) EXCEPT ![m[1]].met =
                                [flight |-> Generations(InFlight), held |-> held]]
                         ELSE calls
  /\ UNCHANGED <<script, running, held, generation, tables>>

\* flush_all_tables: the loop's flush, or the check again of a blocked table.
FlushTick ==
  /\ \E o \in IF intent = "blocked" THEN CommitOutcomes ELSE FlushOutcomes :
       landed' = o.landed /\ intent' = o.intent
  /\ UNCHANGED <<script, calls, wire, running, held, generation, tables>>

-----------------------------------------------------------------------------

RestInit ==
  /\ script \in Scripts /\ calls = <<>> /\ wire = {} /\ running = {} /\ landed = {} /\ held = {}
  /\ generation = 0 /\ intent = "idle" /\ space = 0 /\ table = 0

RestNext ==
  \/ Call
  \/ \E i \in DOMAIN calls : Send(i) \/ Break(i) \/ Receive(i)
  \/ \E m \in wire :
       \/ \E e \in Refusals(calls[m[1]].op) : Refuse(m, e)
       \/ Read(m) \/ Create(m) \/ IngestNoTable(m) \/ IngestStart(m) \/ FlushTable(m)
  \/ \E r \in running : IngestDone(r) \/ IngestFails(r) \/ IngestDropped(r)
  \/ FlushTick

RestSpec == RestInit /\ [][RestNext]_restVars

-----------------------------------------------------------------------------
(* Properties. *)

Copies(i) == Cardinality({b \in landed : b.call = i})

\* A caller told that its rows were accepted has them in the buffer or in the
\* table.  With a key they are there once whatever was retried; without one they
\* may be there as often as the client tried, but more than once only after an
\* attempt whose outcome the client could not know.
AcceptedLanded ==
  \A i \in DOMAIN calls : calls[i].op = "ingest" =>
    /\ i \in Accepted => \E b \in landed : b.call = i /\ b.at # "log"
    /\ Copies(i) <= calls[i].n
    /\ Copies(i) > 1 => calls[i].doubt
    /\ calls[i].keyed /\ Copies(i) > 1 =>
         Cardinality({b \in landed : b.call = i /\ b.at # "log"}) <= 1

\* A caller whose call was refused, with no attempt before whose outcome was
\* open, has left no rows behind, and no namespace it asked for; an ingest may have left
\* the table it made for its rows.
RefusalsTrue ==
  \A i \in Told : calls[i].told = "server" /\ ~calls[i].doubt =>
    Copies(i) = 0 /\ (space = i => calls[i].op = "ingest" /\ table = i)

\* Who hears that it created the namespace did, and who hears that the namespace
\* was there already can use it, whichever attempts were lost or came late.
CreateTold ==
  \A i \in Told : calls[i].op = "create" =>
    /\ calls[i].told = "ok" => space = i
    /\ calls[i].answer.code = "AlreadyExists" => space # 0

\* A flush that was answered has published what it found in flight.  If it found
\* nothing there, it leaves in the buffer none of the batches that were accepted
\* when it was called for, unless an older generation was reserved; a flush that
\* resumed an intent promises nothing of the others.
FlushedBefore ==
  \A i \in Told : calls[i].op = "flush" /\ calls[i].told = "ok" =>
    LET met == calls[i].met IN
    \A b \in landed :
      \/ b.at = "table"
      \/ /\ b.gen \notin met.flight
         /\ b.gen \in calls[i].owed => met.flight # {} \/ \E g \in met.held : g < b.gen

\* Flight would say the same of the error behind an answer: gRPC's codes for a
\* passing condition stand for what the problem details call retryable, and for
\* results that are too large; 429 and 503 are said of nothing else, and 500 of
\* what is internal to both.
SameVerdict ==
  \A i \in DOMAIN calls : LET answer == calls[i].answer IN
    answer.code # "none" =>
      /\ FlightStatus(answer.code).after = answer.after
      /\ GrpcCode(answer.code) \in {"Unavailable", "Aborted", "ResourceExhausted"} <=>
           answer.retryable \/ answer.code = "ResultTooLarge"
      /\ answer.status \in {429, 503} => answer.retryable
      /\ answer.status = 500 <=> GrpcCode(answer.code) = "Internal"

\* What a caller is told is so, whatever was lost, late or tried again: rows that
\* were accepted are there, a refusal left no rows behind, the namespace and the
\* flush are as the answer says, and Flight would judge the error the same way.
AnswersTrue == AcceptedLanded /\ RefusalsTrue /\ CreateTold /\ FlushedBefore /\ SameVerdict
=============================================================================
