----------------------------- MODULE Connections -----------------------------
(***************************************************************************)
(* Accepted connections of the two public listeners: the permit each one   *)
(* holds, its two idle deadlines, and the body of the request it carries.  *)
(*                                                                         *)
(* A connection is wrapped in a LimitedIo, which holds the permit until it *)
(* is dropped.  The server polls reads and writes as it likes; a poll that *)
(* finds its deadline passed fails, and the server then drops the          *)
(* connection, some time later.                                            *)
(***************************************************************************)
EXTENDS Integers, FiniteSets

CONSTANTS
  Conns,          \* bound: connections at a time
  Listeners,
  MaxConnections, \* of each listener
  IdleTimeout,    \* in ticks
  MaxBody,        \* max_body_bytes
  MaxFrame        \* bound: bytes of a frame

ASSUME ConnectionsAssumption ==
  /\ IsFiniteSet(Conns)
  /\ MaxConnections \in [Listeners -> Nat \ {0}]
  /\ IdleTimeout \in Nat \ {0} /\ MaxBody \in Nat /\ MaxFrame \in Nat

VARIABLES
  conn,       \* the connections
  permits,    \* the semaphore of each listener
  active      \* the gauge of active connections of each listener

connVars == <<conn, permits, active>>

Unknown == MaxBody + MaxFrame + 1
Closed == [pc |-> "none"]
NoBody == [pc |-> "none", declared |-> Unknown, got |-> 0, seen |-> 0, recorded |-> 0]

\* LimitedIo::new: both deadlines start now.  `silent' counts the ticks since
\* bytes last moved.
LimitedIo(l) ==
  [pc |-> "open", at |-> l, read |-> IdleTimeout, write |-> IdleTimeout, silent |-> 0,
   body |-> NoBody]

Live(c) == conn[c].pc # "none"
Open(c) == conn[c].pc = "open"
OfListener(l) == {c \in Conns : Live(c) /\ conn[c].at = l}

\* accept: without a permit the stream is dropped, which is over at once.
Accept(c, l) ==
  /\ ~Live(c) /\ permits[l] > 0
  /\ conn' = [conn EXCEPT ![c] = LimitedIo(l)]
  /\ permits' = [permits EXCEPT ![l] = @ - 1]
  /\ active' = [active EXCEPT ![l] = @ + 1]

\* Mutation: a direction that moves bytes restarts its own deadline only.
Progress_OneWay(io, way) ==
  IF way = "read" THEN [io EXCEPT !.read = IdleTimeout, !.silent = 0]
  ELSE [io EXCEPT !.write = IdleTimeout, !.silent = 0]

\* Bytes moved, whichever way: both deadlines start again.
Progress(io, way) == [io EXCEPT !.read = IdleTimeout, !.write = IdleTimeout, !.silent = 0]

\* poll_write with bytes written.  A poll that moves nothing changes nothing.
PollWrite(c) ==
  /\ Open(c) /\ conn[c].write > 0
  /\ conn' = [conn EXCEPT ![c] = Progress(@, "write")]
  /\ UNCHANGED <<permits, active>>

\* A poll of a direction whose deadline has passed: it fails before it looks for
\* bytes.
PollExpired(c) ==
  /\ Open(c) /\ (conn[c].read = 0 \/ conn[c].write = 0)
  /\ conn' = [conn EXCEPT ![c].pc = "cut"]
  /\ UNCHANGED <<permits, active>>

\* The peer closes, or the server is done with the connection.
Close(c) ==
  /\ Open(c)
  /\ conn' = [conn EXCEPT ![c].pc = "closing"]
  /\ UNCHANGED <<permits, active>>

\* LimitedIo is dropped, and the permit and the guard with it.
Drop(c) ==
  /\ conn[c].pc \in {"cut", "closing"}
  /\ conn' = [conn EXCEPT ![c] = Closed]
  /\ permits' = [permits EXCEPT ![conn[c].at] = @ + 1]
  /\ active' = [active EXCEPT ![conn[c].at] = @ - 1]

Down(n) == IF n = 0 THEN 0 ELSE n - 1

Elapse ==
  /\ \E c \in Conns : Open(c)
  /\ conn' = [c \in Conns |->
       IF Open(c) THEN [conn[c] EXCEPT !.read = Down(@), !.write = Down(@),
                                       !.silent = IF @ < IdleTimeout THEN @ + 1 ELSE @]
       ELSE conn[c]]
  /\ UNCHANGED <<permits, active>>

-----------------------------------------------------------------------------
(* The body of a REST request. *)

\* A read that brings something.
Arrives(c) == Open(c) /\ conn[c].at = "rest" /\ conn[c].read > 0
Reads(c, body) == conn' = [conn EXCEPT ![c] = [Progress(@, "read") EXCEPT !.body = body]]

\* The head of a request: one that declares too much never reaches its handler.
RequestHead(c, declared) ==
  /\ Arrives(c) /\ conn[c].body.pc \in {"none", "done", "refused"}
  /\ Reads(c, IF declared # Unknown /\ declared > MaxBody
              THEN [NoBody EXCEPT !.pc = "refused", !.declared = declared, !.recorded = 1]
              ELSE [NoBody EXCEPT !.pc = "reading", !.declared = declared])
  /\ UNCHANGED <<permits, active>>

\* A frame of the body: the handler sees it, or the error that takes the place
\* of the frame that goes past the limit.
Frame(c, n) ==
  LET b == conn[c].body IN
  /\ Arrives(c) /\ b.pc = "reading"
  /\ b.declared # Unknown => b.got + n <= b.declared
  /\ IF b.got + n > MaxBody
     THEN Reads(c, [b EXCEPT !.pc = "refused", !.got = @ + n, !.recorded = @ + 1])
     ELSE Reads(c, [b EXCEPT !.got = @ + n, !.seen = @ + n])
  /\ UNCHANGED <<permits, active>>

\* The body is complete.
EndOfBody(c) ==
  LET b == conn[c].body IN
  /\ Arrives(c) /\ b.pc = "reading" /\ b.declared \in {Unknown, b.got}
  /\ Reads(c, [b EXCEPT !.pc = "done"])
  /\ UNCHANGED <<permits, active>>

\* A Flight message is limited elsewhere: here it is bytes.
FlightRead(c) ==
  /\ Open(c) /\ conn[c].at # "rest" /\ conn[c].read > 0
  /\ conn' = [conn EXCEPT ![c] = Progress(@, "read")]
  /\ UNCHANGED <<permits, active>>

-----------------------------------------------------------------------------

ConnectionsInit ==
  /\ conn = [c \in Conns |-> Closed]
  /\ permits = MaxConnections
  /\ active = [l \in Listeners |-> 0]

ConnectionsNext ==
  \/ \E c \in Conns :
       \/ \E l \in Listeners : Accept(c, l)
       \/ PollWrite(c) \/ PollExpired(c) \/ Close(c) \/ Drop(c)
       \/ \E n \in 0 .. MaxBody + 1 : RequestHead(c, n)
       \/ RequestHead(c, Unknown)
       \/ \E n \in 1 .. MaxFrame : Frame(c, n)
       \/ EndOfBody(c) \/ FlightRead(c)
  \/ Elapse

ConnectionsSpec == ConnectionsInit /\ [][ConnectionsNext]_connVars

-----------------------------------------------------------------------------
(* Properties. *)

\* Every permit is in its semaphore or held by one connection of that listener,
\* one that is being torn down included, and the gauge counts the holders: a
\* connection that times out, breaks or is closed gives its permit back once.
PermitsConserved ==
  \A l \in Listeners :
    /\ permits[l] + Cardinality(OfListener(l)) = MaxConnections[l]
    /\ active[l] = Cardinality(OfListener(l))

\* A connection is cut only after bytes moved in neither direction for the whole
\* idle timeout: a long download is not cut because nothing is read.
CutOnlyWhenSilent ==
  \A c \in Conns : conn[c].pc = "cut" => conn[c].silent >= IdleTimeout

\* A handler never sees more bytes of a body than the limit, declared or not,
\* sees every byte of a body within it, and each refused body is recorded once.
BodiesBounded ==
  \A c \in Conns : Live(c) =>
    LET b == conn[c].body IN
    /\ b.seen <= MaxBody
    /\ b.pc = "done" => b.seen = b.got /\ b.got <= MaxBody /\ b.recorded = 0
    /\ b.pc = "refused" <=> b.recorded = 1
    /\ b.pc = "refused" => b.got > MaxBody \/ (b.declared # Unknown /\ b.declared > MaxBody)

\* A listener's connections: permits are conserved, an active connection is not
\* cut, and a handler sees a whole body within the limit or a refusal.
ConnectionsSound == PermitsConserved /\ CutOnlyWhenSilent /\ BodiesBounded
=============================================================================
