------------------------------ MODULE Admission ------------------------------
(***************************************************************************)
(* What a request passes before a handler runs, on both listeners:         *)
(*                                                                         *)
(*   the node-wide ceiling   tower's concurrency limit with load shedding  *)
(*                           for REST, FlightConcurrencyLayer for Flight   *)
(*   the rate window         RateRegistry: a fixed window per key, a       *)
(*                           bounded map of keys, stripes for the rest     *)
(*   the principal's permits PrincipalRegistry: weak semaphores in a map   *)
(*                           of the same size, the same kind of stripes    *)
(*                                                                         *)
(* and how long it holds them: a streamed body keeps its permits until it  *)
(* ends or is dropped, except for REST's node-wide one.  An action is the  *)
(* code between two points where another thread can run.                   *)
(***************************************************************************)
EXTENDS Integers, Sequences, FiniteSets

CONSTANTS
  Requests,      \* request identities
  Principals,    \* authenticated subjects
  Nobody,        \* no principal yet
  Stripe,        \* [Principals -> Nat]: stable_index of the key
  MaxRest, MaxFlight,   \* max_http_in_flight_requests, max_flight_in_flight_requests
  Permits,       \* max_concurrent_operations_per_principal
  MaxKeys,       \* max_rate_limit_keys
  Window,        \* rate_limit_window
  Limit,         \* [{"read", "write"} -> Nat]
  MaxTime        \* bound on the clock

ASSUME AdmissionConstants ==
  /\ IsFiniteSet(Requests) /\ IsFiniteSet(Principals)
  /\ Stripe \in [Principals -> Nat] /\ Limit \in [{"read", "write"} -> Nat \ {0}]
  /\ MaxRest \in Nat /\ MaxFlight \in Nat /\ Permits \in Nat \ {0}
  /\ MaxKeys \in Nat /\ Window \in Nat \ {0} /\ MaxTime \in Nat

VARIABLES
  now,
  req,       \* request -> where it is and what it holds
  avail,     \* permits left at the node-wide ceilings
  windows,   \* RateRegistry.windows: principal -> window, NoWindow
  overflow,  \* RateRegistry.overflow: stripe -> window
  entries,   \* PrincipalRegistry.entries: principal -> its semaphore's number
  made,      \* semaphores made so far, for their identity
  admits,    \* history: the times a principal's requests passed the rate check
  spilled    \* history: principals a stripe has counted or carried

rateVars == <<windows, overflow, admits>>
vars == <<now, req, avail, rateVars, entries, made, spilled>>

NoWindow == [started |-> -1, count |-> 0]
NoSem == [kind |-> "none", id |-> 0]
Own(n) == [kind |-> "own", id |-> n]
Shared(k) == [kind |-> "stripe", id |-> k]
Stripes == {Stripe[p] : p \in Principals}
Unborn == [pc |-> "unborn", by |-> Nobody, via |-> "rest",
           scope |-> "read", sem |-> NoSem, permit |-> FALSE, ceiling |-> FALSE]

-----------------------------------------------------------------------------
(* The node-wide ceiling. *)

Ceiling == [rest |-> MaxRest, flight |-> MaxFlight]

Arrive(r, p, via, scope) ==
  /\ req[r].pc = "unborn"
  /\ IF avail[via] = 0
     THEN req' = [req EXCEPT ![r].pc = "refused"] /\ UNCHANGED avail
     ELSE /\ avail' = [avail EXCEPT ![via] = @ - 1]
          /\ req' = [req EXCEPT ![r] = [Unborn EXCEPT !.pc = "rate", !.by = p, !.via = via,
                                                      !.scope = scope, !.ceiling = TRUE]]
  /\ UNCHANGED <<now, rateVars, entries, made, spilled>>

-----------------------------------------------------------------------------
(* RateRegistry::check. *)

InWindow(w) == w # NoWindow /\ now - w.started < Window

\* check_window: an elapsed window starts over; a full one refuses.
Counted(w) == IF now - w.started >= Window THEN [started |-> now, count |-> 0] ELSE w
Hit(w) == [Counted(w) EXCEPT !.count = @ + 1]

Full(w, scope) == Counted(w).count >= Limit[scope]

\* windows.retain drops the elapsed ones before the lookup.
Retained == [p \in Principals |-> IF InWindow(windows[p]) THEN windows[p] ELSE NoWindow]
Tracked(ws) == Cardinality({p \in Principals : ws[p] # NoWindow})

\* A tracked key uses its window, a new one opens a window while the map has
\* room, any other shares its stripe's.
CheckRate(r) ==
  LET p == req[r].by  k == Stripe[p]  s == req[r].scope
      refuse == /\ req' = [req EXCEPT ![r].pc = "refused", ![r].ceiling = FALSE]
                /\ avail' = [avail EXCEPT ![req[r].via] = @ + 1]
                /\ UNCHANGED admits
      admit == /\ req' = [req EXCEPT ![r].pc = "lookup"]
               /\ admits' = [admits EXCEPT ![p] = Append(@, now)]
               /\ UNCHANGED avail
  IN
  /\ req[r].pc = "rate"
  /\ \/ /\ Retained[p] # NoWindow
        /\ IF Full(Retained[p], s) THEN refuse /\ windows' = Retained
           ELSE admit /\ windows' = [Retained EXCEPT ![p] = Hit(@)]
        /\ UNCHANGED <<overflow, spilled>>
     \/ /\ Retained[p] = NoWindow /\ Tracked(Retained) < MaxKeys
        /\ admit /\ windows' = [Retained EXCEPT ![p] = [started |-> now, count |-> 1]]
        /\ UNCHANGED <<overflow, spilled>>
     \/ /\ Retained[p] = NoWindow /\ Tracked(Retained) >= MaxKeys
        /\ windows' = Retained /\ spilled' = spilled \cup {p}
        /\ IF Full(overflow[k], s)
           THEN refuse /\ overflow' = [overflow EXCEPT ![k] = Counted(@)]
           ELSE admit /\ overflow' = [overflow EXCEPT ![k] = Hit(@)]
  /\ UNCHANGED <<now, entries, made>>

-----------------------------------------------------------------------------
(* PrincipalRegistry::acquire. *)

\* A semaphore lives while a request refers to it or holds its permit.
Alive(n) == n # 0 /\ \E r \in Requests : req[r].sem = Own(n)
Taken(sem) == Cardinality({r \in Requests : req[r].sem = sem /\ req[r].permit})

\* Mutation: the sweep drops entries that are still in use.
Swept_All == [p \in Principals |-> 0]

\* entries.retain: the dead entries go.
Swept == [p \in Principals |-> IF Alive(entries[p]) THEN entries[p] ELSE 0]

\* Under the registry's mutex: the living semaphore, a new one, or the stripe.
FindSemaphore(r) ==
  LET p == req[r].by  room == Cardinality({q \in Principals : Swept[q] # 0}) < MaxKeys IN
  /\ req[r].pc = "lookup"
  /\ \/ /\ Alive(entries[p])
        /\ req' = [req EXCEPT ![r].pc = "acquire", ![r].sem = Own(entries[p])]
        /\ UNCHANGED <<entries, made, spilled>>
     \/ /\ ~Alive(entries[p]) /\ room
        /\ made' = made + 1 /\ entries' = [Swept EXCEPT ![p] = made + 1]
        /\ req' = [req EXCEPT ![r].pc = "acquire", ![r].sem = Own(made + 1)]
        /\ UNCHANGED spilled
     \/ /\ ~Alive(entries[p]) /\ ~room
        /\ entries' = Swept /\ spilled' = spilled \cup {p} /\ UNCHANGED made
        /\ req' = [req EXCEPT ![r].pc = "acquire", ![r].sem = Shared(Stripe[p])]
  /\ UNCHANGED <<now, avail, rateVars>>

\* try_acquire_owned, after the mutex.
AcquirePermit(r) ==
  /\ req[r].pc = "acquire"
  /\ IF Taken(req[r].sem) < Permits
     THEN req' = [req EXCEPT ![r].pc = "handling", ![r].permit = TRUE] /\ UNCHANGED avail
     ELSE /\ req' = [req EXCEPT ![r].pc = "refused", ![r].sem = NoSem, ![r].ceiling = FALSE]
          /\ avail' = [avail EXCEPT ![req[r].via] = @ + 1]
  /\ UNCHANGED <<now, rateVars, entries, made, spilled>>

\* Mutation: Flight's node-wide permit goes with the headers, not the body.
Respond_DropsCeiling(r) ==
  /\ req[r].pc = "handling"
  /\ req' = [req EXCEPT ![r].pc = "streaming", ![r].ceiling = FALSE]
  /\ avail' = [avail EXCEPT ![req[r].via] = @ + 1]
  /\ UNCHANGED <<now, rateVars, entries, made, spilled>>

\* The response's head is out.  REST's node-wide permit is the future's, and
\* ends here; Flight's moves into the body.  A Flight request is one that streams: a
\* unary one gives its principal's permit up with the head (hold_unary_permit).
Respond(r) ==
  /\ req[r].pc = "handling"
  /\ req' = [req EXCEPT ![r].pc = "streaming", ![r].ceiling = (req[r].via = "flight")]
  /\ avail' = IF req[r].via = "rest" THEN [avail EXCEPT !.rest = @ + 1] ELSE avail
  /\ UNCHANGED <<now, rateVars, entries, made, spilled>>

\* Everything the request holds goes with it.
Release(r) ==
  /\ req' = [req EXCEPT ![r] = [Unborn EXCEPT !.pc = "gone"]]
  /\ avail' = IF req[r].ceiling THEN [avail EXCEPT ![req[r].via] = @ + 1] ELSE avail
  /\ UNCHANGED <<now, rateVars, entries, made, spilled>>

\* The body ended, or was dropped with its connection.
Finish(r) == req[r].pc = "streaming" /\ Release(r)

\* The connection went away before the response.
Hangup(r) == req[r].pc \in {"rate", "lookup", "acquire", "handling"} /\ Release(r)

Tick ==
  /\ now < MaxTime /\ now' = now + 1
  /\ UNCHANGED <<req, avail, rateVars, entries, made, spilled>>

Init ==
  /\ now = 0 /\ req = [r \in Requests |-> Unborn] /\ avail = Ceiling
  /\ windows = [p \in Principals |-> NoWindow]
  /\ overflow = [k \in Stripes |-> [started |-> 0, count |-> 0]]
  /\ entries = [p \in Principals |-> 0] /\ made = 0
  /\ admits = [p \in Principals |-> <<>>] /\ spilled = {}

Next ==
  \/ Tick
  \/ \E r \in Requests :
       \/ CheckRate(r) \/ FindSemaphore(r) \/ AcquirePermit(r) \/ Respond(r) \/ Finish(r) \/ Hangup(r)
       \/ \E p \in Principals, via \in {"rest", "flight"}, scope \in {"read", "write"} :
            Arrive(r, p, via, scope)

Spec == Init /\ [][Next]_vars

-----------------------------------------------------------------------------
(* Properties. *)

Budget == IF Limit["read"] > Limit["write"] THEN Limit["read"] ELSE Limit["write"]

TypeOK ==
  /\ \A r \in Requests : req[r].pc \in {"unborn", "refused", "rate", "lookup", "acquire",
                                        "handling", "streaming", "gone"}
  /\ \A r \in Requests : req[r].permit => req[r].sem # NoSem
  /\ \A p \in Principals : windows[p].count \in Nat /\ entries[p] \in 0 .. made

Holds(p) == {r \in Requests : req[r].by = p /\ req[r].permit}

\* A principal has at most its permits in use; one that a stripe has carried
\* can hold a stripe's permits as well, never more.
PrincipalBound ==
  \A p \in Principals :
    Cardinality(Holds(p)) <= IF p \in spilled THEN 2 * Permits ELSE Permits

\* The ceilings are respected by what counts against them, and nothing is lost:
\* what a refused, finished or dropped request held is back.
CeilingConserved ==
  \A via \in {"rest", "flight"} :
    /\ avail[via] >= 0
    /\ avail[via] + Cardinality({r \in Requests : req[r].via = via /\ req[r].ceiling}) = Ceiling[via]

\* Every Flight request whose body is still being sent counts against the
\* ceiling.
FlightStreamsCounted ==
  \A r \in Requests : req[r].via = "flight" /\ req[r].pc = "streaming" => req[r].ceiling /\ req[r].permit

Recent(p) == {i \in 1 .. Len(admits[p]) : now - admits[p][i] < Window}

\* A principal that no stripe has counted passes the rate check at most its
\* budget of times in a window, and at most twice that in any span as long as a
\* window: at the end of one and the start of the next.
RateBound ==
  \A p \in Principals \ spilled :
    /\ Cardinality(Recent(p)) <= 2 * Budget
    /\ InWindow(windows[p]) =>
         Cardinality({i \in 1 .. Len(admits[p]) : admits[p][i] >= windows[p].started}) <= Budget

\* Neither registry outgrows max_rate_limit_keys.
KeysBounded ==
  /\ Cardinality({p \in Principals : InWindow(windows[p])}) <= MaxKeys
  /\ Cardinality({p \in Principals : Alive(entries[p])}) <= MaxKeys

\* A principal's limits hold through tracked keys, overflow stripes and sweeps of
\* the registries, which stay within their size.
PrincipalLimits == PrincipalBound /\ RateBound /\ KeysBounded

\* The ceilings of the two transports count what they should, as long as they
\* should.
CeilingsSound == TypeOK /\ CeilingConserved /\ FlightStreamsCounted

\* "Per-node, per-principal write budget": a principal's first write of a window
\* is not refused for its rate.
WriteBudget ==
  \A r \in Requests : req[r].pc = "rate" /\ req[r].scope = "write" /\ req[r].by \notin spilled
                       /\ Limit["write"] > 0 =>
    \/ Retained[req[r].by] = NoWindow
    \/ ~Full(Retained[req[r].by], "write")
    \/ \E q \in Requests \ {r} : req[q].by = req[r].by /\ req[q].scope = "write"
=============================================================================
