--------------------------- MODULE MCKeyedIngest ---------------------------
(***************************************************************************)
(* Clients of the two listeners: REST ingest with idempotency keys, and    *)
(* Flight sessions.  A behaviour is one of REST, a burst of REST requests, *)
(* or Flight; the variables of the other listener keep their initial       *)
(* values.                                                                 *)
(***************************************************************************)
EXTENDS KeyedIngest, FlightSession, TLC

CONSTANTS k1, k2, k3

VARIABLE listener

\* Keys are interchangeable.
KeySymmetry == Permutations(Keys)

\* Queries against DDL, and puts against DDL and each other.
SmallMixes == {[jobs |-> {"query", "update"}, calls |-> 3],
               [jobs |-> {"put", "update"}, calls |-> 2]}

\* Three requests for two keys, with the clock and a dropped table.
RunKeyed ==
  /\ listener = "rest" /\ Next /\ Len(requests') <= 3
  /\ Cardinality({requests'[r].key : r \in DOMAIN requests'}) <= 2
  /\ UNCHANGED <<listener, flightVars>>

\* Four requests for more keys than the index holds, in one instant.
RunBurst ==
  /\ listener = "burst" /\ Next
  /\ UNCHANGED <<listener, now, table, flightVars>>

RunFlight == listener = "flight" /\ FlightNext /\ UNCHANGED <<listener, vars>>

IngestInit ==
  /\ listener \in {"rest", "burst", "flight"} /\ Init /\ FlightInit
  /\ listener # "flight" => "query" \in mix.jobs
IngestNext == RunKeyed \/ RunBurst \/ RunFlight
IngestSpec == IngestInit /\ [][IngestNext]_<<listener, vars, flightVars>>
=============================================================================
