----------------------------- MODULE MCAdmission -----------------------------
(* Instances of Admission and of Connections for TLC: a behaviour is one of  *)
(* the first or one of the second.                                           *)
EXTENDS Admission, Connections, TLC

CONSTANTS alice, bob, r1, r2, r3

VARIABLE side

\* Both subjects hash to one stripe.
OneStripe == [p \in Principals |-> 0]

\* Reads have the larger budget, as in the defaults.
Limits == [read |-> 2, write |-> 1]

\* A listener with room for two of the three connections, and one for one.
FewConnections == [l \in Listeners |-> IF l = "rest" THEN 2 ELSE 1]

\* r1, r2, r3 name the requests of one side and the connections of the other.
Symmetry == Permutations(Requests) \cup Permutations(Principals)

RunRequests == side = "requests" /\ Next /\ UNCHANGED <<side, connVars>>
RunConnections == side = "connections" /\ ConnectionsNext /\ UNCHANGED <<side, vars>>

EdgeInit == side \in {"requests", "connections"} /\ Init /\ ConnectionsInit
EdgeNext == RunRequests \/ RunConnections
EdgeSpec == EdgeInit /\ [][EdgeNext]_<<side, vars, connVars>>
=============================================================================
