-------------------------- MODULE MCTableLifecycle --------------------------
(* Instances of TableLifecycle and RestCalls for TLC.  One run checks both: an *)
(* initial state belongs to either, and the other one rests.                   *)
EXTENDS TableLifecycle, RestCalls, TLC

CONSTANTS s1, s2

VARIABLE side

Symmetry == Permutations({s1, s2})

OneNamespace == [t \in Tables |-> "ns"]

CallOf(op, retries) == [op |-> op, keyed |-> FALSE, retries |-> retries]
Keyed == [op |-> "ingest", keyed |-> TRUE, retries |-> 1]
SomeCalls == {<<CallOf("read", 1)>>, <<CallOf("create", 1), CallOf("create", 1)>>,
              <<CallOf("ingest", 1), CallOf("flush", 1)>>, <<Keyed>>,
              <<CallOf("ingest", 0), CallOf("ingest", 0), CallOf("flush", 0)>>,
              <<CallOf("ingest", 0), CallOf("create", 0)>>}

RunNode == side = "node" /\ Next /\ UNCHANGED <<side, restVars>>
RunCalls == side = "calls" /\ RestNext /\ UNCHANGED <<side, vars>>

NodeInit ==
  /\ Init /\ RestInit
  /\ side \in {"node", "calls"}
  /\ side = "node" => script = <<CallOf("read", 1)>>
NodeNext == RunNode \/ RunCalls
NodeSpec == NodeInit /\ [][NodeNext]_<<side, vars, restVars>>
=============================================================================
