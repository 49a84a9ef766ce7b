--------------------------- MODULE MCObjectCache ---------------------------
(***************************************************************************)
(* Instances of ObjectCache and TableNames, the two caches of a node, for  *)
(* TLC: a behaviour is of the one or of the other.                         *)
(***************************************************************************)
EXTENDS ObjectCache, TableNames

CONSTANTS a, b, x, y, caller1, caller2

VARIABLE side

\* One object is in the store, the other is not yet.
FirstStore == (a :> x) @@ (b :> Absent)

\* Either content fits the cache, both together do not.
Sizes == (x :> 2) @@ (y :> 3)

Symmetry == Permutations(Procs)

CachesInit == /\ side \in {"objects", "names"}
              /\ Init /\ NamesInit
              /\ side = "objects" => ttl = 0

RunObjects == side = "objects" /\ Next /\ UNCHANGED <<side, namesVars>>

RunNames == side = "names" /\ NamesNext /\ UNCHANGED <<side, vars>>

CachesNext == RunObjects \/ RunNames

CachesSpec == CachesInit /\ [][CachesNext]_<<side, vars, namesVars>>
=============================================================================
