---------------------------- MODULE MCMaintenance ----------------------------
(* Instances of Maintenance for TLC. *)
EXTENDS Maintenance, TLC

CONSTANTS n1, n2

\* Both nodes compact and sweep, so they are interchangeable.
Symmetry == Permutations(Nodes)
=============================================================================
