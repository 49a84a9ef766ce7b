---------------------------- MODULE MCWalSegments ----------------------------
(* Instances of WalSegments for model checking. *)
EXTENDS WalSegments, TLC

CONSTANTS t1, p1, p2

\* Two faults within two segments, one when there is a third.
FewFaults == nextSeq + (MaxFaults - faults) <= 5

Symmetry == Permutations(Tables) \cup Permutations(Passes)
=============================================================================
