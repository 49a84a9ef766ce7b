------------------------------ MODULE MCQuery ------------------------------
(* The instance of Query for model checking: one table that has a snapshot    *)
(* and one that is new.                                                       *)
EXTENDS Query, TLC

CONSTANTS q1, q2, old, new

FirstVersions == old :> 1 @@ new :> 0

Asked == q1 :> {<<"rest", {old, new}>>}
      @@ q2 :> {<<"flight", {old}>>, <<"schema", {new}>>}
=============================================================================
