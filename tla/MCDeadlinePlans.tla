-------------------------- MODULE MCDeadlinePlans --------------------------
(* Small plans: two points and a third after the deadline, or one point.   *)
EXTENDS DeadlinePlans

Asked == {[deadline |-> 2, points |-> {1, 2, 3}], [deadline |-> 3, points |-> {3}]}
=============================================================================
