--------------------------- MODULE MCInstanceOwner ---------------------------
(* Small instances of InstanceOwner.  The last run has the pid of the first:  *)
(* it can only start after that one is gone, and its pid is then the one an   *)
(* older lock names.                                                          *)
EXTENDS InstanceOwner

CONSTANTS p1, p2, p3, p4

ThreePids == {1, 2, 3}
PidsOfFour  == [p \in Procs |-> IF p = p2 THEN 2 ELSE IF p = p3 THEN 3 ELSE 1]

=============================================================================
