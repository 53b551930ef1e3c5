--------------------------- MODULE MCReferences ---------------------------
EXTENDS References

CONSTANTS n1, n2, z1, z2

Target(ref, id) == [ref |-> ref, id |-> id, clash |-> FALSE]

(* By reference, by ID, by neither, by both at once, by a reference that   *)
(* names nothing, and by reference with two health checks.                 *)
ValidOrNot ==
  {Target(n1, NoId), Target(NoRef, z2), NoTarget, Target(n1, z2), Target(EmptyRef, NoId),
   [Target(n1, NoId) EXCEPT !.clash = TRUE]}

(* By one reference or the other. *)
ByReference == {Target(n1, NoId), Target(n2, NoId)}
=============================================================================
