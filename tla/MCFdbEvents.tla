---------------------------- MODULE MCFdbEvents ----------------------------
(* Values for TLC: see the .cfg files that name this module. *)
EXTENDS FdbEvents, TLC

CONSTANTS m1, m2, v1, v2, p1, p2

Symmetry == Permutations({m1, m2}) \cup Permutations({p1, p2}) \cup Permutations({v1, v2})
=============================================================================
