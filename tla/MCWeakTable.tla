---------------------------- MODULE MCWeakTable ----------------------------
(***************************************************************************)
(* WeakTable on small instances.  The hash function is part of the state,  *)
(* so that objects, and variables, are interchangeable.                    *)
(***************************************************************************)
EXTENDS WeakTable, TLC

Symmetry == Permutations(Objects) \cup Permutations(Locations)
=============================================================================
