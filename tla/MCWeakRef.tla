------------------------------ MODULE MCWeakRef ------------------------------
(***************************************************************************)
(* WeakRef with two objects in different side tables, one of them that of  *)
(* nil.                                                                    *)
(***************************************************************************)
EXTENDS WeakRef, TLC

CONSTANTS o1, o2, t1, t2

MCThreads == {t1, t2}
Symmetry == Permutations(MCThreads)

MCTableOf == (Nil :> 2) @@ (o1 :> 1) @@ (o2 :> 2)

=============================================================================
