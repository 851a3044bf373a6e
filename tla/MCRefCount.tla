----------------------------- MODULE MCRefCount -----------------------------
(***************************************************************************)
(* RefCount and its inductive invariant on a small instance.  The run      *)
(* checks liveness and a refinement too, so it uses no symmetry.           *)
(***************************************************************************)
EXTENDS RefCountInv
=============================================================================
