------------------------------ MODULE MCRunLoop ------------------------------
(***************************************************************************)
(* RunLoop with a mode that has a version 0 source and one that has a port *)
(* of a version 1 source.                                                  *)
(***************************************************************************)
EXTENDS RunLoop, TLC

CONSTANTS m1, m2, s

MCModeSources == (m1 :> {s}) @@ (m2 :> {})

=============================================================================
