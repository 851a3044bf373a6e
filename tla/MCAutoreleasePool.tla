-------------------------- MODULE MCAutoreleasePool --------------------------
(***************************************************************************)
(* AutoreleasePool on small pages.                                         *)
(***************************************************************************)
EXTENDS AutoreleasePoolRefinement

=============================================================================
