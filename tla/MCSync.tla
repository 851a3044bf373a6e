------------------------------- MODULE MCSync -------------------------------
(***************************************************************************)
(* Sync on small instances.  Threads are model values; objects are         *)
(* numbers, because clients nest in the order of their addresses.          *)
(***************************************************************************)
EXTENDS Sync

=============================================================================
