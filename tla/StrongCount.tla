----------------------------- MODULE StrongCount -----------------------------
(***************************************************************************)
(* What the reference-counting machinery of the Objective-C runtime        *)
(* promises about one object, whatever words the count is kept in: a       *)
(* client that owns a reference can use the object, the release of the     *)
(* last reference starts the one deallocation, a weak load succeeds only   *)
(* before that, and the memory goes back only when the deallocating thread *)
(* has finished and no weak variable or associated value still names it.   *)
(*                                                                         *)
(* The detailed machinery is in module RefCount, which implements this     *)
(* specification.                                                          *)
(***************************************************************************)
EXTENDS FiniteSets

CONSTANTS Threads, Slots

VARIABLES
  phase,      \* "free", "live" or "deallocating"
  refs,       \* the strong references in existence: <<thread, slot>>
  location,   \* TRUE when the __weak variable names the object
  assoc       \* TRUE when the object has an entry in the associations map

vars == <<phase, refs, location, assoc>>

Init ==
  /\ phase = "free"
  /\ refs = {}
  /\ location = FALSE
  /\ assoc = FALSE

\* A new object starts with the one reference its allocator owns.
Alloc ==
  /\ phase = "free"
  /\ \E r \in Threads \X Slots : refs' = {r}
  /\ phase' = "live"
  /\ UNCHANGED <<location, assoc>>

\* Somebody who may use the object takes one more reference.
Retain ==
  /\ phase # "free"
  /\ phase = "live" => refs # {}
  /\ \E r \in (Threads \X Slots) \ refs : refs' = refs \cup {r}
  /\ UNCHANGED <<phase, location, assoc>>

\* A weak load takes a reference: never once deallocation has started.
TryRetain ==
  /\ phase = "live"
  /\ location
  /\ \E r \in (Threads \X Slots) \ refs : refs' = refs \cup {r}
  /\ UNCHANGED <<phase, location, assoc>>

\* Giving up a reference; giving up the last one of a live object starts
\* its deallocation in the same step.
Release ==
  /\ \E r \in refs : refs' = refs \ {r}
  /\ phase' = IF phase = "live" /\ refs' = {} THEN "deallocating" ELSE phase
  /\ UNCHANGED <<location, assoc>>

HandOver ==
  /\ \E r \in refs, s \in (Threads \X Slots) \ refs :
       refs' = (refs \ {r}) \cup {s}
  /\ UNCHANGED <<phase, location, assoc>>

\* A weak variable may start to name a live object only.
StoreWeak ==
  /\ phase = "live"
  /\ location' = TRUE
  /\ UNCHANGED <<phase, refs, assoc>>

\* Deallocation clears the weak variable, and so does storing an object that
\* is being deallocated: nil is stored instead.
ClearWeak ==
  /\ phase = "deallocating"
  /\ location' = FALSE
  /\ UNCHANGED <<phase, refs, assoc>>

SetAssoc ==
  /\ phase # "free"
  /\ assoc' = TRUE
  /\ UNCHANGED <<phase, refs, location>>

RemoveAssoc ==
  /\ phase = "deallocating"
  /\ refs = {}
  /\ assoc' = FALSE
  /\ UNCHANGED <<phase, refs, location>>

\* The memory is returned once nothing names the object any more.
Free ==
  /\ phase = "deallocating"
  /\ refs = {}
  /\ ~location
  /\ ~assoc
  /\ phase' = "free"
  /\ UNCHANGED <<refs, location, assoc>>

Next ==
  \/ Alloc \/ Retain \/ TryRetain \/ Release \/ HandOver
  \/ StoreWeak \/ ClearWeak \/ SetAssoc \/ RemoveAssoc \/ Free

Spec == Init /\ [][Next]_vars
=============================================================================
