--------------------------- MODULE WeakVariables ---------------------------
(***************************************************************************)
(* What a program is promised of its __weak variables: they hold what was  *)
(* stored, unless that object was being deallocated, and when an object    *)
(* goes every variable that holds it becomes nil in the same instant.      *)
(***************************************************************************)
CONSTANTS Objects, Locations, Nil

VARIABLES location, deallocating

vars == <<location, deallocating>>

Init ==
  /\ location \in [Locations -> Objects \cup {Nil}]
  /\ deallocating = {}

StoreWeak(loc, obj) ==
  /\ location' = [location EXCEPT
                    ![loc] = IF obj \in deallocating THEN Nil ELSE obj]
  /\ UNCHANGED deallocating

BeginDealloc(obj) ==
  /\ deallocating' = deallocating \cup {obj}
  /\ UNCHANGED location

ClearWeak(obj) ==
  /\ obj \in deallocating
  /\ deallocating' = deallocating \ {obj}
  /\ location' = [loc \in Locations |->
                    IF location[loc] = obj THEN Nil ELSE location[loc]]

Next ==
  \/ \E loc \in Locations, obj \in Objects \cup {Nil} : StoreWeak(loc, obj)
  \/ \E obj \in Objects : BeginDealloc(obj) \/ ClearWeak(obj)

Spec == Init /\ [][Next]_vars
=============================================================================
