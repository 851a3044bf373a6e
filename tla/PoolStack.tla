------------------------------ MODULE PoolStack ------------------------------
(***************************************************************************)
(* What the comment above AutoreleasePoolPage promises: "A thread's        *)
(* autorelease pool is a stack of pointers.  Each pointer is either an     *)
(* object to release, or POOL_BOUNDARY ...  When the pool is popped, every *)
(* object hotter than the sentinel is released."                           *)
(*                                                                         *)
(* Releasing an object may run its -dealloc, which may use the stack       *)
(* itself: a pop goes on until nothing is left above where it stops.       *)
(***************************************************************************)
EXTENDS Naturals, Sequences

CONSTANTS Objects, POOL_BOUNDARY

VARIABLES
  stack,   \* the hottest entry last
  open,    \* the places of the boundaries of the pools that are not popped
  calls    \* pops in progress, the innermost last

Top == calls[Len(calls)]

\* The thread runs client code, in no pop or in a -dealloc that a pop has
\* called; it does not pop the pools of whoever called it.
ClientRuns == calls # <<>> => Top.releasing

Base == IF calls = <<>> THEN 0 ELSE Top.base

Init == stack = <<>> /\ open = <<>> /\ calls = <<>>

Push ==
  /\ ClientRuns
  /\ stack' = Append(stack, POOL_BOUNDARY)
  /\ open' = Append(open, Len(stack'))
  /\ UNCHANGED calls

Autorelease(obj) ==
  /\ ClientRuns
  /\ stack' = Append(stack, obj)
  /\ UNCHANGED <<open, calls>>

Pop(i) ==
  /\ ClientRuns
  /\ open' = SubSeq(open, 1, i - 1)
  /\ \/ /\ calls' = Append(calls, [stop |-> open[i] - 1, base |-> i - 1,
                                   releasing |-> FALSE])
        /\ UNCHANGED stack
     \* A pool without objects may go at once.
     \/ /\ open[i] = Len(stack)
        /\ stack' = SubSeq(stack, 1, open[i] - 1)
        /\ UNCHANGED calls

Release ==
  /\ calls # <<>> /\ ~Top.releasing
  /\ Len(stack) > Top.stop
  /\ stack' = SubSeq(stack, 1, Len(stack) - 1)
  /\ calls' = [calls EXCEPT ![Len(calls)].releasing =
                 (stack[Len(stack)] # POOL_BOUNDARY)]
  /\ UNCHANGED open

\* The pools that the -dealloc has left open are the pop's to close.
EndRelease ==
  /\ calls # <<>> /\ Top.releasing
  /\ calls' = [calls EXCEPT ![Len(calls)].releasing = FALSE]
  /\ open' = SubSeq(open, 1, Base)
  /\ UNCHANGED stack

EndPop ==
  /\ calls # <<>> /\ ~Top.releasing
  /\ Len(stack) = Top.stop
  /\ calls' = SubSeq(calls, 1, Len(calls) - 1)
  /\ UNCHANGED <<stack, open>>

\* Everything that is left is released when the thread ends.
Exit ==
  /\ calls = <<>>
  /\ open' = <<>>
  /\ \/ /\ calls' = <<[stop |-> 0, base |-> 0, releasing |-> FALSE]>>
        /\ UNCHANGED stack
     \/ stack = <<POOL_BOUNDARY>> /\ stack' = <<>> /\ UNCHANGED calls

Next ==
  \/ Push \/ Release \/ EndRelease \/ EndPop \/ Exit
  \/ \E obj \in Objects : Autorelease(obj)
  \/ \E i \in (Base + 1)..Len(open) : Pop(i)

Spec == Init /\ [][Next]_<<stack, open, calls>>
=============================================================================
