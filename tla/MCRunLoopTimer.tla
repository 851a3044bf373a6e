---------------------------- MODULE MCRunLoopTimer ----------------------------
(***************************************************************************)
(* RunLoopTimer with a timer that repeats in two modes and one that fires  *)
(* once; and the binary search for a timer's place against its meaning.    *)
(***************************************************************************)
EXTENDS RunLoopTimer, TLC

CONSTANTS m1, m2, t1, t2

MCInterval == (t1 :> 2) @@ (t2 :> 0)
MCTolerance == (t1 :> 1) @@ (t2 :> 0)
MCNoTolerance == [t \in Timers |-> 0]
MCAddTo == (t1 :> {m1, m2}) @@ (t2 :> {m1})

SortedLists ==
  {a \in UNION {[1..n -> 0..3] : n \in 0..7} :
     \A i \in 1..(Len(a) - 1) : a[i] <= a[i + 1]}

ASSUME InsertionIsAfterEqualTimes ==
  \A a \in SortedLists, time \in 0..3 :
    InsertionIndex(a, [v \in 0..3 |-> v], time)
      = Cardinality({i \in DOMAIN a : a[i] <= time})

=============================================================================
