---------------------------- MODULE RunLoopProofs ----------------------------
(***************************************************************************)
(* For all modes, sources and numbers of operations: blocks run in their   *)
(* order, and, where nested runs do not begin in three of the callouts, no *)
(* wake up is lost.  And of the run loop's timers, which RunLoopTimer has: *)
(* the lists that the binary search works on are sorted, as long as the    *)
(* timers that clients move are in one mode each.                          *)
(***************************************************************************)
EXTENDS RunLoop, SequenceTheorems, WellFoundedInduction, TLAPS

Labels == Callouts \cup
  {"nextBlock", "sources0", "nextSource", "decide", "wait", "handle", "result"}
Afters == {"none", "sources0", "decide", "result"}
Blocks == [id : Nat, modes : SUBSET Modes]
Runs ==
  [mode : Modes, stopAfterHandle : BOOLEAN, term : {"ahead", "zero"},
   pc : Labels, stopped : BOOLEAN, ignoreWakeUps : BOOLEAN,
   handled : BOOLEAN, poll : BOOLEAN, live : {"none", "port"},
   after : Afters, items : Seq(Blocks), now : Nat, sources : SUBSET Sources]

Types ==
  /\ stack \in Seq(Runs)
  /\ blocks \in Seq(Blocks)
  /\ done \in Nat /\ wakers \in Nat
  /\ wakeUp \in BOOLEAN
  /\ signalled \subseteq Sources /\ owed = signalled

-----------------------------------------------------------------------------
(* The order of blocks *)

Sorted(s) == \A i, j \in 1..Len(s) : i < j => s[i].id < s[j].id
UpTo(s, n) == \A i \in 1..Len(s) : s[i].id <= n
Above(n, s) == \A i \in 1..Len(s) : n < s[i].id
Before(s, r) == \A i \in 1..Len(s) : Above(s[i].id, r)

HasBlocks(r) == r.pc \in {"nextBlock", "block"}

\* The blocks that a run has taken, with those of the loop, and the last id.
OrderedRun(r, bs, n) ==
  /\ Sorted(r.items) /\ UpTo(r.items, n) /\ Before(r.items, bs)
  /\ ~HasBlocks(r) => r.items = << >>
  /\ r.pc = "block" =>
       /\ r.now <= n /\ Above(r.now, bs)
       /\ \A i \in 1..Len(r.items) :
            r.mode \in r.items[i].modes => r.now < r.items[i].id

\* What a run and one inside it have taken.
OrderedPair(q, r) ==
  /\ Before(q.items, r.items)
  /\ q.pc = "block" => Above(q.now, r.items)

OrderInv ==
  /\ Sorted(blocks) /\ UpTo(blocks, done)
  /\ \A d \in 1..depth : OrderedRun(stack[d], blocks, done)
  /\ \A d, e \in 1..depth : d < e => OrderedPair(stack[d], stack[e])

-----------------------------------------------------------------------------
(* Wake ups *)

\* The run relies on a wake up for what comes after it has looked, and will
\* not look again before it sleeps.
Heedful(r) ==
  \/ r.pc \in {"beforeSources", "sources0", "beforeWaiting"}
  \/ r.pc \in {"nextSource", "decide"} /\ ~r.handled
  \/ HasBlocks(r) /\ r.after = "sources0"
  \/ r.pc = "wait" /\ ~r.poll

Local(r) ==
  /\ r.pc = "source0" => r.handled
  /\ HasBlocks(r) => r.after # "none" /\ (r.after = "decide" => r.handled)
  /\ Heedful(r) => ~r.ignoreWakeUps

Locals ==
  /\ \A d \in 1..depth : Local(stack[d])
  /\ \A d \in 1..(depth - 1) : stack[d].pc \in NestFrom

\* A wake up is there or will come.
WakeUpComes == wakeUp \/ wakers > 0

\* What a heedful run has looked at, it has dealt with, or a wake up comes.
Watched(r) ==
  \/ WakeUpComes
  \/ /\ ~r.stopped /\ r.mode \notin stoppedModes
     /\ r.pc # "beforeSources" =>
          \A i \in 1..Len(blocks) : r.mode \notin blocks[i].modes
     /\ r.pc = "nextSource" => ModeSources[r.mode] \cap owed \subseteq r.sources
     /\ r.pc \in {"decide", "beforeWaiting", "wait"} =>
          ModeSources[r.mode] \cap owed = {}
     /\ r.pc \in {"beforeWaiting", "wait"} => r.term # "zero"

Watch == Running /\ Heedful(top) => Watched(top)

IInv == Types /\ OrderInv /\ Locals

\* A step keeps the invariant, and keeps watch.
Keeps == IInv' /\ (Watch => Watch')

-----------------------------------------------------------------------------
(* Stacks *)

LEMMA TopOfStack ==
  ASSUME Types, Running
  PROVE  /\ depth \in Nat \ {0} /\ depth \in 1..Len(stack)
         /\ stack \in Seq(Runs) /\ top \in Runs /\ top = stack[depth]
<1>1. stack \in Seq(Runs) /\ depth \in Nat \ {0} /\ depth \in 1..Len(stack)
  BY DEF Types, Running, depth
<1> QED BY <1>1 DEF top

\* The innermost run changes.
LEMMA TopChanges ==
  ASSUME Types, Running, NEW r \in Runs, stack' = [stack EXCEPT ![depth] = r]
  PROVE  /\ stack' \in Seq(Runs) /\ Running'
         /\ depth' = depth /\ top' = r /\ stack'[depth] = r
         /\ \A d \in 1..(depth - 1) : stack'[d] = stack[d]
<1>1. stack \in Seq(Runs) /\ depth \in Nat \ {0} /\ depth \in 1..Len(stack)
  BY DEF Types, Running, depth
<1>2. /\ stack' \in Seq(Runs) /\ Len(stack') = Len(stack)
      /\ stack'[depth] = r
      /\ \A d \in 1..(depth - 1) : stack'[d] = stack[d]
  BY <1>1 DEF depth
<1> QED BY <1>1, <1>2 DEF depth, top, Running

-----------------------------------------------------------------------------
(* Sequences of blocks *)

LEMMA BlockIds ==
  ASSUME NEW s \in Seq(Blocks)
  PROVE  \A i \in 1..Len(s) : s[i] \in Blocks /\ s[i].id \in Nat
<1>1. \A i \in 1..Len(s) : s[i] \in Blocks
  OBVIOUS
<1> QED BY <1>1 DEF Blocks

LEMMA OneMore ==
  ASSUME NEW s \in Seq(Blocks), NEW n \in Nat, NEW b \in Blocks, b.id = n + 1,
         Sorted(s), UpTo(s, n)
  PROVE  /\ Append(s, b) \in Seq(Blocks)
         /\ Sorted(Append(s, b)) /\ UpTo(Append(s, b), n + 1)
         /\ \A k \in Nat : k <= n /\ Above(k, s) => Above(k, Append(s, b))
<1> DEFINE q == Append(s, b)
<1>1. /\ q \in Seq(Blocks) /\ Len(q) = Len(s) + 1 /\ Len(s) \in Nat
      /\ q[Len(s) + 1] = b /\ \A i \in 1..Len(s) : q[i] = s[i]
      /\ \A i \in 1..Len(q) : i \in 1..Len(s) \/ i = Len(s) + 1
  OBVIOUS
<1>2. \A i \in 1..Len(s) : s[i].id \in Nat
  BY BlockIds
<1> HIDE DEF q
<1>3. UpTo(q, n + 1)
  BY <1>1, <1>2 DEF UpTo
<1>5. Sorted(q)
  <2>1. ASSUME NEW i \in 1..Len(q), NEW j \in 1..Len(q), i < j
        PROVE  q[i].id < q[j].id
    <3>1. i \in 1..Len(s) /\ q[i] = s[i]
      BY <1>1, <2>1
    <3>2. CASE j \in 1..Len(s)
      BY <1>1, <2>1, <3>1, <3>2 DEF Sorted
    <3>3. CASE j = Len(s) + 1
      BY <1>1, <1>2, <3>1, <3>3 DEF UpTo
    <3> QED BY <1>1, <3>2, <3>3
  <2> QED BY <2>1 DEF Sorted
<1>4. \A k \in Nat : k <= n /\ Above(k, s) => Above(k, q)
  BY <1>1, <1>2 DEF Above
<1> QED BY <1>1, <1>3, <1>4, <1>5 DEF q

\* The blocks that were put back in front.
LEMMA InFront ==
  ASSUME NEW s \in Seq(Blocks), NEW r \in Seq(Blocks), NEW n \in Nat,
         Sorted(s), Sorted(r), Before(s, r), UpTo(s, n), UpTo(r, n)
  PROVE  /\ s \o r \in Seq(Blocks)
         /\ Sorted(s \o r) /\ UpTo(s \o r, n)
         /\ \A k \in Nat : Above(k, s) /\ Above(k, r) => Above(k, s \o r)
<1>1. /\ \A i \in 1..Len(s) : s[i] \in Blocks /\ s[i].id \in Nat
      /\ \A i \in 1..Len(r) : r[i] \in Blocks /\ r[i].id \in Nat
  BY BlockIds
<1>2. /\ s \o r \in Seq(Blocks) /\ Len(s \o r) = Len(s) + Len(r)
      /\ \A i \in 1..Len(s) : (s \o r)[i] = s[i]
      /\ \A i \in 1..Len(s \o r) : i \in 1..Len(s) \/
           /\ i - Len(s) \in 1..Len(r)
           /\ (s \o r)[i] = r[i - Len(s)]
      /\ Len(s) \in Nat /\ Len(r) \in Nat
  OBVIOUS
<1> DEFINE q == s \o r
<1> HIDE DEF q
<1>3. UpTo(q, n) /\ \A k \in Nat : Above(k, s) /\ Above(k, r) => Above(k, q)
  BY <1>1, <1>2 DEF UpTo, Above, q
<1>4. Sorted(q)
  <2>1. ASSUME NEW i \in 1..Len(q), NEW j \in 1..Len(q), i < j
        PROVE  q[i].id < q[j].id
    <3>1. CASE j \in 1..Len(s)
      BY <1>1, <1>2, <2>1, <3>1 DEF q, Sorted
    <3>2. CASE i \in 1..Len(s) /\ j - Len(s) \in 1..Len(r)
      <4>1. j \notin 1..Len(s)
        BY <1>2, <3>2
      <4>2. q[i] = s[i] /\ q[j] = r[j - Len(s)]
        BY <1>2, <2>1, <3>2, <4>1 DEF q
      <4> QED BY <3>2, <4>2 DEF Before, Above
    <3>3. CASE i \notin 1..Len(s) /\ j - Len(s) \in 1..Len(r)
      <4>1. /\ i - Len(s) \in 1..Len(r) /\ i - Len(s) < j - Len(s)
            /\ j \notin 1..Len(s)
        BY <1>2, <2>1, <3>3 DEF q
      <4>2. q[i] = r[i - Len(s)] /\ q[j] = r[j - Len(s)]
        BY <1>2, <2>1, <3>3, <4>1 DEF q
      <4> QED BY <3>3, <4>1, <4>2 DEF Sorted
    <3> QED BY <1>2, <2>1, <3>1, <3>2, <3>3 DEF q
  <2> QED BY <2>1 DEF Sorted
<1> QED BY <1>2, <1>3, <1>4 DEF q

\* A block has been taken out.
LEMMA OneLess ==
  ASSUME NEW s \in Seq(Blocks), NEW i \in 1..Len(s), NEW n \in Nat,
         Sorted(s), UpTo(s, n)
  PROVE  /\ RemoveAt(s, i) \in Seq(Blocks)
         /\ Sorted(RemoveAt(s, i)) /\ UpTo(RemoveAt(s, i), n)
         /\ \A j \in 1..Len(RemoveAt(s, i)) : \E k \in 1..Len(s) :
              k # i /\ RemoveAt(s, i)[j] = s[k]
<1> DEFINE q == RemoveAt(s, i)
           f(j) == IF j < i THEN j ELSE j + 1
<1>1. /\ q \in Seq(Blocks) /\ Len(q) = Len(s) - 1 /\ Len(s) \in Nat
      /\ \A j \in 1..Len(q) : q[j] = s[f(j)]
  <2> DEFINE a == SubSeq(s, 1, i - 1)
             b == SubSeq(s, i + 1, Len(s))
  <2>1. /\ Len(s) \in Nat /\ i \in Nat /\ 1 <= i /\ i <= Len(s)
        /\ a \in Seq(Blocks) /\ Len(a) = i - 1
        /\ \A j \in 1..(i - 1) : a[j] = s[j]
    OBVIOUS
  <2>2. /\ b \in Seq(Blocks) /\ Len(b) = Len(s) - i
        /\ \A j \in 1..(Len(s) - i) : b[j] = s[j + i]
    OBVIOUS
  <2>3. q = a \o b
    BY DEF RemoveAt
  <2> HIDE DEF a, b, q
  <2>4. /\ q \in Seq(Blocks) /\ Len(q) = Len(s) - 1
        /\ \A j \in 1..(i - 1) : q[j] = a[j]
        /\ \A j \in i..Len(q) : q[j] = b[j - (i - 1)]
    <3>a. q \in Seq(Blocks) /\ Len(q) = Len(a) + Len(b)
      <4>1. a \in Seq(Blocks) /\ b \in Seq(Blocks)
        BY <2>1, <2>2
      <4>2. a \o b \in Seq(Blocks) /\ Len(a \o b) = Len(a) + Len(b)
        BY <4>1
      <4> QED BY <2>3, <4>2
    <3>1. q \in Seq(Blocks) /\ Len(q) = Len(s) - 1
      BY <2>1, <2>2, <3>a
    <3>2. \A j \in 1..(i - 1) : q[j] = a[j]
      BY <2>1, <2>2, <2>3
    <3>3. \A j \in i..Len(q) : q[j] = b[j - (i - 1)]
      BY <2>1, <2>2, <2>3, <3>1
    <3> QED BY <3>1, <3>2, <3>3
  <2>5. ASSUME NEW j \in 1..Len(q)
        PROVE  q[j] = s[f(j)]
    <3>1. CASE j < i
      BY <2>1, <2>4, <3>1
    <3>2. CASE ~(j < i)
      <4>1. j \in i..Len(q) /\ j - (i - 1) \in 1..(Len(s) - i)
            /\ (j - (i - 1)) + i = j + 1
        BY <2>1, <2>4, <3>2
      <4> QED BY <2>2, <2>4, <3>2, <4>1
    <3> QED BY <3>1, <3>2
  <2> QED BY <2>1, <2>4, <2>5
<1>2. \A j \in 1..Len(q) : f(j) \in 1..Len(s) /\ f(j) # i
  BY <1>1
<1>3. \A j, k \in 1..Len(q) : j < k => f(j) < f(k)
  BY <1>1
<1> HIDE DEF q, f
<1>4. Sorted(q) /\ UpTo(q, n)
  BY <1>1, <1>2, <1>3 DEF Sorted, UpTo
<1> QED BY <1>1, <1>2, <1>4 DEF q

-----------------------------------------------------------------------------
(* What a step does to the order *)

\* The run has the same blocks, and begins none.
SameBlocks(q, r) ==
  /\ r.items = q.items /\ r.mode = q.mode
  /\ r.pc = "block" => q.pc = "block" /\ r.now = q.now
  /\ ~HasBlocks(r) => q.items = << >>

LEMMA OrderStays ==
  ASSUME IInv, Types', depth' = depth, blocks' = blocks, done' >= done,
         \A d \in 1..depth : SameBlocks(stack[d], stack'[d])
  PROVE  OrderInv'
<1>1. /\ done \in Nat /\ done' \in Nat
      /\ \A i \in 1..Len(blocks) : blocks[i].id \in Nat
      /\ \A d \in 1..depth : stack[d] \in Runs
      /\ \A d \in 1..depth : stack[d].items \in Seq(Blocks)
      /\ \A d \in 1..depth : stack[d].now \in Nat
      /\ \A d \in 1..depth : \A i \in 1..Len(stack[d].items) :
           stack[d].items[i].id \in Nat
  <2>1. \A d \in 1..depth : stack[d] \in Runs
    BY DEF IInv, Types, depth
  <2>2. \A d \in 1..depth : stack[d].items \in Seq(Blocks)
    BY <2>1 DEF Runs
  <2>3. \A d \in 1..depth : stack[d].now \in Nat
    BY <2>1 DEF Runs
  <2>4. done \in Nat /\ done' \in Nat /\ blocks \in Seq(Blocks)
    BY DEF IInv, Types
  <2> QED BY <2>1, <2>2, <2>3, <2>4, BlockIds
<1>2. Sorted(blocks) /\ UpTo(blocks, done')
  BY <1>1 DEF IInv, OrderInv, UpTo
<1>3. ASSUME NEW d \in 1..depth
      PROVE  OrderedRun(stack'[d], blocks, done')
  <2> DEFINE q == stack[d]
             r == stack'[d]
  <2>1. OrderedRun(q, blocks, done) /\ SameBlocks(q, r)
    BY DEF IInv, OrderInv
  <2>2. q.now \in Nat /\ \A i \in 1..Len(q.items) : q.items[i].id \in Nat
    BY <1>1
  <2> HIDE DEF q, r
  <2>3. r.items = q.items /\ UpTo(r.items, done')
    BY <1>1, <2>1, <2>2 DEF OrderedRun, SameBlocks, UpTo
  <2>4. q.now <= done => q.now <= done'
    BY <1>1, <2>2
  <2>5. /\ Sorted(r.items) /\ Before(r.items, blocks)
        /\ ~HasBlocks(r) => r.items = << >>
    BY <2>1 DEF OrderedRun, SameBlocks
  <2>6. ASSUME r.pc = "block"
        PROVE  /\ r.now <= done' /\ Above(r.now, blocks)
               /\ \A i \in 1..Len(r.items) :
                    r.mode \in r.items[i].modes => r.now < r.items[i].id
    <3>1. /\ q.pc = "block" /\ r.now = q.now /\ r.mode = q.mode
          /\ r.items = q.items
      BY <2>1, <2>6 DEF SameBlocks
    <3>2. /\ q.now <= done /\ Above(q.now, blocks)
          /\ \A i \in 1..Len(q.items) :
               q.mode \in q.items[i].modes => q.now < q.items[i].id
      BY <2>1, <3>1 DEF OrderedRun
    <3> QED BY <2>4, <3>1, <3>2
  <2>7. OrderedRun(r, blocks, done')
    BY <2>3, <2>5, <2>6 DEF OrderedRun
  <2> QED BY <2>7 DEF r
<1>4. ASSUME NEW d \in 1..depth, NEW e \in 1..depth, d < e
      PROVE  OrderedPair(stack'[d], stack'[e])
  BY <1>4 DEF IInv, OrderInv, OrderedPair, SameBlocks
<1> QED BY <1>2, <1>3, <1>4 DEF OrderInv

\* The innermost run changes.
LEMMA TopOrder ==
  ASSUME IInv, Running, NEW r \in Runs, stack' = [stack EXCEPT ![depth] = r],
         Types', blocks' = blocks, done' >= done, SameBlocks(top, r)
  PROVE  OrderInv'
<1>1. /\ depth \in Nat \ {0} /\ depth' = depth /\ stack'[depth] = r
      /\ \A d \in 1..(depth - 1) : stack'[d] = stack[d]
      /\ top = stack[depth]
  BY TopChanges, TopOfStack DEF IInv
<1>2. ASSUME NEW d \in 1..depth PROVE SameBlocks(stack[d], stack'[d])
  <2>1. CASE d = depth
    BY <1>1, <2>1
  <2>2. CASE d # depth
    <3>1. d \in 1..(depth - 1)
      BY <1>1, <2>2
    <3>2. stack'[d] = stack[d] /\ OrderedRun(stack[d], blocks, done)
      BY <1>1, <3>1 DEF IInv, OrderInv
    <3> QED BY <3>2 DEF SameBlocks, OrderedRun
  <2> QED BY <2>1, <2>2
<1> QED BY <1>1, <1>2, OrderStays

\* The innermost run and the list change: what holds of it against the runs
\* outside it and the list is enough.
LEMMA TopAndListOrder ==
  ASSUME IInv, Running, NEW r \in Runs, stack' = [stack EXCEPT ![depth] = r],
         done' = done, Sorted(blocks'), UpTo(blocks', done),
         OrderedRun(r, blocks', done),
         \A d \in 1..(depth - 1) :
           /\ OrderedPair(stack[d], r)
           /\ Before(stack[d].items, blocks')
           /\ stack[d].pc = "block" => Above(stack[d].now, blocks')
  PROVE  OrderInv'
<1>1. /\ depth \in Nat \ {0} /\ depth' = depth /\ stack'[depth] = r
      /\ \A d \in 1..(depth - 1) : stack'[d] = stack[d]
  BY TopChanges, TopOfStack DEF IInv
<1>2. \A d \in 1..depth : d = depth \/ d \in 1..(depth - 1)
  BY <1>1
<1>3. ASSUME NEW d \in 1..depth
      PROVE  OrderedRun(stack'[d], blocks', done)
  <2>1. CASE d = depth
    BY <1>1, <2>1
  <2>2. CASE d \in 1..(depth - 1)
    <3>1. OrderedRun(stack[d], blocks, done)
      BY DEF IInv, OrderInv
    <3> QED BY <1>1, <2>2, <3>1 DEF OrderedRun
  <2> QED BY <1>2, <2>1, <2>2
<1>4. ASSUME NEW d \in 1..depth, NEW e \in 1..depth, d < e
      PROVE  OrderedPair(stack'[d], stack'[e])
  <2>1. d \in 1..(depth - 1)
    BY <1>1, <1>4
  <2>2. CASE e = depth
    BY <1>1, <2>1, <2>2
  <2>3. CASE e \in 1..(depth - 1)
    BY <1>1, <1>4, <2>1, <2>3 DEF IInv, OrderInv
  <2> QED BY <1>2, <2>2, <2>3
<1> QED BY <1>1, <1>3, <1>4 DEF OrderInv

-----------------------------------------------------------------------------
(* The steps of others *)

LEMMA WakersWatch ==
  ASSUME Types', WakeUpComes' PROVE Watch'
<1> QED BY DEF Watch, Watched, WakeUpComes

\* An operation that leaves the stack and the list alone.
LEMMA OutsideStep ==
  ASSUME IInv, UNCHANGED <<stack, blocks>>, Types', done' >= done
  PROVE  IInv'
<1>1. depth' = depth /\ depth \in Nat
  BY DEF depth, IInv, Types
<1>2. ASSUME NEW d \in 1..depth PROVE SameBlocks(stack[d], stack'[d])
  BY DEF SameBlocks, IInv, OrderInv, OrderedRun
<1>3. OrderInv'
  BY <1>1, <1>2, OrderStays
<1>4. Locals'
  BY <1>1 DEF IInv, Locals
<1> QED BY <1>3, <1>4 DEF IInv

LEMMA SignalStep ==
  ASSUME IInv, NEW s \in Sources, CFRunLoopSourceSignal(s)
  PROVE  Keeps
<1>1. /\ UNCHANGED <<stack, blocks, wakeUp>> /\ done' = done + 1
      /\ wakers' = wakers + 1 /\ signalled' = signalled \cup {s}
      /\ owed' = owed \cup {s}
  BY DEF CFRunLoopSourceSignal, Operation
<1>2. Types' /\ done' >= done /\ WakeUpComes'
  BY <1>1 DEF IInv, Types, WakeUpComes
<1> QED BY <1>1, <1>2, OutsideStep, WakersWatch DEF Keeps

LEMMA StopModeStep ==
  ASSUME IInv, NEW m \in Modes, CFRunLoopStopMode(m)
  PROVE  Keeps
<1>1. /\ UNCHANGED <<stack, blocks, signalled, owed, wakeUp>>
      /\ done' = done + 1 /\ wakers' = wakers + 1
  BY DEF CFRunLoopStopMode, Operation
<1>2. Types' /\ done' >= done /\ WakeUpComes'
  BY <1>1 DEF IInv, Types, WakeUpComes
<1> QED BY <1>1, <1>2, OutsideStep, WakersWatch DEF Keeps

\* A wake up is sent to a run that heeds it, or no run relies on it.
LEMMA WakeUpStep ==
  ASSUME IInv, CFRunLoopWakeUp
  PROVE  Keeps
<1>1. /\ UNCHANGED <<stack, blocks, signalled, owed, stoppedModes, done>>
      /\ wakers > 0 /\ wakers' = wakers - 1
      /\ wakeUp' = (wakeUp \/ ~ (Running /\ top.ignoreWakeUps))
  BY DEF CFRunLoopWakeUp
<1>2. Types' /\ done' >= done
  BY <1>1 DEF IInv, Types
<1>3. Watch'
  <2>1. SUFFICES ASSUME Running', Heedful(top)' PROVE WakeUpComes'
    BY DEF Watch, Watched
  <2>2. Running /\ Heedful(top)
    BY <1>1, <2>1 DEF Running, Heedful, HasBlocks, top, depth
  <2>3. depth \in 1..depth /\ top = stack[depth]
    BY <2>2, TopOfStack DEF IInv, depth
  <2>4. ~top.ignoreWakeUps
    BY <2>2, <2>3 DEF IInv, Locals, Local
  <2> QED BY <1>1, <2>4 DEF WakeUpComes
<1> QED BY <1>1, <1>2, <1>3, OutsideStep DEF Keeps

LEMMA MessageStep ==
  ASSUME IInv, NEW m \in Modes, Message(m)
  PROVE  Keeps
<1>1. UNCHANGED <<stack, blocks, signalled, owed, wakeUp, stoppedModes,
                  wakers, done>>
  BY DEF Message
<1>2. Types' /\ done' >= done
  BY <1>1 DEF IInv, Types
<1>3. Watch => Watch'
  BY <1>1 DEF Watch, Running, Heedful, HasBlocks, Watched, WakeUpComes, top,
              depth
<1> QED BY <1>1, <1>2, <1>3, OutsideStep DEF Keeps

LEMMA PerformBlockStep ==
  ASSUME IInv, NEW ms \in SUBSET Modes, CFRunLoopPerformBlock(ms)
  PROVE  Keeps
<1> DEFINE b == [id |-> done + 1, modes |-> ms]
<1>1. /\ UNCHANGED <<stack, signalled, owed, wakeUp>>
      /\ done' = done + 1 /\ wakers' = wakers + 1
      /\ blocks' = Append(blocks, b)
  BY DEF CFRunLoopPerformBlock, Operation
<1>2. b \in Blocks /\ b.id = done + 1
  BY DEF Blocks, IInv, Types
<1> HIDE DEF b
<1>3. Sorted(blocks) /\ UpTo(blocks, done) /\ blocks \in Seq(Blocks)
      /\ done \in Nat
  BY DEF IInv, Types, OrderInv
<1>4. /\ blocks' \in Seq(Blocks) /\ Sorted(blocks') /\ UpTo(blocks', done')
      /\ \A k \in Nat : k <= done /\ Above(k, blocks) => Above(k, blocks')
  BY <1>1, <1>2, <1>3, OneMore
<1>5. Types' /\ WakeUpComes'
  BY <1>1, <1>4 DEF IInv, Types, WakeUpComes
<1>6. depth' = depth /\ depth \in Nat
  BY <1>1 DEF depth, IInv, Types
<1>7. ASSUME NEW d \in 1..depth
      PROVE  OrderedRun(stack[d], blocks', done')
  <2> DEFINE q == stack[d]
  <2>1. OrderedRun(q, blocks, done)
    BY DEF IInv, OrderInv
  <2>2. q \in Runs
    BY DEF IInv, Types, depth
  <2>3. q.now \in Nat /\ q.items \in Seq(Blocks)
    BY <2>2 DEF Runs
  <2>4. \A i \in 1..Len(q.items) : q.items[i].id \in Nat
    BY <2>3, BlockIds
  <2> HIDE DEF q
  <2>5. UpTo(q.items, done')
    BY <1>1, <1>3, <2>1, <2>4 DEF OrderedRun, UpTo
  <2>6. Before(q.items, blocks')
    BY <1>4, <2>1, <2>4 DEF OrderedRun, UpTo, Before
  <2>7. q.now <= done => q.now <= done'
    BY <1>1, <1>3, <2>3
  <2>8. OrderedRun(q, blocks', done')
    BY <1>4, <2>1, <2>3, <2>5, <2>6, <2>7 DEF OrderedRun
  <2> QED BY <2>8 DEF q
<1>8. OrderInv'
  BY <1>1, <1>4, <1>6, <1>7 DEF IInv, OrderInv
<1>9. Locals'
  BY <1>1, <1>6 DEF IInv, Locals
<1> QED BY <1>5, <1>8, <1>9, WakersWatch DEF IInv, Keeps

\* An operation that marks one of the runs.
LEMMA MarkStep ==
  ASSUME IInv, NEW d \in 1..depth, NEW r \in Runs,
         stack' = [stack EXCEPT ![d] = r], blocks' = blocks,
         done' = done + 1, wakers' = wakers + 1, wakeUp' = wakeUp,
         UNCHANGED <<signalled, owed>>,
         SameBlocks(stack[d], r), Local(r), r.pc = stack[d].pc
  PROVE  Keeps
<1>1. stack \in Seq(Runs) /\ depth \in Nat /\ depth = Len(stack)
  BY DEF IInv, Types, depth
<1>2. /\ stack' \in Seq(Runs) /\ depth' = depth /\ stack'[d] = r
      /\ \A e \in 1..depth : e # d => stack'[e] = stack[e]
  BY <1>1 DEF depth
<1>3. Types' /\ done' >= done /\ WakeUpComes'
  BY <1>2 DEF IInv, Types, WakeUpComes
<1>4. ASSUME NEW e \in 1..depth PROVE SameBlocks(stack[e], stack'[e])
  <2>1. CASE e = d
    BY <1>2, <2>1
  <2>2. CASE e # d
    BY <1>2, <2>2 DEF SameBlocks, IInv, OrderInv, OrderedRun
  <2> QED BY <2>1, <2>2
<1>5. OrderInv'
  BY <1>2, <1>3, <1>4, OrderStays
<1>6. Locals'
  <2>1. \A e \in 1..depth : Local(stack'[e]) /\ stack'[e].pc = stack[e].pc
    BY <1>2 DEF IInv, Locals
  <2> QED BY <1>1, <1>2, <2>1 DEF IInv, Locals
<1> QED BY <1>3, <1>5, <1>6, WakersWatch DEF IInv, Keeps

LEMMA StopStep ==
  ASSUME IInv, CFRunLoopStop PROVE Keeps
<1> DEFINE r == [top EXCEPT !.stopped = TRUE]
<1>1. /\ Running
      /\ stack' = [stack EXCEPT ![depth] = r]
      /\ UNCHANGED <<blocks, signalled, owed, wakeUp>>
      /\ done' = done + 1 /\ wakers' = wakers + 1
  BY DEF CFRunLoopStop, Operation, top
<1>2. depth \in 1..depth /\ top \in Runs /\ top = stack[depth]
  BY <1>1, TopOfStack DEF IInv, depth
<1>3. /\ r \in Runs /\ r.pc = top.pc /\ r.items = top.items
      /\ r.mode = top.mode /\ r.now = top.now /\ r.handled = top.handled
      /\ r.after = top.after /\ r.poll = top.poll
      /\ r.ignoreWakeUps = top.ignoreWakeUps
  BY <1>2 DEF Runs
<1> HIDE DEF r
<1>4. SameBlocks(top, r)
  BY <1>2, <1>3 DEF SameBlocks, HasBlocks, IInv, OrderInv, OrderedRun
<1>5. Local(r)
  BY <1>2, <1>3 DEF IInv, Locals, Local, Heedful, HasBlocks
<1> QED BY <1>1, <1>2, <1>3, <1>4, <1>5, MarkStep

LEMMA TimeoutStep ==
  ASSUME IInv, NEW d \in DOMAIN stack, CFRunLoopTimeout(d) PROVE Keeps
<1> DEFINE q == stack[d]
           r == [q EXCEPT !.term = "zero"]
<1>1. /\ stack' = [stack EXCEPT ![d] = r]
      /\ UNCHANGED <<blocks, signalled, owed, wakeUp>>
      /\ done' = done + 1 /\ wakers' = wakers + 1
  BY DEF CFRunLoopTimeout, Operation
<1>2. d \in 1..depth /\ q \in Runs
  BY DEF IInv, Types, depth
<1>3. Local(q) /\ OrderedRun(q, blocks, done)
  BY <1>2 DEF IInv, Locals, OrderInv
<1> HIDE DEF q
<1>4. /\ r \in Runs /\ r.pc = q.pc /\ r.items = q.items
      /\ r.mode = q.mode /\ r.now = q.now /\ r.handled = q.handled
      /\ r.after = q.after /\ r.poll = q.poll
      /\ r.ignoreWakeUps = q.ignoreWakeUps
  BY <1>2 DEF Runs
<1> HIDE DEF r
<1>5. SameBlocks(q, r)
  BY <1>3, <1>4 DEF SameBlocks, HasBlocks, OrderedRun
<1>6. Local(r)
  BY <1>3, <1>4 DEF Local, Heedful, HasBlocks
<1> QED BY <1>1, <1>2, <1>4, <1>5, <1>6, MarkStep DEF q

-----------------------------------------------------------------------------
(* Runs begin and end *)

\* Three callouts from which a nested run takes wake ups that the outer run
\* relies on.
Risky == {"beforeSources", "beforeWaiting", "block"}

LEMMA RunStep ==
  ASSUME IInv, NEW m \in Modes, NEW stopAfterHandle \in BOOLEAN,
         CFRunLoopRunSpecific(m, stopAfterHandle)
  PROVE  Keeps
<1> DEFINE r == Run(m, stopAfterHandle)
<1>1. /\ stack' = Append(stack, r) /\ UNCHANGED <<blocks, events>>
      /\ Running => top.pc \in NestFrom
  BY DEF CFRunLoopRunSpecific
<1>2. /\ r \in Runs /\ r.pc = "entry" /\ r.items = << >> /\ r.handled = FALSE
      /\ r.ignoreWakeUps = FALSE /\ r.poll = FALSE /\ r.after = "none"
  BY DEF Run, Runs, Labels, Callouts, Observers, Afters
<1> HIDE DEF r
<1>3. stack \in Seq(Runs) /\ depth \in Nat /\ depth = Len(stack)
  BY DEF IInv, Types, depth
<1>4. /\ stack' \in Seq(Runs) /\ depth' = depth + 1 /\ stack'[depth + 1] = r
      /\ \A d \in 1..depth : stack'[d] = stack[d]
      /\ \A d \in 1..(depth + 1) : d \in 1..depth \/ d = depth + 1
  BY <1>1, <1>2, <1>3 DEF depth
<1>5. Types'
  BY <1>1, <1>4 DEF IInv, Types, events
<1>6. OrderedRun(r, blocks, done)
  BY <1>2 DEF OrderedRun, Sorted, UpTo, Before, HasBlocks
<1>7. ASSUME NEW d \in 1..depth PROVE OrderedPair(stack[d], r)
  BY <1>2 DEF OrderedPair, Before, Above
<1>8. OrderInv'
  <2>1. blocks' = blocks /\ done' = done
    BY <1>1 DEF events
  <2>2. \A d \in 1..(depth + 1) : OrderedRun(stack'[d], blocks, done)
    BY <1>4, <1>6 DEF IInv, OrderInv
  <2>3. ASSUME NEW d \in 1..(depth + 1), NEW e \in 1..(depth + 1), d < e
        PROVE  OrderedPair(stack'[d], stack'[e])
    <3>1. d \in 1..depth /\ stack'[d] = stack[d]
      BY <1>3, <1>4, <2>3
    <3>2. CASE e \in 1..depth
      BY <1>4, <2>3, <3>1, <3>2 DEF IInv, OrderInv
    <3>3. CASE e = depth + 1
      BY <1>4, <1>7, <3>1, <3>3
    <3> QED BY <1>4, <3>2, <3>3
  <2> QED BY <1>4, <2>1, <2>2, <2>3 DEF IInv, OrderInv
<1>9. Locals'
  <2>1. Local(r)
    BY <1>2 DEF Local, Heedful, HasBlocks
  <2>2. ASSUME NEW d \in 1..depth PROVE stack[d].pc \in NestFrom
    <3>1. CASE d = depth
      <4>1. Running /\ top = stack[d]
        BY <1>3, <3>1 DEF Running, top
      <4> QED BY <1>1, <4>1
    <3>2. CASE d # depth
      <4>1. d \in 1..(depth - 1)
        BY <1>3, <3>2
      <4> QED BY <4>1 DEF IInv, Locals
    <3> QED BY <3>1, <3>2
  <2>3. (depth + 1) - 1 = depth
    BY <1>3
  <2> QED BY <1>4, <2>1, <2>2, <2>3 DEF IInv, Locals
<1>10. Watch'
  <2>1. top' = r
    BY <1>4 DEF top
  <2> QED BY <1>2, <2>1 DEF Watch, Heedful, HasBlocks
<1> QED BY <1>5, <1>8, <1>9, <1>10 DEF IInv, Keeps

LEMMA ExitedStep ==
  ASSUME IInv, Exited
  PROVE  IInv' /\ (NestFrom \cap Risky = {} => Watch')
<1>1. /\ Running /\ stack' = Front(stack) /\ UNCHANGED <<blocks, events>>
  BY DEF Exited
<1>2. depth \in Nat \ {0} /\ stack \in Seq(Runs) /\ depth = Len(stack)
  BY <1>1, TopOfStack DEF IInv, depth
<1>3. /\ stack' \in Seq(Runs) /\ depth' = depth - 1
      /\ \A d \in 1..(depth - 1) : stack'[d] = stack[d] /\ d \in 1..depth
  <2>1. stack' = SubSeq(stack, 1, Len(stack) - 1)
    BY <1>1 DEF Front
  <2>2. /\ stack' \in Seq(Runs) /\ Len(stack') = Len(stack) - 1
        /\ \A d \in 1..(Len(stack) - 1) : stack'[d] = stack[d]
    BY <1>2, <2>1
  <2>3. \A d \in 1..(depth - 1) : d \in 1..depth
    BY <1>2
  <2> QED BY <1>2, <2>2, <2>3 DEF depth
<1>4. Types'
  BY <1>1, <1>3 DEF IInv, Types, events
<1>5. OrderInv'
  BY <1>1, <1>3 DEF IInv, OrderInv, events
<1>6. Locals'
  <2>1. \A d \in 1..((depth - 1) - 1) : d \in 1..(depth - 1)
    BY <1>2
  <2> QED BY <1>3, <2>1 DEF IInv, Locals
<1>7. ASSUME NestFrom \cap Risky = {}, Running' PROVE ~Heedful(top)'
  <2>1. depth - 1 \in 1..(depth - 1)
    BY <1>2, <1>3, <1>7 DEF Running, depth
  <2>2. top' = stack[depth - 1] /\ stack[depth - 1].pc \in NestFrom
    BY <1>3, <2>1 DEF top, IInv, Locals
  <2>3. stack[depth - 1].pc \in Callouts \ Risky
    BY <1>7, <2>2, NestAssumption
  <2> QED BY <2>2, <2>3 DEF Heedful, HasBlocks, Callouts, Observers, Risky
<1> QED BY <1>4, <1>5, <1>6, <1>7 DEF IInv, Watch

-----------------------------------------------------------------------------
(* The steps of the innermost run *)

\* What no list is needed for.
LEMMA TopStays ==
  ASSUME IInv, Running, NEW r \in Runs, stack' = [stack EXCEPT ![depth] = r],
         UNCHANGED <<done, wakers>>, wakeUp' \in BOOLEAN,
         blocks' \in Seq(Blocks),
         signalled' \subseteq Sources, owed' = signalled', Local(r)
  PROVE  Types' /\ Locals' /\ Running' /\ top' = r
<1>1. /\ stack' \in Seq(Runs) /\ Running' /\ depth' = depth /\ top' = r
      /\ stack'[depth] = r
      /\ \A d \in 1..(depth - 1) : stack'[d] = stack[d]
      /\ depth \in Nat \ {0}
  BY TopChanges, TopOfStack DEF IInv
<1>2. Types'
  BY <1>1 DEF IInv, Types
<1>3. Locals'
  <2>1. \A d \in 1..depth : d = depth \/ d \in 1..(depth - 1)
    BY <1>1
  <2> QED BY <1>1, <2>1 DEF IInv, Locals
<1> QED BY <1>1, <1>2, <1>3

\* Its lists and the list of the loop stay.
LEMMA QuietTop ==
  ASSUME IInv, Running, NEW r \in Runs, stack' = [stack EXCEPT ![depth] = r],
         UNCHANGED <<blocks, done, wakers>>, wakeUp' \in BOOLEAN,
         signalled' \subseteq Sources, owed' = signalled',
         SameBlocks(top, r), Local(r)
  PROVE  IInv' /\ Running' /\ top' = r
<1>1. blocks' \in Seq(Blocks) /\ done' >= done
  BY DEF IInv, Types
<1>2. Types' /\ Locals' /\ Running' /\ top' = r
  BY <1>1, TopStays
<1>3. OrderInv'
  BY <1>1, <1>2, TopOrder
<1> QED BY <1>2, <1>3 DEF IInv

\* What is known of the innermost run.
LEMMA TopFacts ==
  ASSUME IInv, Running
  PROVE  /\ top \in Runs /\ Local(top) /\ OrderedRun(top, blocks, done)
         /\ wakeUp \in BOOLEAN /\ signalled \subseteq Sources
         /\ owed = signalled
<1>1. top \in Runs /\ top = stack[depth] /\ depth \in 1..depth
  BY TopOfStack DEF IInv, depth
<1> QED BY <1>1 DEF IInv, Types, Locals, OrderInv

LEMMA EnteredStep ==
  ASSUME IInv, Entered PROVE Keeps
<1> DEFINE q == top
           m == q.mode
           stop == q.stopped \/ m \in stoppedModes
           r == IF stop THEN [q EXCEPT !.pc = "exit", !.stopped = FALSE]
                ELSE Turn(q)
<1>1. /\ Running /\ q.pc = "entry"
      /\ stack' = [stack EXCEPT ![depth] = r]
      /\ stoppedModes' = IF q.stopped THEN stoppedModes ELSE stoppedModes \ {m}
      /\ UNCHANGED <<blocks, signalled, owed, wakeUp, wakers, done>>
  BY DEF Entered, top
<1>2. q \in Runs /\ Local(q) /\ OrderedRun(q, blocks, done)
      /\ wakeUp \in BOOLEAN /\ signalled \subseteq Sources /\ owed = signalled
  BY <1>1, TopFacts
<1> HIDE DEF q
<1>3. /\ r \in Runs /\ r.items = q.items /\ r.mode = q.mode
      /\ stop => r.pc = "exit"
      /\ ~stop => /\ r.pc = "beforeSources" /\ r.stopped = q.stopped
                  /\ r.ignoreWakeUps = FALSE
  <2>1. CASE stop
    BY <1>2, <2>1 DEF Runs, Labels, Callouts, Observers
  <2>2. CASE ~stop
    BY <1>2, <2>2 DEF Turn, Runs, Labels, Callouts, Observers
  <2> QED BY <2>1, <2>2
<1> HIDE DEF r
<1>4. SameBlocks(q, r) /\ Local(r)
  BY <1>1, <1>2, <1>3 DEF SameBlocks, HasBlocks, OrderedRun, Local, Heedful
<1>5. IInv' /\ Running' /\ top' = r
  BY <1>1, <1>2, <1>3, <1>4, QuietTop DEF q
<1>6. Watch'
  <2>1. CASE stop
    BY <1>3, <1>5, <2>1 DEF Watch, Heedful, HasBlocks
  <2>2. CASE ~stop
    BY <1>1, <1>3, <1>5, <2>2 DEF Watch, Watched
  <2> QED BY <2>1, <2>2
<1> QED BY <1>5, <1>6 DEF Keeps

\* The innermost run takes the list.
Takes(q, then) ==
  [q EXCEPT !.pc = "nextBlock", !.after = then, !.items = blocks]

LEMMA TakeBlocks ==
  ASSUME IInv, Running, NEW q \in Runs, NEW then \in Afters,
         then # "none", then = "decide" => q.handled,
         then = "sources0" => ~q.ignoreWakeUps,
         stack' = [stack EXCEPT ![depth] = Takes(q, then)],
         blocks' = << >>, UNCHANGED events
  PROVE  /\ IInv' /\ Running' /\ top' = Takes(q, then)
         /\ top'.pc = "nextBlock" /\ top'.after = then
         /\ top'.mode = q.mode /\ top'.stopped = q.stopped
<1> DEFINE r == Takes(q, then)
<1>1. blocks \in Seq(Blocks) /\ Types
  BY DEF IInv, Types
<1>2. /\ r \in Runs /\ r.items = blocks /\ r.pc = "nextBlock"
      /\ r.after = then /\ r.mode = q.mode /\ r.stopped = q.stopped
      /\ r.handled = q.handled /\ r.ignoreWakeUps = q.ignoreWakeUps
  BY <1>1 DEF Takes, Runs, Labels
<1>a. stack' = [stack EXCEPT ![depth] = r]
  OBVIOUS
<1> HIDE DEF r
<1>3. /\ stack' \in Seq(Runs) /\ Running' /\ depth' = depth /\ top' = r
      /\ stack'[depth] = r
      /\ \A d \in 1..(depth - 1) : stack'[d] = stack[d]
  BY <1>1, <1>2, <1>a, TopChanges
<1>b. depth \in Nat \ {0} /\ \A d \in 1..(depth - 1) : d \in 1..depth
  <2>1. depth \in Nat \ {0}
    BY <1>1, TopOfStack
  <2> QED BY <2>1
<1>4. Types'
  BY <1>3 DEF IInv, Types, events
<1>5. OrderedRun(r, << >>, done)
  BY <1>2 DEF OrderedRun, IInv, OrderInv, Before, Above, HasBlocks
<1>6. \A d \in 1..(depth - 1) :
        /\ OrderedPair(stack[d], r)
        /\ Before(stack[d].items, << >>) /\ Above(stack[d].now, << >>)
  BY <1>2, <1>b DEF OrderedPair, IInv, OrderInv, OrderedRun, Before, Above
<1>7. OrderInv'
  <2>1. Sorted(<< >>) /\ UpTo(<< >>, done) /\ done' = done
    BY DEF Sorted, UpTo, events
  <2> QED BY <1>2, <1>a, <1>5, <1>6, <2>1, TopAndListOrder
<1>8. Locals'
  <2>1. Local(r)
    BY <1>2 DEF Local, Heedful, HasBlocks
  <2>2. \A d \in 1..depth : d = depth \/ d \in 1..(depth - 1)
    BY <1>b
  <2> QED BY <1>3, <1>b, <2>1, <2>2 DEF IInv, Locals
<1>9. top'.pc = "nextBlock" /\ top'.after = then /\ top'.mode = q.mode
      /\ top'.stopped = q.stopped
  BY <1>2, <1>3
<1> QED BY <1>3, <1>4, <1>7, <1>8, <1>9 DEF IInv, r

LEMMA DoBlocksFirstStep ==
  ASSUME IInv, DoBlocksFirst PROVE Keeps
<1>1. /\ Running /\ top.pc = "beforeSources" /\ UNCHANGED events
      /\ stack' = [stack EXCEPT ![depth] = Takes(top, "sources0")]
      /\ blocks' = << >>
  BY DEF DoBlocksFirst, DoBlocks, Takes, top
<1>2. top \in Runs /\ Local(top)
  BY <1>1, TopFacts
<1>3. /\ Heedful(top) /\ ~top.ignoreWakeUps
  BY <1>1, <1>2 DEF Heedful, Local
<1>4. /\ IInv' /\ Running' /\ top'.pc = "nextBlock"
      /\ top'.mode = top.mode /\ top'.stopped = top.stopped
  BY <1>1, <1>2, <1>3, TakeBlocks DEF Afters
<1>5. Watch => Watch'
  BY <1>1, <1>3, <1>4 DEF Watch, Watched, WakeUpComes, events
<1> QED BY <1>4, <1>5 DEF Keeps

LEMMA NextBlockStep ==
  ASSUME IInv, NextBlock PROVE Keeps
<1>1. PICK i \in RunsHere :
        /\ Running /\ top.pc = "nextBlock"
        /\ \A j \in RunsHere : i <= j
        /\ stack' = [stack EXCEPT ![depth] =
             [top EXCEPT !.pc = "block", !.now = top.items[i].id,
                         !.items = RemoveAt(top.items, i)]]
        /\ UNCHANGED <<blocks, events>>
  BY DEF NextBlock, top
<1> DEFINE q == top
           s == q.items
           b == s[i].id
           rest == RemoveAt(s, i)
           r == [q EXCEPT !.pc = "block", !.now = b, !.items = rest]
<1>2. stack' = [stack EXCEPT ![depth] = r]
  BY <1>1
<1>3. q \in Runs /\ Local(q) /\ OrderedRun(q, blocks, done) /\ q = stack[depth]
  BY <1>1, TopFacts, TopOfStack DEF IInv
<1>4. /\ s \in Seq(Blocks) /\ i \in 1..Len(s) /\ q.mode \in s[i].modes
      /\ Sorted(s) /\ UpTo(s, done) /\ Before(s, blocks) /\ done \in Nat
      /\ \A j \in 1..Len(s) : q.mode \in s[j].modes => i <= j
  <2>1. s \in Seq(Blocks)
    BY <1>3 DEF Runs
  <2>2. DOMAIN s = 1..Len(s)
    BY <2>1
  <2> QED BY <1>1, <1>3, <2>1, <2>2 DEF RunsHere, OrderedRun, IInv, Types
<1>5. /\ rest \in Seq(Blocks) /\ Sorted(rest) /\ UpTo(rest, done)
      /\ \A j \in 1..Len(rest) : \E k \in 1..Len(s) : k # i /\ rest[j] = s[k]
  BY <1>4, OneLess
<1>6. b \in Nat /\ b <= done
  BY <1>4, BlockIds DEF UpTo
<1> HIDE DEF q, rest, b
<1>7. /\ r \in Runs /\ r.items = rest /\ r.pc = "block" /\ r.now = b
      /\ r.mode = q.mode /\ r.after = q.after /\ r.stopped = q.stopped
      /\ r.handled = q.handled /\ r.ignoreWakeUps = q.ignoreWakeUps
  BY <1>3, <1>5, <1>6 DEF Runs, Labels, Callouts
<1> HIDE DEF r
<1>8. Above(b, blocks)
  BY <1>4 DEF Before, b
<1>9. \A j \in 1..Len(rest) : q.mode \in rest[j].modes => b < rest[j].id
  <2>1. ASSUME NEW j \in 1..Len(rest), q.mode \in rest[j].modes
        PROVE  b < rest[j].id
    <3>1. PICK k \in 1..Len(s) : k # i /\ rest[j] = s[k]
      BY <1>5
    <3>2. i < k
      BY <1>4, <2>1, <3>1
    <3> QED BY <1>4, <3>1, <3>2 DEF Sorted, b
  <2> QED BY <2>1
<1>10. Before(rest, blocks)
  BY <1>4, <1>5 DEF Before
<1>11. OrderedRun(r, blocks, done)
  BY <1>5, <1>6, <1>7, <1>8, <1>9, <1>10 DEF OrderedRun, HasBlocks
<1>12. \A d \in 1..(depth - 1) :
        d \in 1..depth /\ depth \in 1..depth /\ d < depth
  <2>1. depth \in Nat \ {0}
    BY <1>1, TopOfStack DEF IInv
  <2> QED BY <2>1
<1>13. ASSUME NEW d \in 1..(depth - 1)
       PROVE  /\ OrderedPair(stack[d], r)
              /\ Before(stack[d].items, blocks)
              /\ stack[d].pc = "block" => Above(stack[d].now, blocks)
  <2>1. OrderedPair(stack[d], q) /\ OrderedRun(stack[d], blocks, done)
    BY <1>3, <1>12 DEF IInv, OrderInv
  <2>2. \A n : Above(n, s) => Above(n, rest)
    BY <1>5 DEF Above
  <2> QED BY <1>7, <2>1, <2>2 DEF OrderedPair, OrderedRun, Before
<1>14. OrderInv'
  <2>1. blocks' = blocks /\ done' = done
    BY <1>1 DEF events
  <2>2. Sorted(blocks) /\ UpTo(blocks, done)
    BY DEF IInv, OrderInv
  <2> QED BY <1>1, <1>2, <1>7, <1>11, <1>13, <2>1, <2>2, TopAndListOrder
<1>15. Local(r) /\ (Heedful(r) => Heedful(q))
  BY <1>1, <1>3, <1>7 DEF Local, Heedful, HasBlocks, q
<1>16. Types' /\ Locals' /\ Running' /\ top' = r
  <2>1. /\ UNCHANGED <<done, wakers>> /\ wakeUp' \in BOOLEAN
        /\ blocks' \in Seq(Blocks) /\ signalled' \subseteq Sources
        /\ owed' = signalled'
    BY <1>1 DEF events, IInv, Types
  <2> QED BY <1>1, <1>2, <1>7, <1>15, <2>1, TopStays
<1>17. Watch => Watch'
  BY <1>1, <1>7, <1>15, <1>16 DEF Watch, Watched, WakeUpComes, events, q
<1> QED BY <1>14, <1>16, <1>17 DEF Keeps, IInv

LEMMA BlockReturnsStep ==
  ASSUME IInv, BlockReturns PROVE Keeps
<1> DEFINE q == top
           r == [q EXCEPT !.pc = "nextBlock", !.now = 0]
<1>1. /\ Running /\ q.pc = "block" /\ UNCHANGED <<blocks, events>>
      /\ stack' = [stack EXCEPT ![depth] = r]
  BY DEF BlockReturns, top
<1>2. q \in Runs /\ Local(q) /\ OrderedRun(q, blocks, done)
      /\ wakeUp \in BOOLEAN /\ signalled \subseteq Sources /\ owed = signalled
  BY <1>1, TopFacts
<1> HIDE DEF q
<1>3. /\ r \in Runs /\ r.items = q.items /\ r.pc = "nextBlock"
      /\ r.mode = q.mode /\ r.after = q.after /\ r.stopped = q.stopped
      /\ r.handled = q.handled /\ r.ignoreWakeUps = q.ignoreWakeUps
  BY <1>2 DEF Runs, Labels
<1> HIDE DEF r
<1>4. SameBlocks(q, r) /\ Local(r) /\ (Heedful(r) => Heedful(q))
  BY <1>1, <1>2, <1>3 DEF SameBlocks, HasBlocks, OrderedRun, Local, Heedful
<1>5. IInv' /\ Running' /\ top' = r
  BY <1>1, <1>2, <1>3, <1>4, QuietTop DEF q, events
<1>6. Watch => Watch'
  BY <1>1, <1>3, <1>4, <1>5 DEF Watch, Watched, WakeUpComes, events, q
<1> QED BY <1>5, <1>6 DEF Keeps

LEMMA PutBlocksBackStep ==
  ASSUME IInv, PutBlocksBack PROVE Keeps
<1> DEFINE q == top
           s == q.items
           r == [q EXCEPT !.pc = q.after, !.after = "none", !.items = << >>]
<1>1. /\ Running /\ q.pc = "nextBlock" /\ RunsHere = {}
      /\ blocks' = s \o blocks /\ UNCHANGED events
      /\ stack' = [stack EXCEPT ![depth] = r]
  BY DEF PutBlocksBack, PutFirst, top
<1>2. q \in Runs /\ Local(q) /\ OrderedRun(q, blocks, done) /\ q = stack[depth]
  BY <1>1, TopFacts, TopOfStack DEF IInv
<1>3. /\ s \in Seq(Blocks) /\ \A i \in 1..Len(s) : q.mode \notin s[i].modes
  <2>1. s \in Seq(Blocks)
    BY <1>2 DEF Runs
  <2>2. DOMAIN s = 1..Len(s)
    BY <2>1
  <2> QED BY <1>1, <2>1, <2>2 DEF RunsHere
<1> HIDE DEF q
<1>4. q.after \in {"sources0", "decide", "result"}
      /\ (q.after = "decide" => q.handled)
  BY <1>1, <1>2 DEF Local, HasBlocks, Runs, Afters
<1>5. /\ r \in Runs /\ r.items = << >> /\ r.pc = q.after
      /\ r.mode = q.mode /\ r.after = "none" /\ r.stopped = q.stopped
      /\ r.handled = q.handled /\ r.ignoreWakeUps = q.ignoreWakeUps
  <2>1. q.after \in Labels /\ "none" \in Afters /\ << >> \in Seq(Blocks)
    BY <1>4 DEF Labels, Afters
  <2> QED BY <1>2, <2>1 DEF Runs
<1> HIDE DEF r
<1>6. /\ blocks \in Seq(Blocks) /\ done \in Nat /\ Sorted(blocks)
      /\ UpTo(blocks, done) /\ Sorted(s) /\ UpTo(s, done) /\ Before(s, blocks)
  BY <1>2 DEF IInv, Types, OrderInv, OrderedRun
<1>7. /\ blocks' \in Seq(Blocks) /\ Sorted(blocks') /\ UpTo(blocks', done)
      /\ \A k \in Nat : Above(k, s) /\ Above(k, blocks) => Above(k, blocks')
  BY <1>1, <1>3, <1>6, InFront
<1>8. OrderedRun(r, blocks', done)
  BY <1>4, <1>5 DEF OrderedRun, Sorted, UpTo, Before
<1>9. \A d \in 1..(depth - 1) :
        d \in 1..depth /\ depth \in 1..depth /\ d < depth
  <2>1. depth \in Nat \ {0}
    BY <1>1, TopOfStack DEF IInv
  <2> QED BY <2>1
<1>10. ASSUME NEW d \in 1..(depth - 1)
       PROVE  /\ OrderedPair(stack[d], r)
              /\ Before(stack[d].items, blocks')
              /\ stack[d].pc = "block" => Above(stack[d].now, blocks')
  <2> DEFINE p == stack[d]
  <2>1. OrderedPair(p, q) /\ OrderedRun(p, blocks, done)
    BY <1>2, <1>9 DEF IInv, OrderInv
  <2>2. p \in Runs
    BY <1>9 DEF IInv, Types, depth
  <2>3. p.now \in Nat /\ p.items \in Seq(Blocks)
    BY <2>2 DEF Runs
  <2>4. \A i \in 1..Len(p.items) : p.items[i].id \in Nat
    BY <2>3, BlockIds
  <2> HIDE DEF p
  <2>5. Before(p.items, blocks')
    BY <1>7, <2>1, <2>4 DEF OrderedPair, OrderedRun, Before
  <2>6. p.pc = "block" => Above(p.now, blocks')
    BY <1>7, <2>1, <2>3 DEF OrderedPair, OrderedRun
  <2>7. OrderedPair(p, r)
    BY <1>5 DEF OrderedPair, Before, Above
  <2> QED BY <2>5, <2>6, <2>7 DEF p
<1>11. OrderInv'
  BY <1>1, <1>5, <1>7, <1>8, <1>10, TopAndListOrder DEF events
<1>12. Local(r) /\ (Heedful(r) => Heedful(q) /\ r.pc = "sources0")
  BY <1>1, <1>2, <1>4, <1>5 DEF Local, Heedful, HasBlocks
<1>13. Types' /\ Locals' /\ Running' /\ top' = r
  <2>1. /\ UNCHANGED <<done, wakers>> /\ wakeUp' \in BOOLEAN
        /\ blocks' \in Seq(Blocks) /\ signalled' \subseteq Sources
        /\ owed' = signalled'
    BY <1>1, <1>7 DEF events, IInv, Types
  <2> QED BY <1>1, <1>5, <1>12, <2>1, TopStays
<1>14. Watch => Watch'
  <2>1. ASSUME Watch, Heedful(r), ~WakeUpComes'
        PROVE  /\ ~r.stopped /\ r.mode \notin stoppedModes'
               /\ \A i \in 1..Len(blocks') : r.mode \notin blocks'[i].modes
               /\ r.pc = "sources0"
    <3>1. /\ ~q.stopped /\ q.mode \notin stoppedModes
          /\ \A i \in 1..Len(blocks) : q.mode \notin blocks[i].modes
      BY <1>1, <1>12, <2>1 DEF Watch, Watched, WakeUpComes, events, q
    <3>2. \A i \in 1..Len(blocks') : q.mode \notin blocks'[i].modes
      <4>1. \A i \in 1..Len(blocks') :
              \/ i \in 1..Len(s) /\ blocks'[i] = s[i]
              \/ /\ i - Len(s) \in 1..Len(blocks)
                 /\ blocks'[i] = blocks[i - Len(s)]
        BY <1>1, <1>3, <1>6
      <4> QED BY <1>3, <3>1, <4>1
    <3> QED BY <1>1, <1>5, <1>12, <2>1, <3>1, <3>2 DEF events
  <2> QED BY <1>13, <2>1 DEF Watch, Watched
<1> QED BY <1>11, <1>13, <1>14 DEF Keeps, IInv

LEMMA CollectSources0Step ==
  ASSUME IInv, CollectSources0 PROVE Keeps
<1> DEFINE q == top
           c == ModeSources[q.mode] \cap signalled
           r == [q EXCEPT !.pc = "nextSource", !.sources = c]
<1>1. /\ Running /\ q.pc = "sources0" /\ UNCHANGED <<blocks, events>>
      /\ stack' = [stack EXCEPT ![depth] = r]
  BY DEF CollectSources0, top
<1>2. q \in Runs /\ Local(q) /\ OrderedRun(q, blocks, done)
      /\ wakeUp \in BOOLEAN /\ signalled \subseteq Sources /\ owed = signalled
  BY <1>1, TopFacts
<1> HIDE DEF q
<1>3. /\ r \in Runs /\ r.items = q.items /\ r.pc = "nextSource"
      /\ r.mode = q.mode /\ r.sources = c /\ r.stopped = q.stopped
      /\ r.handled = q.handled /\ r.ignoreWakeUps = q.ignoreWakeUps
  <2>1. c \subseteq Sources
    BY <1>2
  <2> HIDE DEF c
  <2> QED BY <1>2, <2>1 DEF Runs, Labels
<1> HIDE DEF r
<1>4. SameBlocks(q, r) /\ Local(r) /\ Heedful(q)
  BY <1>1, <1>2, <1>3 DEF SameBlocks, HasBlocks, OrderedRun, Local, Heedful
<1>5. IInv' /\ Running' /\ top' = r
  BY <1>1, <1>2, <1>3, <1>4, QuietTop DEF q, events
<1>6. Watch => Watch'
  BY <1>1, <1>2, <1>3, <1>4, <1>5
     DEF Watch, Watched, WakeUpComes, events, q
<1> QED BY <1>5, <1>6 DEF Keeps

LEMMA PerformSource0Step ==
  ASSUME IInv, PerformSource0 PROVE Keeps
<1> DEFINE q == top
           r(s) == [q EXCEPT !.pc = "source0", !.handled = TRUE,
                             !.sources = q.sources \ {s}]
           l(s) == [q EXCEPT !.sources = q.sources \ {s}]
<1>1. PICK s \in q.sources :
        /\ Running /\ q.pc = "nextSource"
        /\ UNCHANGED <<blocks, wakeUp, stoppedModes, wakers, done>>
        /\ \/ /\ signalled' = signalled \ {s} /\ owed' = owed \ {s}
              /\ stack' = [stack EXCEPT ![depth] = r(s)]
           \/ /\ s \notin signalled /\ UNCHANGED <<signalled, owed>>
              /\ stack' = [stack EXCEPT ![depth] = l(s)]
  <2>1. PICK s \in q.sources :
          IF s \in signalled
          THEN /\ signalled' = signalled \ {s}
               /\ owed' = owed \ {s}
               /\ stack' = [stack EXCEPT ![depth].pc = "source0",
                                         ![depth].handled = TRUE,
                                         ![depth].sources = @ \ {s}]
          ELSE /\ stack' = [stack EXCEPT ![depth].sources = @ \ {s}]
               /\ UNCHANGED <<signalled, owed>>
    BY DEF PerformSource0
  <2>2. /\ [stack EXCEPT ![depth].pc = "source0", ![depth].handled = TRUE,
                         ![depth].sources = @ \ {s}]
             = [stack EXCEPT ![depth] = r(s)]
        /\ [stack EXCEPT ![depth].sources = @ \ {s}]
             = [stack EXCEPT ![depth] = l(s)]
    BY DEF top
  <2>3. /\ Running /\ q.pc = "nextSource"
        /\ UNCHANGED <<blocks, wakeUp, stoppedModes, wakers, done>>
    BY DEF PerformSource0
  <2> HIDE DEF q, r, l
  <2> QED BY <2>1, <2>2, <2>3
<1>2. q \in Runs /\ Local(q) /\ OrderedRun(q, blocks, done)
      /\ wakeUp \in BOOLEAN /\ signalled \subseteq Sources /\ owed = signalled
  BY <1>1, TopFacts
<1>3. CASE stack' = [stack EXCEPT ![depth] = r(s)]
            /\ signalled' = signalled \ {s} /\ owed' = owed \ {s}
  <2> DEFINE p == r(s)
  <2>a. stack' = [stack EXCEPT ![depth] = p]
    BY <1>3
  <2> HIDE DEF q
  <2>1. /\ p \in Runs /\ p.items = q.items /\ p.pc = "source0"
        /\ p.mode = q.mode /\ p.handled = TRUE
    BY <1>2 DEF Runs, Labels, Callouts
  <2> HIDE DEF p
  <2>2. SameBlocks(q, p) /\ Local(p) /\ ~Heedful(p)
    BY <1>1, <1>2, <2>1 DEF SameBlocks, HasBlocks, OrderedRun, Local, Heedful
  <2>3. IInv' /\ Running' /\ top' = p
    BY <1>1, <1>2, <1>3, <2>a, <2>1, <2>2, QuietTop DEF q
  <2> QED BY <2>2, <2>3 DEF Keeps, Watch
<1>4. CASE /\ stack' = [stack EXCEPT ![depth] = l(s)]
           /\ s \notin signalled /\ UNCHANGED <<signalled, owed>>
  <2> DEFINE p == l(s)
  <2>a. stack' = [stack EXCEPT ![depth] = p]
    BY <1>4
  <2> HIDE DEF q
  <2>1. /\ p \in Runs /\ p.items = q.items /\ p.pc = q.pc
        /\ p.mode = q.mode /\ p.handled = q.handled /\ p.stopped = q.stopped
        /\ p.ignoreWakeUps = q.ignoreWakeUps /\ p.sources = q.sources \ {s}
        /\ p.after = q.after /\ p.poll = q.poll /\ p.now = q.now
    BY <1>2 DEF Runs
  <2> HIDE DEF p
  <2>2. SameBlocks(q, p) /\ Local(p) /\ (Heedful(p) => Heedful(q))
    BY <1>1, <1>2, <2>1 DEF SameBlocks, HasBlocks, OrderedRun, Local, Heedful
  <2>3. IInv' /\ Running' /\ top' = p
    BY <1>1, <1>2, <1>4, <2>a, <2>1, <2>2, QuietTop DEF q
  <2>4. Watch => Watch'
    BY <1>1, <1>2, <1>4, <2>1, <2>2, <2>3
       DEF Watch, Watched, WakeUpComes, q
  <2> QED BY <2>3, <2>4 DEF Keeps
<1> QED BY <1>1, <1>3, <1>4

LEMMA Source0ReturnsStep ==
  ASSUME IInv, Source0Returns PROVE Keeps
<1> DEFINE q == top
           c == IF q.stopAfterHandle THEN {} ELSE q.sources
           r == [q EXCEPT !.pc = "nextSource", !.sources = c]
<1>1. /\ Running /\ q.pc = "source0" /\ UNCHANGED <<blocks, events>>
      /\ stack' = [stack EXCEPT ![depth] = r]
  BY DEF Source0Returns, top
<1>2. q \in Runs /\ Local(q) /\ OrderedRun(q, blocks, done)
      /\ wakeUp \in BOOLEAN /\ signalled \subseteq Sources /\ owed = signalled
  BY <1>1, TopFacts
<1> HIDE DEF q
<1>3. /\ r \in Runs /\ r.items = q.items /\ r.pc = "nextSource"
      /\ r.mode = q.mode /\ r.handled = q.handled
  <2>1. c \subseteq Sources
    BY <1>2 DEF Runs
  <2> HIDE DEF c
  <2> QED BY <1>2, <2>1 DEF Runs, Labels
<1> HIDE DEF r
<1>4. SameBlocks(q, r) /\ Local(r) /\ ~Heedful(r)
  BY <1>1, <1>2, <1>3 DEF SameBlocks, HasBlocks, OrderedRun, Local, Heedful
<1>5. IInv' /\ Running' /\ top' = r
  BY <1>1, <1>2, <1>3, <1>4, QuietTop DEF q, events
<1> QED BY <1>4, <1>5 DEF Keeps, Watch

LEMMA Sources0DoneStep ==
  ASSUME IInv, Sources0Done PROVE Keeps
<1>1. /\ Running /\ top.pc = "nextSource" /\ top.sources = {}
      /\ UNCHANGED events
  BY DEF Sources0Done
<1>2. top \in Runs /\ Local(top) /\ OrderedRun(top, blocks, done)
      /\ wakeUp \in BOOLEAN /\ signalled \subseteq Sources /\ owed = signalled
  BY <1>1, TopFacts
<1>3. CASE top.handled
  <2>1. /\ stack' = [stack EXCEPT ![depth] = Takes(top, "decide")]
        /\ blocks' = << >>
    BY <1>3 DEF Sources0Done, DoBlocks, Takes, top
  <2>2. IInv' /\ Running' /\ top'.pc = "nextBlock" /\ top'.after = "decide"
    BY <1>1, <1>2, <1>3, <2>1, TakeBlocks DEF Afters
  <2> QED BY <2>2 DEF Keeps, Watch, Heedful, HasBlocks
<1>4. CASE ~top.handled
  <2> DEFINE q == top
             r == [q EXCEPT !.pc = "decide"]
  <2>1. stack' = [stack EXCEPT ![depth] = r] /\ blocks' = blocks
    BY <1>4 DEF Sources0Done, Goto, top
  <2> HIDE DEF q
  <2>2. /\ r \in Runs /\ r.items = q.items /\ r.pc = "decide"
        /\ r.mode = q.mode /\ r.handled = q.handled /\ r.stopped = q.stopped
        /\ r.ignoreWakeUps = q.ignoreWakeUps
    BY <1>2 DEF Runs, Labels, q
  <2> HIDE DEF r
  <2>3. SameBlocks(q, r) /\ Local(r) /\ Heedful(q)
    BY <1>1, <1>2, <1>4, <2>2
       DEF SameBlocks, HasBlocks, OrderedRun, Local, Heedful, q
  <2>4. IInv' /\ Running' /\ top' = r
    BY <1>1, <1>2, <2>1, <2>2, <2>3, QuietTop DEF q, events
  <2>5. Watch => Watch'
    BY <1>1, <1>2, <2>1, <2>2, <2>3, <2>4
       DEF Watch, Watched, WakeUpComes, events, q
  <2> QED BY <2>4, <2>5 DEF Keeps
<1> QED BY <1>3, <1>4

LEMMA DecideStep ==
  ASSUME IInv, Decide PROVE Keeps
<1> DEFINE q == top
           poll == q.handled \/ q.term = "zero"
           r == [q EXCEPT !.pc = IF poll THEN "wait" ELSE "beforeWaiting",
                          !.poll = poll]
<1>1. /\ Running /\ q.pc = "decide" /\ UNCHANGED <<blocks, events>>
      /\ stack' = [stack EXCEPT ![depth] = r]
  BY DEF Decide, top
<1>2. q \in Runs /\ Local(q) /\ OrderedRun(q, blocks, done)
      /\ wakeUp \in BOOLEAN /\ signalled \subseteq Sources /\ owed = signalled
  BY <1>1, TopFacts
<1> HIDE DEF q
<1>3. /\ r \in Runs /\ r.items = q.items /\ r.mode = q.mode
      /\ r.handled = q.handled /\ r.stopped = q.stopped /\ r.term = q.term
      /\ r.ignoreWakeUps = q.ignoreWakeUps
      /\ \/ r.pc = "wait" /\ r.poll
         \/ r.pc = "beforeWaiting" /\ ~q.handled /\ q.term # "zero"
  <2>1. CASE poll
    BY <1>2, <2>1 DEF Runs, Labels
  <2>2. CASE ~poll
    BY <1>2, <2>2 DEF Runs, Labels, Callouts, Observers
  <2> QED BY <2>1, <2>2
<1> HIDE DEF r
<1>4. SameBlocks(q, r) /\ Local(r)
      /\ (Heedful(r) => Heedful(q) /\ r.term # "zero")
  BY <1>1, <1>2, <1>3 DEF SameBlocks, HasBlocks, OrderedRun, Local, Heedful
<1>5. IInv' /\ Running' /\ top' = r
  BY <1>1, <1>2, <1>3, <1>4, QuietTop DEF q, events
<1>6. Watch => Watch'
  BY <1>1, <1>2, <1>3, <1>4, <1>5
     DEF Watch, Watched, WakeUpComes, events, q
<1> QED BY <1>5, <1>6 DEF Keeps

LEMMA ObserversReturnStep ==
  ASSUME IInv, ObserversReturn PROVE Keeps
<1> DEFINE q == top
           r(label) == [q EXCEPT !.pc = label]
<1>1. PICK label \in {"wait", "handle"} :
        /\ Running /\ UNCHANGED <<blocks, events>>
        /\ stack' = [stack EXCEPT ![depth] = r(label)]
        /\ \/ q.pc = "beforeWaiting" /\ label = "wait"
           \/ q.pc = "afterWaiting" /\ label = "handle"
  <2>1. CASE q.pc = "beforeWaiting" /\ Goto("wait")
    BY <2>1 DEF ObserversReturn, Goto, top
  <2>2. CASE q.pc = "afterWaiting" /\ Goto("handle")
    BY <2>2 DEF ObserversReturn, Goto, top
  <2> QED BY <2>1, <2>2 DEF ObserversReturn
<1> DEFINE p == r(label)
<1>a. stack' = [stack EXCEPT ![depth] = p]
  BY <1>1
<1>2. q \in Runs /\ Local(q) /\ OrderedRun(q, blocks, done)
      /\ wakeUp \in BOOLEAN /\ signalled \subseteq Sources /\ owed = signalled
  BY <1>1, TopFacts
<1> HIDE DEF q
<1>3. /\ p \in Runs /\ p.items = q.items /\ p.pc = label /\ p.mode = q.mode
      /\ p.handled = q.handled /\ p.stopped = q.stopped /\ p.term = q.term
      /\ p.ignoreWakeUps = q.ignoreWakeUps
  BY <1>2 DEF Runs, Labels
<1> HIDE DEF p
<1>4. SameBlocks(q, p) /\ Local(p)
      /\ (Heedful(p) => Heedful(q) /\ q.pc = "beforeWaiting" /\ p.pc = "wait")
  BY <1>1, <1>2, <1>3 DEF SameBlocks, HasBlocks, OrderedRun, Local, Heedful
<1>5. IInv' /\ Running' /\ top' = p
  BY <1>1, <1>a, <1>2, <1>3, <1>4, QuietTop DEF q, events
<1>6. Watch => Watch'
  BY <1>1, <1>2, <1>3, <1>4, <1>5
     DEF Watch, Watched, WakeUpComes, events, q
<1> QED BY <1>5, <1>6 DEF Keeps

LEMMA ReceiveStep ==
  ASSUME IInv, Receive PROVE Keeps
<1> DEFINE q == top
           r(p) == [q EXCEPT
             !.live = IF p = "port" THEN p ELSE "none", !.poll = FALSE,
             !.ignoreWakeUps = TRUE,
             !.pc = IF q.poll THEN "handle" ELSE "afterWaiting"]
<1>1. PICK p :
        /\ Running /\ q.pc = "wait"
        /\ stack' = [stack EXCEPT ![depth] = r(p)]
        /\ wakeUp' = (wakeUp /\ p # "wakeUp")
        /\ UNCHANGED <<blocks, signalled, owed, wakers, done>>
  <2> DEFINE live == (IF wakeUp THEN {"wakeUp"} ELSE {})
                     \cup (IF q.mode \in ports THEN {"port"} ELSE {})
             S == IF live = {} /\ q.poll THEN {"none"} ELSE live
             After(p) == [stack EXCEPT
               ![depth].live = IF p = "port" THEN p ELSE "none",
               ![depth].poll = FALSE,
               ![depth].ignoreWakeUps = TRUE,
               ![depth].pc = IF q.poll THEN "handle" ELSE "afterWaiting"]
  <2>1. PICK p \in S : /\ stack' = After(p)
                       /\ wakeUp' = (wakeUp /\ p # "wakeUp")
    BY DEF Receive
  <2>2. After(p) = [stack EXCEPT ![depth] = r(p)]
    BY DEF top
  <2>3. /\ Running /\ q.pc = "wait"
        /\ UNCHANGED <<blocks, signalled, owed, wakers, done>>
    BY DEF Receive
  <2> HIDE DEF S, After, q, r
  <2> QED BY <2>1, <2>2, <2>3
<1> DEFINE n == r(p)
<1>a. stack' = [stack EXCEPT ![depth] = n]
  BY <1>1
<1>2. q \in Runs /\ Local(q) /\ OrderedRun(q, blocks, done)
      /\ wakeUp \in BOOLEAN /\ signalled \subseteq Sources /\ owed = signalled
  BY <1>1, TopFacts
<1> HIDE DEF q
<1>3. /\ n \in Runs /\ n.items = q.items /\ n.mode = q.mode
      /\ n.pc \in {"handle", "afterWaiting"}
  <2> DEFINE lv == IF p = "port" THEN p ELSE "none"
             label == IF q.poll THEN "handle" ELSE "afterWaiting"
  <2>1. lv \in {"none", "port"} /\ label \in {"handle", "afterWaiting"}
    OBVIOUS
  <2>2. label \in Labels
    BY <2>1 DEF Labels, Callouts, Observers
  <2>3. n = [q EXCEPT !.live = lv, !.poll = FALSE, !.ignoreWakeUps = TRUE,
                      !.pc = label]
    OBVIOUS
  <2> HIDE DEF lv, label, n
  <2> QED BY <1>2, <2>1, <2>2, <2>3 DEF Runs
<1> HIDE DEF n
<1>4. SameBlocks(q, n) /\ Local(n) /\ ~Heedful(n)
  BY <1>1, <1>2, <1>3 DEF SameBlocks, HasBlocks, OrderedRun, Local, Heedful
<1>5. wakeUp' \in BOOLEAN
  BY <1>1
<1>6. IInv' /\ Running' /\ top' = n
  BY <1>1, <1>a, <1>2, <1>3, <1>4, <1>5, QuietTop DEF q
<1> QED BY <1>4, <1>6 DEF Keeps, Watch

LEMMA HandleStep ==
  ASSUME IInv, Handle \/ Source1Returns PROVE Keeps
<1>1. /\ Running /\ top.pc \in {"handle", "source1"} /\ UNCHANGED events
  BY DEF Handle, Source1Returns
<1>2. top \in Runs /\ Local(top) /\ OrderedRun(top, blocks, done)
      /\ wakeUp \in BOOLEAN /\ signalled \subseteq Sources /\ owed = signalled
  BY <1>1, TopFacts
<1>3. CASE DoBlocks("result")
  <2>1. /\ stack' = [stack EXCEPT ![depth] = Takes(top, "result")]
        /\ blocks' = << >>
    BY <1>3 DEF DoBlocks, Takes, top
  <2>2. IInv' /\ Running' /\ top'.pc = "nextBlock" /\ top'.after = "result"
    BY <1>1, <1>2, <2>1, TakeBlocks DEF Afters
  <2> QED BY <2>2 DEF Keeps, Watch, Heedful, HasBlocks
<1>4. CASE Handle /\ top.live = "port"
  <2> DEFINE q == top
             r == [q EXCEPT !.pc = "source1", !.live = "none",
                            !.handled = TRUE]
  <2>1. stack' = [stack EXCEPT ![depth] = r] /\ blocks' = blocks
        /\ q.pc = "handle"
    BY <1>4 DEF Handle, top
  <2> HIDE DEF q
  <2>2. /\ r \in Runs /\ r.items = q.items /\ r.pc = "source1"
        /\ r.mode = q.mode
    BY <1>2 DEF Runs, Labels, Callouts, q
  <2> HIDE DEF r
  <2>3. SameBlocks(q, r) /\ Local(r) /\ ~Heedful(r)
    BY <1>2, <2>1, <2>2
       DEF SameBlocks, HasBlocks, OrderedRun, Local, Heedful, q
  <2>4. IInv' /\ Running' /\ top' = r
    BY <1>1, <1>2, <2>1, <2>2, <2>3, QuietTop DEF q, events
  <2> QED BY <2>3, <2>4 DEF Keeps, Watch
<1> QED BY <1>3, <1>4 DEF Handle, Source1Returns

LEMMA ResultStep ==
  ASSUME IInv, NEW late \in BOOLEAN, Result(late) PROVE Keeps
<1> DEFINE q == top
           m == q.mode
           over == \/ q.handled /\ q.stopAfterHandle
                   \/ q.term = "zero" \/ late
           stop == q.stopped \/ m \in stoppedModes
           r == IF over THEN [q EXCEPT !.pc = "exit"]
                ELSE IF stop \/ ModeIsEmpty(m)
                THEN [q EXCEPT !.pc = "exit", !.stopped = FALSE]
                ELSE Turn(q)
<1>1. /\ Running /\ q.pc = "result"
      /\ stack' = [stack EXCEPT ![depth] = r]
      /\ stoppedModes' = IF over \/ q.stopped THEN stoppedModes
                         ELSE stoppedModes \ {m}
      /\ UNCHANGED <<blocks, signalled, owed, wakeUp, wakers, done>>
  BY DEF Result, top
<1>2. q \in Runs /\ Local(q) /\ OrderedRun(q, blocks, done)
      /\ wakeUp \in BOOLEAN /\ signalled \subseteq Sources /\ owed = signalled
  BY <1>1, TopFacts
<1> HIDE DEF q
<1>3. /\ r \in Runs /\ r.items = q.items /\ r.mode = m
      /\ \/ r.pc = "exit"
         \/ /\ r.pc = "beforeSources" /\ ~stop
            /\ r.stopped = q.stopped /\ r.ignoreWakeUps = FALSE
  <2>1. CASE over
    BY <1>2, <2>1 DEF Runs, Labels, Callouts, Observers
  <2>2. CASE ~over /\ (stop \/ ModeIsEmpty(m))
    BY <1>2, <2>2 DEF Runs, Labels, Callouts, Observers
  <2>3. CASE ~over /\ ~(stop \/ ModeIsEmpty(m))
    BY <1>2, <2>3 DEF Turn, Runs, Labels, Callouts, Observers
  <2> QED BY <2>1, <2>2, <2>3
<1> HIDE DEF r, over
<1>4. SameBlocks(q, r) /\ Local(r)
  BY <1>1, <1>2, <1>3 DEF SameBlocks, HasBlocks, OrderedRun, Local, Heedful
<1>5. IInv' /\ Running' /\ top' = r
  BY <1>1, <1>2, <1>3, <1>4, QuietTop DEF q
<1>6. Watch'
  <2>1. CASE r.pc = "exit"
    BY <1>5, <2>1 DEF Watch, Heedful, HasBlocks
  <2>2. CASE r.pc # "exit"
    BY <1>1, <1>3, <1>5, <2>2 DEF Watch, Watched
  <2> QED BY <2>1, <2>2
<1> QED BY <1>5, <1>6 DEF Keeps

-----------------------------------------------------------------------------
(* All steps *)

LEMMA Initially == Init => IInv /\ Watch
<1> SUFFICES ASSUME Init PROVE IInv /\ Watch
  OBVIOUS
<1>1. stack = << >> /\ blocks = << >> /\ depth = 0 /\ ~Running
  BY DEF Init, depth, Running
<1>2. Types
  <2>1. stack \in Seq(Runs) /\ blocks \in Seq(Blocks)
    BY <1>1
  <2>2. done \in Nat /\ wakers \in Nat /\ wakeUp \in BOOLEAN
    BY DEF Init
  <2>3. signalled \subseteq Sources /\ owed = signalled
    BY DEF Init
  <2> QED BY <2>1, <2>2, <2>3 DEF Types
<1>3. OrderInv
  BY <1>1 DEF OrderInv, Sorted, UpTo
<1>4. Locals
  BY <1>1 DEF Locals
<1> QED BY <1>1, <1>2, <1>3, <1>4 DEF IInv, Watch

LEMMA Stuttering ==
  ASSUME IInv, UNCHANGED vars PROVE Keeps
<1>1. /\ UNCHANGED <<stack, blocks, signalled, owed, wakeUp, stoppedModes>>
      /\ UNCHANGED <<wakers, done>>
  BY DEF vars, events
<1>2. Types' /\ done' >= done
  BY <1>1 DEF IInv, Types
<1>3. Watch => Watch'
  BY <1>1 DEF Watch, Running, Heedful, HasBlocks, Watched, WakeUpComes, top,
              depth
<1> QED BY <1>1, <1>2, <1>3, OutsideStep DEF Keeps

LEMMA EveryStep ==
  ASSUME IInv, [Next]_vars
  PROVE  IInv' /\ (NestFrom \cap Risky = {} /\ Watch => Watch')
<1>1. CASE UNCHANGED vars
  BY <1>1, Stuttering DEF Keeps
<1>2. CASE \E s \in Sources : CFRunLoopSourceSignal(s)
  BY <1>2, SignalStep DEF Keeps
<1>3. CASE \E ms \in SUBSET Modes \ {{}} : CFRunLoopPerformBlock(ms)
  BY <1>3, PerformBlockStep DEF Keeps
<1>4. CASE CFRunLoopStop
  BY <1>4, StopStep DEF Keeps
<1>5. CASE \E m \in Modes : CFRunLoopStopMode(m) \/ Message(m)
  BY <1>5, StopModeStep, MessageStep DEF Keeps
<1>6. CASE CFRunLoopWakeUp
  BY <1>6, WakeUpStep DEF Keeps
<1>7. CASE \E d \in DOMAIN stack : CFRunLoopTimeout(d)
  BY <1>7, TimeoutStep DEF Keeps
<1>8. CASE \E m \in Modes, stopAfterHandle \in BOOLEAN :
             CFRunLoopRunSpecific(m, stopAfterHandle)
  BY <1>8, RunStep DEF Keeps
<1>9. CASE Exited
  BY <1>9, ExitedStep
<1>10. CASE LoopStep /\ ~Exited
  BY <1>10, EnteredStep, DoBlocksFirstStep, NextBlockStep, BlockReturnsStep,
     PutBlocksBackStep, CollectSources0Step, PerformSource0Step,
     Source0ReturnsStep, Sources0DoneStep, DecideStep, ObserversReturnStep,
     ReceiveStep, HandleStep, ResultStep DEF LoopStep, Keeps
<1> QED BY <1>1, <1>2, <1>3, <1>4, <1>5, <1>6, <1>7, <1>8, <1>9, <1>10
        DEF Next

(* Whatever other threads, the callouts and nested runs add while a run    *)
(* has the list in its hands: blocks of a mode run in the order in which   *)
(* they were added.                                                        *)
THEOREM BlocksRunInOrder == Spec => []BlocksInOrder
<1>1. Init => IInv
  BY Initially
<1>2. IInv /\ [Next]_vars => IInv'
  BY EveryStep
<1>3. IInv => BlocksInOrder
  <2> SUFFICES ASSUME IInv, NEW d \in DOMAIN stack, stack[d].pc = "block"
               PROVE  /\ \A i \in DOMAIN stack[d].items :
                           stack[d].mode \in stack[d].items[i].modes =>
                             stack[d].items[i].id > stack[d].now
                      /\ d = depth => \A i \in DOMAIN blocks :
                           stack[d].mode \in blocks[i].modes =>
                             blocks[i].id > stack[d].now
    BY DEF BlocksInOrder
  <2>1. d \in 1..depth /\ stack[d] \in Runs /\ blocks \in Seq(Blocks)
    BY DEF IInv, Types, depth
  <2>2. /\ stack[d].items \in Seq(Blocks) /\ stack[d].now \in Nat
        /\ OrderedRun(stack[d], blocks, done)
    BY <2>1 DEF IInv, OrderInv, Runs
  <2>3. /\ DOMAIN stack[d].items = 1..Len(stack[d].items)
        /\ DOMAIN blocks = 1..Len(blocks)
    BY <2>1, <2>2
  <2>4. /\ \A i \in 1..Len(blocks) : blocks[i].id \in Nat
        /\ \A i \in 1..Len(stack[d].items) : stack[d].items[i].id \in Nat
    BY <2>1, <2>2, BlockIds
  <2> HIDE DEF IInv
  <2> QED BY <2>2, <2>3, <2>4 DEF OrderedRun, Above
<1> QED BY <1>1, <1>2, <1>3, PTL DEF Spec

(* Where no run begins inside the callouts of kCFRunLoopBeforeTimers,      *)
(* BeforeSources or BeforeWaiting or inside a block, a run never sleeps    *)
(* while there is something to do that nobody will wake it for: neither    *)
(* when wake ups are ignored, nor when they are merged, nor when the runs  *)
(* that other callouts begin take them.                                    *)
THEOREM NoWakeUpIsLost ==
  ASSUME NestFrom \cap Risky = {}
  PROVE  Spec => []NoLostWakeUp
<1>1. Init => IInv /\ Watch
  BY Initially
<1>2. (IInv /\ Watch) /\ [Next]_vars => (IInv /\ Watch)'
  BY EveryStep
<1>3. IInv /\ Watch => NoLostWakeUp
  <2>1. IInv => DOMAIN blocks = 1..Len(blocks)
    BY DEF IInv, Types
  <2> QED BY <2>1 DEF NoLostWakeUp, Watch, Watched, WakeUpComes, Heedful,
                      IInv, Types
<1> QED BY <1>1, <1>2, <1>3, PTL DEF Spec

-----------------------------------------------------------------------------
(***************************************************************************)
(* The timers of a run loop, which RunLoopTimer models: here runs is its   *)
(* stack and changes its done, whose names RunLoop has for its own.        *)
(***************************************************************************)
CONSTANTS
  Timers, Interval, Tolerance, AddTo, Movable, EarlyFires, AddsInvalid, MaxTime
VARIABLES
  now, fire, valid, firing, timers, deadline, armed, message, runs, setter,
  adding, leaving, changes

Timer == INSTANCE RunLoopTimer WITH stack <- runs, done <- changes

\* As RunLoopTimer assumes.
TimersFit ==
  /\ Movable \subseteq Timers
  /\ Interval \in [Timers -> Nat]
  /\ MaxTime \in Nat

LEMMA SetInduction ==
  ASSUME NEW S, 0 \in S, \A n \in Nat : n \in S => n + 1 \in S
  PROVE  Nat \subseteq S
<1> SUFFICES ASSUME NEW x \in Nat, x \notin S PROVE FALSE
  OBVIOUS
<1> DEFINE T == {n \in Nat : n \notin S}
<1>1. T \subseteq Nat /\ T # {}
  OBVIOUS
<1> HIDE DEF T
<1>2. PICK m \in T : \A k \in T : ~ (<<k, m>> \in OpToRel(<, Nat))
  BY <1>1, NatLessThanWellFounded, WFMin
<1>3. m \in Nat /\ m \notin S
  BY <1>2 DEF T
<1>4. m - 1 \in Nat /\ (m - 1) + 1 = m
  BY <1>3
<1>5. m - 1 < m
  BY <1>3
<1>6. m - 1 \notin T
  BY <1>2, <1>3, <1>4, <1>5 DEF OpToRel
<1>7. m - 1 \in S
  BY <1>4, <1>6 DEF T
<1> QED BY <1>3, <1>4, <1>7

-----------------------------------------------------------------------------
(* Powers of two *)

\* A function is one of powers of two up to n.
Doubles(f, n) ==
  \A i \in 0..n : f[i] = IF i = 0 THEN 1 ELSE 2 * f[i - 1]

LEMMA DoublesExist ==
  ASSUME NEW n \in Nat
  PROVE  \E f : Doubles(f, n)
<1> DEFINE S == {m \in Nat : \E f : Doubles(f, m)}
<1>1. 0 \in S
  <2> DEFINE f == [i \in {0} |-> 1]
  <2>1. Doubles(f, 0)
    BY DEF Doubles
  <2> QED BY <2>1
<1>2. ASSUME NEW m \in Nat, m \in S PROVE m + 1 \in S
  <2>1. PICK g : Doubles(g, m)
    BY <1>2
  <2> DEFINE f == [i \in 0..(m + 1) |-> IF i = m + 1 THEN 2 * g[m] ELSE g[i]]
  <2>2. \A i \in 0..(m + 1) : f[i] = IF i = m + 1 THEN 2 * g[m] ELSE g[i]
    OBVIOUS
  <2> HIDE DEF f
  <2>3. ASSUME NEW i \in 0..(m + 1)
        PROVE  f[i] = IF i = 0 THEN 1 ELSE 2 * f[i - 1]
    <3>1. CASE i = m + 1
      <4>1. i - 1 = m /\ i # 0 /\ m \in 0..(m + 1) /\ m # m + 1
        BY <3>1
      <4> QED BY <2>2, <3>1, <4>1
    <3>2. CASE i # m + 1
      <4>1. i \in 0..m /\ f[i] = g[i]
        BY <2>2, <3>2
      <4>2. i # 0 => i - 1 \in 0..(m + 1) /\ i - 1 # m + 1
        BY <3>2
      <4>3. i # 0 => f[i - 1] = g[i - 1]
        BY <2>2, <4>2
      <4> QED BY <2>1, <4>1, <4>3 DEF Doubles
    <3> QED BY <3>1, <3>2
  <2>4. Doubles(f, m + 1)
    BY <2>3 DEF Doubles
  <2> QED BY <2>4
<1> HIDE DEF S
<1>3. n \in S
  BY <1>1, <1>2, SetInduction
<1> QED BY <1>3 DEF S

LEMMA DoublesUnique ==
  ASSUME NEW n \in Nat, NEW m \in Nat, n <= m, NEW f, NEW g,
         Doubles(f, n), Doubles(g, m)
  PROVE  f[n] = g[n]
<1> DEFINE S == {j \in Nat : j <= n => f[j] = g[j]}
<1>1. 0 \in S
  BY DEF Doubles
<1>2. ASSUME NEW j \in Nat, j \in S PROVE j + 1 \in S
  <2> SUFFICES ASSUME j + 1 <= n PROVE f[j + 1] = g[j + 1]
    OBVIOUS
  <2>1. PICK i : i = j + 1
    OBVIOUS
  <2>2. i \in 0..n /\ i \in 0..m /\ i # 0 /\ i - 1 = j /\ f[j] = g[j]
    BY <1>2, <2>1
  <2> HIDE DEF S
  <2>3. f[i] = 2 * f[i - 1] /\ g[i] = 2 * g[i - 1]
    BY <2>2 DEF Doubles
  <2> QED BY <2>1, <2>2, <2>3
<1> HIDE DEF S
<1>3. n \in S
  BY <1>1, <1>2, SetInduction
<1> QED BY <1>3 DEF S

LEMMA ShiftedIs ==
  \A n \in Nat :
    Timer!Shifted[n] = IF n = 0 THEN 1 ELSE 2 * Timer!Shifted[n - 1]
<1> DEFINE D(f) == f = [n \in Nat |-> IF n = 0 THEN 1 ELSE 2 * f[n - 1]]
<1> DEFINE g == [n \in Nat |-> (CHOOSE f : Doubles(f, n))[n]]
<1>1. ASSUME NEW n \in Nat
      PROVE  g[n] = IF n = 0 THEN 1 ELSE 2 * g[n - 1]
  <2>1. PICK f : f = CHOOSE h : Doubles(h, n)
    OBVIOUS
  <2>2. Doubles(f, n) /\ g[n] = f[n]
    BY <2>1, DoublesExist
  <2>3. CASE n = 0
    BY <2>2, <2>3 DEF Doubles
  <2>4. CASE n # 0
    <3>1. PICK m \in Nat : m = n - 1 /\ m <= n
      BY <2>4
    <3>2. PICK h : h = CHOOSE e : Doubles(e, m)
      OBVIOUS
    <3>3. Doubles(h, m) /\ g[m] = h[m]
      BY <3>1, <3>2, DoublesExist
    <3>4. h[m] = f[m]
      BY <2>2, <3>1, <3>3, DoublesUnique
    <3>5. f[n] = 2 * f[m]
      BY <2>2, <2>4, <3>1 DEF Doubles
    <3> QED BY <2>2, <2>4, <3>1, <3>3, <3>4, <3>5
  <2> QED BY <2>3, <2>4
<1> HIDE DEF g
<1>2. \E f : D(f)
  <2> DEFINE f == [n \in Nat |-> g[n]]
  <2>1. ASSUME NEW n \in Nat
        PROVE  f[n] = IF n = 0 THEN 1 ELSE 2 * f[n - 1]
    <3>1. n # 0 => n - 1 \in Nat
      OBVIOUS
    <3> QED BY <1>1, <3>1
  <2>2. f = [n \in Nat |-> f[n]]
    OBVIOUS
  <2> HIDE DEF f
  <2>3. D(f)
    BY <2>1, <2>2
  <2> QED BY <2>3
<1>3. D(Timer!Shifted)
  <2> HIDE DEF D
  <2>1. Timer!Shifted = CHOOSE f : D(f)
    BY DEF Timer!Shifted, D
  <2> QED BY <1>2, <2>1
<1> QED BY <1>3

LEMMA ShiftedGrows ==
  \A n \in Nat : Timer!Shifted[n] \in Nat /\ Timer!Shifted[n] > n
<1> DEFINE S == {n \in Nat : Timer!Shifted[n] \in Nat /\ Timer!Shifted[n] > n}
<1>1. 0 \in S
  BY ShiftedIs
<1>2. ASSUME NEW n \in Nat, n \in S PROVE n + 1 \in S
  <2>1. PICK m \in Nat : m = n + 1 /\ m # 0 /\ m - 1 = n
    OBVIOUS
  <2>2. Timer!Shifted[m] = 2 * Timer!Shifted[n]
    BY <2>1, ShiftedIs
  <2>3. PICK s : s = Timer!Shifted[n]
    OBVIOUS
  <2>4. s \in Nat /\ s > n
    BY <1>2, <2>3
  <2>5. 2 * s \in Nat /\ 2 * s > n + 1
    BY <2>4
  <2> QED BY <2>1, <2>2, <2>3, <2>5
<1> HIDE DEF S
<1>3. Nat \subseteq S
  BY <1>1, <1>2, SetInduction
<1> QED BY <1>3 DEF S

LEMMA flslIs ==
  ASSUME NEW n \in Nat
  PROVE  Timer!flsl(n) \in Nat /\ Timer!Shifted[Timer!flsl(n)] > n
<1> DEFINE Enough == {b \in Nat : Timer!Shifted[b] > n}
<1> DEFINE P(b) == /\ Timer!Shifted[b] > n
                   /\ \A c \in 0..(b - 1) : Timer!Shifted[c] <= n
<1>1. n \in Enough
  BY ShiftedGrows
<1>2. Enough \subseteq Nat /\ Enough # {}
  BY <1>1
<1> HIDE DEF Enough
<1>3. PICK b \in Enough : \A c \in Enough : ~ (<<c, b>> \in OpToRel(<, Nat))
  BY <1>2, NatLessThanWellFounded, WFMin
<1>4. b \in Nat /\ Timer!Shifted[b] > n
  BY <1>3 DEF Enough
<1>5. \A c \in Enough : b <= c
  <2> SUFFICES ASSUME NEW c \in Enough, ~ (b <= c) PROVE FALSE
    OBVIOUS
  <2>1. c \in Nat /\ c < b
    BY <1>2, <1>4
  <2> QED BY <1>3, <1>4, <2>1 DEF OpToRel
<1>6. b \in 0..n
  BY <1>1, <1>4, <1>5
<1>7. ASSUME NEW c \in 0..(b - 1) PROVE Timer!Shifted[c] <= n
  <2>1. c \in Nat /\ ~ (b <= c)
    BY <1>4
  <2>2. c \notin Enough
    BY <1>5, <2>1
  <2> QED BY <2>1, <2>2, ShiftedGrows DEF Enough
<1>8. P(b)
  BY <1>4, <1>7
<1>9. Timer!flsl(n) = CHOOSE a \in 0..n : P(a)
  BY DEF Timer!flsl
<1> HIDE DEF P
<1>10. Timer!flsl(n) \in 0..n /\ P(Timer!flsl(n))
  BY <1>6, <1>8, <1>9
<1> QED BY <1>10 DEF P

-----------------------------------------------------------------------------
(* The binary search *)

\* The times of a list do not decrease.
Ascending(list, times) ==
  \A i, j \in 1..Len(list) : i < j => times[list[i]] <= times[list[j]]

\* The first place, from 0, from which on the list's times are later.
IsPlace(c, list, times, time) ==
  /\ c \in 0..Len(list)
  /\ \A i \in 1..c : times[list[i]] <= time
  /\ \A i \in (c + 1)..Len(list) : time < times[list[i]]

LEMMA PlaceExists ==
  ASSUME NEW T, NEW list \in Seq(T), NEW times \in [T -> Int], NEW time \in Int,
         Ascending(list, times)
  PROVE  \E c : IsPlace(c, list, times, time)
<1>1. PICK n \in Nat : n = Len(list)
  OBVIOUS
<1>2. \A i \in 1..n : times[list[i]] \in Int
  BY <1>1
<1> DEFINE Later == {c \in Nat : \/ c >= n
                                 \/ time < times[list[c + 1]]}
<1>3. n \in Later /\ Later \subseteq Nat
  BY <1>1
<1>4. \A c \in Nat : c \in Later <=> c >= n \/ time < times[list[c + 1]]
  OBVIOUS
<1> HIDE DEF Later
<1>5. PICK c \in Later : \A d \in Later : ~ (<<d, c>> \in OpToRel(<, Nat))
  BY <1>3, NatLessThanWellFounded, WFMin
<1>6. c \in Nat
  BY <1>3, <1>5
<1>7. \A d \in Later : c <= d
  <2> SUFFICES ASSUME NEW d \in Later, ~ (c <= d) PROVE FALSE
    OBVIOUS
  <2>1. d \in Nat /\ d < c
    BY <1>3, <1>6
  <2> QED BY <1>5, <1>6, <2>1 DEF OpToRel
<1>8. c <= n
  BY <1>3, <1>7
<1>9. ASSUME NEW i \in 1..c PROVE times[list[i]] <= time
  <2>1. PICK d \in Nat : d = i - 1 /\ d + 1 = i /\ d < c /\ d < n
    BY <1>1, <1>6, <1>8
  <2>2. d \notin Later
    BY <1>6, <1>7, <2>1
  <2>3. ~ (time < times[list[i]])
    BY <1>4, <2>1, <2>2
  <2>4. i \in 1..n
    BY <1>1, <1>6, <1>8
  <2> QED BY <1>2, <2>3, <2>4
<1>10. ASSUME NEW i \in (c + 1)..n PROVE time < times[list[i]]
  <2>1. c < n /\ c + 1 \in 1..n /\ i \in 1..n
    BY <1>1, <1>6
  <2>2. time < times[list[c + 1]]
    <3>1. ~ (c >= n)
      BY <1>1, <1>6, <2>1
    <3> QED BY <1>4, <1>5, <1>6, <3>1
  <2>3. PICK e : e = c + 1
    OBVIOUS
  <2>4. e \in 1..n /\ (e = i \/ e < i)
    BY <1>6, <2>1, <2>3
  <2>5. times[list[e]] <= times[list[i]]
    <3>1. CASE e = i
      BY <1>2, <2>4, <3>1
    <3>2. CASE e < i
      BY <1>1, <2>1, <2>4, <3>2 DEF Ascending
    <3> QED BY <2>4, <3>1, <3>2
  <2>6. PICK x, y, z : /\ x = time /\ y = times[list[e]] /\ z = times[list[i]]
                       /\ x \in Int /\ y \in Int /\ z \in Int
    BY <1>2, <2>1, <2>4
  <2>7. x < y /\ y <= z
    BY <2>2, <2>3, <2>5, <2>6
  <2>8. x < z
    BY ONLY <2>6, <2>7
  <2> QED BY <2>6, <2>8
<1> QED BY <1>1, <1>6, <1>8, <1>9, <1>10 DEF IsPlace


LeqAt(i, list, times, time) == i < Len(list) /\ times[list[i + 1]] <= time

LEMMA LeqIs ==
  ASSUME NEW T, NEW list \in Seq(T), NEW times \in [T -> Int], NEW time \in Int,
         NEW c, IsPlace(c, list, times, time), NEW i \in Nat
  PROVE  LeqAt(i, list, times, time) <=> i < c
<1>1. PICK n \in Nat : n = Len(list)
  OBVIOUS
<1>2. \A j \in 1..n : times[list[j]] \in Int
  BY <1>1
<1>3. /\ c \in 0..n /\ \A j \in 1..c : times[list[j]] <= time
      /\ \A j \in (c + 1)..n : time < times[list[j]]
  BY <1>1 DEF IsPlace
<1>4. PICK j \in Nat : j = i + 1
  OBVIOUS
<1>5. CASE i < c
  <2>1. j \in 1..c /\ i < n
    BY <1>3, <1>4, <1>5
  <2> QED BY <1>1, <1>3, <1>4, <1>5, <2>1 DEF LeqAt
<1>6. CASE i >= c /\ i < n
  <2>1. j \in (c + 1)..n /\ j \in 1..n
    BY <1>1, <1>3, <1>4, <1>6
  <2>2. times[list[j]] \in Int /\ time < times[list[j]]
    BY <1>2, <1>3, <2>1
  <2>3. ~ (times[list[j]] <= time)
    BY <2>2
  <2>4. ~ (i < c)
    BY <1>3, <1>6
  <2> QED BY <1>4, <2>3, <2>4 DEF LeqAt
<1>7. CASE i >= n
  <2>1. ~ (i < c) /\ ~ (i < n)
    BY <1>1, <1>3, <1>7
  <2> QED BY <1>1, <2>1 DEF LeqAt
<1> QED BY <1>1, <1>3, <1>5, <1>6, <1>7

\* What is found after one more probe.
Probe(before, step, list, times, time) ==
  IF LeqAt(before + step, list, times, time) THEN before + step ELSE before

\* A function that says what is found after each number of probes.
Probes(f, bits, m, list, times, time) ==
  \A k \in 0..m :
    f[k] = IF k = 0 THEN 0
           ELSE Probe(f[k - 1], Timer!Shifted[bits + 1 - k], list, times, time)

LEMMA ProbesExist ==
  ASSUME NEW bits, NEW list, NEW times, NEW time, NEW n \in Nat
  PROVE  \E f : Probes(f, bits, n, list, times, time)
<1> DEFINE P(f, m) == Probes(f, bits, m, list, times, time)
<1> DEFINE After(x, k) ==
      Probe(x, Timer!Shifted[bits + 1 - k], list, times, time)
<1>0. \A f, m : P(f, m) <=>
        \A k \in 0..m : f[k] = IF k = 0 THEN 0 ELSE After(f[k - 1], k)
  BY Zenon DEF Probes
<1> HIDE DEF P, After
<1> DEFINE S == {m \in Nat : \E f : P(f, m)}
<1>1. 0 \in S
  <2> DEFINE f == [i \in {0} |-> 0]
  <2>1. P(f, 0)
    BY <1>0
  <2> QED BY <2>1
<1>2. ASSUME NEW m \in Nat, m \in S PROVE m + 1 \in S
  <2>1. PICK g : P(g, m)
    BY <1>2
  <2>2. PICK k \in Nat : k = m + 1
    OBVIOUS
  <2>3. PICK x : x = After(g[m], k)
    OBVIOUS
  <2> DEFINE f == [i \in 0..k |-> IF i = k THEN x ELSE g[i]]
  <2>4. \A i \in 0..k : f[i] = IF i = k THEN x ELSE g[i]
    OBVIOUS
  <2> HIDE DEF f
  <2>5. ASSUME NEW i \in 0..k
        PROVE  f[i] = IF i = 0 THEN 0 ELSE After(f[i - 1], i)
    <3>1. CASE i = k
      <4>1. i - 1 = m /\ i # 0 /\ m \in 0..k /\ m # k
        BY <2>2, <3>1
      <4>2. f[m] = g[m] /\ f[i] = x
        BY <2>4, <3>1, <4>1
      <4> QED BY <2>3, <3>1, <4>1, <4>2
    <3>2. CASE i # k
      <4>1. i \in 0..m /\ f[i] = g[i]
        BY <2>2, <2>4, <3>2
      <4>2. i # 0 => i - 1 \in 0..k /\ i - 1 # k
        BY <2>2, <3>2
      <4>3. i # 0 => f[i - 1] = g[i - 1]
        BY <2>4, <4>2
      <4>4. g[i] = IF i = 0 THEN 0 ELSE After(g[i - 1], i)
        BY <1>0, <2>1, <4>1
      <4> QED BY <4>1, <4>3, <4>4
    <3> QED BY <3>1, <3>2
  <2>6. P(f, k)
    BY <1>0, <2>5
  <2> QED BY <2>2, <2>6
<1> HIDE DEF S
<1>3. n \in S
  BY <1>1, <1>2, SetInduction
<1> QED BY <1>3 DEF S, P

\* With c the place, what is found is below it, and not farther from it than
\* the last step.
LEMMA ProbesApproach ==
  ASSUME NEW T, NEW list \in Seq(T), NEW times \in [T -> Int], NEW time \in Int,
         NEW c, IsPlace(c, list, times, time), NEW bits \in Nat,
         Timer!Shifted[bits] > Len(list),
         NEW f, Probes(f, bits, bits + 1, list, times, time)
  PROVE  LET v == f[bits + 1]
         IN v \in Nat /\ (v = 0 \/ v < c) /\ c <= v + 1
<1>1. PICK n \in Nat : n = Len(list)
  OBVIOUS
<1>2. c \in Nat /\ c <= n
  BY <1>1 DEF IsPlace
<1> DEFINE Near(k) ==
      /\ f[k] \in Nat /\ (f[k] = 0 \/ f[k] < c)
      /\ c <= f[k] + Timer!Shifted[bits + 1 - k]
<1> DEFINE S == {k \in Nat : k <= bits + 1 => Near(k)}
<1>3. 0 \in S
  <2>1. f[0] = 0
    BY DEF Probes
  <2>2. PICK b \in Nat : b = bits + 1 /\ b # 0 /\ b - 1 = bits /\ b - 0 = b
    OBVIOUS
  <2>3. Timer!Shifted[b] = 2 * Timer!Shifted[bits]
    BY <2>2, ShiftedIs
  <2>4. PICK s \in Nat : s = Timer!Shifted[bits] /\ s > n
    BY <1>1, ShiftedGrows
  <2>5. c <= 0 + 2 * s
    BY <1>2, <2>4
  <2>6. Near(0)
    BY <2>1, <2>2, <2>3, <2>4, <2>5
  <2> QED BY <2>6
<1>4. ASSUME NEW k \in Nat, k \in S PROVE k + 1 \in S
  <2> SUFFICES ASSUME k + 1 <= bits + 1 PROVE Near(k + 1)
    OBVIOUS
  <2>1. PICK j \in Nat : j = k + 1 /\ j # 0 /\ j - 1 = k /\ j \in 0..(bits + 1)
    OBVIOUS
  <2>2. PICK b \in Nat : b = bits + 1 - j /\ b + 1 = bits + 1 - k
    BY <2>1
  <2>3. Near(k)
    BY <1>4
  <2>4. Timer!Shifted[b + 1] = 2 * Timer!Shifted[b]
    <3>1. PICK a \in Nat : a = b + 1 /\ a # 0 /\ a - 1 = b
      OBVIOUS
    <3> QED BY <3>1, ShiftedIs
  <2>5. PICK s \in Nat : s = Timer!Shifted[b]
    BY ShiftedGrows
  <2>6. PICK v \in Nat : v = f[k]
    BY <2>3
  <2>7. (v = 0 \/ v < c) /\ c <= v + 2 * s
    BY <2>2, <2>3, <2>4, <2>5, <2>6
  <2>8. f[j] = Probe(v, s, list, times, time)
    BY <2>1, <2>2, <2>5, <2>6 DEF Probes
  <2>9. PICK w \in Nat : w = v + s
    OBVIOUS
  <2>10. LeqAt(w, list, times, time) <=> w < c
    BY LeqIs
  <2>11. f[j] = IF w < c THEN w ELSE v
    BY <2>8, <2>9, <2>10 DEF Probe
  <2>12. f[j] \in Nat /\ (f[j] = 0 \/ f[j] < c) /\ c <= f[j] + s
    <3>1. CASE w < c
      <4>1. f[j] = w /\ c <= w + s
        BY <1>2, <2>7, <2>9, <2>11, <3>1
      <4> QED BY <3>1, <4>1
    <3>2. CASE ~ (w < c)
      <4>1. f[j] = v /\ c <= v + s
        BY <1>2, <2>9, <2>11, <3>2
      <4> QED BY <2>7, <4>1
    <3> QED BY <3>1, <3>2
  <2> QED BY <2>1, <2>2, <2>5, <2>12
<1>5. PICK b \in Nat : b = bits + 1 /\ b <= bits + 1 /\ bits + 1 - b = 0
  OBVIOUS
<1>6. b \in S
  <2> HIDE DEF S
  <2> QED BY <1>3, <1>4, SetInduction
<1>7. Near(b)
  BY <1>5, <1>6
<1>8. Timer!Shifted[0] = 1
  BY ShiftedIs
<1> QED BY <1>5, <1>7, <1>8

\* The binary search finds the place.
LEMMA InsertionIndexIs ==
  ASSUME NEW T, NEW list \in Seq(T), NEW times \in [T -> Int], NEW time \in Int,
         Ascending(list, times)
  PROVE  IsPlace(Timer!InsertionIndex(list, times, time), list, times, time)
<1>1. PICK c : IsPlace(c, list, times, time)
  BY PlaceExists
<1>2. PICK n \in Nat : n = Len(list) /\ c \in 0..n
  BY <1>1 DEF IsPlace
<1>3. PICK bits \in Nat : /\ bits = Timer!flsl(Len(list))
                         /\ Timer!Shifted[bits] > Len(list)
  BY <1>2, flslIs
<1> DEFINE J(f) ==
      f = [k \in 0..(bits + 1) |->
             IF k = 0 THEN 0
             ELSE Probe(f[k - 1], Timer!Shifted[bits + 1 - k],
                        list, times, time)]
<1> DEFINE last == (CHOOSE f : J(f))[bits + 1]
<1>4. Timer!InsertionIndex(list, times, time) =
        IF LeqAt(last, list, times, time) THEN last + 1 ELSE last
  BY <1>3 DEF Timer!InsertionIndex, LeqAt, Probe
<1>5. \E f : J(f)
  <2>1. bits + 1 \in Nat
    OBVIOUS
  <2>2. PICK g : Probes(g, bits, bits + 1, list, times, time)
    BY <2>1, ProbesExist
  <2> DEFINE f == [k \in 0..(bits + 1) |-> g[k]]
  <2>3. ASSUME NEW k \in 0..(bits + 1)
        PROVE  f[k] = IF k = 0 THEN 0
                 ELSE Probe(f[k - 1], Timer!Shifted[bits + 1 - k],
                            list, times, time)
    <3>1. k # 0 => k - 1 \in 0..(bits + 1)
      OBVIOUS
    <3>2. f[k] = g[k] /\ (k # 0 => f[k - 1] = g[k - 1])
      BY <3>1
    <3> HIDE DEF f
    <3> QED BY <2>2, <3>2 DEF Probes
  <2>4. f = [k \in 0..(bits + 1) |-> f[k]]
    OBVIOUS
  <2> HIDE DEF f
  <2>5. J(f)
    BY <2>3, <2>4
  <2> QED BY <2>5
<1>6. PICK f : f = CHOOSE h : J(h)
  OBVIOUS
<1> HIDE DEF J
<1>7. J(f)
  BY <1>5, <1>6
<1>8. Probes(f, bits, bits + 1, list, times, time)
  BY <1>7 DEF J, Probes
<1>9. PICK v : v = f[bits + 1] /\ last = v
  BY <1>6
<1>10. v \in Nat /\ (v = 0 \/ v < c) /\ c <= v + 1
  BY <1>1, <1>3, <1>8, <1>9, ProbesApproach
<1>11. LeqAt(v, list, times, time) <=> v < c
  BY <1>1, <1>10, LeqIs
<1>12. Timer!InsertionIndex(list, times, time) = IF v < c THEN v + 1 ELSE v
  BY <1>4, <1>9, <1>11
<1>13. Timer!InsertionIndex(list, times, time) = c
  BY <1>2, <1>10, <1>12
<1> QED BY <1>1, <1>13

-----------------------------------------------------------------------------
(* Lists of timers *)

Once(list) == \A i, j \in 1..Len(list) : list[i] = list[j] => i = j

\* One list is another without the element at a place.
IsRemoved(r, list, p) ==
  /\ p \in 1..Len(list) /\ Len(r) = Len(list) - 1
  /\ \A i \in 1..Len(r) : r[i] = IF i < p THEN list[i] ELSE list[i + 1]

LEMMA WithoutIs ==
  ASSUME NEW T, NEW list \in Seq(T), NEW t
  PROVE  /\ Timer!Without(list, t) \in Seq(T)
         /\ \/ /\ \A i \in 1..Len(list) : list[i] # t
               /\ Timer!Without(list, t) = list
            \/ \E p \in 1..Len(list) :
                 list[p] = t /\ IsRemoved(Timer!Without(list, t), list, p)
<1> DEFINE I == {i \in DOMAIN list : list[i] = t}
<1>1. CASE \A i \in 1..Len(list) : list[i] # t
  <2>1. Timer!Without(list, t) = list
    BY <1>1 DEF Timer!Without, Timer!Contains
  <2> QED BY <1>1, <2>1
<1>2. CASE \E i \in 1..Len(list) : list[i] = t
  <2>1. I \subseteq Nat /\ I # {}
    BY <1>2
  <2>2. \A i \in I : i \in 1..Len(list) /\ list[i] = t
    OBVIOUS
  <2>3. PICK m : m = Timer!Least(I)
    OBVIOUS
  <2>4. Timer!Without(list, t) =
          [i \in 1..(Len(list) - 1) |-> IF i < m THEN list[i] ELSE list[i + 1]]
    BY <1>2, <2>3 DEF Timer!Without, Timer!Contains
  <2> HIDE DEF I
  <2>5. PICK p \in I : \A q \in I : ~ (<<q, p>> \in OpToRel(<, Nat))
    BY <2>1, NatLessThanWellFounded, WFMin
  <2>6. \A q \in I : p <= q
    <3> SUFFICES ASSUME NEW q \in I, ~ (p <= q) PROVE FALSE
      OBVIOUS
    <3>1. p \in I
      BY <2>5
    <3>2. q \in Nat /\ p \in Nat
      BY <2>1, <3>1
    <3>3. q < p
      BY <3>2
    <3> QED BY <2>5, <3>2, <3>3 DEF OpToRel
  <2>7. m \in I
    BY <2>1, <2>3, <2>6 DEF Timer!Least
  <2>8. PICK n \in Nat : n = Len(list)
    OBVIOUS
  <2>9. m \in 1..n /\ list[m] = t
    BY <2>2, <2>7, <2>8
  <2>10. PICK r : r = [i \in 1..(n - 1) |->
                         IF i < m THEN list[i] ELSE list[i + 1]]
    OBVIOUS
  <2>11. \A i \in 1..(n - 1) : list[i] \in T /\ list[i + 1] \in T
    BY <2>8
  <2>12. r \in Seq(T) /\ Len(r) = n - 1
    <3>1. n - 1 \in Nat
      BY <2>9
    <3>2. r \in [1..(n - 1) -> T]
      BY <2>10, <2>11
    <3> QED BY <3>1, <3>2
  <2>13. \A i \in 1..(n - 1) : r[i] = IF i < m THEN list[i] ELSE list[i + 1]
    BY <2>10
  <2>14. IsRemoved(r, list, m)
    BY <2>8, <2>9, <2>12, <2>13 DEF IsRemoved
  <2> QED BY <2>4, <2>8, <2>9, <2>10, <2>12, <2>14
<1> QED BY <1>1, <1>2

\* One list is another with an element before a place.
IsInserted(r, list, p, t) ==
  /\ p \in 1..(Len(list) + 1) /\ Len(r) = Len(list) + 1
  /\ \A i \in 1..Len(r) :
       r[i] = IF i < p THEN list[i] ELSE IF i = p THEN t ELSE list[i - 1]

LEMMA InsertAtIs ==
  ASSUME NEW T, NEW list \in Seq(T), NEW t \in T, NEW p \in 1..(Len(list) + 1)
  PROVE  Timer!InsertAt(list, p, t) \in Seq(T)
         /\ IsInserted(Timer!InsertAt(list, p, t), list, p, t)
<1>1. PICK n \in Nat : n = Len(list)
  OBVIOUS
<1>2. PICK a, b, c, r : /\ a = SubSeq(list, 1, p - 1)
                        /\ b = SubSeq(list, p, n)
                        /\ c = a \o <<t>> /\ r = c \o b
  OBVIOUS
<1>3. Timer!InsertAt(list, p, t) = r
  BY <1>1, <1>2 DEF Timer!InsertAt
<1>4. p \in 1..(n + 1)
  BY <1>1
<1>5. a \in Seq(T) /\ Len(a) = p - 1 /\ \A i \in 1..(p - 1) : a[i] = list[i]
  BY <1>1, <1>2, <1>4
<1>6. /\ b \in Seq(T) /\ Len(b) = n + 1 - p
      /\ \A i \in 1..(n + 1 - p) : b[i] = list[p + i - 1]
  BY <1>1, <1>2, <1>4
<1>7. /\ c \in Seq(T) /\ Len(c) = p /\ c[p] = t
      /\ \A i \in 1..(p - 1) : c[i] = a[i]
  BY <1>2, <1>4, <1>5
<1>8. /\ r \in Seq(T) /\ Len(r) = n + 1
      /\ \A i \in 1..(n + 1) : r[i] = IF i <= p THEN c[i] ELSE b[i - p]
  <2>1. /\ r \in Seq(T) /\ Len(r) = Len(c) + Len(b)
        /\ \A i \in 1..(Len(c) + Len(b)) :
             r[i] = IF i <= Len(c) THEN c[i] ELSE b[i - Len(c)]
    BY <1>2, <1>6, <1>7
  <2>2. Len(c) = p /\ Len(c) + Len(b) = n + 1
    BY <1>4, <1>6, <1>7
  <2> QED BY <2>1, <2>2
<1>9. ASSUME NEW i \in 1..(n + 1)
      PROVE  r[i] = IF i < p THEN list[i] ELSE IF i = p THEN t ELSE list[i - 1]
  <2>1. CASE i < p
    <3>1. i <= p /\ i \in 1..(p - 1)
      BY <1>4, <2>1
    <3> QED BY <1>5, <1>7, <1>8, <2>1, <3>1
  <2>2. CASE i = p
    <3>1. i <= p /\ ~ (i < p)
      BY <1>4, <2>2
    <3> QED BY <1>7, <1>8, <2>2, <3>1
  <2>3. CASE i > p
    <3>1. ~ (i <= p) /\ ~ (i < p) /\ i # p
      BY <1>4, <2>3
    <3>2. PICK j : j = i - p /\ j \in 1..(n + 1 - p) /\ p + j - 1 = i - 1
      BY <1>4, <2>3
    <3>3. b[j] = list[p + j - 1]
      BY <1>6, <3>2
    <3> QED BY <1>8, <3>1, <3>2, <3>3
  <2> QED BY <1>4, <2>1, <2>2, <2>3
<1> QED BY <1>1, <1>3, <1>4, <1>8, <1>9 DEF IsInserted

-----------------------------------------------------------------------------
(* Sorted lists *)

Lacks(list, t) == \A i \in 1..Len(list) : list[i] # t

\* A list of timers in a mode, sorted by some times.
Good(m, list, times) ==
  /\ list \in Seq(Timers)
  /\ Once(list) /\ Ascending(list, times)
  /\ \A i \in 1..Len(list) : m \in AddTo[list[i]]

Differ(times, others, t) ==
  \A u \in Timers : u # t => times[u] = others[u]

LEMMA GoodWithout ==
  ASSUME NEW m, NEW list, NEW t, NEW times, NEW others,
         Good(m, list, times), Differ(times, others, t)
  PROVE  /\ Good(m, Timer!Without(list, t), others)
         /\ Lacks(Timer!Without(list, t), t)
<1>1. PICK n, r : /\ n = Len(list) /\ n \in Nat
                  /\ r = Timer!Without(list, t)
  BY DEF Good
<1>2. list \in Seq(Timers) /\ r \in Seq(Timers)
  BY <1>1, WithoutIs DEF Good
<1>3. /\ \A i, j \in 1..n : list[i] = list[j] => i = j
      /\ \A i, j \in 1..n : i < j => times[list[i]] <= times[list[j]]
      /\ \A i \in 1..n : m \in AddTo[list[i]] /\ list[i] \in Timers
  BY <1>1 DEF Good, Once, Ascending
<1>4. CASE Lacks(list, t) /\ r = list
  <2>1. \A i \in 1..n : times[list[i]] = others[list[i]]
    BY <1>1, <1>3, <1>4 DEF Lacks, Differ
  <2>2. Ascending(list, others)
    BY <1>1, <1>3, <2>1 DEF Ascending
  <2> QED BY <1>1, <1>4, <2>2 DEF Good
<1>5. CASE \E p \in 1..n : list[p] = t /\ IsRemoved(r, list, p)
  <2>1. PICK p \in 1..n : list[p] = t /\ IsRemoved(r, list, p)
    BY <1>5
  <2>2. PICK k \in Nat : k = n - 1
    BY <1>1, <2>1
  <2>3. Len(r) = k
    BY <1>1, <2>1, <2>2 DEF IsRemoved
  <2>4. \A i \in 1..k : r[i] = IF i < p THEN list[i] ELSE list[i + 1]
    BY <2>1, <2>3 DEF IsRemoved
  <2> DEFINE e(i) == IF i < p THEN i ELSE i + 1
  <2>5. \A i \in 1..k : e(i) \in 1..n /\ e(i) # p /\ r[i] = list[e(i)]
    BY <1>1, <2>1, <2>2, <2>4
  <2>6. \A i, j \in 1..k : (i < j => e(i) < e(j)) /\ (e(i) = e(j) => i = j)
    BY <2>1, <2>2
  <2> HIDE DEF e
  <2>7. \A i \in 1..k : list[e(i)] # t
    BY <1>3, <2>1, <2>5
  <2>8. \A i \in 1..k : others[r[i]] = times[list[e(i)]]
    BY <1>3, <2>5, <2>7 DEF Differ
  <2>9. Lacks(r, t)
    BY <2>3, <2>5, <2>7 DEF Lacks
  <2>10. Once(r)
    <3> SUFFICES ASSUME NEW i \in 1..k, NEW j \in 1..k, r[i] = r[j]
                 PROVE  i = j
      BY <2>3 DEF Once
    <3> QED BY <1>3, <2>5, <2>6
  <2>11. Ascending(r, others)
    <3> SUFFICES ASSUME NEW i \in 1..k, NEW j \in 1..k, i < j
                 PROVE  others[r[i]] <= others[r[j]]
      BY <2>3 DEF Ascending
    <3>1. e(i) < e(j) /\ e(i) \in 1..n /\ e(j) \in 1..n
      BY <2>5, <2>6
    <3>2. times[list[e(i)]] <= times[list[e(j)]]
      BY <1>3, <3>1
    <3> QED BY <2>8, <3>2
  <2>12. \A i \in 1..k : m \in AddTo[r[i]]
    BY <1>3, <2>5
  <2> QED BY <1>1, <1>2, <2>3, <2>9, <2>10, <2>11, <2>12 DEF Good
<1>6. \/ Lacks(list, t) /\ r = list
      \/ \E p \in 1..n : list[p] = t /\ IsRemoved(r, list, p)
  <2>1. \/ /\ \A i \in 1..Len(list) : list[i] # t
           /\ Timer!Without(list, t) = list
        \/ \E p \in 1..Len(list) :
             list[p] = t /\ IsRemoved(Timer!Without(list, t), list, p)
    BY <1>2, WithoutIs
  <2> QED BY <1>1, <2>1 DEF Lacks
<1> QED BY <1>4, <1>5, <1>6

LEMMA GoodInsert ==
  ASSUME NEW m, NEW list, NEW t \in Timers, NEW times \in [Timers -> Nat],
         Good(m, list, times), Lacks(list, t), m \in AddTo[t]
  PROVE  Good(m, Timer!Insert(list, t, times), times)
<1>1. PICK n \in Nat : n = Len(list) /\ list \in Seq(Timers)
  BY DEF Good
<1>2. times \in [Timers -> Int] /\ times[t] \in Int
  OBVIOUS
<1>3. PICK c : c = Timer!InsertionIndex(list, times, times[t])
  OBVIOUS
<1>4. IsPlace(c, list, times, times[t])
  BY <1>1, <1>2, <1>3, InsertionIndexIs DEF Good
<1>5. /\ c \in 0..n /\ \A i \in 1..c : times[list[i]] <= times[t]
      /\ \A i \in (c + 1)..n : times[t] < times[list[i]]
  BY <1>1, <1>4 DEF IsPlace
<1>6. PICK p : p = c + 1
  OBVIOUS
<1>7. p \in 1..(n + 1)
  BY <1>5, <1>6
<1>8. PICK r : r = Timer!InsertAt(list, p, t)
  OBVIOUS
<1>9. r \in Seq(Timers) /\ IsInserted(r, list, p, t)
  <2>1. p \in 1..(Len(list) + 1)
    BY <1>1, <1>7
  <2> QED BY <1>1, <1>8, <2>1, InsertAtIs
<1>10. Timer!Insert(list, t, times) = r
  BY <1>3, <1>6, <1>8 DEF Timer!Insert
<1>11. PICK k \in Nat : k = n + 1 /\ Len(r) = k
  BY <1>1, <1>9 DEF IsInserted
<1>12. \A i \in 1..k :
         r[i] = IF i < p THEN list[i] ELSE IF i = p THEN t ELSE list[i - 1]
  BY <1>9, <1>11 DEF IsInserted
<1>13. /\ \A i, j \in 1..n : list[i] = list[j] => i = j
       /\ \A i, j \in 1..n : i < j => times[list[i]] <= times[list[j]]
       /\ \A i \in 1..n : /\ m \in AddTo[list[i]] /\ list[i] # t
                          /\ times[list[i]] \in Int
  BY <1>1 DEF Good, Once, Ascending, Lacks
<1> DEFINE e(i) == IF i < p THEN i ELSE i - 1
<1>14. \A i \in 1..k : i # p => e(i) \in 1..n /\ r[i] = list[e(i)]
  BY <1>7, <1>11, <1>12
<1>15. p \in 1..k /\ r[p] = t
  <2>1. p \in 1..k /\ ~ (p < p)
    BY <1>7, <1>11
  <2> QED BY <1>12, <2>1
<1>16. \A i, j \in 1..k : i # p /\ j # p =>
         (i < j => e(i) < e(j)) /\ (e(i) = e(j) => i = j)
  BY <1>7, <1>11
<1>17. \A i \in 1..k : /\ i < p => e(i) \in 1..c
                       /\ p < i => e(i) \in (c + 1)..n
  BY <1>5, <1>6, <1>11
<1> HIDE DEF e
<1>18. Once(r)
  <2> SUFFICES ASSUME NEW i \in 1..k, NEW j \in 1..k, r[i] = r[j]
               PROVE  i = j
    BY <1>11 DEF Once
  <2>1. \A h \in 1..k : h # p => r[h] # t
    BY <1>13, <1>14
  <2>2. CASE i = p \/ j = p
    BY <1>15, <2>1, <2>2
  <2>3. CASE i # p /\ j # p
    <3>1. /\ r[i] = list[e(i)] /\ r[j] = list[e(j)]
          /\ e(i) \in 1..n /\ e(j) \in 1..n
      BY <1>14, <2>3
    <3>2. e(i) = e(j)
      BY <1>13, <3>1
    <3> QED BY <1>16, <2>3, <3>2
  <2> QED BY <2>2, <2>3
<1>19. Ascending(r, times)
  <2> SUFFICES ASSUME NEW i \in 1..k, NEW j \in 1..k, i < j
               PROVE  times[r[i]] <= times[r[j]]
    BY <1>11 DEF Ascending
  <2>1. CASE i = p
    <3>1. j # p /\ p < j
      BY <2>1
    <3>2. r[j] = list[e(j)] /\ e(j) \in (c + 1)..n /\ e(j) \in 1..n
      BY <1>14, <1>17, <3>1
    <3>3. times[t] < times[list[e(j)]] /\ times[list[e(j)]] \in Int
      BY <1>5, <1>13, <3>2
    <3>4. times[t] <= times[list[e(j)]]
      BY <1>2, <3>3
    <3> QED BY <1>15, <2>1, <3>2, <3>4
  <2>2. CASE j = p
    <3>1. i # p /\ i < p
      BY <2>2
    <3>2. r[i] = list[e(i)] /\ e(i) \in 1..c
      BY <1>14, <1>17, <3>1
    <3> QED BY <1>5, <1>15, <2>2, <3>2
  <2>3. CASE i # p /\ j # p
    <3>1. /\ r[i] = list[e(i)] /\ r[j] = list[e(j)]
          /\ e(i) \in 1..n /\ e(j) \in 1..n
      BY <1>14, <2>3
    <3>2. e(i) < e(j)
      BY <1>16, <2>3
    <3> QED BY <1>13, <3>1, <3>2
  <2> QED BY <2>1, <2>2, <2>3
<1>20. \A i \in 1..k : m \in AddTo[r[i]]
  <2> SUFFICES ASSUME NEW i \in 1..k PROVE m \in AddTo[r[i]]
    OBVIOUS
  <2>1. CASE i = p
    BY <1>15, <2>1
  <2>2. CASE i # p
    <3>1. r[i] = list[e(i)] /\ e(i) \in 1..n
      BY <1>14, <2>2
    <3> QED BY <1>13, <3>1
  <2> QED BY <2>1, <2>2
<1> QED BY <1>9, <1>10, <1>11, <1>18, <1>19, <1>20 DEF Good

\* A list that the timer is not in stays sorted when its time changes.
LEMMA GoodUntouched ==
  ASSUME NEW m, NEW list, NEW t, NEW times, NEW others,
         Good(m, list, times), Differ(times, others, t), Lacks(list, t)
  PROVE  Good(m, list, others)
<1>1. PICK n \in Nat : n = Len(list)
  BY DEF Good
<1>2. \A i \in 1..n : list[i] \in Timers /\ list[i] # t
  BY <1>1 DEF Good, Lacks
<1>3. \A i \in 1..n : others[list[i]] = times[list[i]]
  BY <1>2 DEF Differ
<1>4. Ascending(list, others)
  BY <1>1, <1>3 DEF Good, Ascending
<1> QED BY <1>4 DEF Good

-----------------------------------------------------------------------------
(* The invariant *)

\* The timers whose date clients set are added to one mode each.  Otherwise a
\* timer can be added to another mode between the step in which
\* CFRunLoopTimerSetNextFireDate copies its modes and the one in which it has
\* the lock, changes its time, and moves it in the lists of those it copied.
MovedInOneMode == \A t \in Movable : \A m, n \in AddTo[t] : m = n

\* Of a run: the time at which the timer fired that is called.
Fields == {"mode", "pc", "batch", "timer", "old", "handled"}
RunOk(run) ==
  /\ DOMAIN run = Fields
  /\ run.pc = "callout" => run.old \in Nat /\ run.old <= now

\* Who sets a date has copied some of the modes that the timer is added to,
\* and who is about to add a timer does so to one of them.
ClientOk ==
  /\ setter # Timer!NoSetter =>
       /\ setter.timer \in Movable /\ setter.date \in Nat
       /\ setter.modes # {} /\ setter.modes \subseteq AddTo[setter.timer]
  /\ \A t \in Timers, m \in Modes : <<t, m>> \in adding => m \in AddTo[t]

\* Lists have each timer once, in the modes that it is added to, and sorted.
TimerInv ==
  /\ now \in Nat
  /\ fire \in [Timers -> Nat]
  /\ timers = [m \in Modes |-> timers[m]]
  /\ \A m \in Modes : Good(m, timers[m], fire)
  /\ ClientOk
  /\ \E S : runs \in Seq(S)
  /\ \A d \in 1..Len(runs) : RunOk(runs[d])

LEMMA TimerInvImplies == TimerInv => Timer!ListsAreSorted
<1> SUFFICES ASSUME TimerInv, NEW m \in Modes,
                    NEW i \in DOMAIN timers[m], NEW j \in DOMAIN timers[m],
                    i < j
             PROVE  fire[timers[m][i]] <= fire[timers[m][j]]
  BY DEF Timer!ListsAreSorted
<1>1. Good(m, timers[m], fire)
  BY DEF TimerInv
<1>2. i \in 1..Len(timers[m]) /\ j \in 1..Len(timers[m])
  BY <1>1 DEF Good
<1> QED BY <1>1, <1>2 DEF Good, Ascending

LEMMA ModesOfIs ==
  ASSUME NEW t, NEW m \in Modes, \A k \in Modes : timers[k] \in Seq(Timers)
  PROVE  m \in Timer!ModesOf(t) <=> ~ Lacks(timers[m], t)
BY DEF Timer!ModesOf, Timer!Contains, Lacks

LEMMA InitTimer == Timer!Init => TimerInv
<1> SUFFICES ASSUME Timer!Init PROVE TimerInv
  OBVIOUS
<1>1. now \in Nat /\ fire \in [Timers -> Nat]
  BY DEF Timer!Init
<1>2. timers = [m \in Modes |-> timers[m]] /\ \A m \in Modes : timers[m] = << >>
  BY DEF Timer!Init
<1>3. \A m \in Modes : Good(m, timers[m], fire)
  <2> SUFFICES ASSUME NEW m \in Modes PROVE Good(m, timers[m], fire)
    OBVIOUS
  <2>1. timers[m] = << >>
    BY <1>2
  <2>2. << >> \in Seq(Timers) /\ 1..Len(<< >>) = {}
    OBVIOUS
  <2>3. Good(m, << >>, fire)
    BY <2>2 DEF Good, Once, Ascending
  <2> QED BY <2>1, <2>3
<1>4. ClientOk
  BY DEF Timer!Init, ClientOk
<1>5. runs \in Seq({}) /\ Len(runs) = 0
  BY DEF Timer!Init
<1> QED BY <1>1, <1>2, <1>3, <1>4, <1>5 DEF TimerInv

\* The runs after a step that changes at most the innermost.
LEMMA RunsStay ==
  ASSUME TimerInv, now' \in Nat, now <= now', runs' = runs
  PROVE  (\E S : runs \in Seq(S))' /\ (\A d \in 1..Len(runs) : RunOk(runs[d]))'
BY DEF TimerInv, RunOk

LEMMA RunChanges ==
  ASSUME TimerInv, now' = now, Timer!Running, NEW run,
         runs' = [runs EXCEPT ![Timer!depth] = run],
         DOMAIN run = Fields,
         run.pc = "callout" => run.old \in Nat /\ run.old <= now
  PROVE  (\E S : runs \in Seq(S))' /\ (\A d \in 1..Len(runs) : RunOk(runs[d]))'
<1>1. PICK S : runs \in Seq(S)
  BY DEF TimerInv
<1>2. PICK n \in Nat : n = Len(runs) /\ Timer!depth = n
  BY <1>1 DEF Timer!depth
<1> DEFINE X == S \cup {run}
<1>3. runs' \in Seq(X) /\ Len(runs') = n
  <2>1. \A d \in 1..n : runs[d] \in X
    BY <1>1, <1>2
  <2>2. runs \in Seq(X) /\ run \in X
    BY <1>1
  <2> HIDE DEF X
  <2>3. runs' = [runs EXCEPT ![n] = run]
    BY <1>2
  <2>4. n \in 1..Len(runs)
    BY <1>1, <1>2 DEF Timer!Running
  <2> QED BY <1>2, <2>2, <2>3, <2>4, ExceptSeq
<1> HIDE DEF X
<1>4. \A d \in 1..n : runs'[d] = IF d = n THEN run ELSE runs[d]
  BY <1>1, <1>2
<1>5. \A d \in 1..n : RunOk(runs[d])
  BY <1>2 DEF TimerInv
<1>6. (\A d \in 1..Len(runs) : RunOk(runs[d]))'
  BY <1>3, <1>4, <1>5 DEF RunOk
<1> QED BY <1>3, <1>6

LEMMA TopOk ==
  ASSUME TimerInv, Timer!Running
  PROVE  RunOk(Timer!top) /\ Timer!depth \in 1..Len(runs)
<1>1. PICK S : runs \in Seq(S)
  BY DEF TimerInv
<1>2. Timer!depth \in 1..Len(runs)
  BY <1>1 DEF Timer!depth, Timer!Running
<1> QED BY <1>2 DEF TimerInv, Timer!top

LEMMA MultipleExists ==
  ASSUME NEW from \in Nat, NEW old \in Nat, old <= from, NEW interval \in Nat,
         interval # 0
  PROVE  \E next \in (from + 1)..(from + interval) : (next - old) % interval = 0
<1>1. PICK r : r = (from - old) % interval
  OBVIOUS
<1>2. r \in 0..(interval - 1)
  BY <1>1
<1>3. PICK q \in Int : from - old = interval * q + r
  <2>1. interval > 0
    OBVIOUS
  <2>2. PICK n \in Int : n = from - old
    OBVIOUS
  <2>3. r = n % interval
    BY <1>1, <2>2
  <2>4. PICK q \in Int : q = n \div interval
    BY <2>1
  <2>5. n = interval * q + r
    BY <2>1, <2>3, <2>4
  <2> QED BY <2>2, <2>5
<1>4. PICK x : x = from + interval - r
  OBVIOUS
<1>5. x \in (from + 1)..(from + interval)
  BY <1>2, <1>4
<1>6. x - old = interval * (q + 1)
  BY <1>2, <1>3, <1>4
<1>7. (interval * (q + 1)) % interval = 0
  OBVIOUS
<1> QED BY <1>5, <1>6, <1>7

LEMMA NextFireIs ==
  ASSUME now \in Nat, NEW old \in Nat, old <= now, NEW interval \in Nat,
         interval # 0
  PROVE  Timer!NextFire(old, interval) \in Nat
<1> DEFINE P(next) == (next - old) % interval = 0
<1>1. \E next \in (now + 1)..(now + interval) : P(next)
  BY MultipleExists
<1>2. Timer!NextFire(old, interval)
        = CHOOSE next \in (now + 1)..(now + interval) : P(next)
  BY DEF Timer!NextFire
<1> HIDE DEF P
<1>3. Timer!NextFire(old, interval) \in (now + 1)..(now + interval)
  BY <1>1, <1>2
<1> QED BY <1>3

-----------------------------------------------------------------------------
(* The steps *)

\* What the clients and the loop leave alone.
ListsStay == timers' = timers /\ fire' = fire
RunsAndClock == runs' = runs /\ now' = now
ClientStays == setter' = setter /\ adding' = adding

LEMMA ListsKept ==
  ASSUME TimerInv, ListsStay
  PROVE  /\ fire' \in [Timers -> Nat] /\ timers' = [m \in Modes |-> timers'[m]]
         /\ \A m \in Modes : Good(m, timers'[m], fire')
BY DEF TimerInv, ListsStay

LEMMA RunsKept ==
  ASSUME TimerInv, RunsAndClock
  PROVE  /\ now' \in Nat /\ (\E S : runs \in Seq(S))'
         /\ (\A d \in 1..Len(runs) : RunOk(runs[d]))'
<1>1. now \in Nat /\ now' = now /\ runs' = runs /\ now <= now'
  BY DEF TimerInv, RunsAndClock
<1> QED BY <1>1, RunsStay

LEMMA ClientKept ==
  ASSUME TimerInv, ClientStays
  PROVE  ClientOk'
BY DEF TimerInv, ClientStays, ClientOk

LEMMA AddStep ==
  ASSUME TimerInv, NEW t \in Timers, NEW m \in Modes,
         Timer!CFRunLoopAddTimer(t, m)
  PROVE  TimerInv'
<1>1. /\ m \in AddTo[t] /\ adding' = adding \cup {<<t, m>>}
      /\ ListsStay /\ setter' = setter /\ RunsAndClock
  BY DEF Timer!CFRunLoopAddTimer, ListsStay, RunsAndClock
<1>2. ClientOk'
  BY <1>1 DEF TimerInv, ClientOk
<1> QED BY <1>1, <1>2, ListsKept, RunsKept DEF TimerInv

LEMMA AddLocksStep ==
  ASSUME TimerInv, NEW t \in Timers, NEW m \in Modes, Timer!AddLocks(t, m)
  PROVE  TimerInv'
<1>1. /\ m \in AddTo[t] /\ fire' = fire
      /\ adding' = adding \ {<<t, m>>} /\ setter' = setter /\ RunsAndClock
  BY DEF Timer!AddLocks, TimerInv, ClientOk, RunsAndClock
<1>2. ClientOk'
  BY <1>1 DEF TimerInv, ClientOk
<1>3. CASE ListsStay
  BY <1>1, <1>2, <1>3, ListsKept, RunsKept DEF TimerInv
<1>4. CASE /\ m \notin Timer!ModesOf(t)
           /\ timers' = [timers EXCEPT ![m] = Timer!Insert(timers[m], t, fire)]
  <2>1. /\ timers = [k \in Modes |-> timers[k]] /\ fire \in [Timers -> Nat]
        /\ \A k \in Modes : Good(k, timers[k], fire)
    BY DEF TimerInv
  <2>2. Lacks(timers[m], t)
    BY <1>4, <2>1, ModesOfIs DEF Good
  <2>3. Good(m, Timer!Insert(timers[m], t, fire), fire)
    BY <1>1, <2>1, <2>2, GoodInsert
  <2>4. PICK list : list = Timer!Insert(timers[m], t, fire)
    OBVIOUS
  <2>5. /\ timers' = [k \in Modes |-> timers'[k]]
        /\ \A k \in Modes : timers'[k] = IF k = m THEN list ELSE timers[k]
    BY <1>4, <2>1, <2>4
  <2>6. \A k \in Modes : Good(k, timers'[k], fire)
    BY <2>1, <2>3, <2>4, <2>5
  <2> QED BY <1>1, <1>2, <2>1, <2>5, <2>6, RunsKept DEF TimerInv
<1> QED BY <1>1, <1>3, <1>4 DEF Timer!AddLocks, ListsStay

LEMMA RemoveStep ==
  ASSUME TimerInv, NEW t \in Timers, NEW m \in Modes,
         Timer!CFRunLoopRemoveTimer(t, m)
  PROVE  TimerInv'
<1>1. /\ timers' = [timers EXCEPT ![m] = Timer!Without(timers[m], t)]
      /\ fire' = fire /\ ClientStays /\ RunsAndClock
  BY DEF Timer!CFRunLoopRemoveTimer, ClientStays, RunsAndClock
<1>2. /\ timers = [k \in Modes |-> timers[k]] /\ fire \in [Timers -> Nat]
      /\ \A k \in Modes : Good(k, timers[k], fire)
  BY DEF TimerInv
<1>3. Good(m, Timer!Without(timers[m], t), fire)
  BY <1>2, GoodWithout DEF Differ
<1>4. PICK list : list = Timer!Without(timers[m], t)
  OBVIOUS
<1>5. /\ timers' = [k \in Modes |-> timers'[k]]
      /\ \A k \in Modes : timers'[k] = IF k = m THEN list ELSE timers[k]
  BY <1>1, <1>2, <1>4
<1>6. \A k \in Modes : Good(k, timers'[k], fire)
  BY <1>2, <1>3, <1>4, <1>5
<1>7. ClientOk'
  BY <1>1, ClientKept
<1> QED BY <1>1, <1>2, <1>5, <1>6, <1>7, RunsKept DEF TimerInv

LEMMA SetStep ==
  ASSUME TimerInv, NEW t \in Timers, NEW date \in 0..MaxTime,
         Timer!CFRunLoopTimerSetNextFireDate(t, date), MaxTime \in Nat
  PROVE  TimerInv'
<1>1. /\ t \in Movable /\ timers' = timers /\ RunsAndClock /\ date \in Nat
      /\ adding' = adding
  BY DEF Timer!CFRunLoopTimerSetNextFireDate, RunsAndClock
<1>2. /\ timers = [k \in Modes |-> timers[k]] /\ fire \in [Timers -> Nat]
      /\ \A k \in Modes : Good(k, timers[k], fire)
  BY DEF TimerInv
<1>3. CASE Timer!ModesOf(t) = {} /\ fire' = [fire EXCEPT ![t] = date]
           /\ setter' = setter
  <2>1. fire' \in [Timers -> Nat] /\ Differ(fire, fire', t)
    BY <1>1, <1>2, <1>3 DEF Differ
  <2>2. \A k \in Modes : Lacks(timers[k], t)
    BY <1>2, <1>3, ModesOfIs DEF Good
  <2>3. \A k \in Modes : Good(k, timers[k], fire')
    BY <1>2, <2>1, <2>2, GoodUntouched
  <2>4. ClientOk'
    BY <1>1, <1>3 DEF TimerInv, ClientOk
  <2> QED BY <1>1, <1>2, <2>1, <2>3, <2>4, RunsKept DEF TimerInv
<1>4. CASE /\ Timer!ModesOf(t) # {} /\ fire' = fire
           /\ setter' = [timer |-> t, modes |-> Timer!ModesOf(t), date |-> date]
  <2>1. Timer!ModesOf(t) \subseteq AddTo[t]
    <3> SUFFICES ASSUME NEW m \in Modes, ~ Lacks(timers[m], t)
                 PROVE  m \in AddTo[t]
      BY <1>2, ModesOfIs DEF Good, Timer!ModesOf
    <3> QED BY <1>2 DEF Good, Lacks
  <2>2. ClientOk'
    BY <1>1, <1>4, <2>1 DEF TimerInv, ClientOk
  <2>3. ListsStay
    BY <1>1, <1>4 DEF ListsStay
  <2> QED BY <1>1, <2>2, <2>3, ListsKept, RunsKept DEF TimerInv
<1> QED BY <1>3, <1>4 DEF Timer!CFRunLoopTimerSetNextFireDate

\* A timer moves in all lists it is in.
LEMMA MovesStep ==
  ASSUME TimerInv, NEW t, fire' \in [Timers -> Nat], Differ(fire, fire', t),
         NEW ms, ms \cap Timer!ModesOf(t) = Timer!ModesOf(t),
         Timer!Reposition(t, ms)
  PROVE  /\ timers' = [m \in Modes |-> timers'[m]]
         /\ \A m \in Modes : Good(m, timers'[m], fire')
<1>1. \A m \in Modes : Good(m, timers[m], fire)
  BY DEF TimerInv
<1>2. timers' = [m \in Modes |->
                   IF m \in Timer!ModesOf(t)
                   THEN Timer!Insert(Timer!Without(timers[m], t), t, fire')
                   ELSE timers[m]]
  BY DEF Timer!Reposition
<1>3. ASSUME NEW m \in Modes PROVE Good(m, timers'[m], fire')
  <2>1. CASE m \in Timer!ModesOf(t)
    <3>1. ~ Lacks(timers[m], t)
      BY <1>1, <2>1, ModesOfIs DEF Good
    <3>2. t \in Timers /\ m \in AddTo[t]
      BY <1>1, <3>1 DEF Good, Lacks
    <3>3. PICK list : list = Timer!Without(timers[m], t)
      OBVIOUS
    <3>4. Good(m, list, fire') /\ Lacks(list, t)
      BY <1>1, <3>3, GoodWithout
    <3>5. PICK times \in [Timers -> Nat] : times = fire'
      OBVIOUS
    <3>6. Good(m, Timer!Insert(list, t, times), times)
      BY <3>2, <3>4, <3>5, GoodInsert
    <3>7. timers'[m] = Timer!Insert(list, t, times)
      BY <1>2, <2>1, <3>3, <3>5
    <3> QED BY <3>5, <3>6, <3>7
  <2>2. CASE m \notin Timer!ModesOf(t)
    <3>1. Lacks(timers[m], t)
      BY <1>1, <2>2, ModesOfIs DEF Good
    <3>2. timers'[m] = timers[m]
      BY <1>2, <2>2
    <3> QED BY <1>1, <3>1, <3>2, GoodUntouched
  <2> QED BY <2>1, <2>2
<1> QED BY <1>2, <1>3

LEMMA SetterStep ==
  ASSUME TimerInv, MovedInOneMode, Movable \subseteq Timers, Timer!SetterLocks
  PROVE  TimerInv'
<1>1. PICK t : t = setter.timer
  OBVIOUS
<1>2. /\ setter # Timer!NoSetter /\ fire' = [fire EXCEPT ![t] = setter.date]
      /\ setter' = Timer!NoSetter /\ adding' = adding /\ RunsAndClock
      /\ Timer!Reposition(t, setter.modes)
  BY <1>1 DEF Timer!SetterLocks, RunsAndClock
<1>3. /\ t \in Movable /\ setter.date \in Nat
      /\ setter.modes # {} /\ setter.modes \subseteq AddTo[t]
  BY <1>1, <1>2 DEF TimerInv, ClientOk
<1>4. fire' \in [Timers -> Nat] /\ Differ(fire, fire', t)
  BY <1>2, <1>3 DEF TimerInv, Differ
<1>5. Timer!ModesOf(t) \subseteq AddTo[t]
  <2> SUFFICES ASSUME NEW m \in Modes, ~ Lacks(timers[m], t)
               PROVE  m \in AddTo[t]
    BY ModesOfIs DEF TimerInv, Good, Timer!ModesOf
  <2> QED BY DEF TimerInv, Good, Lacks
<1>6. Timer!ModesOf(t) \subseteq setter.modes
  BY <1>3, <1>5 DEF MovedInOneMode
<1>7. setter.modes \cap Timer!ModesOf(t) = Timer!ModesOf(t)
  BY <1>6
<1>8. /\ timers' = [m \in Modes |-> timers'[m]]
      /\ \A m \in Modes : Good(m, timers'[m], fire')
  BY <1>2, <1>4, <1>7, MovesStep
<1>9. ClientOk'
  BY <1>2 DEF TimerInv, ClientOk
<1> QED BY <1>2, <1>4, <1>8, <1>9, RunsKept DEF TimerInv

LEMMA InvalidateStep ==
  ASSUME TimerInv, NEW t, Timer!InvalidateLocks(t)
  PROVE  TimerInv'
<1>1. /\ timers' = [m \in Modes |-> IF m \in leaving[t]
                                    THEN Timer!Without(timers[m], t)
                                    ELSE timers[m]]
      /\ fire' = fire /\ ClientStays /\ RunsAndClock
  BY DEF Timer!InvalidateLocks, ClientStays, RunsAndClock
<1>2. fire \in [Timers -> Nat] /\ \A k \in Modes : Good(k, timers[k], fire)
  BY DEF TimerInv
<1>3. \A k \in Modes : Good(k, Timer!Without(timers[k], t), fire)
  BY <1>2, GoodWithout DEF Differ
<1>4. \A k \in Modes : Good(k, timers'[k], fire)
  BY <1>1, <1>2, <1>3
<1>5. ClientOk'
  BY <1>1, ClientKept
<1> QED BY <1>1, <1>2, <1>4, <1>5, RunsKept DEF TimerInv


\* Steps that leave lists, times and runs alone, and the clock's.
LEMMA QuietStep ==
  ASSUME TimerInv, ListsStay, ClientStays, runs' = runs,
         now' \in Nat, now <= now'
  PROVE  TimerInv'
<1>1. ClientOk'
  BY ClientKept
<1> QED BY <1>1, ListsKept, RunsStay DEF TimerInv, ListsStay

LEMMA BeginRunStep ==
  ASSUME TimerInv, NEW m, Timer!CFRunLoopRunSpecific(m)
  PROVE  TimerInv'
<1>1. PICK run :
        /\ runs' = Append(runs, run)
        /\ run = [mode |-> m, pc |-> "wait", batch |-> << >>,
                  timer |-> Timer!Never, old |-> Timer!Never,
                  handled |-> FALSE]
  BY DEF Timer!CFRunLoopRunSpecific
<1>2. ListsStay /\ now' = now /\ ClientStays
  BY DEF Timer!CFRunLoopRunSpecific, ListsStay, ClientStays, Timer!client
<1>3. DOMAIN run = Fields /\ run.pc # "callout"
  BY <1>1 DEF Fields
<1>4. PICK S : runs \in Seq(S)
  BY DEF TimerInv
<1>5. PICK n \in Nat : n = Len(runs)
  BY <1>4
<1> DEFINE X == S \cup {run}
<1>6. runs \in Seq(X) /\ run \in X
  BY <1>4
<1> HIDE DEF X
<1>7. runs' \in Seq(X) /\ Len(runs') = n + 1
  BY <1>1, <1>5, <1>6
<1>8. \A d \in 1..(n + 1) : runs'[d] = IF d = n + 1 THEN run ELSE runs[d]
  BY <1>1, <1>5, <1>6
<1>9. \A d \in 1..n : RunOk(runs[d])
  BY <1>5 DEF TimerInv
<1>10. (\A d \in 1..Len(runs) : RunOk(runs[d]))'
  BY <1>2, <1>3, <1>7, <1>8, <1>9 DEF RunOk
<1>11. (\E Y : runs \in Seq(Y))'
  BY <1>7
<1>12. ClientOk'
  BY <1>2, ClientKept
<1> QED BY <1>2, <1>10, <1>11, <1>12, ListsKept DEF TimerInv

LEMMA LeaveStep ==
  ASSUME TimerInv, Timer!Leave
  PROVE  TimerInv'
<1>1. runs' = SubSeq(runs, 1, Len(runs) - 1) /\ Timer!Running
  BY DEF Timer!Leave, Timer!Front
<1>2. ListsStay /\ now' = now /\ ClientStays
  BY DEF Timer!Leave, ListsStay, ClientStays, Timer!client
<1>3. PICK S : runs \in Seq(S)
  BY DEF TimerInv
<1>4. PICK n \in Nat : n = Len(runs) /\ n # 0
  BY <1>1, <1>3 DEF Timer!Running
<1>5. /\ runs' \in Seq(S) /\ Len(runs') = n - 1
      /\ \A d \in 1..(n - 1) : runs'[d] = runs[d]
  BY <1>1, <1>3, <1>4
<1>6. \A d \in 1..n : RunOk(runs[d])
  BY <1>4 DEF TimerInv
<1>7. (\A d \in 1..Len(runs) : RunOk(runs[d]))'
  BY <1>2, <1>4, <1>5, <1>6 DEF RunOk
<1>8. (\E Y : runs \in Seq(Y))'
  BY <1>5
<1>9. ClientOk'
  BY <1>2, ClientKept
<1> QED BY <1>2, <1>7, <1>8, <1>9, ListsKept DEF TimerInv

\* Steps of the innermost run that move no timer.
LEMMA TopStep ==
  ASSUME TimerInv, Timer!Running, ListsStay, ClientStays, now' = now,
         NEW run,
         runs' = [runs EXCEPT ![Timer!depth] = run], DOMAIN run = Fields,
         run.pc = "callout" => run.old \in Nat /\ run.old <= now
  PROVE  TimerInv'
<1>1. ClientOk'
  BY ClientKept
<1> QED BY <1>1, ListsKept, RunChanges DEF TimerInv, ListsStay

LEMMA CollectStep ==
  ASSUME TimerInv, Timer!CollectTimers
  PROVE  TimerInv'
<1>1. PICK due : runs' = [runs EXCEPT ![Timer!depth].pc = "timers",
                           ![Timer!depth].handled = FALSE,
                           ![Timer!depth].batch = due]
  BY DEF Timer!CollectTimers
<1>2. Timer!Running /\ ListsStay /\ ClientStays /\ now' = now
  BY DEF Timer!CollectTimers, ListsStay, ClientStays, Timer!client
<1>3. RunOk(Timer!top) /\ Timer!depth \in 1..Len(runs)
  BY <1>2, TopOk
<1>4. PICK run : run = [Timer!top EXCEPT !.pc = "timers", !.handled = FALSE,
                                   !.batch = due]
  OBVIOUS
<1>5. runs' = [runs EXCEPT ![Timer!depth] = run]
  BY <1>1, <1>3, <1>4 DEF Timer!top
<1>6. DOMAIN run = Fields /\ run.pc = "timers"
  BY <1>3, <1>4 DEF RunOk, Fields
<1> QED BY <1>2, <1>5, <1>6, TopStep

LEMMA DoTimerStep ==
  ASSUME TimerInv, Timer!DoTimer
  PROVE  TimerInv'
<1>1. Timer!Running /\ ListsStay /\ ClientStays /\ now' = now
  BY DEF Timer!DoTimer, ListsStay, ClientStays, Timer!client
<1>2. RunOk(Timer!top) /\ Timer!depth \in 1..Len(runs)
  BY <1>1, TopOk
<1>3. PICK t : t = Head(Timer!top.batch)
  OBVIOUS
<1>4. CASE /\ Timer!Due(t) /\ Timer!ModesOf(t) # {}
           /\ runs' = [runs EXCEPT
                ![Timer!depth].pc = "callout", ![Timer!depth].batch = Tail(@),
                ![Timer!depth].timer = t, ![Timer!depth].old = fire[t],
                ![Timer!depth].handled = TRUE]
  <2>1. PICK m \in Modes : ~ Lacks(timers[m], t)
    <3>1. PICK m \in Modes : m \in Timer!ModesOf(t)
      BY <1>4 DEF Timer!ModesOf
    <3> QED BY <3>1, ModesOfIs DEF TimerInv, Good
  <2>2. t \in Timers
    BY <2>1 DEF TimerInv, Good, Lacks
  <2>3. fire[t] \in Nat /\ fire[t] <= now
    BY <1>4, <2>2 DEF TimerInv, Timer!Due
  <2>4. PICK run : run = [Timer!top EXCEPT !.pc = "callout", !.batch = Tail(@),
                            !.timer = t, !.old = fire[t], !.handled = TRUE]
    OBVIOUS
  <2>5. runs' = [runs EXCEPT ![Timer!depth] = run]
    BY <1>2, <1>4, <2>4 DEF Timer!top
  <2>6. DOMAIN run = Fields /\ run.old = fire[t]
    BY <1>2, <2>4 DEF RunOk, Fields
  <2> QED BY <1>1, <2>3, <2>5, <2>6, TopStep
<1>5. CASE runs' = [runs EXCEPT ![Timer!depth].batch = Tail(@)]
  <2>1. PICK run : run = [Timer!top EXCEPT !.batch = Tail(@)]
    OBVIOUS
  <2>2. runs' = [runs EXCEPT ![Timer!depth] = run]
    BY <1>2, <1>5, <2>1 DEF Timer!top
  <2>3. DOMAIN run = Fields /\ run.pc = Timer!top.pc /\ Timer!top.pc = "timers"
    BY <1>2, <2>1 DEF RunOk, Fields, Timer!DoTimer
  <2> QED BY <1>1, <2>2, <2>3, TopStep
<1> QED BY <1>3, <1>4, <1>5 DEF Timer!DoTimer

LEMMA TimersDoneStep ==
  ASSUME TimerInv, Timer!TimersDone
  PROVE  TimerInv'
<1>1. /\ Timer!Running /\ ListsStay /\ ClientStays /\ now' = now
      /\ runs' = [runs EXCEPT ![Timer!depth].pc = "wait"]
  BY DEF Timer!TimersDone, ListsStay, ClientStays, Timer!client
<1>2. RunOk(Timer!top) /\ Timer!depth \in 1..Len(runs)
  BY <1>1, TopOk
<1>3. PICK run : run = [Timer!top EXCEPT !.pc = "wait"]
  OBVIOUS
<1>4. runs' = [runs EXCEPT ![Timer!depth] = run]
  BY <1>1, <1>2, <1>3 DEF Timer!top
<1>5. DOMAIN run = Fields /\ run.pc = "wait"
  BY <1>2, <1>3 DEF RunOk, Fields
<1> QED BY <1>1, <1>4, <1>5, TopStep

LEMMA CalloutStep ==
  ASSUME TimerInv, Timer!CalloutReturns, Interval \in [Timers -> Nat]
  PROVE  TimerInv'
<1>1. PICK t : t = Timer!top.timer
  OBVIOUS
<1>2. /\ Timer!Running /\ Timer!top.pc = "callout"
      /\ Interval[t] = 0 => ~ valid[t]
      /\ now' = now /\ ClientStays
      /\ runs' = [runs EXCEPT ![Timer!depth].pc = "timers",
                               ![Timer!depth].timer = Timer!Never,
                               ![Timer!depth].old = Timer!Never]
  BY <1>1 DEF Timer!CalloutReturns, ClientStays, Timer!client
<1>3. RunOk(Timer!top) /\ Timer!depth \in 1..Len(runs)
  BY <1>2, TopOk
<1>4. PICK run : run = [Timer!top EXCEPT !.pc = "timers", !.timer = Timer!Never,
                                   !.old = Timer!Never]
  OBVIOUS
<1>5. runs' = [runs EXCEPT ![Timer!depth] = run]
  BY <1>2, <1>3, <1>4 DEF Timer!top
<1>6. DOMAIN run = Fields /\ run.pc = "timers"
  BY <1>3, <1>4 DEF RunOk, Fields
<1>7. CASE ListsStay
  BY <1>2, <1>5, <1>6, <1>7, TopStep
<1>8. CASE /\ valid[t] /\ Timer!Reposition(t, Timer!RepeatsIn(Timer!top.mode))
           /\ fire' = [fire EXCEPT
                         ![t] = Timer!NextFire(Timer!top.old, Interval[t])]
  <2>1. Timer!top.old \in Nat /\ Timer!top.old <= now /\ now \in Nat
    BY <1>2, <1>3 DEF RunOk, TimerInv
  <2>2. t \in Timers => Timer!NextFire(Timer!top.old, Interval[t]) \in Nat
    <3> SUFFICES ASSUME t \in Timers
                 PROVE  Timer!NextFire(Timer!top.old, Interval[t]) \in Nat
      OBVIOUS
    <3>1. Interval[t] \in Nat /\ Interval[t] # 0
      BY <1>2, <1>8
    <3> QED BY <2>1, <3>1, NextFireIs
  <2>3. PICK next : next = Timer!NextFire(Timer!top.old, Interval[t])
    OBVIOUS
  <2>4. fire' \in [Timers -> Nat] /\ Differ(fire, fire', t)
    BY <1>8, <2>2, <2>3 DEF TimerInv, Differ
  <2>5. Timer!RepeatsIn(Timer!top.mode) \cap Timer!ModesOf(t) = Timer!ModesOf(t)
    BY DEF Timer!RepeatsIn, Timer!ModesOf
  <2>6. /\ timers' = [m \in Modes |-> timers'[m]]
        /\ \A m \in Modes : Good(m, timers'[m], fire')
    BY <1>8, <2>4, <2>5, MovesStep
  <2>7. ClientOk'
    BY <1>2, ClientKept
  <2> QED BY <1>2, <1>5, <1>6, <2>1, <2>4, <2>6, <2>7, RunChanges DEF TimerInv
<1> QED BY <1>1, <1>7, <1>8 DEF Timer!CalloutReturns, ListsStay

LEMMA TimerNext ==
  ASSUME TimersFit, MovedInOneMode, TimerInv, [Timer!Next]_(Timer!vars)
  PROVE  TimerInv'
<1>0. now \in Nat
  BY DEF TimerInv
<1>a. /\ Movable \subseteq Timers /\ Interval \in [Timers -> Nat]
      /\ MaxTime \in Nat
  BY DEF TimersFit
<1>1. CASE UNCHANGED Timer!vars
  BY <1>0, <1>1, QuietStep DEF Timer!vars, ListsStay, ClientStays, Timer!client
<1>2. ASSUME NEW t \in Timers, NEW m \in Modes,
             Timer!CFRunLoopAddTimer(t, m) \/ Timer!CFRunLoopRemoveTimer(t, m)
      PROVE  TimerInv'
  BY <1>2, AddStep, RemoveStep
<1>3. ASSUME NEW t \in Timers, NEW date \in 0..MaxTime,
             Timer!CFRunLoopTimerSetNextFireDate(t, date)
      PROVE  TimerInv'
  BY <1>3, <1>a, SetStep
<1>4. ASSUME NEW t, Timer!Invalidate(t) PROVE TimerInv'
  <2>1. ListsStay /\ ClientStays /\ runs' = runs /\ now' = now
    BY <1>4 DEF Timer!Invalidate, ListsStay, ClientStays
  <2> QED BY <1>0, <2>1, QuietStep
<1>5. CASE Timer!Locked
  BY <1>5, <1>a, SetterStep, AddLocksStep, InvalidateStep DEF Timer!Locked
<1>6. CASE Timer!Tick
  <2>1. ListsStay /\ ClientStays /\ runs' = runs /\ now' = now + 1
    BY <1>6 DEF Timer!Tick, ListsStay, ClientStays, Timer!client
  <2> QED BY <1>0, <2>1, QuietStep
<1>7. ASSUME NEW m \in Modes, Timer!Expires(m) PROVE TimerInv'
  <2>1. ListsStay /\ ClientStays /\ runs' = runs /\ now' = now
    BY <1>7 DEF Timer!Expires, ListsStay, ClientStays, Timer!client
  <2> QED BY <1>0, <2>1, QuietStep
<1>8. ASSUME NEW m \in Modes, Timer!CFRunLoopRunSpecific(m) PROVE TimerInv'
  BY <1>8, BeginRunStep
<1>9. CASE Timer!Leave
  BY <1>9, LeaveStep
<1>10. CASE Timer!LoopStep
  <2>1. CASE Timer!InvalidateExpired
    BY <1>4, <2>1 DEF Timer!InvalidateExpired
  <2> QED BY <1>10, <1>a, <2>1, CollectStep, DoTimerStep, CalloutStep,
              TimersDoneStep
          DEF Timer!LoopStep
<1> QED BY <1>1, <1>2, <1>3, <1>4, <1>5, <1>6, <1>7, <1>8, <1>9, <1>10
        DEF Timer!Next, Timer!Kernel, Timer!CFRunLoopTimerInvalidate

(* In each mode the timers are always in the order in which they fire, so  *)
(* that the binary search of __CFRepositionTimerInMode and the scan of     *)
(* __CFArmNextTimerInMode, which stops early, see what they rely on: while *)
(* timers are added, removed and invalidated, repeat in several modes, and *)
(* have their dates set by other threads.                                  *)
THEOREM TimersAreSorted ==
  ASSUME TimersFit, MovedInOneMode
  PROVE  Timer!Spec => []Timer!ListsAreSorted
<1>1. Timer!Init => TimerInv
  BY InitTimer
<1>2. TimerInv /\ [Timer!Next]_(Timer!vars) => TimerInv'
  BY TimerNext
<1>3. TimerInv => Timer!ListsAreSorted
  BY TimerInvImplies
<1> QED BY <1>1, <1>2, <1>3, PTL DEF Timer!Spec

=============================================================================
