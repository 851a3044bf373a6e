-------------------------- MODULE InitializeProofs --------------------------
(***************************************************************************)
(* For every set of threads and every class hierarchy, whatever a          *)
(* +initialize uses and whether it throws: the order of initialization.    *)
(***************************************************************************)
EXTENDS Initialize, SequenceTheorems, FiniteSetTheorems,
        WellFoundedInduction, TLAPS

Frames == [cls : Classes, pc : Labels]
SendLabels == {"initialize", "finish", "finishThrow"}

\* The call at place i of this stack is sending +initialize to c.
SendsIn(s, i, c) ==
  /\ i \in DOMAIN s
  /\ s[i].cls = c
  /\ s[i].pc \in SendLabels

Sends(t, i, c) == SendsIn(stack[t], i, c)

\* A stack of calls: see StackInv.
Shape(s) ==
  /\ s \in Seq(Frames)
  /\ \A i \in 2..Len(s) :
       /\ s[i].pc \in {"set", "initialize"}
       /\ s[i].pc = "set" => s[i - 1].cls = Super[s[i].cls]

\* A thread may begin to initialize c.
Ready(t, c) == Initialized(Super[c]) \/ Super[c] \in initializing[t]

Types ==
  /\ state \in [Classes -> {"none", "initializing", "initialized"}]
  /\ initializing \in [Threads -> SUBSET Classes]
  /\ pending \in [Classes -> SUBSET Classes]

Shapes ==
  /\ stack \in [Threads -> Seq(Frames)]
  /\ \A t \in Threads : Shape(stack[t])

OneSender ==
  \A t, u \in Threads, i, j \in Int, c \in Classes :
    Sends(t, i, c) /\ Sends(u, j, c) => t = u /\ i = j

SendersAreReady ==
  \A t \in Threads, i \in Int, c \in Classes :
    Sends(t, i, c) => c \in initializing[t] /\ Ready(t, c)

Owners ==
  \A t \in Threads : \A c \in initializing[t] :
    /\ state[c] = "initializing"
    /\ \A u \in Threads : c \in initializing[u] => u = t

Waiters ==
  \A c \in Classes : \A d \in pending[c] :
    /\ Super[d] = c
    /\ \A t \in Threads, i \in Int : ~Sends(t, i, d)
    /\ state[c] = "initializing" /\ state[d] = "initializing"
    /\ \A t \in Threads : d \in initializing[t] <=> c \in initializing[t]

Kept ==
  \A c \in Classes : state[c] = "initializing" =>
    \/ \E t \in Threads, i \in Int : Sends(t, i, c)
    \/ Super[c] # NoClass /\ c \in pending[Super[c]]

\* LabelInv for a call f.
LabelOK(t, f) ==
  /\ f.pc = "set" => Ready(t, f.cls)
  /\ f.pc = "initializing" => state[f.cls] # "none"
  /\ f.pc = "initialized" => state[f.cls] = "initialized"

Tops == \A t \in Threads : stack[t] # <<>> => LabelOK(t, stack[t][1])

\* ClassInv and NothingForgotten, with the calls counted by their places.
IInv ==
  /\ Types /\ Shapes /\ OneSender /\ SendersAreReady /\ Owners /\ Waiters
  /\ Kept /\ Tops /\ ContiguousSubtree

-----------------------------------------------------------------------------
(* Stacks *)

LEMMA LeastNatural ==
  ASSUME NEW S \in SUBSET Nat, S # {}
  PROVE  \E m \in S : \A k \in S : m <= k
<1>1. PICK m \in S : \A k \in S : ~ (<<k, m>> \in OpToRel(<, Nat))
  BY NatLessThanWellFounded, WFMin
<1>2. ASSUME NEW k \in S PROVE m <= k
  <2>1. k \in Nat /\ m \in Nat
    OBVIOUS
  <2>2. ~ (k < m)
    BY <1>1, <2>1 DEF OpToRel
  <2> QED BY <2>1, <2>2
<1> QED BY <1>2

\* What is at the top when a thread is at a label.
LEMMA AtTop ==
  ASSUME Shapes, NEW t \in Threads, NEW c, NEW l, At(t, c, l)
  PROVE  /\ Shape(stack[t]) /\ stack[t] # <<>>
         /\ 1 \in DOMAIN stack[t]
         /\ stack[t][1].cls = c /\ stack[t][1].pc = l
  BY DEF Shapes, Shape, At, Frame

LEMMA FirstCall ==
  ASSUME NEW s, Shape(s), s # <<>>
  PROVE  /\ s \in Seq(Frames) /\ Len(s) \in Nat /\ Len(s) >= 1
         /\ DOMAIN s = 1..Len(s) /\ Head(s) = s[1]
         /\ s[1] \in Frames /\ s[1].cls \in Classes /\ s[1].pc \in Labels
<1>1. /\ s \in Seq(Frames) /\ Len(s) \in Nat /\ Len(s) >= 1
      /\ DOMAIN s = 1..Len(s) /\ Head(s) = s[1]
  BY DEF Shape
<1>2. s[1] \in Frames
  BY <1>1
<1> QED BY <1>1, <1>2 DEF Frames

\* A stack whose innermost call is at another label.
Relabels(s, r, l) ==
  /\ r \in Seq(Frames) /\ Len(r) = Len(s)
  /\ r[1].cls = s[1].cls /\ r[1].pc = l
  /\ \A i \in 2..Len(s) : r[i] = s[i]

LEMMA SetLabel ==
  ASSUME NEW s, Shape(s), s # <<>>, NEW l \in Labels
  PROVE  Relabels(s, [s EXCEPT ![1].pc = l], l)
<1> DEFINE f == Frame(s[1].cls, l)
           r == [s EXCEPT ![1] = f]
<1>1. /\ s \in Seq(Frames) /\ Len(s) \in Nat
      /\ 1 \in 1..Len(s) /\ s[1] \in Frames
  BY FirstCall
<1>2. [s[1] EXCEPT !.pc = l] = f
  BY <1>1 DEF Frames, Frame
<1>3. [s EXCEPT ![1].pc = l] = r
  BY <1>2, Zenon
<1>4. f \in Frames /\ f.cls = s[1].cls /\ f.pc = l
  BY <1>1 DEF Frames, Frame
<1> HIDE DEF f
<1>5. Relabels(s, r, l)
  <2>1. /\ r \in Seq(Frames) /\ Len(r) = Len(s) /\ r[1] = f
        /\ \A i \in 1..Len(s) : i # 1 => r[i] = s[i]
    BY <1>1, <1>4, ExceptSeq
  <2> HIDE DEF r
  <2> QED BY <1>4, <2>1 DEF Relabels
<1> QED BY <1>3, <1>5

LEMMA Relabelled ==
  ASSUME NEW s, Shape(s), s # <<>>, NEW r, NEW l, Relabels(s, r, l)
  PROVE  /\ Shape(r) /\ r # <<>>
         /\ r[1].cls = s[1].cls /\ r[1].pc = l
         /\ \A i \in Int, c \in Classes :
              i # 1 => (SendsIn(r, i, c) <=> SendsIn(s, i, c))
<1>1. /\ s \in Seq(Frames) /\ Len(s) \in Nat
      /\ DOMAIN s = 1..Len(s) /\ 1 \in 1..Len(s)
  BY DEF Shape
<1>2. /\ r \in Seq(Frames) /\ Len(r) = Len(s) /\ r[1].cls = s[1].cls
      /\ r[1].pc = l /\ \A i \in 2..Len(s) : r[i] = s[i]
  BY DEF Relabels
<1>3. DOMAIN r = 1..Len(s)
  BY <1>2
<1>4. ASSUME NEW i \in 2..Len(r)
      PROVE  /\ r[i].pc \in {"set", "initialize"}
             /\ r[i].pc = "set" => r[i - 1].cls = Super[r[i].cls]
  <2>1. i \in 2..Len(s) /\ (i = 2 \/ i - 1 \in 2..Len(s))
    BY <1>1, <1>2
  <2>2. r[i] = s[i] /\ r[i - 1].cls = s[i - 1].cls
    BY <1>2, <2>1
  <2> QED BY <2>1, <2>2 DEF Shape
<1>5. ASSUME NEW i \in Int, NEW c \in Classes, i # 1
      PROVE  SendsIn(r, i, c) <=> SendsIn(s, i, c)
  <2>1. i \in 1..Len(s) => i \in 2..Len(s)
    BY <1>1, <1>5
  <2> QED BY <1>1, <1>2, <1>3, <2>1 DEF SendsIn
<1>6. r # <<>>
  BY <1>1, <1>3
<1> QED BY <1>2, <1>4, <1>5, <1>6 DEF Shape

\* One thread's stack changes.
LEMMA OneStack ==
  ASSUME Shapes, NEW t \in Threads, NEW s, Shape(s),
         stack' = [stack EXCEPT ![t] = s]
  PROVE  /\ Shapes' /\ stack'[t] = s
         /\ \A u \in Threads \ {t} : stack'[u] = stack[u]
<1>1. s \in Seq(Frames)
  BY DEF Shape
<1>2. stack' \in [Threads -> Seq(Frames)]
  BY <1>1 DEF Shapes
<1>3. /\ stack'[t] = s
      /\ \A u \in Threads \ {t} : stack'[u] = stack[u]
  BY DEF Shapes
<1>4. ASSUME NEW u \in Threads PROVE Shape(stack'[u])
  <2>1. CASE u = t
    BY <1>3, <2>1
  <2>2. CASE u # t
    <3>1. stack'[u] = stack[u] /\ Shape(stack[u])
      BY <1>3, <2>2 DEF Shapes
    <3> QED BY <3>1
  <2> QED BY <2>1, <2>2
<1>5. Shapes'
  <2>1. \A u \in Threads : Shape(stack[u])'
    BY <1>4 DEF Shape
  <2> QED BY <1>2, <2>1 DEF Shapes
<1> QED BY <1>3, <1>5

\* The label of the innermost call changes.
LEMMA GotoFrame ==
  ASSUME Shapes, NEW t \in Threads, stack[t] # <<>>, NEW l \in Labels,
         Goto(t, l)
  PROVE  /\ Shapes'
         /\ \A u \in Threads \ {t} : stack'[u] = stack[u]
         /\ stack'[t] # <<>>
         /\ stack'[t][1].cls = stack[t][1].cls /\ stack'[t][1].pc = l
         /\ \A u \in Threads, i \in Int, c \in Classes :
              u # t \/ i # 1 => (Sends(u, i, c)' <=> Sends(u, i, c))
<1> DEFINE r == [stack[t] EXCEPT ![1].pc = l]
<1>1. stack' = [stack EXCEPT ![t] = r]
  BY DEF Goto
<1>2. Shape(stack[t]) /\ Relabels(stack[t], r, l)
  BY SetLabel DEF Shapes
<1> HIDE DEF r
<1>3. /\ Shape(r) /\ r # <<>>
      /\ r[1].cls = stack[t][1].cls /\ r[1].pc = l
      /\ \A i \in Int, c \in Classes :
           i # 1 => (SendsIn(r, i, c) <=> SendsIn(stack[t], i, c))
  BY <1>2, Relabelled
<1>4. /\ Shapes' /\ stack'[t] = r
      /\ \A u \in Threads \ {t} : stack'[u] = stack[u]
  BY <1>1, <1>3, OneStack
<1>5. ASSUME NEW u \in Threads, NEW i \in Int, NEW c \in Classes,
             u # t \/ i # 1
      PROVE  Sends(u, i, c)' <=> Sends(u, i, c)
  BY <1>3, <1>4, <1>5 DEF Sends, SendsIn
<1> QED BY <1>3, <1>4, <1>5

\* The stack without its innermost call.
LEMMA Popped ==
  ASSUME NEW s, Shape(s), s # <<>>
  PROVE  /\ Shape(Tail(s))
         /\ Tail(s) # <<>> =>
              Tail(s)[1].pc = "initialize" \/
              /\ Tail(s)[1].pc = "set"
              /\ Super[Tail(s)[1].cls] = s[1].cls
         /\ \A i \in Int, c \in Classes :
              i # 0 => (SendsIn(Tail(s), i, c) <=> SendsIn(s, i + 1, c))
         /\ \A c \in Classes : ~SendsIn(Tail(s), 0, c)
<1>1. /\ s \in Seq(Frames) /\ Len(s) \in Nat /\ Len(s) >= 1
      /\ DOMAIN s = 1..Len(s)
      /\ Tail(s) \in Seq(Frames) /\ Len(Tail(s)) = Len(s) - 1
      /\ DOMAIN Tail(s) = 1..(Len(s) - 1)
      /\ \A i \in 1..(Len(s) - 1) : Tail(s)[i] = s[i + 1]
  BY DEF Shape
<1>2. Shape(Tail(s))
  BY <1>1 DEF Shape
<1>3. ASSUME Tail(s) # <<>>
      PROVE  Tail(s)[1].pc = "initialize" \/
              /\ Tail(s)[1].pc = "set"
              /\ Super[Tail(s)[1].cls] = s[1].cls
  <2>1. Len(s) >= 2
    BY <1>1, <1>3
  <2>2. Tail(s)[1] = s[2]
    BY <1>1, <2>1
  <2> QED BY <1>1, <2>1, <2>2 DEF Shape
<1>4. \A i \in Int, c \in Classes :
         i # 0 => (SendsIn(Tail(s), i, c) <=> SendsIn(s, i + 1, c))
  BY <1>1 DEF SendsIn
<1>5. \A c \in Classes : ~SendsIn(Tail(s), 0, c)
  BY <1>1 DEF SendsIn
<1> QED BY <1>2, <1>3, <1>4, <1>5

\* The stack with a call on top of a +initialize or of nothing.
LEMMA Pushed ==
  ASSUME NEW s, Shape(s), s = <<>> \/ s[1].pc = "initialize",
         NEW f \in Frames, f.pc = "super", NEW r, r = <<f>> \o s
  PROVE  /\ Shape(r) /\ r[1].pc = "super"
         /\ \A i \in Int, d \in Classes :
              SendsIn(r, i, d) <=> SendsIn(s, i - 1, d)
<1>1. /\ s \in Seq(Frames) /\ Len(s) \in Nat /\ DOMAIN s = 1..Len(s)
  BY DEF Shape
<1>4. /\ r \in Seq(Frames) /\ Len(r) = Len(s) + 1
      /\ DOMAIN r = 1..(Len(s) + 1)
      /\ r[1] = f /\ \A i \in 2..(Len(s) + 1) : r[i] = s[i - 1]
  BY <1>1
<1>5. Shape(r)
  <2>1. ASSUME NEW i \in 2..Len(r)
        PROVE  /\ r[i].pc \in {"set", "initialize"}
               /\ r[i].pc = "set" => r[i - 1].cls = Super[r[i].cls]
    <3>1. CASE i = 2
      BY <1>1, <1>4, <3>1
    <3>2. CASE i # 2
      BY <1>1, <1>4, <3>2 DEF Shape
    <3> QED BY <3>1, <3>2
  <2> QED BY <1>4, <2>1 DEF Shape
<1>6. ASSUME NEW i \in Int, NEW d \in Classes
      PROVE  SendsIn(r, i, d) <=> SendsIn(s, i - 1, d)
  BY <1>1, <1>4 DEF SendsIn, SendLabels
<1> QED BY <1>4, <1>5, <1>6

\* The stack with a call for the superclass on top of the innermost call.
LEMMA PushedSuper ==
  ASSUME NEW s, Shape(s), s # <<>>, s[1].pc = "super",
         NEW g \in Frames, g.pc = "set", g.cls = s[1].cls,
         NEW f \in Frames, f.pc = "super", f.cls = Super[g.cls]
  PROVE  LET r == <<f, g>> \o Tail(s) IN
         /\ Shape(r) /\ r[1].pc = "super"
         /\ \A i \in Int, d \in Classes :
              SendsIn(r, i, d) <=> SendsIn(s, i - 1, d)
<1> DEFINE r == <<f, g>> \o Tail(s)
<1>1. /\ s \in Seq(Frames) /\ Len(s) \in Nat /\ DOMAIN s = 1..Len(s)
      /\ Len(s) >= 1 /\ s[1] \in Frames
  BY DEF Shape
<1>4. /\ r \in Seq(Frames) /\ Len(r) = Len(s) + 1
      /\ DOMAIN r = 1..(Len(s) + 1)
      /\ r[1] = f /\ r[2] = g
      /\ \A i \in 3..(Len(s) + 1) : r[i] = s[i - 1]
  BY <1>1
<1> HIDE DEF r
<1>5. Shape(r)
  <2>1. ASSUME NEW i \in 2..Len(r)
        PROVE  /\ r[i].pc \in {"set", "initialize"}
               /\ r[i].pc = "set" => r[i - 1].cls = Super[r[i].cls]
    <3>1. CASE i = 2
      BY <1>4, <3>1
    <3>2. CASE i = 3
      BY <1>1, <1>4, <3>2 DEF Shape
    <3>3. CASE i # 2 /\ i # 3
      BY <1>1, <1>4, <3>3 DEF Shape
    <3> QED BY <3>1, <3>2, <3>3
  <2> QED BY <1>4, <2>1 DEF Shape
<1>6. ASSUME NEW i \in Int, NEW d \in Classes
      PROVE  SendsIn(r, i, d) <=> SendsIn(s, i - 1, d)
  <2>1. CASE i \in 3..(Len(s) + 1)
    BY <1>1, <1>4, <2>1 DEF SendsIn
  <2>2. CASE i \notin 3..(Len(s) + 1)
    BY <1>1, <1>4, <2>2 DEF SendsIn, SendLabels
  <2> QED BY <2>1, <2>2
<1> QED BY <1>4, <1>5, <1>6 DEF r

\* What is left of stack s when its innermost call, for c, is over: calls
\* that send have moved together, and one for c is another call than that.
Left(s, r, c) ==
  /\ \E k \in Int : \A i \in Int, d \in Classes \ {c} :
       SendsIn(r, i, d) <=> SendsIn(s, i + k, d)
  /\ \A i \in Int : SendsIn(r, i, c) => \E j \in Int \ {1} : SendsIn(s, j, c)

LEMMA LeftByReturn ==
  ASSUME NEW s, Shape(s), s # <<>>
  PROVE  Left(s, Tail(s), s[1].cls)
<1> DEFINE c == s[1].cls
<1>1. /\ \A i \in Int, d \in Classes :
           i # 0 => (SendsIn(Tail(s), i, d) <=> SendsIn(s, i + 1, d))
      /\ \A d \in Classes : ~SendsIn(Tail(s), 0, d)
  BY Popped
<1>2. \A d \in Classes \ {c} : ~SendsIn(s, 1, d)
  BY DEF SendsIn
<1>3. \A i \in Int, d \in Classes \ {c} :
         SendsIn(Tail(s), i, d) <=> SendsIn(s, i + 1, d)
  <2>1. \A i \in Int : i = 0 \/ i # 0
    OBVIOUS
  <2> QED BY <1>1, <1>2, <2>1
<1>4. c \in Classes
  BY FirstCall
<1>5. ASSUME NEW i \in Int, SendsIn(Tail(s), i, c)
      PROVE  \E j \in Int \ {1} : SendsIn(s, j, c)
  <2>1. i # 0
    BY <1>1, <1>4, <1>5
  <2>2. SendsIn(s, i + 1, c) /\ i + 1 \in Int \ {1}
    BY <1>1, <1>4, <1>5, <2>1
  <2> QED BY <2>2
<1> HIDE DEF c
<1>6. Left(s, Tail(s), c)
  <2>1. 1 \in Int
    OBVIOUS
  <2> QED BY <1>3, <1>5, <2>1 DEF Left
<1> QED BY <1>6 DEF c

\* What an exception leaves.
LEMMA LeftByThrow ==
  ASSUME Shapes, NEW t \in Threads, stack[t] # <<>>
  PROVE  /\ Shape(Unwound(t))
         /\ Unwound(t) # <<>> => Unwound(t)[1].pc = "initialize"
         /\ Left(stack[t], Unwound(t), stack[t][1].cls)
<1> DEFINE s == stack[t]
           c == s[1].cls
<1>1. /\ Shape(s) /\ s \in Seq(Frames) /\ Len(s) \in Nat /\ Len(s) >= 1
      /\ DOMAIN s = 1..Len(s)
  BY DEF Shapes, Shape
<1>2. \A i \in Int, d \in Classes \ {c} : SendsIn(s, i, d) => i \in 2..Len(s)
  BY <1>1 DEF SendsIn
<1>3. \A i \in 2..Len(s), d \in Classes :
         SendsIn(s, i, d) => i \in Handlers(t)
  BY <1>1 DEF SendsIn, SendLabels, Shape, Handlers
<1>4. CASE Handlers(t) = {}
  <2>1. Unwound(t) = <<>>
    BY <1>4 DEF Unwound
  <2>2. \A i \in Int, d \in Classes : ~SendsIn(<<>>, i, d)
    BY DEF SendsIn
  <2>3. \A i \in Int, d \in Classes \ {c} :
           SendsIn(Unwound(t), i, d) <=> SendsIn(s, i + 0, d)
    BY <1>2, <1>3, <1>4, <2>1, <2>2
  <2>4. Shape(<<>>)
    BY DEF Shape
  <2>5. c \in Classes
    BY <1>1, FirstCall
  <2>6. \A i \in Int : ~SendsIn(Unwound(t), i, c)
    BY <2>1, <2>2, <2>5
  <2>7. 0 \in Int
    OBVIOUS
  <2> QED BY <2>1, <2>3, <2>4, <2>6, <2>7 DEF Left
<1>5. CASE Handlers(t) # {}
  <2> DEFINE h == CHOOSE j \in Handlers(t) : \A k \in Handlers(t) : j <= k
             r == SubSeq(s, h, Len(s))
  <2>1. Handlers(t) \in SUBSET Nat /\ Handlers(t) \subseteq 2..Len(s)
    BY DEF Handlers
  <2>2. \E j \in Handlers(t) : \A k \in Handlers(t) : j <= k
    BY <1>5, <2>1, LeastNatural
  <2>3. h \in Handlers(t) /\ \A k \in Handlers(t) : h <= k
    BY <2>2
  <2>4. Unwound(t) = r
    BY <1>5 DEF Unwound
  <2> HIDE DEF h
  <2>5. h \in 2..Len(s) /\ s[h].pc = "initialize"
    BY <2>3 DEF Handlers
  <2>6. /\ r \in Seq(Frames) /\ Len(r) = Len(s) - h + 1
        /\ DOMAIN r = 1..(Len(s) - h + 1)
        /\ \A i \in 1..(Len(s) - h + 1) : r[i] = s[i + (h - 1)]
    BY <1>1, <2>5
  <2> HIDE DEF r
  <2>7. Shape(r)
    <3>1. ASSUME NEW i \in 2..Len(r)
          PROVE  /\ r[i].pc \in {"set", "initialize"}
                 /\ r[i].pc = "set" => r[i - 1].cls = Super[r[i].cls]
      <4> DEFINE j == i + (h - 1)
      <4>1. /\ j \in 2..Len(s) /\ (i - 1) + (h - 1) = j - 1
            /\ i \in 1..(Len(s) - h + 1) /\ i - 1 \in 1..(Len(s) - h + 1)
        BY <1>1, <2>5, <2>6
      <4>2. r[i] = s[j] /\ r[i - 1] = s[j - 1]
        BY <2>6, <4>1
      <4> HIDE DEF j
      <4> QED BY <1>1, <4>1, <4>2 DEF Shape
    <3> QED BY <2>6, <3>1 DEF Shape
  <2>8. r # <<>> /\ r[1].pc = "initialize"
    <3>1. 1 \in 1..(Len(s) - h + 1) /\ 1 + (h - 1) = h
      BY <1>1, <2>5
    <3> QED BY <2>5, <2>6, <3>1
  <2>9. \A i \in Int, d \in Classes : i \in 1..Len(r) =>
           (SendsIn(r, i, d) <=> SendsIn(s, i + (h - 1), d))
    BY <1>1, <2>5, <2>6 DEF SendsIn
  <2>10. \A i \in Int, d \in Classes : i \notin 1..Len(r) =>
           ~SendsIn(r, i, d)
    BY <2>6 DEF SendsIn
  <2>11. ASSUME NEW i \in Int, NEW d \in Classes \ {c},
                SendsIn(s, i + (h - 1), d)
         PROVE  i \in 1..Len(r)
    <3>1. i + (h - 1) \in Handlers(t)
      BY <1>2, <1>3, <2>5, <2>11
    <3>2. h <= i + (h - 1) /\ i + (h - 1) <= Len(s)
      BY <2>1, <2>3, <3>1
    <3> QED BY <1>1, <2>5, <2>6, <3>2
  <2>12. \A i \in Int, d \in Classes \ {c} :
            SendsIn(r, i, d) <=> SendsIn(s, i + (h - 1), d)
    BY <2>9, <2>10, <2>11
  <2>13. c \in Classes
    BY <1>1, FirstCall
  <2>14. ASSUME NEW i \in Int, SendsIn(r, i, c)
         PROVE  \E j \in Int \ {1} : SendsIn(s, j, c)
    <3>1. i \in 1..Len(r)
      BY <2>10, <2>13, <2>14
    <3>2. SendsIn(s, i + (h - 1), c)
      BY <2>9, <2>13, <2>14, <3>1
    <3>3. i + (h - 1) \in Int \ {1}
      BY <2>5, <2>6, <3>1
    <3> QED BY <3>2, <3>3
  <2>15. h - 1 \in Int
    BY <2>5
  <2> HIDE DEF s, c
  <2>16. Left(s, r, c)
    BY <2>12, <2>14, <2>15 DEF Left
  <2> QED BY <2>4, <2>7, <2>8, <2>16 DEF s, c
<1> QED BY <1>4, <1>5

\* The calls that sleep are woken, and no other call changes.
LEMMA Woken ==
  ASSUME NEW stacks \in [Threads -> Seq(Frames)],
         \A u \in Threads : Shape(stacks[u])
  PROVE  /\ NotifyAll(stacks) \in [Threads -> Seq(Frames)]
         /\ \A u \in Threads :
              /\ Shape(NotifyAll(stacks)[u])
              /\ Len(NotifyAll(stacks)[u]) = Len(stacks[u])
              /\ NotifyAll(stacks)[u] # <<>> =>
                   /\ stacks[u] # <<>>
                   /\ \/ NotifyAll(stacks)[u][1].pc = "wait"
                      \/ NotifyAll(stacks)[u][1] = stacks[u][1]
              /\ \A i \in Int, d \in Classes :
                   SendsIn(NotifyAll(stacks)[u], i, d)
                     <=> SendsIn(stacks[u], i, d)
<1>1. ASSUME NEW u \in Threads
      PROVE  /\ Shape(NotifyAll(stacks)[u])
             /\ Len(NotifyAll(stacks)[u]) = Len(stacks[u])
             /\ NotifyAll(stacks)[u] # <<>> =>
                   /\ stacks[u] # <<>>
                   /\ \/ NotifyAll(stacks)[u][1].pc = "wait"
                      \/ NotifyAll(stacks)[u][1] = stacks[u][1]
             /\ \A i \in Int, d \in Classes :
                  SendsIn(NotifyAll(stacks)[u], i, d)
                    <=> SendsIn(stacks[u], i, d)
  <2> DEFINE s == stacks[u]
             r == NotifyAll(stacks)[u]
  <2>1. Shape(s)
    OBVIOUS
  <2>2. CASE s # <<>> /\ Head(s).pc = "asleep"
    <3>1. r = [s EXCEPT ![1].pc = "wait"]
      BY <2>2 DEF NotifyAll
    <3>2. "wait" \in Labels
      BY DEF Labels
    <3>3. s[1].pc = "asleep"
      BY <2>1, <2>2 DEF Shape
    <3>4. s # <<>>
      BY <2>2
    <3>7. Relabels(s, r, "wait")
      BY <2>1, <3>1, <3>2, <3>4, SetLabel
    <3> HIDE DEF r, s
    <3>5. /\ Shape(r) /\ r # <<>> /\ r[1].pc = "wait"
          /\ \A i \in Int, d \in Classes :
               i # 1 => (SendsIn(r, i, d) <=> SendsIn(s, i, d))
      BY <2>1, <3>4, <3>7, Relabelled
    <3>6. \A d \in Classes : ~SendsIn(r, 1, d) /\ ~SendsIn(s, 1, d)
      BY <3>3, <3>5 DEF SendsIn, SendLabels
    <3> QED BY <3>4, <3>5, <3>6, <3>7 DEF r, s, Relabels
  <2>3. CASE ~(s # <<>> /\ Head(s).pc = "asleep")
    <3>1. r = s
      BY <2>3 DEF NotifyAll
    <3> QED BY <2>1, <3>1
  <2> QED BY <2>2, <2>3
<1>2. \A u \in Threads : NotifyAll(stacks)[u] \in Seq(Frames)
  BY <1>1 DEF Shape
<1>3. NotifyAll(stacks) \in [Threads -> Seq(Frames)]
  BY <1>2 DEF NotifyAll
<1> QED BY <1>1, <1>3

-----------------------------------------------------------------------------
(* The inductive step *)

LEMMA InitialState == Init => IInv
<1> SUFFICES ASSUME Init PROVE IInv
  OBVIOUS
<1>1. Types
  BY DEF Init, Types
<1>2. Shapes
  BY DEF Init, Shapes, Shape
<1>3. \A t \in Threads, i \in Int, c \in Classes : ~Sends(t, i, c)
  BY DEF Init, Sends, SendsIn
<1>4. OneSender /\ SendersAreReady
  BY <1>3 DEF OneSender, SendersAreReady
<1>5. Owners /\ Waiters /\ Kept /\ Tops
  BY DEF Init, Owners, Waiters, Kept, Tops
<1>6. ContiguousSubtree
  BY SuperAssumption DEF Init, ContiguousSubtree
<1> QED BY <1>1, <1>2, <1>4, <1>5, <1>6 DEF IInv

\* Calls come and go, or are at another label, and those that send move
\* together: nothing that the invariant says of classes changes.
SendersMove ==
  \A u \in Threads : \E k \in Int : \A i \in Int, d \in Classes :
    Sends(u, i, d)' <=> Sends(u, i + k, d)

LEMMA QuietStep ==
  ASSUME IInv, UNCHANGED <<state, initializing, pending>>,
         Shapes', SendersMove, Tops'
  PROVE  IInv'
<1>1. Types'
  BY DEF IInv, Types
<1>2. OneSender'
  <2>1. ASSUME NEW t \in Threads, NEW u \in Threads, NEW i \in Int,
               NEW j \in Int, NEW c \in Classes,
               Sends(t, i, c)', Sends(u, j, c)'
        PROVE  t = u /\ i = j
    <3>1. PICK k \in Int : \A n \in Int, d \in Classes :
             Sends(t, n, d)' <=> Sends(t, n + k, d)
      BY DEF SendersMove
    <3>2. PICK l \in Int : \A n \in Int, d \in Classes :
             Sends(u, n, d)' <=> Sends(u, n + l, d)
      BY DEF SendersMove
    <3>3. Sends(t, i + k, c) /\ Sends(u, j + l, c)
      BY <2>1, <3>1, <3>2
    <3>4. t = u
      BY <3>3 DEF IInv, OneSender
    <3>5. Sends(t, j + k, c)
      BY <2>1, <3>1, <3>4
    <3>6. i + k = j + k
      BY <3>3, <3>5 DEF IInv, OneSender
    <3> QED BY <3>4, <3>6
  <2> QED BY <2>1 DEF OneSender
<1>3. \A t \in Threads, i \in Int, c \in Classes :
         Sends(t, i, c)' => \E j \in Int : Sends(t, j, c)
  BY DEF SendersMove
<1>4. \A t \in Threads, c \in Classes : Ready(t, c)' <=> Ready(t, c)
  BY DEF Ready, Initialized
<1>5. SendersAreReady'
  BY <1>3, <1>4 DEF IInv, SendersAreReady
<1>6. Owners' /\ ContiguousSubtree'
  BY DEF IInv, Owners, ContiguousSubtree
<1>7. Waiters'
  <2>1. ASSUME NEW c \in Classes, NEW d \in pending[c]
        PROVE  /\ Super[d] = c
               /\ \A t \in Threads, i \in Int : ~Sends(t, i, d)'
               /\ state[c] = "initializing" /\ state[d] = "initializing"
               /\ \A t \in Threads :
                    d \in initializing[t] <=> c \in initializing[t]
    <3>1. d \in Classes
      BY DEF IInv, Types
    <3>2. \A t \in Threads, i \in Int : ~Sends(t, i, d)
      BY DEF IInv, Waiters
    <3> QED BY <1>3, <3>1, <3>2 DEF IInv, Waiters
  <2> QED BY <2>1 DEF Waiters
<1>8. Kept'
  <2>1. ASSUME NEW t \in Threads, NEW i \in Int, NEW c \in Classes,
               Sends(t, i, c)
        PROVE  \E j \in Int : Sends(t, j, c)'
    <3>1. PICK k \in Int : \A n \in Int, d \in Classes :
             Sends(t, n, d)' <=> Sends(t, n + k, d)
      BY DEF SendersMove
    <3>2. i - k \in Int /\ (i - k) + k = i
      OBVIOUS
    <3>3. Sends(t, i - k, c)'
      BY <2>1, <3>1, <3>2
    <3> QED BY <3>2, <3>3
  <2> QED BY <2>1 DEF IInv, Kept
<1> QED BY <1>1, <1>2, <1>5, <1>6, <1>7, <1>8 DEF IInv

\* The top of a stack that does not change.
LEMMA TopStays ==
  ASSUME IInv, NEW u \in Threads, stack'[u] = stack[u], stack[u] # <<>>,
         UNCHANGED <<state, initializing>>
  PROVE  LabelOK(u, stack[u][1])'
<1>1. LabelOK(u, stack[u][1])
  BY DEF IInv, Tops
<1> QED BY <1>1 DEF LabelOK, Ready, Initialized

\* A call at a label that does not send goes to another such label, or one
\* that sends from one to the next.
LEMMA GotoStep ==
  ASSUME IInv, UNCHANGED <<state, initializing, pending>>,
         NEW t \in Threads, stack[t] # <<>>, NEW l \in Labels, Goto(t, l),
         stack[t][1].pc \in SendLabels <=> l \in SendLabels,
         l = "set" => Ready(t, stack[t][1].cls),
         l = "initializing" => state[stack[t][1].cls] # "none",
         l = "initialized" => state[stack[t][1].cls] = "initialized"
  PROVE  IInv'
<1>1. Shapes
  BY DEF IInv
<1>2. /\ Shapes'
      /\ \A u \in Threads \ {t} : stack'[u] = stack[u]
      /\ stack'[t] # <<>>
      /\ stack'[t][1].cls = stack[t][1].cls /\ stack'[t][1].pc = l
      /\ \A u \in Threads, i \in Int, c \in Classes :
           u # t \/ i # 1 => (Sends(u, i, c)' <=> Sends(u, i, c))
  BY <1>1, GotoFrame
<1>3. \A c \in Classes : Sends(t, 1, c)' <=> Sends(t, 1, c)
  <2>1. 1 \in DOMAIN stack[t] /\ 1 \in DOMAIN stack'[t]
    BY <1>1, <1>2, FirstCall DEF Shapes, Shape
  <2> QED BY <1>2, <2>1 DEF Sends, SendsIn
<1>4. SendersMove
  <2>1. ASSUME NEW u \in Threads, NEW i \in Int, NEW d \in Classes
        PROVE  Sends(u, i, d)' <=> Sends(u, i + 0, d)
    <3>1. i + 0 = i
      OBVIOUS
    <3> QED BY <1>2, <1>3, <3>1
  <2>2. 0 \in Int
    OBVIOUS
  <2> QED BY <2>1, <2>2 DEF SendersMove
<1>5. Tops'
  <2>1. ASSUME NEW u \in Threads, stack'[u] # <<>>
        PROVE  LabelOK(u, stack[u][1])'
    <3>1. CASE u = t
      BY <1>2, <3>1 DEF LabelOK, Ready, Initialized
    <3>2. CASE u # t
      BY <1>2, <2>1, <3>2, TopStays
    <3> QED BY <3>1, <3>2
  <2> QED BY <2>1 DEF Tops
<1> QED BY <1>2, <1>4, <1>5, QuietStep

\* A call that does not send returns.
LEMMA ReturnStep ==
  ASSUME IInv, UNCHANGED <<state, initializing, pending>>,
         NEW t \in Threads, stack[t] # <<>>, Return(t),
         stack[t][1].pc \notin SendLabels,
         Initialized(stack[t][1].cls) \/ stack[t][1].cls \in initializing[t]
  PROVE  IInv'
<1>1. Shapes /\ Shape(stack[t])
  BY DEF IInv, Shapes
<1> DEFINE s == stack[t]
           r == Tail(s)
<1>2. /\ Shape(r)
      /\ r # <<>> => r[1].pc = "initialize" \/
           (r[1].pc = "set" /\ Super[r[1].cls] = s[1].cls)
      /\ \A i \in Int, c \in Classes :
           i # 0 => (SendsIn(r, i, c) <=> SendsIn(s, i + 1, c))
      /\ \A c \in Classes : ~SendsIn(r, 0, c)
  BY <1>1, Popped
<1>3. stack' = [stack EXCEPT ![t] = r]
  BY DEF Return
<1> HIDE DEF r
<1>4. /\ Shapes' /\ stack'[t] = r
      /\ \A u \in Threads \ {t} : stack'[u] = stack[u]
  BY <1>1, <1>2, <1>3, OneStack
<1>5. \A c \in Classes : ~SendsIn(s, 1, c)
  BY DEF SendsIn
<1>6. SendersMove
  <2>1. ASSUME NEW u \in Threads
        PROVE  \E k \in Int : \A i \in Int, d \in Classes :
                 Sends(u, i, d)' <=> Sends(u, i + k, d)
    <3>1. CASE u = t
      <4>1. ASSUME NEW i \in Int, NEW d \in Classes
            PROVE  SendsIn(r, i, d) <=> SendsIn(s, i + 1, d)
        <5>1. CASE i = 0
          BY <1>2, <1>5, <5>1
        <5>2. CASE i # 0
          BY <1>2, <5>2
        <5> QED BY <5>1, <5>2
      <4>2. \A i \in Int, d \in Classes :
               Sends(t, i, d)' <=> Sends(t, i + 1, d)
        BY <1>4, <4>1 DEF Sends, SendsIn
      <4>3. 1 \in Int
        OBVIOUS
      <4> QED BY <3>1, <4>2, <4>3
    <3>2. CASE u # t
      <4>1. \A i \in Int, d \in Classes :
               Sends(u, i, d)' <=> Sends(u, i + 0, d)
        BY <1>4, <3>2 DEF Sends, SendsIn
      <4>2. 0 \in Int
        OBVIOUS
      <4> QED BY <4>1, <4>2
    <3> QED BY <3>1, <3>2
  <2> QED BY <2>1 DEF SendersMove
<1>7. Tops'
  <2>1. ASSUME NEW u \in Threads, stack'[u] # <<>>
        PROVE  LabelOK(u, stack[u][1])'
    <3>1. CASE u = t
      <4>1. stack'[t][1].pc = "initialize" \/
              /\ stack'[t][1].pc = "set"
              /\ Super[stack'[t][1].cls] = s[1].cls
        BY <1>2, <1>4, <2>1, <3>1
      <4>2. CASE stack'[t][1].pc = "initialize"
        BY <3>1, <4>2 DEF LabelOK
      <4>3. CASE /\ stack'[t][1].pc = "set"
                 /\ Super[stack'[t][1].cls] = s[1].cls
        BY <3>1, <4>3 DEF LabelOK, Ready, Initialized
      <4> QED BY <4>1, <4>2, <4>3
    <3>2. CASE u # t
      BY <1>4, <2>1, <3>2, TopStays
    <3> QED BY <3>1, <3>2
  <2> QED BY <2>1 DEF Tops
<1> QED BY <1>4, <1>6, <1>7, QuietStep

\* A call comes on top of a thread's stack.
LEMMA PushStep ==
  ASSUME IInv, UNCHANGED <<state, initializing, pending>>,
         NEW t \in Threads, NEW r, stack' = [stack EXCEPT ![t] = r],
         Shape(r), r[1].pc = "super",
         \A i \in Int, d \in Classes :
           SendsIn(r, i, d) <=> SendsIn(stack[t], i - 1, d)
  PROVE  IInv'
<1>1. Shapes
  BY DEF IInv
<1>2. /\ Shapes' /\ stack'[t] = r
      /\ \A u \in Threads \ {t} : stack'[u] = stack[u]
  BY <1>1, OneStack
<1>3. SendersMove
  <2>1. ASSUME NEW u \in Threads
        PROVE  \E k \in Int : \A i \in Int, d \in Classes :
                 Sends(u, i, d)' <=> Sends(u, i + k, d)
    <3>1. CASE u = t
      <4>1. \A i \in Int : i - 1 = i + (-1)
        OBVIOUS
      <4>2. \A i \in Int, d \in Classes :
               Sends(t, i, d)' <=> Sends(t, i + (-1), d)
        BY <1>2, <4>1 DEF Sends, SendsIn
      <4>3. -1 \in Int
        OBVIOUS
      <4> QED BY <3>1, <4>2, <4>3
    <3>2. CASE u # t
      <4>1. \A i \in Int, d \in Classes :
               Sends(u, i, d)' <=> Sends(u, i + 0, d)
        BY <1>2, <3>2 DEF Sends, SendsIn
      <4>2. 0 \in Int
        OBVIOUS
      <4> QED BY <4>1, <4>2
    <3> QED BY <3>1, <3>2
  <2> QED BY <2>1 DEF SendersMove
<1>4. Tops'
  <2>1. ASSUME NEW u \in Threads, stack'[u] # <<>>
        PROVE  LabelOK(u, stack[u][1])'
    <3>1. CASE u = t
      BY <1>2, <3>1 DEF LabelOK
    <3>2. CASE u # t
      BY <1>2, <2>1, <3>2, TopStays
    <3> QED BY <3>1, <3>2
  <2> QED BY <2>1 DEF Tops
<1> QED BY <1>2, <1>3, <1>4, QuietStep

\* What a thread may rely on stays true of the others when it begins to
\* initialize a class.
LEMMA BeginStep ==
  ASSUME IInv, NEW t \in Threads, NEW c \in Classes, At(t, c, "set"),
         state[c] = "none",
         state' = [state EXCEPT ![c] = "initializing"],
         initializing' = [initializing EXCEPT ![t] = @ \cup {c}],
         UNCHANGED pending, Goto(t, "initialize")
  PROVE  IInv'
<1>1. Shapes /\ Types
  BY DEF IInv
<1>2. stack[t] # <<>> /\ stack[t][1].cls = c /\ stack[t][1].pc = "set"
  BY <1>1, AtTop
<1>3. "initialize" \in Labels
  BY DEF Labels
<1>4. /\ Shapes'
      /\ \A u \in Threads \ {t} : stack'[u] = stack[u]
      /\ stack'[t] # <<>>
      /\ stack'[t][1].cls = stack[t][1].cls
      /\ stack'[t][1].pc = "initialize"
      /\ \A u \in Threads, i \in Int, d \in Classes :
           u # t \/ i # 1 => (Sends(u, i, d)' <=> Sends(u, i, d))
  BY <1>1, <1>2, <1>3, GotoFrame
<1>5. Types'
  BY <1>1 DEF Types
<1>6. /\ Ready(t, c)
      /\ \A u \in Threads : c \notin initializing[u]
      /\ \A u \in Threads, i \in Int : ~Sends(u, i, c)
  <2>1. Ready(t, c)
    BY <1>2 DEF IInv, Tops, LabelOK
  <2>2. \A u \in Threads : c \notin initializing[u]
    BY DEF IInv, Owners
  <2> QED BY <2>1, <2>2 DEF IInv, SendersAreReady
<1>7. /\ \A u \in Threads, d \in Classes :
            d \in initializing'[u] <=>
              d \in initializing[u] \/ (u = t /\ d = c)
      /\ \A d \in Classes : d # c => state'[d] = state[d]
      /\ state'[c] = "initializing" /\ NoClass # c
  BY <1>1, SuperAssumption DEF Types
<1>8. ASSUME NEW u \in Threads, NEW d \in Classes, Ready(u, d)
      PROVE  Ready(u, d)'
  <2>1. CASE Initialized(Super[d])
    <3>1. Super[d] = NoClass \/ (Super[d] \in Classes /\ Super[d] # c)
      BY <2>1, SuperAssumption DEF Initialized
    <3> QED BY <1>7, <2>1, <3>1 DEF Initialized, Ready
  <2>2. CASE Super[d] \in initializing[u]
    BY <1>1, <1>7, <2>2 DEF Types, Ready
  <2> QED BY <1>8, <2>1, <2>2 DEF Ready
<1>9. ASSUME NEW u \in Threads, NEW i \in Int, NEW d \in Classes
      PROVE  /\ d # c => (Sends(u, i, d)' <=> Sends(u, i, d))
             /\ Sends(u, i, c)' <=> u = t /\ i = 1
  <2>1. Sends(t, 1, c)' /\ (d # c => ~Sends(t, 1, d)')
    <3>1. 1 \in DOMAIN stack'[t]
      BY <1>4, FirstCall DEF Shapes
    <3> QED BY <1>2, <1>4, <3>1 DEF Sends, SendsIn, SendLabels
  <2>2. ~Sends(t, 1, d)
    BY <1>2 DEF Sends, SendsIn, SendLabels
  <2> QED BY <1>4, <1>6, <2>1, <2>2
<1>10. OneSender'
  BY <1>9 DEF IInv, OneSender
<1>11. SendersAreReady'
  BY <1>6, <1>7, <1>8, <1>9 DEF IInv, SendersAreReady
<1>12. Owners'
  <2>1. ASSUME NEW u \in Threads, NEW d \in initializing'[u]
        PROVE  /\ state'[d] = "initializing"
               /\ \A v \in Threads : d \in initializing'[v] => v = u
    <3>1. d \in Classes
      BY <1>5 DEF Types
    <3> QED BY <1>6, <1>7, <3>1 DEF IInv, Owners
  <2> QED BY <2>1 DEF Owners
<1>13. Waiters'
  <2>1. ASSUME NEW e \in Classes, NEW d \in pending[e]
        PROVE  /\ Super[d] = e
               /\ \A u \in Threads, i \in Int : ~Sends(u, i, d)'
               /\ state'[e] = "initializing" /\ state'[d] = "initializing"
               /\ \A u \in Threads :
                    d \in initializing'[u] <=> e \in initializing'[u]
    <3>1. d \in Classes
      BY <1>1 DEF Types
    <3>2. /\ Super[d] = e
          /\ \A u \in Threads, i \in Int : ~Sends(u, i, d)
          /\ state[e] = "initializing" /\ state[d] = "initializing"
          /\ \A u \in Threads :
               d \in initializing[u] <=> e \in initializing[u]
      BY DEF IInv, Waiters
    <3>3. d # c /\ e # c
      BY <3>2
    <3> QED BY <1>7, <1>9, <3>1, <3>2, <3>3
  <2> QED BY <2>1 DEF Waiters
<1>14. Kept'
  <2>1. ASSUME NEW d \in Classes, state'[d] = "initializing"
        PROVE  \/ \E u \in Threads, i \in Int : Sends(u, i, d)'
               \/ Super[d] # NoClass /\ d \in pending[Super[d]]
    <3>1. CASE d = c
      <4>1. 1 \in Int /\ Sends(t, 1, c)'
        BY <1>9
      <4> QED BY <3>1, <4>1
    <3>2. CASE d # c
      BY <1>7, <1>9, <2>1, <3>2 DEF IInv, Kept
    <3> QED BY <3>1, <3>2
  <2> QED BY <2>1 DEF Kept
<1>15. ContiguousSubtree'
  <2>1. Super[c] # NoClass => Super[c] # c /\ state[Super[c]] # "none"
    <3>1. ASSUME Super[c] # NoClass
          PROVE  state[Super[c]] # "none"
      BY <1>6, <3>1 DEF Ready, Initialized, IInv, Owners
    <3> QED BY <3>1
  <2>2. ASSUME NEW d \in Classes, Super[d] # NoClass
        PROVE  /\ state'[d] # "none" => state'[Super[d]] # "none"
               /\ state'[d] = "initialized" =>
                    state'[Super[d]] = "initialized"
    <3>1. Super[d] \in Classes
      BY <2>2, SuperAssumption
    <3>2. /\ state[d] # "none" => state[Super[d]] # "none"
          /\ state[d] = "initialized" => state[Super[d]] = "initialized"
      BY <2>2 DEF IInv, ContiguousSubtree
    <3> QED BY <1>7, <2>1, <2>2, <3>1, <3>2
  <2> QED BY <2>2 DEF ContiguousSubtree
<1>16. Tops'
  <2>1. ASSUME NEW u \in Threads, stack'[u] # <<>>
        PROVE  LabelOK(u, stack[u][1])'
    <3>1. CASE u = t
      BY <1>4, <3>1 DEF LabelOK
    <3>2. CASE u # t
      <4>1. stack'[u] = stack[u]
        BY <1>4, <3>2
      <4>2. LabelOK(u, stack[u][1]) /\ stack[u][1].cls \in Classes
        BY <1>1, <2>1, <4>1, FirstCall DEF IInv, Tops, Shapes
      <4> QED BY <1>7, <1>8, <4>1, <4>2 DEF LabelOK
    <3> QED BY <3>1, <3>2
  <2> QED BY <2>1 DEF Tops
<1> QED BY <1>4, <1>5, <1>10, <1>11, <1>12, <1>13, <1>14, <1>15, <1>16 DEF IInv

\* The innermost call of thread t, for c, is over: see LockAndFinish.
Leaves(t, c) ==
  /\ Shapes'
  /\ \A u \in Threads : \E k \in Int : \A i \in Int, d \in Classes \ {c} :
       Sends(u, i, d)' <=> Sends(u, i + k, d)
  /\ \A u \in Threads, i \in Int : ~Sends(u, i, c)'
  /\ \A u \in Threads : stack'[u] # <<>> =>
       \/ stack'[u][1].pc \in {"wait", "initialize"}
       \/ stack[u] # <<>> /\ stack'[u][1] = stack[u][1]
       \/ /\ u = t /\ stack'[u][1].pc = "set"
          /\ Super[stack'[u][1].cls] = c

\* The stacks without the innermost call of t, or what it leaves when it
\* throws, woken or not.
LEMMA LeavesStack ==
  ASSUME IInv, NEW t \in Threads, NEW c \in Classes, Sends(t, 1, c),
         NEW r, Shape(r), Left(stack[t], r, c),
         r # <<>> =>
           \/ r[1].pc = "initialize"
           \/ r[1].pc = "set" /\ Super[r[1].cls] = c,
         \/ stack' = [stack EXCEPT ![t] = r]
         \/ stack' = NotifyAll([stack EXCEPT ![t] = r])
  PROVE  Leaves(t, c)
<1> DEFINE s == [stack EXCEPT ![t] = r]
<1>1. Shapes
  BY DEF IInv
<1>2. /\ s \in [Threads -> Seq(Frames)] /\ s[t] = r
      /\ \A u \in Threads \ {t} : s[u] = stack[u]
  BY <1>1 DEF Shapes, Shape
<1> HIDE DEF s
<1>3. \A u \in Threads : Shape(s[u])
  <2>1. \A u \in Threads : u = t \/ s[u] = stack[u]
    BY <1>2
  <2>2. \A u \in Threads : Shape(stack[u])
    BY <1>1 DEF Shapes
  <2> QED BY <1>2, <2>1, <2>2
<1>4. /\ stack' \in [Threads -> Seq(Frames)]
      /\ \A u \in Threads :
           /\ Shape(stack'[u])
           /\ stack'[u] # <<>> =>
                /\ s[u] # <<>>
                /\ stack'[u][1].pc = "wait" \/ stack'[u][1] = s[u][1]
           /\ \A i \in Int, d \in Classes :
                SendsIn(stack'[u], i, d) <=> SendsIn(s[u], i, d)
  <2>1. CASE stack' = s
    BY <1>2, <1>3, <2>1
  <2>2. CASE stack' = NotifyAll(s)
    BY <1>2, <1>3, <2>2, Woken
  <2> QED BY <2>1, <2>2 DEF s
<1>5. Shapes'
  BY <1>4 DEF Shapes, Shape
<1>6. \A u \in Threads, i \in Int, d \in Classes :
         Sends(u, i, d)' <=> SendsIn(s[u], i, d)
  BY <1>4 DEF Sends, SendsIn
<1>7. ASSUME NEW u \in Threads
      PROVE  \E k \in Int : \A i \in Int, d \in Classes \ {c} :
               Sends(u, i, d)' <=> Sends(u, i + k, d)
  <2>1. CASE u = t
    BY <1>2, <1>6, <2>1 DEF Left, Sends
  <2>2. CASE u # t
    <3>1. \A i \in Int, d \in Classes \ {c} :
             Sends(u, i, d)' <=> Sends(u, i + 0, d)
      BY <1>2, <1>6, <2>2 DEF Sends
    <3>2. 0 \in Int
      OBVIOUS
    <3> QED BY <3>1, <3>2
  <2> QED BY <2>1, <2>2
<1>8. ASSUME NEW u \in Threads, NEW i \in Int PROVE ~Sends(u, i, c)'
  <2>1. \A v \in Threads, j \in Int : Sends(v, j, c) => v = t /\ j = 1
    BY DEF IInv, OneSender
  <2>2. CASE u = t
    <3>1. \A j \in Int \ {1} : ~SendsIn(stack[t], j, c)
      BY <2>1 DEF Sends
    <3>2. ~SendsIn(r, i, c)
      BY <3>1 DEF Left
    <3> QED BY <1>2, <1>6, <2>2, <3>2
  <2>3. CASE u # t
    BY <1>2, <1>6, <2>1, <2>3 DEF Sends
  <2> QED BY <2>2, <2>3
<1>9. ASSUME NEW u \in Threads, stack'[u] # <<>>
      PROVE  \/ stack'[u][1].pc \in {"wait", "initialize"}
             \/ stack[u] # <<>> /\ stack'[u][1] = stack[u][1]
             \/ /\ u = t /\ stack'[u][1].pc = "set"
                /\ Super[stack'[u][1].cls] = c
  <2>1. s[u] # <<>>
    BY <1>4, <1>9
  <2>2. stack'[u][1].pc = "wait" \/ stack'[u][1] = s[u][1]
    BY <1>4, <1>9
  <2> QED BY <1>2, <2>1, <2>2
<1> QED BY <1>5, <1>7, <1>8, <1>9 DEF Leaves

\* The classes that _finishInitializing marks are in the thread's list, each
\* but c waits for another of them, and what waits for one is one of them.
LEMMA FinishedClasses ==
  ASSUME IInv, NEW t \in Threads, NEW c \in Classes, Sends(t, 1, c)
  PROVE  /\ c \in Finished(c)
         /\ Finished(c) \subseteq initializing[t]
         /\ \A d \in Finished(c) : pending[d] \subseteq Finished(c)
         /\ \A d \in Finished(c) : d # c =>
              Super[d] \in Finished(c) /\ d \in pending[Super[d]]
<1>1. Types
  BY DEF IInv
<1>2. c \in Finished(c)
  BY DEF Finished
<1>3. \A d \in Finished(c) : pending[d] \subseteq Finished(c)
  <2>1. ASSUME NEW d \in Finished(c), NEW e \in pending[d]
        PROVE  e \in Finished(c)
    <3>1. d \in Classes /\ e \in Classes
      BY <1>1 DEF Finished, Types
    <3>2. ASSUME NEW S \in SUBSET Classes, c \in S,
                 \A s \in S : pending[s] \subseteq S
          PROVE  e \in S
      BY <3>2 DEF Finished
    <3> QED BY <3>1, <3>2 DEF Finished
  <2> QED BY <2>1
<1>4. Finished(c) \subseteq initializing[t]
  <2> DEFINE S == initializing[t]
  <2>1. S \in SUBSET Classes
    BY <1>1 DEF Types
  <2>2. c \in S
    BY DEF IInv, SendersAreReady
  <2>3. \A s \in S : pending[s] \subseteq S
    BY <2>1 DEF IInv, Waiters
  <2> HIDE DEF S
  <2>4. \A d \in Finished(c) : d \in S
    BY <2>1, <2>2, <2>3 DEF Finished
  <2> QED BY <2>4 DEF S
<1>5. \A d \in Finished(c) : d # c =>
         Super[d] \in Finished(c) /\ d \in pending[Super[d]]
  <2> DEFINE S == {d \in Finished(c) : d # c =>
                     Super[d] \in Finished(c) /\ d \in pending[Super[d]]}
  <2>1. S \in SUBSET Classes
    BY DEF Finished
  <2>2. c \in S
    BY <1>2
  <2>3. ASSUME NEW s \in S, NEW e \in pending[s] PROVE e \in S
    <3>1. s \in Finished(c) /\ s \in Classes
      BY <2>1
    <3>2. e \in Finished(c)
      BY <1>3, <3>1
    <3>3. Super[e] = s
      BY <3>1 DEF IInv, Waiters
    <3> QED BY <3>1, <3>2, <3>3
  <2>4. \A d \in Finished(c) : d \in S
    <3> HIDE DEF S
    <3> QED BY <2>1, <2>2, <2>3 DEF Finished
  <2> QED BY <2>4
<1> QED BY <1>2, <1>3, <1>4, <1>5

\* A call that leaves takes no sender with it but its own.
LEMMA LeavesSenders ==
  ASSUME IInv, NEW t \in Threads, NEW c \in Classes, Leaves(t, c)
  PROVE  /\ \A u \in Threads, i \in Int, d \in Classes : Sends(u, i, d)' =>
              d # c /\ \E j \in Int : Sends(u, j, d)
         /\ \A u \in Threads, i \in Int, d \in Classes \ {c} :
              Sends(u, i, d) => \E j \in Int : Sends(u, j, d)'
         /\ OneSender'
<1>1. ASSUME NEW u \in Threads
      PROVE  \E k \in Int : \A i \in Int, d \in Classes \ {c} :
               Sends(u, i, d)' <=> Sends(u, i + k, d)
  BY DEF Leaves
<1>2. \A u \in Threads, i \in Int : ~Sends(u, i, c)'
  BY DEF Leaves
<1>3. ASSUME NEW u \in Threads, NEW i \in Int, NEW d \in Classes,
             Sends(u, i, d)'
      PROVE  d # c /\ \E j \in Int : Sends(u, j, d)
  BY <1>1, <1>2, <1>3
<1>4. ASSUME NEW u \in Threads, NEW i \in Int, NEW d \in Classes \ {c},
             Sends(u, i, d)
      PROVE  \E j \in Int : Sends(u, j, d)'
  <2>1. PICK k \in Int : \A n \in Int, e \in Classes \ {c} :
           Sends(u, n, e)' <=> Sends(u, n + k, e)
    BY <1>1
  <2>2. i - k \in Int /\ (i - k) + k = i
    OBVIOUS
  <2>3. Sends(u, i - k, d)'
    BY <1>4, <2>1, <2>2
  <2> QED BY <2>2, <2>3
<1>5. ASSUME NEW u \in Threads, NEW v \in Threads, NEW i \in Int,
             NEW j \in Int, NEW d \in Classes, Sends(u, i, d)', Sends(v, j, d)'
      PROVE  u = v /\ i = j
  <2>1. d \in Classes \ {c}
    BY <1>3, <1>5
  <2>2. PICK k \in Int : \A n \in Int, e \in Classes \ {c} :
           Sends(u, n, e)' <=> Sends(u, n + k, e)
    BY <1>1
  <2>3. PICK l \in Int : \A n \in Int, e \in Classes \ {c} :
           Sends(v, n, e)' <=> Sends(v, n + l, e)
    BY <1>1
  <2>4. Sends(u, i + k, d) /\ Sends(v, j + l, d)
    BY <1>5, <2>1, <2>2, <2>3
  <2>5. u = v
    BY <2>4 DEF IInv, OneSender
  <2>6. Sends(u, j + k, d)
    BY <1>5, <2>1, <2>2, <2>5
  <2>7. i + k = j + k
    BY <2>4, <2>6 DEF IInv, OneSender
  <2> QED BY <2>5, <2>7
<1> QED BY <1>3, <1>4, <1>5 DEF OneSender

\* _finishInitializing
LEMMA FinishStep ==
  ASSUME IInv, NEW t \in Threads, NEW c \in Classes, Sends(t, 1, c),
         Initialized(Super[c]), Leaves(t, c),
         state' = [d \in Classes |->
                     IF d \in Finished(c) THEN "initialized" ELSE state[d]],
         initializing' = [initializing EXCEPT ![t] = @ \ Finished(c)],
         pending' = [d \in Classes |->
                       IF d \in Finished(c) THEN {} ELSE pending[d]]
  PROVE  IInv'
<1> DEFINE F == Finished(c)
<1>1. Types /\ Shapes /\ F \subseteq Classes
  BY DEF IInv, Finished
<1>2. /\ c \in F /\ F \subseteq initializing[t]
      /\ \A d \in F : pending[d] \subseteq F
      /\ \A d \in F : d # c => Super[d] \in F /\ d \in pending[Super[d]]
  BY FinishedClasses
<1>3. /\ state' = [d \in Classes |->
                     IF d \in F THEN "initialized" ELSE state[d]]
      /\ initializing' = [initializing EXCEPT ![t] = @ \ F]
      /\ pending' = [d \in Classes |-> IF d \in F THEN {} ELSE pending[d]]
  OBVIOUS
<1> HIDE DEF F
<1>4. \A d \in F, u \in Threads : /\ state[d] = "initializing"
                                  /\ d \in initializing[u] => u = t
  BY <1>2 DEF IInv, Owners
<1>5. Types'
  BY <1>1, <1>3 DEF Types
<1>6. /\ \A u \in Threads, d \in Classes :
           d \in initializing'[u] <=> d \in initializing[u] /\ d \notin F
      /\ \A d \in F : state'[d] = "initialized" /\ pending'[d] = {}
      /\ \A d \in Classes \ F :
           state'[d] = state[d] /\ pending'[d] = pending[d]
  BY <1>1, <1>3, <1>4 DEF Types
<1>7. /\ \A u \in Threads, i \in Int, d \in Classes : Sends(u, i, d)' =>
           d # c /\ \E j \in Int : Sends(u, j, d)
      /\ \A u \in Threads, i \in Int, d \in Classes \ {c} :
           Sends(u, i, d) => \E j \in Int : Sends(u, j, d)'
      /\ OneSender'
  BY LeavesSenders
<1>8. ASSUME NEW u \in Threads, NEW i \in Int, NEW d \in Classes,
             Sends(u, i, d)'
      PROVE  d \notin F
  <2>1. d # c /\ \E j \in Int : Sends(u, j, d)
    BY <1>7, <1>8
  <2>2. ASSUME d \in F PROVE FALSE
    <3>1. Super[d] \in Classes /\ d \in pending[Super[d]]
      BY <1>1, <1>2, <2>1, <2>2
    <3> QED BY <2>1, <3>1 DEF IInv, Waiters
  <2> QED BY <2>2
<1>9. ASSUME NEW u \in Threads, NEW d \in Classes, Ready(u, d)
      PROVE  Ready(u, d)'
  <2>1. CASE Initialized(Super[d])
    <3>1. Super[d] = NoClass \/ Super[d] \in Classes
      BY SuperAssumption
    <3> QED BY <1>6, <2>1, <3>1 DEF Initialized, Ready
  <2>2. CASE Super[d] \in initializing[u]
    <3>1. Super[d] \in Classes
      BY <1>1, <2>2 DEF Types
    <3> QED BY <1>6, <2>2, <3>1 DEF Ready, Initialized
  <2> QED BY <1>9, <2>1, <2>2 DEF Ready
<1>10. SendersAreReady'
  <2>1. ASSUME NEW u \in Threads, NEW i \in Int, NEW d \in Classes,
               Sends(u, i, d)'
        PROVE  d \in initializing'[u] /\ Ready(u, d)'
    <3>1. d \in initializing[u] /\ Ready(u, d)
      BY <1>7, <2>1 DEF IInv, SendersAreReady
    <3> QED BY <1>6, <1>8, <1>9, <2>1, <3>1
  <2> QED BY <2>1 DEF SendersAreReady
<1>11. Owners'
  <2>1. ASSUME NEW u \in Threads, NEW d \in initializing'[u]
        PROVE  /\ state'[d] = "initializing"
               /\ \A v \in Threads : d \in initializing'[v] => v = u
    <3>1. d \in Classes
      BY <1>5 DEF Types
    <3> QED BY <1>6, <3>1 DEF IInv, Owners
  <2> QED BY <2>1 DEF Owners
<1>12. Waiters'
  <2>1. ASSUME NEW e \in Classes, NEW d \in pending'[e]
        PROVE  /\ Super[d] = e
               /\ \A u \in Threads, i \in Int : ~Sends(u, i, d)'
               /\ state'[e] = "initializing" /\ state'[d] = "initializing"
               /\ \A u \in Threads :
                    d \in initializing'[u] <=> e \in initializing'[u]
    <3>1. e \notin F /\ d \in pending[e] /\ d \in Classes
      BY <1>1, <1>6 DEF Types
    <3>2. /\ Super[d] = e
          /\ \A u \in Threads, i \in Int : ~Sends(u, i, d)
          /\ state[e] = "initializing" /\ state[d] = "initializing"
          /\ \A u \in Threads :
               d \in initializing[u] <=> e \in initializing[u]
      BY <3>1 DEF IInv, Waiters
    <3>3. d \notin F
      <4>1. 1 \in Int
        OBVIOUS
      <4> QED BY <1>2, <3>1, <3>2, <4>1
    <3> QED BY <1>6, <1>7, <3>1, <3>2, <3>3
  <2> QED BY <2>1 DEF Waiters
<1>13. Kept'
  <2>1. ASSUME NEW d \in Classes, state'[d] = "initializing"
        PROVE  \/ \E u \in Threads, i \in Int : Sends(u, i, d)'
               \/ Super[d] # NoClass /\ d \in pending'[Super[d]]
    <3>1. d \notin F /\ state[d] = "initializing" /\ d # c
      BY <1>2, <1>6, <2>1
    <3>2. CASE \E u \in Threads, i \in Int : Sends(u, i, d)
      BY <1>7, <3>1, <3>2
    <3>3. CASE Super[d] # NoClass /\ d \in pending[Super[d]]
      <4>1. Super[d] \in Classes
        BY <3>3, SuperAssumption
      <4>2. Super[d] \notin F
        BY <1>2, <3>1, <3>3
      <4> QED BY <1>6, <3>3, <4>1, <4>2
    <3> QED BY <3>1, <3>2, <3>3 DEF IInv, Kept
  <2> QED BY <2>1 DEF Kept
<1>14. ContiguousSubtree'
  <2>1. ASSUME NEW d \in Classes, Super[d] # NoClass
        PROVE  /\ state'[d] # "none" => state'[Super[d]] # "none"
               /\ state'[d] = "initialized" =>
                    state'[Super[d]] = "initialized"
    <3>1. Super[d] \in Classes
      BY <2>1, SuperAssumption
    <3>2. /\ state[d] # "none" => state[Super[d]] # "none"
          /\ state[d] = "initialized" => state[Super[d]] = "initialized"
      BY <2>1 DEF IInv, ContiguousSubtree
    <3>3. ASSUME d \in F
          PROVE  Super[d] \in F \/ state[Super[d]] = "initialized"
      BY <1>2, <2>1, <3>3 DEF Initialized
    <3> QED BY <1>4, <1>6, <3>1, <3>2, <3>3
  <2> QED BY <2>1 DEF ContiguousSubtree
<1>15. Tops'
  <2>1. ASSUME NEW u \in Threads, stack'[u] # <<>>
        PROVE  LabelOK(u, stack[u][1])'
    <3>1. CASE stack'[u][1].pc \in {"wait", "initialize"}
      BY <3>1 DEF LabelOK
    <3>2. CASE stack[u] # <<>> /\ stack'[u][1] = stack[u][1]
      <4>1. LabelOK(u, stack[u][1]) /\ stack[u][1].cls \in Classes
        BY <1>1, <3>2, FirstCall DEF IInv, Tops, Shapes
      <4> QED BY <1>6, <1>9, <3>2, <4>1 DEF LabelOK
    <3>3. CASE stack'[u][1].pc = "set" /\ Super[stack'[u][1].cls] = c
      BY <1>2, <1>6, <3>3 DEF LabelOK, Ready, Initialized
    <3> QED BY <2>1, <3>1, <3>2, <3>3 DEF Leaves
  <2> QED BY <2>1 DEF Tops
<1> QED BY <1>5, <1>7, <1>10, <1>11, <1>12, <1>13, <1>14, <1>15
    DEF IInv, Leaves

\* _finishInitializingAfter
LEMMA FinishAfterStep ==
  ASSUME IInv, NEW t \in Threads, NEW c \in Classes, Sends(t, 1, c),
         ~Initialized(Super[c]), Leaves(t, c),
         UNCHANGED <<state, initializing>>,
         pending' = [pending EXCEPT ![Super[c]] = @ \cup {c}]
  PROVE  IInv'
<1>1. Types /\ Shapes
  BY DEF IInv
<1>2. /\ c \in initializing[t] /\ Super[c] \in initializing[t]
      /\ Super[c] \in Classes /\ Super[c] # NoClass
      /\ state[c] = "initializing" /\ state[Super[c]] = "initializing"
  <2>1. Super[c] \in Classes /\ Super[c] # NoClass
    BY SuperAssumption DEF Initialized
  <2>2. c \in initializing[t] /\ Super[c] \in initializing[t]
    <3>1. 1 \in Int
      OBVIOUS
    <3> QED BY <3>1 DEF IInv, SendersAreReady, Ready
  <2> QED BY <2>1, <2>2 DEF IInv, Owners
<1>3. Types'
  BY <1>1 DEF Types
<1>4. /\ \A u \in Threads, i \in Int, d \in Classes : Sends(u, i, d)' =>
           d # c /\ \E j \in Int : Sends(u, j, d)
      /\ \A u \in Threads, i \in Int, d \in Classes \ {c} :
           Sends(u, i, d) => \E j \in Int : Sends(u, j, d)'
      /\ OneSender'
  BY LeavesSenders
<1>5. \A u \in Threads, d \in Classes : Ready(u, d)' <=> Ready(u, d)
  BY DEF Ready, Initialized
<1>6. SendersAreReady'
  BY <1>4, <1>5 DEF IInv, SendersAreReady
<1>7. Owners' /\ ContiguousSubtree'
  BY DEF IInv, Owners, ContiguousSubtree
<1>8. \A e, d \in Classes : d \in pending'[e] <=>
         d \in pending[e] \/ (e = Super[c] /\ d = c)
  BY <1>1, <1>2 DEF Types
<1>9. Waiters'
  <2>1. ASSUME NEW e \in Classes, NEW d \in pending'[e]
        PROVE  /\ Super[d] = e
               /\ \A u \in Threads, i \in Int : ~Sends(u, i, d)'
               /\ state[e] = "initializing" /\ state[d] = "initializing"
               /\ \A u \in Threads :
                    d \in initializing[u] <=> e \in initializing[u]
    <3>1. d \in Classes
      BY <1>3 DEF Types
    <3>2. CASE d \in pending[e]
      <4>1. \A u \in Threads, i \in Int : ~Sends(u, i, d)
        BY <3>2 DEF IInv, Waiters
      <4> QED BY <1>4, <3>1, <3>2, <4>1 DEF IInv, Waiters
    <3>3. CASE e = Super[c] /\ d = c
      BY <1>2, <1>4, <3>3 DEF IInv, Owners
    <3> QED BY <1>8, <3>1, <3>2, <3>3
  <2> QED BY <2>1 DEF Waiters
<1>10. Kept'
  <2>1. ASSUME NEW d \in Classes, state[d] = "initializing"
        PROVE  \/ \E u \in Threads, i \in Int : Sends(u, i, d)'
               \/ Super[d] # NoClass /\ d \in pending'[Super[d]]
    <3>1. CASE d = c
      BY <1>2, <1>8, <3>1
    <3>2. CASE d # c /\ \E u \in Threads, i \in Int : Sends(u, i, d)
      BY <1>4, <3>2
    <3>3. CASE Super[d] # NoClass /\ d \in pending[Super[d]]
      BY <1>8, <3>3, SuperAssumption
    <3> QED BY <2>1, <3>1, <3>2, <3>3 DEF IInv, Kept
  <2> QED BY <2>1 DEF Kept
<1>11. Tops'
  <2>1. ASSUME NEW u \in Threads, stack'[u] # <<>>
        PROVE  LabelOK(u, stack[u][1])'
    <3>1. CASE stack'[u][1].pc \in {"wait", "initialize"}
      BY <3>1 DEF LabelOK
    <3>2. CASE stack[u] # <<>> /\ stack'[u][1] = stack[u][1]
      <4>1. LabelOK(u, stack[u][1])
        BY <3>2 DEF IInv, Tops
      <4> QED BY <3>2, <4>1 DEF LabelOK, Ready, Initialized
    <3>3. CASE /\ u = t /\ stack'[u][1].pc = "set"
               /\ Super[stack'[u][1].cls] = c
      BY <1>2, <3>3 DEF LabelOK, Ready
    <3> QED BY <2>1, <3>1, <3>2, <3>3 DEF Leaves
  <2> QED BY <2>1 DEF Tops
<1> QED BY <1>3, <1>4, <1>6, <1>7, <1>9, <1>10, <1>11 DEF IInv, Leaves

LEMMA SuperFirstStep ==
  ASSUME IInv, NEW t \in Threads, NEW c \in Classes, SuperFirst(t, c)
  PROVE  IInv'
<1>1. /\ At(t, c, "super")
      /\ UNCHANGED <<state, initializing, pending>>
  BY DEF SuperFirst
<1>2. /\ Shape(stack[t]) /\ stack[t] # <<>>
      /\ stack[t][1].cls = c /\ stack[t][1].pc = "super"
  BY <1>1, AtTop DEF IInv
<1>3. CASE Initialized(Super[c])
  <2>1. Goto(t, "set")
    BY <1>3 DEF SuperFirst
  <2>2. "set" \in Labels /\ "set" \notin SendLabels /\ "super" \notin SendLabels
    BY DEF Labels, SendLabels
  <2>3. Ready(t, c)
    BY <1>3 DEF Ready
  <2> QED BY <1>1, <1>2, <2>1, <2>2, <2>3, GotoStep
<1>4. CASE ~Initialized(Super[c])
  <2> DEFINE f == Frame(Super[c], "super")
             g == Frame(c, "set")
             r == <<f, g>> \o Tail(stack[t])
  <2>1. stack' = [stack EXCEPT ![t] = r]
    BY <1>4 DEF SuperFirst
  <2>2. /\ f \in Frames /\ f.cls = Super[g.cls] /\ f.pc = "super"
        /\ g \in Frames /\ g.cls = c /\ g.pc = "set"
    BY <1>4, SuperAssumption DEF Initialized, Frame, Frames, Labels
  <2> HIDE DEF f, g
  <2>3. /\ Shape(r) /\ r[1].pc = "super"
        /\ \A i \in Int, d \in Classes :
             SendsIn(r, i, d) <=> SendsIn(stack[t], i - 1, d)
    BY <1>2, <2>2, PushedSuper
  <2> HIDE DEF r
  <2> QED BY <1>1, <2>1, <2>3, PushStep
<1> QED BY <1>3, <1>4

LEMMA MessageStep ==
  ASSUME IInv, NEW t \in Threads, NEW c \in Classes, Message(t, c)
  PROVE  IInv'
<1> DEFINE f == Frame(c, "super")
           r == <<f>> \o stack[t]
<1>1. stack' = [stack EXCEPT ![t] = r]
  BY DEF Message, Call
<1>2. Shape(stack[t])
  BY DEF IInv, Shapes
<1>3. stack[t] = <<>> \/ stack[t][1].pc = "initialize"
  BY <1>2, FirstCall DEF Message
<1>4. f \in Frames /\ f.pc = "super"
  BY DEF Frame, Frames, Labels
<1>5. /\ Shape(r) /\ r[1].pc = "super"
      /\ \A i \in Int, d \in Classes :
           SendsIn(r, i, d) <=> SendsIn(stack[t], i - 1, d)
  <2> HIDE DEF f
  <2> QED BY <1>2, <1>3, <1>4, Pushed
<1>6. UNCHANGED <<state, initializing, pending>>
  BY DEF Message
<1> HIDE DEF r
<1> QED BY <1>1, <1>5, <1>6, PushStep

LEMMA SetInitializingStep ==
  ASSUME IInv, NEW t \in Threads, NEW c \in Classes, SetInitializing(t, c)
  PROVE  IInv'
<1>1. At(t, c, "set")
  BY DEF SetInitializing
<1>2. /\ Shape(stack[t]) /\ stack[t] # <<>>
      /\ stack[t][1].cls = c /\ stack[t][1].pc = "set"
  BY <1>1, AtTop DEF IInv
<1>3. CASE state[c] = "none"
  BY <1>1, <1>3, BeginStep DEF SetInitializing
<1>4. CASE state[c] # "none"
  <2>1. /\ Goto(t, "initializing")
        /\ UNCHANGED <<state, initializing, pending>>
    BY <1>4 DEF SetInitializing
  <2>2. "initializing" \in Labels /\ "initializing" \notin SendLabels
        /\ "set" \notin SendLabels
    BY DEF Labels, SendLabels
  <2> QED BY <1>2, <1>4, <2>1, <2>2, GotoStep
<1> QED BY <1>3, <1>4

LEMMA EndInitializeStep ==
  ASSUME IInv, NEW t \in Threads, NEW c \in Classes, EndInitialize(t, c)
  PROVE  IInv'
<1>1. /\ At(t, c, "initialize")
      /\ Goto(t, "finish") \/ Goto(t, "finishThrow")
      /\ UNCHANGED <<state, initializing, pending>>
  BY DEF EndInitialize
<1>2. /\ stack[t] # <<>> /\ stack[t][1].pc = "initialize"
  BY <1>1, AtTop DEF IInv
<1>3. /\ "finish" \in Labels /\ "finishThrow" \in Labels
      /\ "finish" \in SendLabels /\ "finishThrow" \in SendLabels
      /\ "initialize" \in SendLabels
  BY DEF Labels, SendLabels
<1>4. CASE Goto(t, "finish")
  BY <1>1, <1>2, <1>3, <1>4, GotoStep
<1>5. CASE Goto(t, "finishThrow")
  BY <1>1, <1>2, <1>3, <1>5, GotoStep
<1> QED BY <1>1, <1>4, <1>5

\* The last thing a call does that has sent +initialize.
LEMMA LockAndFinishStep ==
  ASSUME IInv, NEW t \in Threads, NEW c \in Classes, LockAndFinish(t, c)
  PROVE  IInv'
<1>1. /\ Shape(stack[t]) /\ stack[t] # <<>> /\ stack[t][1].cls = c
      /\ Sends(t, 1, c)
  <2>1. At(t, c, "finish") \/ At(t, c, "finishThrow")
    BY DEF LockAndFinish
  <2>2. /\ Shape(stack[t]) /\ stack[t] # <<>> /\ 1 \in DOMAIN stack[t]
        /\ stack[t][1].cls = c /\ stack[t][1].pc \in {"finish", "finishThrow"}
    BY <2>1, AtTop DEF IInv
  <2> QED BY <2>2 DEF Sends, SendsIn, SendLabels
<1>2. \E r :
        /\ \/ Initialized(Super[c]) /\
                FinishInitializing(t, c, [stack EXCEPT ![t] = r])
           \/ ~Initialized(Super[c]) /\
                FinishInitializingAfter(c, [stack EXCEPT ![t] = r])
        /\ Shape(r) /\ Left(stack[t], r, c)
        /\ r # <<>> =>
             \/ r[1].pc = "initialize"
             \/ r[1].pc = "set" /\ Super[r[1].cls] = c
  <2>1. CASE At(t, c, "finish")
    <3> DEFINE r == Tail(stack[t])
    <3>1. \/ Initialized(Super[c]) /\
               FinishInitializing(t, c, [stack EXCEPT ![t] = r])
          \/ ~Initialized(Super[c]) /\
               FinishInitializingAfter(c, [stack EXCEPT ![t] = r])
      BY <2>1 DEF LockAndFinish, At, Frame
    <3>2. /\ Shape(r) /\ Left(stack[t], r, c)
          /\ r # <<>> =>
               \/ r[1].pc = "initialize"
               \/ r[1].pc = "set" /\ Super[r[1].cls] = c
      BY <1>1, Popped, LeftByReturn
    <3> HIDE DEF r
    <3> QED BY <3>1, <3>2
  <2>2. CASE At(t, c, "finishThrow")
    <3> DEFINE r == Unwound(t)
    <3>1. \/ Initialized(Super[c]) /\
               FinishInitializing(t, c, [stack EXCEPT ![t] = r])
          \/ ~Initialized(Super[c]) /\
               FinishInitializingAfter(c, [stack EXCEPT ![t] = r])
      BY <2>2 DEF LockAndFinish, At, Frame
    <3>2. /\ Shape(r) /\ Left(stack[t], r, c)
          /\ r # <<>> => r[1].pc = "initialize"
      BY <1>1, LeftByThrow DEF IInv
    <3> HIDE DEF r
    <3> QED BY <3>1, <3>2
  <2> QED BY <2>1, <2>2 DEF LockAndFinish
<1>3. PICK r :
        /\ \/ Initialized(Super[c]) /\
                FinishInitializing(t, c, [stack EXCEPT ![t] = r])
           \/ ~Initialized(Super[c]) /\
                FinishInitializingAfter(c, [stack EXCEPT ![t] = r])
        /\ Shape(r) /\ Left(stack[t], r, c)
        /\ r # <<>> =>
             \/ r[1].pc = "initialize"
             \/ r[1].pc = "set" /\ Super[r[1].cls] = c
  BY <1>2
<1>4. CASE /\ Initialized(Super[c])
           /\ FinishInitializing(t, c, [stack EXCEPT ![t] = r])
  <2>1. stack' = NotifyAll([stack EXCEPT ![t] = r])
    BY <1>4 DEF FinishInitializing
  <2>2. Leaves(t, c)
    BY <1>1, <1>3, <2>1, LeavesStack
  <2> QED BY <1>1, <1>4, <2>2, FinishStep DEF FinishInitializing
<1>5. CASE /\ ~Initialized(Super[c])
           /\ FinishInitializingAfter(c, [stack EXCEPT ![t] = r])
  <2>1. stack' = [stack EXCEPT ![t] = r]
    BY <1>5 DEF FinishInitializingAfter
  <2>2. Leaves(t, c)
    BY <1>1, <1>3, <2>1, LeavesStack
  <2> QED BY <1>1, <1>5, <2>2, FinishAfterStep DEF FinishInitializingAfter
<1> QED BY <1>3, <1>4, <1>5

\* What a thread does that finds the class with another, or with itself.
LEMMA OtherSteps ==
  ASSUME IInv, NEW t \in Threads, NEW c \in Classes,
         IsInitializing(t, c) \/ IsInitialized(t, c) \/ Wait(t, c)
  PROVE  IInv'
<1>1. PICK l \in {"initializing", "initialized", "wait"} : At(t, c, l)
  BY DEF IsInitializing, IsInitialized, Wait
<1>2. /\ stack[t] # <<>> /\ stack[t][1].cls = c /\ stack[t][1].pc = l
  BY <1>1, AtTop DEF IInv
<1>3. UNCHANGED <<state, initializing, pending>>
  BY DEF IsInitializing, IsInitialized, Wait
<1>4. l \notin SendLabels
  BY DEF SendLabels
<1>5. CASE /\ Return(t)
           /\ state[c] = "initialized" \/ c \in initializing[t]
  BY <1>2, <1>3, <1>4, <1>5, ReturnStep DEF Initialized
<1>6. CASE /\ IsInitializing(t, c) /\ state[c] # "initializing"
           /\ Goto(t, "initialized")
  <2>1. At(t, c, "initializing")
    BY <1>6 DEF IsInitializing
  <2>2. stack[t][1].pc = "initializing"
    BY <2>1, AtTop DEF IInv
  <2>3. LabelOK(t, stack[t][1])
    BY <1>2 DEF IInv, Tops
  <2>4. state[c] = "initialized"
    BY <1>2, <1>6, <2>2, <2>3 DEF LabelOK, IInv, Types
  <2>5. "initialized" \in Labels /\ "initialized" \notin SendLabels
    BY DEF Labels, SendLabels
  <2> QED BY <1>2, <1>3, <1>4, <1>6, <2>4, <2>5, GotoStep
<1>7. CASE Goto(t, "wait") \/ Goto(t, "asleep")
  <2>1. /\ "wait" \in Labels /\ "wait" \notin SendLabels
        /\ "asleep" \in Labels /\ "asleep" \notin SendLabels
    BY DEF Labels, SendLabels
  <2>2. CASE Goto(t, "wait")
    BY <1>2, <1>3, <1>4, <2>1, <2>2, GotoStep
  <2>3. CASE Goto(t, "asleep")
    BY <1>2, <1>3, <1>4, <2>1, <2>3, GotoStep
  <2> QED BY <1>7, <2>2, <2>3
<1> QED BY <1>5, <1>6, <1>7 DEF IsInitializing, IsInitialized, Wait

LEMMA InvariantStep == IInv /\ [Next]_vars => IInv'
<1> SUFFICES ASSUME IInv, [Next]_vars PROVE IInv'
  OBVIOUS
<1>1. CASE Next
  <2>1. PICK t \in Threads : Step(t) \/ \E c \in Classes : Message(t, c)
    BY <1>1 DEF Next
  <2>2. CASE Step(t)
    <3>1. PICK c \in Classes :
            \/ SuperFirst(t, c) \/ SetInitializing(t, c) \/ EndInitialize(t, c)
            \/ LockAndFinish(t, c) \/ IsInitializing(t, c)
            \/ IsInitialized(t, c) \/ Wait(t, c)
      BY <2>2 DEF Step
    <3>2. CASE SuperFirst(t, c)
      BY <3>2, SuperFirstStep
    <3>3. CASE SetInitializing(t, c)
      BY <3>3, SetInitializingStep
    <3>4. CASE EndInitialize(t, c)
      BY <3>4, EndInitializeStep
    <3>5. CASE LockAndFinish(t, c)
      BY <3>5, LockAndFinishStep
    <3>6. CASE IsInitializing(t, c) \/ IsInitialized(t, c) \/ Wait(t, c)
      BY <3>6, OtherSteps
    <3> QED BY <3>1, <3>2, <3>3, <3>4, <3>5, <3>6
  <2>3. CASE \E c \in Classes : Message(t, c)
    BY <2>3, MessageStep
  <2> QED BY <2>1, <2>2, <2>3
<1>2. CASE UNCHANGED vars
  <2>1. UNCHANGED <<state, initializing, pending, stack>>
    BY <1>2 DEF vars
  <2>2. \A t \in Threads, i \in Int, c \in Classes :
           Sends(t, i, c)' <=> Sends(t, i, c)
    BY <2>1 DEF Sends, SendsIn
  <2>3. \A t \in Threads, c \in Classes : Ready(t, c)' <=> Ready(t, c)
    BY <2>1 DEF Ready, Initialized
  <2>4. Types' /\ Shapes' /\ Owners' /\ ContiguousSubtree'
    BY <2>1 DEF IInv, Types, Shapes, Shape, Owners, ContiguousSubtree
  <2>5. OneSender' /\ SendersAreReady' /\ Waiters' /\ Kept'
    <3>1. OneSender' /\ SendersAreReady'
      BY <2>1, <2>2, <2>3 DEF IInv, OneSender, SendersAreReady
    <3>2. Waiters'
      <4>1. \A c \in Classes : pending[c] \subseteq Classes
        BY DEF IInv, Types
      <4> QED BY <2>1, <2>2, <4>1 DEF IInv, Waiters
    <3>3. Kept'
      BY <2>1, <2>2 DEF IInv, Kept
    <3> QED BY <3>1, <3>2, <3>3
  <2>6. Tops'
    BY <2>1 DEF IInv, Tops, LabelOK, Ready, Initialized
  <2> QED BY <2>4, <2>5, <2>6 DEF IInv
<1> QED BY <1>1, <1>2

LEMMA Invariant == Spec => []IInv
<1> QED BY InitialState, InvariantStep, PTL DEF Spec

-----------------------------------------------------------------------------
(* The theorems *)

\* The pairs of Sending(c) are the places of the calls that send to c.
LEMMA SendingPlaces ==
  ASSUME Shapes, NEW c \in Classes
  PROVE  /\ \A s \in Sending(c) : \E t \in Threads, i \in Int :
              s = <<t, i>> /\ Sends(t, i, c)
         /\ \A t \in Threads, i \in Int :
              Sends(t, i, c) => <<t, i>> \in Sending(c)
<1>1. \A t \in Threads : DOMAIN stack[t] \subseteq Int
  BY DEF Shapes, Shape
<1>2. ASSUME NEW s \in Sending(c)
      PROVE  \E t \in Threads, i \in Int : s = <<t, i>> /\ Sends(t, i, c)
  <2>1. PICK t \in Threads : \E i \in DOMAIN stack[t] :
           /\ s = <<t, i>> /\ stack[t][i].cls = c
           /\ stack[t][i].pc \in {"initialize", "finish", "finishThrow"}
    BY DEF Sending
  <2> QED BY <1>1, <2>1 DEF Sends, SendsIn, SendLabels
<1>3. ASSUME NEW t \in Threads, NEW i \in Int, Sends(t, i, c)
      PROVE  <<t, i>> \in Sending(c)
  BY <1>3 DEF Sends, SendsIn, SendLabels, Sending
<1> QED BY <1>2, <1>3

LEMMA InvariantImpliesClassInv == IInv => ClassInv
<1> SUFFICES ASSUME IInv PROVE ClassInv
  OBVIOUS
<1>1. TypeOK
  BY DEF IInv, Types, Shapes, Frames, TypeOK
<1>2. Shapes
  BY DEF IInv
<1>3. ASSUME NEW c \in Classes, NEW s \in Sending(c)
      PROVE  /\ state[c] = "initializing" /\ c \in initializing[s[1]]
             /\ Initialized(Super[c]) \/ Super[c] \in initializing[s[1]]
  <2>1. PICK t \in Threads, i \in Int : s = <<t, i>> /\ Sends(t, i, c)
    BY <1>2, <1>3, SendingPlaces
  <2>2. c \in initializing[t] /\ Ready(t, c)
    BY <2>1 DEF IInv, SendersAreReady
  <2>3. state[c] = "initializing"
    BY <2>2 DEF IInv, Owners
  <2> QED BY <2>1, <2>2, <2>3 DEF Ready
<1>4. ASSUME NEW c \in Classes
      PROVE  Cardinality(Sending(c)) <= 1
  <2>1. \A s, r \in Sending(c) : s = r
    BY <1>2, SendingPlaces DEF IInv, OneSender
  <2>2. CASE Sending(c) = {}
    BY <2>2, FS_EmptySet
  <2>3. CASE Sending(c) # {}
    <3>1. PICK s : Sending(c) = {s}
      BY <2>1, <2>3
    <3>2. Cardinality(Sending(c)) = 1
      BY <3>1, FS_Singleton
    <3> QED BY <3>2
  <2> QED BY <2>2, <2>3
<1>5. OneInitializer
  BY <1>3, <1>4 DEF OneInitializer, IInv, Owners
<1>6. SuperclassFirst
  BY <1>3 DEF SuperclassFirst
<1>7. StackInv
  BY <1>2 DEF Shapes, Shape, StackInv
<1>8. LabelInv
  <2>1. ASSUME NEW t \in Threads, NEW c \in Classes, NEW l, At(t, c, l)
        PROVE  /\ l = "set" => Ready(t, c)
               /\ l = "initializing" => state[c] # "none"
               /\ l = "initialized" => state[c] = "initialized"
    <3>1. /\ stack[t] # <<>>
          /\ stack[t][1].cls = c /\ stack[t][1].pc = l
      BY <1>2, <2>1, AtTop
    <3> QED BY <3>1 DEF IInv, Tops, LabelOK
  <2> QED BY <2>1 DEF LabelInv, Ready
<1>9. OwnerInv
  <2>1. \A t \in Threads : \A c \in initializing[t] : state[c] = "initializing"
    BY DEF IInv, Owners
  <2>2. ASSUME NEW c \in Classes, NEW d \in pending[c]
        PROVE  Sending(d) = {}
    <3>1. d \in Classes /\ \A t \in Threads, i \in Int : ~Sends(t, i, d)
      BY DEF IInv, Types, Waiters
    <3> QED BY <1>2, <3>1, SendingPlaces
  <2> QED BY <2>1, <2>2 DEF OwnerInv, IInv, Waiters
<1> QED BY <1>1, <1>5, <1>6, <1>7, <1>8, <1>9 DEF ClassInv, IInv

\* One thread for each class, the superclass first, no gap in the hierarchy
\* above a class: callInitialize is reached under these conditions only,
\* whatever the other threads and the +initialize methods do.
THEOREM OrderOfInitialization == Spec => []ClassInv
<1> QED BY Invariant, InvariantImpliesClassInv, PTL

\* A class that is being initialized is on its way: its +initialize runs, or
\* _finishInitializingAfter has left it with its superclass, in the same
\* thread's list.  An exception that goes through leaves none behind.
THEOREM NoClassIsForgotten == Spec => []NothingForgotten
<1>1. ASSUME IInv PROVE NothingForgotten
  <2>1. ASSUME NEW c \in Classes, state[c] = "initializing"
        PROVE  \/ Sending(c) # {}
               \/ Super[c] # NoClass /\ c \in pending[Super[c]]
    <3>1. CASE \E t \in Threads, i \in Int : Sends(t, i, c)
      BY <1>1, <3>1, SendingPlaces DEF IInv
    <3>2. CASE Super[c] # NoClass /\ c \in pending[Super[c]]
      BY <3>2
    <3> QED BY <1>1, <2>1, <3>1, <3>2 DEF IInv, Kept
  <2>2. \A c \in Classes : \A d \in pending[c] : \A t \in Threads :
           /\ state[c] = "initializing" /\ state[d] = "initializing"
           /\ d \in initializing[t] => c \in initializing[t]
    BY <1>1 DEF IInv, Waiters
  <2> QED BY <2>1, <2>2 DEF NothingForgotten
<1> QED BY <1>1, Invariant, PTL

\* The two calls of _objc_fatal are never reached: what _class_initialize
\* finds initialized has been set, and _finishInitializing unlists only
\* classes of this thread.
THEOREM NeverFatal == Spec => []NoFatal
<1>1. ASSUME IInv PROVE NoFatal
  <2>1. ASSUME NEW t \in Threads, NEW c \in Classes
        PROVE  /\ At(t, c, "initialized") => state[c] = "initialized"
               /\ At(t, c, "set") /\ state[c] = "none" =>
                    c \notin initializing[t]
    <3>1. At(t, c, "initialized") => state[c] = "initialized"
      BY <1>1, InvariantImpliesClassInv DEF ClassInv, LabelInv
    <3> QED BY <1>1, <3>1 DEF IInv, Owners
  <2>2. ASSUME NEW t \in Threads, NEW c \in Classes,
               At(t, c, "finish") \/ At(t, c, "finishThrow")
        PROVE  Finished(c) \subseteq initializing[t]
    <3>1. /\ 1 \in DOMAIN stack[t] /\ stack[t][1].cls = c
          /\ stack[t][1].pc \in {"finish", "finishThrow"}
      BY <1>1, <2>2, AtTop DEF IInv
    <3>2. Sends(t, 1, c)
      BY <3>1 DEF Sends, SendsIn, SendLabels
    <3> QED BY <1>1, <3>2, FinishedClasses
  <2> QED BY <2>1, <2>2 DEF NoFatal
<1> QED BY <1>1, Invariant, PTL

\* A step that makes a thread's innermost call return without an exception
\* leaves its class initialized or the thread's own.
LEMMA ReturnsInTime ==
  ASSUME IInv, [Next]_vars, NEW t \in Threads, stack[t] # <<>>,
         stack'[t] = Tail(stack[t]), stack[t][1].pc # "finishThrow"
  PROVE  LET c == stack[t][1].cls
         IN  state'[c] = "initialized" \/ c \in initializing'[t]
<1> DEFINE c == stack[t][1].cls
<1>1. Types /\ Shapes /\ Shape(stack[t])
  BY DEF IInv, Shapes
<1> DEFINE n == Len(stack[t])
           m == Len(stack'[t])
<1>2. n \in Nat /\ m = n - 1
  BY <1>1 DEF Shape
<1> HIDE DEF n, m
<1>3. m # n /\ m # n + 1
  BY <1>2
<1>4. stack'[t] # stack[t]
  BY <1>3, Zenon DEF n, m
<1>5. PICK u \in Threads : Step(u) \/ \E d \in Classes : Message(u, d)
  BY <1>4 DEF Next, vars
<1>6. ASSUME NEW l \in Labels, NEW v \in Threads, stack[v] # <<>>, Goto(v, l)
      PROVE  FALSE
  <2>1. v = t
    BY <1>1, <1>4, <1>6, GotoFrame
  <2> DEFINE r == [stack[t] EXCEPT ![1].pc = l]
  <2>2. stack' = [stack EXCEPT ![t] = r]
    BY <1>6, <2>1 DEF Goto
  <2>3. Len(r) = Len(stack[t])
    BY <1>1, SetLabel DEF Relabels
  <2> HIDE DEF r
  <2>4. stack'[t] = r
    BY <1>1, <2>2 DEF Shapes
  <2>5. m = n
    BY <2>3, <2>4, Zenon DEF m, n
  <2> QED BY <1>3, <2>5
<1>7. ASSUME NEW v \in Threads, NEW r \in Seq(Frames),
             stack' = [stack EXCEPT ![v] = r], Len(r) = Len(stack[v]) + 1
      PROVE  FALSE
  <2>1. v = t /\ stack'[t] = r
    BY <1>1, <1>4, <1>7 DEF Shapes
  <2>2. m = n + 1
    BY <1>7, <2>1, Zenon DEF m, n
  <2> QED BY <1>3, <2>2
<1>8. ASSUME NEW d \in Classes, Message(u, d) PROVE FALSE
  <2> DEFINE f == Frame(d, "super")
  <2>1. stack' = [stack EXCEPT ![u] = <<f>> \o stack[u]]
    BY <1>8 DEF Message, Call
  <2>2. f \in Frames
    BY DEF Frame, Frames, Labels
  <2> HIDE DEF f
  <2>3. stack[u] \in Seq(Frames)
    BY <1>1 DEF Shapes
  <2>4. /\ <<f>> \o stack[u] \in Seq(Frames)
        /\ Len(<<f>> \o stack[u]) = Len(stack[u]) + 1
    BY <2>2, <2>3
  <2> QED BY <1>7, <2>1, <2>4
<1>9. ASSUME NEW d \in Classes, SuperFirst(u, d) PROVE FALSE
  <2>1. At(u, d, "super")
    BY <1>9 DEF SuperFirst
  <2>2. Shape(stack[u]) /\ stack[u] # <<>> /\ stack[u] \in Seq(Frames)
    BY <1>1, <2>1, AtTop DEF Shapes
  <2>3. CASE Initialized(Super[d])
    BY <1>6, <1>9, <2>2, <2>3 DEF SuperFirst, Labels
  <2>4. CASE ~Initialized(Super[d])
    <3> DEFINE f == Frame(Super[d], "super")
               g == Frame(d, "set")
    <3>1. stack' = [stack EXCEPT ![u] = <<f, g>> \o Tail(stack[u])]
      BY <1>9, <2>4 DEF SuperFirst
    <3>2. f \in Frames /\ g \in Frames
      BY <2>4, SuperAssumption DEF Frame, Frames, Labels, Initialized
    <3> HIDE DEF f, g
    <3>3. /\ <<f, g>> \o Tail(stack[u]) \in Seq(Frames)
          /\ Len(<<f, g>> \o Tail(stack[u])) = Len(stack[u]) + 1
      BY <2>2, <3>2
    <3> QED BY <1>7, <3>1, <3>3
  <2> QED BY <2>3, <2>4
<1>10. ASSUME NEW d \in Classes, SetInitializing(u, d) PROVE FALSE
  <2>1. At(u, d, "set") /\ (Goto(u, "initialize") \/ Goto(u, "initializing"))
    BY <1>10 DEF SetInitializing
  <2>2. stack[u] # <<>>
    BY <1>1, <2>1, AtTop
  <2> QED BY <1>6, <2>1, <2>2 DEF Labels
<1>11. ASSUME NEW d \in Classes, EndInitialize(u, d) PROVE FALSE
  <2>1. /\ At(u, d, "initialize")
        /\ Goto(u, "finish") \/ Goto(u, "finishThrow")
    BY <1>11 DEF EndInitialize
  <2>2. stack[u] # <<>>
    BY <1>1, <2>1, AtTop
  <2> QED BY <1>6, <2>1, <2>2 DEF Labels
<1>12. ASSUME NEW d \in Classes,
              IsInitializing(u, d) \/ IsInitialized(u, d) \/ Wait(u, d)
       PROVE  state'[c] = "initialized" \/ c \in initializing'[t]
  <2>1. At(u, d, "initializing") \/ At(u, d, "initialized") \/ At(u, d, "wait")
    BY <1>12 DEF IsInitializing, IsInitialized, Wait
  <2>2. stack[u] # <<>> /\ stack[u][1].cls = d
    BY <1>1, <2>1, AtTop
  <2>3. Return(u) /\ (state[d] = "initialized" \/ d \in initializing[u])
    BY <1>6, <1>12, <2>2 DEF IsInitializing, IsInitialized, Wait, Labels
  <2>4. u = t
    BY <1>1, <1>4, <2>3 DEF Return, Shapes
  <2>5. UNCHANGED <<state, initializing>>
    BY <1>12 DEF IsInitializing, IsInitialized, Wait
  <2> QED BY <2>2, <2>3, <2>4, <2>5
<1>13. ASSUME NEW d \in Classes, LockAndFinish(u, d)
       PROVE  state'[c] = "initialized" \/ c \in initializing'[t]
  <2>1. At(u, d, "finish") \/ At(u, d, "finishThrow")
    BY <1>13 DEF LockAndFinish
  <2>2. /\ stack[u] # <<>> /\ 1 \in DOMAIN stack[u] /\ stack[u][1].cls = d
        /\ stack[u][1].pc \in {"finish", "finishThrow"}
    BY <1>1, <2>1, AtTop
  <2>3. Sends(u, 1, d)
    BY <2>2 DEF Sends, SendsIn, SendLabels
  <2>4. PICK r \in Seq(Frames) :
           /\ Shape(r)
           /\ \/ FinishInitializing(u, d, [stack EXCEPT ![u] = r])
              \/ FinishInitializingAfter(d, [stack EXCEPT ![u] = r])
    <3>1. Shape(Tail(stack[u])) /\ Shape(Unwound(u))
      BY <1>1, <2>2, Popped, LeftByThrow DEF Shapes
    <3>2. Tail(stack[u]) \in Seq(Frames) /\ Unwound(u) \in Seq(Frames)
      BY <3>1 DEF Shape
    <3> QED BY <1>13, <3>1, <3>2 DEF LockAndFinish
  <2> DEFINE s == [stack EXCEPT ![u] = r]
  <2>5. /\ s \in [Threads -> Seq(Frames)] /\ \A v \in Threads : Shape(s[v])
        /\ \A v \in Threads \ {u} : s[v] = stack[v]
    BY <1>1, <2>4 DEF Shapes
  <2> HIDE DEF s
  <2>6. m = Len(s[t])
    <3>1. CASE stack' = s
      BY <3>1 DEF m
    <3>2. CASE stack' = NotifyAll(s)
      BY <2>5, <3>2, Woken DEF m
    <3> QED BY <2>4, <3>1, <3>2
        DEF FinishInitializing, FinishInitializingAfter, s
  <2>7. u = t
    <3>1. u # t => m = n
      BY <2>5, <2>6 DEF n
    <3> QED BY <1>3, <3>1
  <2>8. CASE FinishInitializing(u, d, [stack EXCEPT ![u] = r])
    <3>1. d \in Finished(d)
      BY <2>3, FinishedClasses
    <3> QED BY <2>2, <2>7, <2>8, <3>1 DEF FinishInitializing
  <2>9. CASE FinishInitializingAfter(d, [stack EXCEPT ![u] = r])
    <3>1. d \in initializing[u]
      <4>1. 1 \in Int
        OBVIOUS
      <4> QED BY <2>3, <4>1 DEF IInv, SendersAreReady
    <3> QED BY <2>2, <2>7, <2>9, <3>1 DEF FinishInitializingAfter
  <2> QED BY <2>4, <2>8, <2>9
<1> QED BY <1>5, <1>8, <1>9, <1>10, <1>11, <1>12, <1>13 DEF Step

\* The flags of a class are only ever set.
LEMMA FlagsOnlyGrow ==
  ASSUME IInv, [Next]_vars, NEW c \in Classes
  PROVE  /\ state[c] = "initialized" => state'[c] = "initialized"
         /\ state[c] = "initializing" => state'[c] # "none"
<1>1. CASE UNCHANGED state
  BY <1>1
<1>2. ASSUME NEW t \in Threads, NEW d \in Classes, SetInitializing(t, d),
             ~UNCHANGED state
      PROVE  state[d] = "none" /\ state' = [state EXCEPT ![d] = "initializing"]
  BY <1>2 DEF SetInitializing
<1>3. ASSUME NEW t \in Threads, NEW d \in Classes, LockAndFinish(t, d),
             ~UNCHANGED state
      PROVE  state' = [e \in Classes |->
                IF e \in Finished(d) THEN "initialized" ELSE state[e]]
  BY <1>3 DEF LockAndFinish, FinishInitializing, FinishInitializingAfter
<1>4. CASE ~UNCHANGED state
  <2>1. PICK t \in Threads, d \in Classes :
           SetInitializing(t, d) \/ LockAndFinish(t, d)
    BY <1>4 DEF Next, Step, vars, Message, SuperFirst, EndInitialize,
                IsInitializing, IsInitialized, Wait
  <2> QED BY <1>2, <1>3, <1>4, <2>1 DEF IInv, Types
<1> QED BY <1>1, <1>4

\* A message goes ahead only to a class that is initialized or that its sender
\* is initializing, and no class goes back: what lookUpImpOrForward relies on.
THEOREM NoMessageTooEarly == Spec => NobodyTooEarly
<1> DEFINE A ==
      /\ \A t \in Threads, c \in Classes :
           (/\ stack[t] # <<>>
            /\ stack'[t] = Tail(stack[t])
            /\ Head(stack[t]).cls = c
            /\ Head(stack[t]).pc # "finishThrow")
              => state'[c] = "initialized" \/ c \in initializing'[t]
      /\ \A c \in Classes :
           /\ state[c] = "initialized" => state'[c] = "initialized"
           /\ state[c] = "initializing" => state'[c] # "none"
<1>1. ASSUME IInv, [Next]_vars PROVE A
  <2>1. ASSUME NEW t \in Threads, stack[t] # <<>>,
               stack'[t] = Tail(stack[t]), Head(stack[t]).pc # "finishThrow"
        PROVE  LET c == Head(stack[t]).cls
               IN  state'[c] = "initialized" \/ c \in initializing'[t]
    <3>1. Head(stack[t]) = stack[t][1]
      BY <1>1, <2>1, FirstCall DEF IInv, Shapes
    <3> QED BY <1>1, <2>1, <3>1, ReturnsInTime
  <2>2. \A c \in Classes :
           /\ state[c] = "initialized" => state'[c] = "initialized"
           /\ state[c] = "initializing" => state'[c] # "none"
    BY <1>1, FlagsOnlyGrow
  <2> QED BY <2>1, <2>2
<1>2. Spec => [][A]_vars
  <2> HIDE DEF A
  <2> QED BY <1>1, Invariant, PTL DEF Spec
<1> QED BY <1>2 DEF NobodyTooEarly
=============================================================================
