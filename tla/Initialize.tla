----------------------------- MODULE Initialize -----------------------------
(***************************************************************************)
(* +initialize (objc-initialize.mm): the first message to a class sends it *)
(* +initialize, once, after its superclass, and other threads wait until   *)
(* it has finished.  A +initialize may itself send messages to classes     *)
(* that are not initialized yet, its own subclasses among them, and it may *)
(* throw.                                                                  *)
(*                                                                         *)
(* A thread is a stack of the calls of _class_initialize it is in, the     *)
(* innermost first.  What runs under classInitLock is one step.            *)
(***************************************************************************)
EXTENDS Integers, Sequences, FiniteSets

CONSTANTS
  Threads,
  Classes,
  Super,          \* the superclass of each class, or NoClass
  Uses,           \* <<c, d>>: the +initialize of c may send d a message
  Throws,         \* classes whose +initialize may throw
  NoClass

ASSUME SuperAssumption ==
  NoClass \notin Classes /\ Super \in [Classes -> Classes \cup {NoClass}]
ASSUME ClientAssumption ==
  Uses \subseteq Classes \X Classes /\ Throws \subseteq Classes

VARIABLES
  state,          \* CLS_INITIALIZING and CLS_INITIALIZED of each class
  initializing,   \* each thread's _objc_initializing_classes
  pending,        \* pendingInitializeMap: the subclasses that wait
  stack           \* the calls each thread is in

vars == <<state, initializing, pending, stack>>

Init ==
  /\ state = [c \in Classes |-> "none"]
  /\ initializing = [t \in Threads |-> {}]
  /\ pending = [c \in Classes |-> {}]
  /\ stack = [t \in Threads |-> <<>>]

-----------------------------------------------------------------------------
(* The calls of a thread *)

Frame(c, label) == [cls |-> c, pc |-> label]

\* Thread t is at this label, in a call for class c.
At(t, c, label) == stack[t] # <<>> /\ Head(stack[t]) = Frame(c, label)

Goto(t, label) == stack' = [stack EXCEPT ![t][1].pc = label]

Call(t, c) == <<Frame(c, "super")>> \o stack[t]

Return(t) == stack' = [stack EXCEPT ![t] = Tail(@)]

\* An exception goes through the calls that were waiting for a superclass,
\* up to the next +initialize, which may catch it, or the client.
Handlers(t) == {i \in 2..Len(stack[t]) : stack[t][i].pc = "initialize"}

Unwound(t) ==
  IF Handlers(t) = {} THEN <<>>
  ELSE LET i == CHOOSE j \in Handlers(t) : \A k \in Handlers(t) : j <= k
       IN SubSeq(stack[t], i, Len(stack[t]))

\* classInitLock.notifyAll(), for the calls that are left on the stacks.
NotifyAll(stacks) ==
  [t \in Threads |->
     IF stacks[t] # <<>> /\ Head(stacks[t]).pc = "asleep"
     THEN [stacks[t] EXCEPT ![1].pc = "wait"]
     ELSE stacks[t]]

Initialized(c) == c = NoClass \/ state[c] = "initialized"

-----------------------------------------------------------------------------
(* _class_initialize *)

\* lookUpImpOrForward: a message to a class that is not initialized yet,
\* from a client or from a +initialize.
Message(t, c) ==
  /\ state[c] # "initialized"
  /\ \/ stack[t] = <<>>
     \/ /\ stack[t] # <<>>
        /\ Head(stack[t]).pc = "initialize"
        /\ <<Head(stack[t]).cls, c>> \in Uses
  /\ stack' = [stack EXCEPT ![t] = Call(t, c)]
  /\ UNCHANGED <<state, initializing, pending>>

\* Mutant: does not begin with the superclass.
SuperLater(t, c) ==
  /\ At(t, c, "super")
  /\ Goto(t, "set")
  /\ UNCHANGED <<state, initializing, pending>>

\* "Make sure super is done initializing BEFORE beginning to initialize".
SuperFirst(t, c) ==
  /\ At(t, c, "super")
  /\ IF Initialized(Super[c]) THEN Goto(t, "set")
     ELSE stack' = [stack EXCEPT
            ![t] = <<Frame(Super[c], "super"), Frame(c, "set")>> \o Tail(@)]
  /\ UNCHANGED <<state, initializing, pending>>

\* Mutant: only a class that has finished is left alone.
SetAgain(t, c) ==
  /\ At(t, c, "set")
  /\ IF state[c] # "initialized"
     THEN /\ state' = [state EXCEPT ![c] = "initializing"]
          /\ initializing' = [initializing EXCEPT ![t] = @ \cup {c}]
          /\ Goto(t, "initialize")
     ELSE Goto(t, "initializing") /\ UNCHANGED <<state, initializing>>
  /\ UNCHANGED pending

\* "Try to atomically set CLS_INITIALIZING."
SetInitializing(t, c) ==
  /\ At(t, c, "set")
  /\ IF state[c] = "none"
     THEN /\ state' = [state EXCEPT ![c] = "initializing"]
          /\ initializing' = [initializing EXCEPT ![t] = @ \cup {c}]
          /\ Goto(t, "initialize")
     ELSE Goto(t, "initializing") /\ UNCHANGED <<state, initializing>>
  /\ UNCHANGED pending

\* The +initialize method ends; an exception "is deemed to be a complete and
\* successful +initialize", but it goes on to the caller.
EndInitialize(t, c) ==
  /\ At(t, c, "initialize")
  /\ \/ Goto(t, "finish")
     \/ c \in Throws /\ Goto(t, "finishThrow")
  /\ UNCHANGED <<state, initializing, pending>>

\* Mutant: only cls itself is marked, not the subclasses that wait for it.
FinishedAlone(c) == {c}

\* The classes that _finishInitializing marks: cls, the subclasses that wait
\* for it, the ones that wait for those, ...
Finished(c) ==
  {d \in Classes :
     \A S \in SUBSET Classes :
       c \in S /\ (\A s \in S : pending[s] \subseteq S) => d \in S}

\* Mutant: nobody is woken.
FinishQuietly(t, c, stacks) ==
  /\ state' = [d \in Classes |->
                 IF d \in Finished(c) THEN "initialized" ELSE state[d]]
  /\ initializing' = [initializing EXCEPT ![t] = @ \ Finished(c)]
  /\ pending' = [d \in Classes |->
                   IF d \in Finished(c) THEN {} ELSE pending[d]]
  /\ stack' = stacks

\* _finishInitializing
FinishInitializing(t, c, stacks) ==
  /\ state' = [d \in Classes |->
                 IF d \in Finished(c) THEN "initialized" ELSE state[d]]
  /\ initializing' = [initializing EXCEPT ![t] = @ \ Finished(c)]
  /\ pending' = [d \in Classes |->
                   IF d \in Finished(c) THEN {} ELSE pending[d]]
  /\ stack' = NotifyAll(stacks)

\* _finishInitializingAfter
FinishInitializingAfter(c, stacks) ==
  /\ pending' = [pending EXCEPT ![Super[c]] = @ \cup {c}]
  /\ stack' = stacks
  /\ UNCHANGED <<state, initializing>>

\* lockAndFinishInitializing, and the return or the exception.
LockAndFinish(t, c) ==
  \/ /\ At(t, c, "finish")
     /\ LET stacks == [stack EXCEPT ![t] = Tail(@)] IN
        IF Initialized(Super[c]) THEN FinishInitializing(t, c, stacks)
        ELSE FinishInitializingAfter(c, stacks)
  \/ /\ At(t, c, "finishThrow")
     /\ LET stacks == [stack EXCEPT ![t] = Unwound(t)] IN
        IF Initialized(Super[c]) THEN FinishInitializing(t, c, stacks)
        ELSE FinishInitializingAfter(c, stacks)

\* Mutant: asks for CLS_INITIALIZED first ("Die horribly").
InitializingLast(t, c) ==
  /\ At(t, c, "initializing")
  /\ \/ state[c] = "initialized" /\ Return(t)
     \/ state[c] # "initialized" /\ Goto(t, "initialized")
  /\ UNCHANGED <<state, initializing, pending>>

\* Not the initializer: is CLS_INITIALIZING set, and by this thread?
IsInitializing(t, c) ==
  /\ At(t, c, "initializing")
  /\ \/ state[c] # "initializing" /\ Goto(t, "initialized")
     \/ state[c] = "initializing" /\ c \in initializing[t] /\ Return(t)
     \/ /\ state[c] = "initializing"
        /\ c \notin initializing[t]
        /\ Goto(t, "wait")
  /\ UNCHANGED <<state, initializing, pending>>

\* "NOTE this check must come AFTER the ISINITIALIZING case."
IsInitialized(t, c) ==
  /\ At(t, c, "initialized")
  /\ state[c] = "initialized"
  /\ Return(t)
  /\ UNCHANGED <<state, initializing, pending>>

\* Mutant: a thread that has been woken does not look again.
WaitOnce(t, c) ==
  /\ At(t, c, "wait")
  /\ \/ Return(t)
     \/ state[c] # "initialized" /\ Goto(t, "asleep")
  /\ UNCHANGED <<state, initializing, pending>>

\* waitForInitializeToComplete; a notification is for any class.
Wait(t, c) ==
  /\ At(t, c, "wait")
  /\ \/ state[c] = "initialized" /\ Return(t)
     \/ state[c] # "initialized" /\ Goto(t, "asleep")
  /\ UNCHANGED <<state, initializing, pending>>

-----------------------------------------------------------------------------
\* What the runtime does, and the end of a +initialize method.
Step(t) ==
  \E c \in Classes :
    \/ SuperFirst(t, c) \/ SetInitializing(t, c) \/ EndInitialize(t, c)
    \/ LockAndFinish(t, c) \/ IsInitializing(t, c) \/ IsInitialized(t, c)
    \/ Wait(t, c)

Next == \E t \in Threads : Step(t) \/ \E c \in Classes : Message(t, c)

Spec == Init /\ [][Next]_vars

\* A thread is scheduled again, and a +initialize method comes to its end: it
\* does not send messages for ever.
Fairness ==
  \A t \in Threads :
    /\ WF_vars(Step(t))
    /\ SF_vars(\E c \in Classes : EndInitialize(t, c))

FairSpec == Spec /\ Fairness

-----------------------------------------------------------------------------
(* Properties *)

Labels == {"super", "set", "initialize", "finish", "finishThrow",
           "initializing", "initialized", "wait", "asleep"}

\* The calls in which a thread is sending +initialize to a class.
Sending(c) ==
  UNION {{<<t, i>> : i \in {j \in DOMAIN stack[t] :
                             /\ stack[t][j].cls = c
                             /\ stack[t][j].pc \in
                                  {"initialize", "finish", "finishThrow"}}} :
           t \in Threads}

TypeOK ==
  /\ state \in [Classes -> {"none", "initializing", "initialized"}]
  /\ initializing \in [Threads -> SUBSET Classes]
  /\ pending \in [Classes -> SUBSET Classes]
  /\ stack \in [Threads -> Seq([cls : Classes, pc : Labels])]

\* "Only one thread is allowed to actually initialize a class and send
\* +initialize", and the class is in that thread's list.
OneInitializer ==
  \A c \in Classes :
    /\ Cardinality(Sending(c)) <= 1
    /\ \A s \in Sending(c) :
         state[c] = "initializing" /\ c \in initializing[s[1]]
    /\ \A t, u \in Threads :
         c \in initializing[t] /\ c \in initializing[u] => t = u

\* "the initializing+initialized part of the class hierarchy will be a
\* contiguous subtree starting at the root", and initialized classes have
\* initialized superclasses.
ContiguousSubtree ==
  \A c \in Classes :
    Super[c] # NoClass =>
      /\ state[c] # "none" => state[Super[c]] # "none"
      /\ state[c] = "initialized" => state[Super[c]] = "initialized"

\* +initialize is sent to a class only after its superclass has finished or
\* while this thread is in the superclass's own.
SuperclassFirst ==
  \A c \in Classes : \A s \in Sending(c) :
    Initialized(Super[c]) \/ Super[c] \in initializing[s[1]]

\* Below the innermost call each is in a +initialize, or goes on when the call
\* above it returns, which is for its superclass.
StackInv ==
  \A t \in Threads : \A i \in 2..Len(stack[t]) :
    /\ stack[t][i].pc \in {"set", "initialize"}
    /\ stack[t][i].pc = "set" => stack[t][i - 1].cls = Super[stack[t][i].cls]

\* What a thread has seen under classInitLock when it is at a label.
LabelInv ==
  \A t \in Threads, c \in Classes :
    /\ At(t, c, "set") => Initialized(Super[c]) \/ Super[c] \in initializing[t]
    /\ At(t, c, "initializing") => state[c] # "none"
    /\ At(t, c, "initialized") => state[c] = "initialized"

\* The classes in a thread's list, and the subclasses that wait for one of
\* them: their +initialize is over, and they are the same thread's.
OwnerInv ==
  /\ \A t \in Threads : \A c \in initializing[t] : state[c] = "initializing"
  /\ \A c \in Classes : \A d \in pending[c] :
       /\ Super[d] = c /\ Sending(d) = {}
       /\ state[c] = "initializing" /\ state[d] = "initializing"
       /\ \A t \in Threads : d \in initializing[t] <=> c \in initializing[t]

\* The order of initialization: one thread for each class, the superclass
\* first, and no gap in the hierarchy above a class.
ClassInv ==
  /\ TypeOK /\ OneInitializer /\ ContiguousSubtree /\ SuperclassFirst
  /\ StackInv /\ LabelInv /\ OwnerInv

\* A class that is being initialized is on its way to be initialized: its
\* +initialize is running, or it waits for its superclass, which is the same
\* thread's.  An exception that goes through leaves none behind.
NothingForgotten ==
  \A c \in Classes :
    /\ state[c] = "initializing" =>
         Sending(c) # {} \/ (Super[c] # NoClass /\ c \in pending[Super[c]])
    /\ \A d \in pending[c] : \A t \in Threads :
         /\ state[c] = "initializing" /\ state[d] = "initializing"
         /\ d \in initializing[t] => c \in initializing[t]

\* "thread-safe class init in objc runtime is buggy!" and "thread is not
\* initializing this class!" are never reached.
NoFatal ==
  \A t \in Threads, c \in Classes :
    /\ At(t, c, "initialized") => state[c] = "initialized"
    /\ At(t, c, "set") /\ state[c] = "none" => c \notin initializing[t]
    /\ (At(t, c, "finish") \/ At(t, c, "finishThrow")) /\ Initialized(Super[c])
         => Finished(c) \subseteq initializing[t]

\* A message goes ahead only to a class that is initialized, or that the
\* sender itself is initializing; and no class ever goes back.
NobodyTooEarly ==
  [][/\ \A t \in Threads, c \in Classes :
          (/\ stack[t] # <<>>
           /\ stack'[t] = Tail(stack[t])
           /\ Head(stack[t]).cls = c
           /\ Head(stack[t]).pc # "finishThrow")
             => state'[c] = "initialized" \/ c \in initializing'[t]
     /\ \A c \in Classes :
          /\ state[c] = "initialized" => state'[c] = "initialized"
          /\ state[c] = "initializing" => state'[c] # "none"]_vars

\* "we won't get stuck while a superclass waits for its subclass which waits
\* for the superclass": every message returns.
EveryMessageReturns ==
  \A t \in Threads : stack[t] # <<>> ~> stack[t] = <<>>
=============================================================================
