------------------------------- MODULE WeakRef -------------------------------
(***************************************************************************)
(* __weak variables on several threads (NSObject.mm): storeWeak and its    *)
(* callers, objc_loadWeakRetained, and the deallocation that clears them.  *)
(* A variable's value is read before the lock of the side table that it    *)
(* says to take, and a store needs the tables of two objects.              *)
(*                                                                         *)
(* What the weak table of a side table does is in WeakTable, and how the   *)
(* isa word counts in RefCount; here a table is the set of its pairs and   *)
(* an object has the set of threads that hold a reference.                 *)
(***************************************************************************)
EXTENDS Integers, FiniteSets

CONSTANTS
  Threads, Objects, Locations, Nil,
  TableOf,        \* SideTables()[pointer]: the address of a side table
  MaxCalls        \* bounds the calls on weak variables

Pointers == Objects \cup {Nil}

ASSUME WeakAssumption ==
  /\ Nil \notin Objects \cup Locations \cup Threads
  /\ TableOf \in [Pointers -> Nat]
  /\ MaxCalls \in Nat

VARIABLES
  location,       \* *location
  ready,          \* the __weak variables between their init and destroy
  weak,           \* the pairs of object and location in the weak tables
  lock,           \* who holds the lock of each side table, or Nil
  owners,         \* the threads with a strong reference to an object
  life,           \* "live", "deallocating" or "freed"
  by,             \* the thread that deallocates an object
  weakly_referenced,   \* the objects whose isa has that bit
  initialized,    \* the objects whose class ran +initialize
  pc, call,       \* where a thread is, and its arguments and locals
  calls           \* how many calls were made

objects == <<owners, life, by>>
flags == <<weakly_referenced, initialized>>
vars == <<location, ready, weak, lock, objects, flags, pc, call, calls>>

Tables == {TableOf[p] : p \in Pointers}

\* previous is storeWeak's previouslyInitializedClass, obj what a thread read
\* or deallocates.
NoCall == [op |-> "none", loc |-> Nil, new |-> Nil, obj |-> Nil,
           previous |-> Nil]

\* Some stores were made before.
Init ==
  /\ location \in [Locations -> Pointers]
  /\ ready = Locations
  /\ weak = {pair \in Objects \X Locations : location[pair[2]] = pair[1]}
  /\ lock = [a \in Tables |-> Nil]
  /\ owners = [o \in Objects |-> Threads]
  /\ life = [o \in Objects |-> "live"]
  /\ by = [o \in Objects |-> Nil]
  /\ weakly_referenced = {pair[1] : pair \in weak}
  /\ initialized = weakly_referenced
  /\ pc = [t \in Threads |-> "idle"]
  /\ call = [t \in Threads |-> NoCall]
  /\ calls = 0

Goto(t, label) == pc' = [pc EXCEPT ![t] = label]

Return(t) ==
  /\ Goto(t, "idle")
  /\ call' = [call EXCEPT ![t] = NoCall]

Unlocked(t) == [a \in Tables |-> IF lock[a] = t THEN Nil ELSE lock[a]]

-----------------------------------------------------------------------------
(* Calls *)

Begin(t, label, arguments) ==
  /\ pc[t] = "idle" /\ calls < MaxCalls
  /\ calls' = calls + 1
  /\ Goto(t, label)
  /\ call' = [call EXCEPT ![t] = arguments]
  /\ UNCHANGED <<location, ready, weak, lock, objects, flags>>

\* A thread may name an object that it holds, or deallocates just now.
Usable(t, o) ==
  t \notin owners[o] => life[o] = "deallocating" /\ by[o] = t

InUse(l) == \E t \in Threads : call[t].loc = l

\* Nobody uses a variable that is being destroyed.
Alive(l) ==
  l \in ready /\ \A t \in Threads : call[t].loc = l => call[t].op # "destroy"

\* objc_initWeakOrNil and, but for halting when the object is deallocated,
\* objc_initWeak.
objc_initWeak(t, l, o) ==
  /\ l \notin ready /\ ~ InUse(l) /\ Usable(t, o)
  /\ Begin(t, "lock", [NoCall EXCEPT !.op = "init", !.loc = l, !.new = o])

\* With nil no lock is taken.
InitWithNil(t, l) ==
  /\ pc[t] = "idle" /\ calls < MaxCalls
  /\ l \notin ready /\ ~ InUse(l)
  /\ calls' = calls + 1
  /\ ready' = ready \cup {l}
  /\ location' = [location EXCEPT ![l] = Nil]
  /\ UNCHANGED <<weak, lock, objects, flags, pc, call>>

objc_storeWeak(t, l, o) ==
  /\ Alive(l) /\ (o # Nil => Usable(t, o))
  /\ Begin(t, "read", [NoCall EXCEPT !.op = "store", !.loc = l, !.new = o])

\* Nobody else uses the variable any more.
objc_destroyWeak(t, l) ==
  /\ l \in ready /\ ~ InUse(l)
  /\ Begin(t, "read", [NoCall EXCEPT !.op = "destroy", !.loc = l])

objc_loadWeakRetained(t, l) ==
  /\ Alive(l)
  /\ Begin(t, "read", [NoCall EXCEPT !.op = "load", !.loc = l])

\* The last release begins the deallocation.
release(t, o) ==
  /\ pc[t] = "idle" /\ t \in owners[o]
  /\ owners' = [owners EXCEPT ![o] = @ \ {t}]
  /\ IF owners'[o] = {}
     THEN /\ life' = [life EXCEPT ![o] = "deallocating"]
          /\ by' = [by EXCEPT ![o] = t]
     ELSE UNCHANGED <<life, by>>
  /\ UNCHANGED <<location, ready, weak, lock, flags, pc, call, calls>>

\* Its memory is an object again.
Alloc(t, o) ==
  /\ pc[t] = "idle" /\ life[o] = "freed"
  /\ life' = [life EXCEPT ![o] = "live"]
  /\ owners' = [owners EXCEPT ![o] = {t}]
  /\ weakly_referenced' = weakly_referenced \ {o}
  /\ UNCHANGED <<location, ready, weak, lock, by, initialized, pc, call, calls>>

-----------------------------------------------------------------------------
(* storeWeak *)

haveOld(t) == call[t].op # "init"
haveNew(t) == call[t].op \in {"init", "store"}

\* *location is read before any lock is held.
ReadLocation(t) ==
  /\ pc[t] = "read"
  /\ IF call[t].op = "load" /\ location[call[t].loc] = Nil THEN Return(t)
     ELSE /\ call' = [call EXCEPT ![t].obj = location[call[t].loc]]
          /\ Goto(t, "lock")
  /\ UNCHANGED <<location, ready, weak, lock, objects, flags, calls>>

\* The side tables of a thread's call.
Needed(t) ==
  (IF haveOld(t) THEN {TableOf[call[t].obj]} ELSE {})
  \cup (IF haveNew(t) THEN {TableOf[call[t].new]} ELSE {})

\* Mutant: the table of the old object first.
LockOldFirst(t) ==
  LET missing == {a \in Needed(t) : lock[a] # t}
      old == TableOf[call[t].obj]
  IN /\ pc[t] = "lock"
     /\ \E a \in missing :
          /\ haveOld(t) /\ old \in missing => a = old
          /\ lock[a] = Nil
          /\ lock' = [lock EXCEPT ![a] = t]
          /\ IF missing = {a} THEN Goto(t, "locked") ELSE UNCHANGED pc
     /\ UNCHANGED <<location, ready, weak, objects, flags, call, calls>>

\* lockTwo: in the order of their addresses; once if they are the same.
LockNext(t) ==
  LET missing == {a \in Needed(t) : lock[a] # t}
  IN /\ pc[t] = "lock"
     /\ \E a \in missing :
          /\ \A b \in missing : a <= b
          /\ lock[a] = Nil
          /\ lock' = [lock EXCEPT ![a] = t]
          /\ IF missing = {a} THEN Goto(t, "locked") ELSE UNCHANGED pc
     /\ UNCHANGED <<location, ready, weak, objects, flags, call, calls>>

\* Mutant: the variable is not looked at again.
NeverChanged(t) == FALSE

\* "Retry if the old value changes underneath us."
Changed(t) == haveOld(t) /\ location[call[t].loc] # call[t].obj

Retry(t) ==
  /\ pc[t] = "locked" /\ Changed(t)
  /\ lock' = Unlocked(t)
  /\ Goto(t, "read")
  /\ UNCHANGED <<location, ready, weak, objects, flags, call, calls>>

\* The object whose class must have run +initialize: the new one; or the one
\* that is loaded, for a class with its own retain.
Subject(t) == IF call[t].op = "load" THEN call[t].obj ELSE call[t].new

Uninitialized(t) ==
  Subject(t) \notin initialized \cup {Nil, call[t].previous}

\* "Prevent a deadlock between the weak reference machinery and the
\* +initialize machinery": without a lock, and then again from the start.
MustInitialize(t) ==
  /\ pc[t] = "locked" /\ ~ Changed(t) /\ Uninitialized(t)
  /\ lock' = Unlocked(t)
  /\ Goto(t, "initialize")
  /\ UNCHANGED <<location, ready, weak, objects, flags, call, calls>>

\* +initialize may use weak references and side tables itself: of any object.
\* On the thread that runs it already, the class stays uninitialized.
Initialize(t) ==
  /\ pc[t] = "initialize"
  /\ \A a \in Tables : lock[a] = Nil
  /\ initialized' \in {initialized, initialized \cup {Subject(t)}}
  /\ call' = [call EXCEPT ![t].previous = Subject(t)]
  /\ Goto(t, IF haveOld(t) THEN "read" ELSE "lock")
  /\ UNCHANGED <<location, ready, weak, lock, objects, weakly_referenced>>
  /\ UNCHANGED calls

\* Mutant: also an object that is being deallocated.
RegisterAny(t) == call[t].new

\* weak_register_no_lock rejects an object that is being deallocated.
Registered(t) ==
  IF call[t].new # Nil => life[call[t].new] = "live" THEN call[t].new ELSE Nil

setWeaklyReferenced_nolock(o) ==
  weakly_referenced' = weakly_referenced \cup ({o} \ {Nil})

\* Unregister the old value, register the new one, set its bit, write the
\* variable, and unlock.
Store(t) ==
  LET l == call[t].loc
      new == Registered(t)
      rest == IF haveOld(t) THEN weak \ {<<call[t].obj, l>>} ELSE weak
  IN /\ pc[t] = "locked" /\ call[t].op # "load"
     /\ ~ Changed(t) /\ ~ Uninitialized(t)
     /\ IF haveNew(t)
        THEN /\ weak' = rest \cup ({new} \ {Nil}) \X {l}
             /\ setWeaklyReferenced_nolock(new)
             /\ location' = [location EXCEPT ![l] = new]
             /\ ready' = ready \cup {l}
        ELSE /\ weak' = rest
             /\ ready' = ready \ {l}
             /\ UNCHANGED <<location, weakly_referenced>>
     /\ lock' = Unlocked(t)
     /\ Return(t)
     /\ UNCHANGED <<objects, initialized, calls>>

-----------------------------------------------------------------------------
(* objc_loadWeakRetained *)

\* rootTryRetain fails for an object that is being deallocated.
TryRetain(t) ==
  LET o == call[t].obj
  IN /\ pc[t] = "locked" /\ call[t].op = "load"
     /\ ~ Changed(t) /\ ~ Uninitialized(t)
     /\ owners' = IF life[o] = "live"
                  THEN [owners EXCEPT ![o] = @ \cup {t}] ELSE owners
     /\ lock' = Unlocked(t)
     /\ Return(t)
     /\ UNCHANGED <<location, ready, weak, life, by, flags, calls>>

-----------------------------------------------------------------------------
(* Deallocation *)

Free(o) == life' = [life EXCEPT ![o] = "freed"]

\* rootDealloc looks at the bit without a lock.
rootDealloc(t, o) ==
  /\ pc[t] = "idle" /\ life[o] = "deallocating" /\ by[o] = t
  /\ IF o \in weakly_referenced
     THEN /\ Goto(t, "clear")
          /\ call' = [call EXCEPT ![t] =
                        [NoCall EXCEPT !.op = "dealloc", !.obj = o]]
          /\ UNCHANGED life
     ELSE Free(o) /\ UNCHANGED <<pc, call>>
  /\ UNCHANGED <<location, ready, weak, lock, owners, by, flags, calls>>

\* clearDeallocating_slow holds the lock while weak_clear_no_lock sets the
\* variables to nil; then the memory is freed.
ClearDeallocating(t) ==
  LET o == call[t].obj
  IN /\ pc[t] = "clear" /\ lock[TableOf[o]] = Nil
     /\ location' = [l \in Locations |->
                       IF <<o, l>> \in weak /\ location[l] = o
                       THEN Nil ELSE location[l]]
     /\ weak' = {pair \in weak : pair[1] # o}
     /\ Free(o)
     /\ Return(t)
     /\ UNCHANGED <<ready, lock, owners, by, flags, calls>>

-----------------------------------------------------------------------------
Step(t) ==
  \/ ReadLocation(t) \/ LockNext(t) \/ Retry(t) \/ MustInitialize(t)
  \/ Initialize(t) \/ Store(t) \/ TryRetain(t)
  \/ ClearDeallocating(t) \/ \E o \in Objects : rootDealloc(t, o)

Call(t) ==
  \/ \E l \in Locations, o \in Objects : objc_initWeak(t, l, o)
  \/ \E l \in Locations, o \in Pointers : objc_storeWeak(t, l, o)
  \/ \E l \in Locations :
       \/ InitWithNil(t, l)
       \/ objc_destroyWeak(t, l)
       \/ objc_loadWeakRetained(t, l)
  \/ \E o \in Objects : release(t, o) \/ Alloc(t, o)

Next == \E t \in Threads : Call(t) \/ Step(t)

Spec == Init /\ [][Next]_vars

-----------------------------------------------------------------------------
CallRecords ==
  [op : {"none", "init", "store", "destroy", "load", "dealloc"},
   loc : Locations \cup {Nil},
   new : Pointers, obj : Pointers, previous : Pointers]

TypeOK ==
  /\ location \in [Locations -> Pointers]
  /\ ready \subseteq Locations
  /\ weak \subseteq Objects \X Locations
  /\ lock \in [Tables -> Threads \cup {Nil}]
  /\ owners \in [Objects -> SUBSET Threads]
  /\ life \in [Objects -> {"live", "deallocating", "freed"}]
  /\ by \in [Objects -> Threads \cup {Nil}]
  /\ weakly_referenced \subseteq Objects
  /\ initialized \subseteq Pointers
  /\ pc \in [Threads -> {"idle", "read", "lock", "locked", "initialize",
                         "clear"}]
  /\ call \in [Threads -> CallRecords]
  /\ calls \in 0..MaxCalls

(* A weak table has a variable for an object exactly while the variable    *)
(* holds the object, also when several threads store into it and the       *)
(* object goes away.                                                       *)
RegisteredExactly ==
  \A o \in Objects, l \in Locations :
    <<o, l>> \in weak <=> l \in ready /\ location[l] = o

(* No __weak variable holds an object that was freed, although an object   *)
(* without its bit is freed without a look at the tables.                  *)
NoDanglingWeak ==
  \A l \in ready : location[l] # Nil => life[location[l]] # "freed"

\* An object that a variable holds has the bit that makes its deallocation
\* look at the tables.
BitInv ==
  \A l \in ready : location[l] # Nil => location[l] \in weakly_referenced

\* A variable that a call works on is there until the call has ended, and a
\* load does not go on with nil.
CallInv ==
  \A t \in Threads :
    /\ pc[t] = "idle" <=> call[t].op = "none"
    /\ pc[t] = "clear" <=> call[t].op = "dealloc"
    /\ pc[t] \in {"idle", "clear"} => call[t].loc = Nil /\ call[t].new = Nil
    /\ call[t].op \in {"store", "destroy", "load"} => call[t].loc \in ready
    /\ call[t].op = "init" => call[t].loc \in Locations \ ready
    /\ call[t].op \in {"init", "destroy"} =>
         \A u \in Threads \ {t} : call[u].loc # call[t].loc
    /\ call[t].op = "load" /\ pc[t] # "read" => call[t].obj # Nil

\* Who stores an object holds it or deallocates it, until the end of the
\* call; nobody holds one that is deallocated, and one thread does it.
LifeInv ==
  /\ \A o \in Objects : owners[o] # {} => life[o] = "live"
  /\ \A t \in Threads :
       /\ call[t].new # Nil => Usable(t, call[t].new)
       /\ pc[t] = "clear" =>
            /\ call[t].obj \in Objects
            /\ life[call[t].obj] = "deallocating" /\ by[call[t].obj] = t

(* The tables and the variables agree while stores, loads and              *)
(* deallocations overlap.  (Inductive: WeakRefProofs.)                     *)
WeakInv ==
  /\ TypeOK /\ RegisteredExactly /\ NoDanglingWeak
  /\ BitInv /\ CallInv /\ LifeInv

(* What a program is promised of its __weak variables: each store and each *)
(* deallocation takes effect at once, whatever other threads do meanwhile. *)
(* A variable that was destroyed counts as nil.                            *)
Visible == [l \in Locations |-> IF l \in ready THEN location[l] ELSE Nil]

Deallocating == {o \in Objects : life[o] = "deallocating"}

Promised == INSTANCE WeakVariables
  WITH location <- Visible, deallocating <- Deallocating

ImplementsWeakVariables == Promised!Spec

(* objc_loadWeakRetained does not touch an object that was freed: neither   *)
(* between its look at the variable and the lock nor, if +initialize runs, *)
(* between giving the lock up and taking it again.  To go on with the      *)
(* object is to leave "locked" other than for another look.                *)
LoadsTouchNoFreedObject ==
  [][\A t \in Threads :
       /\ pc[t] = "locked" /\ call[t].op = "load"
       /\ pc'[t] \in {"idle", "initialize"}
       => life[call[t].obj] # "freed"]_vars

(* Whenever a call is under way, one that is can go on: no two threads     *)
(* wait for each other's side table, and no +initialize waits for that of  *)
(* its caller.                                                             *)
NoDeadlock ==
  LET busy == {t \in Threads : pc[t] # "idle"}
  IN busy # {} => \E t \in busy : ENABLED Step(t)

=============================================================================
