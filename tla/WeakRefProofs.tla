---------------------------- MODULE WeakRefProofs ----------------------------
(***************************************************************************)
(* For every set of threads, objects and variables and however the objects *)
(* are spread over the side tables: WeakInv is inductive, loads touch no   *)
(* freed object, and WeakRef implements WeakVariables.                     *)
(***************************************************************************)
EXTENDS WeakRef, FiniteSetTheorems, WellFoundedInduction, TLAPS

LEMMA InitInv == Init => WeakInv
<1> SUFFICES ASSUME Init PROVE WeakInv
  OBVIOUS
<1>1. NoCall \in CallRecords
  BY DEF NoCall, CallRecords, Pointers
<1>2. TypeOK
  <2>1. /\ location \in [Locations -> Pointers] /\ ready \subseteq Locations
        /\ weak \subseteq Objects \X Locations
        /\ weakly_referenced \subseteq Objects
    BY DEF Init
  <2>2. initialized \subseteq Pointers
    BY <2>1 DEF Init, Pointers
  <2>3. /\ lock \in [Tables -> Threads \cup {Nil}]
        /\ owners \in [Objects -> SUBSET Threads]
        /\ life \in [Objects -> {"live", "deallocating", "freed"}]
        /\ by \in [Objects -> Threads \cup {Nil}]
    BY DEF Init
  <2>4. /\ call \in [Threads -> CallRecords]
        /\ pc \in [Threads -> {"idle", "read", "lock", "locked", "initialize",
                               "clear"}]
        /\ calls \in 0..MaxCalls
    BY <1>1, WeakAssumption DEF Init
  <2> QED BY <2>1, <2>2, <2>3, <2>4 DEF TypeOK
<1>3. RegisteredExactly
  <2> SUFFICES ASSUME NEW o \in Objects, NEW l \in Locations
               PROVE  <<o, l>> \in weak <=> location[l] = o
    BY DEF Init, RegisteredExactly
  <2> QED BY DEF Init
<1>a. NoDanglingWeak
  BY DEF Init, NoDanglingWeak, Pointers
<1>b. BitInv
  <2> SUFFICES ASSUME NEW l \in Locations, location[l] # Nil
               PROVE  location[l] \in weakly_referenced
    BY DEF Init, BitInv
  <2>1. location[l] \in Objects /\ <<location[l], l>> \in weak
    BY <1>3 DEF Init, RegisteredExactly, Pointers
  <2>2. <<location[l], l>>[1] = location[l]
    OBVIOUS
  <2> QED BY <2>1, <2>2 DEF Init
<1>4. CallInv
  BY DEF Init, CallInv, NoCall
<1>5. LifeInv
  BY DEF Init, LifeInv, NoCall
<1> QED BY <1>2, <1>3, <1>a, <1>b, <1>4, <1>5 DEF WeakInv

-----------------------------------------------------------------------------
(* Steps that leave the objects, the variables and the tables alone *)

LEMMA Frame ==
  ASSUME WeakInv, UNCHANGED <<location, ready, weak, objects>>,
         weakly_referenced' = weakly_referenced, TypeOK', CallInv',
         \A u \in Threads :
           /\ call'[u].new # Nil => Usable(u, call'[u].new)
           /\ pc'[u] = "clear" =>
                pc[u] = "clear" /\ call'[u].obj = call[u].obj
  PROVE  WeakInv'
<1>1. RegisteredExactly' /\ NoDanglingWeak' /\ BitInv'
  BY DEF WeakInv, RegisteredExactly, NoDanglingWeak, BitInv, objects
<1>2. LifeInv'
  BY DEF WeakInv, LifeInv, Usable, objects
<1> QED BY <1>1, <1>2 DEF WeakInv

\* The call that a thread in a call of the weak variables is in.
LEMMA InCall ==
  ASSUME WeakInv, NEW t \in Threads,
         pc[t] \in {"read", "lock", "locked", "initialize"}
  PROVE  /\ call[t] \in CallRecords
         /\ call[t].op \in {"init", "store", "destroy", "load"}
         /\ call[t].loc \in Locations
         /\ call[t].new \in Pointers /\ call[t].obj \in Pointers
         /\ call[t].op # "init" => call[t].loc \in ready
<1>1. call[t] \in CallRecords
  BY DEF WeakInv, TypeOK
<1>2. call[t].op \in {"init", "store", "destroy", "load"}
  BY <1>1 DEF WeakInv, CallInv, CallRecords
<1>3. call[t].loc \in Locations
  BY <1>2 DEF WeakInv, CallInv, TypeOK
<1> QED BY <1>1, <1>2, <1>3 DEF WeakInv, CallInv, CallRecords

LEMMA BeginStep ==
  ASSUME WeakInv, NEW t \in Threads, NEW label \in {"read", "lock"},
         NEW c \in CallRecords, Begin(t, label, c),
         c.op \in {"init", "store", "destroy", "load"},
         c.loc \in Locations,
         c.op = "init" <=> c.loc \notin ready,
         c.op \in {"init", "destroy"} => ~ InUse(c.loc),
         c.op \in {"store", "load"} => Alive(c.loc),
         c.op = "load" => label = "read",
         c.new # Nil => Usable(t, c.new)
  PROVE  WeakInv'
<1> USE DEF Begin, Goto, objects, flags
<1>1. /\ pc[t] = "idle" /\ pc'[t] = label /\ call'[t] = c
      /\ \A u \in Threads \ {t} : pc'[u] = pc[u] /\ call'[u] = call[u]
  BY DEF WeakInv, TypeOK
<1>2. TypeOK'
  <2>1. calls' \in 0..MaxCalls
    BY WeakAssumption DEF WeakInv, TypeOK
  <2>2. call' \in [Threads -> CallRecords]
    BY DEF WeakInv, TypeOK
  <2> QED BY <2>1, <2>2 DEF WeakInv, TypeOK
<1>3. CallInv'
  <2> SUFFICES ASSUME NEW u \in Threads
               PROVE  CallInv!(u)'
    BY DEF CallInv
  <2>1. CASE u = t
    <3>1. \A v \in Threads \ {t} :
            c.op \in {"init", "destroy"} => call[v].loc # c.loc
      BY DEF InUse
    <3> QED BY <1>1, <2>1, <3>1
  <2>2. CASE u # t
    <3>1. call[u].op \in {"init", "destroy"} => c.loc # call[u].loc
      BY DEF WeakInv, CallInv, InUse, Alive
    <3>2. CallInv!(u)
      BY DEF WeakInv, CallInv
    <3> QED BY <1>1, <2>2, <3>1, <3>2
  <2> QED BY <2>1, <2>2
<1>4. \A u \in Threads :
        /\ call'[u].new # Nil => Usable(u, call'[u].new)
        /\ pc'[u] = "clear" =>
             pc[u] = "clear" /\ call'[u].obj = call[u].obj
  BY <1>1 DEF WeakInv, LifeInv
<1> QED BY <1>2, <1>3, <1>4, Frame

LEMMA CallStarts ==
  ASSUME WeakInv, NEW t \in Threads, NEW l \in Locations,
         \/ \E o \in Objects : objc_initWeak(t, l, o)
         \/ \E o \in Pointers : objc_storeWeak(t, l, o)
         \/ objc_destroyWeak(t, l)
         \/ objc_loadWeakRetained(t, l)
  PROVE  WeakInv'
<1>1. ASSUME NEW o \in Objects, objc_initWeak(t, l, o) PROVE WeakInv'
  <2> DEFINE c == [NoCall EXCEPT !.op = "init", !.loc = l, !.new = o]
  <2>1. /\ c \in CallRecords /\ c.op = "init" /\ c.loc = l /\ c.new = o
    BY DEF CallRecords, NoCall, Pointers
  <2> HIDE DEF c
  <2> QED BY <1>1, <2>1, BeginStep DEF objc_initWeak, c
<1>2. ASSUME NEW o \in Pointers, objc_storeWeak(t, l, o) PROVE WeakInv'
  <2> DEFINE c == [NoCall EXCEPT !.op = "store", !.loc = l, !.new = o]
  <2>1. /\ c \in CallRecords /\ c.op = "store" /\ c.loc = l /\ c.new = o
    BY DEF CallRecords, NoCall, Pointers
  <2> HIDE DEF c
  <2> QED BY <1>2, <2>1, BeginStep DEF objc_storeWeak, Alive, c
<1>3. ASSUME objc_destroyWeak(t, l) PROVE WeakInv'
  <2> DEFINE c == [NoCall EXCEPT !.op = "destroy", !.loc = l]
  <2>1. /\ c \in CallRecords /\ c.op = "destroy" /\ c.loc = l /\ c.new = Nil
    BY DEF CallRecords, NoCall, Pointers
  <2> HIDE DEF c
  <2> QED BY <1>3, <2>1, BeginStep DEF objc_destroyWeak, c
<1>4. ASSUME objc_loadWeakRetained(t, l) PROVE WeakInv'
  <2> DEFINE c == [NoCall EXCEPT !.op = "load", !.loc = l]
  <2>1. /\ c \in CallRecords /\ c.op = "load" /\ c.loc = l /\ c.new = Nil
    BY DEF CallRecords, NoCall, Pointers
  <2> HIDE DEF c
  <2> QED BY <1>4, <2>1, BeginStep DEF objc_loadWeakRetained, Alive, c
<1> QED BY <1>1, <1>2, <1>3, <1>4

\* Back in the client, with everything else as it was.
LEMMA ReturnStep ==
  ASSUME WeakInv, NEW t \in Threads, Return(t)
  PROVE  /\ pc' \in [Threads -> {"idle", "read", "lock", "locked",
                                 "initialize", "clear"}]
         /\ call' \in [Threads -> CallRecords]
         /\ pc'[t] = "idle" /\ call'[t] = NoCall
         /\ \A u \in Threads \ {t} : pc'[u] = pc[u] /\ call'[u] = call[u]
<1>1. NoCall \in CallRecords
  BY DEF NoCall, CallRecords, Pointers
<1> QED BY <1>1 DEF Return, Goto, WeakInv, TypeOK

LEMMA ReturnCallInv ==
  ASSUME WeakInv, NEW t \in Threads, Return(t),
         \/ ready' = ready
         \/ /\ call[t].op \in {"init", "store"}
            /\ ready' = ready \cup {call[t].loc}
         \/ call[t].op = "destroy" /\ ready' = ready \ {call[t].loc}
  PROVE  CallInv'
<1>1. /\ NoCall.op = "none" /\ NoCall.loc = Nil /\ NoCall.new = Nil
      /\ Nil \notin Locations
  BY WeakAssumption DEF NoCall
<1> SUFFICES ASSUME NEW u \in Threads
             PROVE  CallInv!(u)'
  BY DEF CallInv
<1>2. CASE u = t
  BY <1>1, <1>2, ReturnStep
<1>3. CASE u # t
  <2>1. CallInv!(u) /\ pc'[u] = pc[u] /\ call'[u] = call[u]
    BY <1>3, ReturnStep DEF WeakInv, CallInv
  <2>2. call[u].op \in {"init", "store", "destroy", "load"} =>
          call[u].loc \in Locations
    BY <2>1 DEF WeakInv, TypeOK
  <2>3. call[u].op \in {"init", "destroy"} =>
          \A v \in Threads \ {u} : call'[v].loc # call[u].loc
    BY <1>1, <1>3, <2>1, <2>2, ReturnStep
  <2>4. call[t].op = "destroy" => call[u].loc # call[t].loc
    BY <1>3 DEF WeakInv, CallInv
  <2>5. call[u].op = "init" => call[u].loc # call[t].loc
    BY <1>3, <2>1
  <2> QED BY <2>1, <2>2, <2>3, <2>4, <2>5
<1> QED BY <1>2, <1>3

LEMMA ReadLocationStep ==
  ASSUME WeakInv, NEW t \in Threads, ReadLocation(t)
  PROVE  WeakInv'
<1> USE DEF objects, flags
<1>0. pc[t] = "read" /\ call[t].loc \in Locations
      /\ call[t].op \in {"init", "store", "destroy", "load"}
      /\ call[t] \in CallRecords /\ location[call[t].loc] \in Pointers
  BY InCall DEF ReadLocation, WeakInv, TypeOK
<1>1. CASE call[t].op = "load" /\ location[call[t].loc] = Nil
  <2>1. Return(t)
    BY <1>1 DEF ReadLocation
  <2>2. TypeOK'
    BY <2>1, ReturnStep DEF ReadLocation, WeakInv, TypeOK
  <2>3. CallInv'
    BY <2>1, ReturnCallInv DEF ReadLocation
  <2>4. \A u \in Threads :
          /\ call'[u].new # Nil => Usable(u, call'[u].new)
          /\ pc'[u] = "clear" =>
               pc[u] = "clear" /\ call'[u].obj = call[u].obj
    BY <2>1, ReturnStep DEF WeakInv, LifeInv, NoCall
  <2> QED BY <2>2, <2>3, <2>4, Frame DEF ReadLocation
<1>2. CASE ~(call[t].op = "load" /\ location[call[t].loc] = Nil)
  <2> DEFINE c == [call[t] EXCEPT !.obj = location[call[t].loc]]
  <2>1. /\ c \in CallRecords
        /\ c.op = call[t].op /\ c.loc = call[t].loc /\ c.new = call[t].new
        /\ c.obj = location[call[t].loc]
    BY <1>0 DEF CallRecords
  <2>2. call' = [call EXCEPT ![t] = c] /\ pc' = [pc EXCEPT ![t] = "lock"]
    BY <1>2 DEF ReadLocation, Goto
  <2> HIDE DEF c
  <2>3. /\ call'[t] = c /\ pc'[t] = "lock"
        /\ \A u \in Threads \ {t} : pc'[u] = pc[u] /\ call'[u] = call[u]
    BY <2>2 DEF WeakInv, TypeOK
  <2>4. TypeOK'
    BY <2>1, <2>2 DEF ReadLocation, WeakInv, TypeOK
  <2>5. CallInv'
    BY <1>0, <1>2, <2>1, <2>3 DEF ReadLocation, WeakInv, CallInv
  <2>6. \A u \in Threads :
          /\ call'[u].new # Nil => Usable(u, call'[u].new)
          /\ pc'[u] = "clear" =>
               pc[u] = "clear" /\ call'[u].obj = call[u].obj
    BY <2>1, <2>3 DEF WeakInv, LifeInv
  <2> QED BY <2>4, <2>5, <2>6, Frame DEF ReadLocation
<1> QED BY <1>1, <1>2

\* Steps that lock, unlock and look again.
LEMMA LockStep ==
  ASSUME WeakInv, NEW t \in Threads,
         LockNext(t) \/ Retry(t) \/ MustInitialize(t)
  PROVE  WeakInv'
<1> USE DEF LockNext, Retry, MustInitialize, Goto, objects, flags
<1>1. lock' \in [Tables -> Threads \cup {Nil}]
  BY DEF WeakInv, TypeOK, Unlocked
<1>2. PICK label \in {"read", "lock", "locked", "initialize"} :
             pc' = [pc EXCEPT ![t] = label]
  <2>1. LockNext(t) => pc' \in {[pc EXCEPT ![t] = "locked"],
                                [pc EXCEPT ![t] = "lock"]}
    BY DEF WeakInv, TypeOK
  <2> QED BY <2>1
<1>3. /\ pc[t] \in {"lock", "locked"} /\ pc'[t] = label
      /\ \A u \in Threads \ {t} : pc'[u] = pc[u]
      /\ call' = call
  BY <1>2 DEF WeakInv, TypeOK
<1>4. TypeOK'
  BY <1>1, <1>2 DEF WeakInv, TypeOK
<1>5. CallInv'
  BY <1>3, InCall DEF WeakInv, CallInv
<1>6. \A u \in Threads :
        /\ call'[u].new # Nil => Usable(u, call'[u].new)
        /\ pc'[u] = "clear" =>
             pc[u] = "clear" /\ call'[u].obj = call[u].obj
  BY <1>3 DEF WeakInv, LifeInv
<1> QED BY <1>4, <1>5, <1>6, Frame

LEMMA InitializeStep ==
  ASSUME WeakInv, NEW t \in Threads, Initialize(t)
  PROVE  WeakInv'
<1> USE DEF Goto, objects, flags
<1>0. pc[t] = "initialize" /\ call[t] \in CallRecords
      /\ Subject(t) \in Pointers
  BY InCall DEF Initialize, Subject
<1> DEFINE c == [call[t] EXCEPT !.previous = Subject(t)]
<1>1. /\ c \in CallRecords
      /\ c.op = call[t].op /\ c.loc = call[t].loc
      /\ c.new = call[t].new /\ c.obj = call[t].obj
  BY <1>0 DEF CallRecords
<1>2. PICK label \in {"read", "lock"} : pc' = [pc EXCEPT ![t] = label]
  BY DEF Initialize
<1>3. call' = [call EXCEPT ![t] = c]
  BY DEF Initialize
<1> HIDE DEF c
<1>4. /\ call'[t] = c /\ pc'[t] = label
      /\ \A u \in Threads \ {t} : pc'[u] = pc[u] /\ call'[u] = call[u]
  BY <1>2, <1>3 DEF WeakInv, TypeOK
<1>5. TypeOK'
  BY <1>0, <1>1, <1>2, <1>3 DEF Initialize, WeakInv, TypeOK
<1>6. CallInv'
  BY <1>0, <1>1, <1>4, InCall DEF Initialize, WeakInv, CallInv
<1>7. \A u \in Threads :
        /\ call'[u].new # Nil => Usable(u, call'[u].new)
        /\ pc'[u] = "clear" =>
             pc[u] = "clear" /\ call'[u].obj = call[u].obj
  BY <1>1, <1>4 DEF WeakInv, LifeInv
<1> QED BY <1>5, <1>6, <1>7, Frame DEF Initialize

-----------------------------------------------------------------------------
(* Steps that change the variables, the tables or the objects *)

LEMMA InitWithNilStep ==
  ASSUME WeakInv, NEW t \in Threads, NEW l \in Locations, InitWithNil(t, l)
  PROVE  WeakInv'
<1> USE DEF InitWithNil, objects, flags
<1>0. /\ l \notin ready /\ ready' = ready \cup {l} /\ location'[l] = Nil
      /\ \A m \in Locations : m # l => location'[m] = location[m]
  BY DEF WeakInv, TypeOK
<1>1. TypeOK'
  <2>1. location' \in [Locations -> Pointers] /\ ready' \subseteq Locations
    BY DEF WeakInv, TypeOK, Pointers
  <2>2. calls' \in 0..MaxCalls
    BY WeakAssumption DEF WeakInv, TypeOK
  <2> QED BY <2>1, <2>2 DEF WeakInv, TypeOK
<1>2. RegisteredExactly'
  <2> SUFFICES ASSUME NEW o \in Objects, NEW m \in Locations
               PROVE  <<o, m>> \in weak
                        <=> m \in ready' /\ location'[m] = o
    BY DEF RegisteredExactly
  <2>1. <<o, m>> \in weak <=> m \in ready /\ location[m] = o
    BY DEF WeakInv, RegisteredExactly
  <2>2. o # Nil
    BY WeakAssumption
  <2> QED BY <1>0, <2>1, <2>2
<1>3. NoDanglingWeak' /\ BitInv'
  BY <1>0 DEF WeakInv, TypeOK, NoDanglingWeak, BitInv
<1>4. CallInv'
  BY <1>0 DEF WeakInv, CallInv, InUse
<1>5. LifeInv'
  BY DEF WeakInv, LifeInv, Usable
<1> QED BY <1>1, <1>2, <1>3, <1>4, <1>5 DEF WeakInv

LEMMA StoreStep ==
  ASSUME WeakInv, NEW t \in Threads, Store(t)
  PROVE  WeakInv'
<1> DEFINE l == call[t].loc
           new == Registered(t)
<1> USE DEF objects, flags
<1>0. /\ l \in Locations /\ call[t].new \in Pointers
      /\ call[t].op \in {"init", "store", "destroy"}
      /\ call[t].op # "init" => l \in ready /\ location[l] = call[t].obj
      /\ call[t].op = "init" => l \notin ready
      /\ Return(t) /\ pc[t] = "locked"
  BY InCall DEF Store, haveOld, Changed, WeakInv, CallInv
<1>1. new \in Pointers /\ (new # Nil => life[new] = "live")
  BY <1>0 DEF Registered, Pointers
<1>2. lock' \in [Tables -> Threads \cup {Nil}]
  BY DEF Store, WeakInv, TypeOK, Unlocked
<1>3. CASE call[t].op = "destroy"
  <2>1. /\ weak' = weak \ {<<location[l], l>>}
        /\ ready' = ready \ {l}
        /\ UNCHANGED <<location, weakly_referenced>>
    BY <1>0, <1>3 DEF Store, haveNew, haveOld
  <2>2. TypeOK'
    BY <1>0, <1>2, <2>1, ReturnStep DEF Store, WeakInv, TypeOK
  <2>3. RegisteredExactly'
    BY <1>0, <1>3, <2>1 DEF WeakInv, RegisteredExactly
  <2>4. NoDanglingWeak' /\ BitInv'
    BY <2>1 DEF Store, WeakInv, NoDanglingWeak, BitInv
  <2>5. CallInv'
    BY <1>0, <1>3, <2>1, ReturnCallInv
  <2>6. LifeInv'
    BY <1>0, ReturnStep DEF Store, WeakInv, LifeInv, Usable, NoCall
  <2> QED BY <2>2, <2>3, <2>4, <2>5, <2>6 DEF WeakInv
<1>4. CASE call[t].op \in {"init", "store"}
  <2>1. /\ ready' = ready \cup {l}
        /\ location' = [location EXCEPT ![l] = new]
        /\ weakly_referenced' = weakly_referenced \cup ({new} \ {Nil})
    BY <1>0, <1>4 DEF Store, haveNew, setWeaklyReferenced_nolock
  <2>2. weak' = (IF call[t].op = "init" THEN weak
                 ELSE weak \ {<<location[l], l>>})
                \cup ({new} \ {Nil}) \X {l}
    BY <1>0, <1>4 DEF Store, haveNew, haveOld
  <2>3. /\ location'[l] = new
        /\ \A m \in Locations : m # l => location'[m] = location[m]
    BY <1>0, <2>1 DEF WeakInv, TypeOK
  <2> HIDE DEF new
  <2>4. TypeOK'
    <3>1. weak' \subseteq Objects \X Locations
      BY <1>0, <1>1, <2>2 DEF WeakInv, TypeOK, Pointers
    <3>2. location' \in [Locations -> Pointers] /\ ready' \subseteq Locations
          /\ weakly_referenced' \subseteq Objects
      BY <1>0, <1>1, <2>1 DEF WeakInv, TypeOK, Pointers
    <3> QED BY <1>0, <1>2, <3>1, <3>2, ReturnStep DEF Store, WeakInv, TypeOK
  <2>5. RegisteredExactly'
    <3> SUFFICES ASSUME NEW o \in Objects, NEW m \in Locations
                 PROVE  <<o, m>> \in weak'
                          <=> m \in ready' /\ location'[m] = o
      BY DEF RegisteredExactly
    <3>1. <<o, m>> \in weak <=> m \in ready /\ location[m] = o
      BY DEF WeakInv, RegisteredExactly
    <3>2. CASE m # l
      BY <2>1, <2>2, <2>3, <3>1, <3>2
    <3>3. CASE m = l
      <4>1. o # Nil
        BY WeakAssumption
      <4> QED BY <1>0, <2>1, <2>2, <2>3, <3>1, <3>3, <4>1
    <3> QED BY <3>2, <3>3
  <2>6. NoDanglingWeak' /\ BitInv'
    <3>1. life' = life
      BY DEF Store
    <3> QED BY <1>0, <1>1, <2>1, <2>3, <3>1
            DEF WeakInv, TypeOK, NoDanglingWeak, BitInv
  <2>7. CallInv'
    BY <1>0, <1>4, <2>1, ReturnCallInv
  <2>8. LifeInv'
    BY <1>0, ReturnStep DEF Store, WeakInv, LifeInv, Usable, NoCall
  <2> QED BY <2>4, <2>5, <2>6, <2>7, <2>8 DEF WeakInv
<1> QED BY <1>0, <1>3, <1>4

LEMMA TryRetainStep ==
  ASSUME WeakInv, NEW t \in Threads, TryRetain(t)
  PROVE  WeakInv'
<1> DEFINE o == call[t].obj
<1> USE DEF objects, flags
<1>0. /\ pc[t] = "locked" /\ call[t].op = "load" /\ Return(t)
      /\ o \in Objects
  BY InCall DEF TryRetain, WeakInv, CallInv, Pointers
<1>1. /\ life' = life /\ by' = by
      /\ owners' = IF life[o] = "live" THEN [owners EXCEPT ![o] = @ \cup {t}]
                   ELSE owners
      /\ UNCHANGED <<location, ready, weak, weakly_referenced>>
  BY DEF TryRetain
<1>2. /\ owners' \in [Objects -> SUBSET Threads]
      /\ \A q \in Objects :
           /\ owners[q] \subseteq owners'[q]
           /\ owners'[q] # {} => life[q] = "live"
  BY <1>0, <1>1 DEF WeakInv, TypeOK, LifeInv
<1>3. TypeOK'
  <2>1. lock' \in [Tables -> Threads \cup {Nil}]
    BY DEF TryRetain, WeakInv, TypeOK, Unlocked
  <2> QED BY <1>0, <1>2, <2>1, ReturnStep DEF TryRetain, WeakInv, TypeOK
<1>4. RegisteredExactly' /\ NoDanglingWeak' /\ BitInv'
  BY <1>1 DEF WeakInv, RegisteredExactly, NoDanglingWeak, BitInv
<1>5. CallInv'
  BY <1>0, <1>1, ReturnCallInv
<1>6. LifeInv'
  <2> SUFFICES ASSUME NEW u \in Threads
               PROVE  LifeInv!2!(u)'
    BY <1>1, <1>2 DEF LifeInv
  <2>1. CASE u = t
    BY <1>0, <2>1, ReturnStep DEF NoCall
  <2>2. CASE u # t
    <3>1. call[u].new \in Pointers
      BY DEF WeakInv, TypeOK, CallRecords
    <3> QED BY <1>0, <1>1, <1>2, <2>2, <3>1, ReturnStep
            DEF WeakInv, LifeInv, Usable, Pointers
  <2> QED BY <2>1, <2>2
<1> QED BY <1>3, <1>4, <1>5, <1>6 DEF WeakInv

LEMMA ReleaseStep ==
  ASSUME WeakInv, NEW t \in Threads, NEW o \in Objects, release(t, o)
  PROVE  WeakInv'
<1> USE DEF release, flags
<1>0. /\ pc[t] = "idle" /\ t \in owners[o] /\ life[o] = "live"
      /\ call[t].new = Nil
  BY DEF WeakInv, CallInv, LifeInv
<1>1. /\ owners'[o] = owners[o] \ {t}
      /\ owners'[o] # {} => life' = life /\ by' = by
      /\ owners'[o] = {} => life'[o] = "deallocating"
      /\ \A q \in Objects : q # o => /\ owners'[q] = owners[q]
                                     /\ life'[q] = life[q] /\ by'[q] = by[q]
      /\ \A q \in Objects : life[q] # "freed" => life'[q] # "freed"
  BY DEF WeakInv, TypeOK
<1>2. TypeOK'
  BY DEF WeakInv, TypeOK
<1>3. RegisteredExactly' /\ BitInv' /\ CallInv'
  BY DEF WeakInv, RegisteredExactly, BitInv, CallInv
<1>4. NoDanglingWeak'
  BY <1>1 DEF WeakInv, NoDanglingWeak, TypeOK, Pointers
<1>5. LifeInv'
  <2>1. \A q \in Objects : owners'[q] # {} => life'[q] = "live"
    BY <1>0, <1>1 DEF WeakInv, LifeInv
  <2> SUFFICES ASSUME NEW u \in Threads
               PROVE  LifeInv!2!(u)'
    BY <2>1 DEF LifeInv
  <2>2. call[u].new \in Pointers
    BY DEF WeakInv, TypeOK, CallRecords
  <2>3. call[u].new # Nil => Usable(u, call[u].new)'
    BY <1>0, <1>1, <2>2 DEF WeakInv, LifeInv, Usable, Pointers
  <2>4. pc[u] = "clear" => call[u].obj \in Objects /\ call[u].obj # o
    BY <1>0 DEF WeakInv, LifeInv
  <2> QED BY <1>1, <2>3, <2>4 DEF WeakInv, LifeInv
<1> QED BY <1>2, <1>3, <1>4, <1>5 DEF WeakInv

LEMMA AllocStep ==
  ASSUME WeakInv, NEW t \in Threads, NEW o \in Objects, Alloc(t, o)
  PROVE  WeakInv'
<1> USE DEF Alloc
<1>0. /\ life[o] = "freed" /\ owners[o] = {}
      /\ life'[o] = "live" /\ owners'[o] = {t}
      /\ \A q \in Objects : q # o => /\ owners'[q] = owners[q]
                                     /\ life'[q] = life[q]
  BY DEF WeakInv, TypeOK, LifeInv
<1>1. TypeOK'
  BY DEF WeakInv, TypeOK
<1>2. RegisteredExactly' /\ CallInv'
  BY DEF WeakInv, RegisteredExactly, CallInv
<1>3. NoDanglingWeak' /\ BitInv'
  <2>1. \A l \in ready : location[l] # Nil =>
          location[l] \in Objects /\ location[l] # o
    BY <1>0 DEF WeakInv, TypeOK, NoDanglingWeak, Pointers
  <2> QED BY <1>0, <2>1 DEF WeakInv, NoDanglingWeak, BitInv
<1>4. LifeInv'
  <2> SUFFICES ASSUME NEW u \in Threads
               PROVE  LifeInv!2!(u)'
    BY <1>0 DEF WeakInv, LifeInv
  <2>1. call[u].new \in Pointers /\ call[u].new # o
    BY <1>0, WeakAssumption
       DEF WeakInv, TypeOK, CallRecords, LifeInv, Usable
  <2>2. pc[u] = "clear" => call[u].obj \in Objects /\ call[u].obj # o
    BY <1>0 DEF WeakInv, LifeInv
  <2> QED BY <1>0, <2>1, <2>2 DEF WeakInv, LifeInv, Usable, Pointers
<1> QED BY <1>1, <1>2, <1>3, <1>4 DEF WeakInv

\* An object that goes: nobody is about to store it.
LEMMA LastUse ==
  ASSUME WeakInv, NEW t \in Threads, pc[t] \in {"idle", "clear"},
         NEW o \in Objects, life[o] = "deallocating", by[o] = t,
         NEW u \in Threads
  PROVE  /\ call[u].new # o
         /\ u # t /\ pc[u] = "clear" => call[u].obj # o
<1>1. owners[o] = {} /\ o # Nil
  BY WeakAssumption DEF WeakInv, LifeInv
<1>2. call[t].new = Nil
  BY DEF WeakInv, CallInv
<1> QED BY <1>1, <1>2 DEF WeakInv, LifeInv, Usable

LEMMA RootDeallocStep ==
  ASSUME WeakInv, NEW t \in Threads, NEW o \in Objects, rootDealloc(t, o)
  PROVE  WeakInv'
<1> USE DEF rootDealloc, Goto, flags
<1>1. CASE o \in weakly_referenced
  <2> DEFINE c == [NoCall EXCEPT !.op = "dealloc", !.obj = o]
  <2>1. /\ c \in CallRecords
        /\ c.op = "dealloc" /\ c.loc = Nil /\ c.new = Nil /\ c.obj = o
    BY DEF CallRecords, NoCall, Pointers
  <2>2. call' = [call EXCEPT ![t] = c] /\ pc' = [pc EXCEPT ![t] = "clear"]
    BY <1>1
  <2> HIDE DEF c
  <2>3. /\ call'[t] = c /\ pc'[t] = "clear" /\ life' = life
        /\ \A u \in Threads \ {t} : pc'[u] = pc[u] /\ call'[u] = call[u]
    BY <1>1, <2>2 DEF WeakInv, TypeOK
  <2>4. TypeOK'
    BY <1>1, <2>1, <2>2 DEF WeakInv, TypeOK
  <2>5. RegisteredExactly' /\ NoDanglingWeak' /\ BitInv'
    BY <2>3 DEF WeakInv, RegisteredExactly, NoDanglingWeak, BitInv
  <2>6. CallInv'
    BY <2>1, <2>3, WeakAssumption DEF WeakInv, CallInv
  <2>7. LifeInv'
    BY <2>1, <2>3 DEF WeakInv, LifeInv, Usable
  <2> QED BY <2>4, <2>5, <2>6, <2>7 DEF WeakInv
<1>2. CASE o \notin weakly_referenced
  <2>1. /\ life' = [life EXCEPT ![o] = "freed"]
        /\ UNCHANGED <<pc, call>>
    BY <1>2 DEF Free
  <2>2. /\ life'[o] = "freed" /\ owners[o] = {}
        /\ \A q \in Objects : q # o => life'[q] = life[q]
    BY <2>1 DEF WeakInv, TypeOK, LifeInv
  <2>3. TypeOK'
    BY <2>1 DEF WeakInv, TypeOK
  <2>4. RegisteredExactly' /\ BitInv' /\ CallInv'
    BY <2>1 DEF WeakInv, RegisteredExactly, BitInv, CallInv
  <2>5. NoDanglingWeak'
    BY <1>2, <2>2 DEF WeakInv, TypeOK, NoDanglingWeak, BitInv, Pointers
  <2>6. LifeInv'
    <3> SUFFICES ASSUME NEW u \in Threads
                 PROVE  LifeInv!2!(u)'
      BY <2>2 DEF WeakInv, LifeInv
    <3>1. call[u].new \in Pointers /\ call[u].new # o
          /\ (pc[u] = "clear" => call[u].obj \in Objects /\ call[u].obj # o)
      BY LastUse DEF WeakInv, TypeOK, CallRecords, LifeInv
    <3> QED BY <2>1, <2>2, <3>1 DEF WeakInv, LifeInv, Usable, Pointers
  <2> QED BY <2>3, <2>4, <2>5, <2>6 DEF WeakInv
<1> QED BY <1>1, <1>2

LEMMA ClearDeallocatingStep ==
  ASSUME WeakInv, NEW t \in Threads, ClearDeallocating(t)
  PROVE  WeakInv'
<1> DEFINE o == call[t].obj
<1> USE DEF ClearDeallocating, flags
<1>0. /\ pc[t] = "clear" /\ Return(t)
      /\ o \in Objects /\ life[o] = "deallocating" /\ by[o] = t
      /\ owners[o] = {} /\ o # Nil
  BY WeakAssumption DEF WeakInv, LifeInv
<1>1. /\ life'[o] = "freed"
      /\ \A q \in Objects : q # o => life'[q] = life[q]
      /\ life' \in [Objects -> {"live", "deallocating", "freed"}]
  BY <1>0 DEF Free, WeakInv, TypeOK
<1>2. \A l \in ready : location'[l] = IF location[l] = o THEN Nil
                                      ELSE location[l]
  BY <1>0 DEF WeakInv, TypeOK, RegisteredExactly
<1>3. TypeOK'
  <2>1. location' \in [Locations -> Pointers]
        /\ weak' \subseteq Objects \X Locations
    BY DEF WeakInv, TypeOK, Pointers
  <2> QED BY <1>0, <1>1, <2>1, ReturnStep DEF WeakInv, TypeOK
<1>4. RegisteredExactly'
  <2> SUFFICES ASSUME NEW q \in Objects, NEW m \in Locations
               PROVE  <<q, m>> \in weak' <=> m \in ready /\ location'[m] = q
    BY DEF RegisteredExactly
  <2>1. <<q, m>> \in weak <=> m \in ready /\ location[m] = q
    BY DEF WeakInv, RegisteredExactly
  <2>2. q # Nil
    BY WeakAssumption
  <2> QED BY <1>2, <2>1, <2>2
<1>5. NoDanglingWeak' /\ BitInv'
  <2>1. \A l \in ready : location[l] \in Pointers
    BY DEF WeakInv, TypeOK
  <2> QED BY <1>1, <1>2, <2>1 DEF WeakInv, NoDanglingWeak, BitInv, Pointers
<1>6. CallInv'
  BY <1>0, ReturnCallInv
<1>7. LifeInv'
  <2>1. owners' = owners /\ by' = by
    OBVIOUS
  <2> SUFFICES ASSUME NEW u \in Threads
               PROVE  LifeInv!2!(u)'
    BY <1>0, <1>1, <2>1 DEF WeakInv, LifeInv
  <2>2. CASE u = t
    BY <1>0, <2>2, ReturnStep DEF NoCall
  <2>3. CASE u # t
    <3>1. call[u].new \in Pointers /\ call[u].new # o
          /\ (pc[u] = "clear" => call[u].obj \in Objects /\ call[u].obj # o)
      BY <1>0, <2>3, LastUse DEF WeakInv, TypeOK, CallRecords, LifeInv
    <3>2. pc'[u] = pc[u] /\ call'[u] = call[u]
      BY <1>0, <2>3, ReturnStep
    <3> QED BY <1>1, <2>1, <3>1, <3>2 DEF WeakInv, LifeInv, Usable, Pointers
  <2> QED BY <2>2, <2>3
<1> QED BY <1>3, <1>4, <1>5, <1>6, <1>7 DEF WeakInv

-----------------------------------------------------------------------------
(* The invariant *)

LEMMA NextInv == WeakInv /\ [Next]_vars => WeakInv'
<1> SUFFICES ASSUME WeakInv, [Next]_vars PROVE WeakInv'
  OBVIOUS
<1>1. ASSUME NEW t \in Threads, Step(t) PROVE WeakInv'
  BY <1>1, ReadLocationStep, LockStep, InitializeStep, StoreStep,
     TryRetainStep, ClearDeallocatingStep, RootDeallocStep DEF Step
<1>2. ASSUME NEW t \in Threads, Call(t) PROVE WeakInv'
  BY <1>2, CallStarts, InitWithNilStep, ReleaseStep, AllocStep DEF Call
<1>3. ASSUME UNCHANGED vars PROVE WeakInv'
  <2>1. TypeOK' /\ RegisteredExactly' /\ NoDanglingWeak' /\ BitInv'
    BY <1>3 DEF vars, objects, flags, WeakInv, TypeOK, RegisteredExactly,
                NoDanglingWeak, BitInv
  <2>2. CallInv' /\ LifeInv'
    BY <1>3 DEF vars, objects, WeakInv, CallInv, LifeInv, Usable
  <2> QED BY <2>1, <2>2 DEF WeakInv
<1> QED BY <1>1, <1>2, <1>3 DEF Next

\* The weak tables and the variables agree and no variable holds a freed
\* object, for any number of threads, however stores, loads, destructions and
\* deallocations overlap, addresses are used again and classes initialized.
THEOREM WeakIsSound == Spec => []WeakInv
<1>1. Init => WeakInv
  BY InitInv
<1>2. WeakInv /\ [Next]_vars => WeakInv'
  BY NextInv
<1> QED BY <1>1, <1>2, PTL DEF Spec

\* A load of a weak variable goes on only with an object that is not freed:
\* the second look under the lock is enough.
THEOREM LoadsAreSafe == Spec => LoadsTouchNoFreedObject
<1> DEFINE Safe(t) ==
      /\ pc[t] = "locked" /\ call[t].op = "load"
      /\ pc'[t] \in {"idle", "initialize"}
      => life[call[t].obj] # "freed"
<1>1. WeakInv /\ [Next]_vars => [\A t \in Threads : Safe(t)]_vars
  <2> SUFFICES ASSUME WeakInv, Next, NEW t \in Threads,
                      pc[t] = "locked", call[t].op = "load",
                      pc'[t] \in {"idle", "initialize"}
               PROVE  life[call[t].obj] # "freed"
    OBVIOUS
  <2>1. location[call[t].loc] = call[t].obj
    <3> SUFFICES ASSUME Changed(t) PROVE FALSE
      BY DEF Changed, haveOld
    <3>1. PICK u \in Threads : Call(u) \/ Step(u)
      BY DEF Next
    <3> QED BY <3>1 DEF Call, Step, ReadLocation, LockNext, Retry,
              MustInitialize, Initialize, Store, TryRetain, Return, Goto,
              ClearDeallocating, rootDealloc, objc_initWeak, objc_storeWeak,
              InitWithNil, objc_destroyWeak, objc_loadWeakRetained, release,
              Alloc, Begin, WeakInv, TypeOK
  <2>2. call[t].loc \in ready /\ call[t].obj # Nil
    BY DEF WeakInv, CallInv
  <2> QED BY <2>1, <2>2 DEF WeakInv, NoDanglingWeak
<1> QED BY <1>1, WeakIsSound, PTL DEF Spec, LoadsTouchNoFreedObject

-----------------------------------------------------------------------------
(* The refinement *)

LEMMA InitImplements == Init => Promised!Init
  BY WeakAssumption
     DEF Init, Promised!Init, Visible, Deallocating, Pointers

LEMMA StutterStep ==
  ASSUME UNCHANGED <<location, ready, life>>
  PROVE  UNCHANGED Promised!vars
BY DEF Promised!vars, Visible, Deallocating

LEMMA StoreImplements ==
  ASSUME WeakInv, NEW t \in Threads, Store(t)
  PROVE  Promised!Next
<1> DEFINE l == call[t].loc
<1>0. /\ l \in Locations /\ call[t].new \in Pointers
      /\ call[t].op \in {"init", "store", "destroy"}
      /\ life' = life /\ Nil \notin Objects
  BY InCall, WeakAssumption DEF Store, objects
<1>1. CASE call[t].op = "destroy"
  <2>1. ready' = ready \ {l} /\ location' = location
    BY <1>1 DEF Store, haveNew
  <2>2. Promised!StoreWeak(l, Nil)
    BY <1>0, <2>1 DEF Promised!StoreWeak, Visible, Deallocating
  <2> QED BY <1>0, <2>2 DEF Promised!Next
<1>2. CASE call[t].op \in {"init", "store"}
  <2>1. /\ ready' = ready \cup {l}
        /\ location' = [location EXCEPT ![l] = Registered(t)]
    BY <1>2 DEF Store, haveNew
  <2>2. Registered(t) = IF call[t].new \in Deallocating THEN Nil
                        ELSE call[t].new
    <3>1. call[t].new # Nil => life[call[t].new] \in {"live", "deallocating"}
      BY <1>0 DEF WeakInv, LifeInv, Usable, Pointers
    <3> QED BY <1>0, <3>1 DEF Registered, Deallocating, Pointers
  <2>3. Promised!StoreWeak(l, call[t].new)
    <3>1. Visible' = [Visible EXCEPT ![l] = Registered(t)]
      BY <1>0, <2>1 DEF Visible, WeakInv, TypeOK
    <3>2. Deallocating' = Deallocating
      BY <1>0 DEF Deallocating
    <3> QED BY <2>2, <3>1, <3>2 DEF Promised!StoreWeak
  <2> QED BY <1>0, <2>3 DEF Promised!Next, Pointers
<1> QED BY <1>0, <1>1, <1>2

LEMMA ReleaseImplements ==
  ASSUME WeakInv, NEW t \in Threads, NEW o \in Objects, release(t, o)
  PROVE  Promised!Next \/ UNCHANGED Promised!vars
<1>1. CASE owners'[o] = {}
  <2>1. Deallocating' = Deallocating \cup {o} /\ Visible' = Visible
    BY <1>1 DEF release, Deallocating, Visible, WeakInv, TypeOK
  <2> QED BY <2>1 DEF Promised!Next, Promised!BeginDealloc
<1>2. CASE owners'[o] # {}
  BY <1>2, StutterStep DEF release
<1> QED BY <1>1, <1>2

LEMMA AllocImplements ==
  ASSUME WeakInv, NEW t \in Threads, NEW o \in Objects, Alloc(t, o)
  PROVE  UNCHANGED Promised!vars
<1>1. Deallocating' = Deallocating
  BY DEF Alloc, Deallocating, WeakInv, TypeOK
<1>2. Visible' = Visible
  BY DEF Alloc, Visible
<1> QED BY <1>1, <1>2 DEF Promised!vars

LEMMA RootDeallocImplements ==
  ASSUME WeakInv, NEW t \in Threads, NEW o \in Objects, rootDealloc(t, o)
  PROVE  Promised!Next \/ UNCHANGED Promised!vars
<1>1. CASE o \in weakly_referenced
  BY <1>1, StutterStep DEF rootDealloc
<1>2. CASE o \notin weakly_referenced
  <2>1. o \in Deallocating /\ Deallocating' = Deallocating \ {o}
    BY <1>2 DEF rootDealloc, Free, Deallocating, WeakInv, TypeOK
  <2>2. \A l \in Locations : Visible[l] # o
    BY <1>2, WeakAssumption DEF Visible, WeakInv, BitInv
  <2>3. Visible' = [l \in Locations |-> IF Visible[l] = o THEN Nil
                                        ELSE Visible[l]]
    BY <1>2, <2>2 DEF rootDealloc, Visible
  <2> QED BY <2>1, <2>3 DEF Promised!Next, Promised!ClearWeak
<1> QED BY <1>1, <1>2

LEMMA ClearImplements ==
  ASSUME WeakInv, NEW t \in Threads, ClearDeallocating(t)
  PROVE  Promised!Next
<1> DEFINE o == call[t].obj
<1>1. o \in Objects /\ life[o] = "deallocating" /\ o # Nil
  BY WeakAssumption DEF ClearDeallocating, WeakInv, LifeInv
<1>2. o \in Deallocating /\ Deallocating' = Deallocating \ {o}
  BY <1>1 DEF ClearDeallocating, Free, Deallocating, WeakInv, TypeOK
<1>3. \A l \in ready : location'[l] = IF location[l] = o THEN Nil
                                      ELSE location[l]
  BY <1>1 DEF ClearDeallocating, WeakInv, TypeOK, RegisteredExactly
<1>4. Visible' = [l \in Locations |-> IF Visible[l] = o THEN Nil
                                      ELSE Visible[l]]
  BY <1>1, <1>3 DEF ClearDeallocating, Visible
<1> QED BY <1>1, <1>2, <1>4 DEF Promised!Next, Promised!ClearWeak

LEMMA NextImplements ==
  WeakInv /\ [Next]_vars => [Promised!Next]_Promised!vars
<1> SUFFICES ASSUME WeakInv, [Next]_vars
             PROVE  Promised!Next \/ UNCHANGED Promised!vars
  OBVIOUS
<1>1. ASSUME NEW t \in Threads, Step(t)
      PROVE  Promised!Next \/ UNCHANGED Promised!vars
  <2>1. CASE ReadLocation(t) \/ LockNext(t) \/ Retry(t)
             \/ MustInitialize(t) \/ Initialize(t) \/ TryRetain(t)
    BY <2>1, StutterStep
       DEF ReadLocation, LockNext, Retry, MustInitialize, Initialize,
           TryRetain, objects
  <2>2. CASE ClearDeallocating(t)
    BY <2>2, ClearImplements
  <2>3. ASSUME NEW o \in Objects, rootDealloc(t, o)
        PROVE  Promised!Next \/ UNCHANGED Promised!vars
    BY <2>3, RootDeallocImplements
  <2>4. CASE Store(t)
    BY <2>4, StoreImplements
  <2> QED BY <1>1, <2>1, <2>2, <2>3, <2>4 DEF Step
<1>2. ASSUME NEW t \in Threads, Call(t)
      PROVE  Promised!Next \/ UNCHANGED Promised!vars
  <2>1. ASSUME NEW l \in Locations, InitWithNil(t, l)
        PROVE  UNCHANGED Promised!vars
    BY <2>1 DEF InitWithNil, objects, Promised!vars, Visible, Deallocating,
                WeakInv, TypeOK
  <2>2. ASSUME NEW label, NEW c, Begin(t, label, c)
        PROVE  UNCHANGED Promised!vars
    BY <2>2, StutterStep DEF Begin, objects
  <2> QED BY <1>2, <2>1, <2>2, ReleaseImplements, AllocImplements
          DEF Call, objc_initWeak, objc_storeWeak, objc_destroyWeak,
              objc_loadWeakRetained
<1>3. ASSUME UNCHANGED vars PROVE UNCHANGED Promised!vars
  BY <1>3, StutterStep DEF vars, objects
<1> QED BY <1>1, <1>2, <1>3 DEF Next

\* What a program is promised of its __weak variables is kept: a store and a
\* deallocation take effect in one instant, for any number of threads.
THEOREM KeepsPromise == Spec => ImplementsWeakVariables
<1>1. Init => Promised!Init
  BY InitImplements
<1>2. WeakInv /\ [Next]_vars => [Promised!Next]_Promised!vars
  BY NextImplements
<1> QED BY <1>1, <1>2, WeakIsSound, PTL
        DEF Spec, ImplementsWeakVariables, Promised!Spec

-----------------------------------------------------------------------------
(***************************************************************************)
(* The table of a SideTable, which WeakTable models apart from the calls   *)
(***************************************************************************)
CONSTANTS
  ObjectHashes, LocationHashes, WEAK_INLINE_COUNT, FirstSize, ShrinkSize,
  ShrinkLoad, ShrinkBy
VARIABLES hash, table, deallocating

Table == INSTANCE WeakTable

-----------------------------------------------------------------------------
(* Numbers *)

LEMMA SetInduction ==
  ASSUME NEW S, 0 \in S, \A n \in Nat : n \in S => n + 1 \in S
  PROVE  Nat \subseteq S
<1> SUFFICES ASSUME NEW x \in Nat, x \notin S PROVE FALSE
  OBVIOUS
<1> DEFINE T == {n \in Nat : n \notin S}
<1>1. T \subseteq Nat /\ T # {}
  OBVIOUS
<1> HIDE DEF T
<1>2. PICK m \in T : \A k \in T : ~ (<<k, m>> \in OpToRel(<, Nat))
  BY <1>1, NatLessThanWellFounded, WFMin
<1>3. m \in Nat /\ m \notin S
  BY <1>2 DEF T
<1>4. m - 1 \in Nat /\ (m - 1) + 1 = m
  BY <1>3
<1>5. m - 1 < m
  BY <1>3
<1>6. m - 1 \notin T
  BY <1>2, <1>3, <1>4, <1>5 DEF OpToRel
<1>7. m - 1 \in S
  BY <1>4, <1>6 DEF T
<1> QED BY <1>3, <1>4, <1>7

LEMMA LeastIs ==
  ASSUME NEW S \in SUBSET Nat, S # {}
  PROVE  /\ Table!Least(S) \in S /\ Table!Least(S) \in Nat
         /\ \A k \in S : Table!Least(S) <= k
<1>1. PICK m \in S : \A k \in S : ~ (<<k, m>> \in OpToRel(<, Nat))
  BY NatLessThanWellFounded, WFMin
<1>2. ASSUME NEW k \in S PROVE m <= k
  <2>1. k \in Nat /\ m \in Nat
    OBVIOUS
  <2>2. ~ (k < m)
    BY <1>1, <2>1 DEF OpToRel
  <2> QED BY <2>1, <2>2
<1> QED BY <1>2 DEF Table!Least

\* Going on from s reaches every index, and no index twice in less than n steps.
LEMMA Reached ==
  ASSUME NEW n \in Nat \ {0}, NEW s \in Nat, NEW u \in 0..(n - 1)
  PROVE  \E k \in 0..(n - 1) : (s + k) % n = u
<1> DEFINE r == s % n
           q == s \div n
           k == IF u >= r THEN u - r ELSE u - r + n
<1>1. r \in 0..(n - 1) /\ q \in Int /\ s = n * q + r
  OBVIOUS
<1>2. \A x \in Int : (n * x + u) % n = u
  OBVIOUS
<1>3. k \in 0..(n - 1)
  BY <1>1
<1>4. s + k = n * q + u \/ s + k = n * (q + 1) + u
  BY <1>1
<1> HIDE DEF r, q, k
<1>5. (s + k) % n = u
  BY <1>1, <1>2, <1>4
<1> QED BY <1>3, <1>5

LEMMA ReachedOnce ==
  ASSUME NEW n \in Nat \ {0}, NEW s \in Nat, NEW j \in 0..(n - 1),
         NEW k \in 0..(n - 1), (s + j) % n = (s + k) % n
  PROVE  j = k
<1> DEFINE a == (s + j) \div n
           b == (s + k) \div n
           r == (s + j) % n
<1>1. a \in Int /\ b \in Int /\ r \in Int /\ s + j = n * a + r
      /\ s + k = n * b + r
  OBVIOUS
<1> HIDE DEF a, b, r
<1>2. j - k = n * (a - b)
  BY <1>1
<1>3. a - b >= 1 => n * (a - b) >= n
  BY <1>1
<1>4. a - b <= -1 => n * (a - b) <= -n
  BY <1>1
<1>5. a - b = 0
  BY <1>1, <1>2, <1>3, <1>4
<1> QED BY <1>1, <1>2, <1>5

LEMMA InRange ==
  ASSUME NEW n \in Nat, n > 0, NEW s \in Nat
  PROVE  s % n \in 0..(n - 1)
<1> QED OBVIOUS

Powers(f, n) == \A i \in 0..n : f[i] = IF i = 0 THEN 1 ELSE 2 * f[i - 1]

LEMMA PowersExist ==
  ASSUME NEW n \in Nat
  PROVE  \E f : Powers(f, n)
<1> DEFINE S == {m \in Nat : \E f : Powers(f, m)}
<1>1. 0 \in S
  <2> DEFINE f == [i \in {0} |-> 1]
  <2>1. Powers(f, 0)
    BY DEF Powers
  <2> QED BY <2>1
<1>2. ASSUME NEW m \in Nat, m \in S PROVE m + 1 \in S
  <2>1. PICK g : Powers(g, m)
    BY <1>2
  <2> DEFINE f == [i \in 0..(m + 1) |-> IF i = m + 1 THEN 2 * g[m] ELSE g[i]]
  <2>2. \A i \in 0..(m + 1) : f[i] = IF i = m + 1 THEN 2 * g[m] ELSE g[i]
    OBVIOUS
  <2> HIDE DEF f
  <2>3. ASSUME NEW i \in 0..(m + 1)
        PROVE  f[i] = IF i = 0 THEN 1 ELSE 2 * f[i - 1]
    <3>1. CASE i = m + 1
      <4>1. i - 1 = m /\ i # 0 /\ m \in 0..(m + 1) /\ m # m + 1
        BY <3>1
      <4> QED BY <2>2, <3>1, <4>1
    <3>2. CASE i # m + 1
      <4>1. i \in 0..m /\ f[i] = g[i]
        BY <2>2, <3>2
      <4>2. i # 0 => i - 1 \in 0..(m + 1) /\ i - 1 # m + 1
        BY <3>2
      <4>3. i # 0 => f[i - 1] = g[i - 1]
        BY <2>2, <4>2
      <4> QED BY <2>1, <4>1, <4>3 DEF Powers
    <3> QED BY <3>1, <3>2
  <2>4. Powers(f, m + 1)
    BY <2>3 DEF Powers
  <2> QED BY <2>4
<1> HIDE DEF S
<1>3. n \in S
  BY <1>1, <1>2, SetInduction
<1> QED BY <1>3 DEF S

LEMMA PowersUnique ==
  ASSUME NEW n \in Nat, NEW m \in Nat, n <= m, NEW f, NEW g,
         Powers(f, n), Powers(g, m)
  PROVE  f[n] = g[n]
<1> DEFINE S == {j \in Nat : j <= n => f[j] = g[j]}
<1>1. 0 \in S
  BY DEF Powers
<1>2. ASSUME NEW j \in Nat, j \in S PROVE j + 1 \in S
  <2> SUFFICES ASSUME j + 1 <= n PROVE f[j + 1] = g[j + 1]
    OBVIOUS
  <2>1. PICK i : i = j + 1
    OBVIOUS
  <2>2. i \in 0..n /\ i \in 0..m /\ i # 0 /\ i - 1 = j /\ f[j] = g[j]
    BY <1>2, <2>1
  <2> HIDE DEF S
  <2>3. f[i] = 2 * f[i - 1] /\ g[i] = 2 * g[i - 1]
    BY <2>2 DEF Powers
  <2> QED BY <2>1, <2>2, <2>3
<1> HIDE DEF S
<1>3. n \in S
  BY <1>1, <1>2, SetInduction
<1> QED BY <1>3 DEF S

LEMMA PowerIs ==
  \A n \in Nat : Table!Power[n] = IF n = 0 THEN 1 ELSE 2 * Table!Power[n - 1]
<1> DEFINE D(f) == f = [n \in Nat |-> IF n = 0 THEN 1 ELSE 2 * f[n - 1]]
<1> DEFINE g == [n \in Nat |-> (CHOOSE f : Powers(f, n))[n]]
<1>1. ASSUME NEW n \in Nat
      PROVE  g[n] = IF n = 0 THEN 1 ELSE 2 * g[n - 1]
  <2>1. PICK f : f = CHOOSE h : Powers(h, n)
    OBVIOUS
  <2>2. Powers(f, n) /\ g[n] = f[n]
    BY <2>1, PowersExist
  <2>3. CASE n = 0
    BY <2>2, <2>3 DEF Powers
  <2>4. CASE n # 0
    <3>1. PICK m \in Nat : m = n - 1 /\ m <= n
      BY <2>4
    <3>2. PICK h : h = CHOOSE e : Powers(e, m)
      OBVIOUS
    <3>3. Powers(h, m) /\ g[m] = h[m]
      BY <3>1, <3>2, PowersExist
    <3>4. h[m] = f[m]
      BY <2>2, <3>1, <3>3, PowersUnique
    <3>5. f[n] = 2 * f[m]
      BY <2>2, <2>4, <3>1 DEF Powers
    <3> QED BY <2>2, <2>4, <3>1, <3>3, <3>4, <3>5
  <2> QED BY <2>3, <2>4
<1> HIDE DEF g
<1>2. \E f : D(f)
  <2> DEFINE f == [n \in Nat |-> g[n]]
  <2>1. ASSUME NEW n \in Nat
        PROVE  f[n] = IF n = 0 THEN 1 ELSE 2 * f[n - 1]
    <3>1. n # 0 => n - 1 \in Nat
      OBVIOUS
    <3> QED BY <1>1, <3>1
  <2>2. f = [n \in Nat |-> f[n]]
    OBVIOUS
  <2> HIDE DEF f
  <2>3. D(f)
    BY <2>1, <2>2
  <2> QED BY <2>3
<1>3. D(Table!Power)
  <2> HIDE DEF D
  <2>1. Table!Power = CHOOSE f : D(f)
    BY DEF Table!Power, D
  <2> QED BY <1>2, <2>1
<1> QED BY <1>3

LEMMA PowerGrows ==
  \A n \in Nat : Table!Power[n] \in Nat /\ n < Table!Power[n]
<1> DEFINE P == Table!Power
           S == {n \in Nat : P[n] \in Nat /\ n < P[n]}
<1>0. \A n \in Nat : P[n] = IF n = 0 THEN 1 ELSE 2 * P[n - 1]
  BY PowerIs
<1> HIDE DEF P
<1>1. 0 \in S
  BY <1>0
<1>2. ASSUME NEW n \in Nat, n \in S PROVE n + 1 \in S
  <2>1. n + 1 \in Nat /\ n + 1 # 0 /\ (n + 1) - 1 = n
    OBVIOUS
  <2>2. P[n + 1] = 2 * P[n]
    BY <1>0, <2>1
  <2>3. P[n] \in Nat /\ n < P[n]
    BY <1>2
  <2>4. PICK p \in Nat : p = P[n]
    BY <2>3
  <2>5. 2 * p \in Nat /\ n + 1 < 2 * p
    BY <2>3, <2>4
  <2> QED BY <2>1, <2>2, <2>4, <2>5
<1> HIDE DEF S
<1>3. Nat \subseteq S
  BY <1>1, <1>2, SetInduction
<1> QED BY <1>3 DEF S, P

\* A product of powers of two is one.
LEMMA PowersMultiply ==
  ASSUME NEW i \in Nat, NEW j \in Nat
  PROVE  Table!Power[i + j] = Table!Power[i] * Table!Power[j]
<1> DEFINE P == Table!Power
           S == {n \in Nat : P[i + n] = P[i] * P[n]}
<1>0. \A n \in Nat : P[n] = IF n = 0 THEN 1 ELSE 2 * P[n - 1]
  BY PowerIs
<1>a. \A n \in Nat : P[n] \in Nat
  BY PowerGrows
<1> HIDE DEF P
<1>1. 0 \in S
  <2>1. P[0] = 1 /\ i + 0 = i /\ P[i] \in Nat
    BY <1>0, <1>a
  <2> QED BY <2>1
<1>2. ASSUME NEW n \in Nat, n \in S PROVE n + 1 \in S
  <2>1. PICK m \in Nat : m = n + 1 /\ m # 0 /\ m - 1 = n
    OBVIOUS
  <2>2. PICK k \in Nat : k = i + m /\ k # 0 /\ k - 1 = i + n
    BY <2>1
  <2>3. P[m] = 2 * P[n] /\ P[k] = 2 * P[i + n]
    BY <1>0, <2>1, <2>2
  <2>4. PICK a \in Nat, b \in Nat : a = P[i] /\ b = P[n]
    BY <1>a
  <2>5. P[i + n] = a * b
    BY <1>2, <2>4
  <2>6. 2 * (a * b) = a * (2 * b)
    OBVIOUS
  <2>7. P[i + m] = P[i] * P[m]
    BY <2>2, <2>3, <2>4, <2>5, <2>6
  <2> QED BY <2>1, <2>7
<1> HIDE DEF S
<1>3. j \in S
  BY <1>1, <1>2, SetInduction
<1> QED BY <1>3 DEF S, P

LEMMA IsSizeIs ==
  ASSUME NEW size
  PROVE  Table!IsSize(size) <=>
         \E n \in Nat : n > 0 /\ size = Table!Power[n]
<1>1. ASSUME NEW n \in Nat, n > 0, size = Table!Power[n]
      PROVE  n \in 1..size
  BY <1>1, PowerGrows
<1>2. ASSUME NEW n \in 1..size
      PROVE  n \in Nat /\ n > 0
  OBVIOUS
<1> QED BY <1>1, <1>2 DEF Table!IsSize

LEMMA SizeGrows ==
  ASSUME NEW size, Table!IsSize(size)
  PROVE  size \in Nat /\ size > 1 /\ Table!IsSize(size * 2)
<1>1. PICK n \in Nat : n > 0 /\ size = Table!Power[n]
  BY IsSizeIs
<1>2. size \in Nat /\ n < size
  BY <1>1, PowerGrows
<1>3. PICK m \in Nat : m = n + 1 /\ m # 0 /\ m > 0 /\ m - 1 = n
  OBVIOUS
<1>4. Table!Power[m] = 2 * size
  BY <1>1, <1>3, PowerIs
<1>5. 2 * size = size * 2
  BY <1>2
<1> QED BY <1>1, <1>2, <1>3, <1>4, <1>5, IsSizeIs

LEMMA SizeShrinks ==
  ASSUME NEW size, NEW part, Table!IsSize(size), Table!IsSize(part),
         2 * part <= size
  PROVE  Table!IsSize(size \div part)
<1>1. PICK a \in Nat : a > 0 /\ size = Table!Power[a]
  BY IsSizeIs
<1>2. PICK b \in Nat : b > 0 /\ part = Table!Power[b]
  BY IsSizeIs
<1>3. size \in Nat /\ part \in Nat /\ part > 1
  BY SizeGrows
<1>4. a > b
  <2> SUFFICES ASSUME a <= b PROVE FALSE
    OBVIOUS
  <2>1. PICK d \in Nat : b = a + d
    <3>1. b - a \in Nat /\ b = a + (b - a)
      OBVIOUS
    <3> QED BY <3>1
  <2>2. PICK p : p = Table!Power[d]
    OBVIOUS
  <2>3. p \in Nat /\ p > 0
    BY <2>2, PowerGrows
  <2>4. part = size * p
    BY <1>1, <1>2, <2>1, <2>2, PowersMultiply
  <2>5. size * p >= size
    BY <1>3, <2>3
  <2> QED BY <1>3, <2>4, <2>5
<1>5. PICK d \in Nat : d > 0 /\ a = b + d
  <2>1. a - b \in Nat /\ a - b > 0 /\ a = b + (a - b)
    BY <1>4
  <2> QED BY <2>1
<1>6. PICK p : p = Table!Power[d]
  OBVIOUS
<1>7. p \in Nat /\ size = part * p
  BY <1>1, <1>2, <1>5, <1>6, PowersMultiply, PowerGrows
<1>8. (part * p) \div part = p
  BY <1>3, <1>7
<1> QED BY <1>5, <1>6, <1>7, <1>8, IsSizeIs

-----------------------------------------------------------------------------
(* Hash sets.  key[e] is the pointer that an element is hashed part. *)

Keys == Objects \cup Locations

HashOk == hash \in [Keys -> Nat]

HashSetsOf(E) ==
  UNION {[slots : [0..(n - 1) -> E \cup {Nil}], size : {n}, num : Nat,
          max : Nat, bad : BOOLEAN] : n \in Nat}

Elements(set) == {set.slots[i] : i \in Table!Occupied(set)}

Keyed(E, key) == Nil \notin E /\ key \in [E -> Keys]

Once(set, key) ==
  \A i, j \in Table!Occupied(set) :
    key[set.slots[i]] = key[set.slots[j]] => i = j

Within(set, key) ==
  \A i \in Table!Occupied(set) :
    \E d \in 0..(set.size - 1) :
      d <= set.max /\ Table!Probe(set, key[set.slots[i]], d) = i

\* What every insertion, removal and resize keeps, whatever the hash function:
\* each element is within max of where its key hashes to, and none is twice.
Sound(set, E, key) ==
  /\ set \in HashSetsOf(E)
  /\ ~set.bad
  /\ set.num = Cardinality(Table!Occupied(set))
  /\ Within(set, key)
  /\ Once(set, key)

LEMMA HashSetFacts ==
  ASSUME NEW E, NEW set \in HashSetsOf(E)
  PROVE  /\ set = [slots |-> set.slots, size |-> set.size, num |-> set.num,
                   max |-> set.max, bad |-> set.bad]
         /\ set.size \in Nat /\ set.num \in Nat /\ set.max \in Nat
         /\ set.bad \in BOOLEAN
         /\ set.slots \in [0..(set.size - 1) -> E \cup {Nil}]
<1>1. PICK n \in Nat :
        set \in [slots : [0..(n - 1) -> E \cup {Nil}], size : {n}, num : Nat,
                 max : Nat, bad : BOOLEAN]
  BY DEF HashSetsOf
<1> QED BY <1>1

LEMMA HashSetMade ==
  ASSUME NEW E, NEW n \in Nat, NEW slots \in [0..(n - 1) -> E \cup {Nil}],
         NEW num \in Nat, NEW max \in Nat, NEW bad \in BOOLEAN
  PROVE  [slots |-> slots, size |-> n, num |-> num, max |-> max, bad |-> bad]
           \in HashSetsOf(E)
<1>1. [slots |-> slots, size |-> n, num |-> num, max |-> max, bad |-> bad]
        \in [slots : [0..(n - 1) -> E \cup {Nil}], size : {n}, num : Nat,
             max : Nat, bad : BOOLEAN]
  OBVIOUS
<1> QED BY <1>1 DEF HashSetsOf

LEMMA OccupiedIs ==
  ASSUME NEW E, Nil \notin E, NEW set \in HashSetsOf(E)
  PROVE  /\ Table!Occupied(set) \subseteq 0..(set.size - 1)
         /\ \A i \in Table!Occupied(set) : set.slots[i] \in E
         /\ IsFiniteSet(Table!Occupied(set))
         /\ Cardinality(Table!Occupied(set)) \in Nat
         /\ Cardinality(Table!Occupied(set)) <= set.size
         /\ Elements(set) \subseteq E
<1>1. /\ set.size \in Nat
      /\ set.slots \in [0..(set.size - 1) -> E \cup {Nil}]
  BY HashSetFacts
<1>2. Table!Occupied(set) \subseteq 0..(set.size - 1)
  BY DEF Table!Occupied
<1>3. \A i \in Table!Occupied(set) : set.slots[i] \in E
  BY <1>1 DEF Table!Occupied
<1>4. /\ IsFiniteSet(0..(set.size - 1))
      /\ Cardinality(0..(set.size - 1)) = set.size
  BY <1>1, FS_Interval
<1>5. /\ IsFiniteSet(Table!Occupied(set))
      /\ Cardinality(Table!Occupied(set)) <= set.size
  BY <1>2, <1>4, FS_Subset
<1> QED BY <1>2, <1>3, <1>5, FS_CardinalityType DEF Elements

\* An index with nothing in it is reached, and fewer elements than probes are
\* in its way.
LEMMA FreeIs ==
  ASSUME NEW E, NEW set, NEW key, NEW p \in Keys, HashOk, Nil \notin E,
         Sound(set, E, key), set.num < set.size
  PROVE  LET d == Table!Least(Table!Free(set, p))
         IN /\ Table!Free(set, p) # {}
            /\ d \in 0..(set.size - 1) /\ d <= set.num
            /\ Table!Probe(set, p, d) \in
                 0..(set.size - 1) \ Table!Occupied(set)
<1>1. PICK n : n = set.size
  OBVIOUS
<1>2. /\ n \in Nat \ {0} /\ set \in HashSetsOf(E)
      /\ set.slots \in [0..(n - 1) -> E \cup {Nil}]
      /\ set.num \in Nat
  BY <1>1, HashSetFacts DEF Sound
<1>3. PICK s \in Nat : s = hash[p]
  BY DEF HashOk
<1>4. \A d \in Nat : /\ Table!Probe(set, p, d) = (s + d) % n
                     /\ (s + d) % n \in 0..(n - 1)
  <2> SUFFICES ASSUME NEW d \in Nat
               PROVE  /\ Table!Probe(set, p, d) = (s + d) % n
                      /\ (s + d) % n \in 0..(n - 1)
    OBVIOUS
  <2>1. s + d \in Nat /\ n \in Nat /\ n > 0
    BY <1>2
  <2>2. (s + d) % n \in 0..(n - 1)
    BY <2>1, InRange
  <2> QED BY <1>1, <1>3, <2>2 DEF Table!Probe
<1>5. PICK u \in 0..(n - 1) : u \notin Table!Occupied(set)
  <2> SUFFICES ASSUME 0..(n - 1) \subseteq Table!Occupied(set) PROVE FALSE
    OBVIOUS
  <2>1. Table!Occupied(set) = 0..(n - 1)
    BY <1>1, <1>2, OccupiedIs
  <2>2. Cardinality(0..(n - 1)) = n
    BY <1>2, FS_Interval
  <2> QED BY <1>1, <1>2, <2>1, <2>2 DEF Sound
<1>6. PICK k \in 0..(n - 1) : (s + k) % n = u
  BY <1>2, Reached
<1>7. k \in Table!Free(set, p)
  <2>1. set.slots[u] = Nil
    BY <1>1, <1>5 DEF Table!Occupied
  <2>2. k \in Nat
    OBVIOUS
  <2> QED BY <1>1, <1>4, <1>6, <2>1, <2>2 DEF Table!Free
<1>8. PICK d : d = Table!Least(Table!Free(set, p))
  OBVIOUS
<1>9. Table!Free(set, p) \subseteq 0..(n - 1)
  BY <1>1 DEF Table!Free
<1>10. Table!Free(set, p) \in SUBSET Nat
  BY <1>9
<1>11. d \in Table!Free(set, p) /\ \A j \in Table!Free(set, p) : d <= j
  BY <1>7, <1>8, <1>10, LeastIs
<1>b. d \in 0..(n - 1) /\ d \in Nat
  BY <1>9, <1>11
<1>12. set.slots[(s + d) % n] = Nil
  BY <1>1, <1>4, <1>11, <1>b DEF Table!Free
<1>13. \A j \in 0..(d - 1) : (s + j) % n \in Table!Occupied(set)
  <2> SUFFICES ASSUME NEW j \in 0..(d - 1)
               PROVE  (s + j) % n \in Table!Occupied(set)
    OBVIOUS
  <2>1. j \in 0..(n - 1) /\ j \in Nat /\ ~(d <= j)
    BY <1>2, <1>b
  <2>2. set.slots[(s + j) % n] # Nil
    BY <1>1, <1>4, <1>11, <2>1 DEF Table!Free
  <2>3. (s + j) % n \in 0..(n - 1)
    BY <1>4, <2>1
  <2> QED BY <1>1, <2>2, <2>3 DEF Table!Occupied
<1>14. d <= set.num
  <2> DEFINE f == [j \in 0..(d - 1) |-> (s + j) % n]
  <2>1. f \in [0..(d - 1) -> Table!Occupied(set)]
    BY <1>13
  <2>2. \A i, j \in 0..(d - 1) : f[i] = f[j] => i = j
    <3> SUFFICES ASSUME NEW i \in 0..(d - 1), NEW j \in 0..(d - 1),
                        (s + i) % n = (s + j) % n
                 PROVE  i = j
      OBVIOUS
    <3>1. i \in 0..(n - 1) /\ j \in 0..(n - 1)
      BY <1>2, <1>b
    <3> QED BY <1>2, <3>1, ReachedOnce
  <2>3. f \in Injection(0..(d - 1), Table!Occupied(set))
    BY <2>1, <2>2 DEF Injection, IsInjective
  <2> HIDE DEF f
  <2>4. IsFiniteSet(Table!Occupied(set))
    BY <1>2, OccupiedIs
  <2>5. Cardinality(0..(d - 1)) <= Cardinality(Table!Occupied(set))
    BY <2>3, <2>4, FS_Injection
  <2>6. 0 \in Int /\ d - 1 \in Int
    BY <1>b
  <2>7. Cardinality(0..(d - 1)) = d
    BY <1>b, <2>6, FS_Interval
  <2> QED BY <2>5, <2>7 DEF Sound
<1>15. (s + d) % n \in 0..(n - 1) \ Table!Occupied(set)
  BY <1>1, <1>4, <1>12, <1>b DEF Table!Occupied
<1> QED BY <1>1, <1>4, <1>7, <1>8, <1>b, <1>14, <1>15

LEMMA InsertIs ==
  ASSUME NEW E, NEW key, NEW set, NEW e \in E, HashOk, Keyed(E, key),
         Sound(set, E, key), set.num < set.size,
         \A x \in Elements(set) : key[x] # key[e],
         NEW r, r = Table!Insert(set, key[e], e)
  PROVE  /\ Sound(r, E, key)
         /\ r.size = set.size /\ r.num = set.num + 1
         /\ r.max = set.max \/ r.max <= set.num
         /\ Elements(r) = Elements(set) \cup {e}
<1>1. PICK n : n = set.size
  OBVIOUS
<1>2. PICK p \in Keys : p = key[e]
  BY DEF Keyed
<1>3. PICK d : d = Table!Least(Table!Free(set, p))
  OBVIOUS
<1>4. PICK i : i = Table!Probe(set, p, d)
  OBVIOUS
<1>a. Nil \notin E /\ set \in HashSetsOf(E)
  BY DEF Keyed, Sound
<1>5. /\ Table!Free(set, p) # {} /\ d \in 0..(n - 1) /\ d <= set.num
      /\ i \in 0..(n - 1) /\ i \notin Table!Occupied(set)
  BY <1>1, <1>3, <1>4, <1>a, FreeIs
<1>6. /\ set = [slots |-> set.slots, size |-> n, num |-> set.num,
                max |-> set.max, bad |-> set.bad]
      /\ set.bad = FALSE
      /\ n \in Nat /\ set.num \in Nat /\ set.max \in Nat
      /\ set.slots \in [0..(n - 1) -> E \cup {Nil}]
  BY <1>1, <1>a, HashSetFacts DEF Sound
<1>7. PICK m : m = IF d > set.max THEN d ELSE set.max
  OBVIOUS
<1>8. m \in Nat /\ d <= m /\ set.max <= m
      /\ (m = set.max \/ m <= set.num)
  BY <1>5, <1>6, <1>7
<1>9. PICK slots : slots = [set.slots EXCEPT ![i] = e]
  OBVIOUS
<1>10. r = [slots |-> slots, size |-> n, num |-> set.num + 1, max |-> m,
            bad |-> FALSE]
  <2>1. r = [set EXCEPT !.slots[i] = e, !.num = @ + 1,
                        !.max = IF d > @ THEN d ELSE @]
    BY <1>2, <1>3, <1>4, <1>5 DEF Table!Insert, Table!Place
  <2>2. r = [set EXCEPT !.slots = slots, !.num = set.num + 1, !.max = m]
    BY <1>6, <1>7, <1>9, <2>1
  <2>3. PICK a, b, c, f :
          a = set.slots /\ b = set.num /\ c = set.max /\ f = set.bad
    OBVIOUS
  <2>4. set = [slots |-> a, size |-> n, num |-> b, max |-> c, bad |-> f]
    BY <1>6, <2>3
  <2>5. r = [[slots |-> a, size |-> n, num |-> b, max |-> c, bad |-> f]
               EXCEPT !.slots = slots, !.num = b + 1, !.max = m]
    BY <2>2, <2>3, <2>4
  <2>6. r = [slots |-> slots, size |-> n, num |-> b + 1, max |-> m, bad |-> f]
    BY <2>5
  <2> QED BY <1>6, <2>3, <2>6
<1>11. /\ slots \in [0..(n - 1) -> E \cup {Nil}]
       /\ slots[i] = e
       /\ \A j \in 0..(n - 1) : j # i => slots[j] = set.slots[j]
  BY <1>5, <1>6, <1>9
<1>12. r \in HashSetsOf(E)
  <2>1. PICK num \in Nat : num = set.num + 1
    BY <1>6
  <2>2. r = [slots |-> slots, size |-> n, num |-> num, max |-> m,
             bad |-> FALSE]
    BY <1>10, <2>1
  <2>3. n \in Nat /\ m \in Nat /\ FALSE \in BOOLEAN
    BY <1>6, <1>8
  <2>4. slots \in [0..(n - 1) -> E \cup {Nil}]
    BY <1>11
  <2>5. [slots |-> slots, size |-> n, num |-> num, max |-> m, bad |-> FALSE]
          \in HashSetsOf(E)
    BY ONLY <2>1, <2>3, <2>4, HashSetMade
  <2> QED BY <2>2, <2>5
<1>13. Table!Occupied(r) = Table!Occupied(set) \cup {i}
  BY <1>1, <1>5, <1>10, <1>11, <1>a DEF Table!Occupied
<1>14. r.num = Cardinality(Table!Occupied(r))
  <2>1. IsFiniteSet(Table!Occupied(set))
    BY <1>a, OccupiedIs
  <2>2. Cardinality(Table!Occupied(r)) = Cardinality(Table!Occupied(set)) + 1
    BY <1>5, <1>13, <2>1, FS_AddElement
  <2> QED BY <1>10, <2>2 DEF Sound
<1>15. \A j \in Table!Occupied(set) :
         /\ r.slots[j] = set.slots[j] /\ j # i
         /\ set.slots[j] \in Elements(set)
  BY <1>1, <1>5, <1>10, <1>11 DEF Table!Occupied, Elements
<1>16. Within(r, key)
  <2> SUFFICES ASSUME NEW j \in Table!Occupied(r)
               PROVE  \E k \in 0..(r.size - 1) :
                        /\ k <= r.max
                        /\ Table!Probe(r, key[r.slots[j]], k) = j
    BY DEF Within
  <2>1. CASE j = i
    <3>1. Table!Probe(r, key[r.slots[j]], d) = j
      BY <1>1, <1>2, <1>4, <1>10, <1>11, <2>1 DEF Table!Probe
    <3> QED BY <1>5, <1>8, <1>10, <3>1
  <2>2. CASE j # i
    <3>1. j \in Table!Occupied(set)
      BY <1>13, <2>2
    <3>2. PICK k \in 0..(set.size - 1) :
            /\ k <= set.max
            /\ Table!Probe(set, key[set.slots[j]], k) = j
      BY <3>1 DEF Sound, Within
    <3>3. Table!Probe(r, key[r.slots[j]], k) = j
      BY <1>1, <1>10, <1>15, <3>1, <3>2 DEF Table!Probe
    <3>4. k \in 0..(r.size - 1) /\ k <= r.max
      BY <1>1, <1>6, <1>8, <1>10, <3>2
    <3> QED BY <3>3, <3>4
  <2> QED BY <2>1, <2>2
<1>17. Once(r, key)
  <2> SUFFICES ASSUME NEW j \in Table!Occupied(r), NEW k \in Table!Occupied(r),
                      key[r.slots[j]] = key[r.slots[k]]
               PROVE  j = k
    BY DEF Once
  <2>1. r.slots[i] = e
    BY <1>10, <1>11
  <2>2. CASE j \in Table!Occupied(set) /\ k \in Table!Occupied(set)
    BY <1>15, <2>2 DEF Sound, Once
  <2>3. CASE j = i \/ k = i
    BY <1>13, <1>15, <2>1, <2>3
  <2> QED BY <1>13, <2>2, <2>3
<1>18. Elements(r) = Elements(set) \cup {e}
  <2>1. r.slots[i] = e
    BY <1>10, <1>11
  <2> QED BY <1>13, <1>15, <2>1 DEF Elements
<1>19. /\ r.size = n /\ r.num = set.num + 1 /\ r.max = m /\ ~r.bad
  BY <1>10
<1> QED
  BY <1>1, <1>8, <1>12, <1>14, <1>16, <1>17, <1>18, <1>19 DEF Sound

LEMMA EmptyIs ==
  ASSUME NEW E, NEW key, Nil \notin E, NEW n \in Nat,
         NEW r, r = Table!EmptySet(n)
  PROVE  /\ Sound(r, E, key)
         /\ r.size = n /\ r.num = 0 /\ r.max = 0
         /\ Elements(r) = {}
<1> DEFINE slots == [i \in 0..(n - 1) |-> Nil]
<1>1. r = [slots |-> slots, size |-> n, num |-> 0, max |-> 0, bad |-> FALSE]
  BY DEF Table!EmptySet
<1>2. \A i \in 0..(n - 1) : slots[i] = Nil
  OBVIOUS
<1>3. slots \in [0..(n - 1) -> E \cup {Nil}]
  OBVIOUS
<1> HIDE DEF slots
<1>4. r \in HashSetsOf(E)
  <2>1. [slots |-> slots, size |-> n, num |-> 0, max |-> 0, bad |-> FALSE]
          \in HashSetsOf(E)
    BY ONLY <1>3, n \in Nat, HashSetMade
  <2> QED BY <1>1, <2>1
<1>5. Table!Occupied(r) = {}
  BY <1>1, <1>2 DEF Table!Occupied
<1>6. Cardinality(Table!Occupied(r)) = 0
  BY <1>5, FS_EmptySet
<1>7. r.size = n /\ r.num = 0 /\ r.max = 0 /\ ~r.bad
  BY <1>1
<1> QED BY <1>4, <1>5, <1>6, <1>7 DEF Sound, Within, Once, Elements

\* The set after each step of a resize.
Steps(f, m, old, new, at) ==
  \A i \in 0..m :
    f[i] = IF i = 0 THEN new
           ELSE IF old.slots[i - 1] = Nil THEN f[i - 1]
           ELSE Table!Insert(f[i - 1], at[i - 1], old.slots[i - 1])

LEMMA StepsExist ==
  ASSUME NEW old, NEW new, NEW at, NEW n \in Nat
  PROVE  \E f : Steps(f, n, old, new, at)
<1> DEFINE P(f, m) == Steps(f, m, old, new, at)
           After(x, k) == IF old.slots[k - 1] = Nil THEN x
                          ELSE Table!Insert(x, at[k - 1], old.slots[k - 1])
<1>0. \A f, m : P(f, m) <=>
        \A k \in 0..m : f[k] = IF k = 0 THEN new ELSE After(f[k - 1], k)
  BY Zenon DEF Steps
<1> HIDE DEF P, After
<1> DEFINE S == {m \in Nat : \E f : P(f, m)}
<1>1. 0 \in S
  <2> DEFINE f == [i \in {0} |-> new]
  <2>1. P(f, 0)
    BY <1>0
  <2> QED BY <2>1
<1>2. ASSUME NEW m \in Nat, m \in S PROVE m + 1 \in S
  <2>1. PICK g : P(g, m)
    BY <1>2
  <2>2. PICK k \in Nat : k = m + 1
    OBVIOUS
  <2>3. PICK x : x = After(g[m], k)
    OBVIOUS
  <2> DEFINE f == [i \in 0..k |-> IF i = k THEN x ELSE g[i]]
  <2>4. \A i \in 0..k : f[i] = IF i = k THEN x ELSE g[i]
    OBVIOUS
  <2> HIDE DEF f
  <2>5. ASSUME NEW i \in 0..k
        PROVE  f[i] = IF i = 0 THEN new ELSE After(f[i - 1], i)
    <3>1. CASE i = k
      <4>1. i - 1 = m /\ i # 0 /\ m \in 0..k /\ m # k
        BY <2>2, <3>1
      <4>2. f[m] = g[m] /\ f[i] = x
        BY <2>4, <3>1, <4>1
      <4> QED BY <2>3, <3>1, <4>1, <4>2
    <3>2. CASE i # k
      <4>1. i \in 0..m /\ f[i] = g[i]
        BY <2>2, <2>4, <3>2
      <4>2. i # 0 => i - 1 \in 0..k /\ i - 1 # k
        BY <2>2, <3>2
      <4>3. i # 0 => f[i - 1] = g[i - 1]
        BY <2>4, <4>2
      <4>4. g[i] = IF i = 0 THEN new ELSE After(g[i - 1], i)
        BY <1>0, <2>1, <4>1
      <4> QED BY <4>1, <4>3, <4>4
    <3> QED BY <3>1, <3>2
  <2>6. P(f, k)
    BY <1>0, <2>5
  <2> QED BY <2>2, <2>6
<1> HIDE DEF S
<1>3. n \in S
  BY <1>1, <1>2, SetInduction
<1> QED BY <1>3 DEF S, P

LEMMA RehashSteps ==
  ASSUME NEW old, NEW new, NEW at, NEW n \in Nat, n = old.size
  PROVE  \E f : Steps(f, n, old, new, at)
                /\ Table!Rehash(old, new, at) = f[n]
<1> DEFINE After(x, i) == IF old.slots[i - 1] = Nil THEN x
                          ELSE Table!Insert(x, at[i - 1], old.slots[i - 1])
           D(f) == f = [i \in 0..n |-> IF i = 0 THEN new
                                       ELSE After(f[i - 1], i)]
<1>0. PICK g : g = CHOOSE f : D(f)
  OBVIOUS
<1>1. Table!Rehash(old, new, at) = g[n]
  BY <1>0 DEF Table!Rehash
<1>2. PICK h : Steps(h, n, old, new, at)
  BY StepsExist
<1>3. \A i \in 0..n : h[i] = IF i = 0 THEN new ELSE After(h[i - 1], i)
  BY <1>2 DEF Steps
<1> HIDE DEF After
<1>4. D([i \in 0..n |-> h[i]])
  <2> DEFINE f == [i \in 0..n |-> h[i]]
  <2>1. ASSUME NEW i \in 0..n
        PROVE  f[i] = IF i = 0 THEN new ELSE After(f[i - 1], i)
    <3>1. i # 0 => i - 1 \in 0..n
      OBVIOUS
    <3> QED BY <1>3, <3>1
  <2>2. f = [i \in 0..n |-> f[i]]
    OBVIOUS
  <2> HIDE DEF f
  <2>3. D(f)
    BY <2>1, <2>2
  <2> QED BY <2>3 DEF f
<1>5. D(g)
  <2> HIDE DEF D
  <2> QED BY <1>0, <1>4
<1>6. \A i \in 0..n : g[i] = IF i = 0 THEN new ELSE After(g[i - 1], i)
  BY <1>5
<1>7. Steps(g, n, old, new, at)
  BY <1>6 DEF Steps, After
<1> QED BY <1>1, <1>7

\* A resize keeps every element, and what it has just put in place is no
\* farther off than there are elements.
LEMMA RehashIs ==
  ASSUME NEW E, NEW key, NEW old \in HashSetsOf(E), NEW at, NEW n \in Nat,
         HashOk, Keyed(E, key), Once(old, key),
         \A i \in Table!Occupied(old) : at[i] = key[old.slots[i]],
         Cardinality(Table!Occupied(old)) <= n,
         NEW r, r = Table!Rehash(old, Table!EmptySet(n), at)
  PROVE  /\ Sound(r, E, key)
         /\ r.size = n /\ r.num = Cardinality(Table!Occupied(old))
         /\ r.max = 0 \/ r.max < r.num
         /\ Elements(r) = Elements(old)
<1>1. PICK m \in Nat : m = old.size
  BY HashSetFacts
<1>2. PICK new : new = Table!EmptySet(n)
  OBVIOUS
<1>3. PICK f : Steps(f, m, old, new, at) /\ r = f[m]
  BY <1>1, <1>2, RehashSteps
<1> DEFINE Below(i) == {j \in Table!Occupied(old) : j < i}
           Good(i) == /\ Sound(f[i], E, key)
                      /\ f[i].size = n /\ f[i].num = Cardinality(Below(i))
                      /\ f[i].max = 0 \/ f[i].max < f[i].num
                      /\ Elements(f[i]) = {old.slots[j] : j \in Below(i)}
           S == {i \in Nat : i <= m => Good(i)}
<1>4. Nil \notin E
  BY DEF Keyed
<1>5. /\ Table!Occupied(old) \subseteq 0..(m - 1)
      /\ \A i \in Table!Occupied(old) : old.slots[i] \in E
      /\ IsFiniteSet(Table!Occupied(old))
  BY <1>1, <1>4, OccupiedIs
<1>6. 0 \in S
  <2>1. f[0] = new
    BY <1>3 DEF Steps
  <2>2. /\ Sound(new, E, key) /\ new.size = n /\ new.num = 0 /\ new.max = 0
        /\ Elements(new) = {}
    BY <1>2, <1>4, EmptyIs
  <2>3. Below(0) = {}
    BY <1>5
  <2>4. Cardinality(Below(0)) = 0
    BY <2>3, FS_EmptySet
  <2>5. {old.slots[j] : j \in Below(0)} = {}
    BY <2>3
  <2> HIDE DEF Below
  <2> QED BY <2>1, <2>2, <2>4, <2>5
<1>7. ASSUME NEW i \in Nat, i \in S PROVE i + 1 \in S
  <2> SUFFICES ASSUME i + 1 <= m PROVE Good(i + 1)
    OBVIOUS
  <2>1. PICK k \in Nat : k = i + 1 /\ k # 0 /\ k - 1 = i /\ k \in 0..m
    OBVIOUS
  <2>2. Good(i)
    BY <1>7
  <2>3. f[k] = IF old.slots[i] = Nil THEN f[i]
               ELSE Table!Insert(f[i], at[i], old.slots[i])
    BY <1>3, <2>1 DEF Steps
  <2>4. \A j \in Table!Occupied(old) : j < k <=> j < i \/ j = i
    BY <1>5, <2>1
  <2>5. i \in 0..(old.size - 1)
    BY <1>1
  <2>6. CASE old.slots[i] = Nil
    <3>1. i \notin Table!Occupied(old)
      BY <2>6 DEF Table!Occupied
    <3>2. Below(k) = Below(i)
      BY <2>4, <3>1
    <3> QED BY <2>1, <2>2, <2>3, <2>6, <3>2
  <2>7. CASE old.slots[i] # Nil
    <3>1. i \in Table!Occupied(old)
      BY <2>5, <2>7 DEF Table!Occupied
    <3>2. Below(k) = Below(i) \cup {i} /\ i \notin Below(i)
      <4>1. \A j : j \in Below(k) <=> j \in Below(i) \/ j = i
        BY <2>4, <3>1
      <4>2. ~(i < i)
        OBVIOUS
      <4> QED BY <4>1, <4>2
    <3>3. Below(i) \subseteq Table!Occupied(old)
          /\ Below(k) \subseteq Table!Occupied(old)
      OBVIOUS
    <3>4. PICK e \in E : e = old.slots[i]
      BY <1>5, <3>1
    <3>5. PICK s : s = f[i]
      OBVIOUS
    <3>6. \A x \in Elements(s) : key[x] # key[e]
      <4> SUFFICES ASSUME NEW j \in Below(i), key[old.slots[j]] = key[e]
                   PROVE  FALSE
        BY <2>2, <3>5
      <4>1. j = i
        BY <3>1, <3>3, <3>4 DEF Once
      <4> QED BY <3>2, <4>1
    <3>7. /\ Sound(s, E, key) /\ s.size = n /\ s.num = Cardinality(Below(i))
          /\ s.max = 0 \/ s.max < s.num
          /\ Elements(s) = {old.slots[j] : j \in Below(i)}
      BY <2>2, <3>5
    <3>8. {old.slots[j] : j \in Below(k)} =
            {old.slots[j] : j \in Below(i)} \cup {e}
      BY <3>2, <3>4
    <3> HIDE DEF Below
    <3>9. IsFiniteSet(Below(i))
      BY <1>5, <3>3, FS_Subset
    <3>10. /\ Cardinality(Below(k)) = Cardinality(Below(i)) + 1
           /\ Cardinality(Below(k)) <= Cardinality(Table!Occupied(old))
           /\ Cardinality(Below(k)) \in Nat
           /\ Cardinality(Below(i)) \in Nat
           /\ Cardinality(Table!Occupied(old)) \in Nat
      BY <1>5, <3>2, <3>3, <3>9, FS_AddElement, FS_Subset, FS_CardinalityType
    <3>11. s.num < s.size
      BY <3>7, <3>10
    <3>12. PICK q : q = f[k]
      OBVIOUS
    <3>13. q = Table!Insert(s, key[e], e)
      BY <2>3, <2>7, <3>1, <3>4, <3>5, <3>12
    <3>14. /\ Sound(q, E, key)
           /\ q.size = s.size /\ q.num = s.num + 1
           /\ q.max = s.max \/ q.max <= s.num
           /\ Elements(q) = Elements(s) \cup {e}
      BY <3>6, <3>7, <3>11, <3>13, InsertIs
    <3>15. q.max \in Nat /\ q.num \in Nat /\ s.num \in Nat
      BY <3>7, <3>14, HashSetFacts DEF Sound
    <3>16. q.max = 0 \/ q.max < q.num
      BY <3>7, <3>14, <3>15
    <3>17. q.num = Cardinality(Below(k))
      BY <3>7, <3>10, <3>14
    <3>18. Elements(q) = {old.slots[j] : j \in Below(k)}
      BY <3>7, <3>8, <3>14
    <3> QED BY <2>1, <3>7, <3>12, <3>14, <3>16, <3>17, <3>18
  <2> QED BY <2>6, <2>7
<1>8. m \in S
  <2> HIDE DEF S
  <2> QED BY <1>6, <1>7, SetInduction
<1>9. Good(m)
  BY <1>8
<1>10. Below(m) = Table!Occupied(old)
  BY <1>5
<1>11. Elements(old) = {old.slots[j] : j \in Below(m)}
  BY <1>10 DEF Elements
<1> HIDE DEF Below
<1>12. /\ Sound(r, E, key)
       /\ r.size = n /\ r.num = Cardinality(Below(m))
       /\ r.max = 0 \/ r.max < r.num
       /\ Elements(r) = {old.slots[j] : j \in Below(m)}
  BY <1>3, <1>9
<1> QED BY <1>10, <1>11, <1>12

\* A search sees one of the elements it looks for exactly if one is there.
LEMMA FoundIs ==
  ASSUME NEW E, NEW key, NEW set, HashOk, Keyed(E, key), Sound(set, E, key),
         NEW p \in Keys, NEW matches \in SUBSET E,
         \A e \in Elements(set) \cap matches : key[e] = p
  PROVE  /\ Table!Found(set, p, matches) # {} <=>
              Elements(set) \cap matches # {}
         /\ Table!Found(set, p, matches) # {} =>
              LET i == Table!Probe(set, p,
                                   Table!Least(Table!Found(set, p, matches)))
              IN i \in Table!Occupied(set) /\ set.slots[i] \in matches
<1> DEFINE F == Table!Found(set, p, matches)
<1>1. PICK n \in Nat : n = set.size
  BY HashSetFacts DEF Sound
<1>2. Nil \notin matches
  BY DEF Keyed
<1>3. ASSUME NEW d \in F
      PROVE  LET i == Table!Probe(set, p, d)
             IN i \in Table!Occupied(set) /\ set.slots[i] \in matches
  <2>1. PICK i : i = Table!Probe(set, p, d)
    OBVIOUS
  <2>2. d \in 0..(n - 1) /\ set.slots[i] \in matches
    BY <1>1, <1>3, <2>1 DEF Table!Found
  <2>3. n > 0 /\ d \in Nat
    BY <2>2
  <2>4. PICK s \in Nat : s = hash[p] + d
    BY <2>3 DEF HashOk
  <2>5. s % n \in 0..(n - 1)
    BY <2>3, InRange
  <2>6. i \in 0..(n - 1)
    BY <1>1, <2>1, <2>4, <2>5 DEF Table!Probe
  <2>7. set.slots[i] # Nil
    BY <1>2, <2>2
  <2> QED BY <1>1, <2>1, <2>2, <2>6, <2>7 DEF Table!Occupied
<1>4. F # {} => Elements(set) \cap matches # {}
  BY <1>3 DEF Elements
<1>5. ASSUME NEW e \in Elements(set) \cap matches
      PROVE  F # {}
  <2>1. PICK i \in Table!Occupied(set) : e = set.slots[i]
    BY DEF Elements
  <2>2. PICK d \in 0..(set.size - 1) :
          d <= set.max /\ Table!Probe(set, key[e], d) = i
    BY <2>1 DEF Sound, Within
  <2>3. d \in F
    BY <2>1, <2>2 DEF Table!Found
  <2> QED BY <2>3
<1>6. F \in SUBSET Nat
  BY <1>1 DEF Table!Found
<1>7. F # {} => Table!Least(F) \in F
  BY <1>6, LeastIs
<1> HIDE DEF F
<1>8. F # {} => LET i == Table!Probe(set, p, Table!Least(F))
                IN i \in Table!Occupied(set) /\ set.slots[i] \in matches
  BY <1>3, <1>7
<1> QED BY <1>4, <1>5, <1>8 DEF F

LEMMA VacateIs ==
  ASSUME NEW E, NEW key, NEW set, Nil \notin E, Sound(set, E, key),
         NEW i \in Table!Occupied(set), NEW r, r = Table!Vacate(set, i)
  PROVE  /\ Sound(r, E, key)
         /\ r.size = set.size /\ r.num = set.num - 1 /\ r.max = set.max
         /\ Elements(r) = Elements(set) \ {set.slots[i]}
<1>1. set \in HashSetsOf(E) /\ ~set.bad
  BY DEF Sound
<1>3. PICK slots, n, num, max :
        set.slots = slots /\ set.size = n /\ set.num = num /\ set.max = max
  OBVIOUS
<1>2. /\ set = [slots |-> slots, size |-> n, num |-> num, max |-> max,
                bad |-> FALSE]
      /\ slots \in [0..(n - 1) -> E \cup {Nil}]
      /\ n \in Nat /\ num \in Nat /\ max \in Nat
  <2>1. set.bad = FALSE
    BY <1>1, HashSetFacts
  <2> QED BY <1>1, <1>3, <2>1, HashSetFacts
<1>4. PICK after : after = [slots EXCEPT ![i] = Nil]
  OBVIOUS
<1>5. r = [slots |-> after, size |-> n, num |-> num - 1, max |-> max,
           bad |-> FALSE]
  <2>1. r = [set EXCEPT !.slots = after, !.num = num - 1]
    BY <1>3, <1>4 DEF Table!Vacate
  <2> QED BY <1>2, <2>1
<1>6. /\ r.slots = after /\ r.size = n /\ r.num = num - 1 /\ r.max = max
      /\ ~r.bad
  BY <1>5
<1>7. i \in 0..(n - 1)
  BY <1>3 DEF Table!Occupied
<1>8. /\ after \in [0..(n - 1) -> E \cup {Nil}]
      /\ after[i] = Nil
      /\ \A j \in 0..(n - 1) : j # i => after[j] = slots[j]
  BY <1>2, <1>4, <1>7
<1>9. Table!Occupied(r) = Table!Occupied(set) \ {i}
  BY <1>3, <1>6, <1>7, <1>8 DEF Table!Occupied
<1>10. \A j \in Table!Occupied(r) : after[j] = slots[j]
  BY <1>3, <1>8, <1>9 DEF Table!Occupied
<1>11. IsFiniteSet(Table!Occupied(set))
  BY <1>1, OccupiedIs
<1>12. /\ Cardinality(Table!Occupied(r)) = Cardinality(Table!Occupied(set)) - 1
       /\ Cardinality(Table!Occupied(r)) \in Nat
  BY <1>9, <1>11, FS_RemoveElement, FS_CardinalityType
<1>13. num = Cardinality(Table!Occupied(set))
  BY <1>3 DEF Sound
<1>14. r \in HashSetsOf(E)
  <2>1. PICK k \in Nat : k = num - 1
    BY <1>12, <1>13
  <2>2. [slots |-> after, size |-> n, num |-> k, max |-> max, bad |-> FALSE]
          \in HashSetsOf(E)
    BY ONLY <1>2, <1>8, <2>1, HashSetMade
  <2> QED BY <1>5, <2>1, <2>2
<1>15. Within(r, key)
  <2> SUFFICES ASSUME NEW j \in Table!Occupied(r)
               PROVE  \E d \in 0..(r.size - 1) :
                        /\ d <= r.max
                        /\ Table!Probe(r, key[r.slots[j]], d) = j
    BY DEF Within
  <2>1. PICK d \in 0..(set.size - 1) :
          d <= set.max /\ Table!Probe(set, key[set.slots[j]], d) = j
    BY <1>9 DEF Sound, Within
  <2>2. Table!Probe(r, key[r.slots[j]], d) = j
    BY <1>3, <1>6, <1>10, <2>1 DEF Table!Probe
  <2> QED BY <1>3, <1>6, <2>1, <2>2
<1>16. Once(r, key)
  BY <1>3, <1>6, <1>9, <1>10 DEF Sound, Once
<1>17. Elements(r) = Elements(set) \ {set.slots[i]}
  <2>1. \A j \in Table!Occupied(set) : slots[j] = slots[i] => j = i
    BY <1>3 DEF Sound, Once
  <2>2. ASSUME NEW x \in Elements(r)
        PROVE  x \in Elements(set) \ {set.slots[i]}
    BY <1>3, <1>6, <1>9, <1>10, <2>1, <2>2 DEF Elements
  <2>3. ASSUME NEW x \in Elements(set) \ {set.slots[i]}
        PROVE  x \in Elements(r)
    BY <1>3, <1>6, <1>9, <1>10, <2>3 DEF Elements
  <2> QED BY <2>2, <2>3
<1> QED BY <1>3, <1>6, <1>12, <1>13, <1>14, <1>15, <1>16, <1>17 DEF Sound

\* An element may be exchanged for another with the same key.
LEMMA ReplaceIs ==
  ASSUME NEW E, NEW key, NEW set, Nil \notin E, Sound(set, E, key),
         NEW i \in Table!Occupied(set), NEW e \in E,
         key[e] = key[set.slots[i]], NEW r, r = [set EXCEPT !.slots[i] = e]
  PROVE  /\ Sound(r, E, key)
         /\ r.size = set.size /\ r.num = set.num /\ r.max = set.max
         /\ Elements(r) = (Elements(set) \ {set.slots[i]}) \cup {e}
         /\ Table!Occupied(r) = Table!Occupied(set)
         /\ r.slots[i] = e
<1>1. set \in HashSetsOf(E) /\ ~set.bad
  BY DEF Sound
<1>3. PICK slots, n, num, max :
        set.slots = slots /\ set.size = n /\ set.num = num /\ set.max = max
  OBVIOUS
<1>2. /\ set = [slots |-> slots, size |-> n, num |-> num, max |-> max,
                bad |-> FALSE]
      /\ slots \in [0..(n - 1) -> E \cup {Nil}]
      /\ n \in Nat /\ num \in Nat /\ max \in Nat
  <2>1. set.bad = FALSE
    BY <1>1, HashSetFacts
  <2> QED BY <1>1, <1>3, <2>1, HashSetFacts
<1>4. PICK after : after = [slots EXCEPT ![i] = e]
  OBVIOUS
<1>5. r = [slots |-> after, size |-> n, num |-> num, max |-> max,
           bad |-> FALSE]
  <2>1. r = [set EXCEPT !.slots = after]
    BY <1>3, <1>4
  <2> QED BY <1>2, <2>1
<1>6. /\ r.slots = after /\ r.size = n /\ r.num = num /\ r.max = max
      /\ ~r.bad
  BY <1>5
<1>7. i \in 0..(n - 1)
  BY <1>3 DEF Table!Occupied
<1>8. /\ after \in [0..(n - 1) -> E \cup {Nil}]
      /\ after[i] = e
      /\ \A j \in 0..(n - 1) : j # i => after[j] = slots[j]
  BY <1>2, <1>4, <1>7
<1>9. Table!Occupied(r) = Table!Occupied(set)
  BY <1>3, <1>6, <1>7, <1>8 DEF Table!Occupied
<1>10. \A j \in Table!Occupied(r) : /\ j # i => after[j] = slots[j]
                                    /\ key[after[j]] = key[slots[j]]
  BY <1>3, <1>8, <1>9 DEF Table!Occupied
<1>11. r \in HashSetsOf(E)
  <2>1. [slots |-> after, size |-> n, num |-> num, max |-> max, bad |-> FALSE]
          \in HashSetsOf(E)
    BY ONLY <1>2, <1>8, HashSetMade
  <2> QED BY <1>5, <2>1
<1>12. Within(r, key)
  <2> SUFFICES ASSUME NEW j \in Table!Occupied(r)
               PROVE  \E d \in 0..(r.size - 1) :
                        /\ d <= r.max
                        /\ Table!Probe(r, key[r.slots[j]], d) = j
    BY DEF Within
  <2>1. PICK d \in 0..(set.size - 1) :
          d <= set.max /\ Table!Probe(set, key[set.slots[j]], d) = j
    BY <1>9 DEF Sound, Within
  <2>2. Table!Probe(r, key[r.slots[j]], d) = j
    BY <1>3, <1>6, <1>10, <2>1 DEF Table!Probe
  <2> QED BY <1>3, <1>6, <2>1, <2>2
<1>13. Once(r, key)
  BY <1>3, <1>6, <1>9, <1>10 DEF Sound, Once
<1>14. Elements(r) = (Elements(set) \ {set.slots[i]}) \cup {e}
  <2>1. \A j \in Table!Occupied(set) : slots[j] = slots[i] => j = i
    BY <1>3 DEF Sound, Once
  <2>2. ASSUME NEW x \in Elements(r)
        PROVE  x \in (Elements(set) \ {set.slots[i]}) \cup {e}
    <3>1. PICK j \in Table!Occupied(set) : x = after[j]
      BY <1>6, <1>9, <2>2 DEF Elements
    <3>2. j # i => x = slots[j] /\ slots[j] # slots[i]
      BY <1>9, <1>10, <2>1, <3>1
    <3> QED BY <1>3, <1>8, <3>1, <3>2 DEF Elements
  <2>3. ASSUME NEW x \in Elements(set) \ {set.slots[i]}
        PROVE  x \in Elements(r)
    BY <1>3, <1>6, <1>9, <1>10, <2>3 DEF Elements
  <2>4. e \in Elements(r)
    BY <1>6, <1>8, <1>9 DEF Elements
  <2> QED BY <2>2, <2>3, <2>4
<1> QED
  BY <1>3, <1>6, <1>8, <1>9, <1>11, <1>12, <1>13, <1>14 DEF Sound

\* The elements are as many as their keys, and as the count says.
LEMMA CountIs ==
  ASSUME NEW E, NEW key, NEW set, Sound(set, E, key)
  PROVE  Cardinality({key[e] : e \in Elements(set)}) = set.num
<1> DEFINE K == {key[e] : e \in Elements(set)}
           f == [i \in Table!Occupied(set) |-> key[set.slots[i]]]
<1>1. IsFiniteSet(Table!Occupied(set))
  <2>1. set.size \in Nat
    BY HashSetFacts DEF Sound
  <2>2. IsFiniteSet(0..(set.size - 1))
    BY <2>1, FS_Interval
  <2>3. Table!Occupied(set) \subseteq 0..(set.size - 1)
    BY DEF Table!Occupied
  <2> QED BY <2>2, <2>3, FS_Subset
<1>2. f \in [Table!Occupied(set) -> K]
  BY DEF Elements
<1>3. \A i, j \in Table!Occupied(set) : f[i] = f[j] => i = j
  BY DEF Sound, Once
<1>4. \A k \in K : \E i \in Table!Occupied(set) : f[i] = k
  BY DEF Elements
<1> HIDE DEF f, K
<1>5. f \in Bijection(Table!Occupied(set), K)
  BY <1>2, <1>3, <1>4 DEF Bijection, Injection, Surjection, IsInjective
<1>6. Cardinality(K) = Cardinality(Table!Occupied(set))
  BY <1>1, <1>5, FS_Bijection DEF ExistsBijection
<1> QED BY <1>6 DEF K, Sound

-----------------------------------------------------------------------------
(* Entries *)

LocationKey == [loc \in Locations |-> loc]

AllEntries ==
  [referent : Objects, out_of_line : BOOLEAN,
   inline : [0..(WEAK_INLINE_COUNT - 1) -> Locations \cup {Nil}],
   refs : HashSetsOf(Locations)]

EntryKey == [e \in AllEntries |-> e.referent]

\* What WeakTable assumes, and that nil is no weak_entry_t.
TableFits ==
  /\ Nil \notin Objects \cup Locations \cup AllEntries
  /\ ObjectHashes \cup LocationHashes \subseteq Nat
  /\ \A size \in {WEAK_INLINE_COUNT, FirstSize, ShrinkBy} :
       size \in Nat /\ Table!IsSize(size)
  /\ {ShrinkSize, ShrinkLoad} \subseteq Nat
  /\ 2 * ShrinkBy <= ShrinkLoad /\ 2 * ShrinkBy <= ShrinkSize

\* A quarter of the indices is free, and a search in vain ends before it has
\* gone all the way round.
Roomy(set) ==
  /\ set.size = 0 \/ Table!IsSize(set.size)
  /\ 4 * set.num <= 3 * set.size
  /\ set.max = 0 \/ set.max < set.size - 1

EntryOk(e) ==
  /\ e \in AllEntries
  /\ Sound(e.refs, Locations, LocationKey)
  /\ Roomy(e.refs)
  /\ ~e.out_of_line =>
       \A i, j \in 0..(WEAK_INLINE_COUNT - 1) :
         e.inline[i] = e.inline[j] /\ e.inline[i] # Nil => i = j

LEMMA LocationsKeyed ==
  ASSUME TableFits
  PROVE  /\ Keyed(Locations, LocationKey) /\ Nil \notin Locations
         /\ \A l \in Locations : LocationKey[l] = l
         /\ WEAK_INLINE_COUNT \in Nat /\ WEAK_INLINE_COUNT > 1
<1>1. Table!IsSize(WEAK_INLINE_COUNT)
  BY DEF TableFits
<1>2. WEAK_INLINE_COUNT \in Nat /\ WEAK_INLINE_COUNT > 1
  BY <1>1, SizeGrows
<1>3. Nil \notin Locations
  BY DEF TableFits
<1> QED BY <1>2, <1>3 DEF Keyed, LocationKey, Keys

LEMMA EntryFacts ==
  ASSUME NEW e \in AllEntries
  PROVE  /\ e = [referent |-> e.referent, out_of_line |-> e.out_of_line,
                 inline |-> e.inline, refs |-> e.refs]
         /\ e.referent \in Objects /\ e.out_of_line \in BOOLEAN
         /\ e.inline \in
              [0..(WEAK_INLINE_COUNT - 1) -> Locations \cup {Nil}]
         /\ e.refs \in HashSetsOf(Locations)
BY DEF AllEntries

LEMMA EntryMade ==
  ASSUME NEW referent \in Objects, NEW out \in BOOLEAN,
         NEW inline \in [0..(WEAK_INLINE_COUNT - 1) -> Locations \cup {Nil}],
         NEW refs \in HashSetsOf(Locations)
  PROVE  [referent |-> referent, out_of_line |-> out, inline |-> inline,
          refs |-> refs] \in AllEntries
BY DEF AllEntries

LEMMA RefsExchanged ==
  ASSUME NEW e \in AllEntries, NEW refs \in HashSetsOf(Locations),
         NEW r, r = [e EXCEPT !.refs = refs]
  PROVE  /\ r \in AllEntries /\ r.refs = refs
         /\ r.referent = e.referent /\ r.out_of_line = e.out_of_line
         /\ r.inline = e.inline
<1>1. r = [referent |-> e.referent, out_of_line |-> e.out_of_line,
           inline |-> e.inline, refs |-> refs]
  BY EntryFacts
<1> QED BY <1>1, EntryFacts, EntryMade

LEMMA InlineExchanged ==
  ASSUME NEW e \in AllEntries, NEW i \in 0..(WEAK_INLINE_COUNT - 1),
         NEW l \in Locations \cup {Nil}, NEW r, r = [e EXCEPT !.inline[i] = l]
  PROVE  /\ r \in AllEntries /\ r.refs = e.refs
         /\ r.referent = e.referent /\ r.out_of_line = e.out_of_line
         /\ r.inline[i] = l
         /\ \A j \in 0..(WEAK_INLINE_COUNT - 1) :
              j # i => r.inline[j] = e.inline[j]
<1>1. PICK inline : inline = [e.inline EXCEPT ![i] = l]
  OBVIOUS
<1>2. /\ e.inline \in [0..(WEAK_INLINE_COUNT - 1) -> Locations \cup {Nil}]
  BY EntryFacts
<1>3. /\ inline \in [0..(WEAK_INLINE_COUNT - 1) -> Locations \cup {Nil}]
      /\ inline[i] = l
      /\ \A j \in 0..(WEAK_INLINE_COUNT - 1) : j # i => inline[j] = e.inline[j]
  BY <1>1, <1>2
<1>4. r = [referent |-> e.referent, out_of_line |-> e.out_of_line,
           inline |-> inline, refs |-> e.refs]
  <2>1. r = [e EXCEPT !.inline = inline]
    BY <1>1
  <2> QED BY <2>1, EntryFacts
<1>5. /\ r.inline = inline /\ r.refs = e.refs
      /\ r.referent = e.referent /\ r.out_of_line = e.out_of_line
  BY <1>4
<1>6. r \in AllEntries
  <2>1. PICK referent, out, refs :
          referent = e.referent /\ out = e.out_of_line /\ refs = e.refs
    OBVIOUS
  <2>2. /\ referent \in Objects /\ out \in BOOLEAN
        /\ refs \in HashSetsOf(Locations)
    BY <2>1, EntryFacts
  <2>3. r = [referent |-> referent, out_of_line |-> out, inline |-> inline,
             refs |-> refs]
    BY <1>4, <2>1
  <2> QED BY <1>3, <2>2, <2>3 DEF AllEntries
<1> QED BY <1>3, <1>5, <1>6

\* An array that has become too small is replaced by one twice its size.
LEMMA GrowRefsIs ==
  ASSUME TableFits, HashOk, NEW e \in AllEntries, Once(e.refs, LocationKey),
         NEW c, c = Cardinality(Table!Occupied(e.refs)),
         e.refs.size = 0 \/ Table!IsSize(e.refs.size),
         NEW size, size = IF e.refs.size = 0 THEN 8 ELSE e.refs.size * 2,
         4 * (c + 1) <= 3 * size,
         NEW l \in Locations \ Elements(e.refs),
         NEW r, r = Table!grow_refs_and_insert(e, l)
  PROVE  /\ r \in AllEntries
         /\ r.referent = e.referent /\ r.out_of_line = e.out_of_line
         /\ Sound(r.refs, Locations, LocationKey) /\ Roomy(r.refs)
         /\ Elements(r.refs) = Elements(e.refs) \cup {l}
<1>1. Table!IsSize(size) /\ size \in Nat
  <2>1. Table!IsSize(8)
    <3>1. /\ 3 \in Nat /\ 3 > 0 /\ 2 \in Nat /\ 1 \in Nat /\ 0 \in Nat
          /\ 3 - 1 = 2 /\ 2 - 1 = 1 /\ 1 - 1 = 0
      OBVIOUS
    <3>2. /\ Table!Power[3] = 2 * Table!Power[2]
          /\ Table!Power[2] = 2 * Table!Power[1]
          /\ Table!Power[1] = 2 * Table!Power[0]
          /\ Table!Power[0] = 1
      BY <3>1, PowerIs
    <3>3. Table!Power[3] = 8
      BY <3>2
    <3> QED BY <3>1, <3>3, IsSizeIs
  <2> QED BY <2>1, SizeGrows
<1>2. PICK old : old = e.refs
  OBVIOUS
<1>3. old \in HashSetsOf(Locations) /\ Nil \notin Locations
      /\ Keyed(Locations, LocationKey)
  BY <1>2, EntryFacts, LocationsKeyed
<1>4. c \in Nat
  BY <1>2, <1>3, OccupiedIs
<1>5. \A i \in Table!Occupied(old) : old.slots[i] = LocationKey[old.slots[i]]
  BY <1>3, OccupiedIs, LocationsKeyed
<1>6. PICK grown : grown = Table!Rehash(old, Table!EmptySet(size), old.slots)
  OBVIOUS
<1>7. c <= size
  BY <1>1, <1>4
<1>8. /\ Sound(grown, Locations, LocationKey)
      /\ grown.size = size /\ grown.num = c
      /\ grown.max = 0 \/ grown.max < grown.num
      /\ Elements(grown) = Elements(old)
  <2>1. PICK at : at = old.slots
    OBVIOUS
  <2>2. \A i \in Table!Occupied(old) : at[i] = LocationKey[old.slots[i]]
    BY <1>5, <2>1
  <2>3. grown = Table!Rehash(old, Table!EmptySet(size), at)
    BY <1>6, <2>1
  <2>4. Once(old, LocationKey) /\ c = Cardinality(Table!Occupied(old))
    BY <1>2
  <2> QED BY <1>1, <1>3, <1>7, <2>2, <2>3, <2>4, RehashIs
<1>9. PICK refs : refs = Table!Insert(grown, l, l)
  OBVIOUS
<1>10. /\ Sound(refs, Locations, LocationKey)
       /\ refs.size = grown.size /\ refs.num = grown.num + 1
       /\ refs.max = grown.max \/ refs.max <= grown.num
       /\ Elements(refs) = Elements(grown) \cup {l}
  <2>1. LocationKey[l] = l
    BY LocationsKeyed
  <2>2. \A x \in Elements(grown) : LocationKey[x] # LocationKey[l]
    <3>1. Elements(grown) \subseteq Locations
      BY <1>3, <1>8, OccupiedIs
    <3> QED BY <1>2, <1>8, <3>1, LocationsKeyed
  <2>3. grown.num < grown.size
    BY <1>1, <1>4, <1>8
  <2>4. refs = Table!Insert(grown, LocationKey[l], l) /\ l \in Locations
    BY <1>9, <2>1
  <2> QED BY <1>3, <1>8, <2>2, <2>3, <2>4, InsertIs
<1>11. Roomy(refs)
  <2>1. refs.max \in Nat /\ grown.max \in Nat
    BY <1>8, <1>10, HashSetFacts DEF Sound
  <2> QED BY <1>1, <1>4, <1>8, <1>10, <2>1 DEF Roomy
<1>12. r = [e EXCEPT !.refs = refs]
  BY <1>2, <1>6, <1>9 DEF Table!grow_refs_and_insert
<1>13. refs \in HashSetsOf(Locations)
  BY <1>10 DEF Sound
<1> QED BY <1>2, <1>8, <1>10, <1>11, <1>12, <1>13, RefsExchanged

\* Adding a variable to an entry, whatever array it is in.
LEMMA AppendIs ==
  ASSUME TableFits, HashOk, NEW e, EntryOk(e),
         NEW l \in Locations, l \notin Table!Referrers(e),
         NEW r, r = Table!append_referrer(e, l)
  PROVE  /\ EntryOk(r) /\ r.referent = e.referent
         /\ Table!Referrers(r) = Table!Referrers(e) \cup {l}
<1>1. /\ e \in AllEntries /\ Sound(e.refs, Locations, LocationKey)
      /\ Roomy(e.refs)
  BY DEF EntryOk
<1>2. /\ Keyed(Locations, LocationKey) /\ Nil \notin Locations
      /\ WEAK_INLINE_COUNT \in Nat /\ WEAK_INLINE_COUNT > 1
      /\ \A x \in Locations : LocationKey[x] = x
  BY LocationsKeyed
<1>3. ASSUME NEW x \in AllEntries, x.out_of_line
      PROVE  Table!Referrers(x) = Elements(x.refs)
  BY <1>3 DEF Table!Referrers, Elements
<1>4. CASE e.out_of_line
  <2>1. PICK old : old = e.refs
    OBVIOUS
  <2>2. /\ Sound(old, Locations, LocationKey) /\ Roomy(old)
        /\ old \in HashSetsOf(Locations)
        /\ old.size \in Nat /\ old.num \in Nat /\ old.max \in Nat
    BY <1>1, <2>1, HashSetFacts DEF Sound
  <2>3. l \notin Elements(old)
    BY <1>1, <1>3, <1>4, <2>1
  <2>4. r = IF old.num >= (old.size * 3) \div 4
            THEN Table!grow_refs_and_insert(e, l)
            ELSE [e EXCEPT !.refs = Table!Insert(old, l, l)]
    BY <1>4, <2>1 DEF Table!append_referrer, Table!append_out_of_line
  <2>5. old.size = 0 \/ (Table!IsSize(old.size) /\ old.size > 1)
    BY <2>2, SizeGrows DEF Roomy
  <2>6. CASE old.num >= (old.size * 3) \div 4
    <3>1. PICK c : c = Cardinality(Table!Occupied(old))
      OBVIOUS
    <3>2. PICK size : size = IF old.size = 0 THEN 8 ELSE old.size * 2
      OBVIOUS
    <3>3. c = old.num /\ Once(old, LocationKey)
      BY <2>2, <3>1 DEF Sound
    <3>4. 4 * (c + 1) <= 3 * size
      <4>1. 4 * old.num <= 3 * old.size
        BY <2>2 DEF Roomy
      <4> QED BY <2>2, <2>5, <3>2, <3>3, <4>1
    <3>5. r = Table!grow_refs_and_insert(e, l)
      BY <2>4, <2>6
    <3>6. /\ r \in AllEntries
          /\ r.referent = e.referent /\ r.out_of_line = e.out_of_line
          /\ Sound(r.refs, Locations, LocationKey) /\ Roomy(r.refs)
          /\ Elements(r.refs) = Elements(e.refs) \cup {l}
      BY <1>1, <2>1, <2>3, <2>5, <3>1, <3>2, <3>3, <3>4, <3>5, GrowRefsIs
    <3> QED BY <1>1, <1>3, <1>4, <3>6 DEF EntryOk
  <2>7. CASE old.num < (old.size * 3) \div 4
    <3>1. 4 * (old.num + 1) <= 3 * old.size /\ old.num < old.size
      BY <2>2, <2>7
    <3>2. PICK refs : refs = Table!Insert(old, l, l)
      OBVIOUS
    <3>3. /\ Sound(refs, Locations, LocationKey)
          /\ refs.size = old.size /\ refs.num = old.num + 1
          /\ refs.max = old.max \/ refs.max <= old.num
          /\ Elements(refs) = Elements(old) \cup {l}
      <4>1. \A x \in Elements(old) : LocationKey[x] # LocationKey[l]
        BY <1>2, <2>2, <2>3, OccupiedIs
      <4>2. refs = Table!Insert(old, LocationKey[l], l)
        BY <1>2, <3>2
      <4> QED BY <1>2, <2>2, <3>1, <4>1, <4>2, InsertIs
    <3>4. refs \in HashSetsOf(Locations) /\ refs.max \in Nat
      BY <3>3, HashSetFacts DEF Sound
    <3>5. Roomy(refs)
      <4>1. old.max = 0 \/ old.max < old.size - 1
        BY <2>2 DEF Roomy
      <4>2. refs.max = 0 \/ refs.max < refs.size - 1
        BY <2>2, <3>1, <3>3, <3>4, <4>1
      <4> QED BY <2>2, <3>1, <3>3, <4>2 DEF Roomy
    <3>6. r = [e EXCEPT !.refs = refs]
      BY <2>2, <2>4, <2>7, <3>2
    <3>7. /\ r \in AllEntries /\ r.refs = refs
          /\ r.referent = e.referent /\ r.out_of_line = e.out_of_line
      BY <1>1, <3>4, <3>6, RefsExchanged
    <3> QED BY <1>1, <1>3, <1>4, <2>1, <3>3, <3>5, <3>7 DEF EntryOk
  <2>8. (old.size * 3) \div 4 \in Int
    BY <2>2
  <2> QED BY <2>2, <2>6, <2>7, <2>8
<1>5. CASE ~e.out_of_line
  <2> DEFINE free == {i \in 0..(WEAK_INLINE_COUNT - 1) : e.inline[i] = Nil}
  <2>1. /\ e.inline \in [0..(WEAK_INLINE_COUNT - 1) -> Locations \cup {Nil}]
        /\ \A i, j \in 0..(WEAK_INLINE_COUNT - 1) :
             e.inline[i] = e.inline[j] /\ e.inline[i] # Nil => i = j
    BY <1>1, <1>5, EntryFacts DEF EntryOk
  <2>2. \A x \in AllEntries :
          ~x.out_of_line =>
            Table!Referrers(x) =
              {x.inline[i] : i \in 0..(WEAK_INLINE_COUNT - 1)} \ {Nil}
    BY EntryFacts DEF Table!Referrers
  <2>3. r = IF free # {}
            THEN [e EXCEPT !.inline[Table!Least(free)] = l]
            ELSE Table!append_out_of_line(Table!move_out_of_line(e), l)
    BY <1>5, <2>1 DEF Table!append_referrer
  <2>4. CASE free # {}
    <3>1. PICK i : i = Table!Least(free)
      OBVIOUS
    <3>2. free \in SUBSET Nat
      BY <1>2
    <3>3. i \in 0..(WEAK_INLINE_COUNT - 1) /\ e.inline[i] = Nil
      BY <2>4, <3>1, <3>2, LeastIs
    <3> HIDE DEF free
    <3>4. r = [e EXCEPT !.inline[i] = l]
      BY <2>3, <2>4, <3>1
    <3>5. /\ r \in AllEntries /\ r.refs = e.refs
          /\ r.referent = e.referent /\ r.out_of_line = e.out_of_line
          /\ r.inline[i] = l
          /\ \A j \in 0..(WEAK_INLINE_COUNT - 1) :
               j # i => r.inline[j] = e.inline[j]
      BY <1>1, <3>3, <3>4, InlineExchanged
    <3>6. \A j \in 0..(WEAK_INLINE_COUNT - 1) : e.inline[j] # l
      BY <1>1, <1>2, <1>5, <2>2
    <3>7. \A j, k \in 0..(WEAK_INLINE_COUNT - 1) :
            r.inline[j] = r.inline[k] /\ r.inline[j] # Nil => j = k
      BY <2>1, <3>5, <3>6
    <3>8. {r.inline[j] : j \in 0..(WEAK_INLINE_COUNT - 1)} \ {Nil} =
            ({e.inline[j] : j \in 0..(WEAK_INLINE_COUNT - 1)} \ {Nil})
              \cup {l}
      <4>1. ASSUME NEW x \in {r.inline[j] : j \in 0..(WEAK_INLINE_COUNT - 1)},
                   x # Nil
            PROVE  x = l \/ x \in {e.inline[j] :
                                     j \in 0..(WEAK_INLINE_COUNT - 1)}
        BY <3>5, <4>1
      <4>2. ASSUME NEW x \in {e.inline[j] : j \in 0..(WEAK_INLINE_COUNT - 1)},
                   x # Nil
            PROVE  x \in {r.inline[j] : j \in 0..(WEAK_INLINE_COUNT - 1)}
        BY <3>3, <3>5, <4>2
      <4>3. l # Nil /\ l \in {r.inline[j] : j \in 0..(WEAK_INLINE_COUNT - 1)}
        BY <1>2, <3>3, <3>5
      <4> QED BY <4>1, <4>2, <4>3
    <3>9. Table!Referrers(r) = Table!Referrers(e) \cup {l}
      BY <1>1, <1>5, <2>2, <3>5, <3>8
    <3> QED BY <1>1, <3>5, <3>7, <3>9 DEF EntryOk
  <2>5. CASE free = {}
    <3>1. PICK moved : moved = Table!move_out_of_line(e)
      OBVIOUS
    <3>2. PICK refs : refs = [slots |-> e.inline, size |-> WEAK_INLINE_COUNT,
                              num |-> WEAK_INLINE_COUNT, max |-> 0,
                              bad |-> FALSE]
      OBVIOUS
    <3>3. refs \in HashSetsOf(Locations)
      <4>1. PICK slots, n : slots = e.inline /\ n = WEAK_INLINE_COUNT
        OBVIOUS
      <4>2. slots \in [0..(n - 1) -> Locations \cup {Nil}]
            /\ n \in Nat /\ 0 \in Nat /\ FALSE \in BOOLEAN
        BY <1>2, <2>1, <4>1
      <4>3. [slots |-> slots, size |-> n, num |-> n, max |-> 0, bad |-> FALSE]
              \in HashSetsOf(Locations)
        BY ONLY <4>2, HashSetMade
      <4> QED BY <3>2, <4>1, <4>3
    <3>4. moved = [referent |-> e.referent, out_of_line |-> TRUE,
                   inline |-> Table!NoReferrers, refs |-> refs]
      <4>1. moved = [e EXCEPT !.out_of_line = TRUE,
                              !.inline = Table!NoReferrers, !.refs = refs]
        BY <3>1, <3>2 DEF Table!move_out_of_line
      <4>2. PICK referent, out, inline, old :
              /\ referent = e.referent /\ out = e.out_of_line
              /\ inline = e.inline /\ old = e.refs
        OBVIOUS
      <4>3. e = [referent |-> referent, out_of_line |-> out,
                 inline |-> inline, refs |-> old]
        BY <1>1, <4>2, EntryFacts
      <4>4. moved = [referent |-> referent, out_of_line |-> TRUE,
                     inline |-> Table!NoReferrers, refs |-> refs]
        BY <4>1, <4>3
      <4> QED BY <4>2, <4>4
    <3>5. /\ moved \in AllEntries /\ moved.out_of_line
          /\ moved.referent = e.referent /\ moved.refs = refs
      <4>1. Table!NoReferrers \in
              [0..(WEAK_INLINE_COUNT - 1) -> Locations \cup {Nil}]
        BY DEF Table!NoReferrers
      <4>2. e.referent \in Objects
        BY <1>1, EntryFacts
      <4>3. moved \in AllEntries
        BY <3>3, <3>4, <4>1, <4>2 DEF AllEntries
      <4> QED BY <3>4, <4>3
    <3>6. /\ refs.slots = e.inline /\ refs.size = WEAK_INLINE_COUNT
          /\ refs.num = WEAK_INLINE_COUNT
      BY <3>2
    <3>7. Table!Occupied(refs) = 0..(WEAK_INLINE_COUNT - 1)
      BY <2>5, <3>6 DEF Table!Occupied
    <3>8. Cardinality(Table!Occupied(refs)) = WEAK_INLINE_COUNT
      <4>1. PICK n \in Nat : n = WEAK_INLINE_COUNT /\ n > 1
        BY <1>2
      <4>2. 0 \in Int /\ n - 1 \in Int
        OBVIOUS
      <4>3. Cardinality(0..(n - 1)) = n
        BY <4>1, <4>2, FS_Interval
      <4> QED BY <3>7, <4>1, <4>3
    <3>9. Once(refs, LocationKey)
      <4> SUFFICES ASSUME NEW i \in 0..(WEAK_INLINE_COUNT - 1),
                          NEW j \in 0..(WEAK_INLINE_COUNT - 1),
                          LocationKey[e.inline[i]] = LocationKey[e.inline[j]]
                   PROVE  i = j
        BY <3>6, <3>7 DEF Once
      <4>1. e.inline[i] # Nil /\ e.inline[j] # Nil
        BY <2>5
      <4>2. e.inline[i] \in Locations /\ e.inline[j] \in Locations
        BY <2>1, <4>1
      <4> QED BY <1>2, <2>1, <4>1, <4>2
    <3>10. Elements(refs) = Table!Referrers(e)
      <4>1. Elements(refs) =
              {e.inline[i] : i \in 0..(WEAK_INLINE_COUNT - 1)}
        BY <3>6, <3>7 DEF Elements
      <4>2. Nil \notin {e.inline[i] : i \in 0..(WEAK_INLINE_COUNT - 1)}
        BY <2>5
      <4> QED BY <1>1, <1>5, <2>2, <4>1, <4>2
    <3>11. r = Table!grow_refs_and_insert(moved, l)
      <4>1. WEAK_INLINE_COUNT >= (WEAK_INLINE_COUNT * 3) \div 4
        BY <1>2
      <4>2. r = Table!append_out_of_line(moved, l)
        BY <2>3, <2>5, <3>1
      <4> QED BY <3>5, <3>6, <4>1, <4>2 DEF Table!append_out_of_line
    <3>12. PICK size : size = WEAK_INLINE_COUNT * 2
      OBVIOUS
    <3>13. 4 * (WEAK_INLINE_COUNT + 1) <= 3 * size
      BY <1>2, <3>12
    <3>14. Table!IsSize(WEAK_INLINE_COUNT) /\ WEAK_INLINE_COUNT # 0
      BY <1>2 DEF TableFits
    <3>15. /\ r \in AllEntries
           /\ r.referent = moved.referent /\ r.out_of_line = moved.out_of_line
           /\ Sound(r.refs, Locations, LocationKey) /\ Roomy(r.refs)
           /\ Elements(r.refs) = Elements(moved.refs) \cup {l}
      <4>1. PICK c : c = WEAK_INLINE_COUNT
        OBVIOUS
      <4>2. c = Cardinality(Table!Occupied(moved.refs))
        BY <3>5, <3>8, <4>1
      <4>3. size = IF moved.refs.size = 0 THEN 8 ELSE moved.refs.size * 2
        BY <3>5, <3>6, <3>12, <3>14
      <4>4. Table!IsSize(moved.refs.size) /\ 4 * (c + 1) <= 3 * size
        BY <3>5, <3>6, <3>13, <3>14, <4>1
      <4>5. l \in Locations \ Elements(moved.refs)
        BY <3>5, <3>10
      <4>6. Once(moved.refs, LocationKey)
        BY <3>5, <3>9
      <4> QED BY <3>5, <3>11, <4>2, <4>3, <4>4, <4>5, <4>6, GrowRefsIs
    <3> QED BY <1>3, <3>5, <3>10, <3>15 DEF EntryOk
  <2> QED BY <2>4, <2>5
<1> QED BY <1>4, <1>5

\* A search in an entry sees a variable exactly if it is there.
LEMMA RegisteredIs ==
  ASSUME TableFits, HashOk, NEW e, EntryOk(e), NEW l \in Locations
  PROVE  /\ Table!Registered(e, l) <=> l \in Table!Referrers(e)
         /\ e.out_of_line => Table!Referrers(e) = Elements(e.refs)
         /\ ~e.out_of_line =>
              Table!Referrers(e) =
                {e.inline[i] : i \in 0..(WEAK_INLINE_COUNT - 1)} \ {Nil}
<1>1. /\ e \in AllEntries /\ Sound(e.refs, Locations, LocationKey)
      /\ e.inline \in [0..(WEAK_INLINE_COUNT - 1) -> Locations \cup {Nil}]
  BY EntryFacts DEF EntryOk
<1>2. /\ Keyed(Locations, LocationKey) /\ Nil \notin Locations
      /\ \A x \in Locations : LocationKey[x] = x
  BY LocationsKeyed
<1>3. e.out_of_line => Table!Referrers(e) = Elements(e.refs)
  BY DEF Table!Referrers, Elements
<1>4. ~e.out_of_line =>
        Table!Referrers(e) =
          {e.inline[i] : i \in 0..(WEAK_INLINE_COUNT - 1)} \ {Nil}
  BY <1>1 DEF Table!Referrers
<1>5. ASSUME e.out_of_line
      PROVE  Table!Registered(e, l) <=> l \in Table!Referrers(e)
  <2>1. PICK matches \in SUBSET Locations : matches = {l}
    OBVIOUS
  <2>2. l \in Keys
    BY DEF Keys
  <2>3. \A x \in Elements(e.refs) \cap matches : LocationKey[x] = l
    BY <1>2, <2>1
  <2>4. Table!Found(e.refs, l, matches) # {} <=>
          Elements(e.refs) \cap matches # {}
    BY <1>1, <1>2, <2>2, <2>3, FoundIs
  <2> QED BY <1>3, <1>5, <2>1, <2>4 DEF Table!Registered
<1>6. ASSUME ~e.out_of_line
      PROVE  Table!Registered(e, l) <=> l \in Table!Referrers(e)
  BY <1>1, <1>2, <1>4, <1>6 DEF Table!Registered
<1> QED BY <1>3, <1>4, <1>5, <1>6

LEMMA RemoveIs ==
  ASSUME TableFits, HashOk, NEW e, EntryOk(e), NEW l \in Locations,
         NEW r, r = Table!remove_referrer(e, l)
  PROVE  /\ EntryOk(r) /\ r.referent = e.referent
         /\ Table!Referrers(r) = Table!Referrers(e) \ {l}
<1>1. /\ e \in AllEntries /\ Sound(e.refs, Locations, LocationKey)
      /\ Roomy(e.refs)
      /\ e.inline \in [0..(WEAK_INLINE_COUNT - 1) -> Locations \cup {Nil}]
  BY EntryFacts DEF EntryOk
<1>2. /\ Keyed(Locations, LocationKey) /\ Nil \notin Locations
      /\ WEAK_INLINE_COUNT \in Nat /\ WEAK_INLINE_COUNT > 1
      /\ \A x \in Locations : LocationKey[x] = x
  BY LocationsKeyed
<1>3. CASE ~Table!Registered(e, l)
  <2>1. r = e
    BY <1>3 DEF Table!remove_referrer
  <2> QED BY <1>3, <2>1, RegisteredIs
<1>4. CASE Table!Registered(e, l) /\ e.out_of_line
  <2>1. PICK matches \in SUBSET Locations : matches = {l}
    OBVIOUS
  <2>2. PICK old : old = e.refs
    OBVIOUS
  <2>3. PICK i : i = Table!Probe(old, l,
                                 Table!Least(Table!Found(old, l, matches)))
    OBVIOUS
  <2>4. i \in Table!Occupied(old) /\ old.slots[i] = l
    <3>1. l \in Keys
      BY DEF Keys
    <3>2. \A x \in Elements(old) \cap matches : LocationKey[x] = l
      BY <1>2, <2>1
    <3>3. Table!Found(old, l, matches) # {}
      BY <1>4, <2>1, <2>2 DEF Table!Registered
    <3>4. Sound(old, Locations, LocationKey)
      BY <1>1, <2>2
    <3>5. i \in Table!Occupied(old) /\ old.slots[i] \in matches
      BY <1>2, <2>3, <3>1, <3>2, <3>3, <3>4, FoundIs
    <3> QED BY <2>1, <3>5
  <2>5. PICK refs : refs = Table!Vacate(old, i)
    OBVIOUS
  <2>6. /\ Sound(refs, Locations, LocationKey)
        /\ refs.size = old.size /\ refs.num = old.num - 1
        /\ refs.max = old.max
        /\ Elements(refs) = Elements(old) \ {l}
    BY <1>1, <1>2, <2>2, <2>4, <2>5, VacateIs
  <2>7. Roomy(refs)
    <3>1. old.num \in Nat /\ old.size \in Nat /\ refs.num \in Nat
      BY <1>1, <2>2, <2>6, HashSetFacts DEF Sound
    <3> QED BY <1>1, <2>2, <2>6, <3>1 DEF Roomy
  <2>8. refs \in HashSetsOf(Locations)
    BY <2>6 DEF Sound
  <2>9. r = [e EXCEPT !.refs = refs]
    BY <1>4, <2>1, <2>2, <2>3, <2>5 DEF Table!remove_referrer
  <2>10. /\ r \in AllEntries /\ r.refs = refs
         /\ r.referent = e.referent /\ r.out_of_line = e.out_of_line
    BY <1>1, <2>8, <2>9, RefsExchanged
  <2>11. EntryOk(r)
    BY <1>4, <2>6, <2>7, <2>10 DEF EntryOk
  <2> QED BY <1>4, <2>2, <2>6, <2>10, <2>11, RegisteredIs
<1>5. CASE Table!Registered(e, l) /\ ~e.out_of_line
  <2> DEFINE held == {j \in 0..(WEAK_INLINE_COUNT - 1) : e.inline[j] = l}
  <2>1. held # {} /\ held \in SUBSET Nat
    BY <1>1, <1>2, <1>5 DEF Table!Registered
  <2>2. PICK i : i = Table!Least(held)
    OBVIOUS
  <2>3. i \in 0..(WEAK_INLINE_COUNT - 1) /\ e.inline[i] = l
    BY <2>1, <2>2, LeastIs
  <2>4. r = [e EXCEPT !.inline[i] = Nil]
    BY <1>1, <1>5, <2>2 DEF Table!remove_referrer
  <2> HIDE DEF held
  <2>5. /\ r \in AllEntries /\ r.refs = e.refs
        /\ r.referent = e.referent /\ r.out_of_line = e.out_of_line
        /\ r.inline[i] = Nil
        /\ \A j \in 0..(WEAK_INLINE_COUNT - 1) :
             j # i => r.inline[j] = e.inline[j]
    BY <1>1, <2>3, <2>4, InlineExchanged
  <2>6. \A j, k \in 0..(WEAK_INLINE_COUNT - 1) :
          e.inline[j] = e.inline[k] /\ e.inline[j] # Nil => j = k
    BY <1>5 DEF EntryOk
  <2>7. \A j, k \in 0..(WEAK_INLINE_COUNT - 1) :
          r.inline[j] = r.inline[k] /\ r.inline[j] # Nil => j = k
    BY <2>5, <2>6
  <2>8. EntryOk(r)
    BY <1>1, <2>5, <2>7 DEF EntryOk
  <2>9. \A j \in 0..(WEAK_INLINE_COUNT - 1) : j # i => e.inline[j] # l
    BY <1>2, <2>3, <2>6
  <2>10. {r.inline[j] : j \in 0..(WEAK_INLINE_COUNT - 1)} \ {Nil} =
           ({e.inline[j] : j \in 0..(WEAK_INLINE_COUNT - 1)} \ {Nil}) \ {l}
    <3>1. ASSUME NEW j \in 0..(WEAK_INLINE_COUNT - 1), r.inline[j] # Nil
          PROVE  /\ r.inline[j] # l
                 /\ r.inline[j] \in
                      {e.inline[k] : k \in 0..(WEAK_INLINE_COUNT - 1)}
      BY <2>5, <2>9, <3>1
    <3>2. ASSUME NEW j \in 0..(WEAK_INLINE_COUNT - 1), e.inline[j] # l
          PROVE  e.inline[j] \in
                   {r.inline[k] : k \in 0..(WEAK_INLINE_COUNT - 1)}
      BY <2>3, <2>5, <3>2
    <3> QED BY <3>1, <3>2
  <2>11. /\ Table!Referrers(e) =
              {e.inline[j] : j \in 0..(WEAK_INLINE_COUNT - 1)} \ {Nil}
         /\ Table!Referrers(r) =
              {r.inline[j] : j \in 0..(WEAK_INLINE_COUNT - 1)} \ {Nil}
    BY <1>5, <2>5, <2>8, RegisteredIs
  <2> QED BY <2>5, <2>8, <2>10, <2>11
<1> QED BY <1>3, <1>4, <1>5

LEMMA NewEntryIs ==
  ASSUME TableFits, HashOk, NEW o \in Objects, NEW l \in Locations,
         NEW e, e = Table!NewEntry(o, l)
  PROVE  EntryOk(e) /\ e.referent = o /\ Table!Referrers(e) = {l}
<1>1. /\ WEAK_INLINE_COUNT \in Nat /\ WEAK_INLINE_COUNT > 1
      /\ Nil \notin Locations
  BY LocationsKeyed
<1>2. PICK inline : inline = [Table!NoReferrers EXCEPT ![0] = l]
  OBVIOUS
<1>3. /\ inline \in [0..(WEAK_INLINE_COUNT - 1) -> Locations \cup {Nil}]
      /\ inline[0] = l
      /\ \A i \in 0..(WEAK_INLINE_COUNT - 1) : i # 0 => inline[i] = Nil
      /\ 0 \in 0..(WEAK_INLINE_COUNT - 1)
  BY <1>1, <1>2 DEF Table!NoReferrers
<1>4. PICK refs : refs = Table!EmptySet(0)
  OBVIOUS
<1>5. /\ Sound(refs, Locations, LocationKey)
      /\ refs.size = 0 /\ refs.num = 0 /\ refs.max = 0
  BY <1>1, <1>4, EmptyIs
<1>6. refs \in HashSetsOf(Locations) /\ Roomy(refs)
  BY <1>5 DEF Sound, Roomy
<1>7. e = [referent |-> o, out_of_line |-> FALSE, inline |-> inline,
           refs |-> refs]
  BY <1>2, <1>4 DEF Table!NewEntry
<1>8. e \in AllEntries
  BY <1>3, <1>6, <1>7 DEF AllEntries
<1>9. /\ e.referent = o /\ e.out_of_line = FALSE /\ e.inline = inline
      /\ e.refs = refs
  BY <1>7
<1>10. \A i, j \in 0..(WEAK_INLINE_COUNT - 1) :
         e.inline[i] = e.inline[j] /\ e.inline[i] # Nil => i = j
  BY <1>3, <1>9
<1>11. EntryOk(e)
  BY <1>5, <1>6, <1>8, <1>9, <1>10 DEF EntryOk
<1>12. {inline[i] : i \in 0..(WEAK_INLINE_COUNT - 1)} \ {Nil} = {l}
  BY <1>1, <1>3
<1> QED BY <1>9, <1>11, <1>12, RegisteredIs

\* An entry that looks empty has no variable; one out of line never does.
LEMMA LooksEmptyIs ==
  ASSUME TableFits, HashOk, NEW e, EntryOk(e), Table!LooksEmpty(e)
  PROVE  Table!Referrers(e) = {}
BY DEF Table!LooksEmpty, Table!Referrers

-----------------------------------------------------------------------------
(* The table *)

TableOk(set) ==
  /\ Sound(set, AllEntries, EntryKey)
  /\ Roomy(set)
  /\ \A e \in Elements(set) : EntryOk(e)

\* The variables that the table has for an object.
Holders(set, o) ==
  UNION {Table!Referrers(e) : e \in {x \in Elements(set) : x.referent = o}}

LEMMA EntriesKeyed ==
  ASSUME TableFits
  PROVE  /\ Keyed(AllEntries, EntryKey) /\ Nil \notin AllEntries
         /\ \A e \in AllEntries : EntryKey[e] = e.referent
<1>1. \A e \in AllEntries : e.referent \in Keys
  BY EntryFacts DEF Keys
<1>2. Nil \notin AllEntries
  BY DEF TableFits
<1> QED BY <1>1, <1>2 DEF Keyed, EntryKey

LEMMA EntryFound ==
  ASSUME TableFits, HashOk, NEW set, Sound(set, AllEntries, EntryKey),
         NEW o \in Objects
  PROVE  /\ Table!weak_entry_for_referent(set, o) # {} <=>
              \E e \in Elements(set) : e.referent = o
         /\ Table!weak_entry_for_referent(set, o) # {} =>
              LET i == Table!EntryIndex(set, o)
              IN  /\ i \in Table!Occupied(set)
                  /\ set.slots[i] \in Elements(set)
                  /\ set.slots[i].referent = o
<1>1. /\ Keyed(AllEntries, EntryKey) /\ Nil \notin AllEntries
      /\ \A e \in AllEntries : EntryKey[e] = e.referent
  BY EntriesKeyed
<1>2. PICK matches : matches = Table!EntriesOf(set, o)
  OBVIOUS
<1>3. Elements(set) \subseteq AllEntries
  BY <1>1, OccupiedIs DEF Sound
<1>4. matches = {e \in Elements(set) : e.referent = o}
  BY <1>2 DEF Table!EntriesOf, Elements
<1>5. matches \in SUBSET AllEntries
  BY <1>3, <1>4
<1>6. o \in Keys
  BY DEF Keys
<1>7. \A e \in Elements(set) \cap matches : EntryKey[e] = o
  BY <1>1, <1>3, <1>4
<1>8. /\ Table!Found(set, o, matches) # {} <=> Elements(set) \cap matches # {}
      /\ Table!Found(set, o, matches) # {} =>
           LET i == Table!Probe(set, o,
                                Table!Least(Table!Found(set, o, matches)))
           IN i \in Table!Occupied(set) /\ set.slots[i] \in matches
  BY <1>1, <1>5, <1>6, <1>7, FoundIs
<1>9. Table!weak_entry_for_referent(set, o) = Table!Found(set, o, matches)
  BY <1>2 DEF Table!weak_entry_for_referent
<1>10. Table!EntryIndex(set, o) =
         Table!Probe(set, o, Table!Least(Table!Found(set, o, matches)))
  BY <1>9 DEF Table!EntryIndex
<1> QED BY <1>4, <1>8, <1>9, <1>10

LEMMA OneEntry ==
  ASSUME TableFits, NEW set, Sound(set, AllEntries, EntryKey),
         NEW e \in Elements(set), NEW f \in Elements(set),
         e.referent = f.referent
  PROVE  e = f
<1>1. PICK i \in Table!Occupied(set) : e = set.slots[i]
  BY DEF Elements
<1>2. PICK j \in Table!Occupied(set) : f = set.slots[j]
  BY DEF Elements
<1>3. e \in AllEntries /\ f \in AllEntries
  BY EntriesKeyed, OccupiedIs DEF Sound
<1>4. EntryKey[e] = EntryKey[f]
  BY <1>3, EntriesKeyed
<1> QED BY <1>1, <1>2, <1>4 DEF Sound, Once

LEMMA HoldersAre ==
  ASSUME TableFits, NEW set, Sound(set, AllEntries, EntryKey),
         NEW e \in Elements(set)
  PROVE  Holders(set, e.referent) = Table!Referrers(e)
<1>1. {x \in Elements(set) : x.referent = e.referent} = {e}
  BY OneEntry
<1> QED BY <1>1 DEF Holders

\* A resize leaves the entries as they are.
LEMMA ResizeIs ==
  ASSUME TableFits, HashOk, NEW set, TableOk(set), NEW size,
         Table!IsSize(size), 4 * set.num <= 3 * size,
         NEW r, r = Table!weak_resize(set, size)
  PROVE  /\ TableOk(r) /\ r.size = size /\ r.num = set.num
         /\ Elements(r) = Elements(set)
<1>1. /\ Keyed(AllEntries, EntryKey) /\ Nil \notin AllEntries
      /\ \A e \in AllEntries : EntryKey[e] = e.referent
  BY EntriesKeyed
<1>2. /\ Sound(set, AllEntries, EntryKey) /\ set \in HashSetsOf(AllEntries)
      /\ set.num \in Nat /\ set.num = Cardinality(Table!Occupied(set))
      /\ Once(set, EntryKey)
  BY HashSetFacts DEF TableOk, Sound
<1>3. size \in Nat /\ size > 1
  BY SizeGrows
<1>4. PICK at : at = Table!Referents(set)
  OBVIOUS
<1>5. \A i \in Table!Occupied(set) : at[i] = EntryKey[set.slots[i]]
  BY <1>1, <1>2, <1>4, OccupiedIs DEF Table!Referents
<1>6. Cardinality(Table!Occupied(set)) <= size
  BY <1>2, <1>3
<1>7. r = Table!Rehash(set, Table!EmptySet(size), at)
  BY <1>4 DEF Table!weak_resize
<1>8. /\ Sound(r, AllEntries, EntryKey)
      /\ r.size = size /\ r.num = Cardinality(Table!Occupied(set))
      /\ r.max = 0 \/ r.max < r.num
      /\ Elements(r) = Elements(set)
  BY <1>1, <1>2, <1>3, <1>5, <1>6, <1>7, RehashIs
<1>9. r.max \in Nat
  BY <1>8, HashSetFacts DEF Sound
<1>10. Roomy(r)
  <2>1. r.max = 0 \/ r.max < r.size - 1
    BY <1>2, <1>3, <1>8, <1>9
  <2> QED BY <1>2, <1>8, <2>1 DEF Roomy
<1> QED BY <1>2, <1>8, <1>10 DEF TableOk

LEMMA GrowIs ==
  ASSUME TableFits, HashOk, NEW set, TableOk(set),
         NEW r, r = Table!weak_grow_maybe(set)
  PROVE  /\ TableOk(r) /\ 4 * (r.num + 1) <= 3 * r.size
         /\ Elements(r) = Elements(set)
<1>1. /\ Sound(set, AllEntries, EntryKey) /\ set.size \in Nat
      /\ set.num \in Nat
  BY HashSetFacts DEF TableOk, Sound
<1>2. /\ set.size = 0 \/ (Table!IsSize(set.size) /\ set.size > 1)
      /\ 4 * set.num <= 3 * set.size
  BY SizeGrows DEF TableOk, Roomy
<1>3. CASE set.num >= (set.size * 3) \div 4
  <2>1. PICK size : size = IF set.size = 0 THEN FirstSize ELSE set.size * 2
    OBVIOUS
  <2>2. Table!IsSize(FirstSize)
    BY DEF TableFits
  <2>3. FirstSize \in Nat /\ FirstSize > 1
    BY <2>2, SizeGrows
  <2>4. Table!IsSize(size)
    BY <1>2, <2>1, <2>2, SizeGrows
  <2>5. 4 * (set.num + 1) <= 3 * size /\ 4 * set.num <= 3 * size
    BY <1>1, <1>2, <2>1, <2>3
  <2>6. r = Table!weak_resize(set, size)
    BY <1>3, <2>1 DEF Table!weak_grow_maybe
  <2>7. /\ TableOk(r) /\ r.size = size /\ r.num = set.num
        /\ Elements(r) = Elements(set)
    BY <2>4, <2>5, <2>6, ResizeIs
  <2> QED BY <2>5, <2>7
<1>4. CASE ~(set.num >= (set.size * 3) \div 4)
  <2>1. r = set
    BY <1>4 DEF Table!weak_grow_maybe
  <2>2. 4 * (set.num + 1) <= 3 * set.size
    BY <1>1, <1>4
  <2> QED BY <2>1, <2>2
<1> QED BY <1>3, <1>4

LEMMA Quotients ==
  ASSUME NEW size \in Nat, NEW num \in Nat, NEW load \in Nat, NEW part \in Nat,
         part > 0, 2 * part <= load, num <= size \div load
  PROVE  2 * num <= size \div part
<1>1. load > 0
  OBVIOUS
<1>2. PICK q \in Nat : q = size \div load
  BY <1>1
<1>3. q * load <= size
  BY <1>1, <1>2
<1>4. num * load <= q * load
  BY <1>2
<1>5. num * (2 * part) <= num * load
  OBVIOUS
<1>6. num * (2 * part) = (2 * num) * part
  OBVIOUS
<1>7. PICK p \in Nat : p = num * load
  OBVIOUS
<1>8. PICK m \in Nat : m = q * load
  OBVIOUS
<1>9. PICK k \in Nat : k = (2 * num) * part
  OBVIOUS
<1>10. k <= size
  BY <1>3, <1>4, <1>5, <1>6, <1>7, <1>8, <1>9
<1>11. PICK d \in Nat, e \in Nat : size = part * d + e /\ e < part
                                   /\ d = size \div part
  <2>1. size \div part \in Nat /\ size % part \in Nat /\ size % part < part
        /\ size = part * (size \div part) + (size % part)
    OBVIOUS
  <2> QED BY <2>1
<1>12. PICK a \in Nat : a = 2 * num
  OBVIOUS
<1>13. a * part <= part * d + e
  BY <1>9, <1>10, <1>11, <1>12
<1>14. a <= d
  <2> SUFFICES ASSUME a > d PROVE FALSE
    OBVIOUS
  <2>1. a * part >= (d + 1) * part
    OBVIOUS
  <2>2. (d + 1) * part = part * d + part
    OBVIOUS
  <2>3. PICK x \in Nat : x = part * d
    OBVIOUS
  <2> QED BY <1>11, <1>13, <2>1, <2>2, <2>3
<1> QED BY <1>11, <1>12, <1>14

LEMMA CompactIs ==
  ASSUME TableFits, HashOk, NEW set, TableOk(set),
         NEW r, r = Table!weak_compact_maybe(set)
  PROVE  TableOk(r) /\ Elements(r) = Elements(set)
<1>1. /\ Sound(set, AllEntries, EntryKey) /\ set.size \in Nat
      /\ set.num \in Nat
  BY HashSetFacts DEF TableOk, Sound
<1>2. /\ ShrinkSize \in Nat /\ ShrinkLoad \in Nat /\ Table!IsSize(ShrinkBy)
      /\ 2 * ShrinkBy <= ShrinkLoad /\ 2 * ShrinkBy <= ShrinkSize
  BY DEF TableFits
<1>3. ShrinkBy \in Nat /\ ShrinkBy > 1
  BY <1>2, SizeGrows
<1>4. CASE set.size >= ShrinkSize /\ set.size \div ShrinkLoad >= set.num
  <2>1. 2 * ShrinkBy <= set.size /\ set.size # 0
    BY <1>1, <1>2, <1>3, <1>4
  <2>2. Table!IsSize(set.size)
    BY <2>1 DEF TableOk, Roomy
  <2>3. PICK size : size = set.size \div ShrinkBy
    OBVIOUS
  <2>4. Table!IsSize(size)
    BY <1>2, <2>1, <2>2, <2>3, SizeShrinks
  <2>5. size \in Nat
    BY <2>4, SizeGrows
  <2>6. set.num <= set.size \div ShrinkLoad
    <3>1. set.size \div ShrinkLoad \in Int
      BY <1>1, <1>2, <1>3
    <3> QED BY <1>1, <1>4, <3>1
  <2>7. 2 * set.num <= size
    <3>1. PICK n \in Nat, s \in Nat : n = set.num /\ s = set.size
      BY <1>1
    <3>2. n <= s \div ShrinkLoad
      BY <2>6, <3>1
    <3>3. 2 * n <= s \div ShrinkBy
      BY <1>2, <1>3, <3>2, Quotients
    <3> QED BY <2>3, <3>1, <3>3
  <2>8. 4 * set.num <= 3 * size
    BY <1>1, <2>5, <2>7
  <2>9. r = Table!weak_resize(set, size)
    BY <1>4, <2>3 DEF Table!weak_compact_maybe
  <2> QED BY <2>4, <2>8, <2>9, ResizeIs
<1>5. CASE ~(set.size >= ShrinkSize /\ set.size \div ShrinkLoad >= set.num)
  BY <1>5 DEF Table!weak_compact_maybe
<1> QED BY <1>4, <1>5

LEMMA EntryRemoveIs ==
  ASSUME TableFits, HashOk, NEW set, TableOk(set), NEW o \in Objects,
         \E e \in Elements(set) : e.referent = o,
         NEW r, r = Table!weak_entry_remove(set, o)
  PROVE  /\ TableOk(r)
         /\ Elements(r) = {e \in Elements(set) : e.referent # o}
<1>1. Sound(set, AllEntries, EntryKey) /\ Nil \notin AllEntries
  BY EntriesKeyed DEF TableOk
<1>2. PICK i : i = Table!EntryIndex(set, o)
  OBVIOUS
<1>3. /\ i \in Table!Occupied(set) /\ set.slots[i] \in Elements(set)
      /\ set.slots[i].referent = o
  BY <1>1, <1>2, EntryFound
<1>4. PICK v : v = Table!Vacate(set, i)
  OBVIOUS
<1>5. /\ Sound(v, AllEntries, EntryKey)
      /\ v.size = set.size /\ v.num = set.num - 1 /\ v.max = set.max
      /\ Elements(v) = Elements(set) \ {set.slots[i]}
  BY <1>1, <1>3, <1>4, VacateIs
<1>6. set.num \in Nat /\ set.size \in Nat
  BY <1>1, HashSetFacts DEF Sound
<1>7. Roomy(v)
  BY <1>5, <1>6 DEF TableOk, Roomy
<1>8. TableOk(v)
  BY <1>5, <1>7 DEF TableOk
<1>9. r = Table!weak_compact_maybe(v)
  BY <1>2, <1>4 DEF Table!weak_entry_remove
<1>10. TableOk(r) /\ Elements(r) = Elements(v)
  BY <1>8, <1>9, CompactIs
<1>11. \A e \in Elements(set) : e.referent = o => e = set.slots[i]
  BY <1>1, <1>3, OneEntry
<1> QED BY <1>3, <1>5, <1>10, <1>11

\* An entry is exchanged for one of the same object.
LEMMA EntryExchanged ==
  ASSUME TableFits, HashOk, NEW set, TableOk(set),
         NEW i \in Table!Occupied(set), NEW f, EntryOk(f),
         f.referent = set.slots[i].referent,
         NEW r, r = [set EXCEPT !.slots[i] = f]
  PROVE  /\ TableOk(r) /\ f \in Elements(r)
         /\ \A x \in Objects :
              Holders(r, x) = IF x = f.referent THEN Table!Referrers(f)
                              ELSE Holders(set, x)
<1>1. /\ Sound(set, AllEntries, EntryKey) /\ Nil \notin AllEntries
      /\ \A e \in AllEntries : EntryKey[e] = e.referent
  BY EntriesKeyed DEF TableOk
<1>2. PICK e : e = set.slots[i]
  OBVIOUS
<1>3. e \in AllEntries /\ e \in Elements(set) /\ f \in AllEntries
  BY <1>1, <1>2, OccupiedIs DEF Sound, Elements, EntryOk
<1>4. EntryKey[f] = EntryKey[set.slots[i]]
  BY <1>1, <1>2, <1>3
<1>5. /\ Sound(r, AllEntries, EntryKey)
      /\ r.size = set.size /\ r.num = set.num /\ r.max = set.max
      /\ Elements(r) = (Elements(set) \ {e}) \cup {f}
  BY <1>1, <1>2, <1>3, <1>4, ReplaceIs
<1>6. TableOk(r)
  BY <1>5 DEF TableOk, Roomy
<1>7. \A x \in Elements(set) : x.referent = f.referent => x = e
  BY <1>1, <1>2, <1>3, OneEntry
<1>8. ASSUME NEW x \in Objects
      PROVE  Holders(r, x) = IF x = f.referent THEN Table!Referrers(f)
                             ELSE Holders(set, x)
  <2>1. CASE x = f.referent
    BY <1>1, <1>5, <2>1, HoldersAre
  <2>2. CASE x # f.referent
    <3>1. {y \in Elements(r) : y.referent = x} =
            {y \in Elements(set) : y.referent = x}
      BY <1>2, <1>5, <2>2
    <3> QED BY <2>2, <3>1 DEF Holders
  <2> QED BY <2>1, <2>2
<1> QED BY <1>2, <1>5, <1>6, <1>7, <1>8

LEMMA UnregisterIs ==
  ASSUME TableFits, HashOk, NEW set, TableOk(set), NEW o \in Objects \cup {Nil},
         NEW l \in Locations,
         NEW r, r = Table!weak_unregister_no_lock(set, o, l)
  PROVE  /\ TableOk(r)
         /\ \A x \in Objects :
              Holders(r, x) = IF x = o THEN Holders(set, x) \ {l}
                              ELSE Holders(set, x)
<1>1. Sound(set, AllEntries, EntryKey)
  BY DEF TableOk
<1>2. CASE o = Nil
  <2>1. r = set /\ o \notin Objects
    BY <1>2 DEF Table!weak_unregister_no_lock, TableFits
  <2> QED BY <2>1
<1>3. CASE o \in Objects /\ Table!weak_entry_for_referent(set, o) = {}
  <2>1. r = set
    BY <1>3 DEF Table!weak_unregister_no_lock
  <2>2. \A e \in Elements(set) : e.referent # o
    BY <1>1, <1>3, EntryFound
  <2>3. Holders(set, o) = {}
    BY <2>2 DEF Holders
  <2> QED BY <2>1, <2>3
<1>4. CASE o \in Objects /\ Table!weak_entry_for_referent(set, o) # {}
  <2>1. PICK i : i = Table!EntryIndex(set, o)
    OBVIOUS
  <2>2. PICK e : e = set.slots[i]
    OBVIOUS
  <2>3. i \in Table!Occupied(set) /\ e \in Elements(set) /\ e.referent = o
    BY <1>1, <1>4, <2>1, <2>2, EntryFound
  <2>4. EntryOk(e) /\ Holders(set, o) = Table!Referrers(e)
    BY <1>1, <2>3, HoldersAre DEF TableOk
  <2>5. PICK f : f = Table!remove_referrer(e, l)
    OBVIOUS
  <2>6. /\ EntryOk(f) /\ f.referent = o
        /\ Table!Referrers(f) = Table!Referrers(e) \ {l}
    BY <2>3, <2>4, <2>5, RemoveIs
  <2>7. PICK removed : removed = [set EXCEPT !.slots[i] = f]
    OBVIOUS
  <2>8. /\ TableOk(removed) /\ f \in Elements(removed)
        /\ \A x \in Objects :
             Holders(removed, x) = IF x = f.referent THEN Table!Referrers(f)
                                   ELSE Holders(set, x)
    <3>1. f.referent = set.slots[i].referent
      BY <2>2, <2>3, <2>6
    <3>2. /\ i \in Table!Occupied(set) /\ EntryOk(f)
          /\ removed = [set EXCEPT !.slots[i] = f]
      BY <2>3, <2>6, <2>7
    <3>3. TableOk(removed)
      BY <3>1, <3>2, EntryExchanged
    <3> QED BY <3>1, <3>2, EntryExchanged
  <2>9. r = IF Table!LooksEmpty(f) THEN Table!weak_entry_remove(removed, o)
            ELSE removed
    <3>1. o # Nil
      BY <1>4 DEF TableFits
    <3> QED BY <1>4, <2>1, <2>2, <2>5, <2>7, <3>1
            DEF Table!weak_unregister_no_lock
  <2>10. CASE ~Table!LooksEmpty(f)
    BY <2>4, <2>6, <2>8, <2>9, <2>10
  <2>11. CASE Table!LooksEmpty(f)
    <3>1. r = Table!weak_entry_remove(removed, o)
      BY <2>9, <2>11
    <3>2. /\ TableOk(r)
          /\ Elements(r) = {x \in Elements(removed) : x.referent # o}
      BY <1>4, <2>6, <2>8, <3>1, EntryRemoveIs
    <3>3. Table!Referrers(f) = {}
      BY <2>6, <2>11, LooksEmptyIs
    <3>4. ASSUME NEW x \in Objects
          PROVE  Holders(r, x) = IF x = o THEN {} ELSE Holders(removed, x)
      <4>1. {y \in Elements(r) : y.referent = x} =
              IF x = o THEN {} ELSE {y \in Elements(removed) : y.referent = x}
        BY <3>2
      <4> QED BY <4>1 DEF Holders
    <3> QED BY <2>4, <2>6, <2>8, <3>2, <3>3, <3>4
  <2> QED BY <2>10, <2>11
<1> QED BY <1>2, <1>3, <1>4

LEMMA RegisterIs ==
  ASSUME TableFits, HashOk, NEW set, TableOk(set), NEW o \in Objects \cup {Nil},
         NEW l \in Locations, o # Nil => l \notin Holders(set, o),
         NEW r, r = Table!weak_register_no_lock(set, o, l)
  PROVE  /\ TableOk(r)
         /\ \A x \in Objects :
              Holders(r, x) = IF x = o THEN Holders(set, x) \cup {l}
                              ELSE Holders(set, x)
<1>1. Sound(set, AllEntries, EntryKey)
  BY DEF TableOk
<1>2. CASE o = Nil
  <2>1. r = set /\ o \notin Objects
    BY <1>2 DEF Table!weak_register_no_lock, TableFits
  <2> QED BY <2>1
<1>3. CASE o \in Objects /\ Table!weak_entry_for_referent(set, o) # {}
  <2>0. o # Nil
    BY <1>3 DEF TableFits
  <2>1. PICK i : i = Table!EntryIndex(set, o)
    OBVIOUS
  <2>2. PICK e : e = set.slots[i]
    OBVIOUS
  <2>3. i \in Table!Occupied(set) /\ e \in Elements(set) /\ e.referent = o
    BY <1>1, <1>3, <2>1, <2>2, EntryFound
  <2>4. EntryOk(e) /\ Holders(set, o) = Table!Referrers(e)
    BY <1>1, <2>3, HoldersAre DEF TableOk
  <2>5. PICK f : f = Table!append_referrer(e, l)
    OBVIOUS
  <2>6. /\ EntryOk(f) /\ f.referent = o
        /\ Table!Referrers(f) = Table!Referrers(e) \cup {l}
    BY <2>0, <2>3, <2>4, <2>5, AppendIs
  <2>7. r = [set EXCEPT !.slots[i] = f]
    BY <1>3, <2>0, <2>1, <2>2, <2>5 DEF Table!weak_register_no_lock
  <2>8. /\ TableOk(r)
        /\ \A x \in Objects :
             Holders(r, x) = IF x = f.referent THEN Table!Referrers(f)
                             ELSE Holders(set, x)
    <3>1. f.referent = set.slots[i].referent
      BY <2>2, <2>3, <2>6
    <3>2. /\ i \in Table!Occupied(set) /\ EntryOk(f)
          /\ r = [set EXCEPT !.slots[i] = f]
      BY <2>3, <2>6, <2>7
    <3>3. TableOk(r)
      BY <3>1, <3>2, EntryExchanged
    <3> QED BY <3>1, <3>2, EntryExchanged
  <2> QED BY <2>4, <2>6, <2>8
<1>4. CASE o \in Objects /\ Table!weak_entry_for_referent(set, o) = {}
  <2>0. o # Nil
    BY <1>4 DEF TableFits
  <2>1. \A e \in Elements(set) : e.referent # o
    BY <1>1, <1>4, EntryFound
  <2>2. PICK grown : grown = Table!weak_grow_maybe(set)
    OBVIOUS
  <2>3. /\ TableOk(grown) /\ 4 * (grown.num + 1) <= 3 * grown.size
        /\ Elements(grown) = Elements(set)
    BY <2>2, GrowIs
  <2>4. /\ Sound(grown, AllEntries, EntryKey)
        /\ grown.num \in Nat /\ grown.size \in Nat /\ grown.max \in Nat
    BY <2>3, HashSetFacts DEF TableOk, Sound
  <2>5. PICK e : e = Table!NewEntry(o, l)
    OBVIOUS
  <2>6. EntryOk(e) /\ e.referent = o /\ Table!Referrers(e) = {l}
    BY <1>4, <2>5, NewEntryIs
  <2>7. /\ Keyed(AllEntries, EntryKey) /\ Nil \notin AllEntries
        /\ \A x \in AllEntries : EntryKey[x] = x.referent
    BY EntriesKeyed
  <2>8. e \in AllEntries /\ EntryKey[e] = o
    BY <2>6, <2>7 DEF EntryOk
  <2>9. r = Table!Insert(grown, EntryKey[e], e)
    BY <1>4, <2>0, <2>2, <2>5, <2>8 DEF Table!weak_register_no_lock
  <2>10. /\ Sound(r, AllEntries, EntryKey)
         /\ r.size = grown.size /\ r.num = grown.num + 1
         /\ r.max = grown.max \/ r.max <= grown.num
         /\ Elements(r) = Elements(grown) \cup {e}
    <3>1. \A x \in Elements(grown) : EntryKey[x] # EntryKey[e]
      <4>1. Elements(grown) \subseteq AllEntries
        BY <2>4, <2>7, OccupiedIs DEF Sound
      <4> QED BY <2>1, <2>3, <2>7, <2>8, <4>1
    <3>2. grown.num < grown.size
      BY <2>3, <2>4
    <3> QED BY <2>4, <2>7, <2>8, <2>9, <3>1, <3>2, InsertIs
  <2>11. TableOk(r)
    <3>1. r.max \in Nat
      BY <2>10, HashSetFacts DEF Sound
    <3>2. Roomy(grown)
      BY <2>3 DEF TableOk
    <3>3. r.max = 0 \/ r.max < r.size - 1
      BY <2>3, <2>4, <2>10, <3>1, <3>2 DEF Roomy
    <3>4. Roomy(r)
      BY <2>3, <2>4, <2>10, <3>2, <3>3 DEF Roomy
    <3> QED BY <2>3, <2>6, <2>10, <3>4 DEF TableOk
  <2>12. ASSUME NEW x \in Objects
         PROVE  Holders(r, x) = IF x = o THEN Holders(set, x) \cup {l}
                                ELSE Holders(set, x)
    <3>1. CASE x = o
      <4>1. {y \in Elements(r) : y.referent = x} = {e}
        BY <2>1, <2>3, <2>6, <2>10, <3>1
      <4>2. {y \in Elements(set) : y.referent = x} = {}
        BY <2>1, <3>1
      <4>3. Holders(r, x) = {l}
        BY <2>6, <4>1 DEF Holders
      <4>4. Holders(set, x) = {}
        BY <4>2 DEF Holders
      <4> QED BY <3>1, <4>3, <4>4
    <3>2. CASE x # o
      <4>1. {y \in Elements(r) : y.referent = x} =
              {y \in Elements(set) : y.referent = x}
        BY <2>3, <2>6, <2>10, <3>2
      <4> QED BY <3>2, <4>1 DEF Holders
    <3> QED BY <3>1, <3>2
  <2> QED BY <2>11, <2>12
<1> QED BY <1>2, <1>3, <1>4

-----------------------------------------------------------------------------
(* The calls *)

\* Inductive: searches see exactly the variables that hold the object.
TableIInv ==
  /\ hash \in [Keys -> ObjectHashes \cup LocationHashes]
  /\ location \in [Locations -> Objects \cup {Nil}]
  /\ deallocating \subseteq Objects
  /\ TableOk(table)
  /\ \A o \in Objects, l \in Locations :
       location[l] = o <=> l \in Holders(table, o)

LEMMA HashIsOk ==
  ASSUME TableFits, hash \in [Keys -> ObjectHashes \cup LocationHashes]
  PROVE  HashOk
<1>1. \A k \in Keys : hash[k] \in Nat
  BY DEF TableFits
<1> QED BY <1>1 DEF HashOk

LEMMA TableIInvKept ==
  ASSUME TableIInv, hash' = hash,
         location' \in [Locations -> Objects \cup {Nil}],
         deallocating' \subseteq Objects, NEW t, table' = t, TableOk(t),
         \A o \in Objects, l \in Locations :
           location'[l] = o <=> l \in Holders(t, o)
  PROVE  TableIInv'
<1>1. TableOk(table)'
  <2>1. ASSUME NEW set, NEW E, NEW key, Sound(set, E, key)
        PROVE  Sound(set, E, key)'
    BY <2>1 DEF Sound, Within, Once, Table!Probe, Table!Occupied
  <2>2. TableOk(t)'
    <3>1. Sound(t, AllEntries, EntryKey)'
      BY <2>1 DEF TableOk
    <3>2. Roomy(t)'
      BY DEF TableOk, Roomy
    <3>3. ASSUME NEW e \in Elements(t) PROVE EntryOk(e)'
      <4>1. EntryOk(e)
        BY DEF TableOk
      <4>2. Sound(e.refs, Locations, LocationKey)'
        BY <2>1, <4>1 DEF EntryOk
      <4> QED BY <4>1, <4>2 DEF EntryOk, Roomy
    <3>4. Elements(t)' = Elements(t)
      BY DEF Elements, Table!Occupied
    <3> QED BY <3>1, <3>2, <3>3, <3>4 DEF TableOk
  <2> QED BY <2>2
<1>2. (\A o \in Objects, l \in Locations :
         location[l] = o <=> l \in Holders(table, o))'
  BY DEF Holders, Elements, Table!Occupied
<1> QED BY <1>1, <1>2 DEF TableIInv

LEMMA InitTable ==
  ASSUME TableFits, Table!Init
  PROVE  TableIInv
<1>1. hash \in [Keys -> ObjectHashes \cup LocationHashes]
  BY DEF Table!Init, Keys
<1>2. /\ Sound(table, AllEntries, EntryKey)
      /\ table.size = 0 /\ table.num = 0 /\ table.max = 0
      /\ Elements(table) = {}
  BY EntriesKeyed, EmptyIs DEF Table!Init
<1>3. TableOk(table)
  BY <1>2 DEF TableOk, Roomy
<1>4. \A o \in Objects : Holders(table, o) = {}
  BY <1>2 DEF Holders
<1>5. \A o \in Objects, l \in Locations : location[l] # o
  BY DEF Table!Init, TableFits
<1> QED BY <1>1, <1>3, <1>4, <1>5 DEF TableIInv, Table!Init

LEMMA StoreWeakStep ==
  ASSUME TableFits, TableIInv, NEW l \in Locations,
         NEW obj \in Objects \cup {Nil}, Table!StoreWeak(l, obj)
  PROVE  TableIInv'
<1>1. HashOk /\ TableOk(table)
  BY HashIsOk DEF TableIInv
<1>2. PICK new \in Objects \cup {Nil} :
        new = IF obj \in deallocating THEN Nil ELSE obj
  OBVIOUS
<1>3. PICK old \in Objects \cup {Nil} : old = location[l]
  BY DEF TableIInv
<1>4. PICK u : u = Table!weak_unregister_no_lock(table, old, l)
  OBVIOUS
<1>5. /\ TableOk(u)
      /\ \A x \in Objects :
           Holders(u, x) = IF x = old THEN Holders(table, x) \ {l}
                           ELSE Holders(table, x)
  <2>1. PICK set : set = table
    OBVIOUS
  <2>2. TableOk(set) /\ u = Table!weak_unregister_no_lock(set, old, l)
    BY <1>1, <1>4, <2>1
  <2>3. /\ TableOk(u)
        /\ \A x \in Objects :
             Holders(u, x) = IF x = old THEN Holders(set, x) \ {l}
                             ELSE Holders(set, x)
    BY ONLY TableFits, <1>1, <2>2, UnregisterIs
  <2> QED BY <2>1, <2>3
<1>6. \A x \in Objects : l \notin Holders(u, x)
  <2> SUFFICES ASSUME NEW x \in Objects PROVE l \notin Holders(u, x)
    OBVIOUS
  <2>1. x # old => l \notin Holders(table, x)
    BY <1>3 DEF TableIInv
  <2> QED BY <1>5, <2>1
<1>7. PICK t : t = Table!weak_register_no_lock(u, new, l)
  OBVIOUS
<1>8. /\ TableOk(t)
      /\ \A x \in Objects :
           Holders(t, x) = IF x = new THEN Holders(u, x) \cup {l}
                           ELSE Holders(u, x)
  <2>1. new # Nil => l \notin Holders(u, new)
    BY <1>6
  <2> QED BY <1>1, <1>5, <1>7, <2>1, RegisterIs
<1>9. /\ table' = t /\ location' = [location EXCEPT ![l] = new]
      /\ hash' = hash /\ deallocating' = deallocating
  BY <1>2, <1>3, <1>4, <1>7 DEF Table!StoreWeak
<1>10. /\ location' \in [Locations -> Objects \cup {Nil}]
       /\ location'[l] = new
       /\ \A k \in Locations : k # l => location'[k] = location[k]
  BY <1>9 DEF TableIInv
<1>11. ASSUME NEW o \in Objects, NEW k \in Locations
       PROVE  location'[k] = o <=> k \in Holders(t, o)
  <2>1. CASE k = l
    BY <1>6, <1>8, <1>10, <2>1
  <2>2. CASE k # l
    <3>1. k \in Holders(t, o) <=> k \in Holders(table, o)
      BY <1>5, <1>8, <2>2
    <3> QED BY <1>10, <2>2, <3>1 DEF TableIInv
  <2> QED BY <2>1, <2>2
<1>12. deallocating' \subseteq Objects
  BY <1>9 DEF TableIInv
<1> QED BY <1>8, <1>9, <1>10, <1>11, <1>12, TableIInvKept

LEMMA BeginDeallocStep ==
  ASSUME TableFits, TableIInv, NEW o \in Objects, Table!BeginDealloc(o)
  PROVE  TableIInv'
<1>1. /\ hash' = hash /\ table' = table /\ location' = location
      /\ deallocating' \subseteq Objects
  BY DEF Table!BeginDealloc, TableIInv
<1>2. /\ location' \in [Locations -> Objects \cup {Nil}]
      /\ TableOk(table)
      /\ \A x \in Objects, l \in Locations :
           location'[l] = x <=> l \in Holders(table, x)
  BY <1>1 DEF TableIInv
<1> QED BY <1>1, <1>2, TableIInvKept

\* weak_clear_no_lock sees every variable that holds the object.
LEMMA ClearedIs ==
  ASSUME TableFits, TableIInv, NEW o \in Objects
  PROVE  Table!Cleared(o) = {l \in Locations : location[l] = o}
<1>1. HashOk /\ TableOk(table) /\ Sound(table, AllEntries, EntryKey)
  BY HashIsOk DEF TableIInv, TableOk
<1>2. \A l \in Locations : location[l] = o <=> l \in Holders(table, o)
  BY DEF TableIInv
<1>3. CASE Table!weak_entry_for_referent(table, o) = {}
  <2>1. \A e \in Elements(table) : e.referent # o
    BY <1>1, <1>3, EntryFound
  <2>2. Holders(table, o) = {}
    BY <2>1 DEF Holders
  <2> QED BY <1>2, <1>3, <2>2 DEF Table!Cleared
<1>4. CASE Table!weak_entry_for_referent(table, o) # {}
  <2>1. PICK e : e = table.slots[Table!EntryIndex(table, o)]
    OBVIOUS
  <2>2. e \in Elements(table) /\ e.referent = o
    BY <1>1, <1>4, <2>1, EntryFound
  <2>3. Holders(table, o) = Table!Referrers(e)
    BY <1>1, <2>2, HoldersAre
  <2>4. Table!Cleared(o) = {l \in Table!Referrers(e) : location[l] = o}
    BY <1>4, <2>1 DEF Table!Cleared
  <2>5. Table!Referrers(e) \subseteq Locations
    <3>1. EntryOk(e)
      BY <1>1, <2>2 DEF TableOk
    <3>2. /\ Elements(e.refs) \subseteq Locations
          /\ e.inline \in
               [0..(WEAK_INLINE_COUNT - 1) -> Locations \cup {Nil}]
      BY <3>1, EntryFacts, LocationsKeyed, OccupiedIs DEF EntryOk
    <3> QED BY <3>2 DEF Table!Referrers, Elements
  <2> QED BY <1>2, <2>3, <2>4, <2>5
<1> QED BY <1>3, <1>4

LEMMA ClearWeakStep ==
  ASSUME TableFits, TableIInv, NEW o \in Objects, Table!ClearWeak(o)
  PROVE  TableIInv'
<1>1. HashOk /\ TableOk(table) /\ Sound(table, AllEntries, EntryKey)
  BY HashIsOk DEF TableIInv, TableOk
<1>2. PICK t : table' = t
  OBVIOUS
<1>3. /\ TableOk(t)
      /\ \A x \in Objects :
           Holders(t, x) = IF x = o THEN {} ELSE Holders(table, x)
  <2>1. CASE Table!weak_entry_for_referent(table, o) = {}
    <3>1. t = table
      BY <1>2, <2>1 DEF Table!ClearWeak
    <3>2. \A e \in Elements(table) : e.referent # o
      BY <1>1, <2>1, EntryFound
    <3>3. Holders(table, o) = {}
      BY <3>2 DEF Holders
    <3> QED BY <1>1, <3>1, <3>3
  <2>2. CASE Table!weak_entry_for_referent(table, o) # {}
    <3>1. t = Table!weak_entry_remove(table, o)
      BY <1>2, <2>2 DEF Table!ClearWeak
    <3>2. \E e \in Elements(table) : e.referent = o
      BY <1>1, <2>2, EntryFound
    <3>3. /\ TableOk(t)
          /\ Elements(t) = {e \in Elements(table) : e.referent # o}
      BY <1>1, <3>1, <3>2, EntryRemoveIs
    <3>4. ASSUME NEW x \in Objects
          PROVE  Holders(t, x) = IF x = o THEN {} ELSE Holders(table, x)
      <4>1. {y \in Elements(t) : y.referent = x} =
              IF x = o THEN {} ELSE {y \in Elements(table) : y.referent = x}
        BY <3>3
      <4> QED BY <4>1 DEF Holders
    <3> QED BY <3>3, <3>4
  <2> QED BY <2>1, <2>2
<1>4. /\ hash' = hash
      /\ deallocating' \subseteq Objects
      /\ location' = [l \in Locations |-> IF l \in Table!Cleared(o) THEN Nil
                                          ELSE location[l]]
  BY DEF Table!ClearWeak, TableIInv
<1>5. \A l \in Locations :
        location'[l] = IF location[l] = o THEN Nil ELSE location[l]
  BY <1>4, ClearedIs
<1>6. location' \in [Locations -> Objects \cup {Nil}]
  BY <1>4 DEF TableIInv
<1>7. \A x \in Objects, l \in Locations :
        location'[l] = x <=> l \in Holders(t, x)
  <2>1. Nil \notin Objects
    BY DEF TableFits
  <2> QED BY <1>3, <1>5, <2>1 DEF TableIInv
<1> QED BY <1>2, <1>3, <1>4, <1>6, <1>7, TableIInvKept

LEMMA TableNext ==
  ASSUME TableFits, TableIInv, [Table!Next]_(Table!vars)
  PROVE  TableIInv'
<1>1. CASE UNCHANGED Table!vars
  <2>1. /\ hash' = hash /\ table' = table /\ location' = location
        /\ deallocating' = deallocating
    BY <1>1 DEF Table!vars
  <2>2. /\ location' \in [Locations -> Objects \cup {Nil}]
        /\ deallocating' \subseteq Objects /\ TableOk(table)
        /\ \A x \in Objects, l \in Locations :
             location'[l] = x <=> l \in Holders(table, x)
    BY <2>1 DEF TableIInv
  <2> QED BY <2>1, <2>2, TableIInvKept
<1>2. CASE Table!Next
  BY <1>2, StoreWeakStep, BeginDeallocStep, ClearWeakStep DEF Table!Next
<1> QED BY <1>1, <1>2

LEMMA SetsAre ==
  ASSUME TableFits, TableIInv
  PROVE  /\ Table!Entries = Elements(table)
         /\ \A set \in Table!HashSets :
              Roomy(set) /\ \E E, key : Nil \notin E /\ Sound(set, E, key)
<1>1. Table!Entries = Elements(table)
  BY DEF Table!Entries, Elements
<1>2. Sound(table, AllEntries, EntryKey) /\ Roomy(table)
  BY DEF TableIInv, TableOk
<1>3. ASSUME NEW e \in Elements(table)
      PROVE  Sound(e.refs, Locations, LocationKey) /\ Roomy(e.refs)
  BY DEF TableIInv, TableOk, EntryOk
<1> QED BY <1>1, <1>2, <1>3, EntriesKeyed, LocationsKeyed DEF Table!HashSets

LEMMA SetSizes ==
  ASSUME NEW set, NEW E, NEW key, Nil \notin E, Sound(set, E, key), Roomy(set)
  PROVE  /\ set.size = 0 \/ Table!IsSize(set.size)
         /\ DOMAIN set.slots = 0..(set.size - 1)
         /\ {set.num, set.max} \subseteq 0..set.size
         /\ set.num = Cardinality(Table!Occupied(set))
         /\ 4 * set.num <= 3 * set.size
         /\ ~set.bad /\ ~Table!WrapsAround(set)
<1>1. /\ set.size \in Nat /\ set.num \in Nat /\ set.max \in Nat
      /\ DOMAIN set.slots = 0..(set.size - 1)
  BY HashSetFacts DEF Sound
<1>2. set.size = 0 \/ set.size > 1
  BY SizeGrows DEF Roomy
<1>3. /\ 4 * set.num <= 3 * set.size
      /\ set.max = 0 \/ set.max < set.size - 1
      /\ set.size = 0 \/ Table!IsSize(set.size)
  BY DEF Roomy
<1>4. ~Table!WrapsAround(set)
  BY <1>1, <1>2, <1>3 DEF Table!WrapsAround
<1>5. set.num \in 0..set.size /\ set.max \in 0..set.size
  BY <1>1, <1>3
<1> QED BY <1>1, <1>3, <1>4, <1>5 DEF Sound

\* Table counts with the FiniteSets that it extends.
LEMMA CountedAlike == \A S : Table!Cardinality(S) = Cardinality(S)
BY DEF Table!Cardinality, Cardinality

LEMMA IInvImplies ==
  ASSUME TableFits, TableIInv
  PROVE  Table!TableInv /\ Table!NoBadTable
<1>1. /\ HashOk /\ TableOk(table) /\ Sound(table, AllEntries, EntryKey)
      /\ Table!Entries = Elements(table)
  BY HashIsOk, SetsAre DEF TableIInv, TableOk
<1>2. \A set \in Table!HashSets :
        /\ set.size = 0 \/ Table!IsSize(set.size)
        /\ DOMAIN set.slots = 0..(set.size - 1)
        /\ {set.num, set.max} \subseteq 0..set.size
        /\ set.num = Cardinality(Table!Occupied(set))
        /\ 4 * set.num <= 3 * set.size
        /\ ~set.bad /\ ~Table!WrapsAround(set)
  BY SetsAre, SetSizes
<1>3. ASSUME NEW e \in Elements(table)
      PROVE  /\ Table!IsEntry(e) /\ EntryOk(e)
             /\ e.out_of_line =>
                  Cardinality(Table!Referrers(e)) = e.refs.num
  <2>1. EntryOk(e)
    BY <1>1 DEF TableOk
  <2>2. e \in AllEntries /\ Sound(e.refs, Locations, LocationKey)
    BY <2>1 DEF EntryOk
  <2>3. /\ \A i \in Table!Occupied(e.refs) : e.refs.slots[i] \in Locations
        /\ Elements(e.refs) \subseteq Locations
    BY <2>2, EntryFacts, LocationsKeyed, OccupiedIs
  <2>4. Table!IsEntry(e)
    BY <2>2, <2>3, EntryFacts DEF Table!IsEntry
  <2>5. {LocationKey[l] : l \in Elements(e.refs)} = Elements(e.refs)
    BY <2>3, LocationsKeyed
  <2>6. Cardinality(Elements(e.refs)) = e.refs.num
    BY <2>2, <2>5, CountIs
  <2>7. e.out_of_line => Table!Referrers(e) = Elements(e.refs)
    BY DEF Table!Referrers, Elements
  <2> QED BY <2>1, <2>4, <2>6, <2>7
<1>4. Table!TypeOK
  BY <1>1, <1>2, <1>3 DEF Table!TypeOK, TableIInv, Keys
<1>5. Table!RegisteredExactly
  <2> SUFFICES ASSUME NEW o \in Objects, NEW l \in Locations
               PROVE  l \in Holders(table, o) <=>
                      /\ Table!weak_entry_for_referent(table, o) # {}
                      /\ Table!Registered(
                           table.slots[Table!EntryIndex(table, o)], l)
    BY DEF Table!RegisteredExactly, TableIInv
  <2>1. CASE Table!weak_entry_for_referent(table, o) = {}
    <3>1. \A e \in Elements(table) : e.referent # o
      BY <1>1, <2>1, EntryFound
    <3> QED BY <2>1, <3>1 DEF Holders
  <2>2. CASE Table!weak_entry_for_referent(table, o) # {}
    <3>1. PICK e : e = table.slots[Table!EntryIndex(table, o)]
      OBVIOUS
    <3>2. e \in Elements(table) /\ e.referent = o
      BY <1>1, <2>2, <3>1, EntryFound
    <3>3. Holders(table, o) = Table!Referrers(e)
      BY <1>1, <3>2, HoldersAre
    <3>4. Table!Registered(e, l) <=> l \in Table!Referrers(e)
      BY <1>1, <1>3, <3>2, RegisteredIs
    <3> QED BY <2>2, <3>1, <3>3, <3>4
  <2> QED BY <2>1, <2>2
<1>6. Table!CountsAgree
  <2>1. {EntryKey[e] : e \in Elements(table)} =
          {e.referent : e \in Elements(table)}
    <3>1. \A e \in Elements(table) : EntryKey[e] = e.referent
      BY <1>3, EntriesKeyed DEF EntryOk
    <3> QED BY <3>1
  <2>2. Cardinality({e.referent : e \in Table!Entries}) = table.num
    BY <1>1, <2>1, CountIs
  <2>3. \A set \in Table!HashSets :
          /\ set.num = Cardinality(Table!Occupied(set))
          /\ 4 * set.num <= 3 * set.size
    BY <1>2
  <2>4. \A e \in Table!Entries :
          e.out_of_line => Cardinality(Table!Referrers(e)) = e.refs.num
    BY <1>1, <1>3
  <2>5. /\ \A set \in Table!HashSets :
             set.num = Table!Cardinality(Table!Occupied(set))
        /\ Table!Cardinality({e.referent : e \in Table!Entries}) = table.num
        /\ \A e \in Table!Entries :
             e.out_of_line =>
               Table!Cardinality(Table!Referrers(e)) = e.refs.num
    BY <2>2, <2>3, <2>4, CountedAlike
  <2> QED BY <2>3, <2>5 DEF Table!CountsAgree
<1>7. Table!NoBadTable
  BY <1>2 DEF Table!NoBadTable
<1> QED BY <1>4, <1>5, <1>6, <1>7 DEF Table!TableInv

\* The table maps to what a program is promised step by step.
LEMMA InitPromised == TableFits /\ Table!Init => Table!Abstract!Init
BY DEF Table!Init, Table!Abstract!Init

LEMMA NextPromised ==
  ASSUME TableFits, TableIInv, [Table!Next]_(Table!vars)
  PROVE  [Table!Abstract!Next]_(Table!Abstract!vars)
<1>1. ASSUME NEW l \in Locations, NEW obj \in Objects \cup {Nil},
             Table!StoreWeak(l, obj)
      PROVE  Table!Abstract!Next
  <2>1. Table!Abstract!StoreWeak(l, obj)
    BY <1>1 DEF Table!StoreWeak, Table!Abstract!StoreWeak
  <2> QED BY <2>1 DEF Table!Abstract!Next
<1>2. ASSUME NEW o \in Objects, Table!BeginDealloc(o)
      PROVE  Table!Abstract!Next
  <2>1. Table!Abstract!BeginDealloc(o)
    BY <1>2 DEF Table!BeginDealloc, Table!Abstract!BeginDealloc
  <2> QED BY <2>1 DEF Table!Abstract!Next
<1>3. ASSUME NEW o \in Objects, Table!ClearWeak(o)
      PROVE  Table!Abstract!Next
  <2>1. /\ o \in deallocating
        /\ deallocating' = deallocating \ {o}
        /\ location' = [l \in Locations |-> IF l \in Table!Cleared(o) THEN Nil
                                            ELSE location[l]]
    BY <1>3 DEF Table!ClearWeak
  <2>2. location' = [l \in Locations |-> IF location[l] = o THEN Nil
                                         ELSE location[l]]
    BY <2>1, ClearedIs
  <2>3. Table!Abstract!ClearWeak(o)
    BY <2>1, <2>2 DEF Table!Abstract!ClearWeak
  <2> QED BY <2>3 DEF Table!Abstract!Next
<1>4. CASE UNCHANGED Table!vars
  BY <1>4 DEF Table!vars, Table!Abstract!vars
<1> QED BY <1>1, <1>2, <1>3, <1>4 DEF Table!Next

(* Whatever the hash function is and however the table and the sets of its *)
(* entries have grown and been compacted, a search that ends after         *)
(* max_hash_displacement probes finds the variables that hold an object    *)
(* and no others, and the counts that growth and compaction go by are      *)
(* those of what is there.                                                 *)
THEOREM TableIsExact ==
  ASSUME TableFits
  PROVE  Table!Spec => []Table!TableInv
<1>1. Table!Init => TableIInv
  BY InitTable
<1>2. TableIInv /\ [Table!Next]_(Table!vars) => TableIInv'
  BY TableNext
<1>3. TableIInv => Table!TableInv
  BY IInvImplies
<1> QED BY <1>1, <1>2, <1>3, PTL DEF Table!Spec

(* bad_weak_table is never called: an insertion always meets a free index, *)
(* and a search in vain ends before it has gone all the way round.         *)
THEOREM TableNeverBad ==
  ASSUME TableFits
  PROVE  Table!Spec => []Table!NoBadTable
<1>1. Table!Init => TableIInv
  BY InitTable
<1>2. TableIInv /\ [Table!Next]_(Table!vars) => TableIInv'
  BY TableNext
<1>3. TableIInv => Table!NoBadTable
  BY IInvImplies
<1> QED BY <1>1, <1>2, <1>3, PTL DEF Table!Spec

(* A program cannot see the table: a store changes the one variable, and   *)
(* the end of an object sets every variable that holds it to nil at once.  *)
THEOREM TableIsInvisible ==
  ASSUME TableFits
  PROVE  Table!Spec => Table!ImplementsWeakVariables
<1>1. Table!Init => TableIInv /\ Table!Abstract!Init
  BY InitTable, InitPromised
<1>2. TableIInv /\ [Table!Next]_(Table!vars) =>
        TableIInv' /\ [Table!Abstract!Next]_(Table!Abstract!vars)
  BY TableNext, NextPromised
<1> QED BY <1>1, <1>2, PTL
        DEF Table!Spec, Table!ImplementsWeakVariables, Table!Abstract!Spec
=============================================================================
