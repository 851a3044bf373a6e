----------------------------- MODULE SyncProofs -----------------------------
(***************************************************************************)
(* For every set of threads and objects and every number of blocks: what   *)
(* BlockInv says of the blocks is inductive, and @synchronized excludes.   *)
(***************************************************************************)
EXTENDS Sync, FiniteSetTheorems, TLAPS

\* BlockInv without the part that follows from the others.
IInv ==
  /\ TypeOK /\ UsersAreCounted /\ OneBlockPerObject
  /\ WalkInv /\ CacheInv /\ MutexInv /\ HeldInv

-----------------------------------------------------------------------------
(* The threads that use a block *)

Users(d) == {t \in Threads : lockCount[t][d] > 0}

LEMMA UsersFinite ==
  ASSUME NEW d
  PROVE  /\ IsFiniteSet(Users(d))
         /\ Cardinality(Users(d)) \in Nat
         /\ Cardinality(Users(d)) = 0 => Users(d) = {}
<1>1. IsFiniteSet(Users(d))
  BY ThreadsAssumption, FS_Subset DEF Users
<1> QED BY <1>1, FS_CardinalityType, FS_EmptySet

\* One thread more, or one less.
LEMMA OneMore ==
  ASSUME NEW S, IsFiniteSet(S), NEW t, NEW T, T \subseteq S \cup {t}
  PROVE  Cardinality(T) <= Cardinality(S) + 1
<1>1. /\ IsFiniteSet(S \cup {t})
      /\ Cardinality(S \cup {t})
           = IF t \in S THEN Cardinality(S) ELSE Cardinality(S) + 1
  BY FS_AddElement
<1>2. /\ Cardinality(T) <= Cardinality(S \cup {t})
      /\ IsFiniteSet(T)
  BY <1>1, FS_Subset
<1>3. /\ Cardinality(S) \in Nat
      /\ Cardinality(T) \in Nat
  BY <1>2, FS_CardinalityType
<1> QED BY <1>1, <1>2, <1>3

LEMMA OneLess ==
  ASSUME NEW S, IsFiniteSet(S), NEW t \in S, NEW T, T \subseteq S \ {t}
  PROVE  Cardinality(T) <= Cardinality(S) - 1
<1>1. /\ IsFiniteSet(S \ {t})
      /\ Cardinality(S \ {t}) = Cardinality(S) - 1
  BY FS_RemoveElement
<1>2. Cardinality(T) <= Cardinality(S \ {t})
  BY <1>1, FS_Subset
<1> QED BY <1>1, <1>2

\* A thread that joins the users of a block, and is counted.
LEMMA JoinCounted ==
  ASSUME IInv, NEW t \in Threads, NEW p \in SyncData,
         threadCount'[p] >= Cardinality(Users(p)) + 1,
         threadCount'[p] \in Nat,
         \A d \in SyncData : d # p => threadCount'[d] = threadCount[d],
         \A u \in Threads, d \in SyncData :
           u # t \/ d # p => lockCount'[u][d] = lockCount[u][d]
  PROVE  UsersAreCounted'
<1> SUFFICES ASSUME NEW d \in SyncData
             PROVE  threadCount'[d] >= Cardinality(Users(d)')
  BY DEF UsersAreCounted, Users
<1>1. CASE d = p
  <2>1. Users(d)' \subseteq Users(d) \cup {t}
    BY DEF Users
  <2>2. Cardinality(Users(d)') <= Cardinality(Users(d)) + 1
    BY <2>1, UsersFinite, OneMore
  <2>3. Cardinality(Users(d)') \in Nat /\ Cardinality(Users(d)) \in Nat
    <3>1. IsFiniteSet(Users(d)')
      BY ThreadsAssumption, FS_Subset DEF Users
    <3> QED BY <3>1, UsersFinite, FS_CardinalityType
  <2> QED BY <1>1, <2>2, <2>3
<1>2. CASE d # p
  <2>1. Users(d)' = Users(d)
    BY <1>2 DEF Users
  <2> QED BY <1>2, <2>1 DEF IInv, UsersAreCounted, Users
<1> QED BY <1>1, <1>2

\* A block that nobody is counted for is in no cache; nobody is inside.
LEMMA Unused ==
  ASSUME IInv, NEW d \in 1..allocated, threadCount[d] = 0, NEW t \in Threads
  PROVE  /\ lockCount[t][d] = 0
         /\ held[t][object[d]] = 0
         /\ pc[t] = "lock" => at[t] # d
<1>1. d \in SyncData /\ threadCount[d] \in Nat /\ allocated \in Nat
  BY BoundsAssumption DEF IInv, TypeOK, SyncData
<1>2. Cardinality(Users(d)) <= 0
  BY <1>1 DEF IInv, UsersAreCounted, Users
<1>3. Users(d) = {}
  BY <1>2, UsersFinite
<1>4. lockCount[t][d] \in Nat /\ lockCount[t][d] = 0
  BY <1>1, <1>3 DEF IInv, TypeOK, Users
<1>5. object[d] \in Objects /\ held[t][object[d]] \in Nat
  BY DEF IInv, CacheInv, TypeOK
<1>6. lockCount[t][d] =
        held[t][object[d]] + (IF pc[t] = "lock" /\ at[t] = d THEN 1 ELSE 0)
  BY <1>1 DEF IInv, CacheInv
<1> QED BY <1>4, <1>5, <1>6

-----------------------------------------------------------------------------
(* What follows from the invariant *)

LEMMA Excludes == IInv => MutualExclusion
<1> SUFFICES ASSUME IInv,
                    NEW t \in Threads, NEW u \in Threads, NEW o \in Objects,
                    held[t][o] > 0, held[u][o] > 0
             PROVE  t = u
  BY DEF MutualExclusion
<1>1. PICK d \in 1..allocated : object[d] = o /\ owner[d] = t
  BY DEF IInv, HeldInv
<1>2. PICK e \in 1..allocated : object[e] = o /\ owner[e] = u
  BY DEF IInv, HeldInv
<1> QED BY <1>1, <1>2 DEF IInv, OneBlockPerObject

LEMMA InCache ==
  ASSUME IInv, NEW t \in Threads, pc[t] = "idle", NEW o \in Objects
  PROVE  held[t][o] > 0 <=> Cached(t, o) # {}
<1>1. allocated \in 0..MaxData /\ MaxData \in Nat
  BY BoundsAssumption DEF IInv, TypeOK
<1>2. ASSUME held[t][o] > 0 PROVE Cached(t, o) # {}
  <2>1. PICK d \in 1..allocated : object[d] = o
    BY <1>2 DEF IInv, HeldInv
  <2>2. d \in SyncData /\ lockCount[t][d] = held[t][o] + 0
    BY <1>1, <2>1 DEF IInv, CacheInv, SyncData
  <2> QED BY <1>2, <2>1, <2>2 DEF Cached, IInv, TypeOK
<1>3. ASSUME Cached(t, o) # {} PROVE held[t][o] > 0
  <2>1. PICK d \in SyncData : lockCount[t][d] > 0 /\ object[d] = o
    BY <1>3 DEF Cached
  <2>2. lockCount[t][d] = (IF d <= allocated THEN held[t][object[d]] ELSE 0)
                          + 0
    BY DEF IInv, CacheInv
  <2>3. held[t][o] \in Nat
    BY DEF IInv, TypeOK
  <2> QED BY <2>1, <2>2, <2>3
<1> QED BY <1>2, <1>3

LEMMA Balanced == IInv => BalancedExitSucceeds
  BY InCache DEF IInv, HeldInv, BalancedExitSucceeds

-----------------------------------------------------------------------------
(* Each action keeps the invariant *)

LEMMA InitIInv == Init => IInv
<1> SUFFICES ASSUME Init PROVE IInv
  OBVIOUS
<1>1. \A d \in SyncData : Users(d) = {}
  BY DEF Init, Users
<1>2. UsersAreCounted
  BY <1>1, FS_EmptySet DEF Init, UsersAreCounted, Users
<1>3. TypeOK
  BY BoundsAssumption DEF Init, TypeOK, NoCall
<1>4. 1..allocated = {}
  BY DEF Init
<1> QED
  BY <1>2, <1>3, <1>4, ThreadsAssumption, BoundsAssumption
  DEF IInv, Init, OneBlockPerObject, WalkInv, CacheInv, MutexInv, HeldInv,
      SyncData

LEMMA LockListStep ==
  ASSUME IInv, NEW t \in Threads, LockList(t)
  PROVE  IInv'
<1> USE DEF LockList, blocks, mutexes
<1>1. TypeOK'
  BY BoundsAssumption DEF IInv, TypeOK
<1>2. UsersAreCounted' /\ OneBlockPerObject'
  BY DEF IInv, UsersAreCounted, OneBlockPerObject
<1>3. WalkInv'
  <2> SUFFICES ASSUME NEW u \in Threads
               PROVE  WalkInv!(u)'
    BY DEF WalkInv
  <2> QED BY ThreadsAssumption DEF IInv, TypeOK, WalkInv
<1>4. CacheInv' /\ MutexInv' /\ HeldInv'
  BY DEF IInv, TypeOK, CacheInv, MutexInv, HeldInv
<1> QED BY <1>1, <1>2, <1>3, <1>4 DEF IInv

LEMMA SkipStep ==
  ASSUME IInv, NEW t \in Threads, Skip(t)
  PROVE  IInv'
<1> USE DEF Skip, blocks, mutexes
<1>0. at[t] \in 1..allocated /\ allocated \in 0..MaxData
  BY BoundsAssumption DEF IInv, TypeOK, WalkInv
<1>1. TypeOK'
  BY <1>0, BoundsAssumption DEF IInv, TypeOK
<1>2. UsersAreCounted' /\ OneBlockPerObject'
  BY DEF IInv, UsersAreCounted, OneBlockPerObject
<1>3. WalkInv'
  <2> SUFFICES ASSUME NEW u \in Threads
               PROVE  WalkInv!(u)'
    BY DEF WalkInv
  <2>1. CASE u = t
    BY <1>0, <2>1, BoundsAssumption DEF IInv, TypeOK, WalkInv
  <2>2. CASE u # t
    BY <2>2 DEF IInv, TypeOK, WalkInv
  <2> QED BY <2>1, <2>2
<1>4. CacheInv' /\ MutexInv' /\ HeldInv'
  BY DEF IInv, TypeOK, CacheInv, MutexInv, HeldInv
<1> QED BY <1>1, <1>2, <1>3, <1>4 DEF IInv

\* A thread that walks the list has not entered the object it looks for.
LEMMA Newcomer ==
  ASSUME IInv, NEW t \in Threads, pc[t] \in {"search", "walk"},
         NEW d \in 1..allocated, object[d] = call[t].object
  PROVE  lockCount[t][d] = 0
<1>1. d \in SyncData
  BY BoundsAssumption DEF IInv, TypeOK, SyncData
<1>2. held[t][object[d]] = 0
  BY DEF IInv, WalkInv
<1> QED BY <1>1, <1>2 DEF IInv, CacheInv

LEMMA MatchStep ==
  ASSUME IInv, NEW t \in Threads, Match(t)
  PROVE  IInv'
<1> DEFINE p == at[t]
<1> USE DEF Match, Save, Found, Return, NoCall, mutexes
<1>0. /\ p \in 1..allocated /\ allocated \in 0..MaxData
      /\ p \in SyncData
      /\ object[p] \in Objects
      /\ threadCount[p] \in Nat
      /\ threadCount'[p] = threadCount[p] + 1
      /\ \A d \in SyncData : d # p => threadCount'[d] = threadCount[d]
  BY BoundsAssumption DEF IInv, TypeOK, WalkInv, CacheInv, SyncData
<1>a. /\ pc'[t] # "unlock" /\ pc'[t] \notin {"search", "walk"}
      /\ pc'[t] = "lock" => call[t].why = "ACQUIRE" /\ at'[t] = p
      /\ unused'[t] = 0
      /\ \A u \in Threads \ {t} :
           pc'[u] = pc[u] /\ at'[u] = at[u] /\ unused'[u] = unused[u]
  BY DEF IInv, TypeOK
<1>1. TypeOK'
  <2>1. threadCount' \in [SyncData -> Nat]
    <3>1. threadCount' = [threadCount EXCEPT ![p] = threadCount[p] + 1]
      OBVIOUS
    <3> QED BY <1>0, <3>1 DEF IInv, TypeOK
  <2>2. lockCount' \in [Threads -> [SyncData -> Nat]]
    <3>1. \/ lockCount' = [lockCount EXCEPT ![t][p] = 1]
          \/ lockCount' = lockCount
      OBVIOUS
    <3>2. [lockCount EXCEPT ![t][p] = 1] \in [Threads -> [SyncData -> Nat]]
      BY <1>0 DEF IInv, TypeOK
    <3> QED BY <3>1, <3>2 DEF IInv, TypeOK
  <2>3. pc' \in [Threads -> {"idle", "search", "walk", "lock", "unlock"}]
    BY DEF IInv, TypeOK
  <2>4. call' \in [Threads -> [object : Objects \cup {0},
                              why : {"ACQUIRE", "RELEASE"}]]
    <3>1. call' = [call EXCEPT ![t] = [object |-> 0, why |-> "ACQUIRE"]]
      OBVIOUS
    <3> QED BY <3>1 DEF IInv, TypeOK
  <2>5. at' \in [Threads -> 0..MaxData] /\ unused' \in [Threads -> 0..MaxData]
    BY <1>0, BoundsAssumption DEF IInv, TypeOK
  <2> QED BY <2>1, <2>2, <2>3, <2>4, <2>5 DEF IInv, TypeOK
<1>2. UsersAreCounted'
  <2>1. threadCount[p] >= Cardinality(Users(p))
    BY <1>0 DEF IInv, UsersAreCounted, Users
  <2>2. threadCount'[p] >= Cardinality(Users(p)) + 1
    BY <1>0, <2>1, UsersFinite
  <2>3. \A u \in Threads, d \in SyncData :
          u # t \/ d # p => lockCount'[u][d] = lockCount[u][d]
    BY DEF IInv, TypeOK
  <2> QED BY <1>0, <2>2, <2>3, JoinCounted
<1>3. OneBlockPerObject'
  BY DEF IInv, OneBlockPerObject
<1>4. WalkInv'
  <2> SUFFICES ASSUME NEW u \in Threads
               PROVE  WalkInv!(u)'
    BY DEF WalkInv
  <2>1. CASE u = t
    BY <2>1 DEF IInv, TypeOK
  <2>2. CASE u # t
    BY <2>2 DEF IInv, TypeOK, WalkInv
  <2> QED BY <2>1, <2>2
<1>5. CacheInv'
  <2>1. \A d \in 1..allocated' : object'[d] \in Objects
    BY DEF IInv, CacheInv
  <2> SUFFICES ASSUME NEW u \in Threads, NEW d \in SyncData
               PROVE  CacheInv!2!(u, d)'
    BY <2>1 DEF CacheInv
  <2>2. CASE u = t /\ call[t].why = "ACQUIRE"
    <3>1. lockCount[t][p] = 0 /\ held[t][object[p]] = 0
      BY <1>0, Newcomer DEF IInv, WalkInv
    <3>2. pc'[t] = "lock" /\ at'[t] = p
      BY <2>2 DEF IInv, TypeOK
    <3>3. CASE d = p
      BY <1>0, <2>2, <3>1, <3>2, <3>3 DEF IInv, TypeOK
    <3>4. CASE d # p
      BY <1>0, <2>2, <3>2, <3>4 DEF IInv, TypeOK, CacheInv
    <3> QED BY <3>3, <3>4
  <2>3. CASE u # t
    BY <2>3 DEF IInv, TypeOK, CacheInv
  <2>4. CASE u = t /\ call[t].why # "ACQUIRE"
    BY <2>4 DEF IInv, TypeOK, CacheInv
  <2> QED BY <2>2, <2>3, <2>4
<1>6. MutexInv'
  <2>1. \A u \in Threads, d \in SyncData :
          (pc'[u] = "unlock" /\ at'[u] = d) <=> (pc[u] = "unlock" /\ at[u] = d)
    BY <1>a
  <2> QED BY <2>1 DEF IInv, MutexInv
<1>7. HeldInv'
  BY <1>0, <1>a DEF IInv, HeldInv
<1> QED BY <1>1, <1>2, <1>3, <1>4, <1>5, <1>6, <1>7 DEF IInv

LEMMA NoMatchStep ==
  ASSUME IInv, NEW t \in Threads, NoMatch(t)
  PROVE  IInv'
<1> USE DEF NoMatch, Return, NoCall, blocks, mutexes
<1>1. TypeOK'
  BY BoundsAssumption DEF IInv, TypeOK
<1>2. UsersAreCounted' /\ OneBlockPerObject'
  BY DEF IInv, UsersAreCounted, OneBlockPerObject
<1>3. WalkInv'
  <2> SUFFICES ASSUME NEW u \in Threads
               PROVE  WalkInv!(u)'
    BY DEF WalkInv
  <2>1. CASE u = t
    BY <2>1 DEF IInv, TypeOK
  <2>2. CASE u # t
    BY <2>2 DEF IInv, TypeOK, WalkInv
  <2> QED BY <2>1, <2>2
<1>4. CacheInv' /\ MutexInv' /\ HeldInv'
  BY DEF IInv, TypeOK, CacheInv, MutexInv, HeldInv
<1> QED BY <1>1, <1>2, <1>3, <1>4 DEF IInv

\* A thread takes a block p that nobody uses for an object no block has.
LEMMA TakeStep ==
  ASSUME IInv, NEW t \in Threads, NEW p \in SyncData,
         pc[t] = "walk", at[t] = 0, call[t].why = "ACQUIRE",
         allocated' \in 0..MaxData,
         \/ p <= allocated /\ allocated' = allocated
         \/ p = allocated + 1 /\ allocated' = p,
         \A u \in Threads :
           /\ lockCount[u][p] = 0
           /\ p <= allocated => held[u][object[p]] = 0
           /\ pc[u] = "lock" => at[u] # p,
         object' = [object EXCEPT ![p] = call[t].object],
         threadCount' = [threadCount EXCEPT ![p] = 1],
         listLock' = NoThread,
         Save(t, p), Found(t, p, "lock"),
         UNCHANGED <<mutexes, held>>
  PROVE  IInv'
<1> DEFINE o == call[t].object
<1> USE DEF Save, Found, NoCall, mutexes
<1>0. /\ allocated \in 0..MaxData /\ MaxData \in Nat
      /\ p \in 1..allocated'
      /\ 1..allocated \subseteq 1..allocated'
      /\ 1..allocated' \subseteq SyncData
      /\ 1..allocated' \subseteq 1..allocated \cup {p}
      /\ o \in Objects
      /\ listLock = t
  BY BoundsAssumption DEF IInv, TypeOK, WalkInv, SyncData
<1>1. \A d \in 1..allocated : object[d] # o
  BY <1>0 DEF IInv, WalkInv
<1>2. \A u \in Threads : held[u][o] \in Nat /\ held[u][o] = 0
  <2> SUFFICES ASSUME NEW u \in Threads
               PROVE  held[u][o] \in Nat /\ held[u][o] = 0
    OBVIOUS
  <2>1. held[u][o] \in Nat
    BY <1>0 DEF IInv, TypeOK
  <2>2. ~(held[u][o] > 0)
    BY <1>0, <1>1 DEF IInv, HeldInv
  <2> QED BY <2>1, <2>2
<1>3. /\ pc'[t] = "lock" /\ at'[t] = p /\ unused'[t] = 0
      /\ \A u \in Threads \ {t} :
           /\ pc'[u] = pc[u] /\ at'[u] = at[u] /\ unused'[u] = unused[u]
           /\ call'[u] = call[u]
  BY DEF IInv, TypeOK
<1>4. /\ object'[p] = o
      /\ \A d \in SyncData : d # p => object'[d] = object[d]
  BY DEF IInv, TypeOK
<1>5. TypeOK'
  <2>1. /\ object' \in [SyncData -> Objects \cup {0}]
        /\ threadCount' \in [SyncData -> Nat]
        /\ lockCount' \in [Threads -> [SyncData -> Nat]]
    BY <1>0 DEF IInv, TypeOK
  <2>2. pc' \in [Threads -> {"idle", "search", "walk", "lock", "unlock"}]
    BY DEF IInv, TypeOK
  <2>3. call' \in [Threads -> [object : Objects \cup {0},
                              why : {"ACQUIRE", "RELEASE"}]]
    BY DEF IInv, TypeOK
  <2>4. at' \in [Threads -> 0..MaxData] /\ unused' \in [Threads -> 0..MaxData]
    BY <1>0 DEF IInv, TypeOK, SyncData
  <2> QED BY <2>1, <2>2, <2>3, <2>4 DEF IInv, TypeOK
<1>6. UsersAreCounted'
  <2>1. Users(p) = {}
    BY DEF Users
  <2>2. threadCount'[p] = 1 /\ Cardinality(Users(p)) = 0
    BY <2>1, FS_EmptySet DEF IInv, TypeOK
  <2>3. \A d \in SyncData : d # p => threadCount'[d] = threadCount[d]
    BY DEF IInv, TypeOK
  <2>4. \A u \in Threads, d \in SyncData :
          u # t \/ d # p => lockCount'[u][d] = lockCount[u][d]
    BY DEF IInv, TypeOK
  <2> QED BY <2>2, <2>3, <2>4, JoinCounted
<1>7. OneBlockPerObject'
  BY <1>0, <1>1, <1>4 DEF IInv, OneBlockPerObject
<1>8. WalkInv'
  <2> SUFFICES ASSUME NEW u \in Threads
               PROVE  WalkInv!(u)'
    BY DEF WalkInv
  <2>1. CASE u = t
    BY <1>3, <2>1
  <2>2. CASE u # t
    BY <1>0, <1>3, <2>2 DEF IInv, WalkInv
  <2> QED BY <2>1, <2>2
<1>9. CacheInv'
  <2>1. \A d \in 1..allocated' : object'[d] \in Objects
    BY <1>0, <1>4 DEF IInv, CacheInv
  <2> SUFFICES ASSUME NEW u \in Threads, NEW d \in SyncData
               PROVE  CacheInv!2!(u, d)'
    BY <2>1 DEF CacheInv
  <2>2. CASE d = p
    <3>1. held'[u][object'[d]] = 0 /\ d <= allocated'
      BY <1>0, <1>2, <1>4, <2>2
    <3>2. CASE u = t
      BY <1>3, <2>2, <3>1, <3>2 DEF IInv, TypeOK
    <3>3. CASE u # t
      BY <1>3, <2>2, <3>1, <3>3 DEF IInv, TypeOK
    <3> QED BY <3>2, <3>3
  <2>3. CASE d # p
    <3>1. (d <= allocated') <=> (d <= allocated)
      BY <1>0, <2>3 DEF SyncData
    <3>2. lockCount'[u][d] = lockCount[u][d]
      BY <2>3 DEF IInv, TypeOK
    <3>3. (pc'[u] = "lock" /\ at'[u] = d) <=> (pc[u] = "lock" /\ at[u] = d)
      BY <1>3, <2>3
    <3> QED BY <1>4, <2>3, <3>1, <3>2, <3>3 DEF IInv, CacheInv
  <2> QED BY <2>2, <2>3
<1>10. MutexInv'
  <2> SUFFICES ASSUME NEW d \in SyncData, NEW u \in Threads, owner[d] = u
               PROVE  /\ d <= allocated' /\ depth[d] > 0
                      /\ depth[d] = held[u][object'[d]]
                           + (IF pc'[u] = "unlock" /\ at'[u] = d THEN 1 ELSE 0)
    BY DEF IInv, MutexInv
  <2>1. /\ d <= allocated /\ depth[d] > 0
        /\ depth[d] = held[u][object[d]]
                      + (IF pc[u] = "unlock" /\ at[u] = d THEN 1 ELSE 0)
    BY DEF IInv, MutexInv
  <2>2. (pc'[u] = "unlock" /\ at'[u] = d) <=> (pc[u] = "unlock" /\ at[u] = d)
    BY <1>3
  <2>3. held[u][object'[d]] = held[u][object[d]]
    BY <1>2, <1>4, <2>1
  <2> QED BY <1>0, <2>1, <2>2, <2>3 DEF SyncData
<1>11. HeldInv'
  <2> SUFFICES ASSUME NEW u \in Threads
               PROVE  HeldInv!(u)'
    BY DEF HeldInv
  <2>1. /\ pc'[u] \in {"lock", "unlock"} => at'[u] \in 1..allocated'
        /\ pc'[u] = "unlock" => owner[at'[u]] = u
    BY <1>0, <1>3 DEF IInv, HeldInv
  <2>2. ASSUME NEW q \in Objects, held[u][q] > 0
        PROVE  \E d \in 1..allocated' : object'[d] = q /\ owner[d] = u
    <3>1. PICK d \in 1..allocated : object[d] = q /\ owner[d] = u
      BY <2>2 DEF IInv, HeldInv
    <3>2. d # p
      BY <2>2, <3>1
    <3> QED BY <1>0, <1>4, <3>1, <3>2
  <2> QED BY <2>1, <2>2
<1> QED BY <1>5, <1>6, <1>7, <1>8, <1>9, <1>10, <1>11 DEF IInv

LEMMA RecycleStep ==
  ASSUME IInv, NEW t \in Threads, Recycle(t)
  PROVE  IInv'
<1> DEFINE p == unused[t]
<1>1. p \in 1..allocated /\ p \in SyncData /\ threadCount[p] = 0
  BY BoundsAssumption DEF Recycle, IInv, TypeOK, WalkInv, SyncData
<1>2. \A u \in Threads :
        /\ lockCount[u][p] = 0
        /\ p <= allocated => held[u][object[p]] = 0
        /\ pc[u] = "lock" => at[u] # p
  BY <1>1, Unused
<1>3. allocated' = allocated /\ allocated \in 0..MaxData /\ p <= allocated
  BY <1>1, BoundsAssumption DEF Recycle, IInv, TypeOK
<1> QED BY <1>1, <1>2, <1>3, TakeStep DEF Recycle

LEMMA AllocateStep ==
  ASSUME IInv, NEW t \in Threads, Allocate(t)
  PROVE  IInv'
<1> DEFINE p == allocated + 1
<1>1. /\ p \in SyncData /\ allocated' = p /\ p \in 0..MaxData
      /\ ~(p <= allocated)
  BY BoundsAssumption DEF Allocate, IInv, TypeOK, SyncData
<1>2. \A u \in Threads :
        /\ pc[u] = "lock" => at[u] # p
        /\ lockCount[u][p] = 0
  BY <1>1 DEF IInv, HeldInv, CacheInv
<1> QED BY <1>1, <1>2, TakeStep DEF Allocate

\* A thread that is in the client starts to search the list for an object
\* it has not entered.
LEMMA SearchStep ==
  ASSUME IInv, NEW t \in Threads, NEW o \in Objects, pc[t] = "idle",
         Cached(t, o) = {}, NEW why \in {"ACQUIRE", "RELEASE"},
         Search(t, o, why),
         UNCHANGED <<blocks, mutexes, listLock, lockCount, held>>
  PROVE  IInv'
<1> USE DEF Search, blocks, mutexes
<1>0. held[t][o] \in Nat /\ held[t][o] = 0
  BY InCache DEF IInv, TypeOK
<1>1. TypeOK'
  BY DEF IInv, TypeOK
<1>2. UsersAreCounted' /\ OneBlockPerObject'
  BY DEF IInv, UsersAreCounted, OneBlockPerObject
<1>3. WalkInv'
  <2> SUFFICES ASSUME NEW u \in Threads
               PROVE  WalkInv!(u)'
    BY DEF WalkInv
  <2>1. CASE u = t
    BY <1>0, <2>1 DEF IInv, TypeOK, WalkInv
  <2>2. CASE u # t
    BY <2>2 DEF IInv, TypeOK, WalkInv
  <2> QED BY <2>1, <2>2
<1>4. CacheInv' /\ MutexInv' /\ HeldInv'
  BY DEF IInv, TypeOK, CacheInv, MutexInv, HeldInv
<1> QED BY <1>1, <1>2, <1>3, <1>4 DEF IInv

\* The block in the cache of a thread in the client.
LEMMA InCacheBlock ==
  ASSUME IInv, NEW t \in Threads, NEW o \in Objects, pc[t] = "idle",
         NEW d \in Cached(t, o)
  PROVE  /\ d \in 1..allocated /\ d \in SyncData
         /\ object[d] = o
         /\ held[t][o] \in Nat /\ held[t][o] > 0
         /\ lockCount[t][d] = held[t][o]
         /\ owner[d] = t
         /\ threadCount[d] \in Nat /\ threadCount[d] > 0
<1>1. /\ d \in SyncData /\ object[d] = o /\ lockCount[t][d] > 0
      /\ held[t][o] \in Nat /\ lockCount[t][d] \in Nat
      /\ allocated \in 0..MaxData /\ MaxData \in Nat
  BY BoundsAssumption DEF Cached, IInv, TypeOK
<1>2. lockCount[t][d] = (IF d <= allocated THEN held[t][object[d]] ELSE 0) + 0
  BY <1>1 DEF IInv, CacheInv
<1>3. d \in 1..allocated /\ lockCount[t][d] = held[t][o] /\ held[t][o] > 0
  BY <1>1, <1>2 DEF SyncData
<1>4. owner[d] = t
  <2>1. PICK e \in 1..allocated : object[e] = o /\ owner[e] = t
    BY <1>3 DEF IInv, HeldInv
  <2> QED BY <1>1, <1>3, <2>1 DEF IInv, OneBlockPerObject
<1>5. threadCount[d] \in Nat /\ threadCount[d] > 0
  <2>1. t \in Users(d)
    BY <1>1 DEF Users
  <2>2. Cardinality(Users(d)) > 0
    BY <2>1, UsersFinite
  <2>3. threadCount[d] >= Cardinality(Users(d)) /\ threadCount[d] \in Nat
    BY <1>1 DEF IInv, TypeOK, UsersAreCounted, Users
  <2> QED BY <2>2, <2>3, UsersFinite
<1> QED BY <1>1, <1>3, <1>4, <1>5

\* The other blocks are those of other objects.
LEMMA OtherObjects ==
  ASSUME IInv, NEW d \in 1..allocated
  PROVE  \A e \in 1..allocated : e # d => object[e] # object[d]
BY DEF IInv, OneBlockPerObject

LEMMA EnterStep ==
  ASSUME IInv, NEW t \in Threads, NEW o \in Objects, Enter(t, o)
  PROVE  IInv'
<1>1. CASE Cached(t, o) = {}
  BY <1>1, SearchStep DEF Enter, MayEnter
<1>2. CASE Cached(t, o) # {}
  <2>1. PICK d \in Cached(t, o) :
               /\ lockCount' = [lockCount EXCEPT ![t][d] = @ + 1]
               /\ Found(t, d, "lock")
    BY <1>2 DEF Enter
  <2> USE DEF Enter, MayEnter, Found, NoCall, blocks, mutexes
  <2>0. /\ d \in 1..allocated /\ d \in SyncData /\ object[d] = o
        /\ held[t][o] \in Nat /\ held[t][o] > 0
        /\ lockCount[t][d] = held[t][o]
        /\ allocated \in 0..MaxData /\ MaxData \in Nat
    BY <1>2, InCacheBlock, BoundsAssumption DEF IInv, TypeOK
  <2>a. /\ pc'[t] = "lock" /\ at'[t] = d /\ unused'[t] = 0
        /\ lockCount'[t][d] = lockCount[t][d] + 1
        /\ \A u \in Threads \ {t} :
             /\ pc'[u] = pc[u] /\ at'[u] = at[u] /\ unused'[u] = unused[u]
             /\ call'[u] = call[u]
        /\ \A u \in Threads, e \in SyncData :
             u # t \/ e # d => lockCount'[u][e] = lockCount[u][e]
    BY <2>0, <2>1 DEF IInv, TypeOK
  <2>2. TypeOK'
    <3>1. lockCount' \in [Threads -> [SyncData -> Nat]]
      BY <2>0, <2>1 DEF IInv, TypeOK
    <3>2. pc' \in [Threads -> {"idle", "search", "walk", "lock", "unlock"}]
      BY <1>2, <2>1 DEF IInv, TypeOK
    <3>3. call' \in [Threads -> [object : Objects \cup {0},
                                why : {"ACQUIRE", "RELEASE"}]]
      BY <1>2, <2>1 DEF IInv, TypeOK
    <3>4. /\ at' \in [Threads -> 0..MaxData]
          /\ unused' \in [Threads -> 0..MaxData]
      BY <1>2, <2>0, <2>1 DEF IInv, TypeOK
    <3> QED BY <1>2, <3>1, <3>2, <3>3, <3>4 DEF IInv, TypeOK
  <2>3. UsersAreCounted'
    <3>1. \A u \in Threads, e \in SyncData :
            lockCount'[u][e] > 0 <=> lockCount[u][e] > 0
      BY <2>0, <2>a
    <3>2. \A e \in SyncData : {u \in Threads : lockCount'[u][e] > 0}
                                = {u \in Threads : lockCount[u][e] > 0}
      BY <3>1
    <3> QED BY <1>2, <3>2 DEF IInv, UsersAreCounted
  <2>4. OneBlockPerObject'
    BY DEF IInv, OneBlockPerObject
  <2>5. WalkInv'
    <3> SUFFICES ASSUME NEW u \in Threads
                 PROVE  WalkInv!(u)'
      BY DEF WalkInv
    <3>1. CASE u = t
      BY <2>a, <3>1
    <3>2. CASE u # t
      BY <2>a, <3>2 DEF IInv, WalkInv
    <3> QED BY <3>1, <3>2
  <2>6. CacheInv'
    <3>1. \A e \in 1..allocated' : object'[e] \in Objects
      BY DEF IInv, CacheInv
    <3> SUFFICES ASSUME NEW u \in Threads, NEW e \in SyncData
                 PROVE  CacheInv!2!(u, e)'
      BY <3>1 DEF CacheInv
    <3>2. CASE u = t /\ e = d
      BY <2>0, <2>a, <3>2
    <3>3. CASE u = t /\ e # d
      BY <2>a, <3>3 DEF IInv, CacheInv
    <3>4. CASE u # t
      BY <2>a, <3>4 DEF IInv, CacheInv
    <3> QED BY <3>2, <3>3, <3>4
  <2>7. MutexInv'
    <3>1. \A u \in Threads, e \in SyncData :
            (pc'[u] = "unlock" /\ at'[u] = e)
              <=> (pc[u] = "unlock" /\ at[u] = e)
      BY <2>a
    <3> QED BY <3>1 DEF IInv, MutexInv
  <2>8. HeldInv'
    <3>1. ASSUME NEW u \in Threads
          PROVE  /\ pc'[u] \in {"lock", "unlock"} => at'[u] \in 1..allocated
                 /\ pc'[u] = "unlock" => owner[at'[u]] = u
      BY <2>0, <2>a DEF IInv, HeldInv
    <3> QED BY <3>1 DEF IInv, HeldInv
  <2> QED BY <2>2, <2>3, <2>4, <2>5, <2>6, <2>7, <2>8 DEF IInv
<1> QED BY <1>1, <1>2

LEMMA LockMutexStep ==
  ASSUME IInv, NEW t \in Threads, LockMutex(t)
  PROVE  IInv'
<1> DEFINE d == at[t]
           o == object[d]
<1> USE DEF LockMutex, Return, NoCall, blocks
<1>0. /\ d \in 1..allocated /\ d \in SyncData /\ o \in Objects
      /\ allocated \in 0..MaxData /\ MaxData \in Nat
      /\ held[t][o] \in Nat /\ depth[d] \in Nat
      /\ lockCount[t][d] = held[t][o] + 1
  BY BoundsAssumption DEF IInv, TypeOK, HeldInv, CacheInv, SyncData
<1>a. /\ pc'[t] = "idle" /\ unused'[t] = 0
      /\ held'[t][o] = held[t][o] + 1
      /\ owner'[d] = t /\ depth'[d] = depth[d] + 1
      /\ \A u \in Threads \ {t} :
           /\ pc'[u] = pc[u] /\ at'[u] = at[u] /\ unused'[u] = unused[u]
           /\ call'[u] = call[u]
      /\ \A u \in Threads, q \in Objects :
           u # t \/ q # o => held'[u][q] = held[u][q]
      /\ \A e \in SyncData : e # d => owner'[e] = owner[e]
                                      /\ depth'[e] = depth[e]
  BY <1>0 DEF IInv, TypeOK
<1>1. TypeOK'
  <2>1. /\ owner' \in [SyncData -> Threads \cup {NoThread}]
        /\ held' \in [Threads -> [Objects -> Nat]]
    BY <1>0 DEF IInv, TypeOK
  <2>2. depth' \in [SyncData -> Nat]
    BY <1>0 DEF IInv, TypeOK
  <2>3. /\ pc' \in [Threads -> {"idle", "search", "walk", "lock", "unlock"}]
        /\ call' \in [Threads -> [object : Objects \cup {0},
                                why : {"ACQUIRE", "RELEASE"}]]
    BY DEF IInv, TypeOK
  <2>4. at' \in [Threads -> 0..MaxData] /\ unused' \in [Threads -> 0..MaxData]
    BY <1>0 DEF IInv, TypeOK
  <2> QED BY <2>1, <2>2, <2>3, <2>4 DEF IInv, TypeOK
<1>2. UsersAreCounted' /\ OneBlockPerObject'
  BY DEF IInv, UsersAreCounted, OneBlockPerObject
<1>3. WalkInv'
  <2> SUFFICES ASSUME NEW u \in Threads
               PROVE  WalkInv!(u)'
    BY DEF WalkInv
  <2>1. CASE u = t
    BY <1>a, <2>1
  <2>2. CASE u # t
    BY <1>a, <2>2 DEF IInv, WalkInv
  <2> QED BY <2>1, <2>2
<1>4. CacheInv'
  <2>1. \A e \in 1..allocated' : object'[e] \in Objects
    BY DEF IInv, CacheInv
  <2> SUFFICES ASSUME NEW u \in Threads, NEW e \in SyncData
               PROVE  CacheInv!2!(u, e)'
    BY <2>1 DEF CacheInv
  <2>2. CASE u = t /\ e = d
    BY <1>0, <1>a, <2>2
  <2>3. CASE u = t /\ e # d
    <3>1. e <= allocated => object[e] \in Objects /\ object[e] # o
      BY <1>0, <2>3, OtherObjects DEF IInv, CacheInv, SyncData
    <3> QED BY <1>a, <2>3, <3>1 DEF IInv, CacheInv
  <2>4. CASE u # t
    <3>1. e <= allocated => object[e] \in Objects
      BY <1>0 DEF IInv, CacheInv, SyncData
    <3> QED BY <1>a, <2>4, <3>1 DEF IInv, CacheInv
  <2> QED BY <2>2, <2>3, <2>4
<1>5. MutexInv'
  <2> SUFFICES ASSUME NEW e \in SyncData
               PROVE  MutexInv!(e)'
    BY DEF MutexInv
  <2>1. CASE e = d
    <3>1. CASE owner[d] = t
      <4>1. depth[d] = held[t][o] + 0
        BY <1>0, <3>1 DEF IInv, MutexInv
      <4> QED BY <1>0, <1>a, <2>1, <4>1, ThreadsAssumption
    <3>2. CASE owner[d] = NoThread
      <4>1. depth[d] = 0
        BY <1>0, <3>2 DEF IInv, MutexInv
      <4>2. held[t][o] = 0
        <5>1. ASSUME held[t][o] > 0 PROVE FALSE
          <6>1. PICK f \in 1..allocated : object[f] = o /\ owner[f] = t
            BY <1>0, <5>1 DEF IInv, HeldInv
          <6>2. f = d
            BY <1>0, <6>1 DEF IInv, OneBlockPerObject
          <6> QED BY <3>2, <6>1, <6>2, ThreadsAssumption
        <5> QED BY <1>0, <5>1
      <4> QED BY <1>0, <1>a, <2>1, <4>1, <4>2, ThreadsAssumption
    <3> QED BY <3>1, <3>2
  <2>2. CASE e # d
    <3>1. e <= allocated => object[e] \in Objects /\ object[e] # o
      BY <1>0, <2>2, OtherObjects DEF IInv, CacheInv, SyncData
    <3>2. \A u \in Threads : (pc'[u] = "unlock" /\ at'[u] = e)
                               <=> (pc[u] = "unlock" /\ at[u] = e)
      BY <1>a
    <3> QED BY <1>a, <2>2, <3>1, <3>2 DEF IInv, MutexInv
  <2> QED BY <2>1, <2>2
<1>6. HeldInv'
  <2> SUFFICES ASSUME NEW u \in Threads
               PROVE  HeldInv!(u)'
    BY DEF HeldInv
  <2>1. /\ pc'[u] \in {"lock", "unlock"} => at'[u] \in 1..allocated
        /\ pc'[u] = "unlock" => owner'[at'[u]] = u
    <3>1. CASE u = t
      BY <1>a, <3>1
    <3>2. CASE u # t
      <4>1. /\ pc[u] \in {"lock", "unlock"} => at[u] \in 1..allocated
            /\ pc[u] = "unlock" => owner[at[u]] = u
        BY DEF IInv, HeldInv
      <4>2. pc[u] = "unlock" => at[u] # d
        BY <3>2, <4>1, ThreadsAssumption
      <4>3. 1..allocated \subseteq SyncData
        BY <1>0 DEF SyncData
      <4> QED BY <1>a, <3>2, <4>1, <4>2, <4>3
    <3> QED BY <3>1, <3>2
  <2>2. ASSUME NEW q \in Objects, held'[u][q] > 0
        PROVE  \E e \in 1..allocated : object[e] = q /\ owner'[e] = u
    <3>1. CASE u = t /\ q = o
      BY <1>0, <1>a, <3>1
    <3>2. CASE u # t \/ q # o
      <4>1. PICK e \in 1..allocated : object[e] = q /\ owner[e] = u
        BY <1>a, <2>2, <3>2 DEF IInv, HeldInv
      <4>2. e # d
        BY <3>2, <4>1, ThreadsAssumption
      <4>3. e \in SyncData
        BY <1>0 DEF SyncData
      <4> QED BY <1>a, <4>1, <4>2, <4>3
    <3> QED BY <3>1, <3>2
  <2> QED BY <2>1, <2>2
<1> QED BY <1>1, <1>2, <1>3, <1>4, <1>5, <1>6 DEF IInv

LEMMA ExitStep ==
  ASSUME IInv, NEW t \in Threads, NEW o \in Objects, Exit(t, o)
  PROVE  IInv'
<1> USE DEF Exit, Forget, Found, NoCall, mutexes
<1>0. PICK d \in Cached(t, o) : Forget(t, d) /\ Found(t, d, "unlock")
  OBVIOUS
<1>1. /\ d \in 1..allocated /\ d \in SyncData /\ object[d] = o
      /\ held[t][o] \in Nat /\ held[t][o] > 0
      /\ lockCount[t][d] = held[t][o]
      /\ owner[d] = t
      /\ threadCount[d] \in Nat /\ threadCount[d] > 0
      /\ allocated \in 0..MaxData /\ MaxData \in Nat
  BY InCacheBlock, BoundsAssumption DEF IInv, TypeOK
<1>a. /\ pc'[t] = "unlock" /\ at'[t] = d /\ unused'[t] = 0
      /\ lockCount'[t][d] = lockCount[t][d] - 1
      /\ held'[t][o] = held[t][o] - 1
      /\ threadCount'[d] = IF lockCount[t][d] = 1 THEN threadCount[d] - 1
                           ELSE threadCount[d]
      /\ \A e \in SyncData : e # d => threadCount'[e] = threadCount[e]
      /\ \A u \in Threads \ {t} :
           /\ pc'[u] = pc[u] /\ at'[u] = at[u] /\ unused'[u] = unused[u]
           /\ call'[u] = call[u]
      /\ \A u \in Threads, e \in SyncData :
           u # t \/ e # d => lockCount'[u][e] = lockCount[u][e]
      /\ \A u \in Threads, q \in Objects :
           u # t \/ q # o => held'[u][q] = held[u][q]
  BY <1>0, <1>1 DEF IInv, TypeOK
<1>2. TypeOK'
  <2>1. lockCount' \in [Threads -> [SyncData -> Nat]]
    <3>1. lockCount' = [lockCount EXCEPT ![t][d] = lockCount[t][d] - 1]
      BY <1>0 DEF IInv, TypeOK
    <3> QED BY <1>1, <3>1 DEF IInv, TypeOK
  <2>2. threadCount' \in [SyncData -> Nat]
    BY <1>0, <1>1 DEF IInv, TypeOK
  <2>3. held' \in [Threads -> [Objects -> Nat]]
    BY <1>1 DEF IInv, TypeOK
  <2>4. pc' \in [Threads -> {"idle", "search", "walk", "lock", "unlock"}]
    BY <1>0 DEF IInv, TypeOK
  <2>5. call' \in [Threads -> [object : Objects \cup {0},
                              why : {"ACQUIRE", "RELEASE"}]]
    BY <1>0 DEF IInv, TypeOK
  <2>6. at' \in [Threads -> 0..MaxData] /\ unused' \in [Threads -> 0..MaxData]
    BY <1>0, <1>1 DEF IInv, TypeOK
  <2> QED BY <2>1, <2>2, <2>3, <2>4, <2>5, <2>6 DEF IInv, TypeOK
<1>3. UsersAreCounted'
  <2> SUFFICES ASSUME NEW e \in SyncData
               PROVE  threadCount'[e] >= Cardinality(Users(e)')
    BY DEF UsersAreCounted, Users
  <2>1. threadCount[e] >= Cardinality(Users(e)) /\ threadCount[e] \in Nat
    BY DEF IInv, TypeOK, UsersAreCounted, Users
  <2>2. CASE e = d /\ lockCount[t][d] = 1
    <3>1. t \in Users(e) /\ Users(e)' \subseteq Users(e) \ {t}
      BY <1>1, <1>a, <2>2 DEF Users
    <3>2. Cardinality(Users(e)') <= Cardinality(Users(e)) - 1
      BY <3>1, UsersFinite, OneLess
    <3>3. Cardinality(Users(e)') \in Nat
      <4>1. IsFiniteSet(Users(e)')
        BY ThreadsAssumption, FS_Subset DEF Users
      <4> QED BY <4>1, FS_CardinalityType
    <3> QED BY <1>1, <1>a, <2>1, <2>2, <3>2, <3>3, UsersFinite
  <2>3. CASE ~(e = d /\ lockCount[t][d] = 1)
    <3>1. \A u \in Threads : lockCount'[u][e] > 0 <=> lockCount[u][e] > 0
      BY <1>1, <1>a, <2>3
    <3>2. Users(e)' = Users(e)
      BY <3>1 DEF Users
    <3>3. threadCount'[e] = threadCount[e]
      BY <1>a, <2>3
    <3> QED BY <2>1, <3>2, <3>3
  <2> QED BY <2>2, <2>3
<1>4. OneBlockPerObject'
  BY DEF IInv, OneBlockPerObject
<1>5. WalkInv'
  <2> SUFFICES ASSUME NEW u \in Threads
               PROVE  WalkInv!(u)'
    BY DEF WalkInv
  <2>1. CASE u = t
    BY <1>a, <2>1
  <2>2. CASE u # t
    <3>1. WalkInv!(u)
      BY DEF IInv, WalkInv
    <3>2. held'[u] = held[u]
      BY <2>2 DEF IInv, TypeOK
    <3>3. pc[u] = "walk" /\ unused[u] # 0 =>
            threadCount'[unused[u]] = 0
      <4> SUFFICES ASSUME pc[u] = "walk", unused[u] # 0
                   PROVE  threadCount'[unused[u]] = 0
        OBVIOUS
      <4>1. unused[u] \in SyncData
        BY DEF IInv, TypeOK, SyncData
      <4>2. threadCount[unused[u]] = 0
        BY <3>1
      <4> QED BY <1>1, <1>a, <4>1, <4>2
    <3> QED BY <1>a, <2>2, <3>1, <3>2, <3>3
  <2> QED BY <2>1, <2>2
<1>6. CacheInv'
  <2>1. \A e \in 1..allocated' : object'[e] \in Objects
    BY DEF IInv, CacheInv
  <2> SUFFICES ASSUME NEW u \in Threads, NEW e \in SyncData
               PROVE  CacheInv!2!(u, e)'
    BY <2>1 DEF CacheInv
  <2>2. CASE u = t /\ e = d
    BY <1>1, <1>a, <2>2
  <2>3. CASE u = t /\ e # d
    <3>1. e <= allocated => object[e] \in Objects /\ object[e] # o
      BY <1>1, <2>3, OtherObjects DEF IInv, CacheInv, SyncData
    <3> QED BY <1>a, <2>3, <3>1 DEF IInv, CacheInv
  <2>4. CASE u # t
    <3>1. e <= allocated => object[e] \in Objects
      BY <1>1 DEF IInv, CacheInv, SyncData
    <3> QED BY <1>a, <2>4, <3>1 DEF IInv, CacheInv
  <2> QED BY <2>2, <2>3, <2>4
<1>7. MutexInv'
  <2> SUFFICES ASSUME NEW e \in SyncData, NEW u \in Threads, owner[e] = u
               PROVE  /\ e <= allocated /\ depth[e] > 0
                      /\ depth[e] = held'[u][object[e]]
                           + (IF pc'[u] = "unlock" /\ at'[u] = e THEN 1 ELSE 0)
    BY DEF IInv, MutexInv
  <2>1. /\ e <= allocated /\ depth[e] > 0
        /\ depth[e] = held[u][object[e]]
                      + (IF pc[u] = "unlock" /\ at[u] = e THEN 1 ELSE 0)
        /\ object[e] \in Objects
        /\ held[u][object[e]] \in Nat
    <3>1. e <= allocated /\ e \in 1..allocated
      BY <1>1 DEF IInv, MutexInv, SyncData
    <3> QED BY <3>1 DEF IInv, MutexInv, CacheInv, TypeOK
  <2>2. CASE e = d
    BY <1>1, <1>a, <2>1, <2>2
  <2>3. CASE e # d
    <3>1. object[e] # o
      BY <1>1, <2>1, <2>3, OtherObjects DEF SyncData
    <3>2. held'[u][object[e]] = held[u][object[e]]
      BY <1>a, <2>1, <3>1
    <3>3. (pc'[u] = "unlock" /\ at'[u] = e) <=> (pc[u] = "unlock" /\ at[u] = e)
      BY <1>a, <2>3
    <3> QED BY <2>1, <3>2, <3>3
  <2> QED BY <2>2, <2>3
<1>8. HeldInv'
  <2> SUFFICES ASSUME NEW u \in Threads
               PROVE  HeldInv!(u)'
    BY DEF HeldInv
  <2>1. /\ pc'[u] \in {"lock", "unlock"} => at'[u] \in 1..allocated
        /\ pc'[u] = "unlock" => owner[at'[u]] = u
    BY <1>1, <1>a DEF IInv, HeldInv
  <2>2. ASSUME NEW q \in Objects, held'[u][q] > 0
        PROVE  \E e \in 1..allocated : object[e] = q /\ owner[e] = u
    <3>1. held[u][q] > 0
      BY <1>1, <1>a, <2>2
    <3> QED BY <3>1 DEF IInv, HeldInv
  <2> QED BY <2>1, <2>2
<1> QED BY <1>2, <1>3, <1>4, <1>5, <1>6, <1>7, <1>8 DEF IInv

LEMMA UnlockMutexStep ==
  ASSUME IInv, NEW t \in Threads, UnlockMutex(t)
  PROVE  IInv'
<1> DEFINE d == at[t]
<1> USE DEF UnlockMutex, Return, NoCall, blocks
<1>0. /\ d \in 1..allocated /\ d \in SyncData
      /\ owner[d] = t
      /\ allocated \in 0..MaxData /\ MaxData \in Nat
      /\ object[d] \in Objects
      /\ held[t][object[d]] \in Nat
      /\ depth[d] \in Nat
      /\ depth[d] = held[t][object[d]] + 1
  <2>1. /\ d \in 1..allocated /\ owner[d] = t
        /\ allocated \in 0..MaxData /\ MaxData \in Nat
    BY BoundsAssumption DEF IInv, TypeOK, HeldInv
  <2>2. d \in SyncData /\ object[d] \in Objects
    BY <2>1 DEF IInv, CacheInv, SyncData
  <2> QED BY <2>1, <2>2 DEF IInv, TypeOK, MutexInv
<1>a. /\ pc'[t] = "idle" /\ unused'[t] = 0
      /\ depth'[d] = depth[d] - 1
      /\ owner'[d] = IF depth[d] = 1 THEN NoThread ELSE t
      /\ \A u \in Threads \ {t} :
           /\ pc'[u] = pc[u] /\ at'[u] = at[u] /\ unused'[u] = unused[u]
           /\ call'[u] = call[u]
      /\ \A e \in SyncData : e # d => owner'[e] = owner[e]
                                      /\ depth'[e] = depth[e]
  BY <1>0 DEF IInv, TypeOK, mutexes
<1>1. TypeOK'
  <2>1. owner' \in [SyncData -> Threads \cup {NoThread}]
    BY <1>0 DEF IInv, TypeOK
  <2>2. depth' \in [SyncData -> Nat]
    <3>1. depth' = [depth EXCEPT ![d] = held[t][object[d]]]
      BY <1>0 DEF IInv, TypeOK
    <3> QED BY <1>0, <3>1 DEF IInv, TypeOK
  <2>3. /\ pc' \in [Threads -> {"idle", "search", "walk", "lock", "unlock"}]
        /\ call' \in [Threads -> [object : Objects \cup {0},
                                why : {"ACQUIRE", "RELEASE"}]]
    BY DEF IInv, TypeOK
  <2>4. at' \in [Threads -> 0..MaxData] /\ unused' \in [Threads -> 0..MaxData]
    BY <1>0 DEF IInv, TypeOK
  <2> QED BY <2>1, <2>2, <2>3, <2>4 DEF IInv, TypeOK
<1>2. UsersAreCounted' /\ OneBlockPerObject'
  BY DEF IInv, UsersAreCounted, OneBlockPerObject
<1>3. WalkInv'
  <2> SUFFICES ASSUME NEW u \in Threads
               PROVE  WalkInv!(u)'
    BY DEF WalkInv
  <2>1. CASE u = t
    BY <1>a, <2>1
  <2>2. CASE u # t
    BY <1>a, <2>2 DEF IInv, WalkInv
  <2> QED BY <2>1, <2>2
<1>4. CacheInv'
  <2>1. \A u \in Threads, e \in SyncData :
          (pc'[u] = "lock" /\ at'[u] = e) <=> (pc[u] = "lock" /\ at[u] = e)
    BY <1>a
  <2> QED BY <2>1 DEF IInv, CacheInv
<1>5. MutexInv'
  <2> SUFFICES ASSUME NEW e \in SyncData
               PROVE  MutexInv!(e)'
    BY DEF MutexInv
  <2>1. CASE e = d
    <3>1. CASE depth[d] = 1
      <4>1. owner'[d] = NoThread
        BY <1>a, <3>1
      <4>2. depth'[d] = 0
        BY <1>a, <3>1
      <4> QED BY <2>1, <4>1, <4>2, ThreadsAssumption
    <3>2. CASE depth[d] # 1
      <4>1. /\ owner'[e] = t /\ depth'[e] = held[t][object[d]]
            /\ depth'[e] > 0
        BY <1>0, <1>a, <2>1, <3>2
      <4> QED BY <1>0, <1>a, <2>1, <4>1, ThreadsAssumption
    <3> QED BY <3>1, <3>2
  <2>2. CASE e # d
    <3>1. \A u \in Threads : (pc'[u] = "unlock" /\ at'[u] = e)
                               <=> (pc[u] = "unlock" /\ at[u] = e)
      BY <1>a, <2>2
    <3> QED BY <1>a, <2>2, <3>1 DEF IInv, MutexInv
  <2> QED BY <2>1, <2>2
<1>6. HeldInv'
  <2> SUFFICES ASSUME NEW u \in Threads
               PROVE  HeldInv!(u)'
    BY DEF HeldInv
  <2>1. /\ pc'[u] \in {"lock", "unlock"} => at'[u] \in 1..allocated
        /\ pc'[u] = "unlock" => owner'[at'[u]] = u
    <3>1. CASE u = t
      BY <1>a, <3>1
    <3>2. CASE u # t
      <4>1. /\ pc[u] \in {"lock", "unlock"} => at[u] \in 1..allocated
            /\ pc[u] = "unlock" => owner[at[u]] = u
        BY DEF IInv, HeldInv
      <4>2. pc[u] = "unlock" => at[u] # d
        BY <1>0, <3>2, <4>1
      <4>3. 1..allocated \subseteq SyncData
        BY <1>0 DEF SyncData
      <4> QED BY <1>a, <3>2, <4>1, <4>2, <4>3
    <3> QED BY <3>1, <3>2
  <2>2. ASSUME NEW q \in Objects, held[u][q] > 0
        PROVE  \E e \in 1..allocated : object[e] = q /\ owner'[e] = u
    <3>1. PICK e \in 1..allocated : object[e] = q /\ owner[e] = u
      BY <2>2 DEF IInv, HeldInv
    <3>2. e \in SyncData
      BY <1>0 DEF SyncData
    <3>3. CASE e # d
      BY <1>a, <3>1, <3>2, <3>3
    <3>4. CASE e = d
      <4>1. depth[d] # 1
        BY <1>0, <2>2, <3>1, <3>4
      <4> QED BY <1>0, <1>a, <3>1, <3>4, <4>1
    <3> QED BY <3>3, <3>4
  <2> QED BY <2>1, <2>2
<1> QED BY <1>1, <1>2, <1>3, <1>4, <1>5, <1>6 DEF IInv

-----------------------------------------------------------------------------
(* The theorems *)

LEMMA NextIInv == IInv /\ [Next]_vars => IInv'
<1> SUFFICES ASSUME IInv, [Next]_vars PROVE IInv'
  OBVIOUS
<1>1. ASSUME NEW t \in Threads, Step(t) PROVE IInv'
  BY <1>1, LockListStep, SkipStep, MatchStep, NoMatchStep, RecycleStep,
     AllocateStep, LockMutexStep, UnlockMutexStep DEF Step
<1>2. ASSUME NEW t \in Threads, NEW o \in Objects, ExitUnknown(t, o)
      PROVE  IInv'
  BY <1>2, SearchStep DEF ExitUnknown
<1>3. ASSUME UNCHANGED vars PROVE IInv'
  <2> USE <1>3 DEF vars, blocks, mutexes
  <2>1. TypeOK' /\ UsersAreCounted' /\ OneBlockPerObject'
    BY DEF IInv, TypeOK, UsersAreCounted, OneBlockPerObject
  <2>2. WalkInv' /\ CacheInv' /\ MutexInv' /\ HeldInv'
    BY DEF IInv, WalkInv, CacheInv, MutexInv, HeldInv
  <2> QED BY <2>1, <2>2 DEF IInv
<1> QED BY <1>1, <1>2, <1>3, EnterStep, ExitStep DEF Next

\* Whatever the number of threads and objects, and in whatever way blocks are
\* taken, left without the list's lock and recycled: a block is used by no
\* more threads than it counts, an object has one block, the caches and the
\* mutexes count the enters of the block's object, and an exit that balances
\* an enter finds the block and its mutex.
THEOREM BlocksAreSound == Spec => []BlockInv
<1>1. Init => IInv
  BY InitIInv
<1>2. IInv /\ [Next]_vars => IInv'
  BY NextIInv
<1>3. IInv => BlockInv
  BY Balanced DEF IInv, BlockInv
<1> QED BY <1>1, <1>2, <1>3, PTL DEF Spec

\* No two threads are ever inside @synchronized on the same object.
THEOREM SynchronizedExcludes == Spec => []MutualExclusion
<1>1. Init => IInv
  BY InitIInv
<1>2. IInv /\ [Next]_vars => IInv'
  BY NextIInv
<1>3. IInv => MutualExclusion
  BY Excludes
<1> QED BY <1>1, <1>2, <1>3, PTL DEF Spec

=============================================================================
