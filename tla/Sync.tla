-------------------------------- MODULE Sync --------------------------------
(***************************************************************************)
(* @synchronized (objc-sync.mm): objc_sync_enter and objc_sync_exit find   *)
(* the SyncData of an object, and lock or unlock its recursive mutex.      *)
(*                                                                         *)
(* A SyncData is never freed, only recycled for another object once its    *)
(* threadCount is zero.  Each thread remembers the SyncData it uses and    *)
(* how often it has locked them; the count of threads is decremented       *)
(* without the list's lock, before the mutex is released.                  *)
(*                                                                         *)
(* One list of sDataLists is modelled: lists share nothing.  New blocks go *)
(* to the head and none is removed, so the blocks are numbered in the      *)
(* order of allocation and the one after d in the list is d - 1.           *)
(***************************************************************************)
EXTENDS Integers, FiniteSets

CONSTANTS
  Threads,
  Objects,      \* addresses; nil is 0
  MaxData,      \* bounds the blocks that are ever allocated
  MaxDepth,     \* bounds how often one thread enters one object
  Ordered,      \* TRUE: clients nest only in the order of the addresses
  MaxCount,     \* bounds threadCount where threads exit what they have not
                \* entered; 0: they do not
  NoThread

ASSUME ThreadsAssumption == IsFiniteSet(Threads) /\ NoThread \notin Threads
ASSUME ObjectsAssumption == Objects \subseteq Nat \ {0}
ASSUME BoundsAssumption == {MaxData, MaxDepth, MaxCount} \subseteq Nat
ASSUME ClientAssumption == Ordered \in BOOLEAN

VARIABLES
  allocated,    \* how many SyncData there are
  object,       \* SyncData.object
  threadCount,  \* SyncData.threadCount
  owner,        \* SyncData.mutex: the thread that has it ...
  depth,        \* ... and how often it has locked it
  listLock,     \* SyncList.lock
  lockCount,    \* SyncCacheItem.lockCount, zero when there is no item
  pc,
  call,         \* the arguments of id2data: object and why
  at,           \* p while walking the list, then the result
  unused,       \* firstUnused, or 0
  held          \* ghost: the enters that returned and were not yet exited

blocks == <<allocated, object, threadCount>>
mutexes == <<owner, depth>>
vars == <<allocated, object, threadCount, owner, depth, listLock, lockCount,
          pc, call, at, unused, held>>

SyncData == 1..MaxData

NoCall == [object |-> 0, why |-> "ACQUIRE"]

Init ==
  /\ allocated = 0
  /\ object = [d \in SyncData |-> 0]
  /\ threadCount = [d \in SyncData |-> 0]
  /\ owner = [d \in SyncData |-> NoThread]
  /\ depth = [d \in SyncData |-> 0]
  /\ listLock = NoThread
  /\ lockCount = [t \in Threads |-> [d \in SyncData |-> 0]]
  /\ pc = [t \in Threads |-> "idle"]
  /\ call = [t \in Threads |-> NoCall]
  /\ at = [t \in Threads |-> 0]
  /\ unused = [t \in Threads |-> 0]
  /\ held = [t \in Threads |-> [o \in Objects |-> 0]]

-----------------------------------------------------------------------------
(* The parts of id2data *)

\* The block of an object in the caches of a thread: the single item under
\* SYNC_DATA_DIRECT_KEY and the list behind it are searched as one.
Cached(t, o) == {d \in SyncData : lockCount[t][d] > 0 /\ object[d] = o}

\* Back in the client.
Return(t) ==
  /\ pc' = [pc EXCEPT ![t] = "idle"]
  /\ call' = [call EXCEPT ![t] = NoCall]
  /\ at' = [at EXCEPT ![t] = 0]
  /\ unused' = [unused EXCEPT ![t] = 0]

\* id2data has found the block d; the mutex is next.
Found(t, d, label) ==
  /\ pc' = [pc EXCEPT ![t] = label]
  /\ call' = [call EXCEPT ![t] = NoCall]
  /\ at' = [at EXCEPT ![t] = d]
  /\ unused' = [unused EXCEPT ![t] = 0]

\* Nothing in the caches: the list has to be searched.
Search(t, o, why) ==
  /\ pc' = [pc EXCEPT ![t] = "search"]
  /\ call' = [call EXCEPT ![t] = [object |-> o, why |-> why]]
  /\ UNCHANGED <<at, unused>>

\* "Save in thread cache".
Save(t, d) == lockCount' = [lockCount EXCEPT ![t][d] = 1]

\* lockp->lock(), and p = *listp.
LockList(t) ==
  /\ pc[t] = "search"
  /\ listLock = NoThread
  /\ listLock' = t
  /\ pc' = [pc EXCEPT ![t] = "walk"]
  /\ at' = [at EXCEPT ![t] = allocated]
  /\ UNCHANGED <<blocks, mutexes, lockCount, call, unused, held>>

\* Mutant: the walk begins again after a block that nobody uses.
SkipBack(t) ==
  LET p == at[t] IN
  /\ pc[t] = "walk"
  /\ p # 0
  /\ object[p] # call[t].object
  /\ unused' = [unused EXCEPT ![t] = IF @ = 0 /\ threadCount[p] = 0 THEN p
                                     ELSE @]
  /\ at' = [at EXCEPT ![t] = IF threadCount[p] = 0 THEN allocated ELSE p - 1]
  /\ UNCHANGED <<blocks, mutexes, listLock, lockCount, pc, call, held>>

\* One block of the list that is not the object's.
Skip(t) ==
  LET p == at[t] IN
  /\ pc[t] = "walk"
  /\ p # 0
  /\ object[p] # call[t].object
  /\ unused' = [unused EXCEPT ![t] = IF @ = 0 /\ threadCount[p] = 0 THEN p
                                     ELSE @]
  /\ at' = [at EXCEPT ![t] = p - 1]
  /\ UNCHANGED <<blocks, mutexes, listLock, lockCount, pc, call, held>>

\* Mutant: a thread that joins is not counted.
MatchNoCount(t) ==
  LET p == at[t] IN
  /\ pc[t] = "walk"
  /\ p # 0
  /\ object[p] = call[t].object
  /\ listLock' = NoThread
  /\ IF call[t].why = "ACQUIRE" THEN Save(t, p) /\ Found(t, p, "lock")
     ELSE UNCHANGED lockCount /\ Return(t)
  /\ UNCHANGED <<blocks, mutexes, held>>

\* A block in use for the object, or last used for it.  An exit that gets
\* here is not an owner's, and id2data returns nil.
Match(t) ==
  LET p == at[t] IN
  /\ pc[t] = "walk"
  /\ p # 0
  /\ object[p] = call[t].object
  /\ threadCount' = [threadCount EXCEPT ![p] = @ + 1]
  /\ listLock' = NoThread
  /\ IF call[t].why = "ACQUIRE" THEN Save(t, p) /\ Found(t, p, "lock")
     ELSE UNCHANGED lockCount /\ Return(t)
  /\ UNCHANGED <<allocated, object, mutexes, held>>

\* No block for an exit: OBJC_SYNC_NOT_OWNING_THREAD_ERROR.
NoMatch(t) ==
  /\ pc[t] = "walk"
  /\ at[t] = 0
  /\ call[t].why = "RELEASE"
  /\ listLock' = NoThread
  /\ Return(t)
  /\ UNCHANGED <<blocks, mutexes, lockCount, held>>

\* Mutant: the walk ends at the first block nobody uses.
RecycleEarly(t) ==
  LET d == unused[t] IN
  /\ pc[t] = "walk"
  /\ call[t].why = "ACQUIRE"
  /\ d # 0
  /\ object' = [object EXCEPT ![d] = call[t].object]
  /\ threadCount' = [threadCount EXCEPT ![d] = 1]
  /\ listLock' = NoThread
  /\ Save(t, d)
  /\ Found(t, d, "lock")
  /\ UNCHANGED <<allocated, mutexes, held>>

\* "an unused one was found, use it"
Recycle(t) ==
  LET d == unused[t] IN
  /\ pc[t] = "walk"
  /\ at[t] = 0
  /\ call[t].why = "ACQUIRE"
  /\ d # 0
  /\ object' = [object EXCEPT ![d] = call[t].object]
  /\ threadCount' = [threadCount EXCEPT ![d] = 1]
  /\ listLock' = NoThread
  /\ Save(t, d)
  /\ Found(t, d, "lock")
  /\ UNCHANGED <<allocated, mutexes, held>>

\* "Allocate a new SyncData and add to list."
Allocate(t) ==
  LET d == allocated + 1 IN
  /\ pc[t] = "walk"
  /\ at[t] = 0
  /\ call[t].why = "ACQUIRE"
  /\ unused[t] = 0
  /\ allocated < MaxData
  /\ allocated' = d
  /\ object' = [object EXCEPT ![d] = call[t].object]
  /\ threadCount' = [threadCount EXCEPT ![d] = 1]
  /\ listLock' = NoThread
  /\ Save(t, d)
  /\ Found(t, d, "lock")
  /\ UNCHANGED <<mutexes, held>>

-----------------------------------------------------------------------------
(* objc_sync_enter *)

\* What a client may enter: deeper into what it has, or something new.
MayEnter(t, o) ==
  /\ pc[t] = "idle"
  /\ held[t][o] < MaxDepth
  /\ Ordered => \A p \in Objects : held[t][p] > 0 => p <= o

Enter(t, o) ==
  /\ MayEnter(t, o)
  /\ \/ \E d \in Cached(t, o) :
          /\ lockCount' = [lockCount EXCEPT ![t][d] = @ + 1]
          /\ Found(t, d, "lock")
     \/ Cached(t, o) = {} /\ Search(t, o, "ACQUIRE") /\ UNCHANGED lockCount
  /\ UNCHANGED <<blocks, mutexes, listLock, held>>

\* data->mutex.lock()
LockMutex(t) ==
  LET d == at[t] IN
  /\ pc[t] = "lock"
  /\ owner[d] \in {t, NoThread}
  /\ owner' = [owner EXCEPT ![d] = t]
  /\ depth' = [depth EXCEPT ![d] = @ + 1]
  /\ held' = [held EXCEPT ![t][object[d]] = @ + 1]
  /\ Return(t)
  /\ UNCHANGED <<blocks, listLock, lockCount>>

-----------------------------------------------------------------------------
(* objc_sync_exit *)

\* lockCount--, and at zero OSAtomicDecrement32Barrier(&threadCount).
Forget(t, d) ==
  /\ lockCount' = [lockCount EXCEPT ![t][d] = @ - 1]
  /\ threadCount' = [threadCount EXCEPT
                       ![d] = IF lockCount[t][d] = 1 THEN @ - 1 ELSE @]

Exit(t, o) ==
  /\ pc[t] = "idle"
  /\ held[t][o] > 0
  /\ \E d \in Cached(t, o) : Forget(t, d) /\ Found(t, d, "unlock")
  /\ held' = [held EXCEPT ![t][o] = @ - 1]
  /\ UNCHANGED <<allocated, object, mutexes, listLock>>

\* The thread has not entered the object, as far as its caches know.
ExitUnknown(t, o) ==
  /\ pc[t] = "idle"
  /\ held[t][o] > 0 \/ \A d \in SyncData : threadCount[d] < MaxCount
  /\ Cached(t, o) = {}
  /\ Search(t, o, "RELEASE")
  /\ UNCHANGED <<blocks, mutexes, listLock, lockCount, held>>

\* data->mutex.tryUnlock(); it fails for a thread that is not the owner.
UnlockMutex(t) ==
  LET d == at[t] IN
  /\ pc[t] = "unlock"
  /\ IF owner[d] = t
     THEN /\ depth' = [depth EXCEPT ![d] = @ - 1]
          /\ owner' = [owner EXCEPT ![d] = IF depth[d] = 1 THEN NoThread
                                           ELSE t]
     ELSE UNCHANGED mutexes
  /\ Return(t)
  /\ UNCHANGED <<blocks, listLock, lockCount, held>>

-----------------------------------------------------------------------------
Step(t) ==
  \/ LockList(t) \/ Skip(t) \/ Match(t) \/ NoMatch(t) \/ Recycle(t)
  \/ Allocate(t) \/ LockMutex(t) \/ UnlockMutex(t)

Next ==
  \E t \in Threads :
    \/ Step(t)
    \/ \E o \in Objects : Enter(t, o) \/ Exit(t, o) \/ ExitUnknown(t, o)

Spec == Init /\ [][Next]_vars

\* A thread inside the runtime is scheduled again, and one that is inside
\* @synchronized leaves it in the end.  No lock is fair.
Fairness ==
  \A t \in Threads : WF_vars(Step(t)) /\ WF_vars(\E o \in Objects : Exit(t, o))

FairSpec == Spec /\ Fairness

-----------------------------------------------------------------------------
(* Properties *)

TypeOK ==
  /\ allocated \in 0..MaxData
  /\ object \in [SyncData -> Objects \cup {0}]
  /\ threadCount \in [SyncData -> Nat]
  /\ owner \in [SyncData -> Threads \cup {NoThread}]
  /\ depth \in [SyncData -> Nat]
  /\ listLock \in Threads \cup {NoThread}
  /\ lockCount \in [Threads -> [SyncData -> Nat]]
  /\ pc \in [Threads -> {"idle", "search", "walk", "lock", "unlock"}]
  /\ call \in [Threads -> [object : Objects \cup {0},
                           why : {"ACQUIRE", "RELEASE"}]]
  /\ at \in [Threads -> 0..MaxData]
  /\ unused \in [Threads -> 0..MaxData]
  /\ held \in [Threads -> [Objects -> Nat]]

\* Two threads are never inside @synchronized on the same object, however
\* its block has been recycled in between.
MutualExclusion ==
  \A t, u \in Threads, o \in Objects :
    held[t][o] > 0 /\ held[u][o] > 0 => t = u

\* A block whose count is zero, which may be recycled, is used by nobody: a
\* thread is counted from before it waits for the mutex until after it has
\* decided to unlock it for the last time.
UsersAreCounted ==
  \A d \in SyncData :
    threadCount[d] >= Cardinality({t \in Threads : lockCount[t][d] > 0})

\* "number of THREADS using this block" (objc-sync.mm:36), exactly.
CountsThreads ==
  \A d \in SyncData :
    threadCount[d] = Cardinality({t \in Threads : lockCount[t][d] > 0})

\* "Spinlock prevents multiple threads from creating multiple locks for the
\* same new object."
OneBlockPerObject ==
  \A d, e \in 1..allocated : object[d] = object[e] => d = e

\* An exit that balances an enter succeeds: the block is in the thread's
\* cache and its mutex is the thread's.
BalancedExitSucceeds ==
  \A t \in Threads :
    /\ pc[t] = "unlock" => owner[at[t]] = t
    /\ \A o \in Objects : pc[t] = "idle" /\ held[t][o] > 0 => Cached(t, o) # {}

\* Who walks the list has its lock and has not entered the object; no block
\* it has passed is the object's, and the one it found unused still is.
WalkInv ==
  \A t \in Threads :
    /\ pc[t] \in {"search", "walk"} =>
         call[t].object \in Objects /\ held[t][call[t].object] = 0
    /\ pc[t] # "walk" => unused[t] = 0
    /\ pc[t] = "walk" =>
         /\ listLock = t
         /\ at[t] <= allocated
         /\ \A d \in (at[t] + 1)..allocated : object[d] # call[t].object
         /\ unused[t] # 0 =>
              unused[t] <= allocated /\ threadCount[unused[t]] = 0

\* What a thread's caches count: the enters of the block's object, and the
\* one that waits for the mutex.
CacheInv ==
  /\ \A d \in 1..allocated : object[d] \in Objects
  /\ \A t \in Threads, d \in SyncData :
       lockCount[t][d] =
         (IF d <= allocated THEN held[t][object[d]] ELSE 0)
         + (IF pc[t] = "lock" /\ at[t] = d THEN 1 ELSE 0)

\* What a mutex counts: the enters of the object its block has now, and the
\* one that is about to be undone, perhaps of the object it had before.
MutexInv ==
  \A d \in SyncData :
    /\ owner[d] = NoThread => depth[d] = 0
    /\ \A t \in Threads : owner[d] = t =>
         /\ d <= allocated
         /\ depth[d] > 0
         /\ depth[d] = held[t][object[d]]
                       + (IF pc[t] = "unlock" /\ at[t] = d THEN 1 ELSE 0)

\* Who has entered an object has the mutex of its block.
HeldInv ==
  \A t \in Threads :
    /\ pc[t] \in {"lock", "unlock"} => at[t] \in 1..allocated
    /\ pc[t] = "unlock" => owner[at[t]] = t
    /\ \A o \in Objects : held[t][o] > 0 =>
         \E d \in 1..allocated : object[d] = o /\ owner[d] = t

\* The blocks that threads share, count down without the list's lock and
\* recycle stay what their users take them for.  (Inductive: SyncProofs.)
BlockInv ==
  /\ TypeOK /\ UsersAreCounted /\ OneBlockPerObject /\ BalancedExitSucceeds
  /\ WalkInv /\ CacheInv /\ MutexInv /\ HeldInv

Calling(t) == \E o \in Objects : Enter(t, o) \/ ExitUnknown(t, o)

\* Clients that nest in one order never block each other for good, although
\* the object of a recycled block may change between two of their locks.
EveryoneLeaves ==
  <>[][~\E t \in Threads : Calling(t)]_vars =>
    <>[](\A t \in Threads : pc[t] = "idle" /\ \A o \in Objects : held[t][o] = 0)
=============================================================================
