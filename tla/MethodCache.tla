----------------------------- MODULE MethodCache -----------------------------
(***************************************************************************)
(* Method lookup and the method caches of classes (objc-cache.mm, the      *)
(* lookup in objc-runtime-new.mm, CacheLookup in objc-msg-x86_64.s).       *)
(*                                                                         *)
(* objc_msgSend reads a class's cache without a lock: the mask, then the   *)
(* buckets, then one key after the other, then the imp.  Under locks other *)
(* threads fill the same buckets, replace them by larger ones, erase them  *)
(* when a method changes, and free replaced buckets when no thread's       *)
(* program counter is inside a cache reader.                               *)
(*                                                                         *)
(* An implementation is a number: every new one is larger than those       *)
(* before.  Selectors are numbers too, their addresses divided by the      *)
(* alignment; 0 and 1 are the keys of an unused bucket and the end marker. *)
(***************************************************************************)
EXTENDS Integers, FiniteSets, FiniteSetsExt, Sequences

CONSTANTS
  Threads, NoThread,
  Classes, NoClass,
  Super,            \* cls->superclass, NoClass for a root class
  Sels,
  Messages,         \* the messages that are sent: class and selector
  Changed,          \* the selectors whose methods clients change
  FirstMethods,     \* the method lists that there may be in the beginning
  InitCacheSize,    \* INIT_CACHE_SIZE
  LoadNum, LoadDen, \* a cache is full beyond capacity / LoadDen * LoadNum
  MaxCapacity,      \* the largest capacity whose mask fits mask_t
  GarbageThreshold, \* garbage_threshold, in buckets
  MaxBlocks,        \* bounds the blocks of the heap
  MaxChanges        \* bounds the changes and flushes

Nil == 0
Forward == 1        \* _objc_msgForward_impcache
Empty == 0          \* _objc_empty_cache and the other shared empty buckets
Blocks == 1..MaxBlocks
EndMarker == 1

ASSUME ThreadsAssumption == IsFiniteSet(Threads) /\ NoThread \notin Threads
ASSUME ClassesAssumption ==
  /\ IsFiniteSet(Classes) /\ NoClass \notin Classes
  /\ Super \in [Classes -> Classes \cup {NoClass}]
  \* No class is above itself.
  /\ \A S \in SUBSET Classes : S # {} => \E c \in S : Super[c] \notin S
ASSUME SelsAssumption ==
  /\ Sels \subseteq Nat \ {Nil, EndMarker}
  /\ Changed \subseteq Sels /\ Messages \subseteq Classes \X Sels
  /\ FirstMethods \subseteq [Classes -> [Sels -> Nat \ {Forward}]]
ASSUME SizesAssumption ==
  /\ {InitCacheSize, LoadNum, LoadDen, MaxCapacity} \subseteq Nat \ {0}
  /\ InitCacheSize <= MaxCapacity
  /\ LoadNum < LoadDen /\ LoadDen <= InitCacheSize
ASSUME BoundsAssumption ==
  {GarbageThreshold, MaxBlocks, MaxChanges} \subseteq Nat

VARIABLES
  methods,          \* the method lists: an imp, or Nil, of a class and selector
  cache,            \* cache_t: _mask, _buckets, _occupied
  heap,             \* the buckets of a block; no bucket where it is free
  garbage,          \* garbage_refs
  garbageSize,      \* garbage_byte_size, in buckets
  runtimeLock,
  cacheUpdateLock,
  pc,
  msg,              \* the message being sent: class, selector, imp, tried
  read,             \* the cache reader's registers
  upd,              \* the update of a cache: class, buckets, what is left
  nextImp,          \* the imp the next change installs
  changes,          \* how many changes were begun
  before,           \* ghost: the methods before the change that is in progress
  window            \* ghost: imps in effect at some time during the message

locks == <<runtimeLock, cacheUpdateLock>>
trash == <<garbage, garbageSize>>
ghosts == <<nextImp, changes, before, window>>
vars == <<methods, cache, heap, trash, locks, pc, msg, read, upd, ghosts>>

NoMsg == [cls |-> NoClass, sel |-> Nil, imp |-> Nil, tried |-> FALSE]
NoRead == [mask |-> 0, block |-> Empty, idx |-> 0, wrapped |-> FALSE]
NoUpd == [cls |-> NoClass, sel |-> Nil, buckets |-> Empty, mask |-> 0,
          kind |-> "fill", left |-> {}, scan |-> {}, lot |-> FALSE]
Unused == [key |-> Nil, imp |-> Nil]

Init ==
  /\ methods \in FirstMethods
  /\ cache = [c \in Classes |-> [mask |-> 0, buckets |-> Empty, occupied |-> 0]]
  /\ heap = [b \in Blocks |-> << >>]
  /\ garbage = {} /\ garbageSize = 0
  /\ runtimeLock = NoThread /\ cacheUpdateLock = NoThread
  /\ pc = [t \in Threads |-> "idle"]
  /\ msg = [t \in Threads |-> NoMsg]
  /\ read = [t \in Threads |-> NoRead]
  /\ upd = [t \in Threads |-> NoUpd]
  /\ nextImp = 1 + Max({Forward} \cup
                       {methods[c][s] : c \in Classes, s \in Sels})
  /\ changes = 0
  /\ before = methods
  /\ window = [t \in Threads |-> {}]

-----------------------------------------------------------------------------
(* What the caches hold *)

\* A class and its superclasses, the class first.
Lineage[c \in Classes] ==
  IF Super[c] = NoClass THEN <<c>> ELSE <<c>> \o Lineage[Super[c]]

Subtree(c) == {d \in Classes : \E i \in DOMAIN Lineage[d] : Lineage[d][i] = c}

\* The implementation that the method lists m give a selector.
Effective(m, c, s) ==
  LET has == {i \in DOMAIN Lineage[c] : m[Lineage[c][i]][s] # Nil}
  IN IF has = {} THEN Forward ELSE m[Lineage[c][Min(has)]][s]

capacity(c) == IF cache[c].mask = 0 THEN 0 ELSE cache[c].mask + 1

\* cache_t::find: the probes from the key's hash that see another key are
\* passed; Cardinality = capacity is bad_cache.
Passed(b, s) ==
  LET n == Cardinality(DOMAIN heap[b])
      at(k) == heap[b][(s + k) % n].key
  IN {k \in 0..(n - 1) : \A j \in 0..k : at(j) \notin {Nil, s}}

find(b, s) ==
  (s + Cardinality(Passed(b, s))) % Cardinality(DOMAIN heap[b])

\* cache_getImp under runtimeLock: nobody changes the cache meanwhile.
cache_getImp(c, s) ==
  LET b == cache[c].buckets
  IN IF b # Empty /\ heap[b][find(b, s)].key = s THEN heap[b][find(b, s)].imp
     ELSE Nil

isConstantEmptyCache(c) == cache[c].occupied = 0 /\ cache[c].buckets = Empty

Goto(t, label) == pc' = [pc EXCEPT ![t] = label]

-----------------------------------------------------------------------------
(* objc_msgSend: the lock-free readers.  The program counter is inside     *)
(* objc_entryPoints .. objc_exitPoints until the imp is called.            *)

\* Mutant: the exit points lie before the jump through the bucket.
ExitsTooEarly(t) == pc[t] \in {"buckets", "probe"}

InCritical(t) == pc[t] \in {"buckets", "probe", "hit"}

\* "objc_msgSend reads mask first, then buckets."  Entering it disturbs nobody,
\* so that is one step with the reading of the mask.
objc_msgSend(t, c, s) ==
  /\ pc[t] = "idle" /\ <<c, s>> \in Messages
  /\ Goto(t, "buckets")
  /\ msg' = [msg EXCEPT ![t] = [NoMsg EXCEPT !.cls = c, !.sel = s]]
  /\ read' = [read EXCEPT ![t].mask = cache[c].mask]
  /\ window' = [window EXCEPT ![t] = {Effective(before, c, s),
                                      Effective(methods, c, s)}]
  /\ UNCHANGED <<methods, cache, heap, trash, locks, upd, nextImp, changes,
                 before>>

ReadBuckets(t) ==
  /\ pc[t] = "buckets"
  /\ Goto(t, "probe")
  /\ read' = [read EXCEPT ![t].block = cache[msg[t].cls].buckets,
                          ![t].idx = msg[t].sel % (read[t].mask + 1)]
  /\ UNCHANGED <<methods, cache, heap, trash, locks, msg, upd, ghosts>>

\* The key in the bucket a reader looks at; the bucket behind the last one
\* is the end marker.
KeyAt(r) ==
  IF r.block = Empty THEN Nil
  ELSE IF r.idx \in DOMAIN heap[r.block] THEN heap[r.block][r.idx].key
  ELSE EndMarker

Hit(t) ==
  /\ pc[t] = "probe" /\ KeyAt(read[t]) = msg[t].sel
  /\ Goto(t, "hit")
  /\ UNCHANGED <<methods, cache, heap, trash, locks, msg, read, upd, ghosts>>

\* "if (bucket->sel <= 1) wrap or miss": the end marker leads back to the
\* first bucket, once.
Probe(t) ==
  LET r == read[t] IN
  /\ pc[t] = "probe" /\ KeyAt(r) \notin {Nil, msg[t].sel}
  /\ ~ (KeyAt(r) = EndMarker /\ r.wrapped)
  /\ read' = [read EXCEPT ![t] =
       IF KeyAt(r) = EndMarker THEN [@ EXCEPT !.idx = 0, !.wrapped = TRUE]
       ELSE [@ EXCEPT !.idx = r.idx + 1]]
  /\ UNCHANGED <<methods, cache, heap, trash, locks, pc, msg, upd, ghosts>>

Miss(t) ==
  LET r == read[t] IN
  /\ pc[t] = "probe"
  /\ KeyAt(r) = Nil \/ (KeyAt(r) = EndMarker /\ r.wrapped)
  /\ Goto(t, "lookup")
  /\ read' = [read EXCEPT ![t] = NoRead]
  /\ UNCHANGED <<methods, cache, heap, trash, locks, msg, upd, ghosts>>

\* The message is over: the implementation runs.
End(t) ==
  /\ Goto(t, "idle")
  /\ msg' = [msg EXCEPT ![t] = NoMsg]
  /\ window' = [window EXCEPT ![t] = {}]
  /\ UNCHANGED <<nextImp, changes, before>>

\* jmp *cached_imp(%r11)
CacheHit(t) ==
  /\ pc[t] = "hit"
  /\ End(t)
  /\ read' = [read EXCEPT ![t] = NoRead]
  /\ UNCHANGED <<methods, cache, heap, trash, locks, upd>>

-----------------------------------------------------------------------------
(* lookUpImpOrForward *)

\* The search of the caches and method lists up the superclasses.  A forward
\* entry in a superclass's cache ends it without a result.
Found(c, s) ==
  LET at(i) == Lineage[c][i]
      hits == {i \in DOMAIN Lineage[c] :
                 cache_getImp(at(i), s) # Nil \/ methods[at(i)][s] # Nil}
      i == Min(hits)
      cached == cache_getImp(at(i), s)
  IN IF hits = {} THEN Nil
     ELSE IF cached = Nil THEN methods[at(i)][s]
     ELSE IF cached = Forward /\ i > 1 THEN Nil
     ELSE cached

\* Mutant: the lock is not held until the result is cached.
LookUpUnlocked(t) ==
  LET imp == Found(msg[t].cls, msg[t].sel)
  IN /\ pc[t] = "lookup"
     /\ runtimeLock = NoThread
     /\ IF imp = Nil /\ ~ msg[t].tried
        THEN Goto(t, "resolve") /\ UNCHANGED msg
        ELSE /\ Goto(t, "fill")
             /\ msg' = [msg EXCEPT ![t].imp = IF imp = Nil THEN Forward
                                              ELSE imp]
     /\ UNCHANGED <<methods, cache, heap, trash, locks, read, upd, ghosts>>

\* Nothing is read after the lock is taken that another thread could change,
\* so taking it and searching is one step.  A result is cached with the lock
\* held; without one the resolver is called without the lock, once.
LookUp(t) ==
  LET imp == Found(msg[t].cls, msg[t].sel)
  IN /\ pc[t] = "lookup"
     /\ runtimeLock = NoThread
     /\ IF imp = Nil /\ ~ msg[t].tried
        THEN Goto(t, "resolve") /\ UNCHANGED <<runtimeLock, msg>>
        ELSE /\ Goto(t, "fill")
             /\ runtimeLock' = t
             /\ msg' = [msg EXCEPT ![t].imp = IF imp = Nil THEN Forward
                                              ELSE imp]
     /\ UNCHANGED <<methods, cache, heap, trash, cacheUpdateLock, read, upd,
                    ghosts>>

\* _class_resolveMethod: +resolveInstanceMethod: does nothing ...
Unresolved(t) ==
  /\ pc[t] = "resolve"
  /\ Goto(t, "lookup")
  /\ msg' = [msg EXCEPT ![t].tried = TRUE]
  /\ UNCHANGED <<methods, cache, heap, trash, locks, read, upd, ghosts>>

\* ... or it adds the method.
Resolved(t) ==
  /\ pc[t] = "resolve"
  /\ changes < MaxChanges /\ msg[t].sel \in Changed
  /\ Goto(t, "change")
  /\ msg' = [msg EXCEPT ![t].tried = TRUE]
  /\ upd' = [upd EXCEPT ![t] = [NoUpd EXCEPT !.kind = "add",
                                  !.cls = msg[t].cls, !.sel = msg[t].sel]]
  /\ changes' = changes + 1
  /\ UNCHANGED <<methods, cache, heap, trash, locks, read, nextImp, before,
                 window>>

-----------------------------------------------------------------------------
(* cache_fill: runtimeLock is held, cacheUpdateLock is taken.              *)

\* The lowest free block stands for any: nothing depends on their order.
Free == {b \in Blocks : heap[b] = << >>}

allocateBuckets(n) ==
  heap' = [heap EXCEPT ![Min(Free)] = [i \in 0..(n - 1) |-> Unused]]

\* reallocate up to setBucketsAndMask, which follows: the contents of the old
\* buckets are not propagated.
reallocate(t, n) ==
  /\ Free # {}
  /\ allocateBuckets(n)
  /\ upd' = [upd EXCEPT ![t] = [NoUpd EXCEPT !.cls = msg[t].cls,
                                  !.buckets = Min(Free), !.mask = n - 1]]
  /\ Goto(t, "setBuckets")

NextCapacity(c) ==
  IF isConstantEmptyCache(c)
  THEN IF capacity(c) = 0 THEN InitCacheSize ELSE capacity(c)
  ELSE IF capacity(c) = 0 THEN InitCacheSize
  ELSE IF capacity(c) * 2 > MaxCapacity THEN capacity(c)
  ELSE capacity(c) * 2

\* Mutant: the bucket that is about to be used is not counted.
HasRoomForOthers(c) ==
  /\ ~ isConstantEmptyCache(c)
  /\ cache[c].occupied <= (capacity(c) \div LoadDen) * LoadNum

HasRoom(c) ==
  /\ ~ isConstantEmptyCache(c)
  /\ cache[c].occupied + 1 <= (capacity(c) \div LoadDen) * LoadNum

\* What is already there is not cached again; a heap without a free block
\* caches nothing.  Classes are initialized here: see Initialize.tla.
FillNothing(t) ==
  LET c == msg[t].cls
  IN /\ pc[t] = "fill"
     /\ cacheUpdateLock = NoThread
     /\ cache_getImp(c, msg[t].sel) # Nil \/ (Free = {} /\ ~ HasRoom(c))
     /\ End(t)
     /\ runtimeLock' = NoThread
     /\ UNCHANGED <<methods, cache, heap, trash, cacheUpdateLock, read, upd>>

Fill(t) ==
  LET c == msg[t].cls
  IN /\ pc[t] = "fill"
     /\ cacheUpdateLock = NoThread
     /\ cache_getImp(c, msg[t].sel) = Nil
     /\ cacheUpdateLock' = t
     /\ IF HasRoom(c) THEN Goto(t, "imp") /\ UNCHANGED <<heap, upd>>
        ELSE reallocate(t, NextCapacity(c))
     /\ UNCHANGED <<methods, cache, trash, runtimeLock, msg, read, ghosts>>

\* bucket_t::set: the imp ...
SetImp(t) ==
  LET c == msg[t].cls
      b == cache[c].buckets
      i == find(b, msg[t].sel)
  IN /\ pc[t] = "imp"
     /\ Goto(t, "key")
     /\ cache' = [cache EXCEPT ![c].occupied =
                    IF heap[b][i].key = Nil THEN @ + 1 ELSE @]
     /\ heap' = [heap EXCEPT ![b][i].imp = msg[t].imp]
     /\ UNCHANGED <<methods, trash, locks, msg, read, upd, ghosts>>

\* ... then, "wait a lot", the key.  Both locks are released.
SetKey(t) ==
  LET b == cache[msg[t].cls].buckets
      i == find(b, msg[t].sel)
  IN /\ pc[t] = "key"
     /\ End(t)
     /\ heap' = [heap EXCEPT ![b][i].key = msg[t].sel]
     /\ upd' = [upd EXCEPT ![t] = NoUpd]
     /\ runtimeLock' = NoThread /\ cacheUpdateLock' = NoThread
     /\ UNCHANGED <<methods, cache, trash, read>>

-----------------------------------------------------------------------------
(* setBucketsAndMask, and the collection that follows it *)

\* The new buckets first.  The old ones are remembered for cache_collect_free;
\* shared empty buckets are never freed.
SetBuckets(t) ==
  LET c == upd[t].cls
      old == cache[c].buckets
  IN /\ pc[t] = "setBuckets"
     /\ Goto(t, "setMask")
     /\ cache' = [cache EXCEPT ![c].buckets = upd[t].buckets]
     /\ upd' = [upd EXCEPT ![t].buckets =
                  IF isConstantEmptyCache(c) THEN Empty ELSE old]
     /\ UNCHANGED <<methods, heap, trash, locks, msg, read, ghosts>>

Continue(t) == IF upd[t].kind = "fill" THEN "imp"
               ELSE IF upd[t].lot THEN "collected" ELSE "flush"

\* The new mask, cache_collect_free(old) and the first test of cache_collect.
SetMask(t) ==
  LET u == upd[t]
      size == garbageSize + Cardinality(DOMAIN heap[u.buckets]) + 1
  IN /\ pc[t] = "setMask"
     /\ cache' = [cache EXCEPT ![u.cls].mask = u.mask, ![u.cls].occupied = 0]
     /\ IF u.buckets = Empty
        THEN Goto(t, Continue(t)) /\ UNCHANGED <<trash, upd>>
        ELSE /\ garbage' = garbage \cup {u.buckets}
             /\ garbageSize' = size
             /\ IF size < GarbageThreshold
                THEN Goto(t, Continue(t)) /\ UNCHANGED upd
                ELSE /\ Goto(t, "scan")
                     /\ upd' = [upd EXCEPT ![t].scan = Threads \ {t}]
     /\ UNCHANGED <<methods, heap, locks, msg, read, ghosts>>

\* _collecting_in_critical looks at the threads one at a time, while they run.
Scan(t) ==
  /\ pc[t] = "scan"
  /\ \E u \in upd[t].scan :
       IF ~ InCritical(u)
       THEN upd' = [upd EXCEPT ![t].scan = @ \ {u}] /\ UNCHANGED pc
       ELSE IF upd[t].lot
       THEN upd' = [upd EXCEPT ![t].scan = Threads \ {t}] /\ UNCHANGED pc
       ELSE upd' = [upd EXCEPT ![t].scan = {}] /\ Goto(t, Continue(t))
  /\ UNCHANGED <<methods, cache, heap, trash, locks, msg, read, ghosts>>

\* "No cache readers in progress - garbage is now deletable"
Dispose(t) ==
  /\ pc[t] = "scan" /\ upd[t].scan = {}
  /\ heap' = [b \in Blocks |-> IF b \in garbage THEN << >> ELSE heap[b]]
  /\ garbage' = {} /\ garbageSize' = 0
  /\ Goto(t, Continue(t))
  /\ UNCHANGED <<methods, cache, locks, msg, read, upd, ghosts>>

-----------------------------------------------------------------------------
(* Changes of methods, and the flushes that follow them *)

\* A client calls class_addMethod or class_replaceMethod ("add"),
\* method_setImplementation ("set") ...
BeginChange(t, kind, c, s) ==
  /\ pc[t] = "idle"
  /\ changes < MaxChanges /\ s \in Changed
  /\ kind = "set" => methods[c][s] # Nil
  /\ Goto(t, "change")
  /\ upd' = [upd EXCEPT ![t] =
               [NoUpd EXCEPT !.kind = kind, !.cls = c, !.sel = s]]
  /\ changes' = changes + 1
  /\ UNCHANGED <<methods, cache, heap, trash, locks, msg, read, nextImp,
                 before, window>>

\* ... or _objc_flush_caches(Nil).
objc_flush_caches(t) ==
  /\ pc[t] = "idle"
  /\ changes < MaxChanges
  /\ Goto(t, "change")
  /\ upd' = [upd EXCEPT ![t].kind = "flush"]
  /\ changes' = changes + 1
  /\ UNCHANGED <<methods, cache, heap, trash, locks, msg, read, nextImp,
                 before, window>>

\* With runtimeLock the method gets its new implementation.
Change(t) ==
  LET u == upd[t]
      new == [methods EXCEPT ![u.cls][u.sel] = nextImp]
  IN /\ pc[t] = "change"
     /\ runtimeLock = NoThread
     /\ runtimeLock' = t
     /\ Goto(t, "flushCaches")
     /\ IF u.kind = "flush" THEN UNCHANGED <<methods, nextImp, window>>
        ELSE /\ methods' = new
             /\ nextImp' = nextImp + 1
             /\ window' = [w \in Threads |->
                  IF msg[w].cls = NoClass THEN window[w]
                  ELSE window[w] \cup {Effective(new, msg[w].cls, msg[w].sel)}]
     /\ UNCHANGED <<cache, heap, trash, cacheUpdateLock, msg, read, upd,
                    changes, before>>

\* Mutant: the caches of subclasses are forgotten.
FlushOne(u) == IF u.kind = "add" THEN {u.cls} ELSE Classes

\* flushCaches(cls), or flushCaches(Nil) where the class is not known.
FlushSet(u) == IF u.kind = "add" THEN Subtree(u.cls) ELSE Classes

flushCaches(t) ==
  /\ pc[t] = "flushCaches"
  /\ cacheUpdateLock = NoThread
  /\ cacheUpdateLock' = t
  /\ upd' = [upd EXCEPT ![t].left = FlushSet(upd[t])]
  /\ Goto(t, "flush")
  /\ UNCHANGED <<methods, cache, heap, trash, runtimeLock, msg, read, ghosts>>

\* cache_erase_nolock: an empty cache is left alone, another one gets shared
\* empty buckets of the same capacity.
cache_erase(t) ==
  /\ pc[t] = "flush"
  /\ \E c \in upd[t].left :
       IF capacity(c) > 0 /\ cache[c].occupied > 0
       THEN /\ upd' = [upd EXCEPT ![t].cls = c, ![t].buckets = Empty,
                         ![t].mask = cache[c].mask, ![t].left = @ \ {c}]
            /\ Goto(t, "setBuckets")
       ELSE upd' = [upd EXCEPT ![t].left = @ \ {c}] /\ UNCHANGED pc
  /\ UNCHANGED <<methods, cache, heap, trash, locks, msg, read, ghosts>>

\* Both locks are released.  The resolver returns to the lookup, a flush of
\* everything goes on to cache_collect(true).
Flushed(t) ==
  /\ pc[t] = "flush" /\ upd[t].left = {}
  /\ runtimeLock' = NoThread /\ cacheUpdateLock' = NoThread
  /\ before' = methods
  /\ IF upd[t].kind = "flush"
     THEN Goto(t, "collectALot") /\ UNCHANGED upd
     ELSE /\ Goto(t, IF msg[t].cls = NoClass THEN "idle" ELSE "lookup")
          /\ upd' = [upd EXCEPT ![t] = NoUpd]
  /\ UNCHANGED <<methods, cache, heap, trash, msg, read, nextImp, changes,
                 window>>

collectALot(t) ==
  /\ pc[t] = "collectALot"
  /\ cacheUpdateLock = NoThread
  /\ cacheUpdateLock' = t
  /\ Goto(t, "scan")
  /\ upd' = [upd EXCEPT ![t].lot = TRUE, ![t].scan = Threads \ {t}]
  /\ UNCHANGED <<methods, cache, heap, trash, runtimeLock, msg, read, ghosts>>

Collected(t) ==
  /\ pc[t] = "collected"
  /\ cacheUpdateLock' = NoThread
  /\ Goto(t, "idle")
  /\ upd' = [upd EXCEPT ![t] = NoUpd]
  /\ UNCHANGED <<methods, cache, heap, trash, runtimeLock, msg, read, ghosts>>

-----------------------------------------------------------------------------
Step(t) ==
  \/ ReadBuckets(t) \/ Hit(t) \/ Probe(t) \/ Miss(t)
  \/ CacheHit(t)
  \/ LookUp(t) \/ Unresolved(t) \/ Resolved(t)
  \/ FillNothing(t) \/ Fill(t) \/ SetImp(t) \/ SetKey(t)
  \/ SetBuckets(t) \/ SetMask(t) \/ Scan(t) \/ Dispose(t)
  \/ Change(t) \/ flushCaches(t) \/ cache_erase(t) \/ Flushed(t)
  \/ collectALot(t) \/ Collected(t)

Next == \E t \in Threads :
  \/ \E c \in Classes, s \in Sels :
       \/ objc_msgSend(t, c, s)
       \/ \E kind \in {"add", "set"} : BeginChange(t, kind, c, s)
  \/ objc_flush_caches(t)
  \/ Step(t)

Spec == Init /\ [][Next]_vars

-----------------------------------------------------------------------------
(* A reader that holds buckets finds them allocated, and its pointer stays *)
(* between the first bucket and the end marker, whatever is reallocated,   *)
(* erased and collected meanwhile: the order of the writes in              *)
(* setBucketsAndMask and the look at the program counters.                 *)
ReadersAreSafe ==
  \A t \in Threads :
    pc[t] \in {"probe", "hit"} /\ read[t].block # Empty =>
      /\ heap[read[t].block] # << >>
      /\ read[t].idx \in 0..Cardinality(DOMAIN heap[read[t].block])

(* A message runs an implementation that was in effect at some time while  *)
(* it was sent: never one that a change which was over before had          *)
(* replaced, and never the old imp of a bucket that already has its key.   *)
DispatchIsCurrent ==
  \A t \in Threads :
    /\ pc[t] = "hit" => heap[read[t].block][read[t].idx].imp \in window[t]
    /\ msg[t].imp # Nil => msg[t].imp \in window[t]

(* While no change is being made every cached entry, also one copied from  *)
(* a superclass's cache and one that forwards, is what the method lists    *)
(* say: otherwise a category could be "ignored indefinitely because the    *)
(* cache was re-filled with the old value" (lookUpImpOrForward).           *)
CachesAreCurrent ==
  \A c \in Classes : LET b == cache[c].buckets IN
    b # Empty /\ methods = before =>
      \A i \in DOMAIN heap[b] :
        heap[b][i].key # Nil =>
          heap[b][i].imp = Effective(methods, c, heap[b][i].key)

(* Every cache whose buckets can be written has an unused one, as many     *)
(* used ones as it counts, and no key twice: cache_t::find never ends in   *)
(* bad_cache, and a capacity that can no longer grow still works.          *)
RoomInEveryCache ==
  \A c \in Classes : LET b == cache[c].buckets
                         used == {i \in DOMAIN heap[b] : heap[b][i].key # Nil}
    IN b # Empty /\ cacheUpdateLock = NoThread =>
       /\ cache[c].occupied = Cardinality(used)
       /\ cache[c].occupied < capacity(c)
       /\ DOMAIN heap[b] = 0..cache[c].mask
       /\ \A i, j \in used : heap[b][i].key = heap[b][j].key => i = j

=============================================================================
