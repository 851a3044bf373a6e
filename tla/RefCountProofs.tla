--------------------------- MODULE RefCountProofs ---------------------------
(***************************************************************************)
(* For every set of threads, every number of references and every width of *)
(* extra_rc: the invariant of RefCountInv is inductive, and the safety     *)
(* properties of RefCount follow from it; and RefCount implements          *)
(* StrongCount.                                                            *)
(***************************************************************************)
EXTENDS RefCountInv, FiniteSetTheorems, TLAPS

-----------------------------------------------------------------------------
(* The words an operation stores, field by field. *)

LEMMA RetainedWord ==
  ASSUME NEW word \in IsaBits
  PROVE  /\ Retained(word) \in IsaBits
         /\ Retained(word).nonpointer = word.nonpointer
         /\ Retained(word).extra_rc =
              IF word.extra_rc = RC_MAX THEN RC_HALF ELSE word.extra_rc + 1
         /\ Retained(word).deallocating = word.deallocating
         /\ Retained(word).has_sidetable_rc =
              (word.has_sidetable_rc \/ word.extra_rc = RC_MAX)
         /\ Retained(word).weakly_referenced = word.weakly_referenced
         /\ Retained(word).has_assoc = word.has_assoc
<1>1. CASE word.extra_rc = RC_MAX
  <2> DEFINE half == [word EXCEPT !.extra_rc = RC_HALF]
  <2>1. Retained(word) = [half EXCEPT !.has_sidetable_rc = TRUE]
    BY <1>1 DEF Retained
  <2>2. /\ half \in IsaBits
        /\ half.extra_rc = RC_HALF
        /\ half.nonpointer = word.nonpointer
    BY RCHalfAssumption DEF IsaBits, RC_MAX
  <2> QED BY <2>1, <2>2, <1>1, RCHalfAssumption DEF IsaBits, RC_MAX
<1>2. CASE word.extra_rc # RC_MAX
  BY <1>2, RCHalfAssumption DEF Retained, IsaBits, RC_MAX
<1> QED BY <1>1, <1>2

\* What the stores of rootRelease change: the count, and nothing else.
SameFlags(new, word) ==
  /\ new.nonpointer = word.nonpointer
  /\ new.deallocating = word.deallocating
  /\ new.has_sidetable_rc = word.has_sidetable_rc
  /\ new.weakly_referenced = word.weakly_referenced
  /\ new.has_assoc = word.has_assoc

LEMMA ReleasedWord ==
  ASSUME NEW word \in IsaBits, word.extra_rc > 0
  PROVE  /\ Released(word) \in IsaBits
         /\ Released(word).extra_rc = word.extra_rc - 1
         /\ SameFlags(Released(word), word)
  BY RCHalfAssumption DEF Released, IsaBits, RC_MAX, SameFlags

LEMMA BorrowedWord ==
  ASSUME NEW word \in IsaBits
  PROVE  /\ Borrowed(word) \in IsaBits
         /\ Borrowed(word).extra_rc = RC_HALF - 1
         /\ SameFlags(Borrowed(word), word)
  BY RCHalfAssumption DEF Borrowed, IsaBits, RC_MAX, SameFlags

LEMMA RestoredWord ==
  ASSUME NEW word \in IsaBits, word.extra_rc + (RC_HALF - 1) <= RC_MAX
  PROVE  /\ Restored(word) \in IsaBits
         /\ Restored(word).extra_rc = word.extra_rc + (RC_HALF - 1)
         /\ SameFlags(Restored(word), word)
  BY RCHalfAssumption DEF Restored, IsaBits, RC_MAX, SameFlags

LEMMA BeginDeallocWord ==
  ASSUME NEW word \in IsaBits
  PROVE  /\ BeginDealloc(word) \in IsaBits
         /\ BeginDealloc(word).nonpointer = word.nonpointer
         /\ BeginDealloc(word).extra_rc = word.extra_rc
         /\ BeginDealloc(word).deallocating
         /\ BeginDealloc(word).has_sidetable_rc = word.has_sidetable_rc
         /\ BeginDealloc(word).weakly_referenced = word.weakly_referenced
         /\ BeginDealloc(word).has_assoc = word.has_assoc
  BY DEF BeginDealloc, IsaBits

LEMMA SetWeakWord ==
  ASSUME NEW word \in IsaBits
  PROVE  /\ SetWeak(word) \in IsaBits
         /\ SetWeak(word).nonpointer = word.nonpointer
         /\ SetWeak(word).extra_rc = word.extra_rc
         /\ SetWeak(word).deallocating = word.deallocating
         /\ SetWeak(word).has_sidetable_rc = word.has_sidetable_rc
         /\ SetWeak(word).weakly_referenced
         /\ SetWeak(word).has_assoc = word.has_assoc
  BY DEF SetWeak, IsaBits

LEMMA SetAssocWord ==
  ASSUME NEW word \in IsaBits
  PROVE  /\ SetAssoc(word) \in IsaBits
         /\ SetAssoc(word).nonpointer = word.nonpointer
         /\ SetAssoc(word).extra_rc = word.extra_rc
         /\ SetAssoc(word).deallocating = word.deallocating
         /\ SetAssoc(word).has_sidetable_rc = word.has_sidetable_rc
         /\ SetAssoc(word).weakly_referenced = word.weakly_referenced
         /\ SetAssoc(word).has_assoc
  BY DEF SetAssoc, IsaBits

LEMMA FreshNonpointerIsa ==
  /\ NonpointerIsa \in IsaBits
  /\ NonpointerIsa.nonpointer
  /\ NonpointerIsa.extra_rc = 0
  /\ ~NonpointerIsa.deallocating
  /\ ~NonpointerIsa.has_sidetable_rc
  /\ ~NonpointerIsa.weakly_referenced
  /\ ~NonpointerIsa.has_assoc
  BY RCHalfAssumption DEF NonpointerIsa, IsaBits, RC_MAX

LEMMA FreshRawIsa ==
  /\ RawIsa \in IsaBits
  /\ ~RawIsa.nonpointer
  /\ RawIsa.extra_rc = 0
  /\ ~RawIsa.deallocating
  /\ ~RawIsa.has_sidetable_rc
  /\ ~RawIsa.weakly_referenced
  BY FreshNonpointerIsa DEF RawIsa, IsaBits

LEMMA FreshEntry ==
  /\ NoEntry \in SideEntry
  /\ ~NoEntry.present
  /\ NoEntry.rc = 0
  /\ ~NoEntry.deallocating
  /\ ~NoEntry.weakly_referenced
  BY DEF NoEntry, SideEntry

LEMMA AddRCEntry ==
  ASSUME NEW entry \in SideEntry, NEW count \in Nat
  PROVE  /\ AddRC(entry, count) \in SideEntry
         /\ AddRC(entry, count).present
         /\ AddRC(entry, count).rc = entry.rc + count
         /\ AddRC(entry, count).deallocating = entry.deallocating
         /\ AddRC(entry, count).weakly_referenced = entry.weakly_referenced
<1> DEFINE e == [entry EXCEPT !.present = TRUE]
<1>1. AddRC(entry, count) = [e EXCEPT !.rc = @ + count]
  BY DEF AddRC
<1>2. e \in SideEntry /\ e.present /\ e.rc = entry.rc
      /\ e.deallocating = entry.deallocating
      /\ e.weakly_referenced = entry.weakly_referenced
  BY DEF SideEntry
<1> HIDE DEF e
<1> QED BY <1>1, <1>2 DEF SideEntry

-----------------------------------------------------------------------------
(* Where a thread goes, for the thread itself and for the others. *)

LEMMA RestartFrame ==
  ASSUME TypeOK, NEW t \in Threads, NEW label \in Labels,
         NEW newarg \in [tryRetain : BOOLEAN, slow : BOOLEAN],
         Restart(t, label, newarg)
  PROVE  /\ pc' \in [Threads -> Labels]
         /\ old' \in [Threads -> IsaBits]
         /\ arg' \in [Threads -> [tryRetain : BOOLEAN, slow : BOOLEAN]]
         /\ pc'[t] = label
         /\ arg'[t] = newarg
         /\ \A u \in Threads \ {t} :
              pc'[u] = pc[u] /\ old'[u] = old[u] /\ arg'[u] = arg[u]
  BY FreshNonpointerIsa DEF TypeOK, Restart

LEMMA RetryFrame ==
  ASSUME TypeOK, NEW t \in Threads, NEW label \in Labels, Retry(t, label)
  PROVE  /\ pc' \in [Threads -> Labels]
         /\ old' \in [Threads -> IsaBits]
         /\ arg' = arg
         /\ pc'[t] = label
         /\ \A u \in Threads \ {t} : pc'[u] = pc[u] /\ old'[u] = old[u]
  BY FreshNonpointerIsa DEF TypeOK, Restart, Retry

LEMMA GoSlowFrame ==
  ASSUME TypeOK, NEW t \in Threads, NEW label \in Labels, GoSlow(t, label)
  PROVE  /\ pc' \in [Threads -> Labels]
         /\ old' \in [Threads -> IsaBits]
         /\ arg' \in [Threads -> [tryRetain : BOOLEAN, slow : BOOLEAN]]
         /\ pc'[t] = label
         /\ arg'[t].tryRetain = arg[t].tryRetain
         /\ \A u \in Threads \ {t} :
              pc'[u] = pc[u] /\ old'[u] = old[u] /\ arg'[u] = arg[u]
<1> DEFINE a == [arg[t] EXCEPT !.slow = TRUE]
<1>1. /\ a \in [tryRetain : BOOLEAN, slow : BOOLEAN]
      /\ a.tryRetain = arg[t].tryRetain
  BY DEF TypeOK
<1>2. Restart(t, label, a)
  BY DEF GoSlow
<1> QED BY <1>1, <1>2, RestartFrame

LEMMA GotoFrame ==
  ASSUME TypeOK, NEW t \in Threads, NEW label \in Labels, Goto(t, label)
  PROVE  /\ pc' \in [Threads -> Labels]
         /\ old' = old
         /\ arg' = arg
         /\ pc'[t] = label
         /\ \A u \in Threads \ {t} : pc'[u] = pc[u]
  BY DEF TypeOK, Goto

LEMMA LoadFrame ==
  ASSUME TypeOK, NEW t \in Threads, NEW label \in Labels,
         LoadExclusive(t, label)
  PROVE  /\ pc' \in [Threads -> Labels]
         /\ old' \in [Threads -> IsaBits]
         /\ arg' = arg
         /\ pc'[t] = label
         /\ old'[t] = isa
         /\ \A u \in Threads \ {t} : pc'[u] = pc[u] /\ old'[u] = old[u]
  BY DEF TypeOK, LoadExclusive

LEMMA ReleaseLoadFrame ==
  ASSUME TypeOK, NEW t \in Threads, ReleaseLoad(t)
  PROVE  /\ pc'[t] \in ReleaseLabels \cup {"overrelease"}
         /\ \A u \in Threads : arg'[u].tryRetain = arg[u].tryRetain
         /\ \A u \in Threads \ {t} :
              /\ pc'[u] = pc[u] /\ old'[u] = old[u] /\ arg'[u] = arg[u]
              /\ lock = u => lock' = u
<1> DEFINE L == ReleaseLabels \cup {"overrelease"}
<1>1. L \subseteq Labels /\ "releaseLoad" \in L
  BY DEF Labels, ReleaseLabels
<1>2. \A u \in Threads \ {t} : lock = u => lock' = u
  BY DEF ReleaseLoad, UnlockIfHeld
<1>3. \/ \E label \in L : Retry(t, label)
      \/ \E label \in L : LoadExclusive(t, label)
      \/ GoSlow(t, "releaseLoad")
  <2>1. \A label \in {"releaseRaw", "releaseLock", "releaseStore", "borrow",
                      "deallocStore", "overrelease"} : label \in L
    BY DEF ReleaseLabels
  <2> HIDE DEF L
  <2> QED BY <2>1 DEF ReleaseLoad
<1> HIDE DEF L
<1>4. /\ pc'[t] \in L
      /\ arg'[t].tryRetain = arg[t].tryRetain
      /\ \A u \in Threads \ {t} :
           pc'[u] = pc[u] /\ old'[u] = old[u] /\ arg'[u] = arg[u]
  <2>1. CASE \E label \in L : Retry(t, label)
    BY <1>1, <2>1, RetryFrame
  <2>2. CASE \E label \in L : LoadExclusive(t, label)
    BY <1>1, <2>2, LoadFrame
  <2>3. CASE GoSlow(t, "releaseLoad")
    BY <1>1, <2>3, GoSlowFrame
  <2> QED BY <1>3, <2>1, <2>2, <2>3
<1> QED BY <1>2, <1>4 DEF L

LEMMA ReturnFrame ==
  ASSUME TypeOK, NEW t \in Threads, Return(t)
  PROVE  /\ pc' \in [Threads -> Labels]
         /\ old' \in [Threads -> IsaBits]
         /\ arg' \in [Threads -> [tryRetain : BOOLEAN, slow : BOOLEAN]]
         /\ pc'[t] = IF deallocator = t THEN "dealloc" ELSE "idle"
         /\ ~arg'[t].tryRetain
         /\ \A u \in Threads \ {t} :
              pc'[u] = pc[u] /\ old'[u] = old[u] /\ arg'[u] = arg[u]
<1> DEFINE label == IF deallocator = t THEN "dealloc" ELSE "idle"
<1>1. label \in Labels
  BY DEF Labels, Idle
<1>2. NoArg \in [tryRetain : BOOLEAN, slow : BOOLEAN] /\ ~NoArg.tryRetain
  BY DEF NoArg
<1>3. Restart(t, label, NoArg)
  BY DEF Return
<1> HIDE DEF label
<1>4. QED BY <1>1, <1>2, <1>3, RestartFrame DEF label

-----------------------------------------------------------------------------
(* References gained and given up. *)

\* The other owners keep what they own.
LEMMA GainRefFrame ==
  ASSUME refs \subseteq Refs, NEW t \in Threads, GainRef(t)
  PROVE  /\ refs' \subseteq Refs
         /\ refs' # {}
         /\ Holds(t)'
         /\ \A u \in Threads : Holds(u) => Holds(u)'
         /\ IsFiniteSet(refs) =>
              /\ IsFiniteSet(refs')
              /\ Cardinality(refs) \in Nat
              /\ Cardinality(refs') = Cardinality(refs) + 1
<1>1. PICK n \in Slots : <<t, n>> \notin refs /\ refs' = refs \cup {<<t, n>>}
  BY DEF GainRef
<1>2. /\ refs' \subseteq Refs /\ refs' # {} /\ Holds(t)'
      /\ \A u \in Threads : Holds(u) => Holds(u)'
  BY <1>1 DEF Refs, Holds
<1> QED BY <1>1, <1>2, FS_AddElement, FS_CardinalityType

LEMMA DropRefFrame ==
  ASSUME refs \subseteq Refs, NEW t \in Threads, DropRef(t)
  PROVE  /\ refs' \subseteq refs
         /\ refs # {}
         /\ Holds(t)
         /\ \A u \in Threads \ {t} : Holds(u)' <=> Holds(u)
         /\ IsFiniteSet(refs) =>
              /\ IsFiniteSet(refs')
              /\ Cardinality(refs) \in Nat
              /\ Cardinality(refs') \in Nat
              /\ Cardinality(refs) = Cardinality(refs') + 1
              /\ Cardinality(refs) = 1 => refs' = {}
<1>1. PICK n \in Slots : <<t, n>> \in refs /\ refs' = refs \ {<<t, n>>}
  BY DEF DropRef
<1>2. /\ refs' \subseteq refs /\ refs # {} /\ Holds(t)
      /\ \A u \in Threads \ {t} : Holds(u)' <=> Holds(u)
  BY <1>1 DEF Holds
<1>3. ASSUME IsFiniteSet(refs)
      PROVE  /\ IsFiniteSet(refs')
             /\ Cardinality(refs') = Cardinality(refs) - 1
             /\ Cardinality(refs) \in Nat /\ Cardinality(refs') \in Nat
  BY <1>1, <1>3, FS_RemoveElement, FS_CardinalityType
<1>4. ASSUME IsFiniteSet(refs), Cardinality(refs) = 1
      PROVE  refs' = {}
  BY <1>3, <1>4, FS_EmptySet
<1> QED BY <1>2, <1>3, <1>4

LEMMA HeldRefs ==
  ASSUME IsFiniteSet(refs), NEW t \in Threads, Holds(t)
  PROVE  Cardinality(refs) \in Nat /\ Cardinality(refs) >= 1
<1>1. refs # {}
  BY DEF Holds
<1> QED BY <1>1, FS_EmptySet, FS_CardinalityType

-----------------------------------------------------------------------------
(* What a thread may conclude where it stands. *)

\* Nothing is in transit unless the owner of the lock is moving it.
LEMMA NoTransit ==
  ASSUME TypeOK, LockInv, NEW t \in Threads,
         lock \in {NoThread, t}, pc[t] \notin Borrowing \cup {"changeMove"}
  PROVE  InTransit = 0 /\ ~Moving
  BY NoThreadAssumption DEF InTransit, Moving

\* Without the bit there is no entry, and nobody has taken counts out of it.
LEMMA NothingBorrowed ==
  ASSUME TypeOK, SideInv, isa.nonpointer, ~isa.has_sidetable_rc
  PROVE  InTransit = 0 /\ ~Moving
  BY DEF InTransit, Moving, SideInv, Borrowing

\* An object that is named and not marked is not being deallocated.
LEMMA Live ==
  ASSUME IInv, ~Deallocating, location \/ refs # {}
  PROVE  deallocator = NoThread
  BY DEF IInv, TypeOK, LifeInv, ClientInv, DisposeLabels

\* The deallocating store gives up the last reference of a live object.
LEMMA LastRelease ==
  ASSUME IInv, NEW t \in Threads, pc[t] = "deallocStore", isa = old[t]
  PROVE  deallocator = NoThread /\ Cardinality(refs) = 1 /\ ~freed
<1>1. /\ isa.nonpointer /\ isa.extra_rc = 0 /\ ~isa.deallocating
      /\ isa.has_sidetable_rc => lock = t /\ side.rc = 0
  BY DEF IInv, OldInv
<1>2. Holds(t) /\ refs # {} /\ ~freed
  BY DEF IInv, ClientInv, ReleaseLabels, Holds, LifeInv
<1>3. deallocator = NoThread
  BY <1>1, <1>2, Live DEF Deallocating
<1>4. InTransit = 0
  <2>1. CASE isa.has_sidetable_rc
    BY <2>1, <1>1, NoTransit DEF IInv, Borrowing
  <2>2. CASE ~isa.has_sidetable_rc
    BY <2>2, <1>1, NothingBorrowed DEF IInv
  <2> QED BY <2>1, <2>2
<1>5. side.rc = 0
  BY <1>1, <1>2, FreshEntry DEF IInv, SideInv
<1> QED BY <1>1, <1>2, <1>3, <1>4, <1>5, HeldRefs DEF IInv, CountIsConserved

\* So does the release that finds an empty entry of a raw isa.
LEMMA LastRawRelease ==
  ASSUME IInv, NEW t \in Threads, pc[t] = "releaseRaw", lock = NoThread,
         side.rc = 0, ~side.deallocating
  PROVE  deallocator = NoThread /\ Cardinality(refs) = 1 /\ ~freed
<1>1. Holds(t) /\ refs # {} /\ ~freed
  BY DEF IInv, ClientInv, ReleaseLabels, Holds, LifeInv
<1>2. ~isa.nonpointer /\ isa.extra_rc = 0
  BY <1>1, FreshRawIsa DEF IInv, SideInv
<1>3. InTransit = 0 /\ ~Moving
  BY NoTransit DEF IInv, Borrowing
<1>4. deallocator = NoThread
  BY <1>1, <1>2, <1>3, Live DEF Deallocating
<1> QED BY <1>1, <1>2, <1>3, <1>4, HeldRefs DEF IInv, CountIsConserved

\* A release that finds the inline count empty and no entry is the last one.
LEMMA LoadedLast ==
  ASSUME IInv, NEW t \in Threads, Holds(t), isa.nonpointer,
         isa.extra_rc = 0,
         \/ ~isa.has_sidetable_rc
         \/ side.rc = 0 /\ lock = t
              /\ pc[t] \notin Borrowing \cup {"changeMove"}
  PROVE  ~isa.deallocating
<1>1. refs # {} /\ ~freed
  BY DEF IInv, Holds, LifeInv
<1>2. InTransit = 0
  BY NoTransit, NothingBorrowed DEF IInv
<1>3. side.rc = 0
  BY <1>1, FreshEntry DEF IInv, SideInv
<1>4. ASSUME deallocator # NoThread PROVE FALSE
  BY <1>1, <1>2, <1>3, <1>4, HeldRefs DEF IInv, CountIsConserved
<1> QED BY <1>1, <1>4 DEF IInv, LifeInv, Deallocating


-----------------------------------------------------------------------------
(* The lock discipline, action by action. *)

LEMMA LockPreserved ==
  ASSUME TypeOK, LockInv, OldInv, NEW t \in Threads, Call(t) \/ Step(t)
  PROVE  LockInv'
<1> USE NoThreadAssumption
<1> USE DEF TypeOK, LockInv, LockedLabels, LoopLabels, Idle, Goto,
            LoadExclusive, Restart, Retry, GoSlow, Return, Lock,
            UnlockIfHeld, NoArg, object, clients, locals, MayUse,
            SendDealloc, StoreLocation, GiveBack
<1>1. CASE Alloc(t)
  BY <1>1 DEF Alloc
<1>2. CASE RetainBegin(t)
  BY <1>2 DEF RetainBegin
<1>3. CASE ReleaseBegin(t)
  BY <1>3 DEF ReleaseBegin
<1>4. CASE LoadWeak(t)
  BY <1>4 DEF LoadWeak
<1>5. CASE StoreWeakBegin(t)
  BY <1>5 DEF StoreWeakBegin
<1>6. CASE SetAssocBegin(t)
  BY <1>6 DEF SetAssocBegin
<1>7. CASE ChangeIsaBegin(t)
  BY <1>7 DEF ChangeIsaBegin
<1>8. CASE RetainLoad(t)
  BY <1>8 DEF RetainLoad
<1>9. CASE RetainLock(t)
  BY <1>9 DEF RetainLock
<1>10. CASE RetainStore(t)
  BY <1>10 DEF RetainStore, OldInv
<1>11. CASE RetainAddExtra(t)
  BY <1>11 DEF RetainAddExtra
<1>12. CASE RetainRaw(t)
  BY <1>12 DEF RetainRaw
<1>13. CASE TryRetainRaw(t)
  BY <1>13 DEF TryRetainRaw
<1>14. CASE ReleaseLoad(t)
  BY <1>14 DEF ReleaseLoad
<1>15. CASE ReleaseLock(t)
  BY <1>15 DEF ReleaseLock
<1>16. CASE ReleaseStore(t)
  BY <1>16 DEF ReleaseStore
<1>17. CASE Borrow(t)
  BY <1>17 DEF Borrow
<1>18. CASE BorrowStore(t)
  BY <1>18 DEF BorrowStore
<1>19. CASE BorrowReload(t)
  BY <1>19 DEF BorrowReload
<1>20. CASE BorrowRestore(t)
  BY <1>20 DEF BorrowRestore
<1>21. CASE PutBack(t)
  BY <1>21 DEF PutBack
<1>22. CASE DeallocStore(t)
  BY <1>22 DEF DeallocStore
<1>23. CASE ReleaseRaw(t)
  BY <1>23 DEF ReleaseRaw
<1>24. CASE WeakLock(t)
  BY <1>24 DEF WeakLock
<1>25. CASE StoreWeakLock(t)
  BY <1>25 DEF StoreWeakLock
<1>26. CASE SetWeakLoad(t)
  BY <1>26 DEF SetWeakLoad
<1>27. CASE SetWeakStore(t)
  BY <1>27 DEF SetWeakStore
<1>28. CASE SetAssocLoad(t)
  BY <1>28 DEF SetAssocLoad
<1>29. CASE SetAssocStore(t)
  BY <1>29 DEF SetAssocStore
<1>30. CASE ChangeIsaLoad(t)
  BY <1>30 DEF ChangeIsaLoad
<1>31. CASE ChangeIsaLock(t)
  BY <1>31 DEF ChangeIsaLock
<1>32. CASE ChangeIsaStore(t)
  BY <1>32 DEF ChangeIsaStore
<1>33. CASE ChangeIsaMove(t)
  BY <1>33 DEF ChangeIsaMove
<1>34. CASE RootDealloc(t)
  BY <1>34 DEF RootDealloc
<1>35. CASE Dispose(t)
  BY <1>35 DEF Dispose
<1>36. CASE ClearDeallocating(t)
  BY <1>36 DEF ClearDeallocating
<1>37. CASE ClearDeallocatingLocked(t)
  BY <1>37 DEF ClearDeallocatingLocked
<1>38. CASE Free(t)
  BY <1>38 DEF Free
<1>39. CASE \E u \in Threads : HandOver(t, u)
  BY <1>39 DEF HandOver
<1> QED BY <1>1, <1>2, <1>3, <1>4, <1>5, <1>6, <1>7, <1>8, <1>9, <1>10,
           <1>11, <1>12, <1>13, <1>14, <1>15, <1>16, <1>17, <1>18, <1>19,
           <1>20, <1>21, <1>22, <1>23, <1>24, <1>25, <1>26, <1>27, <1>28,
           <1>29, <1>30, <1>31, <1>32, <1>33, <1>34, <1>35, <1>36, <1>37,
           <1>38, <1>39 DEF Call, Step

-----------------------------------------------------------------------------
(* What entitles a thread to be where it is. *)

LEMMA ClientPreserved ==
  ASSUME IInv, NEW t \in Threads, Call(t) \/ Step(t)
  PROVE  ClientInv'
<1> USE NoThreadAssumption
<1> USE DEF IInv, TypeOK, LockInv, LockedLabels, LoopLabels, ClientInv,
            ReleaseLabels, UseLabels, DisposeLabels, Idle, Goto,
            LoadExclusive, Restart, Retry, GoSlow, Return, Lock,
            UnlockIfHeld, NoArg, object, clients, locals, MayUse,
            SendDealloc, StoreLocation, GiveBack
<1>1. CASE Alloc(t)
  BY <1>1 DEF Alloc, Holds
<1>2. CASE RetainBegin(t)
  BY <1>2 DEF RetainBegin, Holds, HasRoom
<1>3. CASE ReleaseBegin(t)
  BY <1>3 DEF ReleaseBegin, Holds
<1>4. CASE LoadWeak(t)
  BY <1>4 DEF LoadWeak, Holds, HasRoom
<1>5. CASE StoreWeakBegin(t)
  BY <1>5 DEF StoreWeakBegin, Holds
<1>6. CASE SetAssocBegin(t)
  BY <1>6 DEF SetAssocBegin, Holds
<1>7. CASE ChangeIsaBegin(t)
  BY <1>7 DEF ChangeIsaBegin, Holds
<1>8. CASE RetainLoad(t)
  BY <1>8 DEF RetainLoad, Holds
<1>9. CASE RetainLock(t)
  BY <1>9 DEF RetainLock, Holds
<1>10. CASE RetainStore(t)
  <2>1. CASE StoreExclusive(t, Retained(old[t])) /\ GainRef(t)
    <3>1. arg[t].tryRetain => deallocator = NoThread
      <4> SUFFICES ASSUME arg[t].tryRetain PROVE deallocator = NoThread
        OBVIOUS
      <4>1. isa.nonpointer /\ ~isa.deallocating
        BY <1>10, <2>1 DEF RetainStore, StoreExclusive, OldInv
      <4> QED BY <4>1, Live DEF Deallocating
    <3>2. \A u \in Threads : pc[u] \notin DisposeLabels
      BY <1>10, <3>1, NoThreadAssumption DEF RetainStore, Holds
    <3> QED BY <1>10, <2>1, <3>1, <3>2, GainRefFrame DEF RetainStore
  <2>2. CASE refs' = refs
    BY <1>10, <2>2, SMTT(60) DEF RetainStore, Holds
  <2> QED BY <1>10, <2>1, <2>2 DEF RetainStore
<1>11. CASE RetainAddExtra(t)
  BY <1>11 DEF RetainAddExtra, Holds
<1>12. CASE RetainRaw(t)
  <2>1. Holds(t) \/ deallocator = t
    BY <1>12 DEF RetainRaw
  <2> QED BY <1>12, <2>1, GainRefFrame DEF RetainRaw, Holds
<1>13. CASE TryRetainRaw(t)
  <2>1. CASE ~side.deallocating /\ GainRef(t)
    <3>1. deallocator = NoThread
      <4>1. location /\ ~isa.nonpointer /\ lock = t
        BY <1>13 DEF TryRetainRaw, SideInv
      <4>2. ~Deallocating
        BY <1>13, <2>1, <4>1 DEF TryRetainRaw, Deallocating, Moving
      <4> QED BY <4>1, <4>2, Live
    <3>2. \A u \in Threads : pc[u] \notin DisposeLabels
      BY <3>1, NoThreadAssumption
    <3> QED BY <1>13, <2>1, <3>1, <3>2, GainRefFrame DEF TryRetainRaw
  <2>2. CASE refs' = refs
    BY <1>13, <2>2 DEF TryRetainRaw, Holds
  <2> QED BY <1>13, <2>1, <2>2 DEF TryRetainRaw
<1>14. CASE ReleaseLoad(t)
  <2>1. Holds(t)
    BY <1>14 DEF ReleaseLoad
  <2>2. pc'[t] # "overrelease"
    BY <1>14, <2>1, LoadedLast DEF ReleaseLoad, Borrowing
  <2>3. /\ pc'[t] \in ReleaseLabels
        /\ \A u \in Threads \ {t} : pc'[u] = pc[u]
        /\ \A u \in Threads : arg'[u].tryRetain = arg[u].tryRetain
    BY <1>14, <2>2, ReleaseLoadFrame
  <2>4. UNCHANGED <<refs, deallocator>>
    BY <1>14 DEF ReleaseLoad
  <2> QED BY <2>1, <2>3, <2>4, SMTT(60) DEF Holds
<1>15. CASE ReleaseLock(t)
  BY <1>15 DEF ReleaseLock, Holds
<1>16. CASE ReleaseStore(t)
  <2>1. CASE DropRef(t)
    BY <1>16, <2>1, DropRefFrame DEF ReleaseStore
  <2>2. CASE refs' = refs
    BY <1>16, <2>2, SMTT(60) DEF ReleaseStore, Holds
  <2> QED BY <1>16, <2>1, <2>2 DEF ReleaseStore
<1>17. CASE Borrow(t)
  <2>1. ~(side.rc = 0 /\ old[t].deallocating)
    BY <1>17 DEF Borrow, OldInv
  <2> QED BY <1>17, <2>1, SMTT(60) DEF Borrow, Holds
<1>18. CASE BorrowStore(t)
  <2>1. CASE DropRef(t)
    BY <1>18, <2>1, DropRefFrame DEF BorrowStore
  <2>2. CASE refs' = refs
    BY <1>18, <2>2, ZenonT(60) DEF BorrowStore, Holds
  <2> QED BY <1>18, <2>1, <2>2 DEF BorrowStore
<1>19. CASE BorrowReload(t)
  BY <1>19 DEF BorrowReload, Holds
<1>20. CASE BorrowRestore(t)
  <2>1. CASE DropRef(t)
    BY <1>20, <2>1, DropRefFrame DEF BorrowRestore
  <2>2. CASE refs' = refs
    BY <1>20, <2>2, ZenonT(60) DEF BorrowRestore, Holds
  <2> QED BY <1>20, <2>1, <2>2 DEF BorrowRestore
<1>21. CASE PutBack(t)
  BY <1>21 DEF PutBack, Holds
<1>22. CASE DeallocStore(t)
  <2>1. CASE /\ StoreExclusive(t, BeginDealloc(old[t]))
             /\ DropRef(t) /\ UnlockIfHeld(t) /\ SendDealloc(t)
    <3>1. deallocator = NoThread /\ Cardinality(refs) = 1
      BY <1>22, <2>1, LastRelease DEF DeallocStore, StoreExclusive
    <3>2. refs' = {}
      BY <2>1, <3>1, DropRefFrame
    <3>3. \A u \in Threads \ {t} : ~Holds(u)
      BY <2>1, <3>2, DropRefFrame DEF Holds
    <3> QED BY <1>22, <2>1, <3>1, <3>2, <3>3 DEF DeallocStore
  <2>2. CASE Retry(t, "releaseLoad") /\ UNCHANGED <<refs, lock, deallocator>>
    BY <1>22, <2>2, ZenonT(60) DEF DeallocStore, Holds
  <2> QED BY <1>22, <2>1, <2>2 DEF DeallocStore
<1>23. CASE ReleaseRaw(t)
  <2>1. CASE side.rc = 0 /\ ~side.deallocating
    <3>1. deallocator = NoThread /\ Cardinality(refs) = 1
      BY <1>23, <2>1, LastRawRelease DEF ReleaseRaw
    <3>2. DropRef(t) /\ SendDealloc(t)
      BY <1>23, <2>1 DEF ReleaseRaw
    <3>3. refs' = {}
      BY <3>1, <3>2, DropRefFrame
    <3> QED BY <1>23, <3>1, <3>2, <3>3, DropRefFrame DEF ReleaseRaw
  <2>2. CASE ~(side.rc = 0 /\ ~side.deallocating)
    BY <1>23, <2>2, DropRefFrame DEF ReleaseRaw
  <2> QED BY <2>1, <2>2
<1>24. CASE WeakLock(t)
  BY <1>24 DEF WeakLock, Holds
<1>25. CASE StoreWeakLock(t)
  <2>1. CASE ~IsDeallocating
    <3>1. ~Deallocating
      BY <1>25, <2>1, NoThreadAssumption
         DEF StoreWeakLock, Deallocating, IsDeallocating, Moving
    <3>2. Holds(t) \/ deallocator = t
      BY <1>25 DEF StoreWeakLock
    <3>3. refs # {}
      BY <1>25, <3>1, <3>2 DEF StoreWeakLock, LifeInv, Holds
    <3>4. deallocator = NoThread
      BY <3>1, <3>3, Live
    <3> QED BY <1>25, <2>1, <3>2, <3>4, NoThreadAssumption
               DEF StoreWeakLock, Holds
  <2>2. CASE IsDeallocating
    BY <1>25, <2>2 DEF StoreWeakLock, Holds
  <2> QED BY <2>1, <2>2
<1>26. CASE SetWeakLoad(t)
  BY <1>26, SMTT(60) DEF SetWeakLoad, Holds
<1>27. CASE SetWeakStore(t)
  BY <1>27, SMTT(60) DEF SetWeakStore, Holds, StoreExclusive, StoreFails
<1>28. CASE SetAssocLoad(t)
  <2>1. CASE Return(t)
    BY <1>28, <2>1, SMTT(60) DEF SetAssocLoad, Holds
  <2>2. CASE ~Return(t)
    BY <1>28, <2>2 DEF SetAssocLoad, Holds
  <2> QED BY <2>1, <2>2
<1>29. CASE SetAssocStore(t)
  <2>1. CASE Return(t)
    BY <1>29, <2>1, SMTT(60) DEF SetAssocStore, Holds
  <2>2. CASE ~Return(t)
    BY <1>29, <2>2, ZenonT(60) DEF SetAssocStore, Holds
  <2> QED BY <2>1, <2>2
<1>30. CASE ChangeIsaLoad(t)
  <2>1. CASE Return(t)
    BY <1>30, <2>1, SMTT(60) DEF ChangeIsaLoad, Holds
  <2>2. CASE isa.nonpointer
    <3>1. /\ pc'[t] \in {"changeStore", "changeLock"}
          /\ \A u \in Threads \ {t} : pc'[u] = pc[u]
          /\ arg' = arg
      BY <1>30, <2>2 DEF ChangeIsaLoad
    <3> QED BY <1>30, <3>1, SMTT(60) DEF ChangeIsaLoad, Holds
  <2> QED BY <1>30, <2>1, <2>2 DEF ChangeIsaLoad
<1>31. CASE ChangeIsaLock(t)
  BY <1>31 DEF ChangeIsaLock, Holds
<1>32. CASE ChangeIsaStore(t)
  BY <1>32, SMTT(60) DEF ChangeIsaStore, Holds, StoreExclusive, StoreFails
<1>33. CASE ChangeIsaMove(t)
  BY <1>33 DEF ChangeIsaMove, Holds
<1>34. CASE RootDealloc(t)
  BY <1>34 DEF RootDealloc, Holds
<1>35. CASE Dispose(t)
  BY <1>35 DEF Dispose, Holds
<1>36. CASE ClearDeallocating(t)
  <2>1. /\ pc[t] = "clear"
        /\ pc'[t] \in {"clearLock", "free"}
        /\ \A u \in Threads \ {t} : pc'[u] = pc[u]
    BY <1>36 DEF ClearDeallocating
  <2>2. UNCHANGED <<refs, deallocator, arg>>
    BY <1>36 DEF ClearDeallocating
  <2> QED BY <2>1, <2>2 DEF Holds
<1>37. CASE ClearDeallocatingLocked(t)
  BY <1>37 DEF ClearDeallocatingLocked, Holds
<1>38. CASE Free(t)
  BY <1>38, ZenonT(60) DEF Free, Holds
<1>39. CASE \E u \in Threads : HandOver(t, u)
  BY <1>39 DEF HandOver, Holds
<1> QED BY <1>1, <1>2, <1>3, <1>4, <1>5, <1>6, <1>7, <1>8, <1>9, <1>10,
           <1>11, <1>12, <1>13, <1>14, <1>15, <1>16, <1>17, <1>18, <1>19,
           <1>20, <1>21, <1>22, <1>23, <1>24, <1>25, <1>26, <1>27, <1>28,
           <1>29, <1>30, <1>31, <1>32, <1>33, <1>34, <1>35, <1>36, <1>37,
           <1>38, <1>39 DEF Call, Step

-----------------------------------------------------------------------------
(* Multiples of RC_HALF. *)

LEMMA HalfZero == HalfMultiple(0)
  BY RCHalfAssumption DEF HalfMultiple

LEMMA HalfPlus ==
  ASSUME NEW n \in Nat, HalfMultiple(n)
  PROVE  HalfMultiple(n + RC_HALF)
<1>1. PICK k \in 0..n : n = k * RC_HALF
  BY DEF HalfMultiple
<1>2. n + RC_HALF = (k + 1) * RC_HALF
  BY <1>1, RCHalfAssumption
<1>3. k + 1 \in 0..(n + RC_HALF)
  BY <1>1, RCHalfAssumption
<1> QED BY <1>2, <1>3 DEF HalfMultiple

LEMMA HalfMinus ==
  ASSUME NEW n \in Nat, n > 0, HalfMultiple(n)
  PROVE  n >= RC_HALF /\ HalfMultiple(n - RC_HALF)
<1>1. PICK k \in 0..n : n = k * RC_HALF
  BY DEF HalfMultiple
<1>2. k >= 1 /\ k - 1 \in Nat
  BY <1>1, RCHalfAssumption
<1>3. n - RC_HALF = (k - 1) * RC_HALF
  BY <1>1, RCHalfAssumption
<1>4. (k - 1) * RC_HALF >= k - 1
  BY <1>2, RCHalfAssumption
<1> QED BY <1>2, <1>3, <1>4, RCHalfAssumption DEF HalfMultiple

\* The marks that a raw isa keeps in its entry.
MarkDeallocating(entry) == [AddRC(entry, 0) EXCEPT !.deallocating = TRUE]
MarkWeak(entry) == [AddRC(entry, 0) EXCEPT !.weakly_referenced = TRUE]

LEMMA MarkedEntry ==
  ASSUME NEW entry \in SideEntry
  PROVE  /\ MarkDeallocating(entry) \in SideEntry
         /\ MarkDeallocating(entry).present
         /\ MarkDeallocating(entry).rc = entry.rc
         /\ MarkDeallocating(entry).deallocating
         /\ MarkDeallocating(entry).weakly_referenced = entry.weakly_referenced
         /\ MarkWeak(entry) \in SideEntry
         /\ MarkWeak(entry).present
         /\ MarkWeak(entry).rc = entry.rc
         /\ MarkWeak(entry).deallocating = entry.deallocating
         /\ MarkWeak(entry).weakly_referenced
<1> DEFINE e == AddRC(entry, 0)
<1>1. /\ e \in SideEntry /\ e.present /\ e.rc = entry.rc
      /\ e.deallocating = entry.deallocating
      /\ e.weakly_referenced = entry.weakly_referenced
  BY AddRCEntry DEF SideEntry
<1>2. /\ MarkDeallocating(entry) = [e EXCEPT !.deallocating = TRUE]
      /\ MarkWeak(entry) = [e EXCEPT !.weakly_referenced = TRUE]
  BY DEF MarkDeallocating, MarkWeak
<1> HIDE DEF e
<1> QED BY <1>1, <1>2 DEF SideEntry

\* A balanced release of a raw isa finds a count or the deallocating mark,
\* and with the mark a count too.
LEMMA RawEntryInUse ==
  ASSUME IInv, NEW t \in Threads, pc[t] = "releaseRaw", lock = NoThread,
         ~(side.rc = 0 /\ ~side.deallocating)
  PROVE  side.rc > 0 /\ side.present
<1>1. Holds(t) /\ refs # {} /\ ~freed
  BY DEF IInv, ClientInv, ReleaseLabels, Holds, LifeInv
<1>2. ~isa.nonpointer /\ isa.extra_rc = 0
  BY <1>1, FreshRawIsa DEF IInv, SideInv
<1>3. InTransit = 0 /\ ~Moving
  BY NoTransit DEF IInv, Borrowing
<1>4. CASE side.deallocating
  <2>1. deallocator # NoThread
    BY <1>1, <1>2, <1>4 DEF IInv, LifeInv, Deallocating
  <2>2. side.rc > 0
    BY <1>1, <1>2, <1>3, <2>1, HeldRefs
       DEF IInv, CountIsConserved, TypeOK, SideEntry
  <2> QED BY <2>2, FreshEntry DEF IInv, SideInv
<1>5. CASE side.rc > 0
  BY <1>5, FreshEntry DEF IInv, SideInv
<1> QED BY <1>4, <1>5 DEF IInv, TypeOK, SideEntry


-----------------------------------------------------------------------------
(* The side table while the isa is in charge. *)

LEMMA SidePreserved ==
  ASSUME IInv, NEW t \in Threads, Call(t) \/ Step(t)
  PROVE  SideInv'
<1>a. /\ TypeOK /\ LockInv /\ SideInv
      /\ old[t] \in IsaBits /\ isa \in IsaBits /\ side \in SideEntry
  BY DEF IInv, TypeOK
<1> USE NoThreadAssumption, <1>a
<1> USE DEF IInv, TypeOK, LockInv, SideInv, Borrowing, LockedLabels,
            LoopLabels, Idle, Goto, LoadExclusive,
            Restart, Retry, GoSlow, Return, Lock, UnlockIfHeld, NoArg,
            object, clients, locals, MayUse,
            SendDealloc, StoreLocation, GiveBack
<1>1. CASE Alloc(t)
  BY <1>1, FreshNonpointerIsa, FreshRawIsa, FreshEntry, HalfZero
     DEF Alloc, LifeInv
<1>2. CASE RetainBegin(t)
  BY <1>2 DEF RetainBegin
<1>3. CASE ReleaseBegin(t)
  BY <1>3 DEF ReleaseBegin
<1>4. CASE LoadWeak(t)
  BY <1>4 DEF LoadWeak
<1>5. CASE StoreWeakBegin(t)
  BY <1>5 DEF StoreWeakBegin
<1>6. CASE SetAssocBegin(t)
  BY <1>6 DEF SetAssocBegin
<1>7. CASE ChangeIsaBegin(t)
  BY <1>7 DEF ChangeIsaBegin
<1>8. CASE RetainLoad(t)
  BY <1>8 DEF RetainLoad
<1>9. CASE RetainLock(t)
  BY <1>9 DEF RetainLock
<1>10. CASE RetainStore(t)
  <2>1. CASE StoreExclusive(t, Retained(old[t]))
    <3>1. /\ isa'.nonpointer /\ isa.nonpointer
          /\ isa'.has_sidetable_rc =
               (isa.has_sidetable_rc \/ old[t].extra_rc = RC_MAX)
      BY <1>10, <2>1, RetainedWord DEF RetainStore, StoreExclusive, OldInv
    <3>2. CASE old[t].extra_rc = RC_MAX
      BY <1>10, <2>1, <3>1, <3>2, ZenonT(60)
         DEF RetainStore, ClientInv, UseLabels, StoreFails, OldInv
    <3>3. CASE old[t].extra_rc # RC_MAX
      BY <1>10, <2>1, <3>1, <3>3, ZenonT(60) DEF RetainStore, StoreFails
    <3> QED BY <3>2, <3>3
  <2>2. CASE StoreFails(t) /\ Retry(t, "retainLoad")
    BY <1>10, <2>2 DEF RetainStore, StoreFails
  <2> QED BY <1>10, <2>1, <2>2 DEF RetainStore
<1>11. CASE RetainAddExtra(t)
  <2>1. /\ isa.nonpointer /\ isa.has_sidetable_rc
        /\ side.rc \in Nat /\ HalfMultiple(side.rc)
        /\ ~side.deallocating /\ ~side.weakly_referenced
    BY <1>11 DEF RetainAddExtra, SideEntry
  <2>2. /\ side'.rc = side.rc + RC_HALF
        /\ side'.present
        /\ ~side'.deallocating /\ ~side'.weakly_referenced
    <3>1. side' = AddRC(side, RC_HALF) /\ RC_HALF \in Nat
      BY <1>11, RCHalfAssumption DEF RetainAddExtra
    <3> HIDE DEF IInv, SideInv, LockInv, TypeOK
    <3> QED BY <3>1, <2>1, <1>a, AddRCEntry
  <2>3. HalfMultiple(side.rc + RC_HALF)
    BY <2>1, HalfPlus
  <2> QED BY <1>11, <2>1, <2>2, <2>3 DEF RetainAddExtra
<1>12. CASE RetainRaw(t)
  BY <1>12, AddRCEntry DEF RetainRaw
<1>13. CASE TryRetainRaw(t)
  BY <1>13, AddRCEntry DEF TryRetainRaw
<1>14. CASE ReleaseLoad(t)
  BY <1>14 DEF ReleaseLoad
<1>15. CASE ReleaseLock(t)
  BY <1>15 DEF ReleaseLock
<1>16. CASE ReleaseStore(t)
  <2>1. CASE StoreExclusive(t, Released(old[t]))
    <3>1. /\ isa'.nonpointer /\ isa.nonpointer
          /\ isa'.has_sidetable_rc = isa.has_sidetable_rc
      BY <1>16, <2>1, ReleasedWord
         DEF ReleaseStore, StoreExclusive, SameFlags, OldInv
    <3> QED BY <1>16, <3>1 DEF ReleaseStore
  <2>2. CASE StoreFails(t)
    BY <1>16, <2>2 DEF ReleaseStore, StoreFails
  <2> QED BY <1>16, <2>1, <2>2 DEF ReleaseStore
<1>17. CASE Borrow(t)
  <2>1. CASE side.rc > 0
    <3>1. /\ isa.nonpointer /\ isa.has_sidetable_rc
          /\ side.rc \in Nat /\ HalfMultiple(side.rc)
          /\ ~side.deallocating /\ ~side.weakly_referenced
      BY <1>17 DEF Borrow, SideEntry
    <3>2. side.present
      BY <2>1, FreshEntry
    <3>3. /\ side'.rc = side.rc - RC_HALF
          /\ side'.present
          /\ ~side'.deallocating /\ ~side'.weakly_referenced
      BY <1>17, <2>1, <3>1, <3>2 DEF Borrow, SideEntry
    <3>4. HalfMultiple(side.rc - RC_HALF)
      BY <2>1, <3>1, HalfMinus
    <3> QED BY <1>17, <3>1, <3>3, <3>4 DEF Borrow
  <2>2. CASE side.rc = 0
    BY <1>17, <2>2 DEF Borrow
  <2> QED BY <1>17, <2>1, <2>2 DEF Borrow, SideEntry
<1>18. CASE BorrowStore(t)
  <2>1. CASE StoreExclusive(t, Borrowed(old[t]))
    <3>1. /\ isa'.nonpointer /\ isa.nonpointer
          /\ isa'.has_sidetable_rc = isa.has_sidetable_rc
      BY <1>18, <2>1, BorrowedWord
         DEF BorrowStore, StoreExclusive, SameFlags, OldInv
    <3> QED BY <1>18, <3>1 DEF BorrowStore
  <2>2. CASE StoreFails(t)
    BY <1>18, <2>2 DEF BorrowStore, StoreFails
  <2> QED BY <1>18, <2>1, <2>2 DEF BorrowStore
<1>19. CASE BorrowReload(t)
  BY <1>19 DEF BorrowReload
<1>20. CASE BorrowRestore(t)
  <2>1. CASE StoreExclusive(t, Restored(old[t]))
    <3>1. /\ isa'.nonpointer /\ isa.nonpointer
          /\ isa'.has_sidetable_rc = isa.has_sidetable_rc
      BY <1>20, <2>1, RestoredWord
         DEF BorrowRestore, StoreExclusive, SameFlags, OldInv
    <3> QED BY <1>20, <3>1 DEF BorrowRestore
  <2>2. CASE StoreFails(t)
    BY <1>20, <2>2 DEF BorrowRestore, StoreFails
  <2> QED BY <1>20, <2>1, <2>2 DEF BorrowRestore
<1>21. CASE PutBack(t)
  <2>1. /\ isa.nonpointer /\ isa.has_sidetable_rc
        /\ side.rc \in Nat /\ HalfMultiple(side.rc)
        /\ ~side.deallocating /\ ~side.weakly_referenced
    BY <1>21 DEF PutBack, SideEntry
  <2>2. /\ side'.rc = side.rc + RC_HALF
        /\ side'.present
        /\ ~side'.deallocating /\ ~side'.weakly_referenced
    <3>1. side' = AddRC(side, RC_HALF) /\ RC_HALF \in Nat
      BY <1>21, RCHalfAssumption DEF PutBack
    <3> HIDE DEF IInv, SideInv, LockInv, TypeOK
    <3> QED BY <3>1, <2>1, <1>a, AddRCEntry
  <2>3. HalfMultiple(side.rc + RC_HALF)
    BY <2>1, HalfPlus
  <2> QED BY <1>21, <2>1, <2>2, <2>3 DEF PutBack
<1>22. CASE DeallocStore(t)
  <2>1. CASE StoreExclusive(t, BeginDealloc(old[t]))
    <3>1. /\ isa'.nonpointer /\ isa.nonpointer
          /\ isa'.has_sidetable_rc = isa.has_sidetable_rc
      BY <1>22, <2>1, BeginDeallocWord
         DEF DeallocStore, StoreExclusive, SameFlags, OldInv
    <3> QED BY <1>22, <3>1 DEF DeallocStore
  <2>2. CASE StoreFails(t)
    BY <1>22, <2>2 DEF DeallocStore, StoreFails
  <2> QED BY <1>22, <2>1, <2>2 DEF DeallocStore
<1>23. CASE ReleaseRaw(t)
  <2>1. ~isa.nonpointer
    BY <1>23 DEF ReleaseRaw
  <2>2. CASE side.rc = 0 /\ ~side.deallocating
    <3>1. side' = MarkDeallocating(side)
      BY <1>23, <2>2 DEF ReleaseRaw, MarkDeallocating
    <3> QED BY <1>23, <2>1, <2>2, <3>1, MarkedEntry DEF ReleaseRaw
  <2>3. CASE ~(side.rc = 0 /\ ~side.deallocating)
    <3>1. side.present
      BY <1>23, <2>1, <2>3, RawEntryInUse DEF ReleaseRaw
    <3> QED BY <1>23, <2>1, <2>3, <3>1 DEF ReleaseRaw, SideEntry
  <2> QED BY <2>2, <2>3
<1>24. CASE WeakLock(t)
  BY <1>24 DEF WeakLock
<1>25. CASE StoreWeakLock(t)
  BY <1>25 DEF StoreWeakLock
<1>26. CASE SetWeakLoad(t)
  <2>1. CASE isa.nonpointer
    BY <1>26, <2>1 DEF SetWeakLoad
  <2>2. CASE ~isa.nonpointer
    <3>1. side' = MarkWeak(side)
      BY <1>26, <2>2 DEF SetWeakLoad, MarkWeak
    <3>2. side'.present
      BY <3>1, MarkedEntry
    <3> QED BY <1>26, <2>2, <3>2 DEF SetWeakLoad
  <2> QED BY <2>1, <2>2
<1>27. CASE SetWeakStore(t)
  <2>1. CASE StoreExclusive(t, SetWeak(old[t]))
    <3>1. /\ isa'.nonpointer /\ isa.nonpointer
          /\ isa'.has_sidetable_rc = isa.has_sidetable_rc
      BY <1>27, <2>1, SetWeakWord
         DEF SetWeakStore, StoreExclusive, SameFlags, OldInv
    <3> QED BY <1>27, <3>1 DEF SetWeakStore
  <2>2. CASE StoreFails(t)
    BY <1>27, <2>2 DEF SetWeakStore, StoreFails
  <2> QED BY <1>27, <2>1, <2>2 DEF SetWeakStore
<1>28. CASE SetAssocLoad(t)
  BY <1>28 DEF SetAssocLoad
<1>29. CASE SetAssocStore(t)
  <2>1. CASE StoreExclusive(t, SetAssoc(old[t]))
    <3>1. /\ isa'.nonpointer /\ isa.nonpointer
          /\ isa'.has_sidetable_rc = isa.has_sidetable_rc
      BY <1>29, <2>1, SetAssocWord
         DEF SetAssocStore, StoreExclusive, SameFlags, OldInv
    <3> QED BY <1>29, <3>1 DEF SetAssocStore
  <2>2. CASE StoreFails(t)
    BY <1>29, <2>2 DEF SetAssocStore, StoreFails
  <2> QED BY <1>29, <2>1, <2>2 DEF SetAssocStore
<1>30. CASE ChangeIsaLoad(t)
  BY <1>30 DEF ChangeIsaLoad
<1>31. CASE ChangeIsaLock(t)
  BY <1>31 DEF ChangeIsaLock
<1>32. CASE ChangeIsaStore(t)
  <2>1. CASE StoreExclusive(t, RawIsa) /\ Goto(t, "changeMove")
    <3>1. isa.nonpointer /\ ~isa'.nonpointer /\ isa' = RawIsa /\ lock = t
      BY <1>32, <2>1, FreshRawIsa DEF ChangeIsaStore, StoreExclusive, OldInv
    <3>2. ~side.deallocating /\ ~side.weakly_referenced
      BY <3>1
    <3> QED BY <1>32, <2>1, <3>1, <3>2 DEF ChangeIsaStore
  <2>2. CASE StoreFails(t) /\ Retry(t, "changeLoad")
    BY <1>32, <2>2 DEF ChangeIsaStore, StoreFails
  <2> QED BY <1>32, <2>1, <2>2 DEF ChangeIsaStore
<1>33. CASE ChangeIsaMove(t)
  BY <1>33 DEF ChangeIsaMove
<1>34. CASE RootDealloc(t)
  BY <1>34 DEF RootDealloc
<1>35. CASE Dispose(t)
  BY <1>35 DEF Dispose
<1>36. CASE ClearDeallocating(t)
  BY <1>36 DEF ClearDeallocating
<1>37. CASE ClearDeallocatingLocked(t)
  BY <1>37, FreshEntry, HalfZero DEF ClearDeallocatingLocked
<1>38. CASE Free(t)
  BY <1>38 DEF Free
<1>39. CASE \E u \in Threads : HandOver(t, u)
  BY <1>39 DEF HandOver
<1> QED BY <1>1, <1>2, <1>3, <1>4, <1>5, <1>6, <1>7, <1>8, <1>9, <1>10,
           <1>11, <1>12, <1>13, <1>14, <1>15, <1>16, <1>17, <1>18, <1>19,
           <1>20, <1>21, <1>22, <1>23, <1>24, <1>25, <1>26, <1>27, <1>28,
           <1>29, <1>30, <1>31, <1>32, <1>33, <1>34, <1>35, <1>36, <1>37,
           <1>38, <1>39 DEF Call, Step

-----------------------------------------------------------------------------
(* What a stale oldisa still says. *)

LEMMA OldPreserved ==
  ASSUME IInv, NEW t \in Threads, Call(t) \/ Step(t)
  PROVE  OldInv'
<1>a. /\ TypeOK /\ LockInv /\ SideInv
      /\ old[t] \in IsaBits /\ isa \in IsaBits /\ side \in SideEntry
  BY DEF IInv, TypeOK
<1> USE NoThreadAssumption, <1>a
<1> USE DEF IInv, TypeOK, LockInv, OldInv, LockedLabels, LoopLabels,
            Idle, Goto, LoadExclusive,
            Restart, Retry, GoSlow, Return, Lock, UnlockIfHeld, NoArg,
            object, clients, locals, MayUse,
            SendDealloc, StoreLocation, GiveBack
<1>1. CASE Alloc(t)
  BY <1>1 DEF Alloc
<1>2. CASE RetainBegin(t)
  BY <1>2 DEF RetainBegin
<1>3. CASE ReleaseBegin(t)
  BY <1>3 DEF ReleaseBegin
<1>4. CASE LoadWeak(t)
  BY <1>4 DEF LoadWeak
<1>5. CASE StoreWeakBegin(t)
  BY <1>5 DEF StoreWeakBegin
<1>6. CASE SetAssocBegin(t)
  BY <1>6 DEF SetAssocBegin
<1>7. CASE ChangeIsaBegin(t)
  BY <1>7 DEF ChangeIsaBegin
<1>8. CASE RetainLoad(t)
  BY <1>8 DEF RetainLoad
<1>9. CASE RetainLock(t)
  BY <1>9 DEF RetainLock
<1>10. CASE RetainStore(t)
  BY <1>10 DEF RetainStore, StoreExclusive, StoreFails
<1>11. CASE RetainAddExtra(t)
  BY <1>11 DEF RetainAddExtra
<1>12. CASE RetainRaw(t)
  BY <1>12 DEF RetainRaw
<1>13. CASE TryRetainRaw(t)
  BY <1>13 DEF TryRetainRaw
<1>14. CASE ReleaseLoad(t)
  <2>1. Holds(t)
    BY <1>14 DEF ReleaseLoad, ClientInv, ReleaseLabels
  <2>2. pc'[t] = "borrow" /\ old'[t].deallocating => side.rc > 0
    <3> SUFFICES ASSUME pc'[t] = "borrow", isa.deallocating, side.rc = 0
                 PROVE  FALSE
      BY <1>14 DEF ReleaseLoad, SideEntry
    <3>1. isa.nonpointer /\ isa.extra_rc = 0 /\ lock = t
      BY <1>14 DEF ReleaseLoad
    <3> QED BY <1>14, <2>1, <3>1, LoadedLast DEF ReleaseLoad, Borrowing
  <2>3. /\ UNCHANGED side
        /\ \A u \in Threads \ {t} :
             /\ pc'[u] = pc[u] /\ old'[u] = old[u]
             /\ arg'[u] = arg[u] /\ (lock = u => lock' = u)
    <3>1. UNCHANGED side
      BY <1>14 DEF ReleaseLoad
    <3> QED BY <1>14, <3>1, ReleaseLoadFrame
  <2>4. \/ pc'[t] \in {"releaseRaw", "releaseLoad", "releaseLock",
                       "overrelease"}
        \/ /\ isa.nonpointer /\ old'[t] = isa
           /\ \/ pc'[t] = "releaseStore" /\ isa.extra_rc # 0
              \/ /\ pc'[t] = "deallocStore" /\ isa.extra_rc = 0
                 /\ ~isa.deallocating /\ ~isa.has_sidetable_rc
              \/ pc'[t] = "borrow" /\ isa.extra_rc = 0
    BY <1>14 DEF ReleaseLoad
  <2>5. isa.extra_rc \in Nat
    BY RCHalfAssumption DEF IsaBits, RC_MAX
  <2> QED BY <2>2, <2>3, <2>4, <2>5
<1>15. CASE ReleaseLock(t)
  BY <1>15 DEF ReleaseLock
<1>16. CASE ReleaseStore(t)
  BY <1>16 DEF ReleaseStore, StoreExclusive, StoreFails
<1>17. CASE Borrow(t)
  BY <1>17 DEF Borrow
<1>18. CASE BorrowStore(t)
  BY <1>18 DEF BorrowStore, StoreExclusive, StoreFails
<1>19. CASE BorrowReload(t)
  BY <1>19 DEF BorrowReload
<1>20. CASE BorrowRestore(t)
  BY <1>20 DEF BorrowRestore, StoreExclusive, StoreFails
<1>21. CASE PutBack(t)
  BY <1>21 DEF PutBack
<1>22. CASE DeallocStore(t)
  BY <1>22 DEF DeallocStore, StoreExclusive, StoreFails
<1>23. CASE ReleaseRaw(t)
  BY <1>23 DEF ReleaseRaw
<1>24. CASE WeakLock(t)
  BY <1>24 DEF WeakLock
<1>25. CASE StoreWeakLock(t)
  BY <1>25 DEF StoreWeakLock
<1>26. CASE SetWeakLoad(t)
  BY <1>26 DEF SetWeakLoad
<1>27. CASE SetWeakStore(t)
  BY <1>27 DEF SetWeakStore, StoreExclusive, StoreFails
<1>28. CASE SetAssocLoad(t)
  BY <1>28 DEF SetAssocLoad
<1>29. CASE SetAssocStore(t)
  BY <1>29 DEF SetAssocStore, StoreExclusive, StoreFails
<1>30. CASE ChangeIsaLoad(t)
  BY <1>30 DEF ChangeIsaLoad
<1>31. CASE ChangeIsaLock(t)
  BY <1>31 DEF ChangeIsaLock
<1>32. CASE ChangeIsaStore(t)
  BY <1>32 DEF ChangeIsaStore, StoreExclusive, StoreFails
<1>33. CASE ChangeIsaMove(t)
  BY <1>33 DEF ChangeIsaMove
<1>34. CASE RootDealloc(t)
  BY <1>34 DEF RootDealloc
<1>35. CASE Dispose(t)
  BY <1>35 DEF Dispose
<1>36. CASE ClearDeallocating(t)
  BY <1>36 DEF ClearDeallocating
<1>37. CASE ClearDeallocatingLocked(t)
  BY <1>37 DEF ClearDeallocatingLocked
<1>38. CASE Free(t)
  BY <1>38 DEF Free
<1>39. CASE \E u \in Threads : HandOver(t, u)
  BY <1>39 DEF HandOver
<1> QED BY <1>1, <1>2, <1>3, <1>4, <1>5, <1>6, <1>7, <1>8, <1>9, <1>10,
           <1>11, <1>12, <1>13, <1>14, <1>15, <1>16, <1>17, <1>18, <1>19,
           <1>20, <1>21, <1>22, <1>23, <1>24, <1>25, <1>26, <1>27, <1>28,
           <1>29, <1>30, <1>31, <1>32, <1>33, <1>34, <1>35, <1>36, <1>37,
           <1>38, <1>39 DEF Call, Step

-----------------------------------------------------------------------------
(* The life of the object: its marks, and what names it. *)

\* Once the deallocating thread has seen to the weak variable nobody else
\* is inside an operation on the object.
LEMMA Alone ==
  ASSUME IInv, NEW t \in Threads, deallocator = t, refs = {}
  PROVE  \A u \in Threads \ {t} :
           \/ pc[u] \in {"idle", "weakLock"}
           \/ location /\ arg[u].tryRetain
  BY NoThreadAssumption
     DEF IInv, TypeOK, Labels, Idle, LockInv, ClientInv, ReleaseLabels,
         UseLabels, DisposeLabels, Holds

\* Nobody is inside an operation while the memory is about to be given back.
LEMMA NotFreeing ==
  ASSUME IInv, NEW t \in Threads,
         pc[t] \in UseLabels \cup ReleaseLabels
                    \cup {"tryRetainRaw", "setWeakLoad", "setWeakStore"}
  PROVE  ~freed /\ \A u \in Threads : pc[u] # "free"
<1>1. ~freed
  BY DEF IInv, LifeInv, UseLabels, ReleaseLabels
<1>2. ASSUME NEW u \in Threads, pc[u] = "free"
      PROVE  FALSE
  BY <1>2 DEF IInv, LifeInv, LockInv, ClientInv, UseLabels, ReleaseLabels,
              DisposeLabels, Holds
<1> QED BY <1>1, <1>2

LEMMA LifePreserved ==
  ASSUME IInv, NEW t \in Threads, Call(t) \/ Step(t)
  PROVE  LifeInv'
<1>a. /\ TypeOK /\ LockInv /\ SideInv
      /\ old[t] \in IsaBits /\ isa \in IsaBits /\ side \in SideEntry
  BY DEF IInv, TypeOK
<1> USE NoThreadAssumption, <1>a
<1> USE DEF IInv, TypeOK, LockInv, LifeInv, SideInv, ClientInv, Deallocating,
            Marked, Moving, LockedLabels, LoopLabels, UseLabels,
            ReleaseLabels, DisposeLabels, Holds, Idle, Goto, LoadExclusive,
            Restart, Retry, GoSlow, Return, Lock, UnlockIfHeld, NoArg,
            object, clients, locals, MayUse,
            SendDealloc, StoreLocation, GiveBack
<1>1. CASE Alloc(t)
  BY <1>1, FreshNonpointerIsa, FreshRawIsa, FreshEntry DEF Alloc
<1>2. CASE RetainBegin(t)
  BY <1>2 DEF RetainBegin
<1>3. CASE ReleaseBegin(t)
  BY <1>3 DEF ReleaseBegin
<1>4. CASE LoadWeak(t)
  BY <1>4 DEF LoadWeak
<1>5. CASE StoreWeakBegin(t)
  BY <1>5 DEF StoreWeakBegin
<1>6. CASE SetAssocBegin(t)
  BY <1>6 DEF SetAssocBegin
<1>7. CASE ChangeIsaBegin(t)
  BY <1>7 DEF ChangeIsaBegin
<1>8. CASE RetainLoad(t)
  BY <1>8 DEF RetainLoad
<1>9. CASE RetainLock(t)
  BY <1>9 DEF RetainLock
<1>10. CASE RetainStore(t)
  BY <1>10, RetainedWord DEF RetainStore, StoreExclusive, StoreFails, OldInv
<1>11. CASE RetainAddExtra(t)
  <2>1. ~freed /\ \A u \in Threads : pc[u] # "free"
    BY <1>11, NotFreeing DEF RetainAddExtra
  <2>2. side' = AddRC(side, RC_HALF) /\ RC_HALF \in Nat
    BY <1>11, RCHalfAssumption DEF RetainAddExtra
  <2>3. /\ side'.deallocating = side.deallocating
        /\ side'.weakly_referenced = side.weakly_referenced
    BY <1>a, <2>2, AddRCEntry
  <2> QED BY <1>11, <2>1, <2>3 DEF RetainAddExtra
<1>12. CASE RetainRaw(t)
  <2>1. ~freed /\ \A u \in Threads : pc[u] # "free"
    BY <1>12, NotFreeing DEF RetainRaw
  <2>2. side' = AddRC(side, 1) /\ 1 \in Nat
    BY <1>12, RCHalfAssumption DEF RetainRaw
  <2>3. /\ side'.deallocating = side.deallocating
        /\ side'.weakly_referenced = side.weakly_referenced
    BY <1>a, <2>2, AddRCEntry
  <2> QED BY <1>12, <2>1, <2>3 DEF RetainRaw
<1>13. CASE TryRetainRaw(t)
  <2>1. ~freed /\ \A u \in Threads : pc[u] # "free"
    BY <1>13, NotFreeing DEF TryRetainRaw
  <2>2. /\ side'.deallocating = side.deallocating
        /\ side'.weakly_referenced = side.weakly_referenced
    <3>1. side' = AddRC(side, 1) \/ side' = side
      BY <1>13 DEF TryRetainRaw
    <3> QED BY <1>a, <3>1, AddRCEntry
  <2> QED BY <1>13, <2>1, <2>2 DEF TryRetainRaw
<1>14. CASE ReleaseLoad(t)
  BY <1>14 DEF ReleaseLoad
<1>15. CASE ReleaseLock(t)
  BY <1>15 DEF ReleaseLock
<1>16. CASE ReleaseStore(t)
  BY <1>16, ReleasedWord
     DEF ReleaseStore, StoreExclusive, StoreFails, OldInv, SameFlags
<1>17. CASE Borrow(t)
  BY <1>17, ZenonT(60) DEF Borrow
<1>18. CASE BorrowStore(t)
  BY <1>18, BorrowedWord
     DEF BorrowStore, StoreExclusive, StoreFails, OldInv, SameFlags
<1>19. CASE BorrowReload(t)
  BY <1>19 DEF BorrowReload
<1>20. CASE BorrowRestore(t)
  BY <1>20, RestoredWord
     DEF BorrowRestore, StoreExclusive, StoreFails, OldInv, SameFlags
<1>21. CASE PutBack(t)
  BY <1>21, AddRCEntry, RCHalfAssumption, ZenonT(60) DEF PutBack, SideEntry
<1>22. CASE DeallocStore(t)
  <2>1. CASE /\ StoreExclusive(t, BeginDealloc(old[t]))
             /\ UnlockIfHeld(t) /\ SendDealloc(t)
    <3>1. deallocator = NoThread /\ ~freed
      BY <1>22, <2>1, LastRelease DEF DeallocStore, StoreExclusive
    <3>2. /\ isa.nonpointer /\ isa'.nonpointer /\ isa'.deallocating
          /\ isa'.weakly_referenced = isa.weakly_referenced
          /\ isa'.has_assoc = isa.has_assoc
      BY <1>22, <2>1, BeginDeallocWord
         DEF DeallocStore, StoreExclusive, OldInv
    <3> QED BY <1>22, <2>1, <3>1, <3>2 DEF DeallocStore
  <2>2. CASE /\ StoreFails(t) /\ Retry(t, "releaseLoad")
             /\ UNCHANGED <<refs, lock, deallocator>>
    BY <1>22, <2>2 DEF DeallocStore, StoreFails
  <2> QED BY <1>22, <2>1, <2>2 DEF DeallocStore
<1>23. CASE ReleaseRaw(t)
  <2>1. ~isa.nonpointer /\ lock = NoThread
    BY <1>23 DEF ReleaseRaw
  <2>2. ~freed /\ \A u \in Threads : pc[u] # "free"
    BY <1>23, NotFreeing DEF ReleaseRaw
  <2>3. CASE side.rc = 0 /\ ~side.deallocating
    <3>1. side' = MarkDeallocating(side)
      BY <1>23, <2>3 DEF ReleaseRaw, MarkDeallocating
    <3>2. /\ side'.deallocating
          /\ side'.weakly_referenced = side.weakly_referenced
      BY <1>a, <3>1, MarkedEntry
    <3>3. deallocator' = t /\ pc' = [pc EXCEPT ![t] = "dealloc"]
      BY <1>23, <2>3 DEF ReleaseRaw
    <3> QED BY <1>23, <2>1, <2>2, <3>2, <3>3 DEF ReleaseRaw
  <2>4. CASE ~(side.rc = 0 /\ ~side.deallocating)
    <3>1. /\ side'.deallocating = side.deallocating
          /\ side'.weakly_referenced = side.weakly_referenced
      BY <1>23, <2>4 DEF ReleaseRaw, SideEntry
    <3> QED BY <1>23, <2>1, <2>2, <2>4, <3>1 DEF ReleaseRaw
  <2> QED BY <2>3, <2>4
<1>24. CASE WeakLock(t)
  BY <1>24 DEF WeakLock
<1>25. CASE StoreWeakLock(t)
  BY <1>25 DEF StoreWeakLock
<1>26. CASE SetWeakLoad(t)
  <2>1. ~freed /\ \A u \in Threads : pc[u] # "free"
    BY <1>26, NotFreeing DEF SetWeakLoad
  <2>2. CASE isa.nonpointer
    BY <1>26, <2>1, <2>2 DEF SetWeakLoad
  <2>3. CASE ~isa.nonpointer
    <3>1. side' = MarkWeak(side)
      BY <1>26, <2>3 DEF SetWeakLoad, MarkWeak
    <3>2. /\ side'.deallocating = side.deallocating
          /\ side'.weakly_referenced
      BY <1>a, <3>1, MarkedEntry
    <3> QED BY <1>26, <2>1, <2>3, <3>2 DEF SetWeakLoad
  <2> QED BY <2>2, <2>3
<1>27. CASE SetWeakStore(t)
  BY <1>27, SetWeakWord DEF SetWeakStore, StoreExclusive, StoreFails, OldInv
<1>28. CASE SetAssocLoad(t)
  BY <1>28 DEF SetAssocLoad
<1>29. CASE SetAssocStore(t)
  BY <1>29, SetAssocWord DEF SetAssocStore, StoreExclusive, StoreFails, OldInv
<1>30. CASE ChangeIsaLoad(t)
  BY <1>30 DEF ChangeIsaLoad
<1>31. CASE ChangeIsaLock(t)
  BY <1>31 DEF ChangeIsaLock
<1>32. CASE ChangeIsaStore(t)
  <2>1. CASE StoreExclusive(t, RawIsa) /\ Goto(t, "changeMove")
    <3>1. /\ isa = old[t] /\ isa.nonpointer /\ ~isa'.nonpointer
          /\ lock = t /\ ~freed
      BY <1>32, <2>1, FreshRawIsa DEF ChangeIsaStore, StoreExclusive, OldInv
    <3>4. /\ lock' = t /\ pc'[t] = "changeMove" /\ old' = old
          /\ side' = side /\ t \in Threads
          /\ ~side.deallocating /\ ~side.weakly_referenced
      BY <1>32, <2>1, <3>1 DEF ChangeIsaStore
    <3>2. (Deallocating' <=> Deallocating) /\ (Marked' <=> Marked)
      BY <3>1, <3>4 DEF IsaBits
    <3>3. /\ \A u \in Threads \ {t} : pc'[u] = pc[u]
          /\ pc'[t] = "changeMove" /\ pc[t] = "changeStore"
      BY <1>32, <2>1 DEF ChangeIsaStore
    <3> QED BY <1>32, <3>1, <3>2, <3>3 DEF ChangeIsaStore
  <2>2. CASE StoreFails(t) /\ Retry(t, "changeLoad")
    BY <1>32, <2>2 DEF ChangeIsaStore, StoreFails
  <2> QED BY <1>32, <2>1, <2>2 DEF ChangeIsaStore
<1>33. CASE ChangeIsaMove(t)
  BY <1>33 DEF ChangeIsaMove
<1>34. CASE RootDealloc(t)
  <2>1. CASE GiveBack(t)
    <3>1. deallocator = t /\ refs = {} /\ ~freed
      BY <1>34 DEF RootDealloc
    <3>2. CASE /\ isa.nonpointer /\ ~isa.weakly_referenced
               /\ ~isa.has_assoc /\ ~isa.has_sidetable_rc
      <4>1. ~location /\ side = NoEntry
        BY <3>1, <3>2
      <4>2. \A u \in Threads \ {t} : pc[u] \in {"idle", "weakLock"}
        BY <3>1, <4>1, Alone
      <4>3. ~assoc
        BY <1>34, <3>2, <4>2 DEF RootDealloc
      <4> QED BY <1>34, <2>1, <3>1, <4>1, <4>2, <4>3 DEF RootDealloc
    <3>3. CASE UNCHANGED <<freed, deallocator>>
      BY <1>34, <2>1, <3>1, <3>3
    <3> QED BY <1>34, <3>2, <3>3 DEF RootDealloc
  <2>2. CASE Goto(t, "dispose") /\ UNCHANGED <<freed, deallocator>>
    BY <1>34, <2>2 DEF RootDealloc
  <2> QED BY <1>34, <2>1, <2>2 DEF RootDealloc
<1>35. CASE Dispose(t)
  BY <1>35 DEF Dispose
<1>36. CASE ClearDeallocating(t)
  BY <1>36 DEF ClearDeallocating
<1>37. CASE ClearDeallocatingLocked(t)
  BY <1>37 DEF ClearDeallocatingLocked
<1>38. CASE Free(t)
  <2>1. deallocator = t /\ refs = {} /\ ~location /\ side = NoEntry /\ ~assoc
    BY <1>38 DEF Free
  <2>2. \A u \in Threads \ {t} : pc[u] \in {"idle", "weakLock"}
    BY <2>1, Alone
  <2> QED BY <1>38, <2>1, <2>2 DEF Free
<1>39. CASE \E u \in Threads : HandOver(t, u)
  BY <1>39 DEF HandOver
<1> QED BY <1>1, <1>2, <1>3, <1>4, <1>5, <1>6, <1>7, <1>8, <1>9, <1>10,
           <1>11, <1>12, <1>13, <1>14, <1>15, <1>16, <1>17, <1>18, <1>19,
           <1>20, <1>21, <1>22, <1>23, <1>24, <1>25, <1>26, <1>27, <1>28,
           <1>29, <1>30, <1>31, <1>32, <1>33, <1>34, <1>35, <1>36, <1>37,
           <1>38, <1>39 DEF Call, Step

-----------------------------------------------------------------------------
(* The counts, wherever they are. *)

LEMMA ChangedRC ==
  ASSUME NEW entry \in SideEntry, NEW n
  PROVE  /\ [entry EXCEPT !.rc = n].rc = n
         /\ n \in Nat => [entry EXCEPT !.rc = n] \in SideEntry
  BY DEF SideEntry

\* What is in transit stays so while its owner stands still, and a thread
\* that is not moving counts puts nothing in transit.
LEMMA TransitKept ==
  ASSUME TypeOK, LockInv, NEW t \in Threads,
         pc[t] \notin Borrowing \cup {"changeMove"},
         pc'[t] \notin Borrowing \cup {"changeMove"},
         \A u \in Threads \ {t} : pc'[u] = pc[u] /\ old'[u] = old[u],
         \/ lock' = lock
         \/ lock = t /\ lock' = NoThread
         \/ lock = NoThread /\ lock' = t
  PROVE  InTransit' = InTransit
  BY NoThreadAssumption DEF TypeOK, InTransit

\* The owner of the lock decides alone.
LEMMA TransitOfOwner ==
  ASSUME NEW t \in Threads, lock = t
  PROVE  InTransit = IF pc[t] \in Borrowing THEN RC_HALF
                     ELSE IF pc[t] = "changeMove" THEN old[t].extra_rc ELSE 0
  BY DEF InTransit

LEMMA TransitNext ==
  ASSUME NEW t \in Threads, lock' = t
  PROVE  InTransit' = IF pc'[t] \in Borrowing THEN RC_HALF
                      ELSE IF pc'[t] = "changeMove" THEN old'[t].extra_rc
                      ELSE 0
  BY DEF InTransit

LEMMA NoTransitNext ==
  ASSUME lock' = NoThread
  PROVE  InTransit' = 0
  BY NoThreadAssumption DEF InTransit

LEMMA TransitNat ==
  ASSUME TypeOK
  PROVE  InTransit \in Nat
  BY RCHalfAssumption DEF TypeOK, InTransit, IsaBits, RC_MAX

LEMMA CountPreserved ==
  ASSUME IInv, NEW t \in Threads, Call(t) \/ Step(t)
  PROVE  CountIsConserved'
<1>a. /\ TypeOK /\ LockInv /\ SideInv
      /\ old[t] \in IsaBits /\ isa \in IsaBits /\ side \in SideEntry
  BY DEF IInv, TypeOK
<1> USE NoThreadAssumption, <1>a
<1> USE DEF IInv, TypeOK, LockInv, CountIsConserved, Borrowing, LockedLabels,
            LoopLabels, Idle, Goto, LoadExclusive,
            Restart, Retry, GoSlow, Return, Lock, UnlockIfHeld, NoArg,
            object, clients, locals, MayUse,
            SendDealloc, StoreLocation, GiveBack
<1>b. /\ Cardinality(refs) \in Nat /\ side.rc \in Nat /\ isa.extra_rc \in Nat
      /\ RC_HALF \in Nat \ {0} /\ InTransit \in Nat
  BY FS_CardinalityType, TransitNat, RCHalfAssumption
     DEF IsaBits, SideEntry, RC_MAX, IInv
<1>1. CASE Alloc(t)
  <2>1. /\ isa'.extra_rc = 0 /\ side' = NoEntry /\ deallocator' = NoThread
        /\ UNCHANGED locals /\ lock' = lock
    BY <1>1, FreshNonpointerIsa, FreshRawIsa DEF Alloc, LifeInv
  <2>2. IsFiniteSet(refs') /\ Cardinality(refs') = 1
    <3>1. PICK n \in Slots : refs' = {<<t, n>>}
      BY <1>1 DEF Alloc
    <3> QED BY <3>1, FS_Singleton
  <2>3. \A u \in Threads : pc'[u] \in {"idle", "weakLock"}
    BY <1>1 DEF Alloc
  <2>4. InTransit' = 0
    BY <2>3 DEF InTransit
  <2>5. side'.rc = 0
    BY <2>1, FreshEntry
  <2> QED BY <2>1, <2>2, <2>4, <2>5
<1>2. CASE RetainBegin(t)
  BY <1>2 DEF RetainBegin, InTransit
<1>3. CASE ReleaseBegin(t)
  BY <1>3 DEF ReleaseBegin, InTransit
<1>4. CASE LoadWeak(t)
  BY <1>4 DEF LoadWeak, InTransit
<1>5. CASE StoreWeakBegin(t)
  BY <1>5 DEF StoreWeakBegin, InTransit
<1>6. CASE SetAssocBegin(t)
  BY <1>6 DEF SetAssocBegin, InTransit
<1>7. CASE ChangeIsaBegin(t)
  BY <1>7 DEF ChangeIsaBegin, InTransit
<1>8. CASE RetainLoad(t)
  BY <1>8 DEF RetainLoad, InTransit
<1>9. CASE RetainLock(t)
  BY <1>9 DEF RetainLock, InTransit
<1>10. CASE RetainStore(t)
  <2>1. CASE /\ StoreExclusive(t, Retained(old[t])) /\ GainRef(t)
             /\ IF old[t].extra_rc = RC_MAX
                THEN Retry(t, "retainAddExtra") /\ UNCHANGED lock
                ELSE Return(t) /\ UnlockIfHeld(t)
    <3>1. /\ isa = old[t] /\ pc[t] = "retainStore"
          /\ isa'.extra_rc = IF isa.extra_rc = RC_MAX THEN RC_HALF
                             ELSE isa.extra_rc + 1
      BY <1>10, <2>1, RetainedWord DEF RetainStore, StoreExclusive
    <3>2. /\ Cardinality(refs') = Cardinality(refs) + 1
          /\ UNCHANGED <<side, deallocator, freed>>
      BY <1>10, <2>1, GainRefFrame DEF RetainStore
    <3>3. CASE old[t].extra_rc = RC_MAX
      <4>1. lock = t /\ lock' = t /\ pc'[t] = "retainAddExtra"
        BY <2>1, <3>1, <3>3 DEF OldInv
      <4>2. InTransit = 0 /\ InTransit' = RC_HALF
        BY <3>1, <4>1, TransitOfOwner, TransitNext
      <4>3. isa.extra_rc = 2 * RC_HALF - 1 /\ isa'.extra_rc = RC_HALF
        BY <3>1, <3>3 DEF RC_MAX
      <4> QED BY <1>b, <3>2, <4>2, <4>3
    <3>4. CASE old[t].extra_rc # RC_MAX
      <4>1. Return(t) /\ UnlockIfHeld(t)
        BY <2>1, <3>4
      <4>2. InTransit' = InTransit
        BY <3>1, <4>1, TransitKept
      <4> QED BY <1>b, <3>1, <3>2, <3>4, <4>2
    <3> QED BY <3>3, <3>4
  <2>2. CASE /\ StoreFails(t) /\ Retry(t, "retainLoad")
             /\ UNCHANGED <<refs, lock>>
    <3>1. InTransit' = InTransit
      BY <1>10, <2>2, TransitKept DEF RetainStore
    <3> QED BY <1>10, <2>2, <3>1 DEF RetainStore, StoreFails
  <2> QED BY <1>10, <2>1, <2>2 DEF RetainStore
<1>11. CASE RetainAddExtra(t)
  <2>1. lock = t /\ side' = AddRC(side, RC_HALF)
    BY <1>11 DEF RetainAddExtra
  <2>2. InTransit = RC_HALF
    BY <1>11, <2>1, TransitOfOwner DEF RetainAddExtra
  <2>3. InTransit' = 0
    BY <1>11, <2>1, NoTransitNext DEF RetainAddExtra
  <2>4. side'.rc = side.rc + RC_HALF
    BY <1>a, <1>b, <2>1, AddRCEntry
  <2>5. UNCHANGED <<isa, clients>>
    BY <1>11 DEF RetainAddExtra
  <2> QED BY <1>b, <2>2, <2>3, <2>4, <2>5
<1>12. CASE RetainRaw(t)
  <2>1. side' = AddRC(side, 1) /\ GainRef(t) /\ UNCHANGED <<isa, deallocator,
      freed>>
    BY <1>12 DEF RetainRaw
  <2>2. side'.rc = side.rc + 1
    BY <1>a, <2>1, AddRCEntry
  <2>3. Cardinality(refs') = Cardinality(refs) + 1
    BY <2>1, GainRefFrame
  <2>4. InTransit' = InTransit
    BY <1>12, TransitKept DEF RetainRaw
  <2> QED BY <1>b, <2>1, <2>2, <2>3, <2>4
<1>13. CASE TryRetainRaw(t)
  <2>1. InTransit' = InTransit
    BY <1>13, TransitKept DEF TryRetainRaw
  <2>2. UNCHANGED <<isa, deallocator, freed>>
    BY <1>13 DEF TryRetainRaw
  <2>3. CASE UNCHANGED <<side, refs>>
    BY <2>1, <2>2, <2>3
  <2>4. CASE side' = AddRC(side, 1) /\ GainRef(t)
    <3>1. side'.rc = side.rc + 1
      BY <1>a, <2>4, AddRCEntry
    <3>2. Cardinality(refs') = Cardinality(refs) + 1
      BY <2>4, GainRefFrame
    <3> QED BY <1>b, <2>1, <2>2, <3>1, <3>2
  <2> QED BY <1>13, <2>3, <2>4 DEF TryRetainRaw
<1>14. CASE ReleaseLoad(t)
  BY <1>14 DEF ReleaseLoad, InTransit
<1>15. CASE ReleaseLock(t)
  BY <1>15 DEF ReleaseLock, InTransit
<1>16. CASE ReleaseStore(t)
  <2>1. CASE /\ StoreExclusive(t, Released(old[t]))
             /\ DropRef(t) /\ UnlockIfHeld(t) /\ Return(t)
    <3>1. isa'.extra_rc = isa.extra_rc - 1 /\ isa = old[t]
      BY <1>16, <2>1, ReleasedWord DEF ReleaseStore, StoreExclusive, OldInv
    <3>2. /\ Cardinality(refs') \in Nat
          /\ Cardinality(refs) = Cardinality(refs') + 1
      BY <2>1, DropRefFrame DEF IInv, TypeOK
    <3>3. pc[t] = "releaseStore" /\ pc'[t] \in {"idle", "dealloc"}
      BY <1>16, <2>1 DEF ReleaseStore
    <3>4. \/ lock' = lock
          \/ lock = t /\ lock' = NoThread
      BY <1>16, <2>1 DEF ReleaseStore
    <3>5. InTransit' = InTransit
      BY <1>16, <2>1, <3>3, <3>4, TransitKept, ReturnFrame DEF ReleaseStore
    <3>6. UNCHANGED <<side, deallocator, freed>>
      BY <1>16 DEF ReleaseStore
    <3>7. isa.extra_rc > 0
      BY <1>16, <3>1 DEF ReleaseStore, OldInv
    <3> QED BY <1>b, <3>1, <3>2, <3>3, <3>5, <3>6, <3>7, SMTT(60)
  <2>2. CASE /\ StoreFails(t) /\ UNCHANGED <<refs, lock>>
             /\ Retry(t, "releaseLoad")
    <3>1. InTransit' = InTransit
      BY <1>16, <2>2, TransitKept DEF ReleaseStore
    <3> QED BY <1>16, <2>2, <3>1 DEF ReleaseStore, StoreFails
  <2> QED BY <1>16, <2>1, <2>2 DEF ReleaseStore
<1>17. CASE Borrow(t)
  <2>1. lock = t /\ pc[t] = "borrow" /\ UNCHANGED <<isa, clients>>
    BY <1>17 DEF Borrow
  <2>2. InTransit = 0
    BY <2>1, TransitOfOwner
  <2>3. CASE side.rc > 0
    <3>1. /\ lock' = t /\ pc'[t] = "borrowStore"
          /\ side' = [side EXCEPT !.rc = side.rc - RC_HALF]
      BY <1>17, <2>1, <2>3 DEF Borrow
    <3>2. InTransit' = RC_HALF
      BY <3>1, TransitNext
    <3>3. side'.rc = side.rc - RC_HALF
      BY <1>a, <1>b, <3>1 DEF SideEntry
    <3> QED BY <1>b, <2>1, <2>2, <3>2, <3>3
  <2>4. CASE side.rc = 0
    <3>1. UNCHANGED side /\ pc'[t] \in {"overrelease", "deallocStore"}
      BY <1>17, <2>4 DEF Borrow
    <3>2. InTransit' = 0
      BY <1>17, <2>1, <2>4, <3>1, TransitNext, NoTransitNext DEF Borrow
    <3> QED BY <2>1, <2>2, <2>4, <3>1, <3>2
  <2> QED BY <1>b, <2>3, <2>4
<1>18. CASE BorrowStore(t)
  <2>1. CASE /\ StoreExclusive(t, Borrowed(old[t]))
             /\ DropRef(t) /\ UnlockIfHeld(t) /\ Return(t)
    <3>1. isa'.extra_rc = RC_HALF - 1 /\ isa = old[t]
      BY <1>18, <2>1, BorrowedWord DEF BorrowStore, StoreExclusive, OldInv
    <3>2. /\ Cardinality(refs') \in Nat
          /\ Cardinality(refs) = Cardinality(refs') + 1
      BY <2>1, DropRefFrame DEF IInv, TypeOK
    <3>3. InTransit = RC_HALF
      BY <1>18, TransitOfOwner DEF BorrowStore
    <3>4. lock' = NoThread
      BY <1>18, <2>1 DEF BorrowStore
    <3>5. InTransit' = 0
      BY <3>4, NoTransitNext
    <3>6. UNCHANGED <<side, deallocator, freed>>
      BY <1>18 DEF BorrowStore
    <3>7. isa.extra_rc = 0
      BY <1>18, <3>1 DEF BorrowStore, OldInv
    <3> QED BY <1>b, <3>1, <3>2, <3>3, <3>5, <3>6, <3>7, SMTT(60)
  <2>2. CASE /\ StoreFails(t) /\ UNCHANGED <<refs, lock>>
             /\ Retry(t, "borrowReload")
    <3>1. InTransit' = InTransit
      <4>1. lock = t /\ lock' = t
        BY <1>18, <2>2 DEF BorrowStore
      <4>2. pc[t] \in Borrowing /\ pc'[t] \in Borrowing
        BY <1>18, <2>2 DEF BorrowStore
      <4> HIDE DEF Borrowing
      <4> QED BY <4>1, <4>2, TransitOfOwner, TransitNext
    <3> QED BY <1>18, <2>2, <3>1 DEF BorrowStore, StoreFails
  <2> QED BY <1>18, <2>1, <2>2 DEF BorrowStore
<1>19. CASE BorrowReload(t)
  BY <1>19 DEF BorrowReload, InTransit
<1>20. CASE BorrowRestore(t)
  <2>1. CASE /\ StoreExclusive(t, Restored(old[t]))
             /\ DropRef(t) /\ UnlockIfHeld(t) /\ Return(t)
    <3>1. isa'.extra_rc = isa.extra_rc + (RC_HALF - 1) /\ isa = old[t]
      BY <1>20, <2>1, RestoredWord DEF BorrowRestore, StoreExclusive, OldInv
    <3>2. /\ Cardinality(refs') \in Nat
          /\ Cardinality(refs) = Cardinality(refs') + 1
      BY <2>1, DropRefFrame DEF IInv, TypeOK
    <3>3. InTransit = RC_HALF
      BY <1>20, TransitOfOwner DEF BorrowRestore
    <3>4. lock' = NoThread
      BY <1>20, <2>1 DEF BorrowRestore
    <3>5. InTransit' = 0
      BY <3>4, NoTransitNext
    <3>6. UNCHANGED <<side, deallocator, freed>>
      BY <1>20 DEF BorrowRestore
    <3>7. TRUE
      BY <1>20, <3>1 DEF BorrowRestore, OldInv
    <3> QED BY <1>b, <3>1, <3>2, <3>3, <3>5, <3>6, <3>7
  <2>2. CASE /\ StoreFails(t) /\ UNCHANGED <<refs, lock>>
             /\ Retry(t, "putBack")
    <3>1. InTransit' = InTransit
      <4>1. lock = t /\ lock' = t
        BY <1>20, <2>2 DEF BorrowRestore
      <4>2. pc[t] \in Borrowing /\ pc'[t] \in Borrowing
        BY <1>20, <2>2 DEF BorrowRestore
      <4> HIDE DEF Borrowing
      <4> QED BY <4>1, <4>2, TransitOfOwner, TransitNext
    <3> QED BY <1>20, <2>2, <3>1 DEF BorrowRestore, StoreFails
  <2> QED BY <1>20, <2>1, <2>2 DEF BorrowRestore
<1>21. CASE PutBack(t)
  <2>1. lock = t /\ side' = AddRC(side, RC_HALF)
    BY <1>21 DEF PutBack
  <2>2. InTransit = RC_HALF
    BY <1>21, <2>1, TransitOfOwner DEF PutBack
  <2>3. InTransit' = 0
    <3>1. lock' = t /\ pc'[t] = "releaseLoad"
      BY <1>21, <2>1 DEF PutBack
    <3> QED BY <3>1, TransitNext
  <2>4. side'.rc = side.rc + RC_HALF
    BY <1>a, <1>b, <2>1, AddRCEntry
  <2>5. UNCHANGED <<isa, clients>>
    BY <1>21 DEF PutBack
  <2> QED BY <1>b, <2>2, <2>3, <2>4, <2>5
<1>22. CASE DeallocStore(t)
  <2>1. CASE /\ StoreExclusive(t, BeginDealloc(old[t])) /\ DropRef(t)
             /\ UnlockIfHeld(t) /\ SendDealloc(t)
    <3>1. isa = old[t] /\ isa'.extra_rc = isa.extra_rc
      BY <1>22, <2>1, BeginDeallocWord DEF DeallocStore, StoreExclusive
    <3>2. deallocator = NoThread /\ deallocator' # NoThread
      BY <1>22, <2>1, <3>1, LastRelease DEF DeallocStore
    <3>3. /\ Cardinality(refs') \in Nat
          /\ Cardinality(refs) = Cardinality(refs') + 1
      BY <2>1, DropRefFrame DEF IInv, TypeOK
    <3>4. InTransit' = InTransit
      BY <1>22, <2>1, TransitKept DEF DeallocStore
    <3>5. UNCHANGED <<side, freed>>
      BY <1>22 DEF DeallocStore
    <3> QED BY <1>b, <3>1, <3>2, <3>3, <3>4, <3>5
  <2>2. CASE /\ StoreFails(t) /\ Retry(t, "releaseLoad")
             /\ UNCHANGED <<refs, lock, deallocator>>
    <3>1. InTransit' = InTransit
      BY <1>22, <2>2, TransitKept DEF DeallocStore
    <3> QED BY <1>22, <2>2, <3>1 DEF DeallocStore, StoreFails
  <2> QED BY <1>22, <2>1, <2>2 DEF DeallocStore
<1>23. CASE ReleaseRaw(t)
  <2>1. DropRef(t) /\ lock = NoThread /\ UNCHANGED <<isa, freed>>
    BY <1>23 DEF ReleaseRaw
  <2>2. /\ Cardinality(refs') \in Nat
        /\ Cardinality(refs) = Cardinality(refs') + 1
    BY <2>1, DropRefFrame DEF IInv, TypeOK
  <2>3. InTransit' = InTransit
    BY <1>23, TransitKept DEF ReleaseRaw
  <2>4. CASE side.rc = 0 /\ ~side.deallocating
    <3>1. side' = MarkDeallocating(side) /\ deallocator' # NoThread
      BY <1>23, <2>4 DEF ReleaseRaw, MarkDeallocating
    <3>2. side'.rc = side.rc
      BY <1>a, <3>1, MarkedEntry
    <3>3. deallocator = NoThread
      BY <1>23, <2>4, LastRawRelease DEF ReleaseRaw
    <3> QED BY <1>b, <2>1, <2>2, <2>3, <3>1, <3>2, <3>3
  <2>5. CASE ~(side.rc = 0 /\ ~side.deallocating)
    <3>1. side' = [side EXCEPT !.rc = side.rc - 1] /\ UNCHANGED deallocator
      BY <1>23, <2>5 DEF ReleaseRaw
    <3>2. side'.rc = side.rc - 1
      BY <1>a, <3>1, ChangedRC
    <3>3. UNCHANGED deallocator
      BY <3>1
    <3>4. side'.rc \in Int /\ UNCHANGED <<freed, deallocator, isa>>
      BY <1>b, <2>1, <3>2, <3>3
    <3>5. CASE deallocator = NoThread
      BY <1>b, <2>2, <2>3, <3>2, <3>4, <3>5, SMTT(60)
    <3>6. CASE deallocator # NoThread
      BY <1>b, <2>2, <2>3, <3>2, <3>4, <3>6
    <3> QED BY <3>5, <3>6
  <2> QED BY <2>4, <2>5
<1>24. CASE WeakLock(t)
  BY <1>24 DEF WeakLock, InTransit
<1>25. CASE StoreWeakLock(t)
  BY <1>25 DEF StoreWeakLock, InTransit
<1>26. CASE SetWeakLoad(t)
  <2>1. InTransit' = InTransit
    BY <1>26, TransitKept DEF SetWeakLoad
  <2>2. UNCHANGED <<isa, clients>>
    BY <1>26 DEF SetWeakLoad
  <2>3. side'.rc = side.rc
    <3>1. side' = MarkWeak(side) \/ side' = side
      BY <1>26 DEF SetWeakLoad, MarkWeak
    <3> QED BY <1>a, <3>1, MarkedEntry
  <2> QED BY <2>1, <2>2, <2>3
<1>27. CASE SetWeakStore(t)
  BY <1>27, SetWeakWord
     DEF SetWeakStore, StoreExclusive, StoreFails, InTransit, OldInv
<1>28. CASE SetAssocLoad(t)
  BY <1>28 DEF SetAssocLoad, InTransit
<1>29. CASE SetAssocStore(t)
  BY <1>29, SetAssocWord
     DEF SetAssocStore, StoreExclusive, StoreFails, InTransit, OldInv
<1>30. CASE ChangeIsaLoad(t)
  BY <1>30 DEF ChangeIsaLoad, InTransit
<1>31. CASE ChangeIsaLock(t)
  BY <1>31 DEF ChangeIsaLock, InTransit
<1>32. CASE ChangeIsaStore(t)
  <2>1. lock = t /\ lock' = t /\ UNCHANGED <<side, clients>>
    BY <1>32 DEF ChangeIsaStore
  <2>2. InTransit = 0
    BY <1>32, <2>1, TransitOfOwner DEF ChangeIsaStore
  <2>3. CASE StoreExclusive(t, RawIsa) /\ Goto(t, "changeMove")
    <3>1. isa = old[t] /\ isa'.extra_rc = 0
      BY <2>3, FreshRawIsa DEF StoreExclusive
    <3>2. pc'[t] = "changeMove" /\ old' = old
      BY <2>3
    <3>3. InTransit' = isa.extra_rc
      BY <2>1, <3>1, <3>2, TransitNext
    <3> QED BY <1>b, <2>1, <2>2, <3>1, <3>3
  <2>4. CASE StoreFails(t) /\ Retry(t, "changeLoad")
    <3>1. pc'[t] = "changeLoad"
      BY <2>4
    <3>2. InTransit' = 0
      BY <2>1, <3>1, TransitNext
    <3> QED BY <2>1, <2>2, <2>4, <3>2 DEF StoreFails
  <2> QED BY <1>32, <2>3, <2>4 DEF ChangeIsaStore
<1>33. CASE ChangeIsaMove(t)
  <2>1. lock = t /\ lock' = NoThread /\ pc[t] = "changeMove"
        /\ UNCHANGED <<isa, clients>>
    BY <1>33 DEF ChangeIsaMove
  <2>2. InTransit = old[t].extra_rc /\ InTransit' = 0
    BY <2>1, TransitOfOwner, NoTransitNext
  <2>3. side'.rc = side.rc + old[t].extra_rc
    BY <1>33 DEF ChangeIsaMove
  <2> QED BY <1>b, <2>1, <2>2, <2>3, SMTT(60)
<1>34. CASE RootDealloc(t)
  BY <1>34 DEF RootDealloc, InTransit
<1>35. CASE Dispose(t)
  BY <1>35 DEF Dispose, InTransit
<1>36. CASE ClearDeallocating(t)
  BY <1>36 DEF ClearDeallocating, InTransit
<1>37. CASE ClearDeallocatingLocked(t)
  <2>1. /\ deallocator = t /\ refs = {} /\ ~freed /\ lock = NoThread
        /\ UNCHANGED <<isa, lock, clients>>
    BY <1>37 DEF ClearDeallocatingLocked, ClientInv, DisposeLabels, LifeInv
  <2>2. InTransit = 0 /\ InTransit' = 0
    BY <2>1, NoTransitNext DEF InTransit
  <2>3. side.rc = 0 /\ isa.extra_rc = 0
    BY <1>b, <2>1, <2>2, FS_EmptySet, SMTT(60)
  <2>4. side'.rc = 0
    BY <1>37, <2>3, FreshEntry DEF ClearDeallocatingLocked
  <2> QED BY <2>1, <2>2, <2>3, <2>4
<1>38. CASE Free(t)
  BY <1>38 DEF Free, InTransit
<1>39. CASE \E u \in Threads : HandOver(t, u)
  <2>1. PICK u \in Threads : HandOver(t, u)
    BY <1>39
  <2>2. PICK n \in Slots, m \in Slots :
          /\ <<t, n>> \in refs /\ <<u, m>> \notin refs
          /\ refs' = (refs \ {<<t, n>>}) \cup {<<u, m>>}
    BY <2>1 DEF HandOver
  <2>3. Cardinality(refs') = Cardinality(refs)
    <3> DEFINE rest == refs \ {<<t, n>>}
    <3>1. IsFiniteSet(rest) /\ Cardinality(rest) = Cardinality(refs) - 1
      BY <2>2, FS_RemoveElement DEF IInv
    <3>2. <<u, m>> \notin rest
      BY <2>2
    <3> HIDE DEF rest
    <3>3. Cardinality(rest \cup {<<u, m>>}) = Cardinality(rest) + 1
      BY <3>1, <3>2, FS_AddElement
    <3> QED BY <1>b, <2>2, <3>1, <3>3 DEF rest
  <2>4. UNCHANGED <<object, lock, locals, deallocator, freed>>
    BY <2>1 DEF HandOver
  <2>5. InTransit' = InTransit
    BY <2>4 DEF InTransit
  <2> QED BY <2>3, <2>4, <2>5
<1> QED BY <1>1, <1>2, <1>3, <1>4, <1>5, <1>6, <1>7, <1>8, <1>9, <1>10,
           <1>11, <1>12, <1>13, <1>14, <1>15, <1>16, <1>17, <1>18, <1>19,
           <1>20, <1>21, <1>22, <1>23, <1>24, <1>25, <1>26, <1>27, <1>28,
           <1>29, <1>30, <1>31, <1>32, <1>33, <1>34, <1>35, <1>36, <1>37,
           <1>38, <1>39 DEF Call, Step

-----------------------------------------------------------------------------
(* Types. *)

LEMMA LocalTypes ==
  ASSUME TypeOK, NEW t \in Threads, Call(t) \/ Step(t)
  PROVE  /\ pc' \in [Threads -> Labels]
         /\ old' \in [Threads -> IsaBits]
         /\ arg' \in [Threads -> [tryRetain : BOOLEAN, slow : BOOLEAN]]
<1>a. /\ pc \in [Threads -> Labels] /\ old \in [Threads -> IsaBits]
      /\ arg \in [Threads -> [tryRetain : BOOLEAN, slow : BOOLEAN]]
      /\ NoArg \in [tryRetain : BOOLEAN, slow : BOOLEAN]
  BY DEF TypeOK, NoArg
<1> USE <1>a, RestartFrame, RetryFrame, GoSlowFrame, GotoFrame, LoadFrame,
        ReturnFrame
<1> USE DEF Labels, Idle, locals, SendDealloc, GiveBack, StoreLocation
<1>1. CASE Alloc(t)
  BY <1>1 DEF Alloc
<1>2. CASE RetainBegin(t)
  BY <1>2, ZenonT(60) DEF RetainBegin
<1>3. CASE ReleaseBegin(t)
  BY <1>3, ZenonT(60) DEF ReleaseBegin
<1>4. CASE LoadWeak(t)
  BY <1>4 DEF LoadWeak
<1>5. CASE StoreWeakBegin(t)
  BY <1>5, ZenonT(60) DEF StoreWeakBegin
<1>6. CASE SetAssocBegin(t)
  BY <1>6 DEF SetAssocBegin
<1>7. CASE ChangeIsaBegin(t)
  BY <1>7, ZenonT(60) DEF ChangeIsaBegin
<1>8. CASE RetainLoad(t)
  BY <1>8 DEF RetainLoad
<1>9. CASE RetainLock(t)
  BY <1>9 DEF RetainLock
<1>10. CASE RetainStore(t)
  BY <1>10 DEF RetainStore
<1>11. CASE RetainAddExtra(t)
  BY <1>11 DEF RetainAddExtra
<1>12. CASE RetainRaw(t)
  BY <1>12 DEF RetainRaw
<1>13. CASE TryRetainRaw(t)
  BY <1>13 DEF TryRetainRaw
<1>14. CASE ReleaseLoad(t)
  BY <1>14 DEF ReleaseLoad
<1>15. CASE ReleaseLock(t)
  BY <1>15 DEF ReleaseLock
<1>16. CASE ReleaseStore(t)
  BY <1>16 DEF ReleaseStore
<1>17. CASE Borrow(t)
  BY <1>17 DEF Borrow
<1>18. CASE BorrowStore(t)
  BY <1>18 DEF BorrowStore
<1>19. CASE BorrowReload(t)
  BY <1>19 DEF BorrowReload
<1>20. CASE BorrowRestore(t)
  BY <1>20 DEF BorrowRestore
<1>21. CASE PutBack(t)
  BY <1>21 DEF PutBack
<1>22. CASE DeallocStore(t)
  BY <1>22 DEF DeallocStore
<1>23. CASE ReleaseRaw(t)
  BY <1>23 DEF ReleaseRaw
<1>24. CASE WeakLock(t)
  <2>1. CASE Restart(t, "retainLoad", [NoArg EXCEPT !.tryRetain = TRUE])
    <3>1. [NoArg EXCEPT !.tryRetain = TRUE]
            \in [tryRetain : BOOLEAN, slow : BOOLEAN]
      BY DEF NoArg
    <3> QED BY <2>1, <3>1, RestartFrame
  <2>2. CASE Return(t)
    BY <2>2, ReturnFrame
  <2> QED BY <1>24, <2>1, <2>2 DEF WeakLock
<1>25. CASE StoreWeakLock(t)
  BY <1>25 DEF StoreWeakLock
<1>26. CASE SetWeakLoad(t)
  BY <1>26 DEF SetWeakLoad
<1>27. CASE SetWeakStore(t)
  BY <1>27 DEF SetWeakStore
<1>28. CASE SetAssocLoad(t)
  BY <1>28 DEF SetAssocLoad
<1>29. CASE SetAssocStore(t)
  BY <1>29 DEF SetAssocStore
<1>30. CASE ChangeIsaLoad(t)
  BY <1>30 DEF ChangeIsaLoad
<1>31. CASE ChangeIsaLock(t)
  BY <1>31 DEF ChangeIsaLock
<1>32. CASE ChangeIsaStore(t)
  BY <1>32 DEF ChangeIsaStore
<1>33. CASE ChangeIsaMove(t)
  BY <1>33 DEF ChangeIsaMove
<1>34. CASE RootDealloc(t)
  BY <1>34 DEF RootDealloc
<1>35. CASE Dispose(t)
  BY <1>35 DEF Dispose
<1>36. CASE ClearDeallocating(t)
  BY <1>36 DEF ClearDeallocating
<1>37. CASE ClearDeallocatingLocked(t)
  BY <1>37 DEF ClearDeallocatingLocked
<1>38. CASE Free(t)
  BY <1>38 DEF Free
<1>39. CASE \E u \in Threads : HandOver(t, u)
  BY <1>39 DEF HandOver
<1> QED BY <1>1, <1>2, <1>3, <1>4, <1>5, <1>6, <1>7, <1>8, <1>9, <1>10,
           <1>11, <1>12, <1>13, <1>14, <1>15, <1>16, <1>17, <1>18, <1>19,
           <1>20, <1>21, <1>22, <1>23, <1>24, <1>25, <1>26, <1>27, <1>28,
           <1>29, <1>30, <1>31, <1>32, <1>33, <1>34, <1>35, <1>36, <1>37,
           <1>38, <1>39 DEF Call, Step

LEMMA SharedTypes ==
  ASSUME TypeOK, NEW t \in Threads, Call(t) \/ Step(t)
  PROVE  /\ lock' \in Threads \cup {NoThread}
         /\ deallocator' \in Threads \cup {NoThread}
         /\ location' \in BOOLEAN /\ assoc' \in BOOLEAN /\ freed' \in BOOLEAN
<1>a. /\ lock \in Threads \cup {NoThread}
      /\ deallocator \in Threads \cup {NoThread}
      /\ location \in BOOLEAN /\ assoc \in BOOLEAN /\ freed \in BOOLEAN
  BY DEF TypeOK
<1> USE <1>a
<1> USE DEF Lock, UnlockIfHeld, clients, SendDealloc, GiveBack, StoreLocation
<1>1. CASE Alloc(t)
  BY <1>1 DEF Alloc
<1>2. CASE RetainBegin(t)
  BY <1>2 DEF RetainBegin
<1>3. CASE ReleaseBegin(t)
  BY <1>3 DEF ReleaseBegin
<1>4. CASE LoadWeak(t)
  BY <1>4 DEF LoadWeak
<1>5. CASE StoreWeakBegin(t)
  BY <1>5 DEF StoreWeakBegin
<1>6. CASE SetAssocBegin(t)
  BY <1>6 DEF SetAssocBegin
<1>7. CASE ChangeIsaBegin(t)
  BY <1>7 DEF ChangeIsaBegin
<1>8. CASE RetainLoad(t)
  BY <1>8 DEF RetainLoad
<1>9. CASE RetainLock(t)
  BY <1>9 DEF RetainLock
<1>10. CASE RetainStore(t)
  BY <1>10 DEF RetainStore
<1>11. CASE RetainAddExtra(t)
  BY <1>11 DEF RetainAddExtra
<1>12. CASE RetainRaw(t)
  BY <1>12 DEF RetainRaw
<1>13. CASE TryRetainRaw(t)
  BY <1>13 DEF TryRetainRaw
<1>14. CASE ReleaseLoad(t)
  BY <1>14 DEF ReleaseLoad
<1>15. CASE ReleaseLock(t)
  BY <1>15 DEF ReleaseLock
<1>16. CASE ReleaseStore(t)
  BY <1>16 DEF ReleaseStore
<1>17. CASE Borrow(t)
  BY <1>17 DEF Borrow
<1>18. CASE BorrowStore(t)
  BY <1>18 DEF BorrowStore
<1>19. CASE BorrowReload(t)
  BY <1>19 DEF BorrowReload
<1>20. CASE BorrowRestore(t)
  BY <1>20 DEF BorrowRestore
<1>21. CASE PutBack(t)
  BY <1>21 DEF PutBack
<1>22. CASE DeallocStore(t)
  BY <1>22 DEF DeallocStore
<1>23. CASE ReleaseRaw(t)
  BY <1>23 DEF ReleaseRaw
<1>24. CASE WeakLock(t)
  BY <1>24 DEF WeakLock
<1>25. CASE StoreWeakLock(t)
  BY <1>25 DEF StoreWeakLock
<1>26. CASE SetWeakLoad(t)
  BY <1>26 DEF SetWeakLoad
<1>27. CASE SetWeakStore(t)
  BY <1>27 DEF SetWeakStore
<1>28. CASE SetAssocLoad(t)
  BY <1>28 DEF SetAssocLoad
<1>29. CASE SetAssocStore(t)
  BY <1>29 DEF SetAssocStore
<1>30. CASE ChangeIsaLoad(t)
  BY <1>30 DEF ChangeIsaLoad
<1>31. CASE ChangeIsaLock(t)
  BY <1>31 DEF ChangeIsaLock
<1>32. CASE ChangeIsaStore(t)
  BY <1>32 DEF ChangeIsaStore
<1>33. CASE ChangeIsaMove(t)
  BY <1>33 DEF ChangeIsaMove
<1>34. CASE RootDealloc(t)
  BY <1>34 DEF RootDealloc
<1>35. CASE Dispose(t)
  BY <1>35 DEF Dispose
<1>36. CASE ClearDeallocating(t)
  BY <1>36 DEF ClearDeallocating
<1>37. CASE ClearDeallocatingLocked(t)
  BY <1>37 DEF ClearDeallocatingLocked
<1>38. CASE Free(t)
  BY <1>38 DEF Free
<1>39. CASE \E u \in Threads : HandOver(t, u)
  BY <1>39 DEF HandOver
<1> QED BY <1>1, <1>2, <1>3, <1>4, <1>5, <1>6, <1>7, <1>8, <1>9, <1>10,
           <1>11, <1>12, <1>13, <1>14, <1>15, <1>16, <1>17, <1>18, <1>19,
           <1>20, <1>21, <1>22, <1>23, <1>24, <1>25, <1>26, <1>27, <1>28,
           <1>29, <1>30, <1>31, <1>32, <1>33, <1>34, <1>35, <1>36, <1>37,
           <1>38, <1>39 DEF Call, Step

LEMMA RefsTypes ==
  ASSUME TypeOK, IsFiniteSet(refs), NEW t \in Threads, Call(t) \/ Step(t)
  PROVE  refs' \subseteq Refs /\ IsFiniteSet(refs')
<1> USE GainRefFrame, DropRefFrame
<1> USE DEF TypeOK, clients
<1>1. CASE Alloc(t)
  <2>1. PICK n \in Slots : refs' = {<<t, n>>}
    BY <1>1 DEF Alloc
  <2>2. <<t, n>> \in Threads \X Slots
    OBVIOUS
  <2>3. IsFiniteSet({<<t, n>>})
    BY FS_Singleton
  <2> QED BY <2>1, <2>2, <2>3 DEF Refs
<1>2. CASE RetainBegin(t)
  BY <1>2 DEF RetainBegin
<1>3. CASE ReleaseBegin(t)
  BY <1>3 DEF ReleaseBegin
<1>4. CASE LoadWeak(t)
  BY <1>4 DEF LoadWeak
<1>5. CASE StoreWeakBegin(t)
  BY <1>5 DEF StoreWeakBegin
<1>6. CASE SetAssocBegin(t)
  BY <1>6 DEF SetAssocBegin
<1>7. CASE ChangeIsaBegin(t)
  BY <1>7 DEF ChangeIsaBegin
<1>8. CASE RetainLoad(t)
  BY <1>8 DEF RetainLoad
<1>9. CASE RetainLock(t)
  BY <1>9 DEF RetainLock
<1>10. CASE RetainStore(t)
  BY <1>10 DEF RetainStore
<1>11. CASE RetainAddExtra(t)
  BY <1>11 DEF RetainAddExtra
<1>12. CASE RetainRaw(t)
  BY <1>12 DEF RetainRaw
<1>13. CASE TryRetainRaw(t)
  BY <1>13 DEF TryRetainRaw
<1>14. CASE ReleaseLoad(t)
  BY <1>14 DEF ReleaseLoad
<1>15. CASE ReleaseLock(t)
  BY <1>15 DEF ReleaseLock
<1>16. CASE ReleaseStore(t)
  BY <1>16 DEF ReleaseStore
<1>17. CASE Borrow(t)
  BY <1>17 DEF Borrow
<1>18. CASE BorrowStore(t)
  BY <1>18 DEF BorrowStore
<1>19. CASE BorrowReload(t)
  BY <1>19 DEF BorrowReload
<1>20. CASE BorrowRestore(t)
  BY <1>20 DEF BorrowRestore
<1>21. CASE PutBack(t)
  BY <1>21 DEF PutBack
<1>22. CASE DeallocStore(t)
  BY <1>22 DEF DeallocStore
<1>23. CASE ReleaseRaw(t)
  BY <1>23 DEF ReleaseRaw
<1>24. CASE WeakLock(t)
  BY <1>24 DEF WeakLock
<1>25. CASE StoreWeakLock(t)
  BY <1>25 DEF StoreWeakLock
<1>26. CASE SetWeakLoad(t)
  BY <1>26 DEF SetWeakLoad
<1>27. CASE SetWeakStore(t)
  BY <1>27 DEF SetWeakStore
<1>28. CASE SetAssocLoad(t)
  BY <1>28 DEF SetAssocLoad
<1>29. CASE SetAssocStore(t)
  BY <1>29 DEF SetAssocStore
<1>30. CASE ChangeIsaLoad(t)
  BY <1>30 DEF ChangeIsaLoad
<1>31. CASE ChangeIsaLock(t)
  BY <1>31 DEF ChangeIsaLock
<1>32. CASE ChangeIsaStore(t)
  BY <1>32 DEF ChangeIsaStore
<1>33. CASE ChangeIsaMove(t)
  BY <1>33 DEF ChangeIsaMove
<1>34. CASE RootDealloc(t)
  BY <1>34 DEF RootDealloc
<1>35. CASE Dispose(t)
  BY <1>35 DEF Dispose
<1>36. CASE ClearDeallocating(t)
  BY <1>36 DEF ClearDeallocating
<1>37. CASE ClearDeallocatingLocked(t)
  BY <1>37 DEF ClearDeallocatingLocked
<1>38. CASE Free(t)
  BY <1>38 DEF Free
<1>39. CASE \E u \in Threads : HandOver(t, u)
  <2>1. PICK u \in Threads : HandOver(t, u)
    BY <1>39
  <2>2. PICK n \in Slots, m \in Slots :
          refs' = (refs \ {<<t, n>>}) \cup {<<u, m>>}
    BY <2>1 DEF HandOver
  <2>3. IsFiniteSet(refs \ {<<t, n>>})
    BY FS_RemoveElement
  <2>4. IsFiniteSet((refs \ {<<t, n>>}) \cup {<<u, m>>})
    BY <2>3, FS_AddElement
  <2>5. <<u, m>> \in Threads \X Slots
    OBVIOUS
  <2>6. refs' \subseteq Refs
    BY <2>2, <2>5 DEF TypeOK, Refs
  <2> QED BY <2>2, <2>4, <2>6
<1> QED BY <1>1, <1>2, <1>3, <1>4, <1>5, <1>6, <1>7, <1>8, <1>9, <1>10,
           <1>11, <1>12, <1>13, <1>14, <1>15, <1>16, <1>17, <1>18, <1>19,
           <1>20, <1>21, <1>22, <1>23, <1>24, <1>25, <1>26, <1>27, <1>28,
           <1>29, <1>30, <1>31, <1>32, <1>33, <1>34, <1>35, <1>36, <1>37,
           <1>38, <1>39 DEF Call, Step

LEMMA WordTypes ==
  ASSUME IInv, NEW t \in Threads, Call(t) \/ Step(t)
  PROVE  isa' \in IsaBits /\ side' \in SideEntry
<1>a. old[t] \in IsaBits /\ isa \in IsaBits /\ side \in SideEntry
  BY DEF IInv, TypeOK
<1> USE <1>a
<1> USE DEF object, StoreExclusive, StoreFails
<1>1. CASE Alloc(t)
  BY <1>1, FreshNonpointerIsa, FreshRawIsa DEF Alloc
<1>2. CASE RetainBegin(t)
  BY <1>2 DEF RetainBegin
<1>3. CASE ReleaseBegin(t)
  BY <1>3 DEF ReleaseBegin
<1>4. CASE LoadWeak(t)
  BY <1>4 DEF LoadWeak
<1>5. CASE StoreWeakBegin(t)
  BY <1>5 DEF StoreWeakBegin
<1>6. CASE SetAssocBegin(t)
  BY <1>6 DEF SetAssocBegin
<1>7. CASE ChangeIsaBegin(t)
  BY <1>7 DEF ChangeIsaBegin
<1>8. CASE RetainLoad(t)
  BY <1>8 DEF RetainLoad
<1>9. CASE RetainLock(t)
  BY <1>9 DEF RetainLock
<1>10. CASE RetainStore(t)
  BY <1>10, RetainedWord DEF RetainStore
<1>11. CASE RetainAddExtra(t)
  BY <1>11, AddRCEntry, RCHalfAssumption DEF RetainAddExtra
<1>12. CASE RetainRaw(t)
  BY <1>12, AddRCEntry DEF RetainRaw
<1>13. CASE TryRetainRaw(t)
  BY <1>13, AddRCEntry DEF TryRetainRaw
<1>14. CASE ReleaseLoad(t)
  BY <1>14 DEF ReleaseLoad
<1>15. CASE ReleaseLock(t)
  BY <1>15 DEF ReleaseLock
<1>16. CASE ReleaseStore(t)
  BY <1>16, ReleasedWord DEF ReleaseStore, IInv, OldInv
<1>17. CASE Borrow(t)
  <2>1. isa.nonpointer /\ side.rc \in Nat /\ HalfMultiple(side.rc)
    BY <1>17 DEF Borrow, IInv, SideInv, SideEntry
  <2>2. CASE side.rc > 0
    <3>1. side.rc - RC_HALF \in Nat
      BY <2>1, <2>2, HalfMinus, RCHalfAssumption
    <3>2. isa' = isa /\ side' = [side EXCEPT !.rc = side.rc - RC_HALF]
      BY <1>17, <2>2 DEF Borrow
    <3> QED BY <3>1, <3>2, ChangedRC
  <2>3. CASE side.rc = 0
    BY <1>17, <2>3 DEF Borrow
  <2> QED BY <2>1, <2>2, <2>3
<1>18. CASE BorrowStore(t)
  BY <1>18, BorrowedWord DEF BorrowStore
<1>19. CASE BorrowReload(t)
  BY <1>19 DEF BorrowReload
<1>20. CASE BorrowRestore(t)
  BY <1>20, RestoredWord DEF BorrowRestore, IInv, OldInv
<1>21. CASE PutBack(t)
  BY <1>21, AddRCEntry, RCHalfAssumption DEF PutBack
<1>22. CASE DeallocStore(t)
  BY <1>22, BeginDeallocWord DEF DeallocStore
<1>23. CASE ReleaseRaw(t)
  <2>1. CASE side.rc = 0 /\ ~side.deallocating
    <3>1. isa' = isa /\ side' = MarkDeallocating(side)
      BY <1>23, <2>1 DEF ReleaseRaw, MarkDeallocating
    <3> QED BY <3>1, MarkedEntry
  <2>2. CASE ~(side.rc = 0 /\ ~side.deallocating)
    <3>1. side.rc > 0 /\ side.rc \in Nat
      BY <1>23, <2>2, RawEntryInUse DEF ReleaseRaw, SideEntry
    <3>2. isa' = isa /\ side' = [side EXCEPT !.rc = side.rc - 1]
      BY <1>23, <2>2 DEF ReleaseRaw
    <3>3. side.rc - 1 \in Nat
      BY <3>1
    <3> QED BY <3>2, <3>3, ChangedRC
  <2> QED BY <2>1, <2>2
<1>24. CASE WeakLock(t)
  BY <1>24 DEF WeakLock
<1>25. CASE StoreWeakLock(t)
  BY <1>25 DEF StoreWeakLock
<1>26. CASE SetWeakLoad(t)
  <2>1. isa' = isa /\ (side' = MarkWeak(side) \/ side' = side)
    BY <1>26 DEF SetWeakLoad, MarkWeak
  <2> QED BY <2>1, MarkedEntry
<1>27. CASE SetWeakStore(t)
  BY <1>27, SetWeakWord DEF SetWeakStore
<1>28. CASE SetAssocLoad(t)
  BY <1>28 DEF SetAssocLoad
<1>29. CASE SetAssocStore(t)
  BY <1>29, SetAssocWord DEF SetAssocStore
<1>30. CASE ChangeIsaLoad(t)
  BY <1>30 DEF ChangeIsaLoad
<1>31. CASE ChangeIsaLock(t)
  BY <1>31 DEF ChangeIsaLock
<1>32. CASE ChangeIsaStore(t)
  BY <1>32, FreshRawIsa DEF ChangeIsaStore
<1>33. CASE ChangeIsaMove(t)
  BY <1>33, RCHalfAssumption DEF ChangeIsaMove, IsaBits, SideEntry, RC_MAX
<1>34. CASE RootDealloc(t)
  BY <1>34 DEF RootDealloc
<1>35. CASE Dispose(t)
  BY <1>35 DEF Dispose
<1>36. CASE ClearDeallocating(t)
  BY <1>36 DEF ClearDeallocating
<1>37. CASE ClearDeallocatingLocked(t)
  BY <1>37, FreshEntry DEF ClearDeallocatingLocked
<1>38. CASE Free(t)
  BY <1>38 DEF Free
<1>39. CASE \E u \in Threads : HandOver(t, u)
  BY <1>39 DEF HandOver
<1> QED BY <1>1, <1>2, <1>3, <1>4, <1>5, <1>6, <1>7, <1>8, <1>9, <1>10,
           <1>11, <1>12, <1>13, <1>14, <1>15, <1>16, <1>17, <1>18, <1>19,
           <1>20, <1>21, <1>22, <1>23, <1>24, <1>25, <1>26, <1>27, <1>28,
           <1>29, <1>30, <1>31, <1>32, <1>33, <1>34, <1>35, <1>36, <1>37,
           <1>38, <1>39 DEF Call, Step

-----------------------------------------------------------------------------
(* The invariant is inductive, and implies the safety properties. *)

LEMMA InitIInv == Init => IInv
<1> SUFFICES ASSUME Init PROVE IInv
  OBVIOUS
<1> USE FreshNonpointerIsa, FreshEntry, NoThreadAssumption DEF Init
<1>1. TypeOK
  BY DEF TypeOK, Labels, Idle, NonpointerIsa
<1>2. IsFiniteSet(refs)
  BY FS_EmptySet
<1>3. LockInv
  BY DEF LockInv, LockedLabels
<1>4. ClientInv
  BY DEF ClientInv, ReleaseLabels, UseLabels, DisposeLabels
<1>5. LifeInv
  BY DEF LifeInv, Deallocating
<1>6. SideInv
  BY HalfZero DEF SideInv, Borrowing
<1>7. OldInv
  BY DEF OldInv
<1>8. CountIsConserved
  BY DEF CountIsConserved
<1> QED BY <1>1, <1>2, <1>3, <1>4, <1>5, <1>6, <1>7, <1>8 DEF IInv

LEMMA NextIInv == IInv /\ [Next]_vars => IInv'
<1> SUFFICES ASSUME IInv, [Next]_vars PROVE IInv'
  OBVIOUS
<1>1. CASE Next
  <2>1. PICK t \in Threads : Call(t) \/ Step(t)
    BY <1>1 DEF Next
  <2>2. TypeOK /\ LockInv /\ OldInv /\ IsFiniteSet(refs)
    BY DEF IInv
  <2>3. TypeOK'
    <3>1. isa' \in IsaBits /\ side' \in SideEntry
      BY <2>1, WordTypes
    <3>2. /\ pc' \in [Threads -> Labels]
          /\ old' \in [Threads -> IsaBits]
          /\ arg' \in [Threads -> [tryRetain : BOOLEAN, slow : BOOLEAN]]
      BY <2>1, <2>2, LocalTypes
    <3>3. /\ lock' \in Threads \cup {NoThread}
          /\ deallocator' \in Threads \cup {NoThread}
          /\ location' \in BOOLEAN /\ assoc' \in BOOLEAN /\ freed' \in BOOLEAN
      BY <2>1, <2>2, SharedTypes
    <3>4. refs' \subseteq Refs
      BY <2>1, <2>2, RefsTypes
    <3> QED BY <3>1, <3>2, <3>3, <3>4 DEF TypeOK
  <2>4. IsFiniteSet(refs)'
    BY <2>1, <2>2, RefsTypes
  <2>5. LockInv' /\ ClientInv' /\ LifeInv'
    BY <2>1, <2>2, LockPreserved, ClientPreserved, LifePreserved
  <2>6. SideInv' /\ OldInv' /\ CountIsConserved'
    BY <2>1, SidePreserved, OldPreserved, CountPreserved
  <2> QED BY <2>3, <2>4, <2>5, <2>6 DEF IInv
<1>2. CASE UNCHANGED vars
  <2>1. /\ isa' = isa /\ side' = side /\ lock' = lock /\ pc' = pc
        /\ old' = old /\ arg' = arg /\ location' = location
        /\ assoc' = assoc /\ refs' = refs /\ deallocator' = deallocator
        /\ freed' = freed
    BY <1>2 DEF vars
  <2>2. TypeOK' /\ IsFiniteSet(refs)' /\ LockInv'
    BY <2>1 DEF IInv, TypeOK, LockInv
  <2>3. ClientInv' /\ OldInv'
    BY <2>1 DEF IInv, ClientInv, OldInv, Holds
  <2>4. LifeInv' /\ SideInv'
    BY <2>1 DEF IInv, LifeInv, SideInv, Deallocating, Marked, Moving
  <2>5. CountIsConserved'
    BY <2>1 DEF IInv, CountIsConserved, InTransit
  <2> QED BY <2>2, <2>3, <2>4, <2>5 DEF IInv
<1> QED BY <1>1, <1>2

\* Every state the machinery reaches satisfies the inductive invariant.
THEOREM Invariance == Spec => []IInv
  BY InitIInv, NextIInv, PTL DEF Spec

\* Every variable keeps its type: in particular extra_rc stays within its
\* bits, and no count is decremented below zero.
THEOREM TypeCorrect == Spec => []TypeOK
<1>1. IInv => TypeOK
  BY DEF IInv
<1> QED BY <1>1, Invariance, PTL

\* No retain or release is lost or counted twice while counts move between
\* the isa and the side table (rootRetain_overflow, rootRelease_underflow,
\* sidetable_moveExtraRC_nolock).
THEOREM CountConserved == Spec => []CountIsConserved
<1>1. IInv => CountIsConserved
  BY DEF IInv
<1> QED BY <1>1, Invariance, PTL

\* Memory is given back only when no thread is inside an operation on it.
THEOREM MemorySafe == Spec => []NoUseAfterFree
<1>1. IInv => NoUseAfterFree
  BY DEF IInv, LifeInv, NoUseAfterFree, Accessing
<1> QED BY <1>1, Invariance, PTL

\* A __weak variable never names memory that was given back.
THEOREM WeakSafe == Spec => []WeakNeverDangles
<1>1. IInv => WeakNeverDangles
  BY DEF IInv, LifeInv, WeakNeverDangles
<1> QED BY <1>1, Invariance, PTL

\* No side-table entry and no association survives the object.
THEOREM NothingLeftBehind == Spec => []NothingOutlivesObject
<1>1. IInv => NothingOutlivesObject
  BY DEF IInv, LifeInv, NothingOutlivesObject
<1> QED BY <1>1, Invariance, PTL

\* A balanced client is never told that it over-released.
THEOREM ReleaseSafe == Spec => []NoOverrelease
<1>1. ASSUME IInv, NEW t \in Threads
      PROVE  /\ pc[t] # "overrelease"
             /\ pc[t] = "borrow" => side.rc = 0 \/ side.rc >= RC_HALF
             /\ pc[t] = "releaseRaw" /\ lock = NoThread =>
                  side.rc > 0 \/ ~side.deallocating
  <2>1. pc[t] # "overrelease"
    BY <1>1 DEF IInv, ClientInv
  <2>2. ASSUME pc[t] = "borrow" PROVE side.rc = 0 \/ side.rc >= RC_HALF
    <3>1. HalfMultiple(side.rc) /\ side.rc \in Nat
      BY <1>1, <2>2 DEF IInv, SideInv, TypeOK, SideEntry
    <3> QED BY <3>1, HalfMinus
  <2>3. ASSUME pc[t] = "releaseRaw", lock = NoThread
        PROVE  side.rc > 0 \/ ~side.deallocating
    BY <1>1, <2>3, RawEntryInUse
  <2> QED BY <2>1, <2>2, <2>3
<1>2. IInv => NoOverrelease
  BY <1>1 DEF NoOverrelease
<1> QED BY <1>2, Invariance, PTL

\* The assertions of sidetable_addExtraRC_nolock and sidetable_subExtraRC_
\* nolock hold whenever they are evaluated.
THEOREM AssertionsHold == Spec => []ExtraRCAssertions
<1>1. IInv => ExtraRCAssertions
  BY DEF IInv, LockInv, LockedLabels, SideInv, Borrowing, ExtraRCAssertions
<1> QED BY <1>1, Invariance, PTL

\* The safety of the object and its runtime, all together.
THEOREM ObjectSafe == Spec => []ObjectIsSafe
  BY MemorySafe, WeakSafe, NothingLeftBehind, ReleaseSafe, AssertionsHold, PTL
     DEF ObjectIsSafe

-----------------------------------------------------------------------------
(* -dealloc is sent once. *)

\* A step moves the thread that takes it and no other.
LEMMA OthersStay ==
  ASSUME TypeOK, NEW t \in Threads, Call(t) \/ Step(t),
         NEW u \in Threads \ {t}
  PROVE  pc'[u] = pc[u]
<1>a. DOMAIN pc = Threads
  BY DEF TypeOK
<1> USE <1>a
<1> USE DEF Restart, Retry, Goto, GoSlow, Return, LoadExclusive, SendDealloc,
            GiveBack, StoreLocation, locals
<1>1. CASE Alloc(t)
  BY <1>1 DEF Alloc
<1>2. CASE RetainBegin(t)
  BY <1>2 DEF RetainBegin
<1>3. CASE ReleaseBegin(t)
  BY <1>3 DEF ReleaseBegin
<1>4. CASE LoadWeak(t)
  BY <1>4 DEF LoadWeak
<1>5. CASE StoreWeakBegin(t)
  BY <1>5 DEF StoreWeakBegin
<1>6. CASE SetAssocBegin(t)
  BY <1>6 DEF SetAssocBegin
<1>7. CASE ChangeIsaBegin(t)
  BY <1>7 DEF ChangeIsaBegin
<1>8. CASE RetainLoad(t)
  BY <1>8 DEF RetainLoad
<1>9. CASE RetainLock(t)
  BY <1>9 DEF RetainLock
<1>10. CASE RetainStore(t)
  BY <1>10 DEF RetainStore
<1>11. CASE RetainAddExtra(t)
  BY <1>11 DEF RetainAddExtra
<1>12. CASE RetainRaw(t)
  BY <1>12 DEF RetainRaw
<1>13. CASE TryRetainRaw(t)
  BY <1>13 DEF TryRetainRaw
<1>14. CASE ReleaseLoad(t)
  BY <1>14 DEF ReleaseLoad
<1>15. CASE ReleaseLock(t)
  BY <1>15 DEF ReleaseLock
<1>16. CASE ReleaseStore(t)
  BY <1>16 DEF ReleaseStore
<1>17. CASE Borrow(t)
  BY <1>17 DEF Borrow
<1>18. CASE BorrowStore(t)
  BY <1>18 DEF BorrowStore
<1>19. CASE BorrowReload(t)
  BY <1>19 DEF BorrowReload
<1>20. CASE BorrowRestore(t)
  BY <1>20 DEF BorrowRestore
<1>21. CASE PutBack(t)
  BY <1>21 DEF PutBack
<1>22. CASE DeallocStore(t)
  BY <1>22 DEF DeallocStore
<1>23. CASE ReleaseRaw(t)
  BY <1>23 DEF ReleaseRaw
<1>24. CASE WeakLock(t)
  BY <1>24 DEF WeakLock
<1>25. CASE StoreWeakLock(t)
  BY <1>25 DEF StoreWeakLock
<1>26. CASE SetWeakLoad(t)
  BY <1>26 DEF SetWeakLoad
<1>27. CASE SetWeakStore(t)
  BY <1>27 DEF SetWeakStore
<1>28. CASE SetAssocLoad(t)
  BY <1>28 DEF SetAssocLoad
<1>29. CASE SetAssocStore(t)
  BY <1>29 DEF SetAssocStore
<1>30. CASE ChangeIsaLoad(t)
  BY <1>30 DEF ChangeIsaLoad
<1>31. CASE ChangeIsaLock(t)
  BY <1>31 DEF ChangeIsaLock
<1>32. CASE ChangeIsaStore(t)
  BY <1>32 DEF ChangeIsaStore
<1>33. CASE ChangeIsaMove(t)
  BY <1>33 DEF ChangeIsaMove
<1>34. CASE RootDealloc(t)
  BY <1>34 DEF RootDealloc
<1>35. CASE Dispose(t)
  BY <1>35 DEF Dispose
<1>36. CASE ClearDeallocating(t)
  BY <1>36 DEF ClearDeallocating
<1>37. CASE ClearDeallocatingLocked(t)
  BY <1>37 DEF ClearDeallocatingLocked
<1>38. CASE Free(t)
  BY <1>38 DEF Free
<1>39. CASE \E v \in Threads : HandOver(t, v)
  BY <1>39 DEF HandOver
<1> QED BY <1>1, <1>2, <1>3, <1>4, <1>5, <1>6, <1>7, <1>8, <1>9, <1>10,
           <1>11, <1>12, <1>13, <1>14, <1>15, <1>16, <1>17, <1>18, <1>19,
           <1>20, <1>21, <1>22, <1>23, <1>24, <1>25, <1>26, <1>27, <1>28,
           <1>29, <1>30, <1>31, <1>32, <1>33, <1>34, <1>35, <1>36, <1>37,
           <1>38, <1>39 DEF Call, Step

\* What a step may do to the client's references and to the deallocation.
LEMMA DeallocatorSteps ==
  ASSUME IInv, NEW t \in Threads, Call(t) \/ Step(t)
  PROVE  /\ deallocator' # deallocator =>
              \/ deallocator # NoThread /\ freed'
              \/ deallocator = NoThread /\ refs' = {}
         /\ arg[t].tryRetain /\ pc[t] \in {"retainStore", "tryRetainRaw"}
              /\ refs' # refs => deallocator = NoThread
<1> DEFINE Ends ==
      deallocator' # deallocator =>
        \/ deallocator # NoThread /\ freed'
        \/ deallocator = NoThread /\ refs' = {}
<1> DEFINE Tries ==
      arg[t].tryRetain /\ pc[t] \in {"retainStore", "tryRetainRaw"}
        /\ refs' # refs => deallocator = NoThread
<1>a. TypeOK /\ LockInv /\ ClientInv /\ SideInv /\ OldInv /\ IsFiniteSet(refs)
  BY DEF IInv
<1>b. refs \subseteq Refs /\ deallocator \in Threads \cup {NoThread}
  BY <1>a DEF TypeOK
<1>1. CASE Alloc(t)
  BY <1>1 DEF Alloc, clients, Idle
<1>2. CASE RetainBegin(t)
  BY <1>2 DEF RetainBegin, clients, Idle
<1>3. CASE ReleaseBegin(t)
  BY <1>3 DEF ReleaseBegin, clients, Idle
<1>4. CASE LoadWeak(t)
  BY <1>4 DEF LoadWeak, clients, Idle
<1>5. CASE StoreWeakBegin(t)
  BY <1>5 DEF StoreWeakBegin, clients, Idle
<1>6. CASE SetAssocBegin(t)
  BY <1>6 DEF SetAssocBegin, clients, Idle
<1>7. CASE ChangeIsaBegin(t)
  BY <1>7 DEF ChangeIsaBegin, clients, Idle
<1>8. CASE RetainLoad(t)
  BY <1>8 DEF RetainLoad, clients
<1>9. CASE RetainLock(t)
  BY <1>9 DEF RetainLock, clients
<1>10. CASE RetainStore(t)
  <2>1. Ends
    BY <1>10 DEF RetainStore
  <2>2. ASSUME arg[t].tryRetain, refs' # refs
        PROVE  deallocator = NoThread
    <3>1. pc[t] = "retainStore" /\ isa = old[t]
      BY <1>10, <2>2 DEF RetainStore, StoreExclusive
    <3>2. old[t].nonpointer /\ ~old[t].deallocating
      BY <1>a, <2>2, <3>1 DEF OldInv
    <3>3. location
      BY <1>a, <2>2 DEF LockInv
    <3> QED BY <3>1, <3>2, <3>3, Live DEF Deallocating
  <2> QED BY <2>1, <2>2
<1>11. CASE RetainAddExtra(t)
  BY <1>11 DEF RetainAddExtra, clients
<1>12. CASE RetainRaw(t)
  BY <1>12 DEF RetainRaw, clients
<1>13. CASE TryRetainRaw(t)
  <2>1. Ends
    BY <1>13 DEF TryRetainRaw
  <2>2. ASSUME refs' # refs
        PROVE  deallocator = NoThread
    <3>1. pc[t] = "tryRetainRaw" /\ ~side.deallocating
      BY <1>13, <2>2 DEF TryRetainRaw
    <3>2. lock = t /\ location /\ ~isa.nonpointer
      BY <1>a, <3>1 DEF LockInv, SideInv
    <3>3. ~Moving
      BY <1>a, <3>1, <3>2, NoTransit DEF Borrowing
    <3> QED BY <3>1, <3>2, <3>3, Live DEF Deallocating
  <2> QED BY <2>1, <2>2
<1>14. CASE ReleaseLoad(t)
  BY <1>14 DEF ReleaseLoad, clients
<1>15. CASE ReleaseLock(t)
  BY <1>15 DEF ReleaseLock, clients
<1>16. CASE ReleaseStore(t)
  BY <1>16 DEF ReleaseStore, clients
<1>17. CASE Borrow(t)
  BY <1>17 DEF Borrow, clients
<1>18. CASE BorrowStore(t)
  BY <1>18 DEF BorrowStore, clients
<1>19. CASE BorrowReload(t)
  BY <1>19 DEF BorrowReload, clients
<1>20. CASE BorrowRestore(t)
  BY <1>20 DEF BorrowRestore, clients
<1>21. CASE PutBack(t)
  BY <1>21 DEF PutBack, clients
<1>22. CASE DeallocStore(t)
  <2>1. Tries
    BY <1>22 DEF DeallocStore
  <2>2. ASSUME deallocator' # deallocator
        PROVE  deallocator = NoThread /\ refs' = {}
    <3>1. pc[t] = "deallocStore" /\ isa = old[t] /\ DropRef(t)
      BY <1>22, <2>2 DEF DeallocStore, StoreExclusive
    <3>2. deallocator = NoThread /\ Cardinality(refs) = 1
      BY <3>1, LastRelease
    <3> QED BY <1>a, <1>b, <3>1, <3>2, DropRefFrame
  <2> QED BY <2>1, <2>2
<1>23. CASE ReleaseRaw(t)
  <2>1. Tries
    BY <1>23 DEF ReleaseRaw
  <2>2. ASSUME deallocator' # deallocator
        PROVE  deallocator = NoThread /\ refs' = {}
    <3>1. /\ pc[t] = "releaseRaw" /\ lock = NoThread /\ DropRef(t)
          /\ side.rc = 0 /\ ~side.deallocating
      BY <1>23, <2>2 DEF ReleaseRaw
    <3>2. deallocator = NoThread /\ Cardinality(refs) = 1
      BY <3>1, LastRawRelease
    <3> QED BY <1>a, <1>b, <3>1, <3>2, DropRefFrame
  <2> QED BY <2>1, <2>2
<1>24. CASE WeakLock(t)
  BY <1>24 DEF WeakLock, clients
<1>25. CASE StoreWeakLock(t)
  BY <1>25 DEF StoreWeakLock, clients
<1>26. CASE SetWeakLoad(t)
  BY <1>26 DEF SetWeakLoad, clients
<1>27. CASE SetWeakStore(t)
  BY <1>27 DEF SetWeakStore, clients
<1>28. CASE SetAssocLoad(t)
  BY <1>28 DEF SetAssocLoad, clients
<1>29. CASE SetAssocStore(t)
  BY <1>29 DEF SetAssocStore, clients
<1>30. CASE ChangeIsaLoad(t)
  BY <1>30 DEF ChangeIsaLoad, clients
<1>31. CASE ChangeIsaLock(t)
  BY <1>31 DEF ChangeIsaLock, clients
<1>32. CASE ChangeIsaStore(t)
  BY <1>32 DEF ChangeIsaStore, clients
<1>33. CASE ChangeIsaMove(t)
  BY <1>33 DEF ChangeIsaMove, clients
<1>34. CASE RootDealloc(t)
  <2>1. deallocator = t
    BY <1>34, <1>a DEF RootDealloc, ClientInv, DisposeLabels
  <2> QED BY <1>34, <2>1, NoThreadAssumption DEF RootDealloc, GiveBack
<1>35. CASE Dispose(t)
  BY <1>35 DEF Dispose, clients
<1>36. CASE ClearDeallocating(t)
  BY <1>36 DEF ClearDeallocating, clients
<1>37. CASE ClearDeallocatingLocked(t)
  BY <1>37 DEF ClearDeallocatingLocked, clients
<1>38. CASE Free(t)
  <2>1. deallocator = t
    BY <1>38, <1>a DEF Free, ClientInv, DisposeLabels
  <2> QED BY <1>38, <2>1, NoThreadAssumption DEF Free, GiveBack
<1>39. CASE \E v \in Threads : HandOver(t, v)
  BY <1>39 DEF HandOver, MayUse, Idle
<1> QED BY <1>1, <1>2, <1>3, <1>4, <1>5, <1>6, <1>7, <1>8, <1>9, <1>10,
           <1>11, <1>12, <1>13, <1>14, <1>15, <1>16, <1>17, <1>18, <1>19,
           <1>20, <1>21, <1>22, <1>23, <1>24, <1>25, <1>26, <1>27, <1>28,
           <1>29, <1>30, <1>31, <1>32, <1>33, <1>34, <1>35, <1>36, <1>37,
           <1>38, <1>39 DEF Call, Step

\* -dealloc is sent by the release that gives up the last reference, to an
\* object that is not being deallocated, and objc_loadWeakRetained gets no
\* reference out of the variable after that.
THEOREM DeallocOnce == Spec => OneDealloc
<1> DEFINE Once ==
      /\ deallocator # NoThread /\ deallocator' # deallocator => freed'
      /\ deallocator = NoThread /\ deallocator' # NoThread => refs' = {}
      /\ \A t \in Threads :
           arg[t].tryRetain /\ pc[t] \in {"retainStore", "tryRetainRaw"}
             /\ pc'[t] # pc[t] /\ refs' # refs => deallocator = NoThread
<1>1. ASSUME IInv, [Next]_vars
      PROVE  [Once]_vars
  <2>1. CASE Next
    <3>1. PICK t \in Threads : Call(t) \/ Step(t)
      BY <2>1 DEF Next
    <3>2. /\ deallocator # NoThread /\ deallocator' # deallocator => freed'
          /\ deallocator = NoThread /\ deallocator' # NoThread => refs' = {}
      BY <1>1, <3>1, DeallocatorSteps
    <3>3. ASSUME NEW u \in Threads, arg[u].tryRetain,
                 pc[u] \in {"retainStore", "tryRetainRaw"},
                 pc'[u] # pc[u], refs' # refs
          PROVE  deallocator = NoThread
      <4>1. u = t
        BY <1>1, <3>1, <3>3, OthersStay DEF IInv
      <4> QED BY <1>1, <3>1, <3>3, <4>1, DeallocatorSteps
    <3> QED BY <3>2, <3>3
  <2>2. CASE UNCHANGED vars
    BY <2>2
  <2> QED BY <1>1, <2>1, <2>2
<1>2. IInv /\ [Next]_vars => [Once]_vars
  BY <1>1
<1> QED BY <1>2, Invariance, PTL DEF Spec, OneDealloc

-----------------------------------------------------------------------------
(***************************************************************************)
(* RefCount implements StrongCount: the inline count, the side table and   *)
(* the three marks, moved back and forth by threads that race, are one     *)
(* reference count.  A retain, a release or a weak load takes effect in    *)
(* the one step that stores the word or changes the entry; a store or a    *)
(* clear of the __weak variable and of the associations in the step that   *)
(* changes it; every other step stutters.                                  *)
(***************************************************************************)


\* An object that is not being deallocated is owned by somebody.
LEMMA LiveIsOwned == IInv /\ ~freed /\ deallocator = NoThread => refs # {}
<1> SUFFICES ASSUME IInv, ~freed, deallocator = NoThread
             PROVE  refs # {}
  OBVIOUS
<1>1. isa.extra_rc \in Nat /\ side.rc \in Nat
  BY DEF IInv, TypeOK, IsaBits, SideEntry, RC_MAX
<1>2. InTransit \in Nat
  BY TransitNat DEF IInv
<1>3. Cardinality(refs) = 1 + isa.extra_rc + side.rc + InTransit
  BY <1>1, <1>2, FS_CardinalityType DEF IInv, CountIsConserved
<1>4. Cardinality(refs) # 0
  BY <1>1, <1>2, <1>3
<1> QED BY <1>4, FS_EmptySet

LEMMA OwnedNext == (IInv /\ ~freed /\ deallocator = NoThread => refs # {})'
  BY LiveIsOwned, PTL

\* Whoever is inside an operation on the object has it in memory.
LEMMA AtWork ==
  ASSUME IInv, NEW t \in Threads, pc[t] \notin {"idle", "weakLock"}
  PROVE  ~freed
  BY DEF IInv, LifeInv

LEMMA StutterStep ==
  ASSUME UNCHANGED <<refs, location, assoc, deallocator, freed>>
  PROVE  UNCHANGED Abstract!vars
  BY DEF Abstract!vars

\* Nothing the promise knows of changes but the references.
KeepsPhase == UNCHANGED <<location, assoc, deallocator, freed>>

LEMMA RetainStep ==
  ASSUME IInv, NEW t \in Threads, ~freed, GainRef(t), KeepsPhase
  PROVE  Abstract!Retain
<1>1. deallocator = NoThread => refs # {}
  BY LiveIsOwned
<1>2. PICK n \in Slots : <<t, n>> \notin refs /\ refs' = refs \cup {<<t, n>>}
  BY DEF GainRef
<1>3. <<t, n>> \in (Threads \X Slots) \ refs
  BY <1>2
<1> QED BY <1>1, <1>2, <1>3 DEF Abstract!Retain, KeepsPhase

LEMMA TryRetainStep ==
  ASSUME NEW t \in Threads, ~freed, location, deallocator = NoThread,
         GainRef(t), KeepsPhase
  PROVE  Abstract!TryRetain
<1>1. PICK n \in Slots : <<t, n>> \notin refs /\ refs' = refs \cup {<<t, n>>}
  BY DEF GainRef
<1>2. <<t, n>> \in (Threads \X Slots) \ refs
  BY <1>1
<1> QED BY <1>1, <1>2 DEF Abstract!TryRetain, KeepsPhase

\* A release that leaves references to a live object, or any release of one
\* that is being deallocated.
LEMMA ReleaseStep ==
  ASSUME IInv, IInv', NEW t \in Threads, ~freed, DropRef(t), KeepsPhase
  PROVE  Abstract!Release
<1>1. deallocator = NoThread => refs' # {}
  BY OwnedNext DEF KeepsPhase
<1>2. PICK n \in Slots : <<t, n>> \in refs /\ refs' = refs \ {<<t, n>>}
  BY DEF DropRef
<1> QED BY <1>1, <1>2 DEF Abstract!Release, KeepsPhase

\* The release of the last reference of a live object.
LEMMA LastReleaseStep ==
  ASSUME NEW t \in Threads, ~freed, deallocator = NoThread, DropRef(t),
         refs' = {}, deallocator' = t, UNCHANGED <<location, assoc, freed>>
  PROVE  Abstract!Release
<1>1. PICK n \in Slots : <<t, n>> \in refs /\ refs' = refs \ {<<t, n>>}
  BY DEF DropRef
<1> QED BY <1>1, NoThreadAssumption DEF Abstract!Release

Implements == Abstract!Next \/ UNCHANGED Abstract!vars

\* Calls: a new object, a reference that changes hands, an association that
\* enters the map; the rest only start.
LEMMA CallImplements ==
  ASSUME IInv, NEW t \in Threads, Call(t)
  PROVE  Implements
<1>1. CASE Alloc(t)
  <2>1. /\ freed /\ freed' = FALSE /\ deallocator' = deallocator
        /\ UNCHANGED <<location, assoc>>
    BY <1>1 DEF Alloc
  <2>2. deallocator = NoThread
    BY <2>1 DEF IInv, LifeInv
  <2>3. PICK n \in Slots : refs' = {<<t, n>>}
    BY <1>1 DEF Alloc
  <2>4. <<t, n>> \in Threads \X Slots
    OBVIOUS
  <2>5. Abstract!Alloc
    BY <2>1, <2>2, <2>3, <2>4 DEF Abstract!Alloc
  <2> QED BY <2>5 DEF Implements, Abstract!Next
<1>2. CASE RetainBegin(t) \/ ReleaseBegin(t) \/ LoadWeak(t)
           \/ StoreWeakBegin(t) \/ ChangeIsaBegin(t)
  BY <1>2, StutterStep DEF Implements, RetainBegin, ReleaseBegin, LoadWeak,
     StoreWeakBegin, ChangeIsaBegin, clients
<1>3. CASE SetAssocBegin(t)
  <2>1. Abstract!SetAssoc
    BY <1>3 DEF SetAssocBegin, MayUse, clients, Abstract!SetAssoc
  <2> QED BY <2>1 DEF Implements, Abstract!Next
<1>4. ASSUME NEW u \in Threads, HandOver(t, u)
      PROVE  Implements
  <2>1. PICK n \in Slots, m \in Slots :
          /\ <<t, n>> \in refs
          /\ <<u, m>> \notin refs
          /\ refs' = (refs \ {<<t, n>>}) \cup {<<u, m>>}
    BY <1>4 DEF HandOver
  <2>2. <<u, m>> \in (Threads \X Slots) \ refs
    BY <2>1
  <2>3. Abstract!HandOver
    BY <1>4, <2>1, <2>2 DEF HandOver, Abstract!HandOver
  <2> QED BY <2>3 DEF Implements, Abstract!Next
<1> QED BY <1>1, <1>2, <1>3, <1>4 DEF Call

\* rootRetain: the reference is taken by the store of the incremented word,
\* or in the entry of an object whose isa is raw.
LEMMA RetainImplements ==
  ASSUME IInv, NEW t \in Threads,
         \/ RetainLoad(t) \/ RetainLock(t) \/ RetainStore(t)
         \/ RetainAddExtra(t) \/ RetainRaw(t) \/ TryRetainRaw(t)
  PROVE  Implements
<1>a. TypeOK /\ LockInv /\ refs \subseteq Refs
  BY DEF IInv, TypeOK
<1>1. CASE RetainLoad(t) \/ RetainLock(t) \/ RetainAddExtra(t)
  BY <1>1, StutterStep
     DEF Implements, RetainLoad, RetainLock, RetainAddExtra, clients
<1>2. CASE RetainStore(t) /\ refs' = refs
  BY <1>2, StutterStep DEF Implements, RetainStore
<1>3. CASE RetainStore(t) /\ refs' # refs
  <2>1. pc[t] = "retainStore" /\ GainRef(t) /\ KeepsPhase
    BY <1>3 DEF RetainStore, KeepsPhase
  <2>2. ~freed
    BY <2>1, AtWork
  <2>3. CASE arg[t].tryRetain
    <3>1. location
      BY <1>a, <2>3 DEF LockInv
    <3>2. deallocator = NoThread
      BY <1>3, <2>1, <2>3, DeallocatorSteps DEF Step
    <3>3. Abstract!TryRetain
      BY <2>1, <2>2, <3>1, <3>2, TryRetainStep
    <3> QED BY <3>3 DEF Implements, Abstract!Next
  <2>4. CASE ~arg[t].tryRetain
    BY <2>1, <2>2, RetainStep DEF Implements, Abstract!Next
  <2> QED BY <2>3, <2>4
<1>4. CASE RetainRaw(t)
  <2>1. pc[t] = "retainRaw" /\ GainRef(t) /\ KeepsPhase
    BY <1>4 DEF RetainRaw, KeepsPhase
  <2>2. ~freed
    BY <2>1, AtWork
  <2> QED BY <2>1, <2>2, RetainStep DEF Implements, Abstract!Next
<1>5. CASE TryRetainRaw(t) /\ refs' = refs
  BY <1>5, StutterStep DEF Implements, TryRetainRaw
<1>6. CASE TryRetainRaw(t) /\ refs' # refs
  <2>1. pc[t] = "tryRetainRaw" /\ GainRef(t) /\ KeepsPhase
    BY <1>6 DEF TryRetainRaw, KeepsPhase
  <2>2. ~freed /\ arg[t].tryRetain /\ location
    BY <1>a, <2>1, AtWork DEF LockInv
  <2>3. deallocator = NoThread
    BY <1>6, <2>1, <2>2, DeallocatorSteps DEF Step
  <2>4. Abstract!TryRetain
    BY <2>1, <2>2, <2>3, TryRetainStep
  <2> QED BY <2>4 DEF Implements, Abstract!Next
<1> QED BY <1>1, <1>2, <1>3, <1>4, <1>5, <1>6

\* rootRelease: the reference is given up by the store that decrements the
\* count, by whichever of the four stores it is, or in the entry.
LEMMA ReleaseImplements ==
  ASSUME IInv, IInv', NEW t \in Threads,
         \/ ReleaseLoad(t) \/ ReleaseLock(t) \/ ReleaseStore(t)
         \/ Borrow(t) \/ BorrowStore(t) \/ BorrowReload(t)
         \/ BorrowRestore(t) \/ PutBack(t) \/ DeallocStore(t)
         \/ ReleaseRaw(t)
  PROVE  Implements
<1>a. refs \subseteq Refs /\ IsFiniteSet(refs)
  BY DEF IInv, TypeOK
<1>1. CASE ReleaseLoad(t) \/ ReleaseLock(t) \/ Borrow(t)
           \/ BorrowReload(t) \/ PutBack(t)
  BY <1>1, StutterStep DEF Implements, ReleaseLoad, ReleaseLock, Borrow,
     BorrowReload, PutBack, clients
<1>2. CASE ReleaseStore(t) \/ BorrowStore(t) \/ BorrowRestore(t)
  <2>1. KeepsPhase /\ pc[t] \notin {"idle", "weakLock"}
    BY <1>2 DEF ReleaseStore, BorrowStore, BorrowRestore, KeepsPhase
  <2>2. ~freed
    BY <2>1, AtWork
  <2>3. DropRef(t) \/ refs' = refs
    BY <1>2 DEF ReleaseStore, BorrowStore, BorrowRestore
  <2>4. CASE DropRef(t)
    BY <2>1, <2>2, <2>4, ReleaseStep DEF Implements, Abstract!Next
  <2>5. CASE refs' = refs
    BY <2>1, <2>5, StutterStep DEF Implements, KeepsPhase
  <2> QED BY <2>3, <2>4, <2>5
<1>3. CASE DeallocStore(t) /\ refs' = refs /\ deallocator' = deallocator
  BY <1>3, StutterStep DEF Implements, DeallocStore
<1>4. CASE DeallocStore(t) /\ ~(refs' = refs /\ deallocator' = deallocator)
  <2>1. /\ pc[t] = "deallocStore" /\ isa = old[t]
        /\ DropRef(t) /\ deallocator' = t
        /\ UNCHANGED <<location, assoc, freed>>
    BY <1>4 DEF DeallocStore, StoreExclusive, SendDealloc
  <2>2. deallocator = NoThread /\ ~freed /\ Cardinality(refs) = 1
    BY <2>1, LastRelease
  <2>3. refs' = {}
    BY <1>a, <2>1, <2>2, DropRefFrame
  <2> QED BY <2>1, <2>2, <2>3, LastReleaseStep DEF Implements, Abstract!Next
<1>5. CASE ReleaseRaw(t)
  <2>1. /\ pc[t] = "releaseRaw" /\ lock = NoThread /\ DropRef(t)
        /\ UNCHANGED <<location, assoc, freed>>
    BY <1>5 DEF ReleaseRaw
  <2>2. CASE side.rc = 0 /\ ~side.deallocating
    <3>1. deallocator' = t
      BY <1>5, <2>2 DEF ReleaseRaw, SendDealloc
    <3>2. deallocator = NoThread /\ ~freed /\ Cardinality(refs) = 1
      BY <2>1, <2>2, LastRawRelease
    <3>3. refs' = {}
      BY <1>a, <2>1, <3>2, DropRefFrame
    <3> QED BY <2>1, <3>1, <3>2, <3>3, LastReleaseStep
            DEF Implements, Abstract!Next
  <2>3. CASE ~(side.rc = 0 /\ ~side.deallocating)
    <3>1. KeepsPhase
      BY <1>5, <2>1, <2>3 DEF ReleaseRaw, KeepsPhase
    <3>2. ~freed
      BY <2>1, AtWork
    <3> QED BY <2>1, <3>1, <3>2, ReleaseStep DEF Implements, Abstract!Next
  <2> QED BY <2>2, <2>3
<1> QED BY <1>1, <1>2, <1>3, <1>4, <1>5

\* The __weak variable starts to name the object in the step that stores the
\* pointer, after the object is marked, and only while the object is live.
LEMMA WeakImplements ==
  ASSUME IInv, NEW t \in Threads,
         \/ WeakLock(t) \/ StoreWeakLock(t) \/ SetWeakLoad(t)
         \/ SetWeakStore(t)
  PROVE  Implements
<1>1. CASE WeakLock(t)
  BY <1>1, StutterStep DEF Implements, WeakLock, clients
<1>2. CASE StoreWeakLock(t) /\ IsDeallocating
  <2>1. pc[t] = "storeWeakLock" /\ location' = FALSE
        /\ UNCHANGED <<refs, assoc, deallocator, freed>>
    BY <1>2 DEF StoreWeakLock, clients
  <2>2. ~freed
    BY <2>1, AtWork
  <2>3. Deallocating
    BY <1>2 DEF IsDeallocating, Deallocating
  <2>4. deallocator # NoThread
    BY <2>2, <2>3 DEF IInv, LifeInv
  <2>5. Abstract!ClearWeak
    BY <2>1, <2>2, <2>4 DEF Abstract!ClearWeak
  <2> QED BY <2>5 DEF Implements, Abstract!Next
<1>3. CASE StoreWeakLock(t) /\ ~IsDeallocating
  BY <1>3, StutterStep DEF Implements, StoreWeakLock, clients
<1>4. CASE SetWeakLoad(t) \/ SetWeakStore(t)
  <2>1. /\ pc[t] \in {"setWeakLoad", "setWeakStore"}
        /\ location' = TRUE \/ location' = location
        /\ UNCHANGED <<refs, assoc, deallocator, freed>>
    BY <1>4 DEF SetWeakLoad, SetWeakStore, StoreLocation, clients
  <2>2. ~freed
    BY <2>1, AtWork
  <2>3. deallocator = NoThread
    BY <2>1 DEF IInv, ClientInv
  <2>4. CASE location' = TRUE
    <3>1. Abstract!StoreWeak
      BY <2>1, <2>2, <2>3, <2>4 DEF Abstract!StoreWeak
    <3> QED BY <3>1 DEF Implements, Abstract!Next
  <2>5. CASE location' = location
    BY <2>1, <2>5, StutterStep DEF Implements
  <2> QED BY <2>1, <2>4, <2>5
<1> QED BY <1>1, <1>2, <1>3, <1>4

\* setHasAssociatedObjects and changeIsa move marks about and counts between
\* the isa and the side table: nothing a client can tell.
LEMMA MarksImplement ==
  ASSUME NEW t \in Threads,
         \/ SetAssocLoad(t) \/ SetAssocStore(t)
         \/ ChangeIsaLoad(t) \/ ChangeIsaLock(t) \/ ChangeIsaStore(t)
         \/ ChangeIsaMove(t)
  PROVE  Implements
  BY StutterStep DEF Implements, SetAssocLoad, SetAssocStore, ChangeIsaLoad,
     ChangeIsaLock, ChangeIsaStore, ChangeIsaMove, clients

\* The end of -dealloc: when the memory goes back, whichever way rootDealloc
\* took, nothing names the object.
LEMMA DeallocImplements ==
  ASSUME IInv, IInv', NEW t \in Threads,
         \/ RootDealloc(t) \/ Dispose(t) \/ ClearDeallocating(t)
         \/ ClearDeallocatingLocked(t) \/ Free(t)
  PROVE  Implements
<1>a. pc[t] \in DisposeLabels \cup {"dealloc"}
  BY DEF RootDealloc, Dispose, ClearDeallocating, ClearDeallocatingLocked,
         Free, DisposeLabels
<1>b. ~freed
  BY <1>a, AtWork DEF DisposeLabels
<1>c. deallocator = t /\ t # NoThread
  BY <1>a, NoThreadAssumption DEF IInv, ClientInv
<1>d. pc[t] \in DisposeLabels => refs = {}
  BY DEF IInv, ClientInv
<1>e. location \in BOOLEAN /\ assoc \in BOOLEAN
  BY DEF IInv, TypeOK
<1>1. CASE RootDealloc(t) \/ Free(t)
  <2>1. /\ refs = {} /\ UNCHANGED <<refs, location, assoc>>
        /\ \/ freed' = TRUE
           \/ UNCHANGED <<freed, deallocator>>
    BY <1>1, <1>d DEF RootDealloc, Free, GiveBack, DisposeLabels
  <2>2. CASE freed' = TRUE
    <3>1. ~location /\ ~assoc
      BY <2>1, <2>2 DEF IInv, LifeInv
    <3>2. Abstract!Free
      BY <1>b, <1>c, <2>1, <2>2, <3>1 DEF Abstract!Free
    <3> QED BY <3>2 DEF Implements, Abstract!Next
  <2>3. CASE UNCHANGED <<freed, deallocator>>
    BY <2>1, <2>3, StutterStep DEF Implements
  <2> QED BY <2>1, <2>2, <2>3
<1>2. CASE Dispose(t)
  <2>1. /\ refs = {} /\ UNCHANGED <<refs, location, deallocator, freed>>
        /\ assoc' = FALSE \/ assoc' = assoc
    BY <1>2, <1>d, <1>e DEF Dispose, DisposeLabels, clients
  <2>2. CASE assoc' = FALSE
    <3>1. Abstract!RemoveAssoc
      BY <1>b, <1>c, <2>1, <2>2 DEF Abstract!RemoveAssoc
    <3> QED BY <3>1 DEF Implements, Abstract!Next
  <2>3. CASE assoc' = assoc
    BY <2>1, <2>3, StutterStep DEF Implements
  <2> QED BY <2>1, <2>2, <2>3
<1>3. CASE ClearDeallocating(t)
  BY <1>3, StutterStep DEF Implements, ClearDeallocating, clients
<1>4. CASE ClearDeallocatingLocked(t)
  <2>1. /\ UNCHANGED <<refs, assoc, deallocator, freed>>
        /\ location' = FALSE \/ location' = location
    BY <1>4, <1>e DEF ClearDeallocatingLocked, clients
  <2>2. CASE location' = FALSE
    <3>1. Abstract!ClearWeak
      BY <1>b, <1>c, <2>1, <2>2 DEF Abstract!ClearWeak
    <3> QED BY <3>1 DEF Implements, Abstract!Next
  <2>3. CASE location' = location
    BY <2>1, <2>3, StutterStep DEF Implements
  <2> QED BY <2>1, <2>2, <2>3
<1> QED BY <1>1, <1>2, <1>3, <1>4

-----------------------------------------------------------------------------
LEMMA InitImplements == Init => Abstract!Init
  BY DEF Init, Abstract!Init

LEMMA NextImplements ==
  IInv /\ [Next]_vars => [Abstract!Next]_Abstract!vars
<1> SUFFICES ASSUME IInv, [Next]_vars
             PROVE  Implements
  BY DEF Implements
<1>1. IInv'
  BY NextIInv
<1>2. ASSUME NEW t \in Threads, Call(t) \/ Step(t)
      PROVE  Implements
  BY <1>1, <1>2, CallImplements, RetainImplements, ReleaseImplements,
     WeakImplements, MarksImplement, DeallocImplements DEF Step
<1>3. CASE UNCHANGED vars
  BY <1>3, StutterStep DEF Implements, vars
<1> QED BY <1>2, <1>3 DEF Next

\* Whatever words the count is kept in, for any number of threads and of
\* references and any width of extra_rc, it behaves as one count: a release
\* that gives up the last reference starts the deallocation in that step, no
\* weak load succeeds after it, and the memory goes back when nothing names
\* the object.
THEOREM CountsAreOneCount == Spec => ImplementsStrongCount
<1>1. Init => Abstract!Init
  BY InitImplements
<1>2. IInv /\ [Next]_vars => [Abstract!Next]_Abstract!vars
  BY NextImplements
<1> QED BY <1>1, <1>2, Invariance, PTL
        DEF Spec, ImplementsStrongCount, Abstract!Spec
=============================================================================
