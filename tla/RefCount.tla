------------------------------ MODULE RefCount ------------------------------
(***************************************************************************)
(* The retain count of one object of the Objective-C runtime: the bits of  *)
(* its isa word, changed lock-free by LoadExclusive/StoreExclusive loops,  *)
(* and the entry of its SideTable, changed under the table's lock, with    *)
(* half of the inline range (RC_HALF) moving between the two on overflow   *)
(* and underflow (objc-object.h, NSObject.mm).                             *)
(*                                                                         *)
(* Every access to shared memory is a step of its own: reading the isa     *)
(* word, the compare-and-swap, taking the lock, and the section that runs  *)
(* under it (sections under the lock only touch what the lock protects, so *)
(* the last one is merged with the unlock).                                *)
(*                                                                         *)
(* The clients are the environment.  A client calls an operation on the    *)
(* object only while it owns a strong reference, is running the object's   *)
(* -dealloc, or goes through the __weak variable.                          *)
(***************************************************************************)
EXTENDS Integers, FiniteSets

CONSTANTS
  Threads,
  Slots,            \* bounds the references one thread owns at a time
  RC_HALF,          \* isa.h: the high bit of extra_rc
  SpuriousFailure,  \* TRUE: stxr may fail although nobody wrote (arm64)
  NoThread

ASSUME RCHalfAssumption == RC_HALF \in Nat \ {0}
ASSUME SpuriousFailureAssumption == SpuriousFailure \in BOOLEAN
ASSUME NoThreadAssumption == NoThread \notin Threads

\* The largest value of extra_rc: RC_HALF is the high bit of the field.
RC_MAX == 2 * RC_HALF - 1

VARIABLES
  isa,          \* the isa word of the object
  side,         \* the object's entry of SideTable.refcnts
  lock,         \* owner of the SideTable's slock, or NoThread
  pc,           \* what each thread is about to do
  old,          \* each thread's oldisa, from its last LoadExclusive
  arg,          \* each thread's tryRetain and handleOverflow/Underflow
  location,     \* TRUE when the __weak variable holds the object
  assoc,        \* TRUE when the AssociationsHashMap has the object
  refs,         \* ghost: strong references <<thread, slot>>
  deallocator,  \* the thread that was told to send -dealloc, or NoThread
  freed         \* TRUE when the memory is not allocated

object == <<isa, side>>
clients == <<refs, deallocator, freed>>
locals == <<pc, old, arg>>
vars == <<isa, side, lock, pc, old, arg, location, assoc, refs, deallocator,
          freed>>

Refs == Threads \X Slots

IsaBits == [nonpointer : BOOLEAN, extra_rc : 0..RC_MAX, deallocating : BOOLEAN,
        has_sidetable_rc : BOOLEAN, weakly_referenced : BOOLEAN,
        has_assoc : BOOLEAN]

SideEntry == [present : BOOLEAN, rc : Nat, deallocating : BOOLEAN,
         weakly_referenced : BOOLEAN]

\* initIsa for a class whose instances have a nonpointer isa.
NonpointerIsa ==
  [nonpointer |-> TRUE, extra_rc |-> 0, deallocating |-> FALSE,
   has_sidetable_rc |-> FALSE, weakly_referenced |-> FALSE,
   has_assoc |-> FALSE]

\* A raw class pointer: none of the bit fields means anything.
RawIsa == [NonpointerIsa EXCEPT !.nonpointer = FALSE]

\* refcnts.find(this) == refcnts.end()
NoEntry == [present |-> FALSE, rc |-> 0, deallocating |-> FALSE,
            weakly_referenced |-> FALSE]

\* refcnts[this] += count, creating the entry when there is none.
AddRC(entry, count) ==
  [entry EXCEPT !.present = TRUE, !.rc = @ + count]

Idle == {"idle", "dealloc"}

Labels == Idle \cup
  {"retainLoad", "retainLock", "retainStore", "retainAddExtra", "retainRaw",
   "tryRetainRaw", "releaseLoad", "releaseLock", "releaseStore", "borrow",
   "borrowStore", "borrowReload", "borrowRestore", "putBack", "deallocStore",
   "releaseRaw", "overrelease", "weakLock", "storeWeakLock", "setWeakLoad",
   "setWeakStore", "setAssocLoad", "setAssocStore", "changeLoad",
   "changeLock", "changeStore", "changeMove", "dispose", "clear",
   "clearLock", "free"}

Init ==
  /\ isa = NonpointerIsa
  /\ side = NoEntry
  /\ lock = NoThread
  /\ pc = [t \in Threads |-> "idle"]
  /\ old = [t \in Threads |-> NonpointerIsa]
  /\ arg = [t \in Threads |-> [tryRetain |-> FALSE, slow |-> FALSE]]
  /\ location = FALSE
  /\ assoc = FALSE
  /\ refs = {}
  /\ deallocator = NoThread
  /\ freed = TRUE

-----------------------------------------------------------------------------
(* Helpers *)

(* Each step says where the thread goes, and with that what becomes of its *)
(* locals: kept, read again, dead until the next load, or gone.            *)

NoArg == [tryRetain |-> FALSE, slow |-> FALSE]

Goto(t, label) == pc' = [pc EXCEPT ![t] = label] /\ UNCHANGED <<old, arg>>

\* oldisa = LoadExclusive(&isa.bits)
LoadExclusive(t, label) ==
  /\ pc' = [pc EXCEPT ![t] = label]
  /\ old' = [old EXCEPT ![t] = isa]
  /\ UNCHANGED arg

\* The retry loops: oldisa is not read again before it is loaded.
Restart(t, label, newarg) ==
  /\ pc' = [pc EXCEPT ![t] = label]
  /\ old' = [old EXCEPT ![t] = NonpointerIsa]
  /\ arg' = [arg EXCEPT ![t] = newarg]

Retry(t, label) == Restart(t, label, arg[t])

\* Mutant: the slow frame is entered with handleOverflow still FALSE.
GoSlowNot(t, label) == Retry(t, label)

\* rootRetain_overflow and rootRelease_underflow: again, in the slow frame.
GoSlow(t, label) == Restart(t, label, [arg[t] EXCEPT !.slow = TRUE])

\* Back in the client: in -dealloc for the thread that runs it.
Return(t) == Restart(t, IF deallocator = t THEN "dealloc" ELSE "idle", NoArg)

Lock(t) == lock = NoThread /\ lock' = t
UnlockIfHeld(t) == lock' = IF lock = t THEN NoThread ELSE lock

StoreExclusive(t, newisa) == isa = old[t] /\ isa' = newisa

\* The store fails when the word changed, or for no reason on arm64.
StoreFails(t) == (isa # old[t] \/ SpuriousFailure) /\ UNCHANGED isa

\* The client may name the object: it owns a reference or runs -dealloc.
MayUse(t) ==
  /\ pc[t] \in Idle
  /\ ~freed
  /\ (\E n \in Slots : <<t, n>> \in refs) \/ deallocator = t

HasRoom(t) == \E n \in Slots : <<t, n>> \notin refs

GainRef(t) ==
  \E n \in Slots : <<t, n>> \notin refs /\ refs' = refs \cup {<<t, n>>}

DropRef(t) ==
  \E n \in Slots : <<t, n>> \in refs /\ refs' = refs \ {<<t, n>>}

-----------------------------------------------------------------------------
(* Allocation, and a reference handed to another thread (environment).     *)

Alloc(t) ==
  /\ freed
  /\ \A u \in Threads : pc[u] \in {"idle", "weakLock"}
  /\ isa' \in {NonpointerIsa, RawIsa}
  /\ \E n \in Slots : refs' = {<<t, n>>}
  /\ freed' = FALSE
  /\ UNCHANGED <<side, lock, locals, location, assoc, deallocator>>

HandOver(t, u) ==
  /\ MayUse(t)
  /\ pc[u] \in Idle
  /\ \E n, m \in Slots :
       /\ <<t, n>> \in refs
       /\ <<u, m>> \notin refs
       /\ refs' = (refs \ {<<t, n>>}) \cup {<<u, m>>}
  /\ UNCHANGED <<object, lock, locals, location, assoc, deallocator, freed>>

-----------------------------------------------------------------------------
(* rootRetain(tryRetain, handleOverflow) *)

RetainBegin(t) ==
  /\ MayUse(t)
  /\ HasRoom(t)
  /\ Goto(t, "retainLoad")
  /\ UNCHANGED <<object, lock, location, assoc, clients>>

RetainLoad(t) ==
  LET try == arg[t].tryRetain
      overflow == isa.extra_rc = RC_MAX
  IN
  /\ pc[t] = "retainLoad"
  /\ \/ /\ ~isa.nonpointer
        /\ Retry(t, IF try THEN "tryRetainRaw" ELSE "retainRaw")
        /\ IF try THEN UNCHANGED lock ELSE UnlockIfHeld(t)
     \/ /\ isa.nonpointer /\ try /\ isa.deallocating
        /\ UnlockIfHeld(t)                  \* objc_loadWeakRetained: nil
        /\ Return(t)
     \/ /\ isa.nonpointer /\ ~(try /\ isa.deallocating)
        /\ \/ ~overflow /\ LoadExclusive(t, "retainStore")
           \/ overflow /\ ~arg[t].slow /\ GoSlow(t, "retainLoad")
           \/ /\ overflow /\ arg[t].slow
              /\ LoadExclusive(t, IF try \/ lock = t THEN "retainStore"
                                  ELSE "retainLock")
        /\ UNCHANGED lock
  /\ UNCHANGED <<object, location, assoc, clients>>

RetainLock(t) ==
  /\ pc[t] = "retainLock"
  /\ Lock(t)
  /\ Goto(t, "retainStore")
  /\ UNCHANGED <<object, location, assoc, clients>>

\* extra_rc++, or leave half of the counts inline.
Retained(word) ==
  IF word.extra_rc = RC_MAX
  THEN [word EXCEPT !.extra_rc = RC_HALF, !.has_sidetable_rc = TRUE]
  ELSE [word EXCEPT !.extra_rc = @ + 1]

RetainStore(t) ==
  /\ pc[t] = "retainStore"
  /\ \/ /\ StoreExclusive(t, Retained(old[t]))
        /\ GainRef(t)
        /\ IF old[t].extra_rc = RC_MAX
           THEN Retry(t, "retainAddExtra") /\ UNCHANGED lock
           ELSE Return(t) /\ UnlockIfHeld(t)
     \/ /\ StoreFails(t)
        /\ Retry(t, "retainLoad")
        /\ UNCHANGED <<refs, lock>>
  /\ UNCHANGED <<side, location, assoc, deallocator, freed>>

\* sidetable_addExtraRC_nolock(RC_HALF), then the unlock.
RetainAddExtra(t) ==
  /\ pc[t] = "retainAddExtra"
  /\ side' = AddRC(side, RC_HALF)
  /\ UnlockIfHeld(t)
  /\ Return(t)
  /\ UNCHANGED <<isa, location, assoc, clients>>

\* sidetable_retain
RetainRaw(t) ==
  /\ pc[t] = "retainRaw"
  /\ lock = NoThread
  /\ side' = AddRC(side, 1)
  /\ GainRef(t)
  /\ Return(t)
  /\ UNCHANGED <<isa, lock, location, assoc, deallocator, freed>>

\* Mutant: the weak load forgets to ask whether the object is deallocating.
TryRetainRawAlways(t) ==
  /\ pc[t] = "tryRetainRaw"
  /\ side' = AddRC(side, 1)
  /\ GainRef(t)
  /\ UnlockIfHeld(t)
  /\ Return(t)
  /\ UNCHANGED <<isa, location, assoc, deallocator, freed>>

\* sidetable_tryRetain: the lock is the caller's, who drops it next.
TryRetainRaw(t) ==
  /\ pc[t] = "tryRetainRaw"
  /\ \/ /\ side.deallocating
        /\ UNCHANGED <<side, refs>>
     \/ /\ ~side.deallocating
        /\ side' = AddRC(side, 1)
        /\ GainRef(t)
  /\ UnlockIfHeld(t)
  /\ Return(t)
  /\ UNCHANGED <<isa, location, assoc, deallocator, freed>>

-----------------------------------------------------------------------------
(* rootRelease(performDealloc, handleUnderflow) *)

ReleaseBegin(t) ==
  /\ MayUse(t)
  /\ \E n \in Slots : <<t, n>> \in refs
  /\ Goto(t, "releaseLoad")
  /\ UNCHANGED <<object, lock, location, assoc, clients>>

ReleaseLoad(t) ==
  LET underflow == isa.extra_rc = 0
  IN
  /\ pc[t] = "releaseLoad"
  /\ \/ /\ ~isa.nonpointer
        /\ UnlockIfHeld(t)
        /\ Retry(t, "releaseRaw")
     \/ /\ isa.nonpointer
        /\ \/ ~underflow /\ LoadExclusive(t, "releaseStore")
           \/ /\ underflow /\ ~isa.has_sidetable_rc /\ ~isa.deallocating
              /\ LoadExclusive(t, "deallocStore")
           \/ /\ underflow /\ isa.has_sidetable_rc /\ ~arg[t].slow
              /\ GoSlow(t, "releaseLoad")
           \/ /\ underflow /\ isa.has_sidetable_rc /\ arg[t].slow
              /\ IF lock = t THEN LoadExclusive(t, "borrow")
                 ELSE Retry(t, "releaseLock")
        /\ UNCHANGED lock
     \/ /\ isa.nonpointer
        /\ underflow /\ ~isa.has_sidetable_rc /\ isa.deallocating
        /\ UnlockIfHeld(t)
        /\ LoadExclusive(t, "overrelease")
  /\ UNCHANGED <<object, location, assoc, clients>>

\* Mutant: borrows right after taking the lock, without "goto retry".
ReleaseLockNoRetry(t) ==
  /\ pc[t] = "releaseLock"
  /\ Lock(t)
  /\ Goto(t, "borrow")
  /\ UNCHANGED <<object, location, assoc, clients>>

\* sidetable_lock(), then goto retry: the isa may be a raw pointer by now.
ReleaseLock(t) ==
  /\ pc[t] = "releaseLock"
  /\ Lock(t)
  /\ Retry(t, "releaseLoad")
  /\ UNCHANGED <<object, location, assoc, clients>>

\* extra_rc--
Released(word) == [word EXCEPT !.extra_rc = @ - 1]

ReleaseStore(t) ==
  /\ pc[t] = "releaseStore"
  /\ \/ /\ StoreExclusive(t, Released(old[t]))
        /\ DropRef(t)
        /\ UnlockIfHeld(t)
        /\ Return(t)
     \/ /\ StoreFails(t)
        /\ Retry(t, "releaseLoad")
        /\ UNCHANGED <<refs, lock>>
  /\ UNCHANGED <<side, location, assoc, deallocator, freed>>

\* sidetable_subExtraRC_nolock(RC_HALF)
Borrow(t) ==
  /\ pc[t] = "borrow"
  /\ \/ /\ side.rc > 0
        /\ side' = [side EXCEPT !.rc = @ - RC_HALF]
        /\ Goto(t, "borrowStore")
        /\ UNCHANGED lock
     \/ /\ side.rc = 0
        /\ IF old[t].deallocating
           THEN Goto(t, "overrelease") /\ UnlockIfHeld(t)
           ELSE Goto(t, "deallocStore") /\ UNCHANGED lock
        /\ UNCHANGED side
  /\ UNCHANGED <<isa, location, assoc, clients>>

\* Mutant: all that was borrowed goes inline, the decrement is forgotten.
BorrowedAll(word) == [word EXCEPT !.extra_rc = RC_HALF]

\* newisa.extra_rc = borrowed - 1: the original decrement is redone too, and
\* "has_sidetable_rc must remain set even if the side table count is zero".
Borrowed(word) == [word EXCEPT !.extra_rc = RC_HALF - 1]

BorrowStore(t) ==
  /\ pc[t] = "borrowStore"
  /\ \/ /\ StoreExclusive(t, Borrowed(old[t]))
        /\ DropRef(t)
        /\ UnlockIfHeld(t)
        /\ Return(t)
     \/ /\ StoreFails(t)
        /\ Retry(t, "borrowReload")
        /\ UNCHANGED <<refs, lock>>
  /\ UNCHANGED <<side, location, assoc, deallocator, freed>>

\* oldisa2: "try it again right now", on top of what the word holds now.
BorrowReload(t) ==
  /\ pc[t] = "borrowReload"
  /\ IF isa.nonpointer /\ isa.extra_rc + (RC_HALF - 1) <= RC_MAX
     THEN LoadExclusive(t, "borrowRestore")
     ELSE Retry(t, "putBack")
  /\ UNCHANGED <<object, lock, location, assoc, clients>>

Restored(word) == [word EXCEPT !.extra_rc = @ + (RC_HALF - 1)]

BorrowRestore(t) ==
  /\ pc[t] = "borrowRestore"
  /\ \/ /\ StoreExclusive(t, Restored(old[t]))
        /\ DropRef(t)
        /\ UnlockIfHeld(t)
        /\ Return(t)
     \/ /\ StoreFails(t)
        /\ Retry(t, "putBack")
        /\ UNCHANGED <<refs, lock>>
  /\ UNCHANGED <<side, location, assoc, deallocator, freed>>

\* sidetable_addExtraRC_nolock(borrowed), then goto retry with the lock.
PutBack(t) ==
  /\ pc[t] = "putBack"
  /\ side' = AddRC(side, RC_HALF)
  /\ Retry(t, "releaseLoad")
  /\ UNCHANGED <<isa, lock, location, assoc, clients>>

\* The client's -dealloc starts.
SendDealloc(t) == deallocator' = t /\ Restart(t, "dealloc", NoArg)

\* The deallocating decrement; SEL_dealloc is sent after the unlock.
BeginDealloc(word) == [word EXCEPT !.deallocating = TRUE]

DeallocStore(t) ==
  /\ pc[t] = "deallocStore"
  /\ \/ /\ StoreExclusive(t, BeginDealloc(old[t]))
        /\ DropRef(t)
        /\ UnlockIfHeld(t)
        /\ SendDealloc(t)
     \/ /\ StoreFails(t)
        /\ Retry(t, "releaseLoad")
        /\ UNCHANGED <<refs, lock, deallocator>>
  /\ UNCHANGED <<side, location, assoc, freed>>

\* sidetable_release.  "it->second < SIDE_TABLE_DEALLOCATING" says that the
\* count is zero and the deallocating bit is clear.
ReleaseRaw(t) ==
  /\ pc[t] = "releaseRaw"
  /\ lock = NoThread
  /\ DropRef(t)
  /\ IF side.rc = 0 /\ ~side.deallocating
     THEN /\ side' = [AddRC(side, 0) EXCEPT !.deallocating = TRUE]
          /\ SendDealloc(t)
     ELSE /\ side' = [side EXCEPT !.rc = @ - 1]
          /\ UNCHANGED deallocator
          /\ Return(t)
  /\ UNCHANGED <<isa, lock, location, assoc, freed>>

-----------------------------------------------------------------------------
(* objc_loadWeakRetained and objc_storeWeakOrNil on the __weak variable *)

\* The variable is read before the lock is taken...
LoadWeak(t) ==
  /\ pc[t] \in Idle
  /\ location
  /\ HasRoom(t)
  /\ Goto(t, "weakLock")
  /\ UNCHANGED <<object, lock, location, assoc, clients>>

\* ...and compared again after; the retry reads nil and returns it.
WeakLock(t) ==
  /\ pc[t] = "weakLock"
  /\ lock = NoThread
  /\ IF location
     THEN /\ lock' = t
          /\ Restart(t, "retainLoad", [NoArg EXCEPT !.tryRetain = TRUE])
     ELSE UNCHANGED lock /\ Return(t)
  /\ UNCHANGED <<object, location, assoc, clients>>

StoreWeakBegin(t) ==
  /\ MayUse(t)
  /\ Goto(t, "storeWeakLock")
  /\ UNCHANGED <<object, lock, location, assoc, clients>>

\* rootIsDeallocating
IsDeallocating ==
  IF isa.nonpointer THEN isa.deallocating ELSE side.deallocating

\* Mutant: a weak reference to an object being deallocated is accepted.
StoreWeakLockAlways(t) ==
  /\ pc[t] = "storeWeakLock"
  /\ Lock(t)
  /\ Goto(t, "setWeakLoad")
  /\ UNCHANGED <<object, location, assoc, clients>>

\* lock, weak_register_no_lock: rejects an object being deallocated.
StoreWeakLock(t) ==
  /\ pc[t] = "storeWeakLock"
  /\ lock = NoThread
  /\ IF IsDeallocating
     THEN location' = FALSE /\ UNCHANGED lock /\ Return(t)
     ELSE lock' = t /\ UNCHANGED location /\ Goto(t, "setWeakLoad")
  /\ UNCHANGED <<object, assoc, clients>>

\* *location = newObj and the unlock, once the object is marked.
StoreLocation(t) ==
  /\ location' = TRUE
  /\ UnlockIfHeld(t)
  /\ Return(t)

\* setWeaklyReferenced_nolock
SetWeakLoad(t) ==
  /\ pc[t] = "setWeakLoad"
  /\ \/ /\ ~isa.nonpointer     \* sidetable_setWeaklyReferenced_nolock
        /\ side' = [AddRC(side, 0) EXCEPT !.weakly_referenced = TRUE]
        /\ StoreLocation(t)
     \/ /\ isa.nonpointer /\ isa.weakly_referenced
        /\ StoreLocation(t)
        /\ UNCHANGED side
     \/ /\ isa.nonpointer /\ ~isa.weakly_referenced
        /\ LoadExclusive(t, "setWeakStore")
        /\ UNCHANGED <<side, location, lock>>
  /\ UNCHANGED <<isa, assoc, clients>>

SetWeak(word) == [word EXCEPT !.weakly_referenced = TRUE]

SetWeakStore(t) ==
  /\ pc[t] = "setWeakStore"
  /\ \/ /\ StoreExclusive(t, SetWeak(old[t]))
        /\ StoreLocation(t)
     \/ /\ StoreFails(t)
        /\ Retry(t, "setWeakLoad")
        /\ UNCHANGED <<location, lock>>
  /\ UNCHANGED <<side, assoc, clients>>

-----------------------------------------------------------------------------
(* _object_set_associative_reference and setHasAssociatedObjects.  The      *)
(* AssociationsManager lock is held exactly while a thread is in the loop.  *)

SetAssocBegin(t) ==
  /\ MayUse(t)
  /\ ~assoc
  /\ \A u \in Threads : pc[u] \notin {"setAssocLoad", "setAssocStore"}
  /\ assoc' = TRUE
  /\ Goto(t, "setAssocLoad")
  /\ UNCHANGED <<object, lock, location, clients>>

SetAssocLoad(t) ==
  /\ pc[t] = "setAssocLoad"
  /\ IF ~isa.nonpointer \/ isa.has_assoc
     THEN Return(t)
     ELSE LoadExclusive(t, "setAssocStore")
  /\ UNCHANGED <<object, lock, location, assoc, clients>>

SetAssoc(word) == [word EXCEPT !.has_assoc = TRUE]

SetAssocStore(t) ==
  /\ pc[t] = "setAssocStore"
  /\ \/ StoreExclusive(t, SetAssoc(old[t])) /\ Return(t)
     \/ StoreFails(t) /\ Retry(t, "setAssocLoad")
  /\ UNCHANGED <<side, lock, location, assoc, clients>>

-----------------------------------------------------------------------------
(* changeIsa to a class whose instances need a raw isa.  The other          *)
(* transitions of changeIsa keep every bit that is modelled.                *)

ChangeIsaBegin(t) ==
  /\ MayUse(t)
  /\ Goto(t, "changeLoad")
  /\ UNCHANGED <<object, lock, location, assoc, clients>>

ChangeIsaLoad(t) ==
  /\ pc[t] = "changeLoad"
  /\ IF isa.nonpointer
     THEN /\ LoadExclusive(t, IF lock = t THEN "changeStore"
                              ELSE "changeLock")
          /\ UNCHANGED lock
     ELSE Return(t) /\ UnlockIfHeld(t)
  /\ UNCHANGED <<object, location, assoc, clients>>

\* Taken before the isa is set, "to prevent races such as concurrent
\* -release"; the store still compares with the word read before it.
ChangeIsaLock(t) ==
  /\ pc[t] = "changeLock"
  /\ Lock(t)
  /\ Goto(t, "changeStore")
  /\ UNCHANGED <<object, location, assoc, clients>>

ChangeIsaStore(t) ==
  /\ pc[t] = "changeStore"
  /\ \/ StoreExclusive(t, RawIsa) /\ Goto(t, "changeMove")
     \/ StoreFails(t) /\ Retry(t, "changeLoad")
  /\ UNCHANGED <<side, lock, location, assoc, clients>>

\* sidetable_moveExtraRC_nolock, then the unlock.
ChangeIsaMove(t) ==
  /\ pc[t] = "changeMove"
  /\ side' = [present |-> TRUE,
              rc |-> side.rc + old[t].extra_rc,
              deallocating |-> side.deallocating \/ old[t].deallocating,
              weakly_referenced |->
                side.weakly_referenced \/ old[t].weakly_referenced]
  /\ UnlockIfHeld(t)
  /\ Return(t)
  /\ UNCHANGED <<isa, location, assoc, clients>>

-----------------------------------------------------------------------------
(* The end of -dealloc: rootDealloc, object_dispose, clearDeallocating.     *)

GiveBack(t) ==
  freed' = TRUE /\ deallocator' = NoThread /\ Restart(t, "idle", NoArg)

\* By then the client has balanced every retain made in -dealloc.
RootDealloc(t) ==
  /\ pc[t] = "dealloc"
  /\ refs = {}
  /\ IF /\ isa.nonpointer
        /\ ~isa.weakly_referenced
        /\ ~isa.has_assoc
        /\ ~isa.has_sidetable_rc
     THEN GiveBack(t)
     ELSE Goto(t, "dispose") /\ UNCHANGED <<freed, deallocator>>
  /\ UNCHANGED <<object, lock, location, assoc, refs>>

\* objc_destructInstance: a raw isa always looks for associations.
Dispose(t) ==
  /\ pc[t] = "dispose"
  /\ assoc' = (assoc /\ isa.nonpointer /\ ~isa.has_assoc)
  /\ Goto(t, "clear")
  /\ UNCHANGED <<object, lock, location, clients>>

ClearDeallocating(t) ==
  /\ pc[t] = "clear"
  /\ Goto(t, IF \/ ~isa.nonpointer
                \/ isa.weakly_referenced
                \/ isa.has_sidetable_rc
             THEN "clearLock" ELSE "free")
  /\ UNCHANGED <<object, lock, location, assoc, clients>>

\* Mutant: the tables are cleared without the lock.
ClearDeallocatingNoLock(t) ==
  /\ pc[t] = "clearLock"
  /\ location' = FALSE
  /\ side' = NoEntry
  /\ Goto(t, "free")
  /\ UNCHANGED <<isa, lock, assoc, clients>>

\* clearDeallocating_slow and sidetable_clearDeallocating, which look for
\* the weakly-referenced bit in the isa and in the entry respectively.
ClearDeallocatingLocked(t) ==
  LET marked == IF isa.nonpointer THEN isa.weakly_referenced
                ELSE side.weakly_referenced
      erase == isa.nonpointer => isa.has_sidetable_rc
  IN
  /\ pc[t] = "clearLock"
  /\ lock = NoThread
  /\ location' = (location /\ ~marked)
  /\ side' = IF erase THEN NoEntry ELSE side
  /\ Goto(t, "free")
  /\ UNCHANGED <<isa, lock, assoc, clients>>

Free(t) ==
  /\ pc[t] = "free"
  /\ GiveBack(t)
  /\ UNCHANGED <<object, lock, location, assoc, refs>>

-----------------------------------------------------------------------------
\* What a client decides to do.
Call(t) ==
  \/ Alloc(t) \/ RetainBegin(t) \/ ReleaseBegin(t) \/ LoadWeak(t)
  \/ StoreWeakBegin(t) \/ SetAssocBegin(t) \/ ChangeIsaBegin(t)
  \/ \E u \in Threads : HandOver(t, u)

\* What the runtime does for it.
Step(t) ==
  \/ RetainLoad(t) \/ RetainLock(t) \/ RetainStore(t) \/ RetainAddExtra(t)
  \/ RetainRaw(t) \/ TryRetainRaw(t)
  \/ ReleaseLoad(t) \/ ReleaseLock(t) \/ ReleaseStore(t) \/ Borrow(t)
  \/ BorrowStore(t) \/ BorrowReload(t) \/ BorrowRestore(t) \/ PutBack(t)
  \/ DeallocStore(t) \/ ReleaseRaw(t)
  \/ WeakLock(t) \/ StoreWeakLock(t) \/ SetWeakLoad(t) \/ SetWeakStore(t)
  \/ SetAssocLoad(t) \/ SetAssocStore(t)
  \/ ChangeIsaLoad(t) \/ ChangeIsaLock(t) \/ ChangeIsaStore(t)
  \/ ChangeIsaMove(t)
  \/ RootDealloc(t) \/ Dispose(t) \/ ClearDeallocating(t)
  \/ ClearDeallocatingLocked(t) \/ Free(t)

Next == \E t \in Threads : Call(t) \/ Step(t)

Spec == Init /\ [][Next]_vars

\* A thread inside the runtime is scheduled again.  Nothing makes a client
\* call anything.
Fairness == \A t \in Threads : WF_vars(Step(t))

FairSpec == Spec /\ Fairness

-----------------------------------------------------------------------------
(* Properties *)

TypeOK ==
  /\ isa \in IsaBits
  /\ side \in SideEntry
  /\ lock \in Threads \cup {NoThread}
  /\ pc \in [Threads -> Labels]
  /\ old \in [Threads -> IsaBits]
  /\ arg \in [Threads -> [tryRetain : BOOLEAN, slow : BOOLEAN]]
  /\ location \in BOOLEAN
  /\ assoc \in BOOLEAN
  /\ refs \subseteq Refs
  /\ deallocator \in Threads \cup {NoThread}
  /\ freed \in BOOLEAN

\* The counts that are in neither place: the owner of the lock has taken
\* them out of one and not yet put them into the other.
Borrowing ==
  {"retainAddExtra", "borrowStore", "borrowReload", "borrowRestore", "putBack"}

InTransit ==
  IF lock \in Threads /\ pc[lock] \in Borrowing THEN RC_HALF
  ELSE IF lock \in Threads /\ pc[lock] = "changeMove" THEN old[lock].extra_rc
  ELSE 0

\* No retain or release is ever lost or counted twice, wherever the counts
\* are: the strong references in existence are the inline count, the side
\* table's and those in transit, plus the one that an object which is not
\* deallocating has for free (rootRetainCount's "1 +").
CountIsConserved ==
  ~freed =>
    Cardinality(refs) + (IF deallocator = NoThread THEN 0 ELSE 1)
      = 1 + isa.extra_rc + side.rc + InTransit

\* Steps that read or write the object's own memory.
Accessing(t) ==
  pc[t] \notin {"idle", "weakLock"}

\* The memory is given back only when no thread is inside an operation on
\* it: a reader that has found the object through the weak variable has
\* the lock that clearDeallocating needs.
NoUseAfterFree == freed => \A t \in Threads : ~Accessing(t)

\* A weak variable never names memory that was given back.
WeakNeverDangles == location => ~freed

\* Nothing kept under the object's address outlives it: an object allocated
\* there later would inherit counts and associations ("assert(!sidetable_
\* present())" in rootDealloc and clearDeallocating).
NothingOutlivesObject == freed => side = NoEntry /\ ~assoc

\* A balanced client is never told that it over-released, and the side
\* table's count is not decremented below zero (the assertion "shouldn't
\* underflow" of sidetable_subExtraRC_nolock).
NoOverrelease ==
  \A t \in Threads :
    /\ pc[t] # "overrelease"
    /\ pc[t] = "borrow" => side.rc = 0 \/ side.rc >= RC_HALF
    /\ pc[t] = "releaseRaw" /\ lock = NoThread =>
         side.rc > 0 \/ ~side.deallocating

\* The assertions on entry to sidetable_addExtraRC_nolock and
\* sidetable_subExtraRC_nolock: the isa cannot turn raw under a thread that
\* holds the lock, and the isa-side bits are not in the table.
ExtraRCAssertions ==
  \A t \in Threads :
    pc[t] \in {"retainAddExtra", "borrow", "putBack"} =>
      lock = t /\ isa.nonpointer /\ ~side.deallocating
               /\ ~side.weakly_referenced

\* What a client of the object relies on, and the runtime of itself, while
\* its retains, releases, weak loads and deallocation interleave.
ObjectIsSafe ==
  /\ NoUseAfterFree
  /\ WeakNeverDangles
  /\ NothingOutlivesObject
  /\ NoOverrelease
  /\ ExtraRCAssertions

\* -dealloc is sent once per object, at the end of the last release, and a
\* thread that is not the deallocating one gets no reference out of the weak
\* variable after that.
OneDealloc ==
  [][/\ deallocator # NoThread /\ deallocator' # deallocator => freed'
     /\ deallocator = NoThread /\ deallocator' # NoThread => refs' = {}
     /\ \A t \in Threads :
          arg[t].tryRetain /\ pc[t] \in {"retainStore", "tryRetainRaw"}
            /\ pc'[t] # pc[t] /\ refs' # refs => deallocator = NoThread]_vars

Abstract == INSTANCE StrongCount WITH
  phase <- IF freed THEN "free"
           ELSE IF deallocator = NoThread THEN "live" ELSE "deallocating"

\* The word-level machinery implements the abstract reference count.
ImplementsStrongCount == Abstract!Spec

Quiet ==
  /\ \A t \in Threads : pc[t] \in Idle
  /\ lock = NoThread
  /\ refs = {} => freed

\* Steps that store the isa, and one that fails although nobody wrote.
StoreLabels ==
  {"retainStore", "releaseStore", "borrowStore", "borrowRestore",
   "deallocStore", "setWeakStore", "setAssocStore", "changeStore"}

FailsSpuriously(t) ==
  pc[t] \in StoreLabels /\ isa = old[t] /\ pc'[t] # pc[t] /\ isa' = isa

\* The loops end: when the clients stop calling and a store-exclusive no
\* longer fails for nothing, every operation finishes, and an object nobody
\* references any more has been given back.
EveryCallCompletes ==
  <>[][\A t \in Threads : ~Call(t) /\ ~FailsSpuriously(t)]_vars => <>[]Quiet
=============================================================================
