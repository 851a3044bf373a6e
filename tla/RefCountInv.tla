----------------------------- MODULE RefCountInv -----------------------------
(***************************************************************************)
(* The inductive invariant of RefCount.  The safety properties speak of    *)
(* the object; this says why they hold: who owns the lock, what entitles a *)
(* thread to be where it is, what its stale oldisa still tells it, and     *)
(* where counts and flags are while they move between the isa and the      *)
(* side table.  It is checked by TLC with the properties and proved        *)
(* inductive in module RefCountProofs.                                     *)
(***************************************************************************)
EXTENDS RefCount

Holds(t) == \E n \in Slots : <<t, n>> \in refs

\* The lock is held on entry to these steps ...
LockedLabels ==
  {"retainAddExtra", "tryRetainRaw", "borrow", "borrowStore", "borrowReload",
   "borrowRestore", "putBack", "setWeakLoad", "setWeakStore", "changeStore",
   "changeMove"}

\* ... and may or may not be held on entry to these, which sit on the loops.
LoopLabels ==
  {"retainLoad", "retainStore", "releaseLoad", "releaseStore",
   "deallocStore", "changeLoad"}

LockInv ==
  \A t \in Threads :
    /\ pc[t] \in LockedLabels => lock = t
    /\ lock = t => pc[t] \in LockedLabels \cup LoopLabels
    /\ arg[t].tryRetain =>
         /\ pc[t] \in {"retainLoad", "retainStore", "retainAddExtra",
                       "tryRetainRaw"}
         /\ lock = t
         /\ location
    /\ pc[t] = "tryRetainRaw" => arg[t].tryRetain

\* The steps of a release: the reference is there until the last of them.
ReleaseLabels ==
  {"releaseLoad", "releaseLock", "releaseStore", "borrow", "borrowStore",
   "borrowReload", "borrowRestore", "putBack", "deallocStore", "releaseRaw"}

\* The other steps on the object that a caller must be entitled to.
UseLabels ==
  {"retainLoad", "retainLock", "retainStore", "retainAddExtra", "retainRaw",
   "storeWeakLock", "setAssocLoad", "setAssocStore", "changeLoad",
   "changeLock", "changeStore", "changeMove"}

DisposeLabels == {"dispose", "clear", "clearLock", "free"}

ClientInv ==
  \A t \in Threads :
    /\ pc[t] \in ReleaseLabels => Holds(t)
    /\ pc[t] \in UseLabels =>
         Holds(t) \/ deallocator = t \/ arg[t].tryRetain
    /\ pc[t] \in {"setWeakLoad", "setWeakStore"} =>
         Holds(t) /\ deallocator = NoThread
    /\ pc[t] \in DisposeLabels \cup {"dealloc"} => deallocator = t
    /\ deallocator = t => pc[t] # "idle"
    /\ pc[t] \in DisposeLabels => refs = {}
    /\ pc[t] # "overrelease"

\* changeIsa has set the raw isa and not yet copied what the old one held.
Moving == lock \in Threads /\ pc[lock] = "changeMove"

\* The deallocating and weakly-referenced marks, wherever they are.
Deallocating ==
  IF isa.nonpointer THEN isa.deallocating
  ELSE side.deallocating \/ (Moving /\ old[lock].deallocating)

Marked ==
  IF isa.nonpointer THEN isa.weakly_referenced
  ELSE side.weakly_referenced \/ (Moving /\ old[lock].weakly_referenced)

LifeInv ==
  /\ freed =>
       /\ deallocator = NoThread /\ refs = {} /\ side = NoEntry
       /\ ~location /\ ~assoc
       /\ \A t \in Threads : pc[t] \in {"idle", "weakLock"}
  /\ ~freed /\ Deallocating => deallocator # NoThread
  /\ deallocator # NoThread => Deallocating \/ pc[deallocator] = "free"
  /\ location => Marked
  /\ assoc /\ isa.nonpointer =>
       \/ isa.has_assoc
       \/ \E t \in Threads : pc[t] \in {"setAssocLoad", "setAssocStore"}
  /\ \A t \in Threads :
       /\ pc[t] \in {"clear", "clearLock", "free"} => ~assoc
       /\ pc[t] = "free" => ~location /\ side = NoEntry

\* The table lends and gets back RC_HALF counts at a time.
HalfMultiple(n) == \E k \in 0..n : n = k * RC_HALF

\* The side table while the isa word is in charge.
SideInv ==
  /\ ~side.present => side = NoEntry
  /\ isa.nonpointer =>
       /\ ~side.deallocating /\ ~side.weakly_referenced
       /\ HalfMultiple(side.rc)
       /\ ~isa.has_sidetable_rc /\ ~freed => side = NoEntry
  /\ ~isa.nonpointer /\ ~freed => isa = RawIsa
  /\ \A t \in Threads :
       /\ pc[t] \in Borrowing \cup {"borrow"} =>
            isa.nonpointer /\ isa.has_sidetable_rc
       /\ pc[t] = "changeMove" =>
            /\ ~isa.nonpointer
            /\ ~side.deallocating /\ ~side.weakly_referenced
       /\ pc[t] \in {"retainRaw", "tryRetainRaw", "releaseRaw"} =>
            ~isa.nonpointer

\* What a thread still knows from its last load.
OldInv ==
  \A t \in Threads :
    /\ pc[t] \in {"retainStore", "retainLock", "releaseStore", "borrow",
                  "borrowStore", "borrowRestore", "deallocStore",
                  "setWeakStore", "setAssocStore", "changeLock",
                  "changeStore", "changeMove"} => old[t].nonpointer
    /\ pc[t] = "retainStore" =>
         /\ old[t].extra_rc = RC_MAX => lock = t
         /\ arg[t].tryRetain => ~old[t].deallocating
    /\ pc[t] = "releaseStore" => old[t].extra_rc > 0
    /\ pc[t] \in {"borrow", "borrowStore"} => old[t].extra_rc = 0
    /\ pc[t] = "borrow" /\ old[t].deallocating => side.rc > 0
    /\ pc[t] = "borrowRestore" => old[t].extra_rc + (RC_HALF - 1) <= RC_MAX
    /\ pc[t] = "deallocStore" =>
         /\ old[t].extra_rc = 0
         /\ ~old[t].deallocating
         /\ old[t].has_sidetable_rc => lock = t /\ side.rc = 0

IInv ==
  /\ TypeOK
  /\ IsFiniteSet(refs)
  /\ LockInv
  /\ ClientInv
  /\ LifeInv
  /\ SideInv
  /\ OldInv
  /\ CountIsConserved
=============================================================================
