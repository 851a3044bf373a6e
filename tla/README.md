# Models and proofs for SoundCodeReading

The repository collects source code for reading: an annotated Objective-C
runtime (objc4-750), CoreFoundation's run loop, dyld, fishhook and YYText.
This directory holds TLA+ models of its core logic, TLC configurations that
check them, and theorems about them with proofs checked by TLAPS.

The models follow the code of `src/objc4-750-master-debug/runtime`, the copy
that is annotated and that builds, and `src/CFRunLoop/CFRunLoop.c`. In what
follows file names without a directory are files of those two.

## The system

### Components, their state and their operations

| component | code | state | operations | here |
|---|---|---|---|---|
| retain counts | `objc-object.h`, `NSObject.mm` | the isa word of an object, its entry in a `SideTable`, the table's lock | retain, release, tryRetain, changeIsa, setHasAssociatedObjects, setWeaklyReferenced, rootDealloc, clearDeallocating | checked, proved |
| weak table | `objc-weak.mm` | a hash table from objects to hash sets of variables | register, unregister, clear, grow, compact | checked, proved |
| weak references | `NSObject.mm` | the `__weak` variables, the striped side tables | init, store, load, destroy, copy, move | checked, proved |
| autorelease pools | `NSObject.mm` (AutoreleasePoolPage) | a thread's list of pages, the hot page | push, autorelease, pop, kill | checked, proved |
| @synchronized | `objc-sync.mm` | lists of `SyncData`, two caches per thread | enter, exit | checked, proved |
| +initialize | `objc-initialize.mm` | two bits per class, a list per thread, pending subclasses | _class_initialize | checked, proved |
| +load | `objc-loadmethod.mm`, `objc-runtime-new.mm` | lists of loadable classes and categories | load_images, unmap_image, call_load_methods | checked, proved |
| method cache | `objc-cache.mm`, `objc-runtime-new.mm`, `objc-msg-x86_64.s` | buckets of a class, garbage, method lists | msgSend, lookup, fill, expand, erase, collect | checked, proved |
| run loop | `CFRunLoop.c` | modes with sources; blocks; a wake up port; the runs inside one another | run, stop, wake up, signal, perform a block | checked, partly proved |
| run loop timers | `CFRunLoop.c` | each mode's sorted list, the kernel's timer | add, remove, set the date, invalidate, fire | checked, order proved |
| associated objects | `objc-references.mm` | a map of maps under one lock | get, set, remove all | within `RefCount` |
| classes | `objc-runtime-new.mm` | realized classes, method lists, categories | realizeClass, attachCategories | - |
| dyld | `dyld-132.13/src` | images, their reference counts and states | load, link, initialize, unload | - |
| fishhook | `finshhook/fishhook.c` | a list of rebindings, the symbol pointers of images | rebind_symbols | - |
| YYText display | `YYTextAsyncLayer.m`, `YYTextTransaction.m` | a sentinel per layer, a set of transactions | display, cancel, commit | - |

They meet in a few places. `storeWeak` calls the weak table under the lock of
the side table that also protects the retain counts, and asks the retain count
whether the object is being deallocated. The last release sends `-dealloc`,
which ends in `rootDealloc`; that goes through the associations and, under the
side table's lock, the weak table. The first message to a class, which may come
out of `storeWeak`, runs +initialize. A message looks in the method cache and
then in the method lists, whose changes flush the caches. dyld calls
`load_images` for each image, and a +load may map or unmap others. The run loop
drains an autorelease pool around every pass and commits the transactions of
YYText from an observer; its timers are called from a pass.

### What is hard here

* *Two representations of one number.* The retain count lives in a bit field
  that is changed without a lock and in a table that is changed under one. Half
  of the field's range moves between them, and in the meantime the counts are
  in neither.
* *Locks that are taken late.* A release finds out only after it has read the
  isa that it needs the table's lock; after it has the lock, nothing it has
  read is true any more. A weak store reads the variable to learn which two
  locks it needs, and has to look again once it has them.
* *Memory that disappears.* A weak load finds an address in a variable and has
  to find out whether there is still an object behind it. A message that reads
  a cache without a lock must find its buckets allocated to the end.
* *Writes that are seen one by one.* The imp of a bucket before its key, the
  buckets of a cache before its mask: the order is all that protects a reader.
* *Hash tables without tombstones.* Deletion leaves a hole in a chain, and the
  search looks behind it only because of a bound that insertion has recorded.
* *Blocks that are recycled.* `@synchronized` counts down the users of a block
  outside the lock and hands the block to another object while its mutex may
  still be locked.
* *Callbacks in the middle.* +initialize runs user code with half of the class
  hierarchy initialized; that code sends messages to the other half, and throws.
  A +load loads images, a -dealloc pops pools, a callout runs the loop again.
* *Wake ups that are merged.* A run loop's port holds one message; wake ups are
  ignored while the loop is awake, and a nested run takes those of its outer one.
* *Caches of a minimum.* The kernel's timer is armed again only if a mode's next
  deadline has changed, and the deadline is computed without the timer that
  fires just now.

`hazards` in `PROJECT.json` lists these places line by line, with the property
that would notice if they went wrong.

### What makes each component correct

* Retain counts: no retain or release is lost; `-dealloc` is sent once, at the
  last release; nobody touches the memory after it has been given back; nothing
  that is kept under the address survives it.
* Weak table: a search finds exactly the variables that hold the object, always
  ends, and leaves room for the next insertion; hence a variable is nil as soon
  as its object has gone.
* Weak references: table and variables agree although a store works on two
  tables and gives up its locks in the middle; a store and a deallocation take
  effect at once; nobody waits for somebody who waits for him.
* @synchronized: one thread at a time per object, whichever block serves it;
  leaving succeeds for who has entered; ordered nesting does not deadlock.
* +initialize: once per class, superclass first, nobody gets through before it
  has finished, and the hierarchy cannot deadlock with itself.
* +load: once per class and category while its image is mapped, superclass
  first, class before category, and none is forgotten.
* Method cache: a reader touches only allocated buckets; the implementation that
  runs was in effect at some time during the message; a flushed entry does not
  come back.
* Run loop: it never sleeps on work; blocks of a mode run in order; each signal
  is performed; a stop ends the innermost run.
* Timers: each mode's list is sorted, no timer waits for longer than its
  deadline because the kernel's timer was not armed, and a due timer is called.

## Modules

| module | what it is |
|---|---|
| `StrongCount` | what the retain count of an object promises |
| `RefCount` | how the isa word and the side table keep that promise, step by step |
| `RefCountInv` | the inductive invariant of `RefCount` |
| `RefCountProofs` | the proofs about `RefCount`: its invariant, and that it implements `StrongCount` |
| `WeakVariables` | what a program is promised of its weak variables |
| `WeakTable` | the hash tables behind them, under one side table's lock |
| `WeakRef` | the threads that use them, with two side tables and their locks |
| `WeakRefProofs` | the proofs about `WeakRef` and about `WeakTable` |
| `Sync`, `SyncProofs` | @synchronized, and the proofs about it |
| `Initialize`, `InitializeProofs` | +initialize, and the proofs about it |
| `PoolStack` | the stack an autorelease pool is documented to be |
| `AutoreleasePool`, `AutoreleasePoolRefinement` | the pages it is kept in; the pages as that stack |
| `AutoreleasePoolProofs` | the proofs about `AutoreleasePool` |
| `MethodCache`, `MethodCacheProofs` | objc_msgSend, the method lookup and the method caches; the proofs about them |
| `LoadMethod`, `LoadMethodProofs` | +load methods, and the proofs about them |
| `RunLoop`, `RunLoopProofs` | the runs of a run loop, sources, blocks, waking and stopping; the proofs about them and about the timers |
| `RunLoopTimer` | its timers |
| `MC...` | the module of that name for TLC |

### RefCount

One object, at one address, and the threads that use it. `isa` is a record of
the bit fields that matter: `nonpointer`, `extra_rc`, `deallocating`,
`has_sidetable_rc`, `weakly_referenced`, `has_assoc`. `side` is the entry of
`SideTable.refcnts`: whether there is one, the count above the two flag bits,
and the flags. `lock` is the lock of the side table.

Every access to shared memory is a step. A retain is `RetainBegin`,
`RetainLoad` (`LoadExclusive` and everything that is decided from the word that
was read), `RetainStore` (the compare-and-swap, which fails if the word has
changed or, where `SpuriousFailure` says so, for no reason), and on overflow
`RetainLock` and `RetainAddExtra`. A release that has to borrow goes through
`ReleaseLock`, back to `ReleaseLoad`, `Borrow`, `BorrowStore`, `BorrowReload`,
`BorrowRestore` and `PutBack`. `old[t]` is the `oldisa` of a thread; it is reset
where the code does not read it again. `arg[t]` holds `tryRetain` and whether
the slow frame (`handleOverflow`, `handleUnderflow`) has been entered.

Sections under the lock touch only what the lock protects and are one step
together with the unlock. The raw-isa paths (`sidetable_retain`,
`sidetable_release`, `sidetable_tryRetain`) are a single step each.

The clients are the environment: a thread calls an operation only while it owns
a reference, runs the object's `-dealloc`, or goes through the weak variable. It
may pass a reference to another thread. When the object has been freed another
one may be allocated at the same address, with a nonpointer or a raw isa.

`StrongCount` has the same clients and knows only whether the object lives, who
owns references, and whether the weak variable and the associations name it.
`RefCount` implements it: the release of the last reference and the start of the
deallocation are one step there, and the compare-and-swap in `DeallocStore`
here.

### WeakTable

One weak table; every operation runs under the lock of its side table and is
one step. A hash set is a record with the slots, `size` (`TABLE_SIZE`), `num`
(`num_entries`, `num_refs`) and `max` (`max_hash_displacement`); the same
operators serve the table and the sets inside its entries, because the two
copies of the probing code do the same. `bad` records that an insertion went
round without finding a hole, where the program stops with `bad_weak_table`;
a search that would go round is `WrapsAround`.

The hash function is any function: it is chosen in the initial state. Sizes and
thresholds are parameters: 64, 1024, 16 and 8 in the code. Sizes are powers of
two (`IsSize`), so that `& mask` is `%`; a compaction leaves the table "no more
than 1/2 full" as the code's comment says, and with more than one index.

`StoreWeak` is `objc_storeWeakOrNil` and `objc_destroyWeak`, as far as one side
table is concerned. `ClearWeak` frees the object, after which its address may
belong to a new one. `WeakVariables` is the same system without the table, and
`WeakTable` implements it.

### WeakRef

The threads around that table, and both of the side tables a store may need.
A weak table is the set of its pairs of object and variable here, because
`WeakTable` says that its search finds just these; an object is the set of
threads that own a reference and one of three stages of life, because `RefCount`
says that this is what the counts amount to. `TableOf` assigns side tables to
objects and to nil; the lock of a table is a number, in the order of addresses.

A call reads the variable without a lock (`ReadLocation`), takes the locks it
needs one by one in their order (`LockNext`), starts over if the variable has
changed (`Retry`) or, without the locks, after the new object's class has been
initialized (`MustInitialize`, `Initialize`), and then does everything in one
step (`Store`, or `TryRetain` for a load). +initialize may use weak references
of any object itself: `Initialize` waits until no other thread holds a table's
lock, and its own thread holding one would be the deadlock of the comment.
`objc_initWeak` has no old value and `objc_destroyWeak` no new one.
`rootDealloc` looks at the weakly-referenced bit without a lock;
`ClearDeallocating` clears the variables under it and frees.

`WeakVariables` is implemented by `WeakRef` as it is by `WeakTable`: there the
question is the hash table, here it is the threads.

### Sync

One list of `SyncData` and its lock. Blocks are numbered in the order of
allocation: new ones go to the head and none is ever removed, so the block after
number d in the list is d - 1, and walking the list is counting down. The two
caches of a thread, the single item in the direct keys and the list behind it,
are one function from blocks to lock counts: which of them holds an item makes
no difference to anybody.

`Skip`, `Match`, `NoMatch`, `Recycle` and `Allocate` are the steps of the walk,
because the decrement of `threadCount` in `Forget` happens without the lock and
may fall between any two of them. `Forget` and `UnlockMutex` are separate steps:
in between, the block may be recycled while its mutex is locked.
`ExitUnknown` is an `objc_sync_exit` by a thread that has not entered.

### Initialize

A thread is a stack of the calls of `_class_initialize` it is in; a call that
waits for its superclass and a +initialize that has sent a message are frames of
it. What runs under `classInitLock` is one step: the test and set of
`CLS_INITIALIZING`, the whole of `lockAndFinishInitializing` with the pending
subclasses and the notification, and each look of a waiting thread. The two
reads after a failed test and set, `isInitializing` and `isInitialized`, are two
steps. A +initialize method is a client: `Uses` says to whom it may send
messages, `Throws` whether it may throw. An exception leaves the innermost
+initialize through `finish`, goes through the calls that were waiting for a
superclass, and arrives in the next +initialize, which may catch it or end the
same way.

### AutoreleasePool

One thread, as pools are not shared. Pages are only ever added to and cut off
the end of the list, so `pages` is the sequence of them from the cold page on,
each with its contents up to `next`; `parent` and `child` are neighbours. `tls`
is the thread-local slot: the number of the hot page, 0, or the placeholder.
`tokens` are the values `push` has returned to the client and that are not
popped; `calls` is the stack of pops in progress.

What a pop does between two calls of `objc_release` is one step. During the call
(`releasing`) the thread runs a -dealloc, which takes the same actions as the
client: it autoreleases, pushes, and pops what it has pushed, which begins
another pop. Pools may be popped out of order, which pops those above. A -dealloc
may return with pools open where `LeftOpen` says so; an exception that is caught
further out than the pool does that. `Kept` gathers the four ways a pop ends, in
all combinations of `DebugPoolAllocation` and `DebugMissingPools`. `BeginExit`
and `EndExit` are `tls_dealloc`, on the same `releaseUntil`.

`PoolStack` has the stack without pages. A pop takes one entry at a time there
too, because a -dealloc may see the stack in between.

### MethodCache

A class hierarchy, its method lists, the caches, and threads that send messages,
change methods and flush. `cache[c]` is `cache_t`; `heap` holds the buckets of
each allocated block, `Empty` stands for all the shared read-only buckets.
Selectors are numbers, since the hash of a key is its address; implementations
are numbers in the order in which they are made, so that an old one can be told
from a new one, and 1 is the forwarding entry.

A message is `objc_msgSend` (with the mask), `ReadBuckets`, one `Probe` per key,
`CacheHit`, and the lookup on a miss: the reader takes no lock between the first
and the last of these, and the program counter is in `InCritical` meanwhile.
`LookUp` searches the superclasses' caches and method lists under `runtimeLock`,
once more after the resolver has run (`Resolved`, `Unresolved`) without it.
`Fill`, `reallocate`, `SetBuckets`, `SetMask`, `SetImp` and `SetKey` are the
writes a reader can see, in the code's order, with a step for each.
`Scan` looks at the threads' program counters one at a time, and `Dispose` frees
what it was about. `Change` and `flushCaches` are a change of a method list and
what follows it, `cache_erase` runs class by class.

Two ghosts serve a property: `window[t]` collects the implementations that were
in effect while t's message was sent; `before` is what the method lists were
before the change that is being made.

### LoadMethod

`load_images` and `unmap_image` hold `loadMethodLock` throughout, +loads
included; only a +load that runs can call them in between, on the same thread.
So there is one actor. `load_images` begins `prepare_load_methods`, which hands
the classes of the image's list to `schedule_class_load` one by one
(`PrepareClass`) and then adds the categories (`PrepareCategories`).
`scheduling` is the stack of the recursive calls: each first calls itself for the
superclass (`ScheduleSuperclass`), then adds its class to the list and sets the
class's `RW_LOADED` (`ScheduleClass`), unless that is set already
(`ScheduledBefore`). Nobody else acts meanwhile: the steps are there because the
order of a recursion is then the order of steps.

`call_load_methods` begins if it does not run already; it is `DetachClasses`,
`CallNext` for each class, `DetachCategories`, `CallNext` for each category and
`CategoriesDone`, which starts over if there are new ones. `detached` is the list
a pass has taken and `calling` the +load that runs, `LoadReturns` its end. An
image is unmapped if no loaded image needs it, and its entries in the lists are
emptied (`_unload_image`), though not those of a detached list: see Observations.

`Needs` is what dyld is relied upon for: an image whose superclasses or whose
categories' classes lie in another image is loaded after it. `called` is a ghost,
the +loads that were called of images that are still mapped. `Lineage`, the class
and its superclasses, is what is in every set of classes that contains the class
and is closed under superclasses; defined so it needs no recursion.

### RunLoop

The run loop's thread, a stack of its runs (`CFRunLoopRunSpecific` from a
callout), and everybody else, who does an operation and then calls
`CFRunLoopWakeUp` as a separate step. A run's record has its locals and its
`_per_run_data`. One turn of `__CFRunLoopRun` is `DoBlocks`, `CollectSources0`,
`PerformSource0`, `Sources0Done`, `Decide` (to poll or to sleep), `Receive`,
`Handle` and `Result`; the label of a run is the callout it is in or the step it
is at. The loop's lock is free in callouts and while the run waits (`Unlocked`):
only there do others act, and only there a nested run begins, in the callouts
that `NestFrom` names. What a signal or a message of a port changes is read once
between two such places, so these too are allowed just there.

The whole list of blocks is taken off the loop, those of the mode run one by one
with the lock given up (`NextBlock`), and the others are put back in front
(`PutBlocksBack`). The wake up port holds a message or none. `owed` is a ghost:
the sources that were signalled and not performed since.

### RunLoopTimer

Time is a counter. `fire` is a timer's `_fireTSR`, `timers[m]` the sorted list of
a mode, `deadline[m]` the two deadlines the mode remembers and `armed[m]` when
the kernel's timer for the mode expires. `InsertionIndex` is the binary search
with its powers of two (`Shifted`), and `ArmNextTimer` is `__CFArmNextTimerInMode`, which
arms only if the deadline has changed. `CollectTimers`, `DoTimer`,
`CalloutReturns` and `TimersDone` are `__CFRunLoopDoTimers` and
`__CFRunLoopDoTimer`, whose callout gives up the locks. Setting a date copies the
timer's modes first and locks the loop later (`SetterLocks`). So does
invalidation, which marks the timer, copies its modes, and removes it from these
when it has the lock (`InvalidateLocks`). `CFRunLoopAddTimer` looks whether the
timer is valid before it locks the loop and puts it into the list (`AddLocks`);
`AddsInvalid` says whether a timer may be invalidated in between. A run, of which
only what concerns timers is here, may start in a callout and end at any time.

The shortcut for timers that go to the end of a list of more than 256 is left
out of `InsertionIndex`.

## Runs

| run | question | bounds |
|---|---|---|
| `refcount` | do counts, marks and memory stay consistent under every interleaving, do the loops end, and is `StrongCount` implemented? | 2 threads with 2 references each, extra_rc of 1 bit, spurious failures |
| `weaktable` | is every object and every variable found, does every search end, and is `WeakVariables` implemented? | 3 objects, 4 variables, 2 inline; sets and table of 2 to 8 |
| `weaktable_empty_entry` | finding: the empty entry that stays | 1 object, 3 variables |
| `weakref` | do tables and variables agree while stores, loads and deallocations overlap, does nothing deadlock, and is `WeakVariables` implemented? | 2 threads, 2 objects in different side tables, one of them nil's, 2 variables, 2 calls |
| `sync` | does @synchronized exclude, also when blocks are recycled and exits are refused? does everyone leave? | 3 threads, 2 objects, 2 blocks, each nested 2 deep in one order, counts up to 2 for refused exits |
| `initialize` | once, superclass first, nobody early? does every message return? | 2 threads, the 5 classes of the comment |
| `pool` | are the pages one stack, whatever -deallocs do meanwhile? | 4 pages of 2 entries, pops 3 deep, 2 objects |
| `methodcache` | are readers safe, is what runs current, do flushed entries stay away, is there room in every cache? | 2 threads, a class and its subclass, 3 selectors, caches of 2 and 4 buckets, 2 blocks, 3 sets of method lists, a change or flush |
| `loadmethod` | is everything scheduled in one place, called once, superclass first, class before category, and none forgotten? | 3 images, 4 classes, 4 categories, 9 loads |
| `runloop` | no wake up lost, blocks in order, signals performed, stops obeyed? | 2 modes, a source, a port, runs 2 deep, 3 operations |
| `runlooptimer` | lists sorted, no timer forgotten, due timers called? | a repeating timer in 2 modes, another in one, 4 points in time, runs 2 deep, 3 operations |
| `runlooptimer_moved` | finding: the timer that nobody arms in its other mode | the same with 4 operations, where the repeating timer's date is set |

Some properties are conjunctions of named parts. `IInv` and `ObjectIsSafe`
gather the invariants of `RefCount`; `TableInv`, `WeakInv`, `BlockInv`,
`ClassInv` and `PageInv` each start with the type invariant of their module.

### Why the bounds are enough

One bit of `extra_rc` is the smallest field: every second retain overflows and
every second release borrows, so that two references for each of two threads
reach every branch, also an underflow while another thread overflows, and a
borrow whose restoring store fails because of a retain. A third thread would add
an observer to races that are all between two: the one that moves counts and
holds the lock, and the one that changes the word. The proofs do not depend on
it: they are for any number of threads and references and any `RC_HALF`.

The sizes of the weak table are scaled down: the first size is 2 rather than 64
and 8, and a table with room for 4 is compacted when it is nearly empty, rather
than one with room for 1024. Three objects make the table grow from 2 indices to
4 and be compacted again; hashes 1 and 3 are equal modulo 2 and different modulo
4, so that chains form, wrap around the end, and come apart when the table is
resized. The inline array has two slots rather than four: the third variable
moves the set out of line and the fourth makes it grow again. The hash of a
variable is fixed, so that all of a set's elements collide.

In `weakref` a store with a deallocation, a store with a load of the same
variable, and two stores that need two tables in opposite order are all between
two threads. Two calls let each thread be in one, or one make both;
deallocations, and objects allocated where others were, are not counted as calls
and happen around and between them. Variables that are already stored into are
in the initial state. Here too the theorems are for any number of everything.

In `sync` three threads are what it takes for a block that one releases, a second
walks past and a third reuses. As each object has at most one block
(`OneBlockPerObject`), two blocks suffice for two objects, and either may come to
serve either object. Nesting is in one order; with opposite orders threads
deadlock, as they do with any locks.

The five classes of `initialize` are the ones of the comment in
`objc-initialize.mm` that tells of the deadlock, without `OBPostLoader`, whose
part is played by what +[OBObject initialize] uses. The comment's deadlock is
between two threads.

In `pool` a pool spans up to four pages, so a pop crosses pages that it frees and
pages that it keeps, and a pop within a pop within a pop meets each of its outer
ones on the same page or on another. Pages of two entries are the smallest on
which the first slot (the cold page's, the placeholder's boundary) differs from
the last, and a page can be half full, which decides whether an empty one is
kept behind it.

In `methodcache` a cache starts with 2 buckets, of which one may be used, grows
to 4, of which two may be used, and can then grow no more: the subclass's third
selector makes it empty its cache instead. The selectors 2, 4 and 6 all hash to
the first of two buckets, and to two of four, so that readers probe on and go
round the end marker. Two blocks are enough for a cache and the one it
replaces, for the caches of both classes, of which the subclass's copies from
the other's, and for both to be garbage at once while the caches are erased. In
the beginning nobody has a method for the selector 2, or the root class has one,
or the subclass has another one (`FirstMethods`), so that the one change adds,
overrides, replaces or resolves a method; a flush counts as a change. Every
stale entry needs an entry that was cached before one change and is used or
cached again after it; changes exclude each other by `runtimeLock`.

The images of `loadmethod` are a library whose list has the subclass first and a
class without a +load between the two, a bundle with a subclass and categories
on classes of its own and of the library, and one with a category only: each
order that the code takes care of can be got wrong in it. Nine loads let each
image be loaded, unmapped and loaded again, in any order and from any +load.

In `runloop` one mode has a version 0 source, the other a port, and the nested
run may be in the same mode as the outer one or in the other; three operations
are enough for two blocks or signals and a stop in any order around them.

The repeating timer of `runlooptimer` has a tolerance, so that its deadline and
its fire date differ, and is in two modes, so that it moves in a list whose mode
does not run. The other fires once, after which it is invalidated, and may share
the first mode with it. With four points in time the repeating one fires twice
and can miss a period. Only one of the two has a tolerance, so that the two never
have the same deadlines, and only the one in one mode has its date set: without
either `NoTimerForgotten` is false (see the finding and the observations). Nor is
a timer invalidated between the check of `CFRunLoopAddTimer` and its lock
(`AddsInvalid = FALSE`), in which case `NoTimerForgotten` and `DueTimersFire` are
false (see the observations). What a thread that invalidates a
timer of a mode does at any other time is in the run: until it has the lock, the
invalid timer is in the list, and `NoTimerForgotten` leaves out the mode for just
that long. Three
operations are what the evaluation of fairness leaves room for; without fairness
(`SPECIFICATION Spec`) the two invariants hold with five (`MaxDone = 5`) as well.
`MCRunLoopTimer` also assumes, and TLC evaluates, that the binary search returns
the place behind all times that are not later, for all sorted lists of up to
seven times (`InsertionIsAfterEqualTimes`).

### Fairness

`refcount` assumes that a thread inside the runtime is scheduled again (weak
fairness of its steps), and `EveryCallCompletes` asks what happens once clients
stop calling and store-exclusives no longer fail for nothing: lock-free loops
cannot be promised more, and if stores may fail for ever no loop ends on any
machine. The locks are unfair and no step is given strong fairness.

`sync` adds that a thread inside @synchronized leaves it in the end, and asks
whether everybody is out once clients stop entering: with unfair mutexes a thread
may wait as long as others keep coming.
`initialize` assumes weak fairness of the runtime's steps, and that a
+initialize method comes to its end, however often it sends messages before:
that is strong fairness of `EndInitialize`, as the method is not at its end
while a message is being delivered.

`loadmethod` and the two run loop modules assume that the one thread that works
goes on (`PrepareStep`, `LoadStep`, `LoopStep`), which includes that +loads and callouts return.
`runloop` adds that who has signalled or stopped also wakes the loop up, as
`CFRunLoopSourceSignal` requires; `runlooptimer` that the kernel's timers expire
and that the operations of clients that have begun get the lock. Neither asks
that anybody runs the loop: the liveness properties are about the run that is
innermost, as long as it is that.

`CHECK_DEADLOCK FALSE` appears where everything really may stop: in `initialize`
once every class is initialized, in `weakref` when the calls are used up, in
`loadmethod` when the loads are, and in the two timer runs at the end of time.

## What the checks show

`CountIsConserved` is the core of `RefCount`: references equal the counts in the
isa, in the table and in transit, plus the implied one. From it follow
`NoOverrelease` (the over-release path and the assertion "shouldn't underflow"
are unreachable for balanced clients) and that the last release is recognised.
`NoUseAfterFree`, `WeakNeverDangles` and `NothingOutlivesObject` are about the
moment when the memory is given back. `ExtraRCAssertions` are the assertions in
the code at the places where the isa could have turned raw. `OneDealloc` says
that `-dealloc` is sent once and that a weak load hands out nothing after it.

For the weak table `RegisteredExactly` compares what a *search* reports with
what the variables hold; the distinction matters as an element can be in the
table and yet not be found. `CountsAgree` and `NoBadTable` say that the counts
the thresholds depend on are exact and the fatal error is unreachable.

For weak references `WeakInv` says that tables and variables agree and no
variable names freed memory, and `NoDeadlock` that of the calls under way one
can go on, in particular when +initialize stores weak references itself.
`LoadsTouchNoFreedObject` is about the load that has given up its lock for
+initialize and comes back.

For @synchronized, `MutualExclusion` speaks about objects, while the mutexes
belong to blocks; `OneBlockPerObject` and `UsersAreCounted`, parts of
`BlockInv`, connect the two: a block that a thread is in, or on its way into,
has a count and is not recycled.

For +initialize, `NobodyTooEarly` says that a message goes ahead only to an
initialized class or from the class's own initializer; `NothingForgotten` that
each class that has begun is on its way to the end, also after an exception;
`NoFatal` that the three fatal errors cannot happen, in particular the one whose
comment explains why the two flags must be read in this order. The same run with
the superclass initialized after the class finds the deadlock of the comment.

For the pools, `ImplementsPoolStack` is the promise of the comment above
`AutoreleasePoolPage`, and `PopsStandFirm` says why it can be kept:
no -dealloc frees a page under a pop in progress or under an open pool.
`WhileCanBeIf` is the conjecture of a comment in `releaseUntil` ("I think this
`while` can be `if`, but I can't prove it"): it holds when pools share pages,
and when -deallocs pop what they push, and not otherwise.

For method caches `ReadersAreSafe` is why the garbage may be freed: buckets that
a reader holds are allocated, although the threads are looked at one after the
other, and its pointer stays within them, although it has read the mask of other
buckets. `DispatchIsCurrent` allows a message to run an implementation that was
replaced while it was sent and no older one; `CachesAreCurrent` says that when no
change is being made no cache holds a replaced entry, the hazard a comment in
`lookUpImpOrForward` warns of. `RoomInEveryCache` keeps the search finite.

For +load the four properties are the comment above `call_load_methods`,
with images that come and go during a +load. `LoadInv` is why they hold: of every
mapped image each class with a +load is in one of the places between the linker's
list and `called`, and in a list behind its superclasses.

For run loops, `NoLostWakeUp` says that a run that sleeps has nothing to do
that nobody will wake it for. `BlocksInOrder` is not what a single queue would
give at no cost: the list is taken apart, and nested runs see what is left.
`NoTimerForgotten` says for every mode, whether it runs or not, that the kernel's
timer expires before the last moment of each timer in its list.

### Findings

* `objc-weak.mm:376`. When the last variable of an entry whose set is out of
  line is unregistered, `weak_unregister_no_lock` looks for an empty entry by
  scanning `inline_referrers`, which share their storage with the pointer to the
  array and the out-of-line mark. The entry is never found empty and stays until
  the object is deallocated, while the comment at line 389 says it is removed.
  It costs a slot in the table; `RegisteredExactly` and `NoBadTable` hold all the
  same, because deallocation clears the entry and growth counts it.
* `CFRunLoop.c:2153`. A timer whose date is set to a later one in its own callout
  is moved in each of its modes, but no mode is armed for it while it fires; the
  callout's end arms the mode that runs and no other. A mode in which it is the
  only timer is left disarmed: a run in that mode waits until something else
  changes its timers. The run `runlooptimer_moved` finds it; `runlooptimer`, in
  which the timer in two modes is not moved, has no such state.

### Observations

What follows is seen by changing one constant of a configuration, or none, and
checking the property named.

* `objc-sync.mm:211`. An `objc_sync_exit` by a thread that has not entered the
  object is refused, as documented, but leaves `threadCount` incremented. The
  block is never recycled again. Exclusion is not affected. (`Sync.cfg` with
  `CountsThreads`; with `MaxCount = 0` it holds.)
* `NSObject.mm:798`. With `OBJC_DEBUG_POOL_ALLOCATION`, if the -dealloc of the
  last object of a pool leaves a pool of its own open, `releaseUntil` ends before
  it has got to that pool's page. In a debug build its assertion fails, otherwise
  the page is freed and what is in it is never released. (`AutoreleasePool.cfg`
  with `LeftOpen = {FALSE, TRUE}` and `ReleasedEverything`.) Under the same
  conditions the walk to the parent goes over two empty pages at once, so that
  the `while` of line 804 cannot be an `if` there (`WhileCanBeIf`).
* `objc-loadmethod.mm:135`. The list that a pass has detached is not emptied of
  the classes of an image that is unmapped by a +load of that pass.
  (`LoadMethod.cfg` with `ClosesPending = TRUE` and `CalledOnceWhileMapped` or
  `ClassesBeforeCategories`; in the run a +load does not close an image whose
  +loads are next.)
* `CFRunLoop.c:3937`. `CFRunLoopTimerSetNextFireDate` copies the timer's modes,
  gives up the timer's lock, takes the loop's and moves the timer in the modes it
  has copied. A mode to which another thread adds the timer in between has it in
  its list at the old place with the new time: the list is not sorted, which the
  binary search and the scan for the next deadline rely on (line 1974, "our sorted
  list of timers"). (`RunLoopTimerMoved.cfg` with `ListsAreSorted`.)
  `TimersAreSorted` proves that nothing else leaves a list out of order: the
  lists are always sorted if the timers whose date is set are in one mode each.
* `CFRunLoop.c:2000`. The kernel's timer is armed if the next deadlines differ from
  those remembered, and these are reset when a timer is called (line 2113, "so
  that the arm next timer code can correctly find the next timer in the list and
  arm the underlying timer"). If the timer for which the kernel's timer expires
  has been invalidated and not yet removed, none is called and the deadlines stay;
  a timer with the same ones that is added then, before the other is removed, is
  in a mode that is not armed. (`RunLoopTimer.cfg` with
  `Tolerance <- MCNoTolerance`, `MaxDone = 4` and `KernelTimerIsArmed` or
  `NoTimerForgotten`.)
* `CFRunLoop.c:3267`. `CFRunLoopAddTimer` looks whether the timer is valid before
  it locks the run loop, and not again. A timer that another thread invalidates in
  between gets into the list and stays there: `CFRunLoopTimerInvalidate` has
  removed it from the modes it was in when it was marked. Once its time is over it
  is the mode's next deadline for good. The kernel's timer expires for it, no timer
  is called, and the deadlines are the same as before, so nothing is armed
  (line 2000). A valid repeating timer of the mode is not called again until
  something changes the list, although line 2662 says "if we do not re-arm it, then
  no timers will ever be serviced again [...] The fix for the issue is to reset the
  timer here". (`RunLoopTimer.cfg` with `AddsInvalid = TRUE` and `DueTimersFire`,
  `NoTimerForgotten` or `KernelTimerIsArmed`; in the runs no timer is invalidated
  while it is added.)
* `CFRunLoop.c:2652`. "Re-arm the next timer, because we apparently fired early"
  arms only a deadline that has changed, which it has not. (`RunLoopTimer.cfg`
  with `EarlyFires = TRUE` and `KernelTimerIsArmed` or `NoTimerForgotten`; the
  run assumes that the kernel's timers do not expire early.)
* `CFRunLoop.c:2833`. A run that is started from an observer just before the
  outer one waits takes the wake up that was meant for the outer one, which goes
  to sleep on its work. (`RunLoop.cfg` with `NestFrom = {"beforeWaiting"}` and
  `NoLostWakeUp`; in the run only sources' callouts run the loop again.)

## What is proved

The theorems are for every value of the constants that the modules' assumptions
admit. None uses a fact about the code that is not in the modules.

### Retain counts

`RefCountProofs` proves that `IInv` (module `RefCountInv`) is an invariant of
`RefCount`!`Spec`, and from it the type invariant, six safety properties and the
action property `OneDealloc`, for every set of threads and slots, every `RC_HALF`
and with or without spurious failures. The assumptions are those of `RefCount`
(`RC_HALF` is a positive number, `NoThread` is not a thread). Threads and slots
need not be finite: every step adds or removes at most one reference, so the
set of references, whose cardinality `CountIsConserved` compares, is always
finite, and `IInv` says so.

`CountIsConserved` is not inductive: it says nothing about the word a thread has
read, and a compare-and-swap succeeds against just that word. `IInv` adds

* for the lock: who is at a label between lock and unlock owns it, and only one
  thread does (`LockInv`);
* for the side table: a nonpointer object has counts there only if
  `has_sidetable_rc` is set, and no flags; its counts are a multiple of
  `RC_HALF`, so that if there are any, borrowing finds `RC_HALF` of them
  (`SideInv`);
* for `old`: what the label implies about the word that was read, so that the
  equality tested by the compare-and-swap carries it over to the word that is
  there now;
* for the clients: a thread inside an operation has what the operation needs, a
  reference, the deallocation, or the lock under which it has seen the weak
  variable;
* for the end of life: which marks are still there at which step of
  deallocation, and that by then nobody else is inside.

`InitIInv` and `NextIInv` are the two steps of the induction. The latter goes
through the actions one by one, with a lemma for each part of the invariant
(`LockPreserved`, `ClientPreserved`, `SidePreserved`, `OldPreserved`,
`LifePreserved`, `CountPreserved`); the count needs lemmas about what each
operation does to a word (`RetainedWord` and its siblings) and what adding or
taking away one reference does to the cardinality (`GainRefFrame`,
`DropRefFrame`). `DeallocOnce` needs two more, for what a step may do to the
deallocation (`DeallocatorSteps`) and that it moves only its own thread
(`OthersStay`).

It also proves that `RefCount` implements `StrongCount`
(`CountsAreOneCount`). The phase of the object is a function of `freed` and
`deallocator`. The step that has to be looked at is a release by any of the four
stores: that it does not give up the last reference of a live object without
starting the deallocation follows from `CountIsConserved` in the state after it
(`LiveIsOwned`), and that `DeallocStore` gives up the last one from `LastRelease`.
That the memory goes back only when nothing names the object is `LifeInv` in the
state after that step.

### @synchronized

`SyncProofs` proves that `BlockInv` is an invariant of `Sync` and from it
`MutualExclusion`, for any finite set of threads, any objects and any number of
blocks, with stray exits and in any order of nesting. `BlockInv` is
inductive as it stands in `Sync`. Its heart are `CacheInv` and `MutexInv`: what
caches and mutexes count is the enters of the object that the block has *now*.
Recycling changes that object under them, and is harmless because a block whose
count is zero is in nobody's cache (`UsersAreCounted`) and its mutex is free or
held by the one thread that is about to unlock it. `WalkInv` says what a walk has
established so far: it does not pass the object's own block, and the unused
block it has found stays unused because only holders of the list's lock count a
new thread in. The set of threads is finite because users are counted with a
cardinality.

### Weak references

Of the threads, `WeakRefProofs` proves that `WeakInv` is an invariant of `WeakRef`
(`WeakIsSound`), that a load does not touch freed memory (`LoadsAreSafe`), and
that `WeakRef` implements `WeakVariables` (`KeepsPromise`), for any threads,
objects, variables and assignment of side tables. The lock of a side table is in
the induction only through what its holder has verified: a store that goes on has
looked at the variable again in a state it does not leave, so what matters is
that the pairs of the tables and the variables change in the same step, and that
an object without its bit is in no table (`BitInv`), because `rootDealloc` frees
such an object without a look. A deallocation in progress is known to one thread
(`LifeInv`), and a variable is used by no call that it does not survive
(`CallInv`). That no thread waits for ever is not among these theorems.

### Weak table

`WeakRefProofs` also takes `WeakTable` as an instance and proves that searches and
counts are exact (`TableIsExact`), that `bad_weak_table` is never called
(`TableNeverBad`) and that `WeakTable` implements `WeakVariables`
(`TableIsInvisible`): for any objects, variables, hash function, sizes and
thresholds. `TableFits` is what `WeakTable` assumes of them, and that nil is no
`weak_entry_t`, which the module has no need to say for TLC.

Both hash sets are one kind of set over a function `key`: an element of the table
is hashed by its object, an element of an entry by itself. `Sound` is what each
insertion, removal and resize keeps, whatever the hash function: every element is
within `max` probes of where its key hashes to, no key is twice, and `num` is the
number of occupied indices. It says nothing of holes, so a deletion needs no
tombstone: a search goes on to `max` and does not stop at them (`FoundIs`). An
insertion into a set that is not full passes only occupied indices, each of them
once, so that the new element is no farther off than there are elements
(`FreeIs`). This is why `max`, which deletions never lower, stays below the size:
an insertion raises it at most to the number of elements before, and these are at
most 3/4 of the size (`Roomy`).

A resize is a recursive function over the old array; that it goes through the old
elements one by one is proved by building that function up to every index
(`StepsExist`, `RehashSteps`), and what it leaves by induction over a set of
natural numbers (`RehashIs`): the same elements, and a `max` below their number
or 0. It asks nothing of where the elements were, so it serves the inline array
too, which becomes the first array out of line unhashed (`AppendIs`).
The inductive invariant `TableIInv` is that the table and the sets of its entries
are sound and roomy, and that the variables of an object's entry (`Holders`) are
those that hold the object. A compaction to 1/8 leaves a quarter free because the
table was at most 1/16 full (`Quotients`), and its size is a power of two again
(`SizeShrinks`).

### +initialize

`InitializeProofs` proves that `ClassInv` is an invariant of `Initialize`
(`OrderOfInitialization`), and with it `NothingForgotten`
(`NoClassIsForgotten`), `NoFatal` (`NeverFatal`) and the action property
`NobodyTooEarly` (`NoMessageTooEarly`), for any set of threads, any hierarchy
and any choice of what a +initialize uses and of which ones throw. Nothing
need be finite, and the hierarchy may even have a cycle: the proofs look at one
superclass at a time.

The invariant of the induction restates `ClassInv` for places of a stack instead
of sets of threads, so that a step which pushes, pops or replaces the top call
can be followed place by place (`Shapes`, `OneSender`, `SendersAreReady`,
`Owners`, `Waiters`), and adds `Kept`, the class that is being initialized and
has a call or a superclass to wait for, and `Tops`, what the top call of a stack
has established. The step that has to be looked at is a class's end, which
finishes all classes that wait for it, transitively: `Finished(c)` is a least
fixed point, and what is needed of it is that it is closed under `pending` and
that each of its members is `c` or waits for another member. Both are proved from its
definition; that the finished classes are this thread's comes from
`Waiters`. An exception goes through the same lemmas.

### Autorelease pools

`AutoreleasePoolProofs` proves `PageInv` (`PagesAreInOrder`), `PopsStandFirm`
(`PopsKeepTheirPlace`) and, where `TRUE` is not in `LeftOpen`, `WhileCanBeIf`
(`WhileIsIf`), `ReleasedEverything` (`NothingIsLeftBehind`) and
`ImplementsPoolStack` (`PagesAreOneStack`), for any objects, any capacity of at
least two and any bounds on pages and pops.

The first two are not inductive: that a page is not freed under a pop depends on
who may free it, and that an ended pop leaves at most one spare page depends on
what was there before it. `IInv` adds

* `TokenOrder`: the boundaries of the open pools lie one above the other in the
  order in which they were pushed, the placeholder's where it will be;
* `CallOrder`: a pop stops above the pools it keeps (`base`) and below
  everything that was begun later, pools and inner pops alike; where a debugging
  mode frees a page that has become empty, the inner pop is on a later
  page, so that its `kill()` does not reach the outer one's;
* `Packed`: a page below the hot one is full, or each pool has its own page, and
  then only pages that a pop in progress has emptied are empty;
* `Rooted`: with `DebugMissingPools` the cold page begins with a boundary, and
  is empty only at the moment its pop ends.

Each action has a lemma of its own (`PushStep`, `ReleaseStep`, `EndPopStep`
and so on, put together in `NextStep`). Push and autorelease come down to
one entry on one page (`Adding`); pops, whether of a token, of the placeholder
or at the thread's end, begin at one place (`Beginning`); and a step
that leaves the thread without pages leaves one of the few states `Pageless`
describes.

For the conjecture about the `while`, `Explained` is added: with a page for each
pool, an empty page below the hot one has upon it the own page of a pool that a
-dealloc has pushed and that is open or being popped. So when a pop looks for
something to release, the empty hot page is the only one on its way. A pool
that is left open is forgotten without its page going away, and that is where the
hypothesis is used. It cannot be weaker: with `TRUE` in `LeftOpen` TLC
finds two empty pages in a row.

The same fact says that a pop which ends does so on the hot page
(`EndsOnHotPage`), with nothing after it: that is the assertion of debug builds.
It is also what the refinement needs, for a pop that ended below the hot page
would drop entries that the stack still has.

`PagesAreOneStack` maps the state to `PoolStack`'s: the stack is the pages one
after the other, of which those beyond the hot one are empty, and a token or the
place where a pop stops is a number of entries. `Flat` describes the concatenation by places
(`At(p, i)` is the place of entry `i` of page `p`), so that the rest need not
unfold it. An entry goes to the end of the hot page or to a fresh page, and
comes off the end, so the places below stay where they are (`StackMapped`,
`OpenMapped`, `PopsMapped` map the three variables); each action then has a
lemma that names the step of the stack it is, or shows that nothing of it
changed: `EndPop` frees only pages beyond the hot one. What the concatenation is for
any number of pages is an induction; it is done with a set of numbers and its
least number that is missing (`SetInduction`). TLC refutes the refinement,
too, with `TRUE` in `LeftOpen`.

### +load methods

`LoadMethodProofs` proves that `LoadInv` is inductive (`LoadsAreOrdered`) and from
it, for any images, classes and categories, that +loads are called superclass
first (`SuperclassesLoadFirst`), after the class's own where they are a category's
(`ClassesLoadFirst`), and once (`LoadsOnce`). The hypothesis is that no +load
closes an image whose +loads are next in the pass that runs
(`ClosesPending = FALSE`): without it TLC refutes the last two. `ImagesAssumption`
asks of the linker that an image's lists have what has a +load, a category once;
nothing is asked of the hierarchy, not even that it is finite or has no cycles,
for in one that has, the scheduling would not end but no order would be wrong.

That a class is behind *all* its superclasses, where the code looks at one, is an
argument about closed sets: the classes with `RW_LOADED` are closed under
superclasses (`MappedInv`), so they contain the lineage of a class whose
superclass has it (`LineageIsLoaded`), and those among them that have a +load wait
already or were called (`ScheduleInv`). An image that is unmapped takes nobody's
superclass with it, because the images that are mapped are closed under `Needs`
(`LineageIsMapped`). A category is behind its class because the pass over the
categories begins when no class waits (`CategoriesDetached`); those that a +load
adds meanwhile are not in the list that this pass has taken.

### Run loop

`RunLoopProofs` proves that blocks of a mode run in the order in which they were
added (`BlocksRunInOrder`), from whichever callouts the loop is run again, and
that no wake up is lost (`NoWakeUpIsLost`) where nested runs do not begin in
`Risky` callouts: those of BeforeTimers and BeforeSources, which share a label,
of BeforeWaiting, and of blocks. Modes, sources and bounds are arbitrary.

For the order of blocks (`OrderInv`): the loop's list is sorted, everything a
run has taken comes before everything in the list, and what an outer run has
taken comes before what an inner one has, because a pass takes the whole list
and puts back in front what it does not run.

For wake ups (`Watch`): a run is *heedful* from the step at which it has looked
at stops, blocks and signals until it looks again. What is asked of a heedful
run that is the innermost one is that nothing it has looked at is there now, or
that a wake up is queued or on its way, and that it does not ignore wake ups. A
nested run that ends returns to a callout whose run is not heedful, and this is
where the hypothesis is used. It is as weak as it can be: TLC finds a lost wake
up with any one of the three callouts in `NestFrom`, and none with all the
others. The run `runloop` checks `NoLostWakeUp` with `NestFrom` equal to the
sources' callouts.

### Run loop timers

`RunLoopProofs` also proves that each mode's list of timers is sorted
(`TimersAreSorted`), for any timers, intervals, tolerances, modes and bounds, if
the timers that clients move are added to one mode each (`MovedInOneMode`); the
other timers may repeat in any number of modes. TLC refutes it without the
hypothesis (see the observations). Nothing is assumed of `AddsInvalid`: lists are
sorted with invalid timers in them, too. `TimersFit` is what `RunLoopTimer` assumes of
its constants. The module takes `RunLoopTimer` as an instance, because both models
have a `stack` and a `done`.

That the lists stay sorted rests on what the binary search returns, for lists of
any length (`InsertionIndexIs`). A sorted list and a time have a *place* `c`: the
times before it are not later, those from it on are (`PlaceExists`). After each
probe what has been found is below `c`, and not farther from it than the step of
the last probe (`ProbesApproach`); the first step is a power of two above the
length (`flslIs`), so after the one of step 1 what is found is `c - 1`, or 0 where
`c` is 0, and the last probe, of step 0, tells the two apart. The powers of two
and the probes are recursive functions; that they are what their
definitions say is proved by building them, with induction over a set of natural
numbers (`ShiftedIs`, `ProbesExist`).

`TimerInv`, the inductive invariant, says of each list that it is sorted, has
each timer once, and only timers that are added to its mode; an addition that
waits for the lock is to such a mode, too (`ClientOk`). The second is
necessary: a timer is removed at its first place, and another one would remain
with a new time. The third gives the hypothesis its use: if a timer's date is
being set (`ClientOk`), the modes that were copied are not empty and among those
that it is added to, hence all of them. A timer that repeats is moved in the modes
it is in at that moment, under the lock.

### Method caches

`MethodCacheProofs` proves that readers without a lock are safe
(`ReadersStaySafe`), that a search in a cache ends (`SearchesEnd`), that caches
agree with the method lists while nobody changes them (`CachesStayCurrent`), and
that a message runs what was in effect at some time since it was sent
(`DispatchStaysCurrent`): for any finite sets of threads and classes, any
selectors, and any initial and largest capacity and load factor that
`SizesAssumption` admits, which asks that the load is less than one and that the
smallest cache is not full when it is filled to it. `ClassesAssumption` asks that
no class is above itself; where one were, `lookUpImpOrForward` ends in "Memory
corruption in class list".

`Safe`, the invariant of the first, says of buckets who may still name them: a
cache, the thread that is about to write them into a cache or has just taken
them out, the garbage list, or nobody (`BlockInv`). A reader's buckets are in
one of the first three (`ReaderInv`); its mask is not larger than that of the
cache it is about to read buckets from, because masks only grow and the new
buckets are written before the new mask; and who has been looked at by the
collector since it began, holds no garbage. The last is inductive because a
thread that was outside can only come in through a cache, and what is in a
cache is not garbage.

`Room`, the addition for the second, says that a cache whose buckets nobody is
writing is a hash table: each key is where the search for it ends (`Probed`),
and the used buckets are counted and not all (`Table`). Between the writing of
an imp and of its key the table is the one that will be there
(`Filled`); between the writing of buckets and of a mask it is a blank one.
That a key goes where its search ends, that this changes no other
key's search, and that the count grows by one exactly if the key is new, are
lemmas about probing modulo the capacity (`Reached`, `LandsOnce` and those that
follow them). Here `cache_t::find` is used as a function of the keys; that it
finds a bucket at all is `Table`'s unused bucket and a minimum over a set of
natural numbers.

`Current`, the addition for the other two, follows an implementation from the
method lists to the reader. Every used bucket of a cache, at any time, has what
was in effect *before* the change in progress (`CacheOk`), and what a thread is
about to fill in is that too (`FillOk`): with runtimeLock in its hands nobody is
changing anything (`RuntimeOk`, `NobodyElse`). A change writes the method lists
first and then works off a set of caches; those it has no longer to flush
have nothing for which the change makes a difference (`FlushOk`), so when none is
left, *before* can become *now* (`FlushedCurrent`). That this is so of the
classes it never flushes, those not below the changed one, is `ChangesBelow`; of
caches that `cache_erase_nolock` skips it is that they have no keys (`LeftAlone`,
from `Room`). A reader is in possession of buckets that are those of its own class
or nobody's any more, in which its selector's imp is one of `window` (`ReadOk`,
`Good`); a later write to them is one of the imp in effect (`WriteCurrent`), and
the write of the imp precedes the one of the key.

What is in effect is found by walking up the superclasses, and the prover has no
induction over a list. The way up from a class is described instead by what it
is, a sequence that goes from each class to its superclass and ends at a root
(`IsPath`). If some class had none or two of them, the set of those that have
would contain the superclass of each of its members, which is what
`ClassesAssumption` denies (`OnePath`); `Lineage` is that path (`LineageIs`). A
search up the caches and lists stops at the first class where there is
something, a minimum once more, and gives what is in effect whether it was found
in a list or in a superclass's cache (`FoundIs`).

## What is only model-checked

* Liveness and fairness, and `NoDeadlock`, which is stated with ENABLED: outside
  the prover's reach.
* `NoTimerForgotten`: it is false for some constants (see the finding and the
  observations), and a hypothesis that is as weak as the code justifies and
  excludes just these is not known.

## What is not modelled

* Of the retain counts: tagged pointers (they have no count), custom
  `retain`/`release` methods, the saturation of the side table's count
  (`SIDE_TABLE_RC_PINNED`, 2^61 retains), C++ destructors, zones.
* Of weak references: `objc_copyWeak` and `objc_moveWeak`, which are a load and
  an init; classes that refuse weak references; unregistering a variable that
  the table does not know (`objc_weak_error`).
* Of @synchronized: a thread that exits while it holds locks, fork.
* Of +initialize: the child of a fork.
* Of autorelease pools: tokens that were popped before or belong to another
  thread (`badPop`), the high-water mark, `objc_autoreleaseReturnValue`.
* Of method caches: `method_exchangeImplementations` and the attaching of
  categories, which flush as the modelled changes do; `cache_delete`; the check
  for +initialize in the lookup, which is `Initialize`; the messengers of other
  architectures.
* Of +load: categories of weak-linked classes that are missing.
* Of run loops: the list of observers and its changes, adding and removing
  sources, common modes, the main queue's port, creating and destroying loops
  and modes. Of timers: setting the tolerance, common modes, a timer's first
  choice among two loops.
* Associated objects have no module of their own: the map is searched and
  changed under one lock in single steps, and what is left to interleave, the
  `has_assoc` bit and the removal at deallocation, is in `RefCount`.
* Class realization, attaching of categories, method lists, protocols, layouts,
  selectors, type encodings, exceptions and the generic hash tables are
  sequential work on data under one lock, or parsing.
* objc4-779.1 is a later release of the runtime that is modelled; dyld, fishhook
  and YYText are third-party code kept for reading; the rest is samples. The
  reason for each is with the component in `PROJECT.json`. Together they are most
  of the repository's lines, as are the copies, tests and headers of the two
  runtimes.

## What could follow

`RunLoop` and `RunLoopTimer` could be composed, with the observers, which share
the run's label already.
