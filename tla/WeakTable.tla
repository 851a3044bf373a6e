----------------------------- MODULE WeakTable -----------------------------
(***************************************************************************)
(* The weak_table of a SideTable (objc-weak.mm): an open-addressing hash   *)
(* table that maps an object to the set of __weak variables that hold it.  *)
(* An entry keeps its first few variables inline and turns into a hash     *)
(* set of its own when they run out.  Both tables probe linearly, delete   *)
(* without leaving a tombstone, and end a search after                     *)
(* max_hash_displacement probes.                                           *)
(*                                                                         *)
(* Every operation runs under the lock of its SideTable and is one step.   *)
(* Sizes and thresholds are parameters; the hash function is arbitrary     *)
(* and picked in the initial state.                                        *)
(***************************************************************************)
EXTENDS Integers, FiniteSets

CONSTANTS
  Objects,
  Locations,          \* addresses of __weak variables
  Nil,
  ObjectHashes,       \* the values hash_pointer may take
  LocationHashes,     \* the values w_hash_pointer may take
  WEAK_INLINE_COUNT,
  FirstSize,          \* 64: the first size of the table
  ShrinkSize,         \* 1024: smaller tables are never compacted
  ShrinkLoad,         \* 16: compacted when at most 1/ShrinkLoad full ...
  ShrinkBy            \* 8: ... to 1/ShrinkBy of the size

ASSUME NilAssumption == Nil \notin Objects \cup Locations
ASSUME HashAssumption == ObjectHashes \cup LocationHashes \subseteq Nat

\* The sizes of arrays are powers of two, so that "& mask" is "% size".
Power[n \in Nat] == IF n = 0 THEN 1 ELSE 2 * Power[n - 1]

IsSize(size) == \E n \in 1..size : size = Power[n]

\* Compaction "leaves new table no more than 1/2 full", and more than an index.
ASSUME SizeAssumption ==
  /\ \A size \in {WEAK_INLINE_COUNT, FirstSize, ShrinkBy} :
       size \in Nat /\ IsSize(size)
  /\ {ShrinkSize, ShrinkLoad} \subseteq Nat
  /\ 2 * ShrinkBy <= ShrinkLoad /\ 2 * ShrinkBy <= ShrinkSize

VARIABLES
  hash,           \* hash_pointer and w_hash_pointer
  table,          \* the weak_table_t
  location,       \* what each __weak variable holds
  deallocating    \* objects whose deallocation has begun

vars == <<hash, table, location, deallocating>>

-----------------------------------------------------------------------------
(* Linear probing, the same in both tables.  A hash set is a record:       *)
(*   slots : what each index holds, or Nil                                 *)
(*   size  : mask + 1, or 0 before the first allocation                    *)
(*   num   : num_entries or num_refs                                       *)
(*   max   : max_hash_displacement                                         *)
(*   bad   : an insertion went all the way round (bad_weak_table)          *)

EmptySet(size) ==
  [slots |-> [i \in 0..(size - 1) |-> Nil], size |-> size, num |-> 0,
   max |-> 0, bad |-> FALSE]

Occupied(set) == {i \in 0..(set.size - 1) : set.slots[i] # Nil}

\* The index reached after d probes.
Probe(set, pointer, d) == (hash[pointer] + d) % set.size

Least(S) == CHOOSE d \in S : \A e \in S : d <= e

\* The probes at which an insertion sees a free index.
Free(set, pointer) ==
  {d \in 0..(set.size - 1) : set.slots[Probe(set, pointer, d)] = Nil}

\* Mutant: the displacement of the new element is not recorded.
PlaceNoMax(set, pointer, element, d) ==
  [set EXCEPT !.slots[Probe(set, pointer, d)] = element, !.num = @ + 1]

Place(set, pointer, element, d) ==
  [set EXCEPT !.slots[Probe(set, pointer, d)] = element,
              !.num = @ + 1,
              !.max = IF d > @ THEN d ELSE @]

\* The tail of append_referrer, and weak_entry_insert.
Insert(set, pointer, element) ==
  IF Free(set, pointer) = {} THEN [set EXCEPT !.bad = TRUE]
  ELSE Place(set, pointer, element, Least(Free(set, pointer)))

\* Mutant: a search ends at the first hole that a deletion has left.
FoundStopAtNil(set, pointer, matches) ==
  {d \in 0..(set.size - 1) :
     /\ d <= set.max
     /\ set.slots[Probe(set, pointer, d)] \in matches
     /\ \A e \in 0..d : set.slots[Probe(set, pointer, e)] # Nil}

\* The probes at which a search sees one of the elements it looks for.
Found(set, pointer, matches) ==
  {d \in 0..(set.size - 1) :
     /\ d <= set.max
     /\ set.slots[Probe(set, pointer, d)] \in matches}

\* A search for something that is not there goes all the way round
\* (bad_weak_table) before it exceeds max_hash_displacement.
WrapsAround(set) == set.size > 0 /\ set.max >= set.size - 1

\* Elements are inserted again, in the order of the old array; key[i] is the
\* pointer that the element at i is hashed by.
Rehash(old, new, key) ==
  LET insert[i \in 0..old.size] ==
        IF i = 0 THEN new
        ELSE IF old.slots[i - 1] = Nil THEN insert[i - 1]
        ELSE Insert(insert[i - 1], key[i - 1], old.slots[i - 1])
  IN insert[old.size]

-----------------------------------------------------------------------------
(* weak_entry_t *)

NoReferrers == [i \in 0..(WEAK_INLINE_COUNT - 1) |-> Nil]

\* The two arms of the union: "refs" has meaning out of line only, "inline"
\* only otherwise.
NewEntry(referent, referrer) ==
  [referent |-> referent,
   out_of_line |-> FALSE,
   inline |-> [NoReferrers EXCEPT ![0] = referrer],
   refs |-> EmptySet(0)]

Referrers(entry) ==
  IF entry.out_of_line
  THEN {entry.refs.slots[i] : i \in Occupied(entry.refs)}
  ELSE {entry.inline[i] : i \in DOMAIN entry.inline} \ {Nil}

\* The size doubles, or starts at 8.
grow_refs_and_insert(entry, referrer) ==
  LET size == IF entry.refs.size = 0 THEN 8 ELSE entry.refs.size * 2
      grown == Rehash(entry.refs, EmptySet(size), entry.refs.slots)
  IN [entry EXCEPT !.refs = Insert(grown, referrer, referrer)]

append_out_of_line(entry, referrer) ==
  IF entry.refs.num >= (entry.refs.size * 3) \div 4
  THEN grow_refs_and_insert(entry, referrer)
  ELSE [entry EXCEPT !.refs = Insert(@, referrer, referrer)]

\* The inline array becomes the first out-of-line one as it is, unhashed.
move_out_of_line(entry) ==
  [entry EXCEPT
     !.out_of_line = TRUE,
     !.inline = NoReferrers,
     !.refs = [slots |-> entry.inline, size |-> WEAK_INLINE_COUNT,
               num |-> WEAK_INLINE_COUNT, max |-> 0, bad |-> FALSE]]

append_referrer(entry, referrer) ==
  LET free == {i \in DOMAIN entry.inline : entry.inline[i] = Nil}
  IN IF entry.out_of_line THEN append_out_of_line(entry, referrer)
     ELSE IF free # {}
     THEN [entry EXCEPT !.inline[Least(free)] = referrer]
     ELSE append_out_of_line(move_out_of_line(entry), referrer)

Registered(entry, referrer) ==
  IF entry.out_of_line
  THEN Found(entry.refs, referrer, {referrer}) # {}
  ELSE \E i \in DOMAIN entry.inline : entry.inline[i] = referrer

Vacate(set, index) == [set EXCEPT !.slots[index] = Nil, !.num = @ - 1]

\* An unknown referrer is reported (objc_weak_error) and nothing changes.
remove_referrer(entry, referrer) ==
  IF ~Registered(entry, referrer) THEN entry
  ELSE IF entry.out_of_line
  THEN LET d == Least(Found(entry.refs, referrer, {referrer}))
       IN [entry EXCEPT !.refs = Vacate(@, Probe(@, referrer, d))]
  ELSE LET i == Least({j \in DOMAIN entry.inline :
                         entry.inline[j] = referrer})
       IN [entry EXCEPT !.inline[i] = Nil]

\* The test for an empty entry in weak_unregister_no_lock.  Out of line with
\* no referrers it goes on to read inline_referrers, which the union has
\* overlaid with the array's address and the out-of-line mark: never nil.
LooksEmpty(entry) ==
  /\ ~entry.out_of_line
  /\ \A i \in DOMAIN entry.inline : entry.inline[i] = Nil

-----------------------------------------------------------------------------
(* weak_table_t *)

Referents(set) == [i \in Occupied(set) |-> set.slots[i].referent]

EntriesOf(set, referent) ==
  {entry \in {set.slots[i] : i \in Occupied(set)} :
     entry.referent = referent}

weak_entry_for_referent(set, referent) ==
  Found(set, referent, EntriesOf(set, referent))

EntryIndex(set, referent) ==
  Probe(set, referent, Least(weak_entry_for_referent(set, referent)))

weak_resize(set, size) == Rehash(set, EmptySet(size), Referents(set))

weak_grow_maybe(set) ==
  IF set.num >= (set.size * 3) \div 4
  THEN weak_resize(set, IF set.size = 0 THEN FirstSize ELSE set.size * 2)
  ELSE set

\* Mutant: compacts to as many indices as there may be entries.
weak_compact_tight(set) ==
  IF set.size >= ShrinkSize /\ set.size \div ShrinkLoad >= set.num
  THEN weak_resize(set, set.size \div ShrinkLoad)
  ELSE set

weak_compact_maybe(set) ==
  IF set.size >= ShrinkSize /\ set.size \div ShrinkLoad >= set.num
  THEN weak_resize(set, set.size \div ShrinkBy)
  ELSE set

weak_entry_remove(set, referent) ==
  weak_compact_maybe(Vacate(set, EntryIndex(set, referent)))

weak_unregister_no_lock(set, referent, referrer) ==
  IF referent = Nil \/ weak_entry_for_referent(set, referent) = {} THEN set
  ELSE LET index == EntryIndex(set, referent)
           entry == remove_referrer(set.slots[index], referrer)
           removed == [set EXCEPT !.slots[index] = entry]
       IN IF LooksEmpty(entry) THEN weak_entry_remove(removed, referent)
          ELSE removed

\* For an object that is not being deallocated, or nil.
weak_register_no_lock(set, referent, referrer) ==
  IF referent = Nil THEN set
  ELSE IF weak_entry_for_referent(set, referent) # {}
  THEN LET index == EntryIndex(set, referent)
       IN [set EXCEPT !.slots[index] = append_referrer(@, referrer)]
  ELSE Insert(weak_grow_maybe(set), referent, NewEntry(referent, referrer))

\* The variables that weak_clear_no_lock sets to nil.
Cleared(referent) ==
  IF weak_entry_for_referent(table, referent) = {} THEN {}
  ELSE {loc \in Referrers(table.slots[EntryIndex(table, referent)]) :
          location[loc] = referent}

-----------------------------------------------------------------------------
Init ==
  /\ hash \in {h \in [Objects \cup Locations ->
                      ObjectHashes \cup LocationHashes] :
                /\ \A obj \in Objects : h[obj] \in ObjectHashes
                /\ \A loc \in Locations : h[loc] \in LocationHashes}
  /\ table = EmptySet(0)
  /\ location = [loc \in Locations |-> Nil]
  /\ deallocating = {}

\* objc_storeWeakOrNil and, with nil, objc_destroyWeak: what an object that
\* is being deallocated leaves in the variable is nil.
StoreWeak(loc, obj) ==
  LET new == IF obj \in deallocating THEN Nil ELSE obj
      unregistered == weak_unregister_no_lock(table, location[loc], loc)
  IN /\ table' = weak_register_no_lock(unregistered, new, loc)
     /\ location' = [location EXCEPT ![loc] = new]
     /\ UNCHANGED <<hash, deallocating>>

\* The last release sets the deallocating bit.
BeginDealloc(obj) ==
  /\ obj \notin deallocating
  /\ deallocating' = deallocating \cup {obj}
  /\ UNCHANGED <<hash, table, location>>

\* weak_clear_no_lock, after which the address may belong to a new object.
ClearWeak(obj) ==
  /\ obj \in deallocating
  /\ location' = [loc \in Locations |->
                    IF loc \in Cleared(obj) THEN Nil ELSE location[loc]]
  /\ table' = IF weak_entry_for_referent(table, obj) = {} THEN table
              ELSE weak_entry_remove(table, obj)
  /\ deallocating' = deallocating \ {obj}
  /\ UNCHANGED hash

Next ==
  \/ \E loc \in Locations, obj \in Objects \cup {Nil} : StoreWeak(loc, obj)
  \/ \E obj \in Objects : BeginDealloc(obj)
  \/ \E obj \in Objects : ClearWeak(obj)

Spec == Init /\ [][Next]_vars

-----------------------------------------------------------------------------
(* Properties *)

Entries == {table.slots[i] : i \in Occupied(table)}

HashSets == {table} \cup {entry.refs : entry \in Entries}

IsEntry(entry) ==
  /\ entry.referent \in Objects
  /\ entry.out_of_line \in BOOLEAN
  /\ entry.inline \in
       [0..(WEAK_INLINE_COUNT - 1) -> Locations \cup {Nil}]
  /\ \A i \in Occupied(entry.refs) : entry.refs.slots[i] \in Locations

\* Every size is a power of two, whatever has grown and been compacted, and the
\* slots hold what they should.
TypeOK ==
  /\ hash \in [Objects \cup Locations -> ObjectHashes \cup LocationHashes]
  /\ location \in [Locations -> Objects \cup {Nil}]
  /\ deallocating \subseteq Objects
  /\ \A entry \in Entries : IsEntry(entry)
  /\ \A set \in HashSets :
       /\ set.size = 0 \/ IsSize(set.size)
       /\ DOMAIN set.slots = 0..(set.size - 1)
       /\ {set.num, set.max} \subseteq 0..set.size

\* The variables that a search in the table leads to are exactly the ones
\* that hold the object: none is missed when it is deallocated, and none is
\* written to after it has gone or has been given another value.
RegisteredExactly ==
  \A obj \in Objects, loc \in Locations :
    (location[loc] = obj) <=>
    /\ weak_entry_for_referent(table, obj) # {}
    /\ Registered(table.slots[EntryIndex(table, obj)], loc)

\* Deletions, growth, compaction and the unhashed first array leave every
\* count exact and every set with a quarter of its indices free; nothing is
\* in a set twice, whichever index it is at.
CountsAgree ==
  /\ \A set \in HashSets :
       /\ set.num = Cardinality(Occupied(set))
       /\ 4 * set.num <= 3 * set.size
  /\ Cardinality({entry.referent : entry \in Entries}) = table.num
  /\ \A entry \in Entries :
       entry.out_of_line => Cardinality(Referrers(entry)) = entry.refs.num

\* Whatever the hash function is and whatever has been moved: a search leads
\* to what is there, and the counts that growth and compaction go by are true.
TableInv == TypeOK /\ RegisteredExactly /\ CountsAgree

\* bad_weak_table is never called: no insertion meets a full set, and
\* max_hash_displacement, which only a resize resets, never grows so large
\* that a search in vain would come back to where it began.
NoBadTable ==
  \A set \in HashSets : ~set.bad /\ ~WrapsAround(set)

\* objc-weak.mm:373 and 389: an entry whose set of variables has become
\* empty is removed from the table.
EmptyEntriesRemoved ==
  \A entry \in Entries : Referrers(entry) # {}

Abstract == INSTANCE WeakVariables

\* The table is invisible to the program: storing to a variable changes that
\* one, and deallocation sets every variable that holds the object to nil.
ImplementsWeakVariables == Abstract!Spec
=============================================================================
