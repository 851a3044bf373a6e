--------------------------- MODULE MethodCacheProofs ---------------------------
(***************************************************************************)
(* For all classes, threads and sizes of caches: readers without a lock    *)
(* find their buckets, a cache always has an unused one, and what a cache  *)
(* or a message gives is in effect.                                        *)
(***************************************************************************)
EXTENDS MethodCache, FiniteSetTheorems, WellFoundedInduction, TLAPS

-----------------------------------------------------------------------------
(* The inductive invariant *)

Updating == {"setBuckets", "setMask"}
Owners == Updating \cup {"imp", "key", "scan", "flush", "collected"}
Reading == {"probe", "hit"}
Sending == Reading \cup {"buckets", "lookup", "resolve", "fill"}
Changing == {"change", "flushCaches", "flush", "collectALot", "collected"}
Labels == {"idle"} \cup Owners \cup Sending \cup Changing

Caches == [mask : Nat, buckets : {Empty} \cup Blocks, occupied : Nat]
Reads ==
  [mask : Nat, block : {Empty} \cup Blocks, idx : Nat, wrapped : BOOLEAN]
Upds ==
  [cls : Classes \cup {NoClass}, sel : Sels \cup {Nil},
   buckets : {Empty} \cup Blocks, mask : Nat,
   kind : {"fill", "add", "set", "flush"}, left : SUBSET Classes,
   scan : SUBSET Threads, lot : BOOLEAN]

CacheType == cache \in [Classes -> Caches]
HeapType == DOMAIN heap = Blocks /\ garbage \subseteq Blocks
PcType == pc \in [Threads -> Labels]
ReadType == read \in [Threads -> Reads]
UpdType == upd \in [Threads -> Upds]
MsgType ==
  /\ DOMAIN msg = Threads
  /\ \A t \in Threads :
       /\ {"cls", "sel"} \subseteq DOMAIN msg[t]
       /\ msg[t].cls \in Classes \cup {NoClass}
       /\ msg[t].sel \in Sels \cup {Nil}

Types ==
  CacheType /\ HeapType /\ PcType /\ ReadType /\ UpdType /\ MsgType

\* Whoever writes caches has cacheUpdateLock.
LockInv == \A t \in Threads : pc[t] \in Owners => cacheUpdateLock = t

\* A message has a class, and an update is of one.
SendOk(t) ==
  /\ pc[t] \in Sending => msg[t].cls \in Classes
  /\ pc[t] \in Changing => upd[t].kind # "fill"
  /\ pc[t] \in Updating => upd[t].cls \in Classes
  /\ pc[t] \in {"imp", "key"} => msg[t].cls \in Classes
  /\ pc[t] \in Updating \cup {"scan"} /\ upd[t].kind = "fill" =>
       upd[t].cls = msg[t].cls /\ msg[t].cls \in Classes

SendInv == \A t \in Threads : SendOk(t)

\* The buckets of a cache.
Sized(c) ==
  cache[c].buckets # Empty =>
    /\ cache[c].buckets \notin garbage
    /\ (\A t \in Threads : ~(pc[t] = "setMask" /\ upd[t].cls = c)) =>
         DOMAIN heap[cache[c].buckets] = 0..cache[c].mask

\* The buckets that an update will write into the cache, or has taken from it.
Held(t) ==
  pc[t] \in Updating =>
    /\ upd[t].mask >= cache[upd[t].cls].mask
    /\ upd[t].buckets # Empty =>
         /\ upd[t].buckets \notin garbage
         /\ \A c \in Classes : cache[c].buckets # upd[t].buckets
         /\ DOMAIN heap[upd[t].buckets] # {}
    /\ pc[t] = "setBuckets" /\ upd[t].buckets # Empty =>
         DOMAIN heap[upd[t].buckets] = 0..upd[t].mask
    /\ pc[t] = "setMask" /\ cache[upd[t].cls].buckets # Empty =>
         DOMAIN heap[cache[upd[t].cls].buckets] = 0..upd[t].mask

BlockInv ==
  /\ \A c \in Classes : Sized(c)
  /\ \A c, d \in Classes :
       cache[c].buckets # Empty /\ cache[c].buckets = cache[d].buckets =>
         c = d
  /\ \A t \in Threads : Held(t)
  /\ \A b \in garbage : DOMAIN heap[b] # {}

\* The buckets that a reader looks at are still somebody's.
Reachable(b) ==
  \/ b \in garbage
  \/ \E c \in Classes : cache[c].buckets = b
  \/ \E u \in Threads : pc[u] = "setMask" /\ upd[u].buckets = b

ReaderOk(t) ==
  /\ pc[t] = "buckets" => read[t].mask <= cache[msg[t].cls].mask
  /\ pc[t] \in Reading /\ read[t].block # Empty =>
       /\ Reachable(read[t].block)
       /\ \E k \in Nat : /\ DOMAIN heap[read[t].block] = 0..k
                         /\ read[t].idx <= k + 1

\* Who has been looked at since the collection began holds no garbage.
Scanned(t, u) ==
  pc[u] = "scan" /\ t # u /\ t \notin upd[u].scan /\ pc[t] \in Reading =>
    read[t].block \notin garbage

ReaderInv ==
  /\ \A t \in Threads : ReaderOk(t)
  /\ \A t, u \in Threads : Scanned(t, u)

Safe == Types /\ LockInv /\ SendInv /\ BlockInv /\ ReaderInv

-----------------------------------------------------------------------------
(* What a step may do *)

\* The masks, the buckets and the blocks stay.
Stay ==
  /\ garbage' = garbage
  /\ \A b \in Blocks : DOMAIN heap'[b] = DOMAIN heap[b]
  /\ \A c \in Classes : /\ cache'[c].mask = cache[c].mask
                        /\ cache'[c].buckets = cache[c].buckets

\* Other threads are where they were.
Others(t) ==
  \A u \in Threads \ {t} :
    /\ pc'[u] = pc[u] /\ read'[u] = read[u] /\ upd'[u] = upd[u]
    /\ msg'[u].cls = msg[u].cls

Locking(t) ==
  /\ cacheUpdateLock' = cacheUpdateLock \/ cacheUpdateLock \in {t, NoThread}
  /\ pc'[t] \in Owners => cacheUpdateLock' = t

LEMMA KeepLocks ==
  ASSUME Safe, NEW t \in Threads, Others(t), Locking(t)
  PROVE  LockInv'
<1> QED BY ThreadsAssumption DEF Safe, LockInv, Others, Locking

LEMMA KeepSending ==
  ASSUME Safe, NEW t \in Threads, Others(t), SendOk(t)'
  PROVE  SendInv'
<1> QED BY DEF Safe, SendInv, SendOk, Others

\* Nothing of the blocks changes, and t has none in its hands.
LEMMA KeepBlocks ==
  ASSUME Safe, NEW t \in Threads, Others(t), Stay, Types',
         pc[t] # "setMask", Held(t)'
  PROVE  BlockInv'
<1>1. ASSUME NEW c \in Classes PROVE Sized(c)'
  <2>1. cache[c].buckets \in {Empty} \cup Blocks /\ Sized(c)
    BY DEF Safe, Types, CacheType, Caches, BlockInv
  <2>2. (\A u \in Threads : ~(pc'[u] = "setMask" /\ upd'[u].cls = c)) =>
        (\A u \in Threads : ~(pc[u] = "setMask" /\ upd[u].cls = c))
    BY DEF Others
  <2> QED BY <2>1, <2>2 DEF Sized, Stay
<1>2. ASSUME NEW u \in Threads PROVE Held(u)'
  <2>1. CASE u = t
    BY <2>1
  <2>2. CASE u # t /\ pc[u] \in Updating
    <3>1. /\ pc'[u] = pc[u] /\ upd'[u] = upd[u] /\ Held(u)
          /\ upd[u].cls \in Classes /\ upd[u].buckets \in {Empty} \cup Blocks
          /\ cache[upd[u].cls].buckets \in {Empty} \cup Blocks
      BY <2>2 DEF Safe, Types, UpdType, Upds, BlockInv, SendInv, SendOk,
                  Others, CacheType, Caches
    <3> QED BY <2>2, <3>1 DEF Held, Stay
  <2>3. CASE u # t /\ pc[u] \notin Updating
    BY <2>3 DEF Held, Others
  <2> QED BY <2>1, <2>2, <2>3
<1>3. \A b \in garbage' : DOMAIN heap'[b] # {}
  BY DEF Safe, Types, HeapType, BlockInv, Stay
<1>4. \A c, d \in Classes :
        cache'[c].buckets # Empty /\ cache'[c].buckets = cache'[d].buckets =>
          c = d
  BY DEF Safe, BlockInv, Stay
<1> QED BY <1>1, <1>2, <1>3, <1>4 DEF BlockInv

\* Nor do readers, but for t.
LEMMA KeepReaders ==
  ASSUME Safe, NEW t \in Threads, Others(t), Stay, Types',
         pc[t] # "setMask", ReaderOk(t)',
         \A u \in Threads \ {t} : Scanned(t, u)' /\ Scanned(u, t)'
  PROVE  ReaderInv'
<1>1. ASSUME NEW u \in Threads \ {t} PROVE ReaderOk(u)'
  <2>1. /\ pc'[u] = pc[u] /\ read'[u] = read[u] /\ ReaderOk(u)
        /\ msg'[u].cls = msg[u].cls
        /\ pc[u] = "buckets" => msg[u].cls \in Classes
        /\ read[u].block \in {Empty} \cup Blocks
    BY DEF Safe, Types, ReadType, Reads, ReaderInv, SendInv, SendOk,
           Others, Sending
  <2>2. ASSUME NEW b, Reachable(b) PROVE Reachable(b)'
    BY <2>2 DEF Reachable, Stay, Others
  <2> QED BY <2>1, <2>2 DEF ReaderOk, Stay
<1>2. ASSUME NEW u \in Threads \ {t}, NEW v \in Threads \ {t}
      PROVE  Scanned(u, v)'
  BY DEF Safe, ReaderInv, Scanned, Stay, Others
<1>3. Scanned(t, t)'
  BY DEF Scanned
<1> QED BY <1>1, <1>2, <1>3 DEF ReaderInv

\* A step that neither reads a cache without a lock nor exchanges its buckets.
LEMMA QuietStep ==
  ASSUME Safe, NEW t \in Threads, Others(t), Stay, Types', Locking(t),
         SendOk(t)', pc[t] # "setMask",
         pc'[t] \notin Updating \cup Reading \cup {"buckets", "scan"}
  PROVE  Safe'
<1>1. /\ Held(t)' /\ ReaderOk(t)'
      /\ \A u \in Threads \ {t} : Scanned(t, u)' /\ Scanned(u, t)'
  BY DEF Held, ReaderOk, Scanned, Reading
<1> QED BY <1>1, KeepLocks, KeepSending, KeepBlocks, KeepReaders DEF Safe

-----------------------------------------------------------------------------
(* The steps that touch neither readers nor buckets *)

\* The labels and the types that a step of t sets.
LEMMA NewLabel ==
  ASSUME Types, NEW t \in Threads, NEW label \in Labels,
         pc' = [pc EXCEPT ![t] = label]
  PROVE  /\ PcType' /\ pc'[t] = label
         /\ \A u \in Threads \ {t} : pc'[u] = pc[u]
<1> QED BY DEF Types, PcType

LEMMA Forgotten == NoUpd \in Upds /\ NoRead \in Reads
<1> QED BY DEF NoUpd, NoRead, Upds, Reads, Empty, Nil

LEMMA NewUpdate ==
  ASSUME Types, NEW t \in Threads, NEW u \in Upds,
         upd' = [upd EXCEPT ![t] = u]
  PROVE  /\ UpdType' /\ upd'[t] = u
         /\ \A v \in Threads \ {t} : upd'[v] = upd[v]
<1> QED BY DEF Types, UpdType

LEMMA NewRead ==
  ASSUME Types, NEW t \in Threads, NEW r \in Reads,
         read' = [read EXCEPT ![t] = r]
  PROVE  /\ ReadType' /\ read'[t] = r
         /\ \A v \in Threads \ {t} : read'[v] = read[v]
<1> QED BY DEF Types, ReadType

\* Only the result of a message changes.
LEMMA SameMessages ==
  ASSUME Types, NEW t \in Threads,
         \/ msg' = msg
         \/ \E imp : msg' = [msg EXCEPT ![t].imp = imp]
         \/ msg' = [msg EXCEPT ![t].tried = TRUE]
  PROVE  MsgType' /\ \A u \in Threads : msg'[u].cls = msg[u].cls
<1>1. CASE msg' = msg
  BY <1>1 DEF Types, MsgType
<1>2. CASE \E imp : msg' = [msg EXCEPT ![t].imp = imp]
  BY <1>2 DEF Types, MsgType
<1>3. CASE msg' = [msg EXCEPT ![t].tried = TRUE]
  BY <1>3 DEF Types, MsgType
<1> QED BY <1>1, <1>2, <1>3

LEMMA NewMessage ==
  ASSUME Types, NEW t \in Threads, NEW c \in Classes \cup {NoClass},
         NEW s \in Sels \cup {Nil},
         msg' = [msg EXCEPT ![t] = [NoMsg EXCEPT !.cls = c, !.sel = s]]
  PROVE  /\ MsgType' /\ msg'[t].cls = c /\ msg'[t].sel = s
         /\ \A u \in Threads \ {t} : msg'[u].cls = msg[u].cls
<1> QED BY DEF Types, MsgType, NoMsg

LEMMA NoMessage ==
  ASSUME Types, NEW t \in Threads, msg' = [msg EXCEPT ![t] = NoMsg]
  PROVE  /\ MsgType' /\ \A u \in Threads \ {t} : msg'[u].cls = msg[u].cls
<1> QED BY DEF Types, MsgType, NoMsg

LEMMA SameCaches ==
  ASSUME Types, UNCHANGED <<cache, heap, trash>>
  PROVE  CacheType' /\ HeapType' /\ Stay
<1> QED BY DEF Types, CacheType, HeapType, Stay, trash

LEMMA LabelsAre ==
  /\ \A l \in {"idle", "buckets", "probe", "hit", "lookup", "resolve", "fill",
               "change", "imp", "key", "setBuckets", "setMask", "scan",
               "collected", "flush", "flushCaches", "collectALot"} :
       l \in Labels
  /\ \A l : l \in Owners <=> l \in {"imp", "key", "setBuckets", "setMask",
                                    "scan", "flush", "collected"}
  /\ \A l : l \in Updating <=> l \in {"setBuckets", "setMask"}
  /\ \A l : l \in Reading <=> l \in {"probe", "hit"}
  /\ \A l : l \in Sending <=> l \in {"buckets", "probe", "hit", "lookup",
                                     "resolve", "fill"}
  /\ \A l : l \in Changing <=> l \in {"change", "flushCaches", "flush",
                                      "collectALot", "collected"}
<1> QED BY DEF Labels, Owners, Updating, Reading, Sending, Changing

LEMMA LookUpStep ==
  ASSUME Safe, NEW t \in Threads, LookUp(t)
  PROVE  Safe'
<1>1. PICK label \in {"resolve", "fill"} :
        /\ pc[t] = "lookup" /\ pc' = [pc EXCEPT ![t] = label]
        /\ msg' = msg \/ \E imp : msg' = [msg EXCEPT ![t].imp = imp]
        /\ UNCHANGED <<cache, heap, garbage, garbageSize, cacheUpdateLock,
                       read, upd>>
  BY DEF LookUp, Goto, trash
<1>2. /\ PcType' /\ pc'[t] = label
      /\ \A u \in Threads \ {t} : pc'[u] = pc[u]
  <2>1. label \in Labels
    BY LabelsAre
  <2> QED BY <1>1, <2>1, NewLabel DEF Safe
<1>3. MsgType' /\ \A u \in Threads : msg'[u].cls = msg[u].cls
  BY <1>1, SameMessages DEF Safe
<1>4. ReadType' /\ \A u \in Threads \ {t} : read'[u] = read[u]
  BY <1>1 DEF Safe, Types, ReadType
<1>5. /\ UpdType' /\ \A u \in Threads \ {t} : upd'[u] = upd[u]
      /\ upd'[t] = upd[t]
  BY <1>1 DEF Safe, Types, UpdType
<1>6. CacheType' /\ HeapType' /\ Stay
  BY <1>1, SameCaches DEF Safe, trash
<1>a. SendOk(t) /\ LockInv
  BY DEF Safe, SendInv
<1>7. Others(t)
  BY <1>2, <1>3, <1>4, <1>5 DEF Others
<1>8. Types'
  BY <1>2, <1>3, <1>4, <1>5, <1>6 DEF Types
<1>9. Locking(t)
  BY <1>1, <1>2, <1>a, LabelsAre DEF Locking, locks
<1>10. SendOk(t)'
  BY <1>1, <1>2, <1>3, <1>4, <1>5, <1>a, LabelsAre DEF SendOk
<1> QED BY <1>1, <1>2, <1>6, <1>7, <1>8, <1>9, <1>10, QuietStep, LabelsAre

LEMMA ResolveStep ==
  ASSUME Safe, NEW t \in Threads, Unresolved(t) \/ Resolved(t)
  PROVE  Safe'
<1>1. PICK label \in {"lookup", "change"} :
        /\ pc[t] = "resolve" /\ pc' = [pc EXCEPT ![t] = label]
        /\ msg' = [msg EXCEPT ![t].tried = TRUE]
        /\ \/ label = "lookup" /\ upd' = upd
           \/ upd' = [upd EXCEPT ![t] = [NoUpd EXCEPT !.kind = "add",
                                    !.cls = msg[t].cls, !.sel = msg[t].sel]]
        /\ UNCHANGED <<cache, heap, garbage, garbageSize, cacheUpdateLock,
                       read>>
  BY DEF Unresolved, Resolved, Goto, trash, locks
<1>2. /\ PcType' /\ pc'[t] = label
      /\ \A u \in Threads \ {t} : pc'[u] = pc[u]
  <2>1. label \in Labels
    BY LabelsAre
  <2> QED BY <1>1, <2>1, NewLabel DEF Safe
<1>3. MsgType' /\ \A u \in Threads : msg'[u].cls = msg[u].cls
  BY <1>1, SameMessages DEF Safe
<1>4. ReadType' /\ \A u \in Threads \ {t} : read'[u] = read[u]
  BY <1>1 DEF Safe, Types, ReadType
<1>5. /\ UpdType' /\ \A u \in Threads \ {t} : upd'[u] = upd[u]
      /\ label = "change" => upd'[t].kind # "fill"
  <2>1. CASE label = "lookup" /\ upd' = upd
    BY <2>1 DEF Safe, Types, UpdType
  <2>2. CASE upd' = [upd EXCEPT ![t] = [NoUpd EXCEPT !.kind = "add",
                                    !.cls = msg[t].cls, !.sel = msg[t].sel]]
    <3> DEFINE w == [NoUpd EXCEPT !.kind = "add", !.cls = msg[t].cls,
                                  !.sel = msg[t].sel]
    <3>1. w \in Upds /\ w.kind = "add"
      BY Forgotten DEF Safe, Types, MsgType, Upds
    <3>2. upd' = [upd EXCEPT ![t] = w]
      BY <2>2
    <3> HIDE DEF w
    <3> QED BY <3>1, <3>2, NewUpdate DEF Safe
  <2> QED BY <1>1, <2>1, <2>2
<1>6. CacheType' /\ HeapType' /\ Stay
  BY <1>1, SameCaches DEF Safe, trash
<1>a. SendOk(t) /\ LockInv
  BY DEF Safe, SendInv
<1>7. Others(t)
  BY <1>2, <1>3, <1>4, <1>5 DEF Others
<1>8. Types'
  BY <1>2, <1>3, <1>4, <1>5, <1>6 DEF Types
<1>9. Locking(t)
  BY <1>1, <1>2, <1>a, LabelsAre DEF Locking, locks
<1>10. SendOk(t)'
  BY <1>1, <1>2, <1>3, <1>4, <1>5, <1>a, LabelsAre DEF SendOk
<1> QED BY <1>1, <1>2, <1>6, <1>7, <1>8, <1>9, <1>10, QuietStep, LabelsAre

LEMMA FillNothingStep ==
  ASSUME Safe, NEW t \in Threads, FillNothing(t)
  PROVE  Safe'
<1>1. /\ pc[t] = "fill" /\ pc' = [pc EXCEPT ![t] = "idle"]
      /\ msg' = [msg EXCEPT ![t] = NoMsg]
      /\ UNCHANGED <<cache, heap, garbage, garbageSize, cacheUpdateLock,
                     read, upd>>
  BY DEF FillNothing, End, Goto, trash
<1>2. /\ PcType' /\ pc'[t] = "idle"
      /\ \A u \in Threads \ {t} : pc'[u] = pc[u]
  BY <1>1, NewLabel, LabelsAre DEF Safe
<1>3. MsgType' /\ \A u \in Threads \ {t} : msg'[u].cls = msg[u].cls
  BY <1>1, NoMessage DEF Safe
<1>4. ReadType' /\ \A u \in Threads \ {t} : read'[u] = read[u]
  BY <1>1 DEF Safe, Types, ReadType
<1>5. /\ UpdType' /\ \A u \in Threads \ {t} : upd'[u] = upd[u]
      /\ upd'[t] = upd[t]
  BY <1>1 DEF Safe, Types, UpdType
<1>6. CacheType' /\ HeapType' /\ Stay
  BY <1>1, SameCaches DEF Safe, trash
<1>a. SendOk(t) /\ LockInv
  BY DEF Safe, SendInv
<1>7. Others(t)
  BY <1>2, <1>3, <1>4, <1>5 DEF Others
<1>8. Types'
  BY <1>2, <1>3, <1>4, <1>5, <1>6 DEF Types
<1>9. Locking(t)
  BY <1>1, <1>2, <1>a, LabelsAre DEF Locking, locks
<1>10. SendOk(t)'
  BY <1>1, <1>2, <1>3, <1>4, <1>5, <1>a, LabelsAre DEF SendOk
<1> QED BY <1>1, <1>2, <1>6, <1>7, <1>8, <1>9, <1>10, QuietStep, LabelsAre

LEMMA MissStep ==
  ASSUME Safe, NEW t \in Threads, Miss(t)
  PROVE  Safe'
<1>1. /\ pc[t] = "probe" /\ pc' = [pc EXCEPT ![t] = "lookup"]
      /\ read' = [read EXCEPT ![t] = NoRead]
      /\ UNCHANGED <<cache, heap, garbage, garbageSize, cacheUpdateLock,
                     msg, upd>>
  BY DEF Miss, Goto, trash, locks
<1>2. /\ PcType' /\ pc'[t] = "lookup"
      /\ \A u \in Threads \ {t} : pc'[u] = pc[u]
  BY <1>1, NewLabel, LabelsAre DEF Safe
<1>3. MsgType' /\ \A u \in Threads : msg'[u].cls = msg[u].cls
  BY <1>1, SameMessages DEF Safe
<1>4. ReadType' /\ \A u \in Threads \ {t} : read'[u] = read[u]
  BY <1>1, NewRead, Forgotten DEF Safe
<1>5. /\ UpdType' /\ \A u \in Threads \ {t} : upd'[u] = upd[u]
      /\ upd'[t] = upd[t]
  BY <1>1 DEF Safe, Types, UpdType
<1>6. CacheType' /\ HeapType' /\ Stay
  BY <1>1, SameCaches DEF Safe, trash
<1>a. SendOk(t) /\ LockInv
  BY DEF Safe, SendInv
<1>7. Others(t)
  BY <1>2, <1>3, <1>4, <1>5 DEF Others
<1>8. Types'
  BY <1>2, <1>3, <1>4, <1>5, <1>6 DEF Types
<1>9. Locking(t)
  BY <1>1, <1>2, <1>a, LabelsAre DEF Locking, locks
<1>10. SendOk(t)'
  BY <1>1, <1>2, <1>3, <1>4, <1>5, <1>a, LabelsAre DEF SendOk
<1> QED BY <1>1, <1>2, <1>6, <1>7, <1>8, <1>9, <1>10, QuietStep, LabelsAre

LEMMA CacheHitStep ==
  ASSUME Safe, NEW t \in Threads, CacheHit(t)
  PROVE  Safe'
<1>1. /\ pc[t] = "hit" /\ pc' = [pc EXCEPT ![t] = "idle"]
      /\ msg' = [msg EXCEPT ![t] = NoMsg]
      /\ read' = [read EXCEPT ![t] = NoRead]
      /\ UNCHANGED <<cache, heap, garbage, garbageSize, cacheUpdateLock,
                     upd>>
  BY DEF CacheHit, End, Goto, trash, locks
<1>2. /\ PcType' /\ pc'[t] = "idle"
      /\ \A u \in Threads \ {t} : pc'[u] = pc[u]
  BY <1>1, NewLabel, LabelsAre DEF Safe
<1>3. MsgType' /\ \A u \in Threads \ {t} : msg'[u].cls = msg[u].cls
  BY <1>1, NoMessage DEF Safe
<1>4. ReadType' /\ \A u \in Threads \ {t} : read'[u] = read[u]
  BY <1>1, NewRead, Forgotten DEF Safe
<1>5. /\ UpdType' /\ \A u \in Threads \ {t} : upd'[u] = upd[u]
      /\ upd'[t] = upd[t]
  BY <1>1 DEF Safe, Types, UpdType
<1>6. CacheType' /\ HeapType' /\ Stay
  BY <1>1, SameCaches DEF Safe, trash
<1>a. SendOk(t) /\ LockInv
  BY DEF Safe, SendInv
<1>7. Others(t)
  BY <1>2, <1>3, <1>4, <1>5 DEF Others
<1>8. Types'
  BY <1>2, <1>3, <1>4, <1>5, <1>6 DEF Types
<1>9. Locking(t)
  BY <1>1, <1>2, <1>a, LabelsAre DEF Locking, locks
<1>10. SendOk(t)'
  BY <1>1, <1>2, <1>3, <1>4, <1>5, <1>a, LabelsAre DEF SendOk
<1> QED BY <1>1, <1>2, <1>6, <1>7, <1>8, <1>9, <1>10, QuietStep, LabelsAre

LEMMA BeginChangeStep ==
  ASSUME Safe, NEW t \in Threads, NEW c \in Classes, NEW s \in Sels,
         NEW kind \in {"add", "set"}, BeginChange(t, kind, c, s)
  PROVE  Safe'
<1> DEFINE w == [NoUpd EXCEPT !.kind = kind, !.cls = c, !.sel = s]
<1>1. /\ pc[t] = "idle" /\ pc' = [pc EXCEPT ![t] = "change"]
      /\ upd' = [upd EXCEPT ![t] = w]
      /\ UNCHANGED <<cache, heap, garbage, garbageSize, cacheUpdateLock,
                     msg, read>>
  BY DEF BeginChange, Goto, trash, locks
<1>2. /\ PcType' /\ pc'[t] = "change"
      /\ \A u \in Threads \ {t} : pc'[u] = pc[u]
  BY <1>1, NewLabel, LabelsAre DEF Safe
<1>3. MsgType' /\ \A u \in Threads : msg'[u].cls = msg[u].cls
  BY <1>1, SameMessages DEF Safe
<1>4. ReadType' /\ \A u \in Threads \ {t} : read'[u] = read[u]
  BY <1>1 DEF Safe, Types, ReadType
<1>5. /\ UpdType' /\ \A u \in Threads \ {t} : upd'[u] = upd[u]
      /\ upd'[t].kind # "fill"
  <2>1. w \in Upds /\ w.kind = kind
    BY Forgotten DEF Upds
  <2> HIDE DEF w
  <2> QED BY <1>1, <2>1, NewUpdate DEF Safe
<1>6. CacheType' /\ HeapType' /\ Stay
  BY <1>1, SameCaches DEF Safe, trash
<1>a. SendOk(t) /\ LockInv
  BY DEF Safe, SendInv
<1>7. Others(t)
  BY <1>2, <1>3, <1>4, <1>5 DEF Others
<1>8. Types'
  BY <1>2, <1>3, <1>4, <1>5, <1>6 DEF Types
<1>9. Locking(t)
  BY <1>1, <1>2, <1>a, LabelsAre DEF Locking, locks
<1>10. SendOk(t)'
  BY <1>1, <1>2, <1>3, <1>4, <1>5, <1>a, LabelsAre DEF SendOk
<1> QED BY <1>1, <1>2, <1>6, <1>7, <1>8, <1>9, <1>10, QuietStep, LabelsAre

LEMMA FlushAllStep ==
  ASSUME Safe, NEW t \in Threads, objc_flush_caches(t)
  PROVE  Safe'
<1> DEFINE w == [upd[t] EXCEPT !.kind = "flush"]
<1>1. /\ pc[t] = "idle" /\ pc' = [pc EXCEPT ![t] = "change"]
      /\ upd' = [upd EXCEPT ![t] = w]
      /\ UNCHANGED <<cache, heap, garbage, garbageSize, cacheUpdateLock,
                     msg, read>>
  BY DEF objc_flush_caches, Goto, trash, locks
<1>2. /\ PcType' /\ pc'[t] = "change"
      /\ \A u \in Threads \ {t} : pc'[u] = pc[u]
  BY <1>1, NewLabel, LabelsAre DEF Safe
<1>3. MsgType' /\ \A u \in Threads : msg'[u].cls = msg[u].cls
  BY <1>1, SameMessages DEF Safe
<1>4. ReadType' /\ \A u \in Threads \ {t} : read'[u] = read[u]
  BY <1>1 DEF Safe, Types, ReadType
<1>5. /\ UpdType' /\ \A u \in Threads \ {t} : upd'[u] = upd[u]
      /\ upd'[t].kind # "fill"
  <2>1. w \in Upds /\ w.kind = "flush"
    BY DEF Safe, Types, UpdType, Upds
  <2> HIDE DEF w
  <2> QED BY <1>1, <2>1, NewUpdate DEF Safe
<1>6. CacheType' /\ HeapType' /\ Stay
  BY <1>1, SameCaches DEF Safe, trash
<1>a. SendOk(t) /\ LockInv
  BY DEF Safe, SendInv
<1>7. Others(t)
  BY <1>2, <1>3, <1>4, <1>5 DEF Others
<1>8. Types'
  BY <1>2, <1>3, <1>4, <1>5, <1>6 DEF Types
<1>9. Locking(t)
  BY <1>1, <1>2, <1>a, LabelsAre DEF Locking, locks
<1>10. SendOk(t)'
  BY <1>1, <1>2, <1>3, <1>4, <1>5, <1>a, LabelsAre DEF SendOk
<1> QED BY <1>1, <1>2, <1>6, <1>7, <1>8, <1>9, <1>10, QuietStep, LabelsAre

LEMMA ChangeStep ==
  ASSUME Safe, NEW t \in Threads, Change(t)
  PROVE  Safe'
<1>1. /\ pc[t] = "change" /\ pc' = [pc EXCEPT ![t] = "flushCaches"]
      /\ UNCHANGED <<cache, heap, garbage, garbageSize, cacheUpdateLock,
                     msg, read, upd>>
  BY DEF Change, Goto, trash
<1>2. /\ PcType' /\ pc'[t] = "flushCaches"
      /\ \A u \in Threads \ {t} : pc'[u] = pc[u]
  BY <1>1, NewLabel, LabelsAre DEF Safe
<1>3. MsgType' /\ \A u \in Threads : msg'[u].cls = msg[u].cls
  BY <1>1, SameMessages DEF Safe
<1>4. ReadType' /\ \A u \in Threads \ {t} : read'[u] = read[u]
  BY <1>1 DEF Safe, Types, ReadType
<1>5. /\ UpdType' /\ \A u \in Threads \ {t} : upd'[u] = upd[u]
      /\ upd'[t] = upd[t]
  BY <1>1 DEF Safe, Types, UpdType
<1>6. CacheType' /\ HeapType' /\ Stay
  BY <1>1, SameCaches DEF Safe, trash
<1>a. SendOk(t) /\ LockInv
  BY DEF Safe, SendInv
<1>7. Others(t)
  BY <1>2, <1>3, <1>4, <1>5 DEF Others
<1>8. Types'
  BY <1>2, <1>3, <1>4, <1>5, <1>6 DEF Types
<1>9. Locking(t)
  BY <1>1, <1>2, <1>a, LabelsAre DEF Locking, locks
<1>10. SendOk(t)'
  BY <1>1, <1>2, <1>3, <1>4, <1>5, <1>a, LabelsAre DEF SendOk
<1> QED BY <1>1, <1>2, <1>6, <1>7, <1>8, <1>9, <1>10, QuietStep, LabelsAre

LEMMA FlushCachesStep ==
  ASSUME Safe, NEW t \in Threads, flushCaches(t)
  PROVE  Safe'
<1> DEFINE w == [upd[t] EXCEPT !.left = FlushSet(upd[t])]
<1>1. /\ pc[t] = "flushCaches" /\ pc' = [pc EXCEPT ![t] = "flush"]
      /\ upd' = [upd EXCEPT ![t] = w]
      /\ cacheUpdateLock = NoThread /\ cacheUpdateLock' = t
      /\ UNCHANGED <<cache, heap, garbage, garbageSize, msg, read>>
  BY DEF flushCaches, Goto, trash
<1>2. /\ PcType' /\ pc'[t] = "flush"
      /\ \A u \in Threads \ {t} : pc'[u] = pc[u]
  BY <1>1, NewLabel, LabelsAre DEF Safe
<1>3. MsgType' /\ \A u \in Threads : msg'[u].cls = msg[u].cls
  BY <1>1, SameMessages DEF Safe
<1>4. ReadType' /\ \A u \in Threads \ {t} : read'[u] = read[u]
  BY <1>1 DEF Safe, Types, ReadType
<1>5. /\ UpdType' /\ \A u \in Threads \ {t} : upd'[u] = upd[u]
      /\ upd'[t].kind = upd[t].kind
  <2>1. FlushSet(upd[t]) \subseteq Classes
    BY DEF FlushSet, Subtree
  <2>2. w \in Upds /\ w.kind = upd[t].kind
    BY <2>1 DEF Safe, Types, UpdType, Upds
  <2> HIDE DEF w
  <2> QED BY <1>1, <2>2, NewUpdate DEF Safe
<1>6. CacheType' /\ HeapType' /\ Stay
  BY <1>1, SameCaches DEF Safe, trash
<1>a. SendOk(t) /\ LockInv
  BY DEF Safe, SendInv
<1>7. Others(t)
  BY <1>2, <1>3, <1>4, <1>5 DEF Others
<1>8. Types'
  BY <1>2, <1>3, <1>4, <1>5, <1>6 DEF Types
<1>9. Locking(t)
  BY <1>1, <1>2, <1>a, LabelsAre DEF Locking, locks
<1>10. SendOk(t)'
  BY <1>1, <1>2, <1>3, <1>4, <1>5, <1>a, LabelsAre DEF SendOk
<1> QED BY <1>1, <1>2, <1>6, <1>7, <1>8, <1>9, <1>10, QuietStep, LabelsAre

LEMMA FlushedStep ==
  ASSUME Safe, NEW t \in Threads, Flushed(t)
  PROVE  Safe'
<1>1. PICK label \in {"collectALot", "idle", "lookup"} :
        /\ pc[t] = "flush" /\ pc' = [pc EXCEPT ![t] = label]
        /\ label = "lookup" => msg[t].cls # NoClass
        /\ \/ upd' = upd
           \/ upd' = [upd EXCEPT ![t] = NoUpd] /\ label # "collectALot"
        /\ cacheUpdateLock' = NoThread
        /\ UNCHANGED <<cache, heap, garbage, garbageSize, msg, read>>
  BY DEF Flushed, Goto, trash
<1>2. /\ PcType' /\ pc'[t] = label
      /\ \A u \in Threads \ {t} : pc'[u] = pc[u]
  <2>1. label \in Labels
    BY LabelsAre
  <2> QED BY <1>1, <2>1, NewLabel DEF Safe
<1>3. MsgType' /\ \A u \in Threads : msg'[u].cls = msg[u].cls
  BY <1>1, SameMessages DEF Safe
<1>4. ReadType' /\ \A u \in Threads \ {t} : read'[u] = read[u]
  BY <1>1 DEF Safe, Types, ReadType
<1>5. /\ UpdType' /\ \A u \in Threads \ {t} : upd'[u] = upd[u]
      /\ label = "collectALot" => upd'[t] = upd[t]
  <2>1. CASE upd' = upd
    BY <2>1 DEF Safe, Types, UpdType
  <2>2. CASE upd' = [upd EXCEPT ![t] = NoUpd] /\ label # "collectALot"
    BY <2>2, NewUpdate, Forgotten DEF Safe
  <2> QED BY <1>1, <2>1, <2>2
<1>b. msg[t].cls \in Classes \cup {NoClass}
  BY DEF Safe, Types, MsgType
<1>6. CacheType' /\ HeapType' /\ Stay
  BY <1>1, SameCaches DEF Safe, trash
<1>a. SendOk(t) /\ LockInv
  BY DEF Safe, SendInv
<1>7. Others(t)
  BY <1>2, <1>3, <1>4, <1>5 DEF Others
<1>8. Types'
  BY <1>2, <1>3, <1>4, <1>5, <1>6 DEF Types
<1>9. Locking(t)
  BY <1>1, <1>2, <1>a, LabelsAre DEF LockInv, Locking, locks
<1>10. SendOk(t)'
  BY <1>1, <1>2, <1>3, <1>4, <1>5, <1>a, <1>b, LabelsAre DEF SendOk
<1> QED BY <1>1, <1>2, <1>6, <1>7, <1>8, <1>9, <1>10, QuietStep, LabelsAre

LEMMA CollectedStep ==
  ASSUME Safe, NEW t \in Threads, Collected(t)
  PROVE  Safe'
<1>1. /\ pc[t] = "collected" /\ pc' = [pc EXCEPT ![t] = "idle"]
      /\ upd' = [upd EXCEPT ![t] = NoUpd]
      /\ cacheUpdateLock' = NoThread
      /\ UNCHANGED <<cache, heap, garbage, garbageSize, msg, read>>
  BY DEF Collected, Goto, trash
<1>2. /\ PcType' /\ pc'[t] = "idle"
      /\ \A u \in Threads \ {t} : pc'[u] = pc[u]
  BY <1>1, NewLabel, LabelsAre DEF Safe
<1>3. MsgType' /\ \A u \in Threads : msg'[u].cls = msg[u].cls
  BY <1>1, SameMessages DEF Safe
<1>4. ReadType' /\ \A u \in Threads \ {t} : read'[u] = read[u]
  BY <1>1 DEF Safe, Types, ReadType
<1>5. UpdType' /\ \A u \in Threads \ {t} : upd'[u] = upd[u]
  BY <1>1, NewUpdate, Forgotten DEF Safe
<1>6. CacheType' /\ HeapType' /\ Stay
  BY <1>1, SameCaches DEF Safe, trash
<1>a. SendOk(t) /\ LockInv
  BY DEF Safe, SendInv
<1>7. Others(t)
  BY <1>2, <1>3, <1>4, <1>5 DEF Others
<1>8. Types'
  BY <1>2, <1>3, <1>4, <1>5, <1>6 DEF Types
<1>9. Locking(t)
  BY <1>1, <1>2, <1>a, LabelsAre DEF LockInv, Locking, locks
<1>10. SendOk(t)'
  BY <1>1, <1>2, <1>3, <1>4, <1>5, <1>a, LabelsAre DEF SendOk
<1> QED BY <1>1, <1>2, <1>6, <1>7, <1>8, <1>9, <1>10, QuietStep, LabelsAre

-----------------------------------------------------------------------------
(* The readers without a lock *)

LEMMA ReadStep ==
  ASSUME Safe, NEW t \in Threads, Others(t), Stay, Types', Locking(t),
         SendOk(t)', pc[t] # "setMask", pc'[t] # "scan", Held(t)',
         ReaderOk(t)', \A u \in Threads \ {t} : Scanned(t, u)'
  PROVE  Safe'
<1>1. \A u \in Threads \ {t} : Scanned(u, t)'
  BY DEF Scanned
<1> QED BY <1>1, KeepLocks, KeepSending, KeepBlocks, KeepReaders DEF Safe

LEMMA SendStep ==
  ASSUME Safe, NEW t \in Threads, NEW c \in Classes, NEW s \in Sels,
         objc_msgSend(t, c, s)
  PROVE  Safe'
<1> DEFINE r == [read[t] EXCEPT !.mask = cache[c].mask]
<1>1. /\ pc[t] = "idle" /\ pc' = [pc EXCEPT ![t] = "buckets"]
      /\ msg' = [msg EXCEPT ![t] = [NoMsg EXCEPT !.cls = c, !.sel = s]]
      /\ read' = [read EXCEPT ![t] = r]
      /\ UNCHANGED <<cache, heap, garbage, garbageSize, cacheUpdateLock,
                     upd>>
  BY DEF objc_msgSend, Goto, trash, locks
<1>2. /\ PcType' /\ pc'[t] = "buckets"
      /\ \A u \in Threads \ {t} : pc'[u] = pc[u]
  BY <1>1, NewLabel, LabelsAre DEF Safe
<1>3. /\ MsgType' /\ msg'[t].cls = c
      /\ \A u \in Threads \ {t} : msg'[u].cls = msg[u].cls
  BY <1>1, NewMessage DEF Safe
<1>4. /\ ReadType' /\ read'[t].mask = cache[c].mask
      /\ \A u \in Threads \ {t} : read'[u] = read[u]
  <2>1. r \in Reads /\ r.mask = cache[c].mask
    BY DEF Safe, Types, ReadType, Reads, CacheType, Caches
  <2> HIDE DEF r
  <2> QED BY <1>1, <2>1, NewRead DEF Safe
<1>5. /\ UpdType' /\ \A u \in Threads \ {t} : upd'[u] = upd[u]
      /\ upd'[t] = upd[t]
  BY <1>1 DEF Safe, Types, UpdType
<1>6. CacheType' /\ HeapType' /\ Stay
  BY <1>1, SameCaches DEF Safe, trash
<1>a. SendOk(t) /\ LockInv
  BY DEF Safe, SendInv
<1>7. Others(t)
  BY <1>2, <1>3, <1>4, <1>5 DEF Others
<1>8. Types'
  BY <1>2, <1>3, <1>4, <1>5, <1>6 DEF Types
<1>9. Locking(t) /\ Held(t)'
  BY <1>1, <1>2, <1>a, LabelsAre DEF Locking, locks, Held
<1>10. SendOk(t)'
  BY <1>1, <1>2, <1>3, <1>4, <1>5, <1>a, LabelsAre DEF SendOk
<1>11. ReaderOk(t)'
  BY <1>1, <1>2, <1>3, <1>4, LabelsAre DEF ReaderOk, Safe, Types, CacheType,
     Caches
<1>12. \A u \in Threads \ {t} : Scanned(t, u)'
  BY <1>2, LabelsAre DEF Scanned
<1> QED BY <1>1, <1>2, <1>6, <1>7, <1>8, <1>9, <1>10, <1>11, <1>12, ReadStep,
           LabelsAre

LEMMA ReadBucketsStep ==
  ASSUME Safe, NEW t \in Threads, ReadBuckets(t)
  PROVE  Safe'
<1> DEFINE b == cache[msg[t].cls].buckets
           x == msg[t].sel % (read[t].mask + 1)
           r == [read[t] EXCEPT !.block = b, !.idx = x]
<1>1. /\ pc[t] = "buckets" /\ pc' = [pc EXCEPT ![t] = "probe"]
      /\ read' = [read EXCEPT ![t] = r]
      /\ UNCHANGED <<cache, heap, garbage, garbageSize, cacheUpdateLock,
                     msg, upd>>
  BY DEF ReadBuckets, Goto, trash, locks
<1>2. /\ PcType' /\ pc'[t] = "probe"
      /\ \A u \in Threads \ {t} : pc'[u] = pc[u]
  BY <1>1, NewLabel, LabelsAre DEF Safe
<1>3. MsgType' /\ \A u \in Threads : msg'[u].cls = msg[u].cls
  BY <1>1, SameMessages DEF Safe
<1>a. SendOk(t) /\ LockInv
  BY DEF Safe, SendInv
<1>c. /\ msg[t].cls \in Classes /\ read[t].mask <= cache[msg[t].cls].mask
      /\ cache[msg[t].cls].mask \in Nat /\ read[t].mask \in Nat
      /\ b \in {Empty} \cup Blocks
  BY <1>1, <1>a, LabelsAre DEF SendOk, Safe, ReaderInv, ReaderOk, Types,
     CacheType, Caches, ReadType, Reads
<1>x. x \in 0..read[t].mask /\ x \in Nat
  <2>1. msg[t].sel \in Nat
    <3>1. msg[t].sel \in Sels \cup {Nil}
      BY DEF Safe, Types, MsgType
    <3>2. Sels \subseteq Nat /\ Nil \in Nat
      BY SelsAssumption DEF Nil
    <3> QED BY <3>1, <3>2
  <2> QED BY <1>c, <2>1
<1> HIDE DEF x
<1>4. /\ ReadType' /\ read'[t].block = b /\ read'[t].idx = x
      /\ \A u \in Threads \ {t} : read'[u] = read[u]
  <2>1. r \in Reads /\ r.block = b /\ r.idx = x
    BY <1>c, <1>x DEF Safe, Types, ReadType, Reads
  <2> HIDE DEF r
  <2> QED BY <1>1, <2>1, NewRead DEF Safe
<1>5. /\ UpdType' /\ \A u \in Threads \ {t} : upd'[u] = upd[u]
      /\ upd'[t] = upd[t]
  BY <1>1 DEF Safe, Types, UpdType
<1>6. CacheType' /\ HeapType' /\ Stay
  BY <1>1, SameCaches DEF Safe, trash
<1>7. Others(t)
  BY <1>2, <1>3, <1>4, <1>5 DEF Others
<1>8. Types'
  BY <1>2, <1>3, <1>4, <1>5, <1>6 DEF Types
<1>9. Locking(t) /\ Held(t)'
  BY <1>1, <1>2, <1>a, LabelsAre DEF Locking, locks, Held
<1>10. SendOk(t)'
  BY <1>1, <1>2, <1>3, <1>4, <1>5, <1>a, LabelsAre DEF SendOk
<1>b. ASSUME b # Empty
      PROVE  /\ b \notin garbage
             /\ \E k \in Nat : DOMAIN heap[b] = 0..k /\ x <= k + 1
  <2>1. b \notin garbage /\ Sized(msg[t].cls)
    BY <1>b, <1>c DEF Safe, BlockInv, Sized
  <2>2. CASE \A u \in Threads : ~(pc[u] = "setMask" /\ upd[u].cls = msg[t].cls)
    <3>1. DOMAIN heap[b] = 0..cache[msg[t].cls].mask
      BY <1>b, <2>1, <2>2 DEF Sized
    <3> QED BY <1>c, <1>x, <2>1, <3>1
  <2>3. CASE \E u \in Threads : pc[u] = "setMask" /\ upd[u].cls = msg[t].cls
    <3>1. PICK u \in Threads : pc[u] = "setMask" /\ upd[u].cls = msg[t].cls
      BY <2>3
    <3>2. /\ upd[u].mask >= cache[msg[t].cls].mask /\ upd[u].mask \in Nat
          /\ DOMAIN heap[b] = 0..upd[u].mask
      BY <1>b, <3>1, LabelsAre DEF Safe, BlockInv, Held, Types, UpdType, Upds
    <3> QED BY <1>c, <1>x, <2>1, <3>2
  <2> QED BY <2>2, <2>3
<1>11. ReaderOk(t)'
  BY <1>1, <1>2, <1>4, <1>b, <1>c, LabelsAre DEF ReaderOk, Reachable
<1>12. \A u \in Threads \ {t} : Scanned(t, u)'
  <2>1. b = Empty => b \notin garbage
    BY DEF Safe, Types, HeapType, Blocks, Empty
  <2> QED BY <1>1, <1>4, <1>b, <2>1 DEF Scanned
<1> QED BY <1>1, <1>2, <1>6, <1>7, <1>8, <1>9, <1>10, <1>11, <1>12, ReadStep,
           LabelsAre

LEMMA HitStep ==
  ASSUME Safe, NEW t \in Threads, Hit(t)
  PROVE  Safe'
<1>1. /\ pc[t] = "probe" /\ pc' = [pc EXCEPT ![t] = "hit"]
      /\ UNCHANGED <<cache, heap, garbage, garbageSize, cacheUpdateLock,
                     msg, read, upd>>
  BY DEF Hit, Goto, trash, locks
<1>2. /\ PcType' /\ pc'[t] = "hit"
      /\ \A u \in Threads \ {t} : pc'[u] = pc[u]
  BY <1>1, NewLabel, LabelsAre DEF Safe
<1>3. MsgType' /\ \A u \in Threads : msg'[u].cls = msg[u].cls
  BY <1>1, SameMessages DEF Safe
<1>4. ReadType' /\ \A u \in Threads \ {t} : read'[u] = read[u]
  BY <1>1 DEF Safe, Types, ReadType
<1>5. /\ UpdType' /\ \A u \in Threads \ {t} : upd'[u] = upd[u]
      /\ upd'[t] = upd[t]
  BY <1>1 DEF Safe, Types, UpdType
<1>6. CacheType' /\ HeapType' /\ Stay
  BY <1>1, SameCaches DEF Safe, trash
<1>a. SendOk(t) /\ LockInv
  BY DEF Safe, SendInv
<1>7. Others(t)
  BY <1>2, <1>3, <1>4, <1>5 DEF Others
<1>8. Types'
  BY <1>2, <1>3, <1>4, <1>5, <1>6 DEF Types
<1>9. Locking(t) /\ Held(t)'
  BY <1>1, <1>2, <1>a, LabelsAre DEF Locking, locks, Held
<1>10. SendOk(t)'
  BY <1>1, <1>2, <1>3, <1>4, <1>5, <1>a, LabelsAre DEF SendOk
<1>11. ReaderOk(t)'
  <2>1. ReaderOk(t)
    BY DEF Safe, ReaderInv
  <2>2. ASSUME NEW b, Reachable(b) PROVE Reachable(b)'
    BY <1>1, <1>2, <1>7, <2>2 DEF Reachable, Others
  <2> QED BY <1>1, <1>2, <2>1, <2>2, LabelsAre DEF ReaderOk
<1>12. \A u \in Threads \ {t} : Scanned(t, u)'
  BY <1>1, <1>2, LabelsAre DEF Safe, ReaderInv, Scanned
<1> QED BY <1>1, <1>2, <1>6, <1>7, <1>8, <1>9, <1>10, <1>11, <1>12, ReadStep,
           LabelsAre

LEMMA ProbeStep ==
  ASSUME Safe, NEW t \in Threads, Probe(t)
  PROVE  Safe'
<1>1. PICK r \in Reads :
        /\ pc[t] = "probe" /\ pc' = pc
        /\ read' = [read EXCEPT ![t] = r]
        /\ r.block = read[t].block
        /\ r.idx = IF KeyAt(read[t]) = EndMarker THEN 0 ELSE read[t].idx + 1
        /\ KeyAt(read[t]) # Nil
        /\ UNCHANGED <<cache, heap, garbage, garbageSize, cacheUpdateLock,
                       msg, upd>>
  <2> DEFINE q == read[t]
             r == IF KeyAt(q) = EndMarker
                  THEN [q EXCEPT !.idx = 0, !.wrapped = TRUE]
                  ELSE [q EXCEPT !.idx = q.idx + 1]
  <2>1. /\ r \in Reads /\ r.block = q.block
        /\ r.idx = IF KeyAt(q) = EndMarker THEN 0 ELSE q.idx + 1
    <3>1. q \in Reads
      BY DEF Safe, Types, ReadType
    <3>2. CASE KeyAt(q) = EndMarker
      BY <3>1, <3>2 DEF Reads
    <3>3. CASE KeyAt(q) # EndMarker
      BY <3>1, <3>3 DEF Reads
    <3> QED BY <3>2, <3>3
  <2>2. /\ pc[t] = "probe" /\ pc' = pc
        /\ read' = [read EXCEPT ![t] = r]
        /\ KeyAt(read[t]) # Nil
        /\ UNCHANGED <<cache, heap, garbage, garbageSize, cacheUpdateLock,
                       msg, upd>>
    <3>1. read' = [read EXCEPT ![t] = r]
      <4>1. CASE KeyAt(q) = EndMarker
        BY <4>1 DEF Probe
      <4>2. CASE KeyAt(q) # EndMarker
        BY <4>2 DEF Probe
      <4> QED BY <4>1, <4>2
    <3> HIDE DEF r
    <3> QED BY <3>1 DEF Probe, trash, locks
  <2> HIDE DEF r
  <2> QED BY <2>1, <2>2
<1>2. /\ PcType' /\ pc'[t] = "probe"
      /\ \A u \in Threads \ {t} : pc'[u] = pc[u]
  BY <1>1 DEF Safe, Types, PcType
<1>3. MsgType' /\ \A u \in Threads : msg'[u].cls = msg[u].cls
  BY <1>1, SameMessages DEF Safe
<1>4. /\ ReadType' /\ read'[t] = r
      /\ \A u \in Threads \ {t} : read'[u] = read[u]
  BY <1>1, NewRead DEF Safe
<1>5. /\ UpdType' /\ \A u \in Threads \ {t} : upd'[u] = upd[u]
      /\ upd'[t] = upd[t]
  BY <1>1 DEF Safe, Types, UpdType
<1>6. CacheType' /\ HeapType' /\ Stay
  BY <1>1, SameCaches DEF Safe, trash
<1>a. SendOk(t) /\ LockInv
  BY DEF Safe, SendInv
<1>7. Others(t)
  BY <1>2, <1>3, <1>4, <1>5 DEF Others
<1>8. Types'
  BY <1>2, <1>3, <1>4, <1>5, <1>6 DEF Types
<1>9. Locking(t) /\ Held(t)'
  BY <1>1, <1>2, <1>a, LabelsAre DEF Locking, locks, Held
<1>10. SendOk(t)'
  BY <1>1, <1>2, <1>3, <1>4, <1>5, <1>a, LabelsAre DEF SendOk
<1>11. ReaderOk(t)'
  <2>1. ReaderOk(t)
    BY DEF Safe, ReaderInv
  <2>2. ASSUME NEW b, Reachable(b) PROVE Reachable(b)'
    BY <1>1, <1>2, <1>7, <2>2 DEF Reachable, Others
  <2>3. ASSUME read[t].block # Empty
        PROVE  /\ Reachable(read[t].block)'
               /\ \E k \in Nat : /\ DOMAIN heap[read[t].block] = 0..k
                                 /\ r.idx <= k + 1
    <3>1. PICK k \in Nat : /\ DOMAIN heap[read[t].block] = 0..k
                           /\ read[t].idx <= k + 1
      BY <1>1, <2>1, <2>3, LabelsAre DEF ReaderOk
    <3>2. KeyAt(read[t]) = EndMarker \/ read[t].idx \in 0..k
      BY <2>3, <3>1 DEF KeyAt
    <3>3. r.idx <= k + 1
      BY <1>1, <3>2
    <3> QED BY <1>1, <2>1, <2>2, <2>3, <3>1, <3>3, LabelsAre DEF ReaderOk
  <2> QED BY <1>1, <1>2, <1>4, <2>3, LabelsAre DEF ReaderOk
<1>12. \A u \in Threads \ {t} : Scanned(t, u)'
  BY <1>1, <1>2, <1>4, LabelsAre DEF Safe, ReaderInv, Scanned
<1> QED BY <1>1, <1>2, <1>6, <1>7, <1>8, <1>9, <1>10, <1>11, <1>12, ReadStep,
           LabelsAre

-----------------------------------------------------------------------------
(* The writers *)

LEMMA Alone ==
  ASSUME Safe, NEW t \in Threads,
         pc[t] \in Owners \/ cacheUpdateLock = NoThread
  PROVE  \A u \in Threads \ {t} : pc[u] \notin Owners
<1> QED BY ThreadsAssumption DEF Safe, LockInv

LEMMA LeastNatural ==
  ASSUME NEW S \in SUBSET Nat, S # {}
  PROVE  \E m \in S : \A k \in S : m <= k
<1>1. PICK m \in S : \A k \in S : ~ (<<k, m>> \in OpToRel(<, Nat))
  BY NatLessThanWellFounded, WFMin
<1>2. ASSUME NEW k \in S PROVE m <= k
  <2>1. k \in Nat /\ m \in Nat
    OBVIOUS
  <2>2. ~ (k < m)
    BY <1>1, <2>1 DEF OpToRel
  <2> QED BY <2>1, <2>2
<1> QED BY <1>2

LEMMA FreeBlock ==
  ASSUME Free # {}
  PROVE  Min(Free) \in Blocks /\ heap[Min(Free)] = << >>
<1>1. Free \in SUBSET Nat
  BY BoundsAssumption DEF Free, Blocks
<1>2. PICK m \in Free : \A k \in Free : m <= k
  BY <1>1, LeastNatural
<1>3. Min(Free) \in Free
  BY <1>2 DEF Min
<1> QED BY <1>3 DEF Free

LEMMA CapacityGrows ==
  ASSUME Safe, NEW c \in Classes
  PROVE  /\ NextCapacity(c) \in Nat \ {0}
         /\ cache[c].mask <= NextCapacity(c) - 1
<1>1. cache[c].mask \in Nat /\ InitCacheSize \in Nat \ {0}
  BY SizesAssumption DEF Safe, Types, CacheType, Caches
<1>2. /\ capacity(c) = 0 => cache[c].mask = 0
      /\ capacity(c) # 0 => capacity(c) = cache[c].mask + 1
  BY <1>1 DEF capacity
<1>3. /\ capacity(c) = 0 => NextCapacity(c) = InitCacheSize
      /\ capacity(c) # 0 => NextCapacity(c) \in {capacity(c), capacity(c) * 2}
  BY DEF NextCapacity
<1> QED BY <1>1, <1>2, <1>3

\* A writer that exchanges no buckets.
LEMMA WriteStep ==
  ASSUME Safe, NEW t \in Threads, Others(t), Stay, Types', Locking(t),
         SendOk(t)', pc[t] # "setMask", Held(t)',
         pc'[t] \notin Reading \cup {"buckets"},
         \A u \in Threads \ {t} : Scanned(u, t)'
  PROVE  Safe'
<1>1. ReaderOk(t)' /\ \A u \in Threads \ {t} : Scanned(t, u)'
  BY DEF ReaderOk, Scanned, Reading
<1> QED BY <1>1, KeepLocks, KeepSending, KeepBlocks, KeepReaders DEF Safe

LEMMA SetImpStep ==
  ASSUME Safe, NEW t \in Threads, SetImp(t)
  PROVE  Safe'
<1> DEFINE c == msg[t].cls
           b == cache[c].buckets
           i == find(b, msg[t].sel)
           n == IF heap[b][i].key = Nil THEN cache[c].occupied + 1
                ELSE cache[c].occupied
<1>1. /\ pc[t] = "imp" /\ pc' = [pc EXCEPT ![t] = "key"]
      /\ cache' = [cache EXCEPT ![c].occupied = n]
      /\ heap' = [heap EXCEPT ![b][i].imp = msg[t].imp]
      /\ UNCHANGED <<garbage, garbageSize, cacheUpdateLock, msg, read, upd>>
  BY DEF SetImp, Goto, trash, locks
<1>2. /\ PcType' /\ pc'[t] = "key"
      /\ \A u \in Threads \ {t} : pc'[u] = pc[u]
  BY <1>1, NewLabel, LabelsAre DEF Safe
<1>3. MsgType' /\ \A u \in Threads : msg'[u].cls = msg[u].cls
  BY <1>1, SameMessages DEF Safe
<1>4. ReadType' /\ \A u \in Threads \ {t} : read'[u] = read[u]
  BY <1>1 DEF Safe, Types, ReadType
<1>5. /\ UpdType' /\ \A u \in Threads \ {t} : upd'[u] = upd[u]
      /\ upd'[t] = upd[t]
  BY <1>1 DEF Safe, Types, UpdType
<1>a. SendOk(t) /\ LockInv
  BY DEF Safe, SendInv
<1>6. CacheType' /\ HeapType' /\ Stay
  <2>1. c \in Classes
    BY <1>1, <1>a DEF SendOk
  <2>2. n \in Nat
    BY <2>1 DEF Safe, Types, CacheType, Caches
  <2> HIDE DEF n, c, b, i
  <2>3. /\ CacheType'
        /\ \A d \in Classes : /\ cache'[d].mask = cache[d].mask
                              /\ cache'[d].buckets = cache[d].buckets
    BY <1>1, <2>1, <2>2 DEF Safe, Types, CacheType, Caches
  <2>4. HeapType' /\ \A a \in Blocks : DOMAIN heap'[a] = DOMAIN heap[a]
    BY <1>1 DEF Safe, Types, HeapType
  <2> QED BY <1>1, <2>3, <2>4 DEF Stay
<1>7. Others(t)
  BY <1>2, <1>3, <1>4, <1>5 DEF Others
<1>8. Types'
  BY <1>2, <1>3, <1>4, <1>5, <1>6 DEF Types
<1>9. Locking(t)
  BY <1>1, <1>2, <1>a, LabelsAre DEF Locking, locks, LockInv
<1>10. SendOk(t)'
  BY <1>1, <1>2, <1>3, <1>4, <1>5, <1>a, LabelsAre DEF SendOk
<1> QED BY <1>1, <1>2, <1>6, <1>7, <1>8, <1>9, <1>10, QuietStep, LabelsAre

LEMMA SetKeyStep ==
  ASSUME Safe, NEW t \in Threads, SetKey(t)
  PROVE  Safe'
<1> DEFINE c == msg[t].cls
           b == cache[c].buckets
           i == find(b, msg[t].sel)
<1>1. /\ pc[t] = "key" /\ pc' = [pc EXCEPT ![t] = "idle"]
      /\ msg' = [msg EXCEPT ![t] = NoMsg]
      /\ upd' = [upd EXCEPT ![t] = NoUpd]
      /\ heap' = [heap EXCEPT ![b][i].key = msg[t].sel]
      /\ cacheUpdateLock' = NoThread
      /\ UNCHANGED <<cache, garbage, garbageSize, read>>
  BY DEF SetKey, End, Goto, trash
<1>2. /\ PcType' /\ pc'[t] = "idle"
      /\ \A u \in Threads \ {t} : pc'[u] = pc[u]
  BY <1>1, NewLabel, LabelsAre DEF Safe
<1>3. MsgType' /\ \A u \in Threads \ {t} : msg'[u].cls = msg[u].cls
  BY <1>1, NoMessage DEF Safe
<1>4. ReadType' /\ \A u \in Threads \ {t} : read'[u] = read[u]
  BY <1>1 DEF Safe, Types, ReadType
<1>5. UpdType' /\ \A u \in Threads \ {t} : upd'[u] = upd[u]
  BY <1>1, NewUpdate, Forgotten DEF Safe
<1>a. SendOk(t) /\ LockInv
  BY DEF Safe, SendInv
<1>6. CacheType' /\ HeapType' /\ Stay
  <2> HIDE DEF c, b, i
  <2>1. HeapType' /\ \A a \in Blocks : DOMAIN heap'[a] = DOMAIN heap[a]
    BY <1>1 DEF Safe, Types, HeapType
  <2> QED BY <1>1, <2>1 DEF Stay, Safe, Types, CacheType
<1>7. Others(t)
  BY <1>2, <1>3, <1>4, <1>5 DEF Others
<1>8. Types'
  BY <1>2, <1>3, <1>4, <1>5, <1>6 DEF Types
<1>9. Locking(t)
  BY <1>1, <1>2, <1>a, LabelsAre DEF LockInv, Locking, locks
<1>10. SendOk(t)'
  BY <1>1, <1>2, <1>3, <1>4, <1>5, <1>a, LabelsAre DEF SendOk
<1> QED BY <1>1, <1>2, <1>6, <1>7, <1>8, <1>9, <1>10, QuietStep, LabelsAre

LEMMA CollectALotStep ==
  ASSUME Safe, NEW t \in Threads, collectALot(t)
  PROVE  Safe'
<1> DEFINE w == [upd[t] EXCEPT !.lot = TRUE, !.scan = Threads \ {t}]
<1>1. /\ pc[t] = "collectALot" /\ pc' = [pc EXCEPT ![t] = "scan"]
      /\ upd' = [upd EXCEPT ![t] = w]
      /\ cacheUpdateLock = NoThread /\ cacheUpdateLock' = t
      /\ UNCHANGED <<cache, heap, garbage, garbageSize, msg, read>>
  BY DEF collectALot, Goto, trash
<1>2. /\ PcType' /\ pc'[t] = "scan"
      /\ \A u \in Threads \ {t} : pc'[u] = pc[u]
  BY <1>1, NewLabel, LabelsAre DEF Safe
<1>3. MsgType' /\ \A u \in Threads : msg'[u].cls = msg[u].cls
  BY <1>1, SameMessages DEF Safe
<1>4. ReadType' /\ \A u \in Threads \ {t} : read'[u] = read[u]
  BY <1>1 DEF Safe, Types, ReadType
<1>5. /\ UpdType' /\ \A u \in Threads \ {t} : upd'[u] = upd[u]
      /\ upd'[t].kind = upd[t].kind /\ upd'[t].scan = Threads \ {t}
  <2>1. w \in Upds /\ w.kind = upd[t].kind /\ w.scan = Threads \ {t}
    <3>1. upd[t] \in Upds /\ Threads \ {t} \in SUBSET Threads
      BY DEF Safe, Types, UpdType
    <3> QED BY <3>1 DEF Upds
  <2> HIDE DEF w
  <2> QED BY <1>1, <2>1, NewUpdate DEF Safe
<1>6. CacheType' /\ HeapType' /\ Stay
  BY <1>1, SameCaches DEF Safe, trash
<1>a. SendOk(t) /\ LockInv
  BY DEF Safe, SendInv
<1>7. Others(t)
  BY <1>2, <1>3, <1>4, <1>5 DEF Others
<1>8. Types'
  BY <1>2, <1>3, <1>4, <1>5, <1>6 DEF Types
<1>9. Locking(t)
  BY <1>1, <1>2, <1>a, LabelsAre DEF Locking, locks, LockInv
<1>10. SendOk(t)'
  BY <1>1, <1>2, <1>3, <1>4, <1>5, <1>a, LabelsAre DEF SendOk
<1>11. Held(t)'
  BY <1>2, LabelsAre DEF Held
<1>12. \A u \in Threads \ {t} : Scanned(u, t)'
  BY <1>5 DEF Scanned
<1> QED BY <1>1, <1>2, <1>6, <1>7, <1>8, <1>9, <1>10, <1>11, <1>12, WriteStep,
           LabelsAre

LEMMA ScanStep ==
  ASSUME Safe, NEW t \in Threads, Scan(t)
  PROVE  Safe'
<1>1. PICK u \in upd[t].scan :
        /\ pc[t] = "scan"
        /\ UNCHANGED <<cache, heap, garbage, garbageSize, cacheUpdateLock,
                       msg, read>>
        /\ \/ /\ ~InCritical(u) /\ pc' = pc
              /\ upd' = [upd EXCEPT ![t].scan = @ \ {u}]
           \/ /\ pc' = pc
              /\ upd' = [upd EXCEPT ![t].scan = Threads \ {t}]
           \/ /\ pc' = [pc EXCEPT ![t] = Continue(t)]
              /\ upd' = [upd EXCEPT ![t].scan = {}]
  BY DEF Scan, Goto, trash, locks
<1>a. SendOk(t) /\ LockInv /\ upd[t] \in Upds /\ pc[t] \in Labels
  BY DEF Safe, SendInv, Types, UpdType, PcType
<1>2. /\ PcType'
      /\ \A v \in Threads \ {t} : pc'[v] = pc[v]
      /\ \/ pc'[t] = "scan"
         \/ pc'[t] = "imp" /\ upd[t].kind = "fill"
         \/ pc'[t] \in {"collected", "flush"} /\ upd[t].kind # "fill"
  <2>1. CASE pc' = pc
    BY <1>1, <2>1 DEF Safe, Types, PcType
  <2>2. CASE pc' = [pc EXCEPT ![t] = Continue(t)]
    <3>1. \/ Continue(t) = "imp" /\ upd[t].kind = "fill"
          \/ Continue(t) \in {"collected", "flush"} /\ upd[t].kind # "fill"
      BY DEF Continue
    <3>2. Continue(t) \in Labels
      BY <3>1, LabelsAre
    <3> QED BY <2>2, <3>1, <3>2, NewLabel DEF Safe
  <2> QED BY <1>1, <2>1, <2>2
<1>3. MsgType' /\ \A v \in Threads : msg'[v].cls = msg[v].cls
  BY <1>1, SameMessages DEF Safe
<1>4. ReadType' /\ \A v \in Threads \ {t} : read'[v] = read[v]
  BY <1>1 DEF Safe, Types, ReadType
<1>5. /\ UpdType' /\ \A v \in Threads \ {t} : upd'[v] = upd[v]
      /\ upd'[t].kind = upd[t].kind /\ upd'[t].cls = upd[t].cls
      /\ pc'[t] = "scan" =>
           upd'[t].scan = Threads \ {t} \/
           (~InCritical(u) /\ upd'[t].scan = upd[t].scan \ {u})
  <2>1. PICK s \in SUBSET Threads :
          /\ upd' = [upd EXCEPT ![t] = [upd[t] EXCEPT !.scan = s]]
          /\ pc'[t] = "scan" =>
               s = Threads \ {t} \/ (~InCritical(u) /\ s = upd[t].scan \ {u})
    <3>1. upd[t].scan \in SUBSET Threads
      BY <1>a DEF Upds
    <3>2. CASE /\ ~InCritical(u)
               /\ upd' = [upd EXCEPT ![t] =
                            [upd[t] EXCEPT !.scan = upd[t].scan \ {u}]]
      BY <3>1, <3>2
    <3>3. CASE upd' = [upd EXCEPT ![t] =
                         [upd[t] EXCEPT !.scan = Threads \ {t}]]
      BY <3>3
    <3>4. CASE /\ pc' = [pc EXCEPT ![t] = Continue(t)]
               /\ upd' = [upd EXCEPT ![t] = [upd[t] EXCEPT !.scan = {}]]
      <4>1. pc'[t] # "scan"
        BY <3>4 DEF Continue, Safe, Types, PcType
      <4>2. {} \in SUBSET Threads
        OBVIOUS
      <4> QED BY <3>4, <4>1, <4>2
    <3> QED BY <1>1, <3>2, <3>3, <3>4
  <2> DEFINE w == [upd[t] EXCEPT !.scan = s]
  <2>2. /\ w \in Upds /\ w.kind = upd[t].kind /\ w.cls = upd[t].cls
        /\ w.scan = s
    BY <1>a DEF Upds
  <2> HIDE DEF w
  <2> QED BY <2>1, <2>2, NewUpdate DEF Safe, w
<1>6. CacheType' /\ HeapType' /\ Stay
  BY <1>1, SameCaches DEF Safe, trash
<1>7. Others(t)
  BY <1>2, <1>3, <1>4, <1>5 DEF Others
<1>8. Types'
  BY <1>2, <1>3, <1>4, <1>5, <1>6 DEF Types
<1>9. Locking(t)
  BY <1>1, <1>2, <1>a, LabelsAre DEF Locking, locks, LockInv
<1>10. SendOk(t)'
  BY <1>1, <1>2, <1>3, <1>4, <1>5, <1>a, LabelsAre DEF SendOk
<1>11. Held(t)'
  BY <1>2, LabelsAre DEF Held
<1>12. \A v \in Threads \ {t} : Scanned(v, t)'
  <2>1. \A v \in Threads \ {t} : Scanned(v, t)
    BY DEF Safe, ReaderInv
  <2> QED BY <1>1, <1>2, <1>4, <1>5, <2>1, LabelsAre DEF Scanned, InCritical
<1> QED BY <1>1, <1>2, <1>6, <1>7, <1>8, <1>9, <1>10, <1>11, <1>12, WriteStep,
           LabelsAre

LEMMA EraseStep ==
  ASSUME Safe, NEW t \in Threads, cache_erase(t)
  PROVE  Safe'
<1>1. PICK c \in upd[t].left :
        /\ pc[t] = "flush"
        /\ UNCHANGED <<cache, heap, garbage, garbageSize, cacheUpdateLock,
                       msg, read>>
        /\ \/ /\ pc' = pc
              /\ upd' = [upd EXCEPT ![t] =
                           [upd[t] EXCEPT !.left = upd[t].left \ {c}]]
           \/ /\ pc' = [pc EXCEPT ![t] = "setBuckets"]
              /\ upd' = [upd EXCEPT ![t] =
                   [upd[t] EXCEPT !.cls = c, !.buckets = Empty,
                      !.mask = cache[c].mask, !.left = upd[t].left \ {c}]]
  <2>1. /\ pc[t] = "flush"
        /\ UNCHANGED <<cache, heap, garbage, garbageSize, cacheUpdateLock,
                       msg, read>>
    BY DEF cache_erase, trash, locks
  <2>2. PICK c \in upd[t].left :
          \/ /\ upd' = [upd EXCEPT ![t].cls = c, ![t].buckets = Empty,
                          ![t].mask = cache[c].mask, ![t].left = @ \ {c}]
             /\ pc' = [pc EXCEPT ![t] = "setBuckets"]
          \/ upd' = [upd EXCEPT ![t].left = @ \ {c}] /\ pc' = pc
    BY DEF cache_erase, Goto
  <2>3. [upd EXCEPT ![t].left = @ \ {c}] =
          [upd EXCEPT ![t] = [upd[t] EXCEPT !.left = upd[t].left \ {c}]]
    OBVIOUS
  <2>4. [upd EXCEPT ![t].cls = c, ![t].buckets = Empty,
                    ![t].mask = cache[c].mask, ![t].left = @ \ {c}] =
          [upd EXCEPT ![t] =
             [upd[t] EXCEPT !.cls = c, !.buckets = Empty,
                !.mask = cache[c].mask, !.left = upd[t].left \ {c}]]
    BY DEF Safe, Types, UpdType, Upds
  <2> QED BY <2>1, <2>2, <2>3, <2>4, Zenon
<1>a. /\ SendOk(t) /\ LockInv /\ upd[t] \in Upds /\ pc[t] \in Labels
      /\ c \in Classes
  BY DEF Safe, SendInv, Types, UpdType, PcType, Upds
<1>2. /\ PcType'
      /\ \A v \in Threads \ {t} : pc'[v] = pc[v]
      /\ pc'[t] \in {"flush", "setBuckets"}
  BY <1>1, <1>a, NewLabel, LabelsAre DEF Safe, Types, PcType
<1>3. MsgType' /\ \A u \in Threads : msg'[u].cls = msg[u].cls
  BY <1>1, SameMessages DEF Safe
<1>4. ReadType' /\ \A u \in Threads \ {t} : read'[u] = read[u]
  BY <1>1 DEF Safe, Types, ReadType
<1>5. /\ UpdType' /\ \A v \in Threads \ {t} : upd'[v] = upd[v]
      /\ upd'[t].kind = upd[t].kind
      /\ pc'[t] = "setBuckets" =>
           /\ upd'[t].cls = c /\ upd'[t].buckets = Empty
           /\ upd'[t].mask = cache[c].mask
  <2> DEFINE v == [upd[t] EXCEPT !.left = upd[t].left \ {c}]
             w == [upd[t] EXCEPT !.cls = c, !.buckets = Empty,
                      !.mask = cache[c].mask, !.left = upd[t].left \ {c}]
  <2>1. /\ v \in Upds /\ v.kind = upd[t].kind
    BY <1>a DEF Upds
  <2>2. /\ w \in Upds /\ w.kind = upd[t].kind /\ w.cls = c
        /\ w.buckets = Empty /\ w.mask = cache[c].mask
    BY <1>a DEF Upds, Safe, Types, CacheType, Caches
  <2>3. \/ upd' = [upd EXCEPT ![t] = v] /\ pc'[t] = pc[t]
        \/ upd' = [upd EXCEPT ![t] = w]
    BY <1>1
  <2> HIDE DEF v, w
  <2> QED BY <1>1, <2>1, <2>2, <2>3, NewUpdate DEF Safe
<1>6. CacheType' /\ HeapType' /\ Stay
  BY <1>1, SameCaches DEF Safe, trash
<1>7. Others(t)
  BY <1>2, <1>3, <1>4, <1>5 DEF Others
<1>8. Types'
  BY <1>2, <1>3, <1>4, <1>5, <1>6 DEF Types
<1>9. Locking(t)
  BY <1>1, <1>2, <1>a, LabelsAre DEF Locking, locks, LockInv
<1>10. SendOk(t)'
  BY <1>1, <1>2, <1>3, <1>4, <1>5, <1>a, LabelsAre DEF SendOk
<1>11. Held(t)'
  BY <1>1, <1>2, <1>5, <1>a, LabelsAre
     DEF Held, Safe, Types, CacheType, Caches
<1>12. \A v \in Threads \ {t} : Scanned(v, t)'
  BY <1>2 DEF Scanned
<1> QED BY <1>1, <1>2, <1>6, <1>7, <1>8, <1>9, <1>10, <1>11, <1>12, WriteStep,
           LabelsAre

LEMMA FillStep ==
  ASSUME Safe, NEW t \in Threads, Fill(t)
  PROVE  Safe'
<1> DEFINE c == msg[t].cls
<1>1. /\ pc[t] = "fill" /\ cacheUpdateLock = NoThread
      /\ cacheUpdateLock' = t
      /\ UNCHANGED <<cache, garbage, garbageSize, msg, read>>
  BY DEF Fill, trash
<1>a. SendOk(t) /\ LockInv /\ c \in Classes
  BY <1>1, LabelsAre DEF Safe, SendInv, SendOk
<1>b. CASE pc' = [pc EXCEPT ![t] = "imp"] /\ UNCHANGED <<heap, upd>>
  <2>2. /\ PcType' /\ pc'[t] = "imp"
        /\ \A u \in Threads \ {t} : pc'[u] = pc[u]
    BY <1>b, NewLabel, LabelsAre DEF Safe
  <2>3. MsgType' /\ \A u \in Threads : msg'[u].cls = msg[u].cls
    BY <1>1, SameMessages DEF Safe
  <2>4. /\ ReadType' /\ UpdType' /\ upd'[t] = upd[t]
        /\ \A u \in Threads : read'[u] = read[u] /\ upd'[u] = upd[u]
    BY <1>1, <1>b DEF Safe, Types, ReadType, UpdType
  <2>5. CacheType' /\ HeapType' /\ Stay
    BY <1>1, <1>b, SameCaches DEF Safe, trash
  <2>6. Others(t) /\ Types'
    BY <2>2, <2>3, <2>4, <2>5 DEF Others, Types
  <2>7. Locking(t)
    BY <1>1, <2>2, <1>a, LabelsAre DEF Locking, LockInv
  <2>8. SendOk(t)'
    BY <1>1, <2>2, <2>3, <2>4, <1>a, LabelsAre DEF SendOk
  <2> QED BY <1>1, <2>2, <2>5, <2>6, <2>7, <2>8, QuietStep, LabelsAre
<1>c. CASE Free # {} /\ reallocate(t, NextCapacity(c))
  <2> DEFINE n == NextCapacity(c)
             b == Min(Free)
             w == [NoUpd EXCEPT !.cls = c, !.buckets = b, !.mask = n - 1]
  <2>1. /\ pc' = [pc EXCEPT ![t] = "setBuckets"]
        /\ upd' = [upd EXCEPT ![t] = w]
        /\ heap' = [heap EXCEPT ![b] = [i \in 0..(n - 1) |-> Unused]]
    BY <1>c DEF reallocate, allocateBuckets, Goto
  <2>2. b \in Blocks /\ DOMAIN heap[b] = {}
    BY <1>c, FreeBlock
  <2>3. n \in Nat \ {0} /\ cache[c].mask <= n - 1
    BY <1>a, CapacityGrows
  <2> HIDE DEF n, b
  <2>4. /\ PcType' /\ pc'[t] = "setBuckets"
        /\ \A u \in Threads \ {t} : pc'[u] = pc[u]
    BY <2>1, NewLabel, LabelsAre DEF Safe
  <2>5. MsgType' /\ \A u \in Threads : msg'[u].cls = msg[u].cls
    BY <1>1, SameMessages DEF Safe
  <2>6. ReadType' /\ \A u \in Threads : read'[u] = read[u]
    BY <1>1 DEF Safe, Types, ReadType
  <2>7. /\ UpdType' /\ \A u \in Threads \ {t} : upd'[u] = upd[u]
        /\ upd'[t].cls = c /\ upd'[t].buckets = b /\ upd'[t].mask = n - 1
        /\ upd'[t].kind = "fill"
    <3>1. /\ w \in Upds /\ w.cls = c /\ w.buckets = b /\ w.mask = n - 1
          /\ w.kind = "fill"
      <4>1. NoUpd \in Upds /\ NoUpd.kind = "fill" /\ n - 1 \in Nat
        BY <2>3, Forgotten DEF NoUpd
      <4> QED BY <1>a, <2>2, <4>1 DEF Upds
    <3> HIDE DEF w
    <3> QED BY <2>1, <3>1, NewUpdate DEF Safe
  <2>8. /\ CacheType' /\ HeapType'
        /\ DOMAIN heap'[b] = 0..(n - 1)
        /\ \A a \in Blocks : a # b => DOMAIN heap'[a] = DOMAIN heap[a]
    BY <1>1, <2>1, <2>2 DEF Safe, Types, CacheType, HeapType
  <2>9. Others(t) /\ Types'
    BY <2>4, <2>5, <2>6, <2>7, <2>8 DEF Others, Types
  <2>10. LockInv'
    <3>1. Locking(t)
      BY <1>1, <2>4, <1>a, LabelsAre DEF Locking, LockInv
    <3> QED BY <2>9, <3>1, KeepLocks
  <2>11. SendInv'
    <3>1. SendOk(t)'
      BY <1>a, <2>4, <2>5, <2>7, LabelsAre DEF SendOk
    <3> QED BY <2>9, <3>1, KeepSending
  <2>12. \A u \in Threads : pc[u] \notin Owners
    BY <1>1, Alone, LabelsAre
  <2>13. ASSUME NEW d \in Classes, cache[d].buckets # Empty
         PROVE  /\ DOMAIN heap[cache[d].buckets] = 0..cache[d].mask
                /\ cache[d].buckets \notin garbage /\ cache[d].buckets # b
                /\ cache[d].buckets \in Blocks /\ cache[d].mask \in Nat
    <3>1. Sized(d) /\ cache[d].mask \in Nat
          /\ cache[d].buckets \in {Empty} \cup Blocks
      BY DEF Safe, BlockInv, Types, CacheType, Caches
    <3>2. DOMAIN heap[cache[d].buckets] = 0..cache[d].mask
      BY <2>12, <2>13, <3>1, LabelsAre DEF Sized
    <3>3. 0 \in 0..cache[d].mask
      BY <3>1
    <3> QED BY <2>2, <2>13, <3>1, <3>2, <3>3 DEF Sized
  <2>14. \A a \in garbage : a # b /\ DOMAIN heap'[a] = DOMAIN heap[a]
    BY <2>2, <2>8 DEF Safe, BlockInv, Types, HeapType
  <2>15. BlockInv'
    <3>1. \A d \in Classes : Sized(d)'
      BY <1>1, <2>8, <2>13 DEF Sized
    <3>2. Held(t)'
      <4>1. 0 \in 0..(n - 1)
        BY <2>3
      <4> QED BY <1>1, <1>a, <2>2, <2>3, <2>4, <2>7, <2>8, <2>13, <2>14, <4>1,
                 LabelsAre DEF Held, Empty, Blocks
    <3>3. \A u \in Threads \ {t} : Held(u)'
      BY <2>4, <2>12, LabelsAre DEF Held
    <3> QED BY <1>1, <2>14, <3>1, <3>2, <3>3 DEF Safe, BlockInv
  <2>16. ReaderInv'
    <3>1. ASSUME NEW u \in Threads PROVE ReaderOk(u)'
      <4>1. CASE u = t
        BY <2>4, <4>1, LabelsAre DEF ReaderOk
      <4>2. CASE u # t
        <5>1. /\ ReaderOk(u) /\ read[u].block \in {Empty} \cup Blocks
              /\ pc'[u] = pc[u] /\ read'[u] = read[u]
              /\ msg'[u].cls = msg[u].cls
          BY <2>4, <2>5, <2>6, <4>2
             DEF Safe, ReaderInv, Types, ReadType, Reads
        <5>2. ASSUME NEW a, Reachable(a) PROVE Reachable(a)'
          BY <1>1, <2>12, <5>2, LabelsAre DEF Reachable
        <5>3. ASSUME pc[u] \in Reading, read[u].block # Empty
              PROVE  \E k \in Nat : /\ DOMAIN heap'[read[u].block] = 0..k
                                    /\ read[u].idx <= k + 1
          <6>1. PICK k \in Nat : /\ DOMAIN heap[read[u].block] = 0..k
                                 /\ read[u].idx <= k + 1
            BY <5>1, <5>3 DEF ReaderOk
          <6>2. 0 \in 0..k
            OBVIOUS
          <6> QED BY <2>2, <2>8, <5>1, <5>3, <6>1, <6>2
        <5> QED BY <1>1, <5>1, <5>2, <5>3 DEF ReaderOk
      <4> QED BY <4>1, <4>2
    <3>2. \A u, v \in Threads : Scanned(u, v)'
      BY <2>4, <2>12, LabelsAre DEF Scanned
    <3> QED BY <3>1, <3>2 DEF ReaderInv
  <2> QED BY <2>9, <2>10, <2>11, <2>15, <2>16 DEF Safe
<1> QED BY <1>b, <1>c DEF Fill, reallocate, Goto

LEMMA SetBucketsStep ==
  ASSUME Safe, NEW t \in Threads, SetBuckets(t)
  PROVE  Safe'
<1> DEFINE c == upd[t].cls
           b == upd[t].buckets
           old == cache[c].buckets
           w == [upd[t] EXCEPT !.buckets = old]
<1>1. /\ pc[t] = "setBuckets" /\ pc' = [pc EXCEPT ![t] = "setMask"]
      /\ cache' = [cache EXCEPT ![c].buckets = b]
      /\ upd' = [upd EXCEPT ![t] = w]
      /\ UNCHANGED <<heap, garbage, garbageSize, cacheUpdateLock, msg, read>>
  BY DEF SetBuckets, isConstantEmptyCache, Goto, trash, locks
<1>a. /\ SendOk(t) /\ LockInv /\ Held(t) /\ c \in Classes
      /\ b \in {Empty} \cup Blocks /\ upd[t].mask \in Nat
      /\ \A d \in Classes :
           /\ Sized(d) /\ cache[d].mask \in Nat
           /\ cache[d].buckets \in {Empty} \cup Blocks
  BY <1>1, LabelsAre DEF Safe, SendInv, SendOk, BlockInv, Types, UpdType,
     Upds, CacheType, Caches
<1>b. \A u \in Threads \ {t} : pc[u] \notin Owners
  BY <1>1, Alone, LabelsAre
<1>2. /\ PcType' /\ pc'[t] = "setMask"
      /\ \A u \in Threads \ {t} : pc'[u] = pc[u]
  BY <1>1, NewLabel, LabelsAre DEF Safe
<1>3. MsgType' /\ \A u \in Threads : msg'[u].cls = msg[u].cls
  BY <1>1, SameMessages DEF Safe
<1>4. ReadType' /\ \A u \in Threads \ {t} : read'[u] = read[u]
  BY <1>1 DEF Safe, Types, ReadType
<1>5. /\ UpdType' /\ \A u \in Threads \ {t} : upd'[u] = upd[u]
      /\ upd'[t].kind = upd[t].kind /\ upd'[t].cls = c
      /\ upd'[t].buckets = old /\ upd'[t].mask = upd[t].mask
  <2>1. /\ w \in Upds /\ w.kind = upd[t].kind /\ w.cls = c
        /\ w.buckets = old /\ w.mask = upd[t].mask
    BY <1>a DEF Safe, Types, UpdType, Upds
  <2> HIDE DEF w
  <2> QED BY <1>1, <2>1, NewUpdate DEF Safe
<1>6. /\ CacheType' /\ HeapType'
      /\ \A d \in Classes :
           /\ cache'[d].mask = cache[d].mask
           /\ cache'[d].buckets = IF d = c THEN b ELSE cache[d].buckets
  BY <1>1, <1>a DEF Safe, Types, CacheType, Caches, HeapType
<1>7. Others(t)
  BY <1>2, <1>3, <1>4, <1>5 DEF Others
<1>8. Types'
  BY <1>2, <1>3, <1>4, <1>5, <1>6 DEF Types
<1>9. LockInv'
  <2>1. Locking(t)
    BY <1>1, <1>2, <1>a, LabelsAre DEF Locking, LockInv
  <2> QED BY <1>7, <2>1, KeepLocks
<1>10. SendInv'
  <2>1. SendOk(t)'
    BY <1>1, <1>2, <1>3, <1>4, <1>5, <1>a, LabelsAre DEF SendOk
  <2> QED BY <1>7, <2>1, KeepSending
<1>11. \A d \in Classes : cache[d].buckets # Empty =>
         /\ cache[d].buckets \notin garbage
         /\ DOMAIN heap[cache[d].buckets] = 0..cache[d].mask
  BY <1>1, <1>a, <1>b, LabelsAre DEF Sized
<1>12. /\ \A d \in Classes : b # Empty => cache[d].buckets # b
       /\ \A d \in Classes :
            cache[d].buckets # Empty /\ cache[d].buckets = old => d = c
       /\ b # Empty => /\ b \notin garbage
                       /\ DOMAIN heap[b] = 0..upd[t].mask
       /\ upd[t].mask >= cache[c].mask
  BY <1>1, <1>a, LabelsAre DEF Held, Safe, BlockInv
<1> HIDE DEF c, b, old
<1>13. BlockInv'
  <2>1. ASSUME NEW d \in Classes PROVE Sized(d)'
    <3>1. CASE d = c
      BY <1>1, <1>2, <1>5, <1>6, <1>12, <3>1 DEF Sized
    <3>2. CASE d # c
      BY <1>1, <1>6, <1>11, <3>2 DEF Sized
    <3> QED BY <3>1, <3>2
  <2>2. Held(t)'
    <3>1. old # Empty => DOMAIN heap[old] # {} /\ old \notin garbage
      <4>1. 0 \in 0..cache[c].mask
        BY <1>a
      <4> QED BY <1>11, <1>a, <4>1 DEF old
    <3>2. \A d \in Classes : old # Empty => cache'[d].buckets # old
      BY <1>6, <1>12, <1>a DEF old
    <3> QED BY <1>1, <1>2, <1>5, <1>6, <1>12, <1>a, <3>1, <3>2 DEF Held
  <2>3. \A u \in Threads \ {t} : Held(u)'
    BY <1>2, <1>b, LabelsAre DEF Held
  <2>4. \A d, e \in Classes :
          cache'[d].buckets # Empty /\ cache'[d].buckets = cache'[e].buckets =>
            d = e
    BY <1>6, <1>12 DEF Safe, BlockInv
  <2> QED BY <1>1, <2>1, <2>2, <2>3, <2>4 DEF Safe, BlockInv
<1>14. ReaderInv'
  <2>1. ASSUME NEW u \in Threads PROVE ReaderOk(u)'
    <3>1. CASE u = t
      BY <1>2, <3>1, LabelsAre DEF ReaderOk
    <3>2. CASE u # t
      <4>1. /\ ReaderOk(u) /\ pc'[u] = pc[u] /\ read'[u] = read[u]
            /\ msg'[u].cls = msg[u].cls
            /\ pc[u] = "buckets" => msg[u].cls \in Classes
        BY <1>2, <1>3, <1>4, <3>2, LabelsAre
           DEF Safe, ReaderInv, SendInv, SendOk
      <4>2. ASSUME NEW a, Reachable(a) PROVE Reachable(a)'
        <5>1. CASE a = old
          BY <1>2, <1>5, <5>1 DEF Reachable
        <5>2. CASE a # old
          BY <1>1, <1>6, <1>b, <4>2, <5>2, LabelsAre DEF Reachable, old
        <5> QED BY <5>1, <5>2
      <4> QED BY <1>1, <1>6, <4>1, <4>2 DEF ReaderOk
    <3> QED BY <3>1, <3>2
  <2>2. \A u, v \in Threads : Scanned(u, v)'
    BY <1>2, <1>b, LabelsAre DEF Scanned
  <2> QED BY <2>1, <2>2 DEF ReaderInv
<1> QED BY <1>8, <1>9, <1>10, <1>13, <1>14 DEF Safe

LEMMA SetMaskStep ==
  ASSUME Safe, NEW t \in Threads, SetMask(t)
  PROVE  Safe'
<1> DEFINE c == upd[t].cls
           b == upd[t].buckets
           m == upd[t].mask
<1>1. /\ pc[t] = "setMask"
      /\ cache' = [cache EXCEPT ![c].mask = m, ![c].occupied = 0]
      /\ garbage' = IF b = Empty THEN garbage ELSE garbage \cup {b}
      /\ UNCHANGED <<heap, cacheUpdateLock, msg, read>>
      /\ \/ pc' = [pc EXCEPT ![t] = Continue(t)] /\ upd' = upd
         \/ /\ pc' = [pc EXCEPT ![t] = "scan"]
            /\ upd' = [upd EXCEPT ![t] =
                         [upd[t] EXCEPT !.scan = Threads \ {t}]]
  BY DEF SetMask, Goto, trash, locks
<1>a. /\ SendOk(t) /\ LockInv /\ Held(t) /\ c \in Classes
      /\ b \in {Empty} \cup Blocks /\ upd[t].mask \in Nat
      /\ \A d \in Classes :
           /\ Sized(d) /\ cache[d].mask \in Nat
           /\ cache[d].buckets \in {Empty} \cup Blocks
  BY <1>1, LabelsAre DEF Safe, SendInv, SendOk, BlockInv, Types, UpdType,
     Upds, CacheType, Caches
<1>b. \A u \in Threads \ {t} : pc[u] \notin Owners
  BY <1>1, Alone, LabelsAre
<1>2. /\ PcType'
      /\ \A v \in Threads \ {t} : pc'[v] = pc[v]
      /\ \/ pc'[t] = "scan"
         \/ pc'[t] = "imp" /\ upd[t].kind = "fill"
         \/ pc'[t] \in {"collected", "flush"} /\ upd[t].kind # "fill"
  <2>1. CASE pc' = [pc EXCEPT ![t] = "scan"]
    BY <2>1, NewLabel, LabelsAre DEF Safe
  <2>2. CASE pc' = [pc EXCEPT ![t] = Continue(t)]
    <3>1. \/ Continue(t) = "imp" /\ upd[t].kind = "fill"
          \/ Continue(t) \in {"collected", "flush"} /\ upd[t].kind # "fill"
      BY DEF Continue
    <3>2. Continue(t) \in Labels
      BY <3>1, LabelsAre
    <3> QED BY <2>2, <3>1, <3>2, NewLabel DEF Safe
  <2> QED BY <1>1, <2>1, <2>2
<1>3. MsgType' /\ \A u \in Threads : msg'[u].cls = msg[u].cls
  BY <1>1, SameMessages DEF Safe
<1>4. ReadType' /\ \A u \in Threads \ {t} : read'[u] = read[u]
  BY <1>1 DEF Safe, Types, ReadType
<1>5. /\ UpdType' /\ \A u \in Threads \ {t} : upd'[u] = upd[u]
      /\ upd'[t].kind = upd[t].kind /\ upd'[t].cls = c
      /\ pc'[t] = "scan" => upd'[t].scan = Threads \ {t}
  <2>1. CASE pc' = [pc EXCEPT ![t] = Continue(t)] /\ upd' = upd
    <3>1. pc'[t] # "scan"
      BY <2>1 DEF Continue, Safe, Types, PcType
    <3> QED BY <2>1, <3>1 DEF Safe, Types, UpdType
  <2>2. CASE upd' = [upd EXCEPT ![t] =
                         [upd[t] EXCEPT !.scan = Threads \ {t}]]
    <3> DEFINE w == [upd[t] EXCEPT !.scan = Threads \ {t}]
    <3>1. upd[t] \in Upds /\ Threads \ {t} \in SUBSET Threads
      BY DEF Safe, Types, UpdType
    <3>2. w \in Upds /\ w.kind = upd[t].kind /\ w.cls = c
          /\ w.scan = Threads \ {t}
      BY <3>1 DEF Upds
    <3>3. upd' = [upd EXCEPT ![t] = w]
      BY <2>2
    <3> HIDE DEF w
    <3> QED BY <3>2, <3>3, NewUpdate DEF Safe
  <2> QED BY <1>1, <2>1, <2>2
<1>6. /\ CacheType' /\ HeapType'
      /\ \A d \in Classes :
           /\ cache'[d].mask = IF d = c THEN m ELSE cache[d].mask
           /\ cache'[d].buckets = cache[d].buckets
  BY <1>1, <1>a DEF Safe, Types, CacheType, Caches, HeapType
<1>7. Others(t)
  BY <1>2, <1>3, <1>4, <1>5 DEF Others
<1>8. Types'
  BY <1>2, <1>3, <1>4, <1>5, <1>6 DEF Types
<1>9. LockInv'
  <2>1. Locking(t)
    BY <1>1, <1>2, <1>a, LabelsAre DEF Locking, LockInv
  <2> QED BY <1>7, <2>1, KeepLocks
<1>10. SendInv'
  <2>1. SendOk(t)'
    BY <1>1, <1>2, <1>3, <1>4, <1>5, <1>a, LabelsAre DEF SendOk
  <2> QED BY <1>7, <2>1, KeepSending
<1>11. \A d \in Classes : cache[d].buckets # Empty =>
         /\ cache[d].buckets \notin garbage
         /\ DOMAIN heap[cache[d].buckets] = 0..(cache'[d].mask)
  <2> SUFFICES ASSUME NEW d \in Classes, cache[d].buckets # Empty
               PROVE  /\ cache[d].buckets \notin garbage
                      /\ DOMAIN heap[cache[d].buckets] = 0..(cache'[d].mask)
    OBVIOUS
  <2>1. cache[d].buckets \notin garbage /\ Sized(d)
    BY <1>a DEF Sized
  <2>2. CASE d = c
    <3>1. DOMAIN heap[cache[c].buckets] = 0..m
      BY <1>1, <1>a, <2>2, LabelsAre DEF Held
    <3> QED BY <1>6, <2>1, <2>2, <3>1
  <2>3. CASE d # c
    <3>1. \A u \in Threads : ~(pc[u] = "setMask" /\ upd[u].cls = d)
      BY <1>b, <2>3, LabelsAre
    <3>2. cache'[d].mask = cache[d].mask
      BY <1>6, <2>3
    <3> QED BY <2>1, <3>1, <3>2 DEF Sized
  <2> QED BY <2>1, <2>2, <2>3
<1>12. /\ \A d \in Classes : b # Empty => cache[d].buckets # b
       /\ b # Empty => DOMAIN heap[b] # {}
       /\ m >= cache[c].mask
  BY <1>1, <1>a, LabelsAre DEF Held
<1> HIDE DEF c, b, m
<1>13. BlockInv'
  <2>1. ASSUME NEW d \in Classes PROVE Sized(d)'
    <3>1. cache'[d].buckets = cache[d].buckets /\ heap' = heap
      BY <1>1, <1>6
    <3>2. cache[d].buckets # Empty => cache[d].buckets \notin garbage'
      BY <1>1, <1>11, <1>12
    <3> QED BY <1>11, <3>1, <3>2 DEF Sized
  <2>2. \A u \in Threads : Held(u)'
    BY <1>2, <1>b, LabelsAre DEF Held
  <2>3. \A a \in garbage' : DOMAIN heap[a] # {}
    BY <1>1, <1>12 DEF Safe, BlockInv
  <2>4. \A d, e \in Classes :
          cache'[d].buckets # Empty /\ cache'[d].buckets = cache'[e].buckets =>
            d = e
    BY <1>6 DEF Safe, BlockInv
  <2> QED BY <1>1, <2>1, <2>2, <2>3, <2>4 DEF BlockInv
<1>14. ReaderInv'
  <2>1. ASSUME NEW u \in Threads PROVE ReaderOk(u)'
    <3>1. CASE u = t
      BY <1>2, <3>1, LabelsAre DEF ReaderOk
    <3>2. CASE u # t
      <4>1. /\ ReaderOk(u) /\ pc'[u] = pc[u] /\ read'[u] = read[u]
            /\ msg'[u].cls = msg[u].cls
            /\ pc[u] = "buckets" => msg[u].cls \in Classes
            /\ read[u].mask \in Nat
            /\ read[u].block \in {Empty} \cup Blocks
        BY <1>2, <1>3, <1>4, <3>2, LabelsAre
           DEF Safe, ReaderInv, SendInv, SendOk, Types, ReadType, Reads
      <4>2. ASSUME NEW a, a # Empty, Reachable(a) PROVE Reachable(a)'
        <5>1. CASE a = b
          BY <1>1, <4>2, <5>1 DEF Reachable
        <5>2. CASE a # b
          BY <1>1, <1>6, <1>b, <4>2, <5>2, LabelsAre DEF Reachable, b
        <5> QED BY <5>1, <5>2
      <4>3. pc[u] = "buckets" => read[u].mask <= cache'[msg[u].cls].mask
        BY <1>6, <1>12, <1>a, <4>1 DEF ReaderOk, m, c
      <4> QED BY <1>1, <4>1, <4>2, <4>3 DEF ReaderOk
    <3> QED BY <3>1, <3>2
  <2>2. \A u, v \in Threads : Scanned(u, v)'
    BY <1>2, <1>5, <1>b, LabelsAre DEF Scanned
  <2> QED BY <2>1, <2>2 DEF ReaderInv
<1> QED BY <1>8, <1>9, <1>10, <1>13, <1>14 DEF Safe

LEMMA DisposeStep ==
  ASSUME Safe, NEW t \in Threads, Dispose(t)
  PROVE  Safe'
<1>1. /\ pc[t] = "scan" /\ upd[t].scan = {}
      /\ pc' = [pc EXCEPT ![t] = Continue(t)]
      /\ heap' = [b \in Blocks |-> IF b \in garbage THEN << >> ELSE heap[b]]
      /\ garbage' = {}
      /\ UNCHANGED <<cache, cacheUpdateLock, msg, read, upd>>
  BY DEF Dispose, Goto, locks
<1>a. SendOk(t) /\ LockInv
  BY DEF Safe, SendInv
<1>b. \A u \in Threads \ {t} : pc[u] \notin Owners
  BY <1>1, Alone, LabelsAre
<1>2. /\ PcType'
      /\ \A v \in Threads \ {t} : pc'[v] = pc[v]
      /\ \/ pc'[t] = "imp" /\ upd[t].kind = "fill"
         \/ pc'[t] \in {"collected", "flush"} /\ upd[t].kind # "fill"
  <2>1. \/ Continue(t) = "imp" /\ upd[t].kind = "fill"
        \/ Continue(t) \in {"collected", "flush"} /\ upd[t].kind # "fill"
    BY DEF Continue
  <2>2. Continue(t) \in Labels
    BY <2>1, LabelsAre
  <2> QED BY <1>1, <2>1, <2>2, NewLabel DEF Safe
<1>3. MsgType' /\ \A u \in Threads : msg'[u].cls = msg[u].cls
  BY <1>1, SameMessages DEF Safe
<1>4. ReadType' /\ \A u \in Threads \ {t} : read'[u] = read[u]
  BY <1>1 DEF Safe, Types, ReadType
<1>5. /\ UpdType' /\ \A u \in Threads \ {t} : upd'[u] = upd[u]
      /\ upd'[t] = upd[t]
  BY <1>1 DEF Safe, Types, UpdType
<1>6. /\ CacheType' /\ HeapType'
      /\ \A b \in Blocks : b \notin garbage => heap'[b] = heap[b]
  BY <1>1 DEF Safe, Types, CacheType, HeapType
<1>7. Others(t)
  BY <1>2, <1>3, <1>4, <1>5 DEF Others
<1>8. Types'
  BY <1>2, <1>3, <1>4, <1>5, <1>6 DEF Types
<1>9. LockInv'
  <2>1. Locking(t)
    BY <1>1, <1>2, <1>a, LabelsAre DEF Locking, LockInv
  <2> QED BY <1>7, <2>1, KeepLocks
<1>10. SendInv'
  <2>1. SendOk(t)'
    BY <1>1, <1>2, <1>3, <1>4, <1>5, <1>a, LabelsAre DEF SendOk
  <2> QED BY <1>7, <2>1, KeepSending
<1>11. BlockInv'
  <2>1. ASSUME NEW d \in Classes PROVE Sized(d)'
    <3>1. Sized(d) /\ cache[d].buckets \in {Empty} \cup Blocks
      BY DEF Safe, BlockInv, Types, CacheType, Caches
    <3>2. \A u \in Threads : pc[u] # "setMask"
      BY <1>1, <1>b, LabelsAre
    <3> QED BY <1>1, <1>6, <3>1, <3>2 DEF Sized
  <2>2. \A u \in Threads : Held(u)'
    BY <1>2, <1>b, LabelsAre DEF Held
  <2> QED BY <1>1, <2>1, <2>2 DEF Safe, BlockInv
<1>12. ReaderInv'
  <2>1. ASSUME NEW u \in Threads PROVE ReaderOk(u)'
    <3>1. CASE u = t
      BY <1>2, <3>1, LabelsAre DEF ReaderOk
    <3>2. CASE u # t
      <4>1. /\ ReaderOk(u) /\ pc'[u] = pc[u] /\ read'[u] = read[u]
            /\ msg'[u].cls = msg[u].cls /\ Scanned(u, t)
            /\ read[u].block \in {Empty} \cup Blocks
        BY <1>2, <1>3, <1>4, <3>2, LabelsAre
           DEF Safe, ReaderInv, Types, ReadType, Reads
      <4>2. pc[u] \in Reading => read[u].block \notin garbage
        BY <1>1, <3>2, <4>1 DEF Scanned
      <4>3. ASSUME NEW a, a \notin garbage, Reachable(a) PROVE Reachable(a)'
        BY <1>1, <1>b, <4>3, LabelsAre DEF Reachable
      <4> QED BY <1>1, <1>6, <4>1, <4>2, <4>3 DEF ReaderOk
    <3> QED BY <3>1, <3>2
  <2>2. \A u, v \in Threads : Scanned(u, v)'
    BY <1>2, <1>b, LabelsAre DEF Scanned
  <2> QED BY <2>1, <2>2 DEF ReaderInv
<1> QED BY <1>8, <1>9, <1>10, <1>11, <1>12 DEF Safe

-----------------------------------------------------------------------------
(* All steps *)

LEMMA SafeInitially == Init => Safe
<1> SUFFICES ASSUME Init PROVE Safe
  OBVIOUS
<1>1. /\ \A t \in Threads : pc[t] = "idle"
      /\ \A c \in Classes : cache[c].buckets = Empty
      /\ garbage = {}
  BY DEF Init
<1>2. Types
  <2>1. CacheType
    BY DEF Init, CacheType, Caches
  <2>2. HeapType /\ PcType
    BY LabelsAre DEF Init, HeapType, PcType
  <2>3. ReadType /\ UpdType
    BY Forgotten DEF Init, ReadType, UpdType
  <2>4. MsgType
    BY DEF Init, MsgType, NoMsg
  <2> QED BY <2>1, <2>2, <2>3, <2>4 DEF Types
<1>3. LockInv /\ SendInv
  BY <1>1, LabelsAre DEF LockInv, SendInv, SendOk
<1>4. BlockInv
  BY <1>1, LabelsAre DEF BlockInv, Sized, Held
<1>5. ReaderInv
  BY <1>1, LabelsAre DEF ReaderInv, ReaderOk, Scanned
<1> QED BY <1>2, <1>3, <1>4, <1>5 DEF Safe

LEMMA SafeStutters ==
  ASSUME Safe, UNCHANGED vars PROVE Safe'
<1>1. UNCHANGED <<cache, heap, garbage, cacheUpdateLock, pc, msg, read, upd>>
  BY DEF vars, trash, locks
<1>2. Types' /\ LockInv' /\ SendInv'
  BY <1>1 DEF Safe, Types, CacheType, HeapType, PcType, ReadType, UpdType,
              MsgType, LockInv, SendInv, SendOk
<1>3. BlockInv'
  BY <1>1 DEF Safe, BlockInv, Sized, Held
<1>4. ReaderInv'
  BY <1>1 DEF Safe, ReaderInv, ReaderOk, Reachable, Scanned
<1> QED BY <1>2, <1>3, <1>4 DEF Safe

LEMMA SafeStep ==
  ASSUME Safe, [Next]_vars PROVE Safe'
<1>1. CASE UNCHANGED vars
  BY <1>1, SafeStutters
<1>2. ASSUME NEW t \in Threads, NEW c \in Classes, NEW s \in Sels,
             \/ objc_msgSend(t, c, s)
             \/ \E kind \in {"add", "set"} : BeginChange(t, kind, c, s)
      PROVE  Safe'
  BY <1>2, SendStep, BeginChangeStep
<1>3. ASSUME NEW t \in Threads, objc_flush_caches(t) PROVE Safe'
  BY <1>3, FlushAllStep
<1>4. ASSUME NEW t \in Threads, Step(t) PROVE Safe'
  BY <1>4, ReadBucketsStep, HitStep, ProbeStep, MissStep, CacheHitStep,
     LookUpStep, ResolveStep, FillNothingStep, FillStep, SetImpStep,
     SetKeyStep, SetBucketsStep, SetMaskStep, ScanStep, DisposeStep,
     ChangeStep, FlushCachesStep, EraseStep, FlushedStep, CollectALotStep,
     CollectedStep DEF Step
<1> QED BY <1>1, <1>2, <1>3, <1>4 DEF Next

(* A thread that reads a cache without a lock finds its buckets allocated, *)
(* and stays between the first one and the end marker: no order in which   *)
(* other threads replace, erase and collect them frees what it holds, or   *)
(* gives it a mask that is too large for its buckets.                      *)
THEOREM ReadersStaySafe == Spec => []ReadersAreSafe
<1>1. Init => Safe
  BY SafeInitially
<1>2. Safe /\ [Next]_vars => Safe'
  BY SafeStep
<1>3. Safe => ReadersAreSafe
  <2> SUFFICES ASSUME Safe, NEW t \in Threads, pc[t] \in Reading,
                      read[t].block # Empty
               PROVE  /\ heap[read[t].block] # << >>
                      /\ read[t].idx \in
                           0..Cardinality(DOMAIN heap[read[t].block])
    BY LabelsAre DEF ReadersAreSafe
  <2>1. PICK k \in Nat : /\ DOMAIN heap[read[t].block] = 0..k
                         /\ read[t].idx <= k + 1
    BY DEF Safe, ReaderInv, ReaderOk
  <2>2. read[t].idx \in Nat
    BY DEF Safe, Types, ReadType, Reads
  <2>3. Cardinality(0..k) = k + 1
    BY FS_Interval
  <2>4. 0 \in DOMAIN heap[read[t].block] /\ DOMAIN << >> = {}
    BY <2>1
  <2> QED BY <2>1, <2>2, <2>3, <2>4
<1> QED BY <1>1, <1>2, <1>3, PTL DEF Spec

-----------------------------------------------------------------------------
(* Room in the caches *)

Keys(b) == [i \in DOMAIN heap[b] |-> heap[b][i].key]

UsedOf(f) == {i \in DOMAIN f : f[i] # Nil}

\* Of n buckets with the keys f, the search for s ends after k others.
Lands(f, n, s, k) ==
  /\ k \in 0..(n - 1)
  /\ f[(s + k) % n] \in {Nil, s}
  /\ \A j \in 0..(k - 1) : f[(s + j) % n] \notin {Nil, s}

\* Every key is where the search for it ends.
Probed(f, n) ==
  \A i \in UsedOf(f) :
    \E k \in 0..(n - 1) : Lands(f, n, f[i], k) /\ (f[i] + k) % n = i

\* At least two buckets, o of them used and not all.
Table(f, n, o) ==
  /\ n \in Nat /\ n > 1
  /\ f \in [0..(n - 1) -> Sels \cup {Nil}]
  /\ Probed(f, n)
  /\ o = Cardinality(UsedOf(f)) /\ o < n

Blank(n) == [i \in 0..(n - 1) |-> Nil]

BucketsOk ==
  \A b \in Blocks : \A i \in DOMAIN heap[b] : "key" \in DOMAIN heap[b][i]

SelsOk == \A t \in Threads : msg[t].cls # NoClass => msg[t].sel \in Sels

\* Nobody is about to write the mask or the last key of the cache.
Whole(c) ==
  \A t \in Threads : /\ ~(pc[t] = "setMask" /\ upd[t].cls = c)
                     /\ ~(pc[t] = "key" /\ msg[t].cls = c)

RoomOk(c) ==
  Whole(c) =>
    IF cache[c].buckets = Empty THEN cache[c].occupied = 0
    ELSE Table(Keys(cache[c].buckets), cache[c].mask + 1, cache[c].occupied)

\* A cache with room for one more key.
Roomy(c) ==
  cache[c].buckets # Empty /\ cache[c].occupied + 1 < cache[c].mask + 1

\* The keys of a cache when the key of the message is there.
Filled(c, s) ==
  LET b == cache[c].buckets IN [Keys(b) EXCEPT ![find(b, s)] = s]

WriterOk(t) ==
  /\ pc[t] = "imp" \/ (pc[t] = "scan" /\ upd[t].kind = "fill") =>
       Roomy(msg[t].cls)
  /\ pc[t] = "key" =>
       LET c == msg[t].cls
       IN /\ cache[c].buckets # Empty
          /\ Table(Filled(c, msg[t].sel), cache[c].mask + 1, cache[c].occupied)
  /\ pc[t] = "setBuckets" =>
       IF upd[t].buckets = Empty THEN upd[t].kind # "fill"
       ELSE upd[t].mask > 0 /\ Keys(upd[t].buckets) = Blank(upd[t].mask + 1)
  /\ pc[t] = "setMask" =>
       LET b == cache[upd[t].cls].buckets
       IN IF b = Empty THEN upd[t].kind # "fill"
          ELSE upd[t].mask > 0 /\ Keys(b) = Blank(upd[t].mask + 1)

Room ==
  /\ BucketsOk /\ SelsOk
  /\ \A c \in Classes : RoomOk(c)
  /\ \A t \in Threads : WriterOk(t)

\* The bucket u is the k-th of n from the hash of s.
LEMMA Reached ==
  ASSUME NEW n \in Nat \ {0}, NEW s \in Nat, NEW u \in 0..(n - 1)
  PROVE  \E k \in 0..(n - 1) : (s + k) % n = u
<1> DEFINE r == s % n
           q == s \div n
           k == IF u >= r THEN u - r ELSE u - r + n
<1>1. r \in 0..(n - 1) /\ q \in Int /\ s = n * q + r
  OBVIOUS
<1>2. \A x \in Int : (n * x + u) % n = u
  OBVIOUS
<1>3. k \in 0..(n - 1)
  BY <1>1
<1>4. s + k = n * q + u \/ s + k = n * (q + 1) + u
  BY <1>1
<1> HIDE DEF r, q, k
<1>5. (s + k) % n = u
  BY <1>1, <1>2, <1>4
<1> QED BY <1>3, <1>5

LEMMA InRange ==
  ASSUME NEW n \in Nat, n > 0, NEW s \in Nat, NEW m \in Nat
  PROVE  /\ (s + m) % n \in 0..(n - 1)
         /\ \A j \in 0..(m - 1) : (s + j) % n \in 0..(n - 1)
<1> QED OBVIOUS

\* A search ends in one bucket.
LEMMA LandsOnce ==
  ASSUME NEW n \in Nat, NEW f, NEW s, NEW k, NEW l,
         Lands(f, n, s, k), Lands(f, n, s, l)
  PROVE  k = l
<1> QED BY DEF Lands

\* It does end where there is an unused bucket.
LEMMA Landing ==
  ASSUME NEW n \in Nat \ {0}, NEW f, NEW s \in Nat,
         NEW u \in 0..(n - 1), f[u] = Nil
  PROVE  \E k \in 0..(n - 1) : Lands(f, n, s, k)
<1> DEFINE S == {k \in 0..(n - 1) : f[(s + k) % n] \in {Nil, s}}
<1>1. S \in SUBSET Nat /\ S # {}
  <2>1. PICK k \in 0..(n - 1) : (s + k) % n = u
    BY Reached
  <2>2. k \in S
    BY <2>1
  <2>3. \A j \in S : j \in Nat
    OBVIOUS
  <2> HIDE DEF S
  <2> QED BY <2>2, <2>3
<1>2. PICK k \in S : \A j \in S : k <= j
  BY <1>1, LeastNatural
<1>3. \A j \in 0..(k - 1) : j \in 0..(n - 1) /\ j \notin S
  BY <1>2
<1> QED BY <1>2, <1>3 DEF Lands

LEMMA UnusedBucket ==
  ASSUME NEW n, NEW o, NEW f, Table(f, n, o)
  PROVE  \E u \in 0..(n - 1) : f[u] = Nil
<1> SUFFICES ASSUME \A u \in 0..(n - 1) : f[u] # Nil PROVE FALSE
  OBVIOUS
<1>1. UsedOf(f) = 0..(n - 1) /\ n \in Nat /\ o < n /\ o = Cardinality(UsedOf(f))
  BY DEF Table, UsedOf
<1>2. Cardinality(0..(n - 1)) = n
  BY <1>1, FS_Interval
<1> QED BY <1>1, <1>2

\* One key is in one bucket.
LEMMA OneBucket ==
  ASSUME NEW n, NEW o, NEW f, Table(f, n, o),
         NEW i \in UsedOf(f), NEW j \in UsedOf(f), f[i] = f[j]
  PROVE  i = j
<1>1. /\ n \in Nat
      /\ \E k : Lands(f, n, f[i], k) /\ (f[i] + k) % n = i
      /\ \E k : Lands(f, n, f[i], k) /\ (f[i] + k) % n = j
  BY DEF Table, Probed
<1> QED BY <1>1, LandsOnce

LEMMA BlankTable ==
  ASSUME NEW n \in Nat, n > 1
  PROVE  Table(Blank(n), n, 0)
<1>1. UsedOf(Blank(n)) = {}
  BY DEF UsedOf, Blank
<1>2. Cardinality({}) = 0
  BY FS_EmptySet
<1>3. Blank(n) \in [0..(n - 1) -> Sels \cup {Nil}]
  BY DEF Blank
<1>4. Probed(Blank(n), n)
  BY <1>1 DEF Probed
<1> QED BY <1>1, <1>2, <1>3, <1>4 DEF Table

\* A key is written where the search for it ends.
LEMMA OneMore ==
  ASSUME NEW n, NEW o, NEW f, Table(f, n, o), NEW s \in Sels, s \in Nat,
         NEW k, Lands(f, n, s, k),
         NEW p, p = (s + k) % n, o + 1 < n
  PROVE  Table([f EXCEPT ![p] = s], n, IF f[p] = Nil THEN o + 1 ELSE o)
<1> DEFINE g == [f EXCEPT ![p] = s]
<1>1. /\ n \in Nat /\ n > 1 /\ f \in [0..(n - 1) -> Sels \cup {Nil}]
      /\ Probed(f, n) /\ o = Cardinality(UsedOf(f)) /\ k \in 0..(n - 1)
      /\ f[p] \in {Nil, s}
      /\ \A j \in 0..(k - 1) : f[(s + j) % n] \notin {Nil, s}
      /\ s # Nil
  BY SelsAssumption DEF Table, Lands
<1>2. p \in 0..(n - 1)
  BY <1>1, InRange
<1>3. CASE f[p] = s
  <2>1. g = f
    BY <1>1, <1>3
  <2> QED BY <1>1, <1>3, <2>1
<1>4. CASE f[p] = Nil
  <2>1. /\ g \in [0..(n - 1) -> Sels \cup {Nil}] /\ g[p] = s
        /\ \A i \in 0..(n - 1) : i # p => g[i] = f[i]
    BY <1>1, <1>2
  <2>2. UsedOf(g) = UsedOf(f) \cup {p} /\ p \notin UsedOf(f)
    BY <1>1, <1>2, <1>4, <2>1 DEF UsedOf
  <2>3. Cardinality(UsedOf(g)) = o + 1
    <3>1. IsFiniteSet(UsedOf(f))
      <4>1. UsedOf(f) \subseteq 0..(n - 1)
        BY <1>1 DEF UsedOf
      <4>2. IsFiniteSet(0..(n - 1))
        BY <1>1, FS_Interval
      <4> QED BY <4>1, <4>2, FS_Subset
    <3> QED BY <1>1, <2>2, <3>1, FS_AddElement
  <2> HIDE DEF g
  <2>4. ASSUME NEW i \in UsedOf(g)
        PROVE  \E l \in 0..(n - 1) : Lands(g, n, g[i], l) /\ (g[i] + l) % n = i
    <3>1. CASE i = p
      <4>1. \A j \in 0..(k - 1) : (s + j) % n \in 0..(n - 1)
        BY <1>1, InRange
      <4>2. \A j \in 0..(k - 1) : g[(s + j) % n] \notin {Nil, s}
        BY <1>1, <1>4, <2>1, <4>1
      <4> QED BY <1>1, <2>1, <3>1, <4>2 DEF Lands
    <3>2. CASE i # p
      <4>1. i \in UsedOf(f) /\ g[i] = f[i] /\ f[i] \in Nat
        BY <1>1, <2>1, <2>2, <3>2, SelsAssumption DEF UsedOf
      <4>2. PICK l \in 0..(n - 1) : Lands(f, n, f[i], l) /\ (f[i] + l) % n = i
        BY <1>1, <4>1 DEF Probed
      <4>3. \A j \in 0..(l - 1) : (f[i] + j) % n \in 0..(n - 1)
        BY <1>1, <4>1, InRange
      <4>4. \A j \in 0..(l - 1) : g[(f[i] + j) % n] \notin {Nil, f[i]}
        BY <1>4, <2>1, <4>2, <4>3 DEF Lands
      <4> QED BY <4>1, <4>2, <4>4 DEF Lands
    <3> QED BY <3>1, <3>2
  <2> QED BY <1>1, <1>4, <2>1, <2>3, <2>4 DEF Table, Probed, g
<1> QED BY <1>1, <1>3, <1>4

\* cache_t::find
LEMMA FindIs ==
  ASSUME NEW b, NEW n \in Nat \ {0}, DOMAIN heap[b] = 0..(n - 1),
         NEW s \in Nat, NEW k, Lands(Keys(b), n, s, k)
  PROVE  find(b, s) = (s + k) % n
<1>1. Cardinality(DOMAIN heap[b]) = n
  BY FS_Interval
<1>2. k \in 0..(n - 1)
  BY DEF Lands
<1>3. \A j \in 0..(n - 1) :
        heap[b][(s + j) % n].key = Keys(b)[(s + j) % n]
  <2> SUFFICES ASSUME NEW j \in 0..(n - 1)
               PROVE  heap[b][(s + j) % n].key = Keys(b)[(s + j) % n]
    OBVIOUS
  <2>1. (s + j) % n \in DOMAIN heap[b]
    BY InRange
  <2> QED BY <2>1 DEF Keys
<1>4. Passed(b, s) = 0..(k - 1)
  <2>1. ASSUME NEW j \in 0..(n - 1)
        PROVE  (\A i \in 0..j : heap[b][(s + i) % n].key \notin {Nil, s})
               <=> j \in 0..(k - 1)
    <3>1. \A i \in 0..j : i \in 0..(n - 1)
      OBVIOUS
    <3>2. CASE j < k
      <4>1. \A i \in 0..j : i \in 0..(k - 1)
        BY <1>2, <3>2
      <4>2. j \in 0..(k - 1)
        BY <1>2, <3>2
      <4> QED BY <1>3, <3>1, <4>1, <4>2 DEF Lands
    <3>3. CASE j >= k
      <4>1. k \in 0..j /\ j \notin 0..(k - 1)
        BY <1>2, <3>3
      <4>2. heap[b][(s + k) % n].key \in {Nil, s}
        BY <1>2, <1>3 DEF Lands
      <4> QED BY <4>1, <4>2
    <3> QED BY <1>2, <3>2, <3>3
  <2>2. Passed(b, s) = {j \in 0..(n - 1) :
           \A i \in 0..j : heap[b][(s + i) % n].key \notin {Nil, s}}
    BY <1>1 DEF Passed
  <2>3. 0..(k - 1) \subseteq 0..(n - 1)
    BY <1>2
  <2> HIDE DEF Passed
  <2> QED BY <2>1, <2>2, <2>3
<1>5. Cardinality(0..(k - 1)) = k
  <2>1. k \in Nat
    BY <1>2
  <2>2. Cardinality(0..(k - 1)) = IF 0 > k - 1 THEN 0 ELSE k - 1 - 0 + 1
    BY <2>1, FS_Interval
  <2> QED BY <2>1, <2>2
<1> QED BY <1>1, <1>4, <1>5 DEF find

\* A cache that is not beyond its load has room for one more key.
LEMMA LoadLeavesRoom ==
  ASSUME NEW x \in Nat, NEW o \in Nat, o + 1 <= (x \div LoadDen) * LoadNum
  PROVE  o + 1 < x
<1> DEFINE q == x \div LoadDen
<1>1. LoadDen \in Nat \ {0} /\ LoadNum \in Nat \ {0} /\ LoadNum < LoadDen
  BY SizesAssumption
<1>2. q \in Nat /\ q * LoadDen <= x
  BY <1>1
<1> HIDE DEF q
<1>3. q * LoadNum <= q * LoadDen
  BY <1>1, <1>2
<1>4. q * LoadNum < x
  <2>1. CASE q = 0
    BY <1>1, <2>1 DEF q
  <2>2. CASE q > 0
    <3>1. q * LoadNum < q * LoadDen
      BY <1>1, <1>2, <2>2
    <3>2. q * LoadNum \in Int /\ q * LoadDen \in Int
      BY <1>1, <1>2
    <3> QED BY <1>2, <3>1, <3>2
  <2>3. q = 0 \/ q > 0
    BY <1>2
  <2> QED BY <2>1, <2>2, <2>3
<1>5. o + 1 <= q * LoadNum /\ q * LoadNum \in Int
  BY <1>1, <1>2 DEF q
<1> QED BY <1>4, <1>5

-----------------------------------------------------------------------------
(* What a step leaves of the caches *)

\* Other threads keep everything that is theirs.
Private(t) ==
  \A u \in Threads \ {t} :
    pc'[u] = pc[u] /\ upd'[u] = upd[u] /\ msg'[u] = msg[u]

Act(t) ==
  \/ \E c \in Classes, s \in Sels :
       \/ objc_msgSend(t, c, s)
       \/ \E kind \in {"add", "set"} : BeginChange(t, kind, c, s)
  \/ objc_flush_caches(t)
  \/ Step(t)

LEMMA PrivateStep ==
  ASSUME Safe, NEW t \in Threads, Act(t)
  PROVE  Private(t)
<1>1. DOMAIN pc = Threads /\ DOMAIN upd = Threads /\ DOMAIN msg = Threads
  BY DEF Safe, Types, PcType, UpdType, MsgType
<1>2. pc' = pc \/ \E l : pc' = [pc EXCEPT ![t] = l]
  BY DEF Act, Step, Goto, End, objc_msgSend, BeginChange, objc_flush_caches,
         ReadBuckets, Hit, Probe, Miss, CacheHit, LookUp, Unresolved,
         Resolved, FillNothing, Fill, reallocate, SetImp, SetKey, SetBuckets,
         SetMask, Scan, Dispose, Change, flushCaches, cache_erase, Flushed,
         collectALot, Collected
<1>3. upd' = upd \/ \E w : upd' = [upd EXCEPT ![t] = w]
  BY DEF Act, Step, Goto, End, objc_msgSend, BeginChange, objc_flush_caches,
         ReadBuckets, Hit, Probe, Miss, CacheHit, LookUp, Unresolved,
         Resolved, FillNothing, Fill, reallocate, SetImp, SetKey, SetBuckets,
         SetMask, Scan, Dispose, Change, flushCaches, cache_erase, Flushed,
         collectALot, Collected
<1>4. msg' = msg \/ \E m : msg' = [msg EXCEPT ![t] = m]
  BY DEF Act, Step, Goto, End, objc_msgSend, BeginChange, objc_flush_caches,
         ReadBuckets, Hit, Probe, Miss, CacheHit, LookUp, Unresolved,
         Resolved, FillNothing, Fill, reallocate, SetImp, SetKey, SetBuckets,
         SetMask, Scan, Dispose, Change, flushCaches, cache_erase, Flushed,
         collectALot, Collected
<1> QED BY <1>1, <1>2, <1>3, <1>4 DEF Private

LEMMA SelsStep ==
  ASSUME Safe, Room, NEW t \in Threads, Act(t)
  PROVE  SelsOk'
<1>1. \/ msg' = msg
      \/ \E imp : msg' = [msg EXCEPT ![t].imp = imp]
      \/ msg' = [msg EXCEPT ![t].tried = TRUE]
      \/ msg' = [msg EXCEPT ![t] = NoMsg]
      \/ \E c \in Classes, s \in Sels :
           msg' = [msg EXCEPT ![t] = [NoMsg EXCEPT !.cls = c, !.sel = s]]
  BY DEF Act, Step, Goto, End, objc_msgSend, BeginChange, objc_flush_caches,
         ReadBuckets, Hit, Probe, Miss, CacheHit, LookUp, Unresolved,
         Resolved, FillNothing, Fill, reallocate, SetImp, SetKey, SetBuckets,
         SetMask, Scan, Dispose, Change, flushCaches, cache_erase, Flushed,
         collectALot, Collected
<1>2. /\ DOMAIN msg = Threads
      /\ \A u \in Threads : msg[u].cls # NoClass => msg[u].sel \in Sels
      /\ {"cls", "sel"} \subseteq DOMAIN msg[t]
  BY DEF Safe, Types, MsgType, Room, SelsOk
<1>3. ASSUME NEW u \in Threads, msg'[u].cls # NoClass PROVE msg'[u].sel \in Sels
  <2>1. CASE msg' = msg
    BY <1>2, <1>3, <2>1
  <2>2. CASE \E imp : msg' = [msg EXCEPT ![t].imp = imp]
    BY <1>2, <1>3, <2>2
  <2>3. CASE msg' = [msg EXCEPT ![t].tried = TRUE]
    BY <1>2, <1>3, <2>3
  <2>4. CASE msg' = [msg EXCEPT ![t] = NoMsg]
    BY <1>2, <1>3, <2>4 DEF NoMsg
  <2>5. CASE \E c \in Classes, s \in Sels :
           msg' = [msg EXCEPT ![t] = [NoMsg EXCEPT !.cls = c, !.sel = s]]
    BY <1>2, <1>3, <2>5 DEF NoMsg
  <2> QED BY <1>1, <2>1, <2>2, <2>3, <2>4, <2>5
<1> QED BY <1>3 DEF SelsOk

\* The buckets of caches and of updates are not garbage.
LEMMA CacheBuckets ==
  ASSUME Safe, NEW c \in Classes
  PROVE  /\ cache[c].mask \in Nat /\ cache[c].occupied \in Nat
         /\ cache[c].buckets \in {Empty} \cup Blocks
         /\ cache[c].buckets # Empty => cache[c].buckets \in Blocks \ garbage
<1> QED BY DEF Safe, Types, CacheType, Caches, BlockInv, Sized

LEMMA UpdateBuckets ==
  ASSUME Safe, NEW t \in Threads, pc[t] \in Updating
  PROVE  /\ upd[t].mask \in Nat /\ upd[t].cls \in Classes
         /\ upd[t].buckets \in {Empty} \cup Blocks
         /\ upd[t].buckets # Empty => upd[t].buckets \in Blocks \ garbage
<1> QED BY DEF Safe, Types, UpdType, Upds, BlockInv, Held, SendInv, SendOk

\* Whoever is about to write has a message, of a class.
LEMMA WriterSends ==
  ASSUME Safe, Room, NEW t \in Threads,
         \/ pc[t] \in {"fill", "imp", "key"}
         \/ pc[t] = "scan" /\ upd[t].kind = "fill"
  PROVE  msg[t].cls \in Classes /\ msg[t].sel \in Sels
<1>1. msg[t].cls \in Classes
  BY LabelsAre DEF Safe, SendInv, SendOk
<1> QED BY <1>1, ClassesAssumption DEF Room, SelsOk

LEMMA SameFind ==
  ASSUME NEW b, NEW n \in Nat, n > 0, DOMAIN heap[b] = 0..(n - 1),
         DOMAIN heap'[b] = DOMAIN heap[b],
         \A i \in DOMAIN heap[b] : heap'[b][i].key = heap[b][i].key,
         NEW s \in Nat
  PROVE  find(b, s)' = find(b, s)
<1>1. Cardinality(DOMAIN heap[b]) = n /\ Cardinality(DOMAIN heap'[b]) = n
  BY FS_Interval
<1>2. \A k \in Nat : (s + k) % n \in DOMAIN heap[b]
  BY InRange
<1>3. \A k \in Nat :
        heap'[b][(s + k) % n].key = heap[b][(s + k) % n].key
  BY <1>2
<1>4. Passed(b, s)' = Passed(b, s)
  <2>1. Passed(b, s) = {k \in 0..(n - 1) :
           \A j \in 0..k : heap[b][(s + j) % n].key \notin {Nil, s}}
    BY <1>1 DEF Passed
  <2>2. Passed(b, s)' = {k \in 0..(n - 1) :
           \A j \in 0..k : heap'[b][(s + j) % n].key \notin {Nil, s}}
    BY <1>1 DEF Passed
  <2>3. ASSUME NEW k \in 0..(n - 1)
        PROVE  (\A j \in 0..k : heap[b][(s + j) % n].key \notin {Nil, s}) <=>
               (\A j \in 0..k : heap'[b][(s + j) % n].key \notin {Nil, s})
    <3>1. \A j \in 0..k : j \in Nat
      OBVIOUS
    <3> QED BY <1>3, <3>1
  <2> QED BY <2>1, <2>2, <2>3
<1> QED BY <1>1, <1>4 DEF find

LEMMA SameBuckets ==
  ASSUME NEW b, heap'[b] = heap[b]
  PROVE  Keys(b)' = Keys(b) /\ \A s : find(b, s)' = find(b, s)
<1> QED BY DEF Keys, find, Passed

\* A step that writes no cache, nor buckets that are in use.
LEMMA KeepRoom ==
  ASSUME Safe, Room, NEW t \in Threads, Private(t), cache' = cache,
         \A b \in Blocks \ garbage : heap'[b] = heap[b],
         BucketsOk', SelsOk', pc[t] \notin {"key", "setMask"}, WriterOk(t)'
  PROVE  Room'
<1>1. \A b \in Blocks \ garbage :
        Keys(b)' = Keys(b) /\ \A s : find(b, s)' = find(b, s)
  BY SameBuckets
<1>2. ASSUME NEW c \in Classes PROVE RoomOk(c)'
  <2>1. Whole(c)' => Whole(c)
    BY DEF Whole, Private
  <2>2. RoomOk(c)
    BY DEF Room
  <2> QED BY <1>1, <2>1, <2>2, CacheBuckets DEF RoomOk
<1>3. ASSUME NEW u \in Threads \ {t} PROVE WriterOk(u)'
  <2>1. /\ pc'[u] = pc[u] /\ upd'[u] = upd[u] /\ msg'[u] = msg[u]
        /\ WriterOk(u)
    BY DEF Private, Room
  <2>2. CASE pc[u] = "imp" \/ pc[u] = "scan"
    BY <2>1, <2>2 DEF WriterOk, Roomy
  <2>3. CASE pc[u] = "key"
    <3> DEFINE c == msg[u].cls
    <3>1. c \in Classes
      BY <2>3, WriterSends
    <3>2. cache[c].buckets # Empty =>
            Filled(c, msg[u].sel)' = Filled(c, msg[u].sel)
      BY <1>1, <2>1, <3>1, CacheBuckets DEF Filled
    <3> QED BY <2>1, <2>3, <3>2 DEF WriterOk
  <2>4. CASE pc[u] = "setBuckets"
    <3>1. upd[u].buckets # Empty => Keys(upd[u].buckets)' = Keys(upd[u].buckets)
      BY <1>1, <2>1, <2>4, UpdateBuckets, LabelsAre
    <3> QED BY <2>1, <2>4, <3>1 DEF WriterOk
  <2>5. CASE pc[u] = "setMask"
    <3> DEFINE b == cache[upd[u].cls].buckets
    <3>1. upd[u].cls \in Classes
      BY <2>5, UpdateBuckets, LabelsAre
    <3>2. b # Empty => Keys(b)' = Keys(b)
      BY <1>1, <3>1, <2>1, CacheBuckets
    <3> QED BY <2>1, <2>5, <3>2 DEF WriterOk
  <2> QED BY <2>1, <2>2, <2>3, <2>4, <2>5 DEF WriterOk
<1> QED BY <1>2, <1>3 DEF Room

\* A step of the one thread that writes.
LEMMA WriteRoom ==
  ASSUME Safe, Room, NEW t \in Threads, Private(t),
         \A u \in Threads \ {t} : pc[u] \notin Owners,
         BucketsOk', SelsOk', WriterOk(t)', \A c \in Classes : RoomOk(c)'
  PROVE  Room'
<1>1. \A u \in Threads \ {t} : WriterOk(u)'
  BY LabelsAre DEF WriterOk, Private
<1> QED BY <1>1 DEF Room

\* Most steps write nothing and bring nobody where something is written.
LEMMA IdleRoom ==
  ASSUME Safe, Room, NEW t \in Threads, Private(t), SelsOk',
         UNCHANGED <<cache, heap>>, pc[t] \notin {"key", "setMask"},
         \/ pc'[t] \notin Owners
         \/ pc'[t] \in {"flush", "collected"}
         \/ pc'[t] = "scan" /\ upd'[t].kind # "fill"
  PROVE  Room'
<1>1. WriterOk(t)'
  BY LabelsAre DEF WriterOk
<1>2. BucketsOk'
  BY DEF Room, BucketsOk
<1> QED BY <1>1, <1>2, KeepRoom

LEMMA ReadRoom ==
  ASSUME Safe, Room, NEW t \in Threads, Act(t),
         \/ \E c \in Classes, s \in Sels :
              \/ objc_msgSend(t, c, s)
              \/ \E kind \in {"add", "set"} : BeginChange(t, kind, c, s)
         \/ objc_flush_caches(t)
         \/ ReadBuckets(t) \/ Hit(t) \/ Probe(t) \/ Miss(t) \/ CacheHit(t)
         \/ LookUp(t) \/ Unresolved(t) \/ Resolved(t) \/ FillNothing(t)
         \/ Change(t) \/ flushCaches(t) \/ Flushed(t) \/ Collected(t)
  PROVE  Room'
<1>1. UNCHANGED <<cache, heap>>
  BY DEF objc_msgSend, BeginChange, objc_flush_caches, ReadBuckets, Hit, Probe,
         Miss, CacheHit, LookUp, Unresolved, Resolved, FillNothing, Change,
         flushCaches, Flushed, Collected
<1>2. /\ pc[t] \notin {"key", "setMask", "setBuckets", "imp", "scan"}
      /\ \/ pc' = pc
         \/ \E l \in {"idle", "buckets", "probe", "hit", "lookup", "resolve",
                      "fill", "change", "flushCaches", "flush",
                      "collectALot"} : pc' = [pc EXCEPT ![t] = l]
  BY DEF objc_msgSend, BeginChange, objc_flush_caches, ReadBuckets, Hit, Probe,
         Miss, CacheHit, LookUp, Unresolved, Resolved, FillNothing, Change,
         flushCaches, Flushed, Collected, Goto, End
<1>3. pc'[t] \notin Owners \/ pc'[t] \in {"flush", "collected"}
  BY <1>2, LabelsAre DEF Safe, Types, PcType
<1>4. Private(t) /\ SelsOk'
  BY PrivateStep, SelsStep
<1> QED BY <1>1, <1>2, <1>3, <1>4, IdleRoom

LEMMA CollectALotRoom ==
  ASSUME Safe, Room, NEW t \in Threads, Act(t), collectALot(t)
  PROVE  Room'
<1>1. /\ pc[t] = "collectALot" /\ pc' = [pc EXCEPT ![t] = "scan"]
      /\ UNCHANGED <<cache, heap>>
      /\ upd' = [upd EXCEPT ![t] =
                   [upd[t] EXCEPT !.lot = TRUE, !.scan = Threads \ {t}]]
  BY DEF collectALot, Goto
<1>2. pc'[t] = "scan" /\ upd'[t].kind = upd[t].kind /\ upd[t].kind # "fill"
  BY <1>1, LabelsAre
     DEF Safe, Types, PcType, UpdType, Upds, SendInv, SendOk
<1>3. Private(t) /\ SelsOk'
  BY PrivateStep, SelsStep
<1> QED BY <1>1, <1>2, <1>3, IdleRoom

LEMMA EraseRoom ==
  ASSUME Safe, Room, NEW t \in Threads, Act(t), cache_erase(t)
  PROVE  Room'
<1>1. PICK c \in upd[t].left :
        /\ pc[t] = "flush" /\ UNCHANGED <<cache, heap>>
        /\ \/ pc' = pc
           \/ /\ upd' = [upd EXCEPT ![t].cls = c, ![t].buckets = Empty,
                           ![t].mask = cache[c].mask, ![t].left = @ \ {c}]
              /\ pc' = [pc EXCEPT ![t] = "setBuckets"]
  BY DEF cache_erase, Goto
<1>2. upd[t].kind # "fill" /\ upd[t] \in Upds /\ pc[t] \in Labels
  BY <1>1, LabelsAre DEF Safe, SendInv, SendOk, Types, UpdType, PcType
<1>3. /\ pc'[t] \in {"flush", "setBuckets"}
      /\ pc'[t] = "setBuckets" =>
           upd'[t].buckets = Empty /\ upd'[t].kind = upd[t].kind
  <2>1. CASE pc' = pc
    BY <1>1, <2>1
  <2>2. CASE /\ upd' = [upd EXCEPT ![t].cls = c, ![t].buckets = Empty,
                          ![t].mask = cache[c].mask, ![t].left = @ \ {c}]
             /\ pc' = [pc EXCEPT ![t] = "setBuckets"]
    BY <1>2, <2>2 DEF Safe, Types, PcType, UpdType, Upds
  <2> QED BY <1>1, <2>1, <2>2
<1>4. Private(t) /\ SelsOk'
  BY PrivateStep, SelsStep
<1>5. WriterOk(t)'
  BY <1>2, <1>3 DEF WriterOk
<1>6. BucketsOk'
  BY <1>1 DEF Room, BucketsOk
<1> QED BY <1>1, <1>4, <1>5, <1>6, KeepRoom

LEMMA ScanRoom ==
  ASSUME Safe, Room, NEW t \in Threads, Act(t), Scan(t) \/ Dispose(t)
  PROVE  Room'
<1>1. /\ pc[t] = "scan" /\ cache' = cache
      /\ msg' = msg
      /\ \A b \in Blocks \ garbage : heap'[b] = heap[b]
      /\ pc' = pc \/ pc' = [pc EXCEPT ![t] = Continue(t)]
      /\ upd' = upd \/ \E s : upd' = [upd EXCEPT ![t].scan = s]
  BY DEF Scan, Dispose, Goto
<1>2. /\ upd[t] \in Upds /\ pc[t] \in Labels /\ Continue(t) # "scan"
      /\ Continue(t) = "imp" => upd[t].kind = "fill"
      /\ Continue(t) \in {"imp", "collected", "flush"}
  BY DEF Safe, Types, UpdType, PcType, Continue
<1>3. /\ upd'[t].kind = upd[t].kind
      /\ \/ pc'[t] = "scan"
         \/ pc'[t] = "imp" /\ upd[t].kind = "fill"
         \/ pc'[t] \in {"collected", "flush"}
  BY <1>1, <1>2 DEF Safe, Types, PcType, UpdType, Upds
<1>4. Private(t) /\ SelsOk'
  BY PrivateStep, SelsStep
<1>5. WriterOk(t)'
  <2>1. WriterOk(t)
    BY DEF Room
  <2> QED BY <1>1, <1>3, <2>1 DEF WriterOk, Roomy
<1>6. BucketsOk'
  <2>1. \/ heap' = heap
        \/ heap' = [b \in Blocks |-> IF b \in garbage THEN << >>
                                    ELSE heap[b]]
    BY DEF Scan, Dispose
  <2>2. DOMAIN << >> = {}
    OBVIOUS
  <2> QED BY <2>1, <2>2 DEF Room, BucketsOk
<1> QED BY <1>1, <1>4, <1>5, <1>6, KeepRoom

LEMMA GrowsToTwo ==
  ASSUME Safe, NEW c \in Classes
  PROVE  NextCapacity(c) \in Nat /\ NextCapacity(c) > 1
<1>1. cache[c].mask \in Nat /\ InitCacheSize \in Nat /\ InitCacheSize > 1
  BY SizesAssumption DEF Safe, Types, CacheType, Caches
<1>2. capacity(c) = 0 \/ (capacity(c) \in Nat /\ capacity(c) > 1)
  BY <1>1 DEF capacity
<1> QED BY <1>1, <1>2 DEF NextCapacity

\* A cache that may be filled without growing.
LEMMA RoomToFill ==
  ASSUME Safe, Room, NEW c \in Classes, Whole(c), HasRoom(c)
  PROVE  Roomy(c)
<1>1. cache[c].mask \in Nat /\ cache[c].occupied \in Nat
  BY CacheBuckets
<1>2. cache[c].buckets # Empty
  BY DEF Room, RoomOk, HasRoom, isConstantEmptyCache
<1>3. capacity(c) \in Nat /\ capacity(c) <= cache[c].mask + 1
  BY <1>1 DEF capacity
<1>4. cache[c].occupied + 1 < capacity(c)
  BY <1>1, <1>3, LoadLeavesRoom DEF HasRoom
<1> QED BY <1>1, <1>2, <1>3, <1>4 DEF Roomy

LEMMA FillRoom ==
  ASSUME Safe, Room, NEW t \in Threads, Act(t), Fill(t)
  PROVE  Room'
<1> DEFINE c == msg[t].cls
<1>1. /\ pc[t] = "fill" /\ cacheUpdateLock = NoThread
      /\ cache' = cache /\ msg' = msg
  BY DEF Fill
<1>2. Private(t) /\ SelsOk'
  BY PrivateStep, SelsStep
<1>3. \A u \in Threads : pc[u] \notin Owners
  BY <1>1, Alone, LabelsAre
<1>4. c \in Classes
  BY <1>1, WriterSends
<1>5. CASE HasRoom(c) /\ pc' = [pc EXCEPT ![t] = "imp"] /\ heap' = heap
  <2>1. Whole(c)
    BY <1>3, LabelsAre DEF Whole
  <2>2. Roomy(c) /\ pc'[t] = "imp"
    BY <1>4, <1>5, <2>1, RoomToFill DEF Safe, Types, PcType
  <2>3. WriterOk(t)'
    BY <1>1, <2>2 DEF WriterOk, Roomy
  <2>4. BucketsOk'
    BY <1>5 DEF Room, BucketsOk
  <2> QED BY <1>1, <1>2, <1>5, <2>3, <2>4, KeepRoom
<1>6. CASE Free # {} /\ reallocate(t, NextCapacity(c))
  <2>0. PICK n, b : n = NextCapacity(c) /\ b = Min(Free)
    OBVIOUS
  <2>1. /\ pc' = [pc EXCEPT ![t] = "setBuckets"]
        /\ upd' = [upd EXCEPT ![t] = [NoUpd EXCEPT !.cls = c, !.buckets = b,
                                                   !.mask = n - 1]]
        /\ heap' = [heap EXCEPT ![b] = [i \in 0..(n - 1) |-> Unused]]
    BY <1>6, <2>0 DEF reallocate, allocateBuckets, Goto
  <2>2. b \in Blocks /\ DOMAIN heap[b] = {} /\ DOMAIN heap = Blocks
    BY <1>6, <2>0, FreeBlock DEF Safe, Types, HeapType
  <2>3. n \in Nat /\ n > 1
    BY <1>4, <2>0, GrowsToTwo
  <2>4. pc'[t] = "setBuckets" /\ upd'[t].buckets = b /\ upd'[t].mask = n - 1
    BY <2>1 DEF Safe, Types, PcType, UpdType, NoUpd
  <2>5. /\ heap'[b] = [i \in 0..(n - 1) |-> Unused]
        /\ \A a \in Blocks : a # b => heap'[a] = heap[a]
    BY <2>1, <2>2
  <2>6. Keys(b)' = Blank(n)
    BY <2>5 DEF Keys, Blank, Unused
  <2>7. WriterOk(t)'
    <3>1. upd'[t].mask > 0 /\ upd'[t].mask + 1 = n
      BY <2>3, <2>4
    <3>2. b # Empty
      BY <2>2 DEF Empty, Blocks
    <3>3. Keys(upd[t].buckets)' = Blank(upd[t].mask + 1)'
      BY <2>4, <2>6, <3>1 DEF Blank, Keys
    <3> QED BY <2>4, <3>1, <3>2, <3>3 DEF WriterOk
  <2>8. BucketsOk'
    <3>1. "key" \in DOMAIN Unused
      BY DEF Unused
    <3>2. \A i \in DOMAIN heap'[b] : heap'[b][i] = Unused
      BY <2>5
    <3>3. \A a \in Blocks : a # b =>
            \A i \in DOMAIN heap'[a] : "key" \in DOMAIN heap'[a][i]
      BY <2>5 DEF Room, BucketsOk
    <3> QED BY <3>1, <3>2, <3>3 DEF BucketsOk
  <2>9. ASSUME NEW d \in Classes PROVE RoomOk(d)'
    <3>1. /\ Sized(d) /\ cache[d].mask \in Nat
          /\ cache[d].buckets \in {Empty} \cup Blocks
      BY DEF Safe, BlockInv, Types, CacheType, Caches
    <3>2. cache[d].buckets # Empty => cache[d].buckets # b
      <4>1. cache[d].buckets # Empty =>
              DOMAIN heap[cache[d].buckets] = 0..cache[d].mask
        BY <1>3, <3>1, LabelsAre DEF Sized
      <4>2. 0 \in 0..cache[d].mask
        BY <3>1
      <4> QED BY <2>2, <4>1, <4>2
    <3>3. cache[d].buckets # Empty =>
            Keys(cache[d].buckets)' = Keys(cache[d].buckets)
      BY <1>1, <2>5, <3>1, <3>2 DEF Keys
    <3>4. RoomOk(d) /\ Whole(d)
      BY <1>3, LabelsAre DEF Room, Whole
    <3> QED BY <1>1, <3>3, <3>4 DEF RoomOk
  <2> QED BY <1>2, <1>3, <2>7, <2>8, <2>9, WriteRoom
<1> QED BY <1>5, <1>6 DEF Fill, reallocate, Goto

LEMMA SetBucketsRoom ==
  ASSUME Safe, Room, NEW t \in Threads, Act(t), SetBuckets(t)
  PROVE  Room'
<1> DEFINE c == upd[t].cls
           b == upd[t].buckets
<1>1. /\ pc[t] = "setBuckets" /\ pc' = [pc EXCEPT ![t] = "setMask"]
      /\ cache' = [cache EXCEPT ![c].buckets = b]
      /\ heap' = heap /\ msg' = msg
      /\ \E old : upd' = [upd EXCEPT ![t].buckets = old]
  BY DEF SetBuckets, Goto
<1>2. Private(t) /\ SelsOk'
  BY PrivateStep, SelsStep
<1>3. \A u \in Threads \ {t} : pc[u] \notin Owners
  BY <1>1, Alone, LabelsAre
<1>4. c \in Classes /\ upd[t] \in Upds
  BY <1>1, UpdateBuckets, LabelsAre DEF Safe, Types, UpdType
<1>5. /\ pc'[t] = "setMask" /\ upd'[t].cls = c
      /\ upd'[t].kind = upd[t].kind /\ upd'[t].mask = upd[t].mask
  BY <1>1, <1>4 DEF Safe, Types, PcType, UpdType, Upds
<1>6. /\ cache'[c].buckets = b
      /\ \A d \in Classes : d # c => cache'[d] = cache[d]
  BY <1>1, <1>4 DEF Safe, Types, CacheType, Caches
<1>7. \A a : Keys(a)' = Keys(a)
  BY <1>1 DEF Keys
<1>8. WriterOk(t) /\ \A d \in Classes : RoomOk(d)
  BY DEF Room
<1> HIDE DEF c, b
<1>9. WriterOk(t)'
  BY <1>1, <1>5, <1>6, <1>7, <1>8 DEF WriterOk, b
<1>10. BucketsOk'
  BY <1>1 DEF Room, BucketsOk
<1>11. ASSUME NEW d \in Classes PROVE RoomOk(d)'
  <2>1. CASE d = c
    BY <1>5, <2>1 DEF RoomOk, Whole
  <2>2. CASE d # c
    <3>1. Whole(d)
      BY <1>1, <1>3, <2>2, LabelsAre DEF Whole, c
    <3> QED BY <1>6, <1>7, <1>8, <2>2, <3>1 DEF RoomOk
  <2> QED BY <2>1, <2>2
<1> QED BY <1>2, <1>3, <1>9, <1>10, <1>11, WriteRoom

LEMMA SetMaskRoom ==
  ASSUME Safe, Room, NEW t \in Threads, Act(t), SetMask(t)
  PROVE  Room'
<1> DEFINE c == upd[t].cls
           b == cache[c].buckets
           m == upd[t].mask
<1>1. /\ pc[t] = "setMask"
      /\ cache' = [cache EXCEPT ![c].mask = m, ![c].occupied = 0]
      /\ heap' = heap /\ msg' = msg
      /\ pc' \in {[pc EXCEPT ![t] = Continue(t)], [pc EXCEPT ![t] = "scan"]}
      /\ upd' = upd \/ \E s : upd' = [upd EXCEPT ![t].scan = s]
  BY DEF SetMask, Goto
<1>2. Private(t) /\ SelsOk'
  BY PrivateStep, SelsStep
<1>3. \A u \in Threads \ {t} : pc[u] \notin Owners
  BY <1>1, Alone, LabelsAre
<1>4. /\ c \in Classes /\ upd[t] \in Upds /\ m \in Nat
      /\ upd[t].kind = "fill" => c = msg[t].cls
  BY <1>1, UpdateBuckets, LabelsAre
     DEF Safe, Types, UpdType, SendInv, SendOk
<1>5. /\ upd'[t].kind = upd[t].kind
      /\ \/ pc'[t] \in {"scan", "imp"} /\ upd[t].kind = "fill"
         \/ pc'[t] \in {"scan", "collected", "flush"} /\ upd[t].kind # "fill"
  BY <1>1, <1>4 DEF Safe, Types, PcType, UpdType, Upds, Continue
<1>6. /\ cache'[c].buckets = b /\ cache'[c].mask = m /\ cache'[c].occupied = 0
      /\ \A d \in Classes : d # c => cache'[d] = cache[d]
  BY <1>1, <1>4 DEF Safe, Types, CacheType, Caches
<1>7. \A a : Keys(a)' = Keys(a)
  BY <1>1 DEF Keys
<1>8. /\ \A d \in Classes : RoomOk(d)
      /\ IF b = Empty THEN upd[t].kind # "fill"
         ELSE m > 0 /\ Keys(b) = Blank(m + 1)
  BY <1>1 DEF Room, WriterOk
<1> HIDE DEF c, b, m
<1>9. WriterOk(t)'
  <2>1. upd[t].kind = "fill" =>
          /\ cache'[msg'[t].cls].buckets # Empty
          /\ cache'[msg'[t].cls].occupied = 0
          /\ cache'[msg'[t].cls].mask = m /\ m > 0
    BY <1>1, <1>4, <1>6, <1>8
  <2>2. upd[t].kind = "fill" => Roomy(msg[t].cls)'
    BY <1>4, <2>1 DEF Roomy
  <2> QED BY <1>1, <1>5, <2>2 DEF WriterOk
<1>10. BucketsOk'
  BY <1>1 DEF Room, BucketsOk
<1>11. ASSUME NEW d \in Classes PROVE RoomOk(d)'
  <2>1. CASE d = c
    <3>1. b # Empty => Table(Keys(b), m + 1, 0)
      BY <1>4, <1>8, BlankTable
    <3> QED BY <1>6, <1>7, <2>1, <3>1 DEF RoomOk
  <2>2. CASE d # c
    <3>1. Whole(d)
      BY <1>1, <1>3, <2>2, LabelsAre DEF Whole, c
    <3> QED BY <1>6, <1>7, <1>8, <2>2, <3>1 DEF RoomOk
  <2> QED BY <2>1, <2>2
<1> QED BY <1>2, <1>3, <1>9, <1>10, <1>11, WriteRoom

LEMMA SetImpRoom ==
  ASSUME Safe, Room, NEW t \in Threads, Act(t), SetImp(t)
  PROVE  Room'
<1>0. PICK c, s, b, p, n, o, v :
        /\ c = msg[t].cls /\ s = msg[t].sel
        /\ b = cache[c].buckets /\ p = find(b, s)
        /\ n = cache[c].mask + 1 /\ o = cache[c].occupied
        /\ v = IF heap[b][p].key = Nil THEN o + 1 ELSE o
  OBVIOUS
<1>1. /\ pc[t] = "imp" /\ pc' = [pc EXCEPT ![t] = "key"]
      /\ cache' = [cache EXCEPT ![c].occupied = v]
      /\ heap' = [heap EXCEPT ![b][p].imp = msg[t].imp]
      /\ msg' = msg
  BY <1>0 DEF SetImp, Goto
<1>2. Private(t) /\ SelsOk'
  BY PrivateStep, SelsStep
<1>3. \A u \in Threads \ {t} : pc[u] \notin Owners
  BY <1>1, Alone, LabelsAre
<1>4. /\ c \in Classes /\ s \in Sels /\ s \in Nat
  BY <1>0, <1>1, WriterSends, SelsAssumption
<1>5. b # Empty /\ o + 1 < n
  BY <1>0, <1>1 DEF Room, WriterOk, Roomy
<1>6. b \in Blocks /\ n \in Nat /\ n > 0
  BY <1>0, <1>4, <1>5, CacheBuckets
<1>7. /\ Table(Keys(b), n, o) /\ BucketsOk
      /\ \A d \in Classes : RoomOk(d)
  BY <1>0, <1>1, <1>3, <1>4, <1>5, LabelsAre DEF Room, RoomOk, Whole
<1>8. DOMAIN heap[b] = 0..(n - 1)
  BY <1>7 DEF Table, Keys
<1>9. pc'[t] = "key" /\ DOMAIN heap = Blocks
  BY <1>1 DEF Safe, Types, PcType, HeapType
<1>10. PICK k : Lands(Keys(b), n, s, k)
  BY <1>4, <1>6, <1>7, UnusedBucket, Landing
<1>11. p = (s + k) % n
  BY <1>0, <1>4, <1>6, <1>8, <1>10, FindIs
<1>12. p \in 0..(n - 1)
  BY <1>4, <1>6, <1>10, <1>11, InRange DEF Lands
<1>13. heap[b][p].key = Keys(b)[p]
  BY <1>8, <1>12 DEF Keys
<1>14. /\ cache'[c].buckets = b /\ cache'[c].mask = cache[c].mask
       /\ cache'[c].occupied = v
       /\ \A d \in Classes : d # c => cache'[d] = cache[d]
  BY <1>0, <1>1, <1>4 DEF Safe, Types, CacheType, Caches
<1>15. /\ \A a \in Blocks : DOMAIN heap'[a] = DOMAIN heap[a]
       /\ \A a \in Blocks : \A i \in DOMAIN heap[a] :
            "key" \in DOMAIN heap'[a][i] /\ heap'[a][i].key = heap[a][i].key
  BY <1>1, <1>6, <1>7, <1>9 DEF BucketsOk
<1>16. \A a \in Blocks : Keys(a)' = Keys(a)
  BY <1>15 DEF Keys
<1>17. BucketsOk'
  BY <1>15 DEF BucketsOk
<1>18. find(b, s)' = p
  <2>1. DOMAIN heap'[b] = DOMAIN heap[b]
    BY <1>6, <1>15
  <2>2. \A i \in DOMAIN heap[b] : heap'[b][i].key = heap[b][i].key
    BY <1>6, <1>15
  <2> QED BY <1>0, <1>4, <1>6, <1>8, <2>1, <2>2, SameFind
<1>19. WriterOk(t)'
  <2>1. Table([Keys(b) EXCEPT ![p] = s], n, v)
    <3>1. v = IF Keys(b)[p] = Nil THEN o + 1 ELSE o
      BY <1>0, <1>13
    <3> HIDE DEF Keys
    <3>2. Table([Keys(b) EXCEPT ![p] = s], n,
                IF Keys(b)[p] = Nil THEN o + 1 ELSE o)
      BY <1>4, <1>5, <1>7, <1>10, <1>11, OneMore
    <3> QED BY <3>1, <3>2
  <2>2. Filled(c, s)' = [Keys(b) EXCEPT ![p] = s]
    <3>1. Keys(b)' = Keys(b)
      BY <1>6, <1>16
    <3> QED BY <1>14, <1>18, <3>1 DEF Filled
  <2> QED BY <1>1, <1>5, <1>9, <1>14, <1>0, <2>1, <2>2 DEF WriterOk
<1>20. ASSUME NEW d \in Classes PROVE RoomOk(d)'
  <2>1. CASE d = c
    BY <1>0, <1>1, <1>9, <2>1 DEF RoomOk, Whole
  <2>2. CASE d # c
    <3>1. Whole(d)
      BY <1>1, <1>3, LabelsAre DEF Whole
    <3> QED BY <1>7, <1>14, <1>16, <2>2, <3>1, CacheBuckets DEF RoomOk
  <2> QED BY <2>1, <2>2
<1> QED BY <1>2, <1>3, <1>17, <1>19, <1>20, WriteRoom

LEMMA SetKeyRoom ==
  ASSUME Safe, Room, NEW t \in Threads, Act(t), SetKey(t)
  PROVE  Room'
<1>0. PICK c, s, b, p :
        /\ c = msg[t].cls /\ s = msg[t].sel
        /\ b = cache[c].buckets /\ p = find(b, s)
  OBVIOUS
<1>1. /\ pc[t] = "key" /\ pc' = [pc EXCEPT ![t] = "idle"]
      /\ cache' = cache
      /\ heap' = [heap EXCEPT ![b][p].key = s]
  BY <1>0 DEF SetKey, End, Goto
<1>2. Private(t) /\ SelsOk'
  BY PrivateStep, SelsStep
<1>3. \A u \in Threads \ {t} : pc[u] \notin Owners
  BY <1>1, Alone, LabelsAre
<1>4. c \in Classes /\ s \in Sels
  BY <1>0, <1>1, WriterSends
<1>5. /\ b # Empty
      /\ Table([Keys(b) EXCEPT ![p] = s], cache[c].mask + 1, cache[c].occupied)
      /\ BucketsOk /\ \A d \in Classes : RoomOk(d)
  BY <1>0, <1>1 DEF Room, WriterOk, Filled
<1>6. b \in Blocks
  BY <1>0, <1>4, <1>5, CacheBuckets
<1>7. pc'[t] = "idle" /\ DOMAIN heap = Blocks
  BY <1>1 DEF Safe, Types, PcType, HeapType
<1>8. \A d \in Classes : cache[d].buckets = b => d = c
  BY <1>0, <1>4, <1>5 DEF Safe, BlockInv
<1>9. /\ \A a \in Blocks : a # b => heap'[a] = heap[a]
      /\ DOMAIN heap'[b] = DOMAIN heap[b]
      /\ \A i \in DOMAIN heap[b] :
           /\ "key" \in DOMAIN heap'[b][i]
           /\ heap'[b][i].key = IF i = p THEN s ELSE heap[b][i].key
  BY <1>1, <1>5, <1>6, <1>7 DEF BucketsOk
<1>10. /\ Keys(b)' = [Keys(b) EXCEPT ![p] = s]
       /\ \A a \in Blocks : a # b => Keys(a)' = Keys(a)
  <2>1. Keys(b)' = [i \in DOMAIN heap[b] |->
                       IF i = p THEN s ELSE heap[b][i].key]
    BY <1>9 DEF Keys
  <2>2. [Keys(b) EXCEPT ![p] = s] = [i \in DOMAIN heap[b] |->
                       IF i = p THEN s ELSE heap[b][i].key]
    BY DEF Keys
  <2> QED BY <1>9, <2>1, <2>2 DEF Keys
<1>11. BucketsOk'
  BY <1>5, <1>9 DEF BucketsOk
<1>12. WriterOk(t)'
  BY <1>7 DEF WriterOk
<1>13. ASSUME NEW d \in Classes PROVE RoomOk(d)'
  <2>1. CASE d = c
    BY <1>1, <1>5, <1>10, <2>1, <1>0 DEF RoomOk
  <2>2. CASE d # c
    <3>1. Whole(d)
      BY <1>1, <1>3, <2>2, <1>0, LabelsAre DEF Whole
    <3>2. cache[d].buckets # b
      BY <1>8, <2>2
    <3> QED BY <1>1, <1>5, <1>10, <3>1, <3>2, CacheBuckets DEF RoomOk
  <2> QED BY <2>1, <2>2
<1> QED BY <1>2, <1>3, <1>11, <1>12, <1>13, WriteRoom

LEMMA RoomInitially == Init => Room
<1> SUFFICES ASSUME Init PROVE Room
  OBVIOUS
<1>1. DOMAIN << >> = {}
  OBVIOUS
<1>2. BucketsOk /\ SelsOk
  BY <1>1 DEF Init, BucketsOk, SelsOk, NoMsg
<1>3. \A c \in Classes : RoomOk(c)
  BY DEF Init, RoomOk
<1>4. \A t \in Threads : WriterOk(t)
  BY DEF Init, WriterOk
<1> QED BY <1>2, <1>3, <1>4 DEF Room

LEMMA RoomStep ==
  ASSUME Safe, Room, [Next]_vars PROVE Room'
<1>1. CASE UNCHANGED vars
  <2>1. UNCHANGED <<cache, heap, pc, msg, upd>>
    BY <1>1 DEF vars, trash, locks
  <2>2. BucketsOk' /\ SelsOk'
    BY <2>1 DEF Room, BucketsOk, SelsOk
  <2>3. \A b : Keys(b)' = Keys(b) /\ \A s : find(b, s)' = find(b, s)
    BY <2>1, SameBuckets
  <2>4. \A c \in Classes : RoomOk(c)'
    BY <2>1, <2>3 DEF Room, RoomOk, Whole
  <2>5. \A t \in Threads : WriterOk(t)'
    BY <2>1, <2>3 DEF Room, WriterOk, Roomy, Filled
  <2> QED BY <2>2, <2>4, <2>5 DEF Room
<1>2. ASSUME NEW t \in Threads, Act(t) PROVE Room'
  BY <1>2, ReadRoom, FillRoom, SetImpRoom, SetKeyRoom, SetBucketsRoom,
     SetMaskRoom, ScanRoom, EraseRoom, CollectALotRoom DEF Act, Step
<1> QED BY <1>1, <1>2 DEF Next, Act

(* While nobody writes a cache that has buckets, it counts its keys, holds *)
(* none of them twice and has an unused bucket: each search of cache_t::   *)
(* find ends, whatever the hashes, the growth and the flushes, and also    *)
(* when the capacity can grow no more.                                     *)
THEOREM SearchesEnd == Spec => []RoomInEveryCache
<1>1. Init => Safe /\ Room
  BY SafeInitially, RoomInitially
<1>2. Safe /\ Room /\ [Next]_vars => Safe' /\ Room'
  BY SafeStep, RoomStep
<1>3. Safe /\ Room => RoomInEveryCache
  <2> SUFFICES ASSUME Safe, Room, cacheUpdateLock = NoThread,
                      NEW c \in Classes, NEW b, b = cache[c].buckets,
                      b # Empty
               PROVE  LET used == {i \in DOMAIN heap[b] :
                                     heap[b][i].key # Nil}
                      IN /\ cache[c].occupied = Cardinality(used)
                         /\ cache[c].occupied < capacity(c)
                         /\ DOMAIN heap[b] = 0..cache[c].mask
                         /\ \A i, j \in used :
                              heap[b][i].key = heap[b][j].key => i = j
    BY DEF RoomInEveryCache
  <2>1. \A t \in Threads : pc[t] \notin Owners
    BY ThreadsAssumption DEF Safe, LockInv
  <2>2. Table(Keys(b), cache[c].mask + 1, cache[c].occupied)
    BY <2>1, LabelsAre DEF Room, RoomOk, Whole
  <2>3. cache[c].mask \in Nat
    BY CacheBuckets
  <2>4. DOMAIN heap[b] = 0..cache[c].mask /\ cache[c].mask > 0
    BY <2>2, <2>3 DEF Table, Keys
  <2>5. UsedOf(Keys(b)) = {i \in DOMAIN heap[b] : heap[b][i].key # Nil}
    BY DEF UsedOf, Keys
  <2>6. capacity(c) = cache[c].mask + 1
    BY <2>4 DEF capacity
  <2>7. /\ cache[c].occupied = Cardinality(UsedOf(Keys(b)))
        /\ cache[c].occupied < capacity(c)
    BY <2>2, <2>6 DEF Table
  <2>8. ASSUME NEW i \in UsedOf(Keys(b)), NEW j \in UsedOf(Keys(b)),
               heap[b][i].key = heap[b][j].key
        PROVE  i = j
    <3>1. Keys(b)[i] = Keys(b)[j]
      BY <2>5, <2>8 DEF Keys
    <3> QED BY <2>2, <3>1, OneBucket
  <2> QED BY <2>4, <2>5, <2>7, <2>8
<1> QED BY <1>1, <1>2, <1>3, PTL DEF Spec

-----------------------------------------------------------------------------
(* The lineage of a class *)

\* The way from c up to a root class.
IsPath(c, p) ==
  /\ p \in Seq(Classes) /\ Len(p) > 0 /\ p[1] = c
  /\ \A i \in 1..(Len(p) - 1) : p[i + 1] = Super[p[i]]
  /\ Super[p[Len(p)]] = NoClass

LEMMA RootPath ==
  ASSUME NEW c \in Classes, Super[c] = NoClass
  PROVE  IsPath(c, <<c>>)
<1>1. PICK p : p = <<c>>
  OBVIOUS
<1>2. p \in Seq(Classes) /\ Len(p) = 1 /\ p[1] = c
  BY <1>1
<1>3. IsPath(c, p)
  BY <1>2 DEF IsPath
<1> QED BY <1>1, <1>3

LEMMA LongerPath ==
  ASSUME NEW c \in Classes, NEW p, IsPath(Super[c], p)
  PROVE  IsPath(c, <<c>> \o p)
<1>1. p \in Seq(Classes)
  BY DEF IsPath
<1>2. PICK q : q = <<c>> \o p
  OBVIOUS
<1>3. /\ q \in Seq(Classes) /\ Len(q) = Len(p) + 1 /\ q[1] = c
      /\ \A i \in 1..Len(p) : q[i + 1] = p[i]
  BY <1>1, <1>2
<1>4. Len(p) \in Nat /\ Len(p) > 0 /\ p[1] = Super[c]
      /\ Super[p[Len(p)]] = NoClass
      /\ \A i \in 1..(Len(p) - 1) : p[i + 1] = Super[p[i]]
  BY <1>1 DEF IsPath
<1>5. ASSUME NEW i \in 1..(Len(q) - 1) PROVE q[i + 1] = Super[q[i]]
  <2>1. CASE i = 1
    BY <1>3, <1>4, <2>1
  <2>2. CASE i # 1
    <3>1. PICK j : j = i - 1
      OBVIOUS
    <3>2. j \in 1..(Len(p) - 1) /\ j \in 1..Len(p) /\ j + 1 \in 1..Len(p)
          /\ i = j + 1
      BY <1>3, <1>4, <2>2, <3>1
    <3> QED BY <1>3, <1>4, <3>2
  <2> QED BY <2>1, <2>2
<1>6. q[Len(q)] = p[Len(p)]
  BY <1>3, <1>4
<1>7. IsPath(c, q)
  BY <1>3, <1>4, <1>5, <1>6 DEF IsPath
<1> QED BY <1>2, <1>7

\* What is left of a path when the first class is taken away.
LEMMA PathUp ==
  ASSUME NEW c \in Classes, NEW p, IsPath(c, p)
  PROVE  IF Super[c] = NoClass THEN p = <<c>>
         ELSE \E q : IsPath(Super[c], q) /\ p = <<c>> \o q
<1>1. /\ p \in Seq(Classes) /\ Len(p) \in Nat /\ Len(p) > 0 /\ p[1] = c
      /\ \A i \in 1..Len(p) : p[i] \in Classes
      /\ \A i \in 1..(Len(p) - 1) : p[i + 1] = Super[p[i]]
      /\ Super[p[Len(p)]] = NoClass
  BY DEF IsPath
<1>2. CASE Len(p) = 1
  <2>1. PICK q : q = <<c>>
    OBVIOUS
  <2>2. q \in Seq(Classes) /\ Len(q) = 1 /\ q[1] = c
    BY <2>1
  <2>3. p = q
    BY <1>1, <1>2, <2>2
  <2> QED BY <1>1, <1>2, <2>1, <2>3
<1>3. CASE Len(p) > 1
  <2>1. p[2] = Super[c] /\ p[2] \in Classes
    <3>1. 1 \in 1..(Len(p) - 1) /\ 2 \in 1..Len(p) /\ 1 + 1 = 2
      BY <1>1, <1>3
    <3> QED BY <1>1, <3>1
  <2>2. Super[c] # NoClass
    BY <2>1, ClassesAssumption
  <2>3. PICK q : q = Tail(p)
    OBVIOUS
  <2>4. /\ q \in Seq(Classes) /\ Len(q) = Len(p) - 1
        /\ \A i \in 1..Len(q) : q[i] = p[i + 1]
    BY <1>1, <1>3, <2>3
  <2>5. p = <<c>> \o q
    <3>1. PICK r : r = <<c>> \o q
      OBVIOUS
    <3>2. /\ r \in Seq(Classes) /\ Len(r) = Len(q) + 1 /\ r[1] = c
          /\ \A i \in 1..Len(q) : r[i + 1] = q[i]
      BY <2>4, <3>1
    <3>3. ASSUME NEW i \in 1..Len(p) PROVE r[i] = p[i]
      <4>1. CASE i = 1
        BY <1>1, <3>2, <4>1
      <4>2. CASE i # 1
        <5>1. i - 1 \in 1..Len(q) /\ (i - 1) + 1 = i
          BY <1>1, <2>4, <4>2
        <5> QED BY <2>4, <3>2, <5>1
      <4> QED BY <4>1, <4>2
    <3>4. r = p
      BY <1>1, <2>4, <3>2, <3>3
    <3> QED BY <3>1, <3>4
  <2>6. IsPath(Super[c], q)
    <3>1. Len(q) \in Nat /\ Len(q) > 0
      BY <1>1, <1>3, <2>4
    <3>2. q[1] = Super[c]
      BY <2>1, <2>4, <3>1
    <3>3. ASSUME NEW i \in 1..(Len(q) - 1) PROVE q[i + 1] = Super[q[i]]
      <4>1. /\ i \in 1..Len(q) /\ i + 1 \in 1..Len(q)
            /\ i + 1 \in 1..(Len(p) - 1)
        BY <1>1, <2>4, <3>1
      <4> QED BY <1>1, <2>4, <4>1
    <3>4. q[Len(q)] = p[Len(p)]
      BY <1>1, <2>4, <3>1
    <3> QED BY <1>1, <2>4, <3>1, <3>2, <3>3, <3>4 DEF IsPath
  <2> QED BY <2>2, <2>5, <2>6
<1> QED BY <1>1, <1>2, <1>3

\* A hierarchy without cycles: what goes from superclasses to subclasses
\* goes for all.
LEMMA OnePath ==
  ASSUME NEW c \in Classes
  PROVE  /\ \E p : IsPath(c, p)
         /\ \A p, q : IsPath(c, p) /\ IsPath(c, q) => p = q
<1> DEFINE Good(d) == /\ \E p : IsPath(d, p)
                      /\ \A p, q : IsPath(d, p) /\ IsPath(d, q) => p = q
           S == {d \in Classes : ~ Good(d)}
<1>1. ASSUME NEW d \in Classes, Super[d] \notin S PROVE Good(d)
  <2>1. CASE Super[d] = NoClass
    <3>1. \E p : IsPath(d, p)
      BY <2>1, RootPath
    <3>2. \A p : IsPath(d, p) => p = <<d>>
      BY <2>1, PathUp
    <3> QED BY <3>1, <3>2
  <2>2. CASE Super[d] # NoClass
    <3>1. Super[d] \in Classes
      BY <2>2, ClassesAssumption
    <3>2. Good(Super[d])
      BY <1>1, <3>1
    <3>3. \E p : IsPath(d, p)
      BY <3>2, LongerPath
    <3>4. ASSUME NEW p, NEW q, IsPath(d, p), IsPath(d, q) PROVE p = q
      <4>1. PICK x : IsPath(Super[d], x) /\ p = <<d>> \o x
        BY <2>2, <3>4, PathUp
      <4>2. PICK y : IsPath(Super[d], y) /\ q = <<d>> \o y
        BY <2>2, <3>4, PathUp
      <4> QED BY <3>2, <4>1, <4>2
    <3> QED BY <3>3, <3>4
  <2> QED BY <2>1, <2>2
<1> HIDE DEF Good
<1>2. S = {}
  <2>1. S \in SUBSET Classes /\ \A d \in S : ~ Good(d)
    OBVIOUS
  <2> HIDE DEF S
  <2> QED BY <1>1, <2>1, ClassesAssumption
<1>3. Good(c)
  BY <1>2
<1> QED BY <1>3 DEF Good

\* The recursion has a solution, which is the way up.
LEMMA LineageIs ==
  ASSUME NEW c \in Classes
  PROVE  IsPath(c, Lineage[c])
<1> DEFINE Up(f) == [d \in Classes |-> IF Super[d] = NoClass THEN <<d>>
                                       ELSE <<d>> \o f[Super[d]]]
           g == [d \in Classes |-> CHOOSE p : IsPath(d, p)]
<1>1. \A d \in Classes : IsPath(d, g[d])
  BY OnePath
<1>2. ASSUME NEW d \in Classes
      PROVE  g[d] = IF Super[d] = NoClass THEN <<d>>
                    ELSE <<d>> \o g[Super[d]]
  <2> HIDE DEF g
  <2>1. CASE Super[d] = NoClass
    BY <1>1, <2>1, PathUp
  <2>2. CASE Super[d] # NoClass
    <3>1. Super[d] \in Classes
      BY <2>2, ClassesAssumption
    <3>2. PICK q : IsPath(Super[d], q) /\ g[d] = <<d>> \o q
      BY <1>1, <2>2, PathUp
    <3>3. q = g[Super[d]]
      BY <1>1, <3>1, <3>2, OnePath
    <3> QED BY <2>2, <3>2, <3>3
  <2> QED BY <2>1, <2>2
<1>3. g = Up(g)
  BY <1>2
<1>4. Lineage = CHOOSE f : f = Up(f)
  BY DEF Lineage
<1>5. Lineage = Up(Lineage)
  <2> HIDE DEF g, Up
  <2> QED BY <1>3, <1>4
<1>6. ASSUME NEW d \in Classes
      PROVE  Lineage[d] = IF Super[d] = NoClass THEN <<d>>
                          ELSE <<d>> \o Lineage[Super[d]]
  <2>1. Lineage[d] = Up(Lineage)[d]
    BY <1>5
  <2> QED BY <2>1
<1> DEFINE S == {d \in Classes : ~ IsPath(d, Lineage[d])}
<1>7. ASSUME NEW d \in Classes, Super[d] \notin S
      PROVE  IsPath(d, Lineage[d])
  <2>1. CASE Super[d] = NoClass
    BY <1>6, <2>1, RootPath
  <2>2. CASE Super[d] # NoClass
    <3>1. Super[d] \in Classes
      BY <2>2, ClassesAssumption
    <3>2. IsPath(Super[d], Lineage[Super[d]])
      BY <1>7, <3>1
    <3>3. PICK p : p = Lineage[Super[d]]
      OBVIOUS
    <3> QED BY <1>6, <2>2, <3>2, <3>3, LongerPath
  <2> QED BY <2>1, <2>2
<1>8. S = {}
  <2>1. S \in SUBSET Classes /\ \A d \in S : ~ IsPath(d, Lineage[d])
    OBVIOUS
  <2> HIDE DEF S
  <2> QED BY <1>7, <2>1, ClassesAssumption
<1> QED BY <1>8

\* The lineage of a superclass is the rest of the lineage.
LEMMA LineageAbove ==
  ASSUME NEW c \in Classes, NEW i \in DOMAIN Lineage[c]
  PROVE  LET d == Lineage[c][i]
         IN /\ d \in Classes
            /\ Len(Lineage[d]) = Len(Lineage[c]) - i + 1
            /\ \A j \in DOMAIN Lineage[d] :
                 Lineage[d][j] = Lineage[c][i + j - 1]
<1>1. PICK p : p = Lineage[c]
  OBVIOUS
<1>2. /\ p \in Seq(Classes) /\ Len(p) \in Nat /\ p[1] = c
      /\ \A k \in 1..Len(p) : p[k] \in Classes
      /\ \A k \in 1..(Len(p) - 1) : p[k + 1] = Super[p[k]]
      /\ Super[p[Len(p)]] = NoClass
  BY <1>1, LineageIs DEF IsPath
<1>3. i \in 1..Len(p)
  BY <1>1, <1>2
<1>4. PICK q : q = SubSeq(p, i, Len(p))
  OBVIOUS
<1>5. /\ q \in Seq(Classes) /\ Len(q) = Len(p) - i + 1
      /\ \A j \in 1..Len(q) : q[j] = p[i + j - 1]
  BY <1>2, <1>3, <1>4
<1>6. IsPath(p[i], q)
  <2>1. Len(q) \in Nat /\ Len(q) > 0
    BY <1>2, <1>3, <1>5
  <2>2. q[1] = p[i]
    BY <1>3, <1>5, <2>1
  <2>3. ASSUME NEW j \in 1..(Len(q) - 1) PROVE q[j + 1] = Super[q[j]]
    <3>1. i \in Nat /\ i > 0 /\ j \in Nat /\ j > 0 /\ j < Len(p) - i + 1
      <4>1. PICK n, k : n = Len(p) /\ k = Len(q)
        OBVIOUS
      <4>2. n \in Nat /\ i \in 1..n
        BY <1>2, <1>3, <4>1
      <4>3. k = n - i + 1 /\ j \in 1..(k - 1)
        BY <1>5, <4>1
      <4>4. i \in Nat /\ i > 0 /\ j \in Nat /\ j > 0 /\ j < n - i + 1
        BY <4>2, <4>3
      <4> QED BY <4>1, <4>4
    <3>2. j \in 1..Len(q) /\ j + 1 \in 1..Len(q)
      BY <1>2, <1>5, <3>1
    <3>3. i + j - 1 \in 1..(Len(p) - 1) /\ i + (j + 1) - 1 = (i + j - 1) + 1
      BY <1>2, <3>1
    <3> QED BY <1>2, <1>5, <3>2, <3>3
  <2>4. q[Len(q)] = p[Len(p)]
    BY <1>2, <1>3, <1>5, <2>1
  <2> QED BY <1>2, <1>5, <2>1, <2>2, <2>3, <2>4 DEF IsPath
<1>7. p[i] \in Classes /\ Lineage[p[i]] = q
  BY <1>2, <1>3, <1>6, LineageIs, OnePath
<1>8. DOMAIN q = 1..Len(q)
  BY <1>5
<1> QED BY <1>1, <1>5, <1>7, <1>8

LEMMA LineageBegins ==
  ASSUME NEW c \in Classes
  PROVE  /\ 1 \in DOMAIN Lineage[c] /\ Lineage[c][1] = c
         /\ \A i \in DOMAIN Lineage[c] : i \in Nat /\ i > 0 /\
              \A j \in 1..i : j \in DOMAIN Lineage[c]
         /\ \A i \in DOMAIN Lineage[c] : Lineage[c][i] \in Classes
<1>1. PICK p : p = Lineage[c]
  OBVIOUS
<1>2. p \in Seq(Classes) /\ Len(p) \in Nat /\ Len(p) > 0 /\ p[1] = c
  BY <1>1, LineageIs DEF IsPath
<1>3. DOMAIN p = 1..Len(p)
  BY <1>2
<1>4. \A i \in 1..Len(p) :
        i \in Nat /\ i > 0 /\ \A j \in 1..i : j \in 1..Len(p)
  BY <1>2
<1>5. 1 \in 1..Len(p)
  BY <1>2
<1> QED BY <1>1, <1>2, <1>3, <1>4, <1>5

-----------------------------------------------------------------------------
(* The implementation in effect *)

\* The first class of the lineage that has a method for s, if there is one.
Decides(m, c, s, i) ==
  /\ i \in DOMAIN Lineage[c] /\ m[Lineage[c][i]][s] # Nil
  /\ \A j \in 1..(i - 1) : m[Lineage[c][j]][s] = Nil

Undecided(m, c, s) == \A i \in DOMAIN Lineage[c] : m[Lineage[c][i]][s] = Nil

LEMMA FirstDecides ==
  ASSUME NEW c \in Classes, NEW m, NEW s, NEW i, Decides(m, c, s, i)
  PROVE  Effective(m, c, s) = m[Lineage[c][i]][s]
<1> DEFINE has == {j \in DOMAIN Lineage[c] : m[Lineage[c][j]][s] # Nil}
<1>1. i \in has /\ \A j \in has : j \in Nat /\ j > 0
  BY LineageBegins DEF Decides
<1>2. \A j \in has : ~ (j \in 1..(i - 1))
  BY DEF Decides
<1> HIDE DEF has
<1>3. \A j \in has : i <= j
  BY <1>1, <1>2
<1>4. \A x \in has : (\A j \in has : x <= j) => x = i
  BY <1>1, <1>3
<1>5. Min(has) = i
  BY <1>1, <1>3, <1>4 DEF Min
<1> QED BY <1>1, <1>5 DEF Effective, has

LEMMA NobodyDecides ==
  ASSUME NEW c \in Classes, NEW m, NEW s, Undecided(m, c, s)
  PROVE  Effective(m, c, s) = Forward
<1>1. {i \in DOMAIN Lineage[c] : m[Lineage[c][i]][s] # Nil} = {}
  BY DEF Undecided
<1> QED BY <1>1 DEF Effective

LEMMA Decided ==
  ASSUME NEW c \in Classes, NEW m, NEW s
  PROVE  Undecided(m, c, s) \/ \E i : Decides(m, c, s, i)
<1> DEFINE has == {j \in DOMAIN Lineage[c] : m[Lineage[c][j]][s] # Nil}
<1> SUFFICES ASSUME has # {} PROVE \E i : Decides(m, c, s, i)
  BY DEF Undecided
<1>1. has \in SUBSET Nat
  BY LineageBegins
<1>2. PICK i \in has : \A j \in has : i <= j
  <2> HIDE DEF has
  <2> QED BY <1>1, LeastNatural
<1>3. ASSUME NEW j \in 1..(i - 1) PROVE m[Lineage[c][j]][s] = Nil
  <2>1. i \in Nat /\ j \in 1..i /\ ~ (i <= j)
    BY <1>1
  <2>2. j \in DOMAIN Lineage[c]
    BY <2>1, LineageBegins
  <2> QED BY <1>2, <2>1, <2>2
<1> QED BY <1>3 DEF Decides

LEMMA EffectiveIsSome ==
  ASSUME NEW c \in Classes, NEW m, NEW s
  PROVE  Effective(m, c, s) # Nil
<1>1. CASE Undecided(m, c, s)
  BY <1>1, NobodyDecides DEF Forward, Nil
<1>2. ASSUME NEW i, Decides(m, c, s, i) PROVE Effective(m, c, s) # Nil
  BY <1>2, FirstDecides DEF Decides
<1> QED BY <1>1, <1>2, Decided

\* Where the classes below have no method, the superclass's is in effect.
LEMMA Inherited ==
  ASSUME NEW c \in Classes, NEW m, NEW s, NEW i \in DOMAIN Lineage[c],
         \A j \in 1..(i - 1) : m[Lineage[c][j]][s] = Nil
  PROVE  Effective(m, c, s) = Effective(m, Lineage[c][i], s)
<1>1. PICK d, p, q : d = Lineage[c][i] /\ p = Lineage[c] /\ q = Lineage[d]
  OBVIOUS
<1>2. /\ d \in Classes /\ p \in Seq(Classes) /\ q \in Seq(Classes)
      /\ Len(q) = Len(p) - i + 1 /\ Len(p) \in Nat
      /\ DOMAIN p = 1..Len(p) /\ DOMAIN q = 1..Len(q)
      /\ \A j \in DOMAIN q : q[j] = p[i + j - 1]
  BY <1>1, LineageAbove, LineageIs DEF IsPath
<1>3. i \in 1..Len(p)
  BY <1>1, <1>2
\* What holds of the classes below and of those in q holds of all.
<1>4. ASSUME NEW n \in Nat, n <= Len(q),
             \A k \in 1..n : m[q[k]][s] = Nil
      PROVE  \A k \in 1..(i + n - 1) : m[p[k]][s] = Nil
  <2> SUFFICES ASSUME NEW k \in 1..(i + n - 1) PROVE m[p[k]][s] = Nil
    OBVIOUS
  <2>1. CASE k < i
    BY <1>1, <1>3, <2>1
  <2>2. CASE k >= i
    <3>1. k \in Nat /\ i \in Nat /\ i > 0 /\ k <= i + n - 1
      BY <1>3
    <3>2. PICK l : l = k - i + 1
      OBVIOUS
    <3>3. l \in 1..n /\ l \in 1..Len(q) /\ i + l - 1 = k
      BY <1>2, <1>4, <2>2, <3>1, <3>2
    <3> QED BY <1>2, <1>4, <3>3
  <2> QED BY <1>3, <2>1, <2>2
<1>5. CASE Undecided(m, d, s)
  <2>1. Len(q) \in Nat /\ i + Len(q) - 1 = Len(p)
    BY <1>2, <1>3
  <2>2. \A k \in 1..Len(p) : m[p[k]][s] = Nil
    <3>1. \A k \in 1..Len(q) : m[q[k]][s] = Nil
      BY <1>1, <1>2, <1>5 DEF Undecided
    <3>2. \A k \in 1..(i + Len(q) - 1) : m[p[k]][s] = Nil
      BY <1>4, <2>1, <3>1
    <3> QED BY <2>1, <3>2
  <2>3. Undecided(m, c, s)
    BY <1>1, <1>2, <2>2 DEF Undecided
  <2>4. Effective(m, c, s) = Forward /\ Effective(m, d, s) = Forward
    BY <1>2, <1>5, <2>3, NobodyDecides
  <2> QED BY <1>1, <2>4
<1>6. ASSUME NEW j, Decides(m, d, s, j)
      PROVE  Effective(m, c, s) = Effective(m, d, s)
  <2>1. /\ j \in 1..Len(q) /\ m[q[j]][s] # Nil
        /\ \A k \in 1..(j - 1) : m[q[k]][s] = Nil
    BY <1>1, <1>2, <1>6 DEF Decides
  <2>2. PICK n : n = i + j - 1
    OBVIOUS
  <2>3. /\ n \in 1..Len(p) /\ j - 1 \in Nat /\ j - 1 <= Len(q)
        /\ i + (j - 1) - 1 = n - 1
    BY <1>2, <1>3, <2>1, <2>2
  <2>4. p[n] = q[j]
    BY <1>2, <2>1, <2>2
  <2>5. \A k \in 1..(n - 1) : m[p[k]][s] = Nil
    BY <1>4, <2>1, <2>3
  <2>6. Decides(m, c, s, n)
    BY <1>1, <1>2, <2>1, <2>3, <2>4, <2>5 DEF Decides
  <2>7. Effective(m, c, s) = m[p[n]][s]
    BY <1>1, <2>6, FirstDecides
  <2>8. Effective(m, d, s) = m[q[j]][s]
    <3>1. Effective(m, d, s) = m[Lineage[d][j]][s]
      BY <1>2, <1>6, FirstDecides
    <3> QED BY <1>1, <3>1
  <2> QED BY <2>4, <2>7, <2>8
<1>7. Effective(m, c, s) = Effective(m, d, s)
  BY <1>2, <1>5, <1>6, <1>1, Decided
<1> QED BY <1>1, <1>7

\* Methods of other classes, and of other selectors, make no difference.
LEMMA SameEffect ==
  ASSUME NEW c \in Classes, NEW m, NEW n, NEW s,
         \A i \in DOMAIN Lineage[c] : n[Lineage[c][i]][s] = m[Lineage[c][i]][s]
  PROVE  Effective(n, c, s) = Effective(m, c, s)
<1>1. CASE Undecided(m, c, s)
  <2>1. Undecided(n, c, s)
    BY <1>1 DEF Undecided
  <2> QED BY <1>1, <2>1, NobodyDecides
<1>2. ASSUME NEW i, Decides(m, c, s, i)
      PROVE  Effective(n, c, s) = Effective(m, c, s)
  <2>1. \A j \in 1..(i - 1) : j \in DOMAIN Lineage[c]
    <3>1. i \in Nat /\ \A j \in 1..i : j \in DOMAIN Lineage[c]
      BY <1>2, LineageBegins DEF Decides
    <3>2. \A j \in 1..(i - 1) : j \in 1..i
      BY <3>1
    <3> QED BY <3>1, <3>2
  <2>2. Decides(n, c, s, i)
    BY <1>2, <2>1 DEF Decides
  <2>3. n[Lineage[c][i]][s] = m[Lineage[c][i]][s]
    BY <1>2 DEF Decides
  <2> QED BY <1>2, <2>2, <2>3, FirstDecides
<1> QED BY <1>1, <1>2, Decided

\* A method is in effect in its class and below it.
LEMMA ChangesBelow ==
  ASSUME NEW c \in Classes, NEW m, NEW n, NEW d, NEW s,
         \A e \in Classes : e # d => n[e] = m[e], c \notin Subtree(d)
  PROVE  Effective(n, c, s) = Effective(m, c, s)
<1>1. ASSUME NEW i \in DOMAIN Lineage[c]
      PROVE  n[Lineage[c][i]][s] = m[Lineage[c][i]][s]
  <2>1. Lineage[c][i] \in Classes
    BY LineageBegins
  <2>2. Lineage[c][i] # d
    BY DEF Subtree
  <2> QED BY <2>1, <2>2
<1> QED BY <1>1, SameEffect

-----------------------------------------------------------------------------
(* What caches, fillers and readers hold is in effect *)

\* A thread that is changing methods, from the change to the end of its
\* flushes, and one that caches what it has looked up.
Altering(t) ==
  \/ pc[t] \in {"flushCaches", "flush"}
  \/ /\ pc[t] \in Updating \cup {"scan"}
     /\ upd[t].kind # "fill" /\ ~ upd[t].lot

Filling(t) ==
  \/ pc[t] \in {"fill", "imp", "key"}
  \/ pc[t] \in Updating \cup {"scan"} /\ upd[t].kind = "fill"

\* Both have runtimeLock; a collection of everything has not.
RuntimeOk(t) ==
  /\ Altering(t) \/ Filling(t) => runtimeLock = t
  /\ upd[t].lot => pc[t] \in {"scan", "collected"} /\ upd[t].kind # "fill"

FieldsOk ==
  /\ DOMAIN window = Threads
  /\ \A t \in Threads : "imp" \in DOMAIN msg[t]
  /\ \A b \in Blocks : \A i \in DOMAIN heap[b] : "imp" \in DOMAIN heap[b][i]

MethodsOk ==
  /\ DOMAIN methods = Classes
  /\ (\A t \in Threads : ~ Altering(t)) => methods = before

\* The used buckets of a class's cache.
Entries(c) ==
  LET b == cache[c].buckets
  IN {i \in DOMAIN heap[b] : b # Empty /\ heap[b][i].key # Nil}

CacheOk(c) ==
  LET b == cache[c].buckets
  IN \A i \in Entries(c) : heap[b][i].imp = Effective(before, c, heap[b][i].key)

\* The classes whose caches a change has still to flush.
Pending(t) ==
  IF pc[t] = "flushCaches" THEN FlushSet(upd[t])
  ELSE IF pc[t] = "setBuckets" THEN upd[t].left \cup {upd[t].cls}
  ELSE upd[t].left

\* The change makes no difference to what the cache holds.
Unaffected(c) ==
  LET b == cache[c].buckets
  IN \A i \in Entries(c) : Effective(methods, c, heap[b][i].key) =
                             Effective(before, c, heap[b][i].key)

FlushOk(t) == Altering(t) => \A c \in Classes \ Pending(t) : Unaffected(c)

\* The bucket where the search for s ends is free for it and has its imp.
Written(c, s, imp) ==
  LET b == cache[c].buckets
      p == find(b, s)
  IN /\ p \in DOMAIN heap[b] /\ heap[b][p].key \in {Nil, s}
     /\ heap[b][p].imp = imp

FillOk(t) ==
  /\ Filling(t) => msg[t].imp = Effective(before, msg[t].cls, msg[t].sel)
  /\ pc[t] = "key" => Written(msg[t].cls, msg[t].sel, msg[t].imp)

WindowOk(t) ==
  /\ msg[t].cls # NoClass =>
       /\ Effective(before, msg[t].cls, msg[t].sel) \in window[t]
       /\ Effective(methods, msg[t].cls, msg[t].sel) \in window[t]
  /\ msg[t].imp # Nil => msg[t].imp \in window[t]

\* Buckets in which t may find its imp: nothing else has its key, and they
\* are in no cache but that of its class.
Good(t, b) ==
  /\ \A i \in DOMAIN heap[b] :
       heap[b][i].key = msg[t].sel => heap[b][i].imp \in window[t]
  /\ \A c \in Classes : cache[c].buckets = b => c = msg[t].cls

ReadOk(t) ==
  /\ pc[t] \in Reading /\ read[t].block # Empty => Good(t, read[t].block)
  /\ pc[t] = "hit" => KeyAt(read[t]) = msg[t].sel

ThreadOk(t) ==
  RuntimeOk(t) /\ FlushOk(t) /\ FillOk(t) /\ WindowOk(t) /\ ReadOk(t)

Current ==
  /\ FieldsOk /\ MethodsOk
  /\ \A c \in Classes : CacheOk(c)
  /\ \A t \in Threads : ThreadOk(t)

-----------------------------------------------------------------------------
(* What is in effect stays what it was *)

LEMMA FieldsStep ==
  ASSUME Safe, Room, Current, NEW t \in Threads, Act(t)
  PROVE  FieldsOk'
<1>1. /\ DOMAIN msg = Threads /\ DOMAIN window = Threads
      /\ DOMAIN heap = Blocks
      /\ \A u \in Threads : "imp" \in DOMAIN msg[u]
      /\ \A b \in Blocks : \A i \in DOMAIN heap[b] :
           "imp" \in DOMAIN heap[b][i]
  BY DEF Safe, Types, MsgType, HeapType, Current, FieldsOk
<1>2. \A u \in Threads : "imp" \in DOMAIN msg'[u]
  <2>1. \/ msg' = msg
        \/ \E imp : msg' = [msg EXCEPT ![t].imp = imp]
        \/ msg' = [msg EXCEPT ![t].tried = TRUE]
        \/ msg' = [msg EXCEPT ![t] = NoMsg]
        \/ \E c \in Classes, s \in Sels :
             msg' = [msg EXCEPT ![t] = [NoMsg EXCEPT !.cls = c, !.sel = s]]
    BY DEF Act, Step, Goto, End, objc_msgSend, BeginChange, objc_flush_caches,
           ReadBuckets, Hit, Probe, Miss, CacheHit, LookUp, Unresolved,
           Resolved, FillNothing, Fill, reallocate, SetImp, SetKey, SetBuckets,
           SetMask, Scan, Dispose, Change, flushCaches, cache_erase, Flushed,
           collectALot, Collected
  <2>2. /\ "imp" \in DOMAIN NoMsg
        /\ \A c \in Classes, s \in Sels :
             "imp" \in DOMAIN [NoMsg EXCEPT !.cls = c, !.sel = s]
    BY DEF NoMsg
  <2>3. \A m : /\ DOMAIN [m EXCEPT !.tried = TRUE] = DOMAIN m
               /\ \A imp : DOMAIN [m EXCEPT !.imp = imp] = DOMAIN m
    OBVIOUS
  <2>4. \/ msg' = msg
        \/ \E m : msg' = [msg EXCEPT ![t] = m] /\ "imp" \in DOMAIN m
    <3>2. CASE \E imp : msg' = [msg EXCEPT ![t].imp = imp]
      <4>1. PICK imp, m : /\ m = [msg[t] EXCEPT !.imp = imp]
                          /\ msg' = [msg EXCEPT ![t] = m]
        BY <3>2
      <4>2. "imp" \in DOMAIN m
        BY <1>1, <2>3, <4>1
      <4> QED BY <4>1, <4>2
    <3>3. CASE msg' = [msg EXCEPT ![t].tried = TRUE]
      <4>1. PICK m : /\ m = [msg[t] EXCEPT !.tried = TRUE]
                     /\ msg' = [msg EXCEPT ![t] = m]
        BY <3>3
      <4>2. "imp" \in DOMAIN m
        BY <1>1, <2>3, <4>1
      <4> QED BY <4>1, <4>2
    <3>4. CASE msg' = [msg EXCEPT ![t] = NoMsg]
      BY <2>2, <3>4
    <3>5. CASE \E c \in Classes, s \in Sels :
             msg' = [msg EXCEPT ![t] = [NoMsg EXCEPT !.cls = c, !.sel = s]]
      BY <2>2, <3>5
    <3> QED BY <2>1, <3>2, <3>3, <3>4, <3>5
  <2> QED BY <1>1, <2>4
<1>3. DOMAIN window' = Threads
  <2>1. \/ window' = window
        \/ \E w : window' = [window EXCEPT ![t] = w]
        \/ DOMAIN window' = Threads
    BY DEF Act, Step, Goto, End, objc_msgSend, BeginChange, objc_flush_caches,
           ReadBuckets, Hit, Probe, Miss, CacheHit, LookUp, Unresolved,
           Resolved, FillNothing, Fill, reallocate, SetImp, SetKey, SetBuckets,
           SetMask, Scan, Dispose, Change, flushCaches, cache_erase, Flushed,
           collectALot, Collected, ghosts
  <2> QED BY <1>1, <2>1
<1>4. \A b \in Blocks : \A i \in DOMAIN heap'[b] : "imp" \in DOMAIN heap'[b][i]
  <2>1. \/ heap' = heap
        \/ \E b, n : heap' = [heap EXCEPT ![b] = [i \in 0..(n - 1) |-> Unused]]
        \/ \E b, i, v : heap' = [heap EXCEPT ![b][i].imp = v]
        \/ \E b, i, v : heap' = [heap EXCEPT ![b][i].key = v]
        \/ heap' = [b \in Blocks |-> IF b \in garbage THEN << >> ELSE heap[b]]
    <3>1. CASE Fill(t)
      <4>1. \/ heap' = heap
            \/ \E n : heap' = [heap EXCEPT ![Min(Free)] =
                                 [i \in 0..(n - 1) |-> Unused]]
        BY <3>1 DEF Fill, reallocate, allocateBuckets
      <4> QED BY <4>1
    <3>2. CASE SetImp(t)
      <4>1. PICK b, i, v : heap' = [heap EXCEPT ![b][i].imp = v]
        BY <3>2 DEF SetImp
      <4> QED BY <4>1
    <3>4. CASE SetKey(t)
      <4>1. PICK b, i, v : heap' = [heap EXCEPT ![b][i].key = v]
        BY <3>4 DEF SetKey
      <4> QED BY <4>1
    <3>5. CASE Dispose(t)
      BY <3>5 DEF Dispose
    <3>3. CASE ~ (Fill(t) \/ SetImp(t) \/ SetKey(t) \/ Dispose(t))
      BY <3>3 DEF Act, Step, objc_msgSend, BeginChange, objc_flush_caches,
         ReadBuckets, Hit, Probe, Miss, CacheHit, LookUp, Unresolved,
         Resolved, FillNothing, SetBuckets, SetMask, Scan, Change, flushCaches,
         cache_erase, Flushed, collectALot, Collected
    <3> QED BY <3>1, <3>2, <3>3, <3>4, <3>5
  <2>2. "imp" \in DOMAIN Unused /\ DOMAIN << >> = {}
    BY DEF Unused
  <2>3. CASE heap' = heap
    BY <1>1, <2>3
  <2>4. CASE \E b, n :
               heap' = [heap EXCEPT ![b] = [i \in 0..(n - 1) |-> Unused]]
    BY <1>1, <2>2, <2>4
  <2>5. CASE \E b, i, v : heap' = [heap EXCEPT ![b][i].imp = v]
    BY <1>1, <2>5
  <2>6. CASE \E b, i, v : heap' = [heap EXCEPT ![b][i].key = v]
    BY <1>1, <2>6
  <2>7. CASE heap' = [b \in Blocks |-> IF b \in garbage THEN << >> ELSE heap[b]]
    BY <1>1, <2>2, <2>7
  <2> QED BY <2>1, <2>3, <2>4, <2>5, <2>6, <2>7
<1> QED BY <1>2, <1>3, <1>4 DEF FieldsOk

\* What a step leaves to the other readers and senders.
Apart(t) ==
  \A u \in Threads \ {t} : read'[u] = read[u] /\ window'[u] = window[u]

LEMMA ApartStep ==
  ASSUME Safe, Current, NEW t \in Threads, Act(t), pc[t] # "change"
  PROVE  Apart(t)
<1>1. DOMAIN read = Threads /\ DOMAIN window = Threads
  BY DEF Safe, Types, ReadType, Current, FieldsOk
<1>2. read' = read \/ \E r : read' = [read EXCEPT ![t] = r]
  BY DEF Act, Step, Goto, End, objc_msgSend, BeginChange, objc_flush_caches,
         ReadBuckets, Hit, Probe, Miss, CacheHit, LookUp, Unresolved,
         Resolved, FillNothing, Fill, reallocate, SetImp, SetKey, SetBuckets,
         SetMask, Scan, Dispose, Change, flushCaches, cache_erase, Flushed,
         collectALot, Collected
<1>3. window' = window \/ \E w : window' = [window EXCEPT ![t] = w]
  BY DEF Change, Act, Step, Goto, End, objc_msgSend, BeginChange,
         objc_flush_caches, ReadBuckets, Hit, Probe, Miss, CacheHit, LookUp,
         Unresolved, Resolved, FillNothing, Fill, reallocate, SetImp, SetKey,
         SetBuckets, SetMask, Scan, Dispose, flushCaches, cache_erase, Flushed,
         collectALot, Collected, ghosts
<1> QED BY <1>1, <1>2, <1>3 DEF Apart

\* The caches have the buckets they had, with what was in them.
Kept(t) ==
  /\ \A c \in Classes : cache'[c].buckets = cache[c].buckets
  /\ \A c \in Classes :
       LET b == cache[c].buckets IN b # Empty => heap'[b] = heap[b]
  /\ \A u \in Threads \ {t} :
       LET b == read[u].block
       IN pc[u] \in Reading /\ b # Empty => heap'[b] = heap[b]

LEMMA KeptEntries ==
  ASSUME NEW t \in Threads, Kept(t), NEW c \in Classes
  PROVE  /\ Entries(c)' = Entries(c)
         /\ \A i \in Entries(c) :
              heap'[cache'[c].buckets][i] = heap[cache[c].buckets][i]
<1>1. PICK b : b = cache[c].buckets
  OBVIOUS
<1>2. cache'[c].buckets = b /\ (b # Empty => heap'[b] = heap[b])
  BY <1>1 DEF Kept
<1>3. CASE b = Empty
  BY <1>1, <1>2, <1>3 DEF Entries
<1>4. CASE b # Empty
  BY <1>1, <1>2, <1>4 DEF Entries
<1> QED BY <1>3, <1>4

LEMMA KeptCaches ==
  ASSUME NEW t \in Threads, Kept(t), NEW c \in Classes,
         UNCHANGED <<methods, before>>
  PROVE  (CacheOk(c) => CacheOk(c)') /\ (Unaffected(c) => Unaffected(c)')
<1>1. /\ Entries(c)' = Entries(c)
      /\ \A i \in Entries(c) :
            heap'[cache'[c].buckets][i] = heap[cache[c].buckets][i]
  BY KeptEntries
<1> QED BY <1>1 DEF CacheOk, Unaffected

LEMMA KeepCurrent ==
  ASSUME Safe, Room, Current, NEW t \in Threads, Private(t), Apart(t),
         Kept(t), FieldsOk', UNCHANGED <<methods, before>>,
         Altering(t) => Altering(t)',
         runtimeLock' = runtimeLock \/ runtimeLock \in {t, NoThread},
         ThreadOk(t)'
  PROVE  Current'
<1>1. ASSUME NEW c \in Classes
      PROVE  CacheOk(c)' /\ (Unaffected(c) => Unaffected(c)')
  BY KeptCaches DEF Current
<1>2. ASSUME NEW u \in Threads \ {t} PROVE ThreadOk(u)'
  <2>1. /\ pc'[u] = pc[u] /\ upd'[u] = upd[u] /\ msg'[u] = msg[u]
        /\ read'[u] = read[u] /\ window'[u] = window[u] /\ ThreadOk(u)
    BY DEF Private, Apart, Current
  <2>2. (Altering(u)' <=> Altering(u)) /\ (Filling(u)' <=> Filling(u))
    BY <2>1 DEF Altering, Filling
  <2>3. RuntimeOk(u)'
    BY <2>1, <2>2, ThreadsAssumption DEF ThreadOk, RuntimeOk
  <2>4. FlushOk(u)'
    BY <1>1, <2>1, <2>2 DEF ThreadOk, FlushOk, Pending, FlushSet
  <2>5. FillOk(u)'
    <3>1. CASE pc[u] = "key"
      <4>1. PICK c, s, b : /\ c = msg[u].cls /\ s = msg[u].sel
                           /\ b = cache[c].buckets
        OBVIOUS
      <4>2. c \in Classes /\ b # Empty
        BY <3>1, <4>1, WriterSends DEF Room, WriterOk
      <4>3. heap'[b] = heap[b] /\ cache'[c].buckets = b
        BY <4>1, <4>2 DEF Kept
      <4>4. find(b, s)' = find(b, s)
        BY <4>3, SameBuckets
      <4>5. Written(c, s, msg[u].imp)
        BY <2>1, <3>1, <4>1 DEF ThreadOk, FillOk
      <4>6. Written(msg[u].cls, msg[u].sel, msg[u].imp)'
        BY <2>1, <4>1, <4>3, <4>4, <4>5 DEF Written
      <4> QED BY <2>1, <2>2, <4>6 DEF ThreadOk, FillOk
    <3>2. CASE pc[u] # "key"
      BY <2>1, <2>2, <3>2 DEF ThreadOk, FillOk
    <3> QED BY <3>1, <3>2
  <2>6. WindowOk(u)'
    BY <2>1 DEF ThreadOk, WindowOk
  <2>7. ReadOk(u)'
    <3>1. pc[u] \in Reading /\ read[u].block # Empty =>
            heap'[read[u].block] = heap[read[u].block]
      BY DEF Kept
    <3>2. \A c \in Classes : cache'[c].buckets = cache[c].buckets
      BY DEF Kept
    <3>3. pc[u] \in Reading /\ read[u].block # Empty => Good(u, read[u].block)'
      BY <2>1, <3>1, <3>2 DEF ThreadOk, ReadOk, Good
    <3>4. pc[u] \in Reading => KeyAt(read[u])' = KeyAt(read[u])
      BY <2>1, <3>1 DEF KeyAt
    <3> QED BY <2>1, <3>3, <3>4, LabelsAre DEF ThreadOk, ReadOk
  <2> QED BY <2>3, <2>4, <2>5, <2>6, <2>7 DEF ThreadOk
<1>3. MethodsOk'
  <2>1. ASSUME NEW u \in Threads, Altering(u) PROVE Altering(u)'
    BY <2>1 DEF Private, Altering
  <2> QED BY <2>1 DEF Current, MethodsOk
<1> QED BY <1>1, <1>2, <1>3 DEF Current

-----------------------------------------------------------------------------
(* Steps after which t has neither lock in its hands *)

Loose == {"idle", "buckets", "probe", "hit", "lookup", "resolve", "change",
          "collectALot", "collected"}

LEMMA LooseStep ==
  ASSUME Safe, Room, Current, NEW t \in Threads, Act(t), pc[t] # "change",
         UNCHANGED <<methods, before, cache, heap>>, ~ Altering(t),
         runtimeLock' = runtimeLock \/ runtimeLock \in {t, NoThread},
         pc'[t] \in Loose,
         upd'[t].lot => pc'[t] = "collected" /\ upd'[t].kind # "fill",
         WindowOk(t)', ReadOk(t)'
  PROVE  Current'
<1>1. ~ Altering(t)' /\ ~ Filling(t)' /\ pc'[t] # "key"
  BY LabelsAre DEF Altering, Filling, Loose
<1>2. ThreadOk(t)'
  BY <1>1 DEF ThreadOk, RuntimeOk, FlushOk, FillOk
<1>3. Kept(t)
  BY DEF Kept
<1> QED BY <1>1, <1>2, <1>3, FieldsStep, PrivateStep, ApartStep, KeepCurrent

LEMMA SameWindow ==
  ASSUME NEW t \in Threads, WindowOk(t), UNCHANGED <<methods, before>>,
         msg'[t].cls = msg[t].cls, msg'[t].sel = msg[t].sel,
         msg'[t].imp = msg[t].imp, window'[t] = window[t]
  PROVE  WindowOk(t)'
<1> QED BY DEF WindowOk

\* What is known of t.
LEMMA Known ==
  ASSUME Safe, Current, NEW t \in Threads
  PROVE  /\ pc \in [Threads -> Labels] /\ upd \in [Threads -> Upds]
         /\ read \in [Threads -> Reads]
         /\ DOMAIN msg = Threads /\ DOMAIN window = Threads
         /\ {"cls", "sel", "imp"} \subseteq DOMAIN msg[t]
         /\ ThreadOk(t) /\ SendOk(t)
         /\ upd[t].lot => pc[t] \in {"scan", "collected"}
         /\ pc[t] \notin Updating \cup {"scan", "flush", "flushCaches"} =>
              ~ Altering(t)
<1> QED BY DEF Safe, Types, PcType, UpdType, ReadType, MsgType, SendInv,
               Current, FieldsOk, ThreadOk, RuntimeOk, Altering

LEMMA SendCurrent ==
  ASSUME Safe, Room, Current, NEW t \in Threads, Act(t),
         NEW c \in Classes, NEW s \in Sels, objc_msgSend(t, c, s)
  PROVE  Current'
<1>1. /\ pc[t] = "idle" /\ pc' = [pc EXCEPT ![t] = "buckets"]
      /\ msg' = [msg EXCEPT ![t] = [NoMsg EXCEPT !.cls = c, !.sel = s]]
      /\ window' = [window EXCEPT ![t] = {Effective(before, c, s),
                                          Effective(methods, c, s)}]
      /\ UNCHANGED <<methods, cache, heap, runtimeLock, upd, before>>
  BY DEF objc_msgSend, Goto, locks
<1>2. pc'[t] = "buckets"
  BY <1>1, Known
<1>3. /\ msg'[t].cls = c /\ msg'[t].sel = s /\ msg'[t].imp = Nil
      /\ window'[t] = {Effective(before, c, s), Effective(methods, c, s)}
  BY <1>1, Known DEF NoMsg
<1>4. WindowOk(t)'
  BY <1>1, <1>3 DEF WindowOk
<1>5. ReadOk(t)'
  BY <1>2, LabelsAre DEF ReadOk
<1>6. ~ upd'[t].lot /\ ~ Altering(t)
  BY <1>1, Known, LabelsAre
<1> QED BY <1>1, <1>2, <1>4, <1>5, <1>6, LooseStep DEF Loose

\* Steps that neither send nor answer a message nor read a cache.
LEMMA AsideCurrent ==
  ASSUME Safe, Room, Current, NEW t \in Threads, Act(t),
         \/ \E c \in Classes, s \in Sels, kind \in {"add", "set"} :
              BeginChange(t, kind, c, s)
         \/ objc_flush_caches(t) \/ Miss(t) \/ Unresolved(t) \/ Resolved(t)
         \/ Collected(t)
  PROVE  Current'
<1>1. /\ pc[t] \in {"idle", "probe", "resolve", "collected"}
      /\ \E l \in {"change", "lookup", "idle"} :
           /\ pc' = [pc EXCEPT ![t] = l]
           /\ pc[t] = "collected" => l = "idle"
      /\ UNCHANGED <<methods, cache, heap, runtimeLock, before, window>>
      /\ msg' = msg \/ msg' = [msg EXCEPT ![t].tried = TRUE]
  BY DEF BeginChange, objc_flush_caches, Miss, Unresolved, Resolved,
         Collected, Goto, locks, ghosts
<1>2. pc'[t] \in {"change", "lookup", "idle"}
  BY <1>1, Known
<1>3. ~ upd'[t].lot
  <2>1. \/ pc[t] # "collected" /\ upd' = upd
        \/ \E k \in {"add", "set"} : \E c, s : upd' = [upd EXCEPT ![t] =
             [NoUpd EXCEPT !.kind = k, !.cls = c, !.sel = s]]
        \/ pc[t] # "collected" /\ upd' = [upd EXCEPT ![t].kind = "flush"]
        \/ upd' = [upd EXCEPT ![t] = NoUpd]
    BY DEF BeginChange, objc_flush_caches, Miss, Unresolved, Resolved,
           Collected
  <2>2. pc[t] # "collected" => ~ upd[t].lot
    BY <1>1, Known
  <2>3. upd \in [Threads -> Upds]
    BY Known
  <2>4. ~ NoUpd.lot /\ \A k, c, s :
          ~ [NoUpd EXCEPT !.kind = k, !.cls = c, !.sel = s].lot
    BY DEF NoUpd
  <2>5. CASE pc[t] # "collected" /\ upd' = [upd EXCEPT ![t].kind = "flush"]
    BY <2>2, <2>3, <2>5 DEF Upds
  <2> QED BY <2>1, <2>2, <2>3, <2>4, <2>5
<1>4. WindowOk(t)'
  <2>1. /\ msg'[t].cls = msg[t].cls /\ msg'[t].sel = msg[t].sel
        /\ msg'[t].imp = msg[t].imp
    BY <1>1, Known
  <2>2. WindowOk(t)
    BY Known DEF ThreadOk
  <2> QED BY <1>1, <2>1, <2>2, SameWindow
<1>5. ReadOk(t)'
  BY <1>2, LabelsAre DEF ReadOk
<1>6. ~ Altering(t)
  BY <1>1, Known, LabelsAre
<1> QED BY <1>1, <1>2, <1>3, <1>4, <1>5, <1>6, LooseStep DEF Loose

\* The message is over.
LEMMA EndCurrent ==
  ASSUME Safe, Room, Current, NEW t \in Threads, Act(t),
         CacheHit(t) \/ FillNothing(t)
  PROVE  Current'
<1>1. /\ pc[t] \in {"hit", "fill"} /\ pc' = [pc EXCEPT ![t] = "idle"]
      /\ msg' = [msg EXCEPT ![t] = NoMsg]
      /\ UNCHANGED <<methods, cache, heap, upd, before>>
      /\ \/ runtimeLock' = runtimeLock
         \/ pc[t] = "fill" /\ runtimeLock' = NoThread
  BY DEF CacheHit, FillNothing, End, Goto, locks
<1>2. pc'[t] = "idle" /\ msg'[t] = NoMsg
  BY <1>1, Known
<1>3. WindowOk(t)' /\ ReadOk(t)'
  BY <1>2, LabelsAre DEF WindowOk, ReadOk, NoMsg
<1>4. ~ upd'[t].lot /\ ~ Altering(t)
  BY <1>1, Known, LabelsAre
<1>5. pc[t] = "fill" => runtimeLock = t
  BY Known DEF ThreadOk, RuntimeOk, Filling
<1> QED BY <1>1, <1>2, <1>3, <1>4, <1>5, LooseStep DEF Loose

LEMMA ReadBucketsCurrent ==
  ASSUME Safe, Room, Current, NEW t \in Threads, Act(t), ReadBuckets(t)
  PROVE  Current'
<1>0. PICK c, s, b : /\ c = msg[t].cls /\ s = msg[t].sel
                     /\ b = cache[c].buckets
  OBVIOUS
<1>1. /\ pc[t] = "buckets" /\ pc' = [pc EXCEPT ![t] = "probe"]
      /\ \E i : read' = [read EXCEPT ![t].block = b, ![t].idx = i]
      /\ UNCHANGED <<methods, cache, heap, runtimeLock, msg, upd, before,
                     window>>
  BY <1>0 DEF ReadBuckets, Goto, locks, ghosts
<1>2. pc'[t] = "probe" /\ read'[t].block = b
  BY <1>1, Known DEF Reads
<1>3. c \in Classes /\ s \in Sels
  BY <1>0, <1>1, LabelsAre, ClassesAssumption
     DEF Safe, SendInv, SendOk, Room, SelsOk
<1>4. WindowOk(t)
  BY Known DEF ThreadOk
<1>5. ASSUME b # Empty PROVE Good(t, b)'
  <2>1. ASSUME NEW i \in DOMAIN heap[b], heap[b][i].key = s
        PROVE  heap[b][i].imp \in window[t]
    <3>1. i \in Entries(c) /\ s # Nil
      BY <1>0, <1>3, <1>5, <2>1, SelsAssumption DEF Entries
    <3>2. heap[b][i].imp = Effective(before, c, s)
      BY <1>0, <1>3, <2>1, <3>1 DEF Current, CacheOk
    <3> QED BY <1>0, <1>3, <1>4, <3>2, ClassesAssumption DEF WindowOk
  <2>2. \A d \in Classes : cache[d].buckets = b => d = c
    BY <1>0, <1>3, <1>5 DEF Safe, BlockInv
  <2> QED BY <1>0, <1>1, <2>1, <2>2 DEF Good
<1>6. ReadOk(t)'
  BY <1>2, <1>5 DEF ReadOk
<1>7. WindowOk(t)'
  BY <1>1, <1>4, SameWindow
<1>8. ~ upd'[t].lot /\ ~ Altering(t)
  BY <1>1, Known, LabelsAre
<1> QED BY <1>1, <1>2, <1>6, <1>7, <1>8, LooseStep DEF Loose

LEMMA ProbeCurrent ==
  ASSUME Safe, Room, Current, NEW t \in Threads, Act(t), Hit(t) \/ Probe(t)
  PROVE  Current'
<1>1. /\ pc[t] = "probe"
      /\ \/ pc' = pc
         \/ /\ pc' = [pc EXCEPT ![t] = "hit"] /\ read' = read
            /\ KeyAt(read[t]) = msg[t].sel
      /\ UNCHANGED <<methods, cache, heap, runtimeLock, msg, upd, before,
                     window>>
  BY DEF Hit, Probe, Goto, locks, ghosts
<1>2. /\ pc'[t] \in {"probe", "hit"}
      /\ pc'[t] = "hit" => read' = read /\ KeyAt(read[t]) = msg[t].sel
  BY <1>1, Known
<1>3. read'[t].block = read[t].block
  <2>1. \/ read' = read
        \/ read' = [read EXCEPT ![t] =
             [@ EXCEPT !.idx = 0, !.wrapped = TRUE]]
        \/ \E i : read' = [read EXCEPT ![t] = [@ EXCEPT !.idx = i]]
    BY DEF Hit, Probe
  <2>2. read \in [Threads -> Reads]
    BY Known
  <2> QED BY <2>1, <2>2 DEF Reads
<1>4. ReadOk(t)'
  <2>1. read[t].block # Empty => Good(t, read[t].block)
    BY <1>1, Known, LabelsAre DEF ThreadOk, ReadOk
  <2>2. read[t].block # Empty => Good(t, read[t].block)'
    BY <1>1, <1>3, <2>1 DEF Good
  <2>3. pc'[t] = "hit" => KeyAt(read[t])' = msg'[t].sel
    BY <1>1, <1>2 DEF KeyAt
  <2> QED BY <1>3, <2>2, <2>3 DEF ReadOk
<1>5. WindowOk(t)'
  BY <1>1, Known, SameWindow DEF ThreadOk
<1>6. ~ upd'[t].lot /\ ~ Altering(t)
  BY <1>1, Known, LabelsAre
<1> QED BY <1>1, <1>2, <1>4, <1>5, <1>6, LooseStep DEF Loose

-----------------------------------------------------------------------------
(* The lookup *)

\* With runtimeLock free no method is being changed.
LEMMA NobodyAlters ==
  ASSUME Safe, Current, runtimeLock = NoThread
  PROVE  methods = before /\ \A t \in Threads : ~ Altering(t) /\ ~ Filling(t)
<1>1. ASSUME NEW t \in Threads PROVE ~ Altering(t) /\ ~ Filling(t)
  BY <1>1, ThreadsAssumption DEF Current, ThreadOk, RuntimeOk
<1> QED BY <1>1 DEF Current, MethodsOk

\* A search in a whole cache ends at its key, or at an unused bucket.
LEMMA SearchEnds ==
  ASSUME Safe, Room, NEW c \in Classes, NEW s \in Sels,
         NEW b, b = cache[c].buckets, b # Empty,
         Table(Keys(b), cache[c].mask + 1, cache[c].occupied)
  PROVE  /\ find(b, s) \in DOMAIN heap[b]
         /\ heap[b][find(b, s)].key \in {Nil, s}
<1>0. PICK n, p : n = cache[c].mask + 1 /\ p = find(b, s)
  OBVIOUS
<1>1. s \in Nat
  BY SelsAssumption
<1>2. n \in Nat /\ n > 0 /\ Table(Keys(b), n, cache[c].occupied)
  BY <1>0, CacheBuckets
<1>3. DOMAIN heap[b] = 0..(n - 1)
  BY <1>2 DEF Table, Keys
<1>4. PICK k : Lands(Keys(b), n, s, k)
  BY <1>1, <1>2, UnusedBucket, Landing
<1>5. p = (s + k) % n
  BY <1>0, <1>1, <1>2, <1>3, <1>4, FindIs
<1>6. p \in 0..(n - 1)
  BY <1>1, <1>2, <1>4, <1>5, InRange DEF Lands
<1>7. heap[b][p].key = Keys(b)[p]
  BY <1>3, <1>6 DEF Keys
<1>8. Keys(b)[p] \in {Nil, s}
  BY <1>4, <1>5 DEF Lands
<1> QED BY <1>0, <1>3, <1>6, <1>7, <1>8

\* A cache has an imp that is in effect, or none.
LEMMA CacheGives ==
  ASSUME Safe, Room, Current, runtimeLock = NoThread,
         NEW c \in Classes, NEW s \in Sels
  PROVE  cache_getImp(c, s) \in {Nil, Effective(methods, c, s)}
<1>1. PICK b, p : b = cache[c].buckets /\ p = find(b, s)
  OBVIOUS
<1>2. CASE b # Empty /\ heap[b][p].key = s
  <2>1. Whole(c)
    <3>1. ASSUME NEW t \in Threads PROVE pc[t] \notin {"setMask", "key"}
      <4>1. ~ Altering(t) /\ ~ Filling(t) /\ RuntimeOk(t)
        BY NobodyAlters DEF Current, ThreadOk
      <4> QED BY <4>1, LabelsAre DEF Altering, Filling, RuntimeOk
    <3> QED BY <3>1 DEF Whole
  <2>2. Table(Keys(b), cache[c].mask + 1, cache[c].occupied)
    BY <1>1, <1>2, <2>1 DEF Room, RoomOk
  <2>3. p \in DOMAIN heap[b]
    BY <1>1, <1>2, <2>2, SearchEnds
  <2>4. p \in Entries(c) /\ s # Nil
    BY <1>1, <1>2, <2>3, SelsAssumption DEF Entries
  <2>5. heap[b][p].imp = Effective(before, c, s)
    BY <1>1, <1>2, <2>4 DEF Current, CacheOk
  <2> QED BY <1>1, <1>2, <2>5, NobodyAlters DEF cache_getImp
<1>3. CASE ~ (b # Empty /\ heap[b][p].key = s)
  BY <1>1, <1>3 DEF cache_getImp
<1> QED BY <1>2, <1>3

\* The lookup finds what is in effect, or nothing where that is to forward.
LEMMA FoundIs ==
  ASSUME Safe, Room, Current, runtimeLock = NoThread,
         NEW c \in Classes, NEW s \in Sels
  PROVE  \/ Found(c, s) = Effective(methods, c, s)
         \/ Found(c, s) = Nil /\ Effective(methods, c, s) = Forward
<1> DEFINE at(i) == Lineage[c][i]
           hits == {i \in DOMAIN Lineage[c] :
                 cache_getImp(at(i), s) # Nil \/ methods[at(i)][s] # Nil}
<1>1. CASE hits = {}
  <2>1. Undecided(methods, c, s)
    BY <1>1 DEF Undecided
  <2> QED BY <1>1, <2>1, NobodyDecides DEF Found
<1>2. CASE hits # {}
  <2>1. hits \in SUBSET Nat
    BY LineageBegins
  <2>2. PICK i \in hits : \A j \in hits : i <= j
    <3> HIDE DEF hits
    <3> QED BY <1>2, <2>1, LeastNatural
  <2>3. Min(hits) = i
    <3> HIDE DEF hits
    <3>1. \A x \in hits : (\A j \in hits : x <= j) => x = i
      BY <2>1, <2>2
    <3> QED BY <2>2, <3>1 DEF Min
  <2>4. ASSUME NEW j \in 1..(i - 1) PROVE methods[at(j)][s] = Nil
    <3>1. i \in Nat /\ j \in 1..i /\ ~ (i <= j)
      BY <2>1
    <3>2. j \in DOMAIN Lineage[c]
      BY <3>1, LineageBegins
    <3> QED BY <2>2, <3>1, <3>2
  <2>5. PICK d, cached : d = at(i) /\ cached = cache_getImp(d, s)
    OBVIOUS
  <2>6. d \in Classes
    BY <2>5, LineageBegins
  <2>7. Effective(methods, c, s) = Effective(methods, d, s)
    BY <2>4, <2>5, Inherited
  <2>8. cached \in {Nil, Effective(methods, d, s)}
    BY <2>5, <2>6, CacheGives
  <2>9. Found(c, s) = IF cached = Nil THEN methods[d][s]
                      ELSE IF cached = Forward /\ i > 1 THEN Nil
                      ELSE cached
    BY <1>2, <2>3, <2>5 DEF Found
  <2>10. CASE cached = Nil
    <3>1. methods[d][s] # Nil
      BY <2>2, <2>5, <2>10
    <3>2. Decides(methods, c, s, i)
      BY <2>4, <2>5, <3>1 DEF Decides
    <3>3. Effective(methods, c, s) = methods[d][s]
      BY <2>5, <3>2, FirstDecides
    <3> QED BY <2>9, <2>10, <3>3
  <2>11. CASE cached # Nil
    BY <2>7, <2>8, <2>9, <2>11
  <2> QED BY <2>10, <2>11
<1> QED BY <1>1, <1>2

LEMMA LookUpCurrent ==
  ASSUME Safe, Room, Current, NEW t \in Threads, Act(t), LookUp(t)
  PROVE  Current'
<1>0. PICK c, s, imp : /\ c = msg[t].cls /\ s = msg[t].sel
                       /\ imp = IF Found(c, s) = Nil THEN Forward
                                ELSE Found(c, s)
  OBVIOUS
<1>1. /\ pc[t] = "lookup" /\ runtimeLock = NoThread
      /\ UNCHANGED <<methods, cache, heap, read, upd, before, window>>
      /\ \/ /\ pc' = [pc EXCEPT ![t] = "resolve"]
            /\ UNCHANGED <<runtimeLock, msg>>
         \/ /\ pc' = [pc EXCEPT ![t] = "fill"]
            /\ runtimeLock' = t /\ msg' = [msg EXCEPT ![t].imp = imp]
  BY <1>0 DEF LookUp, Goto, ghosts
<1>2. c \in Classes /\ s \in Sels
  BY <1>0, <1>1, LabelsAre, ClassesAssumption
     DEF Safe, SendInv, SendOk, Room, SelsOk
<1>3. methods = before /\ ~ Altering(t) /\ ~ upd[t].lot /\ WindowOk(t)
  BY <1>1, NobodyAlters, Known DEF ThreadOk
<1>4. CASE pc' = [pc EXCEPT ![t] = "resolve"] /\ UNCHANGED <<runtimeLock, msg>>
  <2>1. pc'[t] = "resolve"
    BY <1>4, Known
  <2>2. WindowOk(t)' /\ ReadOk(t)'
    BY <1>1, <1>3, <1>4, <2>1, SameWindow, LabelsAre DEF ReadOk
  <2> QED BY <1>1, <1>3, <1>4, <2>1, <2>2, LooseStep DEF Loose
<1>5. CASE /\ pc' = [pc EXCEPT ![t] = "fill"]
           /\ runtimeLock' = t /\ msg' = [msg EXCEPT ![t].imp = imp]
  <2>1. pc'[t] = "fill"
    BY <1>5, Known
  <2>2. msg'[t].cls = c /\ msg'[t].sel = s /\ msg'[t].imp = imp
    BY <1>0, <1>5, Known
  <2>3. imp = Effective(before, c, s)
    BY <1>0, <1>1, <1>2, <1>3, FoundIs, EffectiveIsSome
  <2>4. FillOk(t)'
    BY <1>1, <2>1, <2>2, <2>3 DEF FillOk
  <2>5. Effective(before, c, s) \in window[t]
    BY <1>0, <1>2, <1>3, ClassesAssumption DEF WindowOk
  <2>6. WindowOk(t)'
    BY <1>1, <1>3, <2>2, <2>3, <2>5 DEF WindowOk
  <2>7. ReadOk(t)' /\ ~ Altering(t)'
    BY <2>1, LabelsAre DEF ReadOk, Altering
  <2>8. ThreadOk(t)'
    BY <1>1, <1>3, <1>5, <2>4, <2>6, <2>7
       DEF ThreadOk, RuntimeOk, FlushOk
  <2>9. Kept(t)
    BY <1>1 DEF Kept
  <2> QED BY <1>1, <1>3, <2>8, <2>9, FieldsStep, PrivateStep, ApartStep,
             KeepCurrent
<1> QED BY <1>1, <1>4, <1>5

-----------------------------------------------------------------------------
(* Flushes and collections *)

LEMMA FlushCachesCurrent ==
  ASSUME Safe, Room, Current, NEW t \in Threads, Act(t), flushCaches(t)
  PROVE  Current'
<1>1. /\ pc[t] = "flushCaches" /\ pc' = [pc EXCEPT ![t] = "flush"]
      /\ upd' = [upd EXCEPT ![t].left = FlushSet(upd[t])]
      /\ UNCHANGED <<methods, cache, heap, runtimeLock, msg, read, before,
                     window>>
  BY DEF flushCaches, Goto, ghosts
<1>2. /\ pc'[t] = "flush" /\ upd'[t].left = FlushSet(upd[t])
      /\ upd'[t].lot = upd[t].lot /\ ~ upd[t].lot
  BY <1>1, Known DEF Upds
<1>3. Altering(t) /\ Altering(t)' /\ ~ Filling(t)'
  BY <1>1, <1>2, LabelsAre DEF Altering, Filling
<1>4. Kept(t)
  BY <1>1 DEF Kept
<1>5. FlushOk(t)'
  <2>1. ASSUME NEW c \in Classes \ FlushSet(upd[t]) PROVE Unaffected(c)'
    <3>1. Unaffected(c)
      BY <1>1, <1>3, Known DEF ThreadOk, FlushOk, Pending
    <3> QED BY <1>1, <1>4, <3>1, KeptCaches
  <2> QED BY <1>2, <2>1 DEF FlushOk, Pending
<1>6. RuntimeOk(t)'
  BY <1>1, <1>2, <1>3, Known DEF ThreadOk, RuntimeOk
<1>7. FillOk(t)' /\ ReadOk(t)'
  BY <1>2, <1>3, LabelsAre DEF FillOk, ReadOk
<1>8. WindowOk(t)'
  BY <1>1, Known, SameWindow DEF ThreadOk
<1>9. ThreadOk(t)'
  BY <1>5, <1>6, <1>7, <1>8 DEF ThreadOk
<1> QED BY <1>1, <1>3, <1>4, <1>9, FieldsStep, PrivateStep, ApartStep,
           KeepCurrent

\* A cache that is left alone has nothing that could be wrong.
LEMMA LeftAlone ==
  ASSUME Safe, Room, NEW t \in Threads, pc[t] = "flush",
         NEW c \in Classes, ~ (capacity(c) > 0 /\ cache[c].occupied > 0)
  PROVE  Unaffected(c)
<1>1. Whole(c)
  BY Alone, LabelsAre DEF Whole
<1>2. PICK b : b = cache[c].buckets
  OBVIOUS
<1>3. CASE b = Empty
  BY <1>2, <1>3 DEF Unaffected, Entries
<1>4. CASE b # Empty
  <2>1. Table(Keys(b), cache[c].mask + 1, cache[c].occupied)
    BY <1>1, <1>2, <1>4 DEF Room, RoomOk
  <2>2. cache[c].mask \in Nat /\ cache[c].occupied \in Nat
    BY CacheBuckets
  <2>3. /\ cache[c].mask + 1 > 1
        /\ cache[c].occupied = Cardinality(UsedOf(Keys(b)))
        /\ DOMAIN Keys(b) = 0..((cache[c].mask + 1) - 1)
    BY <2>1 DEF Table
  <2>4. capacity(c) > 0
    BY <2>2, <2>3 DEF capacity
  <2>5. cache[c].occupied = 0
    BY <2>2, <2>4
  <2>6. IsFiniteSet(UsedOf(Keys(b)))
    <3>1. UsedOf(Keys(b)) \subseteq 0..((cache[c].mask + 1) - 1)
      BY <2>3 DEF UsedOf
    <3>2. (cache[c].mask + 1) - 1 \in Int
      BY <2>2
    <3>3. IsFiniteSet(0..((cache[c].mask + 1) - 1))
      BY <3>2, FS_Interval
    <3> QED BY <3>1, <3>3, FS_Subset
  <2>7. UsedOf(Keys(b)) = {}
    BY <2>3, <2>5, <2>6, FS_EmptySet
  <2>8. Entries(c) = {}
    BY <1>2, <1>4, <2>7 DEF Entries, UsedOf, Keys
  <2> QED BY <2>8 DEF Unaffected
<1> QED BY <1>3, <1>4

LEMMA EraseCurrent ==
  ASSUME Safe, Room, Current, NEW t \in Threads, Act(t), cache_erase(t)
  PROVE  Current'
<1>1. PICK c \in upd[t].left :
        /\ pc[t] = "flush"
        /\ UNCHANGED <<methods, cache, heap, runtimeLock, msg, read, before,
                       window>>
        /\ \/ /\ ~ (capacity(c) > 0 /\ cache[c].occupied > 0)
              /\ pc' = pc /\ upd' = [upd EXCEPT ![t].left = @ \ {c}]
           \/ /\ pc' = [pc EXCEPT ![t] = "setBuckets"]
              /\ upd' = [upd EXCEPT ![t].cls = c, ![t].buckets = Empty,
                           ![t].mask = cache[c].mask, ![t].left = @ \ {c}]
  <2>1. /\ pc[t] = "flush"
        /\ UNCHANGED <<methods, cache, heap, runtimeLock, msg, read, before,
                       window>>
    BY DEF cache_erase, locks, ghosts
  <2>2. PICK c \in upd[t].left :
          IF capacity(c) > 0 /\ cache[c].occupied > 0
          THEN /\ upd' = [upd EXCEPT ![t].cls = c, ![t].buckets = Empty,
                            ![t].mask = cache[c].mask, ![t].left = @ \ {c}]
               /\ pc' = [pc EXCEPT ![t] = "setBuckets"]
          ELSE upd' = [upd EXCEPT ![t].left = @ \ {c}] /\ pc' = pc
    BY DEF cache_erase, Goto
  <2> QED BY <2>1, <2>2
<1>2. /\ c \in Classes /\ ~ upd[t].lot /\ upd[t].kind # "fill"
      /\ Altering(t)
  BY <1>1, Known, LabelsAre DEF Upds, SendOk, Altering
<1>3. /\ upd'[t].lot = upd[t].lot /\ upd'[t].kind = upd[t].kind
      /\ upd'[t].left = upd[t].left \ {c}
      /\ \/ pc'[t] = "flush" /\ ~ (capacity(c) > 0 /\ cache[c].occupied > 0)
         \/ pc'[t] = "setBuckets" /\ upd'[t].cls = c
  <2>1. CASE pc' = pc /\ upd' = [upd EXCEPT ![t].left = @ \ {c}]
    BY <1>1, <2>1, Known DEF Upds
  <2>2. CASE /\ pc' = [pc EXCEPT ![t] = "setBuckets"]
             /\ upd' = [upd EXCEPT ![t].cls = c, ![t].buckets = Empty,
                           ![t].mask = cache[c].mask, ![t].left = @ \ {c}]
    BY <1>1, <2>2, Known DEF Upds
  <2> QED BY <1>1, <2>1, <2>2
<1>4. Altering(t)' /\ ~ Filling(t)'
  BY <1>2, <1>3, LabelsAre DEF Altering, Filling
<1>5. Kept(t)
  BY <1>1 DEF Kept
<1>6. FlushOk(t)'
  <2>1. ASSUME NEW d \in Classes \ Pending(t)' PROVE Unaffected(d)'
    <3>1. CASE d \in upd[t].left
      <4>1. d = c /\ pc'[t] = "flush"
        BY <1>3, <2>1, <3>1 DEF Pending
      <4>2. Unaffected(d)
        BY <1>1, <1>2, <1>3, <4>1, LeftAlone
      <4> QED BY <1>1, <1>5, <4>2, KeptCaches
    <3>2. CASE d \notin upd[t].left
      <4>1. Unaffected(d)
        BY <1>1, <1>2, <3>2, Known DEF ThreadOk, FlushOk, Pending
      <4> QED BY <1>1, <1>5, <4>1, KeptCaches
    <3> QED BY <3>1, <3>2
  <2> QED BY <2>1 DEF FlushOk
<1>7. RuntimeOk(t)'
  BY <1>1, <1>2, <1>3, <1>4, Known DEF ThreadOk, RuntimeOk
<1>8. FillOk(t)' /\ ReadOk(t)'
  BY <1>3, <1>4, LabelsAre DEF FillOk, ReadOk
<1>9. WindowOk(t)'
  BY <1>1, Known, SameWindow DEF ThreadOk
<1>10. ThreadOk(t)'
  BY <1>6, <1>7, <1>8, <1>9 DEF ThreadOk
<1> QED BY <1>1, <1>4, <1>5, <1>10, FieldsStep, PrivateStep, ApartStep,
           KeepCurrent

LEMMA CollectALotCurrent ==
  ASSUME Safe, Room, Current, NEW t \in Threads, Act(t), collectALot(t)
  PROVE  Current'
<1>1. /\ pc[t] = "collectALot" /\ pc' = [pc EXCEPT ![t] = "scan"]
      /\ upd' = [upd EXCEPT ![t].lot = TRUE, ![t].scan = Threads \ {t}]
      /\ UNCHANGED <<methods, cache, heap, runtimeLock, msg, read, before,
                     window>>
  BY DEF collectALot, Goto, ghosts
<1>2. /\ pc'[t] = "scan" /\ upd'[t].lot /\ upd'[t].kind = upd[t].kind
      /\ upd[t].kind # "fill"
  BY <1>1, Known, LabelsAre DEF Upds, SendOk
<1>3. ~ Altering(t) /\ ~ Altering(t)' /\ ~ Filling(t)'
  BY <1>1, <1>2, LabelsAre DEF Altering, Filling
<1>4. Kept(t)
  BY <1>1 DEF Kept
<1>5. RuntimeOk(t)' /\ FlushOk(t)' /\ FillOk(t)' /\ ReadOk(t)'
  BY <1>2, <1>3, LabelsAre DEF RuntimeOk, FlushOk, FillOk, ReadOk
<1>6. WindowOk(t)'
  BY <1>1, Known, SameWindow DEF ThreadOk
<1>7. ThreadOk(t)'
  BY <1>5, <1>6 DEF ThreadOk
<1> QED BY <1>1, <1>3, <1>4, <1>7, FieldsStep, PrivateStep, ApartStep,
           KeepCurrent

\* From the mask to the collection, and from there on.
LEMMA OnwardStep ==
  ASSUME Safe, Room, Current, NEW t \in Threads, Act(t),
         pc[t] \in {"setMask", "scan"}, pc'[t] \in {"scan", Continue(t)},
         upd'[t].kind = upd[t].kind, upd'[t].lot = upd[t].lot,
         upd'[t].left = upd[t].left, Kept(t),
         UNCHANGED <<methods, before, runtimeLock, msg, window>>
  PROVE  Current'
<1>1. /\ ThreadOk(t)
      /\ upd[t].lot => pc[t] = "scan" /\ upd[t].kind # "fill"
  BY Known DEF ThreadOk, RuntimeOk
<1>2. /\ pc'[t] = "imp" => upd[t].kind = "fill"
      /\ pc'[t] = "collected" => upd[t].lot
      /\ pc'[t] = "flush" => upd[t].kind # "fill" /\ ~ upd[t].lot
      /\ upd[t].lot => pc'[t] \in {"scan", "collected"}
      /\ pc'[t] \in {"imp", "collected", "flush", "scan"}
  BY <1>1 DEF Continue
<1>3. (Altering(t)' <=> Altering(t)) /\ (Filling(t)' <=> Filling(t))
  BY <1>1, <1>2, LabelsAre DEF Altering, Filling, Continue
<1>4. RuntimeOk(t)'
  BY <1>1, <1>2, <1>3 DEF ThreadOk, RuntimeOk
<1>5. FlushOk(t)'
  <2>1. ASSUME NEW c \in Classes, c \notin upd[t].left, Altering(t)
        PROVE  Unaffected(c)'
    <3>1. Unaffected(c)
      BY <1>1, <2>1 DEF ThreadOk, FlushOk, Pending
    <3> QED BY <3>1, KeptCaches
  <2> QED BY <1>2, <1>3, <2>1 DEF FlushOk, Pending
<1>6. FillOk(t)' /\ ReadOk(t)'
  BY <1>1, <1>2, <1>3, LabelsAre DEF ThreadOk, FillOk, ReadOk
<1>7. WindowOk(t)'
  BY <1>1, SameWindow DEF ThreadOk
<1>8. ThreadOk(t)'
  BY <1>4, <1>5, <1>6, <1>7 DEF ThreadOk
<1> QED BY <1>3, <1>8, FieldsStep, PrivateStep, ApartStep, KeepCurrent

LEMMA ScanCurrent ==
  ASSUME Safe, Room, Current, NEW t \in Threads, Act(t), Scan(t)
  PROVE  Current'
<1>1. /\ pc[t] = "scan"
      /\ pc' = pc \/ pc' = [pc EXCEPT ![t] = Continue(t)]
      /\ \E s : upd' = [upd EXCEPT ![t].scan = s]
      /\ UNCHANGED <<methods, cache, heap, runtimeLock, msg, read, before,
                     window>>
  BY DEF Scan, Goto, locks, ghosts
<1>2. pc'[t] \in {"scan", Continue(t)} /\ pc[t] = "scan"
  BY <1>1, Known DEF Scan
<1>3. /\ upd'[t].kind = upd[t].kind /\ upd'[t].lot = upd[t].lot
      /\ upd'[t].left = upd[t].left
  BY <1>1, Known DEF Upds
<1>4. Kept(t)
  BY <1>1 DEF Kept
<1> QED BY <1>1, <1>2, <1>3, <1>4, OnwardStep

LEMMA DisposeCurrent ==
  ASSUME Safe, Room, Current, NEW t \in Threads, Act(t), Dispose(t)
  PROVE  Current'
<1>1. /\ pc[t] = "scan" /\ pc' = [pc EXCEPT ![t] = Continue(t)]
      /\ upd[t].scan = {}
      /\ heap' = [b \in Blocks |-> IF b \in garbage THEN << >> ELSE heap[b]]
      /\ UNCHANGED <<methods, cache, runtimeLock, msg, read, upd, before,
                     window>>
  BY DEF Dispose, Goto, locks, ghosts
<1>2. pc'[t] = Continue(t)
  BY <1>1, Known
<1>3. Kept(t)
  <2>1. \A c \in Classes : LET b == cache[c].buckets
                           IN b # Empty => b \in Blocks \ garbage
    BY CacheBuckets
  <2>2. ASSUME NEW u \in Threads \ {t}, pc[u] \in Reading,
               read[u].block # Empty
        PROVE  read[u].block \in Blocks \ garbage
    BY <1>1, <2>2, Known DEF Safe, ReaderInv, Scanned, Reads
  <2> QED BY <1>1, <2>1, <2>2 DEF Kept
<1> QED BY <1>1, <1>2, <1>3, OnwardStep

LEMMA SetMaskCurrent ==
  ASSUME Safe, Room, Current, NEW t \in Threads, Act(t), SetMask(t)
  PROVE  Current'
<1>1. /\ pc[t] = "setMask"
      /\ pc' \in {[pc EXCEPT ![t] = Continue(t)], [pc EXCEPT ![t] = "scan"]}
      /\ upd' = upd \/ \E s : upd' = [upd EXCEPT ![t].scan = s]
      /\ \E c, m : cache' = [cache EXCEPT ![c].mask = m, ![c].occupied = 0]
      /\ UNCHANGED <<methods, heap, runtimeLock, msg, read, before, window>>
  BY DEF SetMask, Goto, locks, ghosts
<1>2. pc'[t] \in {"scan", Continue(t)}
  BY <1>1, Known
<1>3. /\ upd'[t].kind = upd[t].kind /\ upd'[t].lot = upd[t].lot
      /\ upd'[t].left = upd[t].left
  BY <1>1, Known DEF Upds
<1>4. \A d \in Classes : cache'[d].buckets = cache[d].buckets
  BY <1>1 DEF Safe, Types, CacheType, Caches
<1>5. Kept(t)
  BY <1>1, <1>4 DEF Kept
<1> QED BY <1>1, <1>2, <1>3, <1>5, OnwardStep

LEMMA FillCurrent ==
  ASSUME Safe, Room, Current, NEW t \in Threads, Act(t), Fill(t)
  PROVE  Current'
<1>0. PICK c : c = msg[t].cls
  OBVIOUS
<1>1. /\ pc[t] = "fill" /\ cacheUpdateLock = NoThread
      /\ UNCHANGED <<methods, cache, runtimeLock, msg, read, before, window>>
      /\ \/ pc' = [pc EXCEPT ![t] = "imp"] /\ UNCHANGED <<heap, upd>>
         \/ Free # {} /\ reallocate(t, NextCapacity(c))
  BY <1>0 DEF Fill, Goto, ghosts, reallocate
<1>2. ThreadOk(t) /\ ~ upd[t].lot /\ Filling(t)
  BY <1>1, Known DEF Filling
<1>3. /\ \/ pc'[t] = "imp"
         \/ pc'[t] = "setBuckets" /\ upd'[t].kind = "fill"
      /\ ~ upd'[t].lot /\ Kept(t)
  <2>1. CASE pc' = [pc EXCEPT ![t] = "imp"] /\ UNCHANGED <<heap, upd>>
    BY <1>1, <1>2, <2>1, Known DEF Kept
  <2>2. CASE Free # {} /\ reallocate(t, NextCapacity(c))
    <3>1. PICK b, n : /\ b = Min(Free)
                      /\ heap' = [heap EXCEPT ![b] =
                                    [i \in 0..(n - 1) |-> Unused]]
                      /\ pc' = [pc EXCEPT ![t] = "setBuckets"]
                      /\ upd' = [upd EXCEPT ![t] =
                           [NoUpd EXCEPT !.cls = c, !.buckets = b,
                                         !.mask = n - 1]]
      BY <1>0, <2>2 DEF reallocate, allocateBuckets, Goto
    <3>2. b \in Blocks /\ DOMAIN heap[b] = {}
      BY <2>2, <3>1, FreeBlock
    <3>3. pc'[t] = "setBuckets" /\ upd'[t].kind = "fill" /\ ~ upd'[t].lot
      BY <3>1, Known DEF NoUpd
    <3>4. ASSUME NEW d \in Classes, cache[d].buckets # Empty
          PROVE  cache[d].buckets # b
      <4>1. \A u \in Threads : pc[u] \notin Owners
        BY <1>1, Alone, LabelsAre
      <4>2. Sized(d) /\ cache[d].mask \in Nat
        BY CacheBuckets DEF Safe, BlockInv
      <4>3. DOMAIN heap[cache[d].buckets] = 0..cache[d].mask
        BY <3>4, <4>1, <4>2, LabelsAre DEF Sized
      <4>4. 0 \in 0..cache[d].mask
        BY <4>2
      <4> QED BY <3>2, <4>3, <4>4
    <3>5. ASSUME NEW u \in Threads, pc[u] \in Reading, read[u].block # Empty
          PROVE  read[u].block # b
      <4>1. PICK k \in Nat : DOMAIN heap[read[u].block] = 0..k
        BY <3>5 DEF Safe, ReaderInv, ReaderOk
      <4>2. 0 \in 0..k
        OBVIOUS
      <4> QED BY <3>2, <4>1, <4>2
    <3>6. \A a : a # b => heap'[a] = heap[a] \/ a \notin Blocks
      BY <3>1 DEF Safe, Types, HeapType
    <3>7. Kept(t)
      <4>1. \A d \in Classes : cache[d].buckets \in {Empty} \cup Blocks
        BY CacheBuckets
      <4>2. \A u \in Threads : read[u].block \in {Empty} \cup Blocks
        BY DEF Safe, Types, ReadType, Reads
      <4> QED BY <1>1, <3>4, <3>5, <3>6, <4>1, <4>2 DEF Kept
    <3> QED BY <3>3, <3>7
  <2> QED BY <1>1, <2>1, <2>2
<1>4. Filling(t)' /\ ~ Altering(t) /\ ~ Altering(t)'
  BY <1>1, <1>3, LabelsAre DEF Filling, Altering
<1>5. RuntimeOk(t)'
  BY <1>1, <1>2, <1>3 DEF ThreadOk, RuntimeOk
<1>6. FillOk(t)' /\ FlushOk(t)' /\ ReadOk(t)'
  BY <1>1, <1>2, <1>3, <1>4, LabelsAre DEF ThreadOk, FillOk, FlushOk, ReadOk
<1>7. WindowOk(t)'
  BY <1>1, <1>2, SameWindow DEF ThreadOk
<1>8. ThreadOk(t)'
  BY <1>5, <1>6, <1>7 DEF ThreadOk
<1> QED BY <1>1, <1>3, <1>4, <1>8, FieldsStep, PrivateStep, ApartStep,
           KeepCurrent

-----------------------------------------------------------------------------
(* The writers *)

\* Whoever fills or flushes does so alone.
LEMMA NobodyElse ==
  ASSUME Safe, Current, NEW t \in Threads, Altering(t) \/ Filling(t)
  PROVE  /\ runtimeLock = t
         /\ \A u \in Threads \ {t} : ~ Altering(u) /\ ~ Filling(u)
         /\ Filling(t) => methods = before
<1>1. ASSUME NEW u \in Threads
      PROVE  Altering(u) \/ Filling(u) => runtimeLock = u
  BY DEF Current, ThreadOk, RuntimeOk
<1>2. Filling(t) => ~ Altering(t)
  BY LabelsAre DEF Filling, Altering
<1> QED BY <1>1, <1>2 DEF Current, MethodsOk

LEMMA SetBucketsCurrent ==
  ASSUME Safe, Room, Current, NEW t \in Threads, Act(t), SetBuckets(t)
  PROVE  Current'
<1>0. PICK c, b : c = upd[t].cls /\ b = upd[t].buckets
  OBVIOUS
<1>1. /\ pc[t] = "setBuckets" /\ pc' = [pc EXCEPT ![t] = "setMask"]
      /\ cache' = [cache EXCEPT ![c].buckets = b]
      /\ \E old : upd' = [upd EXCEPT ![t].buckets = old]
      /\ UNCHANGED <<methods, heap, runtimeLock, msg, read, before, window>>
  BY <1>0 DEF SetBuckets, Goto, locks, ghosts
<1>2. /\ pc'[t] = "setMask" /\ upd'[t].kind = upd[t].kind
      /\ upd'[t].lot = upd[t].lot /\ upd'[t].left = upd[t].left
      /\ ~ upd[t].lot /\ ThreadOk(t)
  BY <1>1, Known DEF Upds
<1>3. c \in Classes /\ b \in {Empty} \cup Blocks
  BY <1>0, <1>1, UpdateBuckets, LabelsAre
<1>4. /\ cache'[c].buckets = b
      /\ \A d \in Classes : d # c => cache'[d].buckets = cache[d].buckets
  BY <1>1, <1>3 DEF Safe, Types, CacheType, Caches
<1>5. \A u \in Threads \ {t} : pc[u] \notin Owners
  BY <1>1, Alone, LabelsAre
<1>6. Private(t) /\ Apart(t) /\ FieldsOk'
  BY <1>1, PrivateStep, ApartStep, FieldsStep
<1>7. /\ Altering(t) \/ Filling(t)
      /\ Altering(t)' <=> Altering(t)
      /\ Filling(t)' <=> Filling(t)
  BY <1>1, <1>2, LabelsAre DEF Altering, Filling
<1>8. /\ runtimeLock = t
      /\ \A u \in Threads \ {t} : ~ Altering(u) /\ ~ Filling(u)
  BY <1>7, NobodyElse
<1>9. Entries(c)' = {}
  <2>1. CASE b = Empty
    BY <1>4, <2>1 DEF Entries
  <2>2. CASE b # Empty
    <3>1. Keys(b) = Blank(upd[t].mask + 1)
      BY <1>0, <1>1, <2>2 DEF Room, WriterOk
    <3>2. \A i \in DOMAIN heap[b] : heap[b][i].key = Keys(b)[i]
      BY DEF Keys
    <3>3. \A i \in DOMAIN Keys(b) : Keys(b)[i] = Nil
      BY <3>1 DEF Blank
    <3>4. DOMAIN Keys(b) = DOMAIN heap[b]
      BY DEF Keys
    <3> QED BY <1>1, <1>4, <3>2, <3>3, <3>4 DEF Entries
  <2> QED BY <2>1, <2>2
<1>10. ASSUME NEW d \in Classes
       PROVE  CacheOk(d)' /\ (Unaffected(d) \/ d = c => Unaffected(d)')
  <2>1. CASE d = c
    BY <1>9, <2>1 DEF CacheOk, Unaffected
  <2>2. CASE d # c
    BY <1>1, <1>4, <2>2 DEF Current, CacheOk, Unaffected, Entries
  <2> QED BY <2>1, <2>2
<1>11. ASSUME NEW u \in Threads \ {t} PROVE ThreadOk(u)'
  <2>1. /\ pc'[u] = pc[u] /\ upd'[u] = upd[u] /\ msg'[u] = msg[u]
        /\ read'[u] = read[u] /\ window'[u] = window[u] /\ ThreadOk(u)
    BY <1>6 DEF Private, Apart, Current
  <2>2. ~ Altering(u)' /\ ~ Filling(u)'
    BY <1>8, <2>1 DEF Altering, Filling
  <2>3. RuntimeOk(u)' /\ FlushOk(u)' /\ FillOk(u)'
    BY <2>1, <2>2 DEF ThreadOk, RuntimeOk, FlushOk, FillOk, Filling
  <2>4. WindowOk(u)'
    BY <1>1, <2>1 DEF ThreadOk, WindowOk
  <2>5. ASSUME pc[u] \in Reading, read[u].block # Empty
        PROVE  Good(u, read[u].block)'
    <3>1. PICK r : r = read[u].block
      OBVIOUS
    <3>2. Good(u, r)
      BY <2>1, <2>5, <3>1 DEF ThreadOk, ReadOk
    <3>3. r # b
      <4>1. Held(t) /\ Reachable(r)
        BY <2>5, <3>1 DEF Safe, BlockInv, ReaderInv, ReaderOk
      <4>2. b # Empty => /\ b \notin garbage
                         /\ \A d \in Classes : cache[d].buckets # b
        BY <1>0, <1>1, <4>1, LabelsAre DEF Held
      <4>3. \A v \in Threads : pc[v] # "setMask"
        BY <1>1, <1>5, LabelsAre
      <4> QED BY <2>5, <3>1, <4>1, <4>2, <4>3 DEF Reachable
    <3>4. \A d \in Classes : cache'[d].buckets = r => d = msg[u].cls
      BY <1>3, <1>4, <3>2, <3>3 DEF Good
    <3> QED BY <1>1, <2>1, <3>1, <3>2, <3>4 DEF Good
  <2>6. ReadOk(u)'
    BY <1>1, <2>1, <2>5, LabelsAre DEF ThreadOk, ReadOk, KeyAt
  <2> QED BY <2>3, <2>4, <2>6 DEF ThreadOk
<1>12. ThreadOk(t)'
  <2>1. RuntimeOk(t)'
    BY <1>1, <1>2, <1>7 DEF ThreadOk, RuntimeOk
  <2>2. FlushOk(t)'
    <3>1. ASSUME NEW d \in Classes, d \notin upd[t].left, Altering(t)
          PROVE  Unaffected(d)'
      <4>1. d = c \/ Unaffected(d)
        BY <1>0, <1>1, <1>2, <3>1 DEF ThreadOk, FlushOk, Pending
      <4> QED BY <1>10, <4>1
    <3> QED BY <1>2, <1>7, <3>1 DEF FlushOk, Pending
  <2>3. FillOk(t)' /\ ReadOk(t)'
    BY <1>1, <1>2, <1>7, LabelsAre DEF ThreadOk, FillOk, ReadOk
  <2>4. WindowOk(t)'
    BY <1>1, <1>2, SameWindow DEF ThreadOk
  <2> QED BY <2>1, <2>2, <2>3, <2>4 DEF ThreadOk
<1>13. MethodsOk'
  <2>1. ASSUME NEW u \in Threads, Altering(u) PROVE Altering(u)'
    BY <1>6, <1>7, <2>1 DEF Private, Altering
  <2> QED BY <1>1, <2>1 DEF Current, MethodsOk
<1> QED BY <1>6, <1>10, <1>11, <1>12, <1>13 DEF Current

\* A reader that sees its selector looks at a bucket that has it.
LEMMA HitsSomething ==
  ASSUME Safe, Room, NEW u \in Threads, ReadOk(u), pc[u] = "hit"
  PROVE  /\ read[u].block # Empty /\ msg[u].sel \in Sels
         /\ read[u].idx \in DOMAIN heap[read[u].block]
         /\ heap[read[u].block][read[u].idx].key = msg[u].sel
<1>1. msg[u].cls \in Classes
  BY LabelsAre DEF Safe, SendInv, SendOk
<1>2. msg[u].cls # NoClass
  BY <1>1, ClassesAssumption
<1>3. msg[u].sel \in Sels
  BY <1>2 DEF Room, SelsOk
<1>4. msg[u].sel \notin {Nil, EndMarker}
  BY <1>3, SelsAssumption
<1>5. KeyAt(read[u]) = msg[u].sel
  BY DEF ReadOk
<1> QED BY <1>3, <1>4, <1>5 DEF KeyAt

\* The bucket p of s, where its key or nothing is, gets the imp v, its key or
\* both, and no other bucket changes.
Writes(b, p, s, v) ==
  /\ p \in DOMAIN heap[b] /\ heap[b][p].key \in {Nil, s}
  /\ \A a \in Blocks : a # b => heap'[a] = heap[a]
  /\ DOMAIN heap'[b] = DOMAIN heap[b]
  /\ \A i \in DOMAIN heap[b] : i # p => heap'[b][i] = heap[b][i]
  /\ heap'[b][p].key \in {heap[b][p].key, s}
  /\ heap'[b][p].imp = v

BucketsStay == \A c \in Classes : cache'[c].buckets = cache[c].buckets

LEMMA WriteCurrent ==
  ASSUME Safe, Room, Current, NEW t \in Threads, Private(t), Apart(t),
         FieldsOk', UNCHANGED <<methods, before>>, Filling(t),
         NEW c \in Classes, NEW s, NEW v, NEW b \in Blocks, NEW p,
         c = msg[t].cls, s = msg[t].sel, v = msg[t].imp,
         b = cache[c].buckets, b # Empty, Writes(b, p, s, v), BucketsStay,
         ThreadOk(t)'
  PROVE  Current'
<1>1. /\ v = Effective(before, c, s) /\ methods = before
      /\ \A u \in Threads \ {t} : ~ Altering(u) /\ ~ Filling(u)
  <2>1. FillOk(t)
    BY DEF Current, ThreadOk
  <2> QED BY <2>1, NobodyElse DEF FillOk
<1>2. ASSUME NEW d \in Classes PROVE CacheOk(d)'
  <2>0. PICK a : a = cache[d].buckets
    OBVIOUS
  <2>1. CacheOk(d) /\ a \in {Empty} \cup Blocks
    BY <2>0, CacheBuckets DEF Current
  <2>2. cache'[d].buckets = a
    BY <2>0 DEF BucketsStay
  <2>3. CASE d = c
    <3>1. ASSUME NEW i \in Entries(d)'
          PROVE  heap'[b][i].imp = Effective(before, d, heap'[b][i].key)
      <4>0. a = b
        BY <2>0, <2>3
      <4>1. i \in DOMAIN heap'[b] /\ heap'[b][i].key # Nil
        BY <2>2, <3>1, <4>0 DEF Entries
      <4>2. i \in DOMAIN heap[b]
        BY <4>1 DEF Writes
      <4>3. CASE i = p
        <5>1. heap'[b][p].key = s /\ heap'[b][p].imp = v
          BY <4>1, <4>3 DEF Writes
        <5> QED BY <1>1, <2>3, <4>3, <5>1
      <4>4. CASE i # p
        <5>1. heap'[b][i] = heap[b][i]
          BY <4>2, <4>4 DEF Writes
        <5>2. i \in Entries(d)
          BY <2>0, <4>0, <4>1, <4>2, <5>1 DEF Entries
        <5>3. heap[b][i].imp = Effective(before, d, heap[b][i].key)
          BY <2>0, <2>1, <4>0, <5>2 DEF CacheOk
        <5> QED BY <5>1, <5>3
      <4> QED BY <4>3, <4>4
    <3> QED BY <2>0, <2>2, <2>3, <3>1 DEF CacheOk
  <2>4. CASE d # c
    <3>1. a # b
      BY <2>0, <2>4 DEF Safe, BlockInv
    <3>2. a # Empty => heap'[a] = heap[a]
      BY <2>1, <3>1 DEF Writes
    <3> QED BY <2>0, <2>1, <2>2, <3>2 DEF CacheOk, Entries
  <2> QED BY <2>3, <2>4
<1>3. ASSUME NEW u \in Threads \ {t} PROVE ThreadOk(u)'
  <2>1. /\ pc'[u] = pc[u] /\ upd'[u] = upd[u] /\ msg'[u] = msg[u]
        /\ read'[u] = read[u] /\ window'[u] = window[u] /\ ThreadOk(u)
    BY DEF Private, Apart, Current
  <2>2. ~ Altering(u)' /\ ~ Filling(u)'
    BY <1>1, <2>1 DEF Altering, Filling
  <2>3. RuntimeOk(u)' /\ FlushOk(u)' /\ FillOk(u)'
    BY <2>1, <2>2 DEF ThreadOk, RuntimeOk, FlushOk, FillOk, Filling
  <2>4. WindowOk(u)'
    BY <2>1 DEF ThreadOk, WindowOk
  <2>5. ASSUME pc[u] \in Reading, read[u].block # Empty
        PROVE  /\ Good(u, read[u].block)'
               /\ pc[u] = "hit" => KeyAt(read[u])' = msg[u].sel
    <3>1. PICK r, k, j : /\ r = read[u].block /\ k = msg[u].sel
                         /\ j = read[u].idx
      OBVIOUS
    <3>2. /\ Good(u, r) /\ r # Empty
          /\ pc[u] = "hit" => KeyAt(read[u]) = k
      BY <2>1, <2>5, <3>1 DEF ThreadOk, ReadOk
    <3>3. r \in Blocks
      BY <3>1, <3>2 DEF Safe, Types, ReadType, Reads
    <3>4. msg[u].cls = c \/ r # b
      BY <3>2 DEF Good
    <3>5. \A d \in Classes : cache'[d].buckets = r => d = msg[u].cls
      BY <3>2 DEF Good, BucketsStay
    <3>6. \A i \in DOMAIN heap[r] :
            heap[r][i].key = k => heap[r][i].imp \in window[u]
      BY <3>1, <3>2 DEF Good
    <3>7. CASE r # b
      <4>1. heap'[r] = heap[r]
        BY <3>3, <3>7 DEF Writes
      <4>2. Good(u, read[u].block)'
        BY <2>1, <3>1, <3>5, <3>6, <4>1 DEF Good
      <4>3. KeyAt(read[u])' = KeyAt(read[u])
        BY <2>1, <3>1, <4>1 DEF KeyAt
      <4> QED BY <3>1, <3>2, <4>2, <4>3
    <3>8. CASE r = b
      <4>1. msg[u].cls = c /\ k \in Sels /\ k # Nil
        <5>1. msg[u].cls = c
          BY <3>4, <3>8
        <5>2. c # NoClass
          BY ClassesAssumption
        <5>3. k \in Sels
          BY <3>1, <5>1, <5>2 DEF Room, SelsOk
        <5> QED BY <5>1, <5>3, SelsAssumption
      <4>2. heap'[b][p].key = k => v \in window[u]
        <5>1. heap'[b][p].key = k => s = k
          BY <4>1 DEF Writes
        <5>2. Effective(before, c, k) \in window[u]
          BY <2>1, <3>1, <4>1, ClassesAssumption DEF ThreadOk, WindowOk
        <5> QED BY <1>1, <5>1, <5>2
      <4>3. DOMAIN heap'[b] = DOMAIN heap[b]
        BY DEF Writes
      <4>4. ASSUME NEW i \in DOMAIN heap[b], heap'[b][i].key = k
            PROVE  heap'[b][i].imp \in window[u]
        <5>1. CASE i = p
          BY <4>2, <4>4, <5>1 DEF Writes
        <5>2. CASE i # p
          BY <3>6, <3>8, <4>4, <5>2 DEF Writes
        <5> QED BY <5>1, <5>2
      <4>5. Good(u, read[u].block)'
        BY <2>1, <3>1, <3>5, <3>8, <4>3, <4>4 DEF Good
      <4>6. ASSUME NEW i \in DOMAIN heap[b], heap[b][i].key = k
            PROVE  heap'[b][i].key = k
        BY <4>1, <4>6 DEF Writes
      <4>7. pc[u] = "hit" => KeyAt(read[u])' = k
        <5>1. b = read[u].block /\ b # Empty
          BY <3>1, <3>2, <3>8
        <5>2. CASE j \in DOMAIN heap[b]
          BY <2>1, <3>1, <3>2, <4>3, <4>6, <5>1, <5>2 DEF KeyAt
        <5>3. CASE j \notin DOMAIN heap[b]
          BY <2>1, <3>1, <3>2, <4>3, <5>1, <5>3 DEF KeyAt
        <5> QED BY <5>2, <5>3
      <4> QED BY <3>1, <4>5, <4>7
    <3> QED BY <3>7, <3>8
  <2>6. ASSUME pc[u] = "hit" PROVE read[u].block # Empty
    <3>1. ReadOk(u)
      BY <2>1 DEF ThreadOk
    <3> QED BY <2>6, <3>1, HitsSomething
  <2>7. ReadOk(u)'
    BY <2>1, <2>5, <2>6, LabelsAre DEF ReadOk
  <2> QED BY <2>3, <2>4, <2>7 DEF ThreadOk
<1>4. MethodsOk'
  BY <1>1 DEF Current, MethodsOk
<1> QED BY <1>2, <1>3, <1>4 DEF Current

LEMMA SetImpCurrent ==
  ASSUME Safe, Room, Current, NEW t \in Threads, Act(t), SetImp(t)
  PROVE  Current'
<1>0. PICK c, s, b, p, v :
        /\ c = msg[t].cls /\ s = msg[t].sel /\ v = msg[t].imp
        /\ b = cache[c].buckets /\ p = find(b, s)
  OBVIOUS
<1>1. /\ pc[t] = "imp" /\ pc' = [pc EXCEPT ![t] = "key"]
      /\ \E o : cache' = [cache EXCEPT ![c].occupied = o]
      /\ heap' = [heap EXCEPT ![b][p].imp = v]
      /\ UNCHANGED <<methods, runtimeLock, msg, read, upd, before, window>>
  BY <1>0 DEF SetImp, Goto, locks, ghosts
<1>2. pc'[t] = "key" /\ ThreadOk(t) /\ ~ upd[t].lot
  BY <1>1, Known
<1>3. c \in Classes /\ s \in Sels /\ s \in Nat
  BY <1>0, <1>1, WriterSends, SelsAssumption
<1>4. b # Empty /\ b \in Blocks
  BY <1>0, <1>1, <1>3, CacheBuckets DEF Room, WriterOk, Roomy
<1>5. Table(Keys(b), cache[c].mask + 1, cache[c].occupied)
  <2>1. Whole(c)
    BY <1>1, Alone, LabelsAre DEF Whole
  <2> QED BY <1>0, <1>3, <1>4, <2>1 DEF Room, RoomOk
<1>6. p \in DOMAIN heap[b] /\ heap[b][p].key \in {Nil, s}
  BY <1>0, <1>3, <1>4, <1>5, SearchEnds
<1>7. /\ \A a \in Blocks : a # b => heap'[a] = heap[a]
      /\ DOMAIN heap'[b] = DOMAIN heap[b]
      /\ \A i \in DOMAIN heap[b] : i # p => heap'[b][i] = heap[b][i]
      /\ heap'[b][p].key = heap[b][p].key /\ heap'[b][p].imp = v
  <2>1. /\ DOMAIN heap = Blocks
        /\ {"key", "imp"} \subseteq DOMAIN heap[b][p]
    BY <1>4, <1>6
       DEF Safe, Types, HeapType, Room, BucketsOk, Current, FieldsOk
  <2> QED BY <1>1, <1>4, <1>6, <2>1
<1>8. \A d \in Classes : cache'[d].buckets = cache[d].buckets
  BY <1>1 DEF Safe, Types, CacheType, Caches
<1>9. find(b, s)' = p
  <2>1. PICK n : n = cache[c].mask + 1
    OBVIOUS
  <2>2. n \in Nat /\ n > 0 /\ DOMAIN heap[b] = 0..(n - 1)
    <3>1. n \in Nat /\ n > 0
      BY <1>3, <2>1, CacheBuckets
    <3>2. DOMAIN Keys(b) = 0..(n - 1)
      BY <1>5, <2>1 DEF Table
    <3> QED BY <3>1, <3>2 DEF Keys
  <2>3. \A i \in DOMAIN heap[b] : heap'[b][i].key = heap[b][i].key
    BY <1>7
  <2> QED BY <1>0, <1>3, <1>7, <2>2, <2>3, SameFind
<1>10. ThreadOk(t)'
  <2>1. Filling(t) /\ Filling(t)' /\ ~ Altering(t)'
    BY <1>1, <1>2, LabelsAre DEF Filling, Altering
  <2>2. Written(msg[t].cls, msg[t].sel, msg[t].imp)'
    BY <1>0, <1>1, <1>3, <1>6, <1>7, <1>8, <1>9 DEF Written
  <2>3. RuntimeOk(t)' /\ FlushOk(t)' /\ FillOk(t)' /\ ReadOk(t)'
    BY <1>1, <1>2, <2>1, <2>2, LabelsAre
       DEF ThreadOk, RuntimeOk, FlushOk, FillOk, ReadOk
  <2>4. WindowOk(t)'
    BY <1>1, <1>2, SameWindow DEF ThreadOk
  <2> QED BY <2>3, <2>4 DEF ThreadOk
<1>11. Private(t) /\ Apart(t) /\ FieldsOk'
  BY <1>1, PrivateStep, ApartStep, FieldsStep
<1>12. Writes(b, p, s, v)
  BY <1>6, <1>7 DEF Writes
<1>13. BucketsStay
  BY <1>8 DEF BucketsStay
<1>14. Filling(t)
  BY <1>1 DEF Filling
<1> QED BY <1>0, <1>1, <1>3, <1>4, <1>10, <1>11, <1>12, <1>13, <1>14,
           WriteCurrent

LEMMA SetKeyCurrent ==
  ASSUME Safe, Room, Current, NEW t \in Threads, Act(t), SetKey(t)
  PROVE  Current'
<1>0. PICK c, s, b, p, v :
        /\ c = msg[t].cls /\ s = msg[t].sel /\ v = msg[t].imp
        /\ b = cache[c].buckets /\ p = find(b, s)
  OBVIOUS
<1>1. /\ pc[t] = "key" /\ pc' = [pc EXCEPT ![t] = "idle"]
      /\ msg' = [msg EXCEPT ![t] = NoMsg]
      /\ upd' = [upd EXCEPT ![t] = NoUpd]
      /\ heap' = [heap EXCEPT ![b][p].key = s]
      /\ UNCHANGED <<methods, cache, before>>
  BY <1>0 DEF SetKey, End, Goto
<1>2. /\ pc'[t] = "idle" /\ msg'[t] = NoMsg /\ upd'[t] = NoUpd
      /\ ThreadOk(t)
  BY <1>1, Known
<1>3. c \in Classes /\ s \in Sels
  BY <1>0, <1>1, WriterSends
<1>4. b # Empty /\ b \in Blocks
  BY <1>0, <1>1, <1>3, CacheBuckets DEF Room, WriterOk
<1>5. /\ p \in DOMAIN heap[b] /\ heap[b][p].key \in {Nil, s}
      /\ heap[b][p].imp = v
  BY <1>0, <1>1, <1>2 DEF ThreadOk, FillOk, Written
<1>6. /\ \A a \in Blocks : a # b => heap'[a] = heap[a]
      /\ DOMAIN heap'[b] = DOMAIN heap[b]
      /\ \A i \in DOMAIN heap[b] : i # p => heap'[b][i] = heap[b][i]
      /\ heap'[b][p].key = s /\ heap'[b][p].imp = v
  <2>1. /\ DOMAIN heap = Blocks
        /\ {"key", "imp"} \subseteq DOMAIN heap[b][p]
    BY <1>4, <1>5
       DEF Safe, Types, HeapType, Room, BucketsOk, Current, FieldsOk
  <2> QED BY <1>1, <1>4, <1>5, <2>1
<1>7. ThreadOk(t)'
  <2>1. ~ Filling(t)' /\ ~ Altering(t)'
    BY <1>2, LabelsAre DEF Filling, Altering
  <2>2. RuntimeOk(t)' /\ FlushOk(t)' /\ FillOk(t)' /\ ReadOk(t)'
    BY <1>2, <2>1, LabelsAre
       DEF RuntimeOk, FlushOk, FillOk, ReadOk, NoUpd
  <2>3. WindowOk(t)'
    BY <1>2 DEF WindowOk, NoMsg
  <2> QED BY <2>2, <2>3 DEF ThreadOk
<1>8. Private(t) /\ Apart(t) /\ FieldsOk'
  BY <1>1, PrivateStep, ApartStep, FieldsStep
<1>9. Writes(b, p, s, v)
  BY <1>5, <1>6 DEF Writes
<1>10. BucketsStay
  BY <1>1 DEF BucketsStay
<1>11. Filling(t)
  BY <1>1 DEF Filling
<1> QED BY <1>0, <1>1, <1>3, <1>4, <1>7, <1>8, <1>9, <1>10, <1>11,
           WriteCurrent

-----------------------------------------------------------------------------
(* A change begins and ends *)

\* A change makes no difference to the classes it will not flush.
LEMMA ChangeBelow ==
  ASSUME Safe, Room, Current, NEW t \in Threads, Change(t),
         methods = before, NEW c \in Classes \ FlushSet(upd[t]), NEW s
  PROVE  Effective(methods, c, s)' = Effective(before, c, s)
<1>1. upd[t].kind = "add"
  BY DEF FlushSet
<1>2. PICK d : d = upd[t].cls
  OBVIOUS
<1>3. c \notin Subtree(d)
  BY <1>1, <1>2 DEF FlushSet
<1>4. \E v : methods' = [methods EXCEPT ![d][upd[t].sel] = v]
  BY <1>1, <1>2 DEF Change
<1>5. DOMAIN methods = Classes
  BY DEF Current, MethodsOk
<1>6. \A e \in Classes : e # d => methods'[e] = methods[e]
  BY <1>4, <1>5
<1>7. PICK m, n : m = before /\ n = methods'
  OBVIOUS
<1>8. Effective(n, c, s) = Effective(m, c, s)
  BY <1>3, <1>6, <1>7, ChangesBelow
<1> QED BY <1>7, <1>8

\* Every message in progress may run what the change installs.
LEMMA ChangeWindow ==
  ASSUME Safe, Room, Current, NEW t \in Threads, Change(t),
         NEW u \in Threads
  PROVE  /\ window[u] \subseteq window'[u]
         /\ msg[u].cls # NoClass =>
              Effective(methods, msg[u].cls, msg[u].sel)' \in window'[u]
<1>1. msg' = msg
  BY DEF Change
<1>2. WindowOk(u)
  BY DEF Current, ThreadOk
<1>3. CASE upd[t].kind = "flush"
  <2>1. methods' = methods /\ window' = window
    BY <1>3 DEF Change
  <2> QED BY <1>1, <1>2, <2>1 DEF WindowOk
<1>4. CASE upd[t].kind # "flush"
  <2>1. /\ methods' = [methods EXCEPT ![upd[t].cls][upd[t].sel] = nextImp]
        /\ window' = [w \in Threads |->
             IF msg[w].cls = NoClass THEN window[w]
             ELSE window[w] \cup {Effective(methods', msg[w].cls, msg[w].sel)}]
    BY <1>4 DEF Change
  <2> QED BY <1>1, <2>1
<1> QED BY <1>3, <1>4

LEMMA ChangeCurrent ==
  ASSUME Safe, Room, Current, NEW t \in Threads, Act(t), Change(t)
  PROVE  Current'
<1>1. /\ pc[t] = "change" /\ pc' = [pc EXCEPT ![t] = "flushCaches"]
      /\ runtimeLock = NoThread /\ runtimeLock' = t
      /\ UNCHANGED <<cache, heap, msg, read, upd, before>>
  BY DEF Change, Goto
<1>2. /\ pc'[t] = "flushCaches" /\ ThreadOk(t) /\ ~ upd[t].lot
  BY <1>1, Known
<1>3. ASSUME NEW u \in Threads PROVE ~ Altering(u) /\ ~ Filling(u)
  <2>1. RuntimeOk(u)
    BY DEF Current, ThreadOk
  <2> QED BY <1>1, <2>1, ThreadsAssumption DEF RuntimeOk
<1>4. methods = before
  BY <1>3 DEF Current, MethodsOk
<1>5. Altering(t)' /\ ~ Filling(t)'
  BY <1>2, LabelsAre DEF Altering, Filling
<1>6. FieldsOk' /\ Private(t)
  BY FieldsStep, PrivateStep
<1>7. ASSUME NEW u \in Threads \ {t}
      PROVE  pc'[u] = pc[u] /\ ~ Altering(u)' /\ ~ Filling(u)'
  BY <1>1, <1>3, <1>6 DEF Private, Altering, Filling
<1>8. MethodsOk'
  <2>1. DOMAIN methods' = Classes
    <3>1. \/ methods' = methods
          \/ \E c, s, v : methods' = [methods EXCEPT ![c][s] = v]
      BY DEF Change
    <3> QED BY <3>1 DEF Current, MethodsOk
  <2> QED BY <1>5, <2>1 DEF MethodsOk
<1>9. ASSUME NEW c \in Classes PROVE CacheOk(c)'
  BY <1>1 DEF Current, CacheOk, Entries
<1>10. ASSUME NEW u \in Threads PROVE ThreadOk(u)'
  <2>1. ThreadOk(u)
    BY DEF Current
  <2>2. WindowOk(u)'
    BY <1>1, <2>1, ChangeWindow DEF ThreadOk, WindowOk
  <2>3. ReadOk(u)'
    <3>1. pc'[u] \in Reading => pc[u] = pc'[u]
      BY <1>2, <1>7, LabelsAre
    <3>2. pc'[u] = "hit" => pc'[u] \in Reading
      BY LabelsAre
    <3>3. \A b : Good(u, b) => Good(u, b)'
      BY <1>1, ChangeWindow DEF Good
    <3>4. PICK b : b = read[u].block
      OBVIOUS
    <3>5. pc[u] \in Reading /\ b # Empty => Good(u, b)
      BY <2>1, <3>4 DEF ThreadOk, ReadOk
    <3>6. pc[u] \in Reading /\ b # Empty => Good(u, b)'
      BY <3>3, <3>5
    <3>7. KeyAt(read[u])' = KeyAt(read[u])
      BY <1>1 DEF KeyAt
    <3> QED BY <1>1, <2>1, <3>1, <3>2, <3>4, <3>6, <3>7 DEF ThreadOk, ReadOk
  <2>4. CASE u # t
    <3>1. FlushOk(u)'
      BY <1>7, <2>4 DEF FlushOk
    <3>2. RuntimeOk(u)' /\ FillOk(u)'
      BY <1>1, <1>7, <2>1, <2>4
         DEF ThreadOk, RuntimeOk, FillOk, Filling
    <3> QED BY <2>2, <2>3, <3>1, <3>2 DEF ThreadOk
  <2>5. CASE u = t
    <3>1. RuntimeOk(t)'
      BY <1>1, <1>2 DEF RuntimeOk
    <3>2. FillOk(t)'
      BY <1>2, <1>5 DEF FillOk
    <3>3. ASSUME NEW c \in Classes \ FlushSet(upd[t]) PROVE Unaffected(c)'
      <4>1. \A s : Effective(methods, c, s)' = Effective(before, c, s)
        BY <1>4, ChangeBelow
      <4>2. \A s : Effective(methods', c, s) = Effective(before, c, s)
        BY <4>1
      <4> QED BY <1>1, <4>2 DEF Unaffected
    <3>4. FlushOk(t)'
      BY <1>1, <1>2, <3>3 DEF FlushOk, Pending, FlushSet
    <3> QED BY <2>2, <2>3, <2>5, <3>1, <3>2, <3>4 DEF ThreadOk
  <2> QED BY <2>4, <2>5
<1> QED BY <1>6, <1>8, <1>9, <1>10 DEF Current

\* Where every cache is flushed no cache can tell what the change changed.
LEMMA FlushedCurrent ==
  ASSUME Safe, Room, Current, NEW t \in Threads, Act(t), Flushed(t)
  PROVE  Current'
<1>1. /\ pc[t] = "flush" /\ upd[t].left = {} /\ before' = methods
      /\ runtimeLock' = NoThread
      /\ \E l \in {"collectALot", "idle", "lookup"} :
           pc' = [pc EXCEPT ![t] = l]
      /\ upd' = upd \/ upd' = [upd EXCEPT ![t] = NoUpd]
      /\ UNCHANGED <<methods, cache, heap, msg, read, window>>
  BY DEF Flushed, Goto
<1>2. /\ pc'[t] \in {"collectALot", "idle", "lookup"}
      /\ ThreadOk(t) /\ ~ upd[t].lot
  BY <1>1, Known, LabelsAre
<1>3. ~ upd'[t].lot
  BY <1>1, <1>2, Known DEF NoUpd
<1>4. Altering(t)
  BY <1>1 DEF Altering
<1>5. \A u \in Threads \ {t} : ~ Altering(u) /\ ~ Filling(u)
  BY <1>4, NobodyElse
<1>6. FieldsOk' /\ Private(t)
  BY FieldsStep, PrivateStep
<1>7. ASSUME NEW u \in Threads
      PROVE  ~ Altering(u)' /\ ~ Filling(u)'
  <2>1. CASE u = t
    BY <1>2, <2>1, LabelsAre DEF Altering, Filling
  <2>2. CASE u # t
    BY <1>5, <1>6, <2>2 DEF Private, Altering, Filling
  <2> QED BY <2>1, <2>2
<1>8. MethodsOk'
  BY <1>1 DEF Current, MethodsOk
<1>9. ASSUME NEW c \in Classes PROVE CacheOk(c)'
  <2>1. CacheOk(c)
    BY DEF Current
  <2>2. Unaffected(c)
    BY <1>1, <1>2, <1>4 DEF ThreadOk, FlushOk, Pending
  <2> QED BY <1>1, <2>1, <2>2 DEF CacheOk, Unaffected, Entries
<1>10. ASSUME NEW u \in Threads PROVE ThreadOk(u)'
  <2>1. ThreadOk(u)
    BY DEF Current
  <2>2. WindowOk(u)'
    BY <1>1, <2>1 DEF ThreadOk, WindowOk
  <2>3. /\ pc'[u] \in Reading \cup {"hit", "key"} => pc'[u] = pc[u]
        /\ upd'[u].lot => u # t
    BY <1>2, <1>3, <1>6, LabelsAre DEF Private
  <2>4. pc'[u] = "key" => FALSE
    BY <1>7 DEF Filling
  <2>5. FlushOk(u)' /\ FillOk(u)'
    BY <1>7, <2>4 DEF FlushOk, FillOk
  <2>6. RuntimeOk(u)'
    BY <1>6, <1>7, <2>1, <2>3 DEF ThreadOk, RuntimeOk, Private
  <2>7. ReadOk(u)'
    <3>1. PICK b : b = read[u].block
      OBVIOUS
    <3>2. Good(u, b) => Good(u, b)'
      BY <1>1 DEF Good
    <3>3. KeyAt(read[u])' = KeyAt(read[u])
      BY <1>1 DEF KeyAt
    <3> QED BY <1>1, <2>1, <2>3, <3>1, <3>2, <3>3 DEF ThreadOk, ReadOk
  <2> QED BY <2>2, <2>5, <2>6, <2>7 DEF ThreadOk
<1> QED BY <1>6, <1>8, <1>9, <1>10 DEF Current

-----------------------------------------------------------------------------
(* Caches and messages are current *)

LEMMA CurrentInitially == Init => Current
<1> SUFFICES ASSUME Init PROVE Current
  OBVIOUS
<1>1. FieldsOk
  BY DEF Init, FieldsOk, NoMsg, Nil
<1>2. MethodsOk
  BY SelsAssumption DEF Init, MethodsOk
<1>3. ASSUME NEW c \in Classes PROVE CacheOk(c)
  BY DEF Init, CacheOk, Entries
<1>4. ASSUME NEW t \in Threads PROVE ThreadOk(t)
  <2>1. /\ pc[t] = "idle" /\ upd[t] = NoUpd /\ msg[t] = NoMsg
    BY DEF Init
  <2>2. ~ Altering(t) /\ ~ Filling(t)
    BY <2>1, LabelsAre DEF Altering, Filling
  <2>3. RuntimeOk(t) /\ FlushOk(t) /\ FillOk(t) /\ ReadOk(t)
    BY <2>1, <2>2, LabelsAre DEF RuntimeOk, FlushOk, FillOk, ReadOk, NoUpd
  <2>4. WindowOk(t)
    BY <2>1 DEF WindowOk, NoMsg
  <2> QED BY <2>3, <2>4 DEF ThreadOk
<1> QED BY <1>1, <1>2, <1>3, <1>4 DEF Current

LEMMA CurrentStutters ==
  ASSUME Current, UNCHANGED vars
  PROVE  Current'
<1>1. UNCHANGED <<methods, cache, heap, runtimeLock, pc, msg, read, upd,
                  before, window>>
  BY DEF vars, locks, ghosts
<1>2. FieldsOk'
  BY <1>1 DEF Current, FieldsOk
<1>3. ASSUME NEW t \in Threads
      PROVE  /\ Altering(t)' <=> Altering(t)
             /\ Filling(t)' <=> Filling(t)
  BY <1>1 DEF Altering, Filling
<1>4. MethodsOk'
  BY <1>1, <1>3 DEF Current, MethodsOk
<1>5. ASSUME NEW c \in Classes
      PROVE  CacheOk(c)' /\ (Unaffected(c) => Unaffected(c)')
  BY <1>1 DEF Current, CacheOk, Unaffected, Entries
<1>6. ASSUME NEW t \in Threads PROVE ThreadOk(t)'
  <2>1. ThreadOk(t)
    BY DEF Current
  <2>2. RuntimeOk(t)' /\ WindowOk(t)'
    BY <1>1, <1>3, <2>1 DEF ThreadOk, RuntimeOk, WindowOk
  <2>3. FlushOk(t)'
    BY <1>1, <1>3, <1>5, <2>1 DEF ThreadOk, FlushOk, Pending, FlushSet
  <2>4. FillOk(t)'
    BY <1>1, <1>3, <2>1 DEF ThreadOk, FillOk, Written, find, Passed
  <2>5. ReadOk(t)'
    BY <1>1, <2>1 DEF ThreadOk, ReadOk, Good, KeyAt
  <2> QED BY <2>2, <2>3, <2>4, <2>5 DEF ThreadOk
<1> QED BY <1>2, <1>4, <1>5, <1>6 DEF Current

LEMMA CurrentStep ==
  ASSUME Safe, Room, Current, [Next]_vars
  PROVE  Current'
<1>1. CASE UNCHANGED vars
  BY <1>1, CurrentStutters
<1>2. ASSUME NEW t \in Threads, Act(t) PROVE Current'
  BY <1>2, SendCurrent, AsideCurrent, EndCurrent, ReadBucketsCurrent,
     ProbeCurrent, LookUpCurrent, FlushCachesCurrent, EraseCurrent,
     CollectALotCurrent, ScanCurrent, DisposeCurrent, SetMaskCurrent,
     FillCurrent, SetBucketsCurrent, SetImpCurrent, SetKeyCurrent,
     ChangeCurrent, FlushedCurrent DEF Act, Step
<1> QED BY <1>1, <1>2 DEF Next, Act

LEMMA AlwaysCurrent == Spec => [](Safe /\ Room /\ Current)
<1>1. Init => Safe /\ Room /\ Current
  BY SafeInitially, RoomInitially, CurrentInitially
<1>2. Safe /\ Room /\ Current /\ [Next]_vars => Safe' /\ Room' /\ Current'
  BY SafeStep, RoomStep, CurrentStep
<1> QED BY <1>1, <1>2, PTL DEF Spec

(* While no change is being made what is cached for a class is what its    *)
(* method lists and those of its superclasses say, also where it was       *)
(* copied from a superclass's cache or forwards: no flush forgets a        *)
(* subclass, and no cache is filled with an imp that was looked up before  *)
(* the change.                                                             *)
THEOREM CachesStayCurrent == Spec => []CachesAreCurrent
<1>1. Current => CachesAreCurrent
  BY DEF Current, CacheOk, Entries, CachesAreCurrent
<1> QED BY <1>1, AlwaysCurrent, PTL

(* Whatever is filled, grown, erased, collected and changed between two    *)
(* reads of the lock-free reader, the imp it takes from a bucket, and the  *)
(* one that a lookup answers, was in effect at some time since the message *)
(* was sent.                                                               *)
THEOREM DispatchStaysCurrent == Spec => []DispatchIsCurrent
<1>1. Safe /\ Room /\ Current => DispatchIsCurrent
  <2> SUFFICES ASSUME Safe, Room, Current, NEW t \in Threads
               PROVE  /\ pc[t] = "hit" =>
                           heap[read[t].block][read[t].idx].imp \in window[t]
                      /\ msg[t].imp # Nil => msg[t].imp \in window[t]
    BY DEF DispatchIsCurrent
  <2>1. ReadOk(t) /\ WindowOk(t)
    BY DEF Current, ThreadOk
  <2>2. ASSUME pc[t] = "hit"
        PROVE  heap[read[t].block][read[t].idx].imp \in window[t]
    <3>1. /\ read[t].block # Empty
          /\ read[t].idx \in DOMAIN heap[read[t].block]
          /\ heap[read[t].block][read[t].idx].key = msg[t].sel
      BY <2>1, <2>2, HitsSomething
    <3>2. Good(t, read[t].block)
      BY <2>1, <2>2, <3>1, LabelsAre DEF ReadOk
    <3> QED BY <3>1, <3>2 DEF Good
  <2> QED BY <2>1, <2>2 DEF WindowOk
<1> QED BY <1>1, AlwaysCurrent, PTL

===============================================================================
