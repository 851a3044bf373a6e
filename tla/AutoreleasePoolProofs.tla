------------------------ MODULE AutoreleasePoolProofs ------------------------
(***************************************************************************)
(* For pages of any size, and any number of pools, objects and pops inside *)
(* pops: the pages of a thread are what they should be between any two of  *)
(* its steps, no pop loses the place where it stops, the loop over parents *)
(* in releaseUntil never makes a second turn, and the pages, one after the *)
(* other, are one stack.                                                   *)
(***************************************************************************)
EXTENDS AutoreleasePoolRefinement, WellFoundedInduction, TLAPS

-----------------------------------------------------------------------------
(* The inductive invariant *)

\* Where the boundary of a pool is, or will be when the placeholder gets a
\* page.
Place(i) ==
  IF tokens[i] = PlaceholderToken THEN [page |-> 1, slot |-> 1] ELSE tokens[i]

\* The entries up to slot s of page p are not above slot r of page q.
UpTo(p, s, q, r) == p < q \/ (p = q /\ s <= r)

\* The pools are nested as they were pushed, each on a page of its own when
\* debugging.
TokenOrder ==
  /\ \A i, j \in DOMAIN tokens :
       i < j => UpTo(Place(i).page, Place(i).slot,
                     Place(j).page, Place(j).slot - 1)
  /\ DebugPoolAllocation => \A i \in DOMAIN tokens : Place(i).slot = 1

\* Slot s of page p is not below where the pop c stops.  Where the page p may
\* be freed when it becomes empty, the pop stands on an earlier one, or is
\* not the first.
Above(c, p, s) ==
  /\ UpTo(calls[c].page, calls[c].stop, p, s)
  /\ DebugPoolAllocation => calls[c].page < p
  /\ DebugMissingPools => ~(p = 1 /\ s = 0)

\* A pop keeps the pools up to its base, and what was begun later stays above
\* where it stops.
CallOk(c) ==
  /\ calls[c].base <= Len(tokens)
  /\ \A i \in 1..calls[c].base :
       UpTo(Place(i).page, Place(i).slot, calls[c].page, calls[c].stop)
  /\ \A i \in (calls[c].base + 1)..Len(tokens) :
       Above(c, Place(i).page, Place(i).slot - 1)
  /\ \A d \in (c + 1)..Len(calls) :
       /\ calls[c].base <= calls[d].base
       /\ Above(c, calls[d].page, calls[d].stop)
  /\ c < Len(calls) => calls[c].releasing
  /\ calls[c].stop < Capacity
  /\ DebugPoolAllocation => calls[c].stop = 0
  /\ calls[c].exit => c = 1 /\ calls[c].page = 1 /\ calls[c].stop = 0

CallOrder ==
  /\ \A c \in DOMAIN calls : CallOk(c)
  /\ Looping => Len(tokens) = Top.base

\* A page below the hot one is full, but for those that a pool's own page
\* has been put upon.
Packed ==
  /\ ~DebugPoolAllocation => \A page \in 1..(hotPage - 1) : Full(page)
  /\ \A page \in 1..(hotPage - 1) :
       Empty(page) => calls # <<>> /\ calls[1].page <= page
  /\ DebugPoolAllocation =>
       /\ tls # EMPTY_POOL_PLACEHOLDER
       /\ calls = <<>> /\ hotPage # 0 => ~Empty(hotPage)

\* With DebugMissingPools the first entry is a boundary, and it stays until
\* no -dealloc runs any more.
Rooted ==
  DebugMissingPools /\ hotPage # 0 =>
    /\ ~Empty(1) => pages[1][1] = POOL_BOUNDARY
    /\ Empty(1) => Looping /\ hotPage = 1

IInv ==
  /\ PageInv /\ PopsStandFirm
  /\ TokenOrder /\ CallOrder /\ Packed /\ Rooted

\* The page p is the own one of the first pool that was pushed in a -dealloc
\* of the pop c and that is open, or being popped.
OwnPage(c, p) ==
  \/ /\ Len(tokens) > calls[c].base
     /\ tokens[calls[c].base + 1].page = p
  \/ /\ c < Len(calls) /\ calls[c + 1].base = calls[c].base
     /\ calls[c + 1].page = p /\ calls[c + 1].stop = 0

\* An empty page below the hot one has such a page upon it, and a -dealloc
\* that has open pools has one on the hot page.
Explained ==
  DebugPoolAllocation =>
    /\ \A page \in 1..(hotPage - 1) :
         Empty(page) =>
           \E c \in DOMAIN calls :
             calls[c].releasing /\ OwnPage(c, page + 1)
    /\ calls # <<>> /\ Top.releasing /\ Empty(hotPage) =>
         Len(tokens) = Top.base

-----------------------------------------------------------------------------
(* What the invariant says of each page, pool and pop *)

Entry == Objects \cup {POOL_BOUNDARY}

LEMMA PagesTyped ==
  ASSUME TypeOK
  PROVE  /\ pages \in Seq(Seq(Entry)) /\ DOMAIN pages = 1..Len(pages)
         /\ Len(pages) \in Nat /\ Len(pages) <= MaxPages
         /\ \A p \in 1..Len(pages) :
              /\ pages[p] \in Seq(Entry) /\ DOMAIN pages[p] = 1..Len(pages[p])
              /\ Len(pages[p]) \in Nat /\ Len(pages[p]) <= Capacity
              /\ Empty(p) <=> Len(pages[p]) = 0
         /\ hotPage \in Nat /\ hotPage <= Len(pages)
         /\ IF hotPage = 0 THEN tls \in {0, EMPTY_POOL_PLACEHOLDER}
            ELSE tls = hotPage
<1>1. /\ pages \in Seq(Seq(Entry)) /\ Len(pages) <= MaxPages
      /\ tls \in {EMPTY_POOL_PLACEHOLDER} \cup 0..Len(pages)
      /\ \A p \in DOMAIN pages : Len(pages[p]) <= Capacity
  BY DEF TypeOK, Entry
<1>2. DOMAIN pages = 1..Len(pages) /\ Len(pages) \in Nat
  BY <1>1
<1>3. ASSUME NEW p \in 1..Len(pages)
      PROVE  /\ pages[p] \in Seq(Entry) /\ DOMAIN pages[p] = 1..Len(pages[p])
             /\ Len(pages[p]) \in Nat /\ Len(pages[p]) <= Capacity
             /\ Empty(p) <=> Len(pages[p]) = 0
  <2>1. pages[p] \in Seq(Entry)
    BY <1>1, <1>2
  <2>2. pages[p] = <<>> <=> Len(pages[p]) = 0
    BY <2>1
  <2> QED BY <1>1, <1>2, <2>1, <2>2 DEF Empty
<1>4. /\ hotPage \in Nat /\ hotPage <= Len(pages)
      /\ IF hotPage = 0 THEN tls \in {0, EMPTY_POOL_PLACEHOLDER}
         ELSE tls = hotPage
  BY <1>1, <1>2 DEF hotPage, EMPTY_POOL_PLACEHOLDER
<1> QED BY <1>1, <1>2, <1>3, <1>4

LEMMA CallsTyped ==
  ASSUME TypeOK
  PROVE  /\ calls \in Seq(Call) /\ DOMAIN calls = 1..Len(calls)
         /\ Len(calls) \in Nat /\ (calls = <<>> <=> Len(calls) = 0)
         /\ \A c \in 1..Len(calls) :
              /\ calls[c] \in Call
              /\ calls[c].page \in Nat /\ calls[c].page > 0
              /\ calls[c].stop \in Nat /\ calls[c].base \in Nat
              /\ calls[c].releasing \in BOOLEAN /\ calls[c].exit \in BOOLEAN
<1>1. /\ calls \in Seq(Call) /\ Len(calls) \in Nat
      /\ DOMAIN calls = 1..Len(calls)
      /\ calls = <<>> <=> Len(calls) = 0
  BY DEF TypeOK
<1>2. \A c \in 1..Len(calls) : calls[c] \in Call
  BY <1>1
<1>3. \A x \in Call : /\ x.page \in Nat /\ x.page > 0
                      /\ x.stop \in Nat /\ x.base \in Nat
                      /\ x.releasing \in BOOLEAN /\ x.exit \in BOOLEAN
  BY DEF Call
<1> QED BY <1>1, <1>2, <1>3

\* The boundary of an open pool is in its place, but for the first of a
\* thread that has no page.
LEMMA TokensTyped ==
  ASSUME TypeOK, NoBadPop
  PROVE  /\ tokens \in Seq(Token) /\ DOMAIN tokens = 1..Len(tokens)
         /\ Len(tokens) \in Nat /\ (tokens = <<>> <=> Len(tokens) = 0)
         /\ \A i \in 1..Len(tokens) :
              /\ Place(i).page \in Nat /\ Place(i).page > 0
              /\ Place(i).slot \in Nat /\ Place(i).slot > 0
              /\ hotPage # 0 =>
                   /\ Place(i).page <= hotPage
                   /\ Place(i).slot <= Len(pages[Place(i).page])
                   /\ pages[Place(i).page][Place(i).slot] = POOL_BOUNDARY
              /\ hotPage = 0 =>
                   /\ i = 1 /\ tokens[i] = PlaceholderToken
                   /\ tls = EMPTY_POOL_PLACEHOLDER
              /\ IF tokens[i] = PlaceholderToken
                 THEN i = 1 /\ Place(i) = [page |-> 1, slot |-> 1]
                 ELSE Place(i) = tokens[i]
<1>1. /\ tokens \in Seq(Token) /\ DOMAIN tokens = 1..Len(tokens)
      /\ Len(tokens) \in Nat /\ (tokens = <<>> <=> Len(tokens) = 0)
  BY DEF TypeOK
<1>2. /\ hotPage \in Nat /\ hotPage <= Len(pages)
      /\ \A p \in 1..Len(pages) : DOMAIN pages[p] = 1..Len(pages[p])
                                  /\ Len(pages[p]) \in Nat
                                  /\ (pages[p] = <<>> <=> Len(pages[p]) = 0)
  BY PagesTyped DEF Empty
<1>3. ASSUME NEW i \in 1..Len(tokens)
      PROVE  /\ Place(i).page \in Nat /\ Place(i).page > 0
             /\ Place(i).slot \in Nat /\ Place(i).slot > 0
             /\ hotPage # 0 =>
                  /\ Place(i).page <= hotPage
                  /\ Place(i).slot <= Len(pages[Place(i).page])
                  /\ pages[Place(i).page][Place(i).slot] = POOL_BOUNDARY
             /\ hotPage = 0 =>
                  /\ i = 1 /\ tokens[i] = PlaceholderToken
                  /\ tls = EMPTY_POOL_PLACEHOLDER
             /\ IF tokens[i] = PlaceholderToken
                THEN i = 1 /\ Place(i) = [page |-> 1, slot |-> 1]
                ELSE Place(i) = tokens[i]
  <2>1. CASE tokens[i] = PlaceholderToken
    <3>1. /\ Place(i) = [page |-> 1, slot |-> 1]
          /\ Place(i).page = 1 /\ Place(i).slot = 1
      BY <2>1 DEF Place
    <3>2. /\ i = 1
          /\ hotPage = 0 => tls = EMPTY_POOL_PLACEHOLDER
          /\ hotPage # 0 => pages[1] # <<>> /\ pages[1][1] = POOL_BOUNDARY
      BY <1>1, <2>1 DEF NoBadPop, PlaceholderToken, EMPTY_POOL_PLACEHOLDER
    <3> QED BY <1>2, <2>1, <3>1, <3>2
  <2>2. CASE tokens[i] # PlaceholderToken
    <3>1. Place(i) = tokens[i]
      BY <2>2 DEF Place
    <3>2. /\ tokens[i].page \in 1..hotPage
          /\ tokens[i].slot \in DOMAIN pages[tokens[i].page]
          /\ pages[tokens[i].page][tokens[i].slot] = POOL_BOUNDARY
      BY <1>1, <2>2 DEF NoBadPop
    <3> QED BY <1>2, <2>2, <3>1, <3>2
  <2> QED BY <2>1, <2>2
<1> QED BY <1>1, <1>3

\* A thread without a page has no pop in progress.
LEMMA PopsHavePages ==
  ASSUME IInv
  PROVE  /\ hotPage = 0 => calls = <<>> /\ pages = <<>>
         /\ \A c \in 1..Len(calls) :
              /\ calls[c].page \in 1..hotPage
              /\ calls[c].stop <= Len(pages[calls[c].page])
<1>1. \A c \in 1..Len(calls) :
        /\ calls[c].page <= hotPage /\ calls[c].page \in Nat
        /\ calls[c].page > 0
        /\ calls[c].stop <= Len(pages[calls[c].page])
  BY CallsTyped DEF IInv, PageInv, PopsStandFirm
<1>2. hotPage \in Nat
  BY PagesTyped DEF IInv, PageInv
<1>3. hotPage = 0 => calls = <<>>
  <2>1. Len(calls) # 0 => 1 \in 1..Len(calls)
    BY CallsTyped DEF IInv, PageInv
  <2> QED BY <1>1, <1>2, <2>1, CallsTyped DEF IInv, PageInv
<1> QED BY <1>1, <1>2, <1>3 DEF IInv, PageInv, NoPageLeaks

\* There is a boundary in slot s of page p.
Holds(pgs, hot, p, s) ==
  /\ p \in 1..hot /\ s \in DOMAIN pgs[p]
  /\ pgs[p][s] = POOL_BOUNDARY

LEMMA BoundariesStay ==
  ASSUME TypeOK, NoBadPop, tokens' \in Seq(Token), hotPage' \in Nat \ {0},
         \A i \in 1..Len(tokens') :
           \/ /\ i \in 1..Len(tokens) /\ tokens'[i] = tokens[i]
              /\ Holds(pages', hotPage', Place(i).page, Place(i).slot)
           \/ /\ tokens'[i] # PlaceholderToken
              /\ Holds(pages', hotPage', tokens'[i].page, tokens'[i].slot)
  PROVE  NoBadPop'
<1> SUFFICES ASSUME NEW i \in 1..Len(tokens')
             PROVE  \/ /\ tokens'[i] = PlaceholderToken /\ i = 1
                       /\ pages'[1] # <<>> /\ pages'[1][1] = POOL_BOUNDARY
                    \/ /\ tokens'[i].page \in 1..hotPage'
                       /\ tokens'[i].slot \in DOMAIN pages'[tokens'[i].page]
                       /\ pages'[tokens'[i].page][tokens'[i].slot] =
                            POOL_BOUNDARY
  <2>1. DOMAIN tokens' = 1..Len(tokens')
    OBVIOUS
  <2> QED BY <2>1 DEF NoBadPop
<1>1. CASE /\ i \in 1..Len(tokens) /\ tokens'[i] = tokens[i]
           /\ Holds(pages', hotPage', Place(i).page, Place(i).slot)
  <2>1. CASE tokens[i] = PlaceholderToken
    <3>1. i = 1 /\ Place(i) = [page |-> 1, slot |-> 1]
      BY <1>1, <2>1, TokensTyped
    <3>2. 1 \in DOMAIN pages'[1] /\ pages'[1][1] = POOL_BOUNDARY
      BY <1>1, <3>1 DEF Holds
    <3>3. DOMAIN <<>> = {}
      OBVIOUS
    <3>4. pages'[1] # <<>>
      BY <3>2, <3>3
    <3> QED BY <1>1, <2>1, <3>1, <3>2, <3>4
  <2>2. CASE tokens[i] # PlaceholderToken
    <3>1. Place(i) = tokens'[i]
      BY <1>1, <2>2 DEF Place
    <3> QED BY <1>1, <3>1 DEF Holds
  <2> QED BY <2>1, <2>2
<1>2. CASE /\ tokens'[i] # PlaceholderToken
           /\ Holds(pages', hotPage', tokens'[i].page, tokens'[i].slot)
  BY <1>2 DEF Holds
<1> QED BY <1>1, <1>2

\* Pools are forgotten from the last one.
LEMMA Prefix ==
  ASSUME TypeOK, NoBadPop, TokenOrder, debug' = debug,
         NEW k \in 0..Len(tokens), tokens' = SubSeq(tokens, 1, k)
  PROVE  /\ tokens' \in Seq(Token) /\ Len(tokens') = k
         /\ DOMAIN tokens' = 1..k
         /\ \A i \in 1..k : /\ i \in 1..Len(tokens)
                            /\ tokens'[i] = tokens[i] /\ Place(i)' = Place(i)
         /\ TokenOrder'
<1>1. tokens \in Seq(Token) /\ Len(tokens) \in Nat
  BY TokensTyped
<1>2. /\ tokens' \in Seq(Token) /\ Len(tokens') = k
      /\ DOMAIN tokens' = 1..k
      /\ \A i \in 1..k : i \in 1..Len(tokens) /\ tokens'[i] = tokens[i]
  BY <1>1
<1>3. \A i \in 1..k : Place(i)' = Place(i)
  BY <1>2 DEF Place
<1>4. TokenOrder'
  <2>1. ASSUME NEW i \in 1..k, NEW j \in 1..k, i < j
        PROVE  UpTo(Place(i)'.page, Place(i)'.slot,
                    Place(j)'.page, Place(j)'.slot - 1)
    <3>1. i \in DOMAIN tokens /\ j \in DOMAIN tokens
      BY <1>1, <1>2
    <3>2. UpTo(Place(i).page, Place(i).slot, Place(j).page, Place(j).slot - 1)
      BY <2>1, <3>1 DEF TokenOrder
    <3> QED BY <1>3, <3>2
  <2>2. ASSUME DebugPoolAllocation', NEW i \in 1..k
        PROVE  Place(i)'.slot = 1
    <3>1. i \in DOMAIN tokens /\ DebugPoolAllocation
      BY <1>1, <1>2, <2>2 DEF debug
    <3> QED BY <1>3, <3>1 DEF TokenOrder
  <2> QED BY <1>2, <2>1, <2>2 DEF TokenOrder, UpTo
<1> QED BY <1>2, <1>3, <1>4

\* Nothing becomes of the pools.
LEMMA SamePools ==
  ASSUME TypeOK, NoBadPop, TokenOrder, debug' = debug, tokens' = tokens
  PROVE  /\ tokens' \in Seq(Token)
         /\ \A i \in 1..Len(tokens) : Place(i)' = Place(i)
         /\ TokenOrder'
<1>1. tokens' = SubSeq(tokens, 1, Len(tokens)) /\ Len(tokens) \in 0..Len(tokens)
  BY TokensTyped
<1> QED BY <1>1, Prefix

LEMMA EachCall ==
  ASSUME IInv, NEW c \in 1..Len(calls)
  PROVE  CallOk(c)
<1> QED BY CallsTyped DEF IInv, PageInv, CallOrder

\* The innermost pop.
LEMMA TopCall ==
  ASSUME IInv, calls # <<>>
  PROVE  /\ Len(calls) \in Nat /\ Len(calls) \in 1..Len(calls)
         /\ Top = calls[Len(calls)] /\ Top \in Call
         /\ Top.page \in 1..hotPage /\ Top.stop \in Nat
         /\ Top.stop <= Len(pages[Top.page])
         /\ Top.base \in Nat /\ Top.base <= Len(tokens)
         /\ Top.releasing \in BOOLEAN
<1>1. Len(calls) \in Nat /\ Len(calls) \in 1..Len(calls)
  BY CallsTyped DEF IInv, PageInv
<1>2. CallOk(Len(calls))
  BY <1>1, EachCall
<1> QED BY <1>1, <1>2, CallsTyped, PopsHavePages
        DEF Top, CallOk, IInv, PageInv

-----------------------------------------------------------------------------
(* Push and autorelease *)

\* What the page p holds, the boundary that the placeholder stands for
\* included.
Content(p) ==
  IF p <= Len(pages) THEN pages[p]
  ELSE IF tls = EMPTY_POOL_PLACEHOLDER THEN <<POOL_BOUNDARY>> ELSE <<>>

\* The entry goes to the page q.
Added(entry, q) ==
  /\ tls' = q /\ q <= MaxPages
  /\ pages' \in Seq(Seq(Entry))
  /\ Len(pages') = IF q > Len(pages) THEN q ELSE Len(pages)
  /\ \A p \in 1..Len(pages') : p # q => pages'[p] = pages[p]
  /\ pages'[q] = Append(Content(q), entry)

LEMMA AddToAdds ==
  ASSUME TypeOK, NEW entry \in Entry, hotPage # 0,
         NEW q \in {hotPage, hotPage + 1}, AddTo(q, entry)
  PROVE  Added(entry, q)
<1>1. /\ pages \in Seq(Seq(Entry)) /\ Len(pages) \in Nat
      /\ hotPage \in Nat /\ hotPage <= Len(pages)
      /\ \A p \in 1..Len(pages) : pages[p] \in Seq(Entry)
      /\ tls # EMPTY_POOL_PLACEHOLDER
  BY PagesTyped DEF hotPage
<1>2. q \in Nat /\ q > 0 /\ q <= Len(pages) + 1
  BY <1>1
<1>3. CASE q > Len(pages)
  <2>1. PICK s \in Seq(Entry) : s = <<entry>> /\ s = Append(<<>>, entry)
    <3>1. <<entry>> \in Seq(Entry) /\ <<entry>> = Append(<<>>, entry)
      OBVIOUS
    <3> QED BY <3>1
  <2>2. pages' = Append(pages, s) /\ q = Len(pages) + 1
    BY <1>1, <1>2, <1>3, <2>1 DEF AddTo
  <2>3. Content(q) = <<>>
    BY <1>1, <1>2, <1>3 DEF Content
  <2>4. /\ pages' \in Seq(Seq(Entry)) /\ Len(pages') = q /\ pages'[q] = s
        /\ \A p \in 1..Len(pages') : p # q => pages'[p] = pages[p]
    BY <1>1, <2>2
  <2> QED BY <1>3, <2>1, <2>3, <2>4 DEF Added, AddTo
<1>4. CASE q <= Len(pages)
  <2>1. pages' = [pages EXCEPT ![q] = Append(pages[q], entry)]
    BY <1>1, <1>2, <1>4 DEF AddTo
  <2>2. Append(pages[q], entry) \in Seq(Entry)
    BY <1>1, <1>2, <1>4
  <2>3. Content(q) = pages[q]
    BY <1>4 DEF Content
  <2> QED BY <1>1, <1>2, <1>4, <2>1, <2>2, <2>3 DEF Added, AddTo
<1> QED BY <1>1, <1>2, <1>3, <1>4

\* Above the hot page there is none that is full.
LEMMA NextPage ==
  ASSUME TypeOK, ChildrenAreEmpty, NEW entry \in Entry, hotPage # 0,
         autoreleaseFullPage(entry)
  PROVE  Added(entry, hotPage + 1)
<1>1. /\ Len(pages) \in Nat /\ hotPage \in Nat /\ hotPage <= Len(pages)
      /\ Capacity \in Nat /\ Capacity >= 2
  BY PagesTyped, CapacityAssumption
<1>2. PICK page \in (hotPage + 1)..(Len(pages) + 1) :
        /\ \A full \in (hotPage + 1)..(page - 1) : Full(full)
        /\ AddTo(page, entry)
  BY DEF autoreleaseFullPage
<1>3. \A p \in (hotPage + 1)..Len(pages) : ~Full(p)
  BY <1>1 DEF ChildrenAreEmpty, Empty, Full
<1>4. page = hotPage + 1
  <2>1. page > hotPage + 1 => hotPage + 1 \in (hotPage + 1)..(page - 1)
    BY <1>1
  <2>2. page > hotPage + 1 => hotPage + 1 \in (hotPage + 1)..Len(pages)
    BY <1>1
  <2> QED BY <1>1, <1>2, <1>3, <2>1, <2>2
<1> QED BY <1>2, <1>4, AddToAdds

LEMMA FirstPageAdds ==
  ASSUME TypeOK, hotPage = 0, pages = <<>>, NEW entry \in Entry,
         autoreleaseNoPage(entry)
  PROVE  \/ /\ Added(entry, 1)
            /\ DebugMissingPools /\ entry # POOL_BOUNDARY =>
                 tls = EMPTY_POOL_PLACEHOLDER
         \/ entry # POOL_BOUNDARY /\ UNCHANGED <<pages, tls>>
         \/ /\ entry = POOL_BOUNDARY /\ ~DebugPoolAllocation /\ tls = 0
            /\ tls' = EMPTY_POOL_PLACEHOLDER /\ pages' = pages
<1>1. MaxPages \in Nat /\ 1 <= MaxPages /\ Len(pages) = 0
  BY BoundsAssumption
<1>2. ASSUME NEW s \in Seq(Entry), FirstPage(s), s = Append(Content(1), entry)
      PROVE  Added(entry, 1)
  <2>1. pages' = <<s>> /\ tls' = 1
    BY <1>2 DEF FirstPage
  <2> QED BY <1>1, <1>2, <2>1 DEF Added
<1>3. CASE PageForPlaceholder(entry)
  <2>1. Content(1) = <<POOL_BOUNDARY>> /\ tls = EMPTY_POOL_PLACEHOLDER
    BY <1>1, <1>3 DEF Content, PageForPlaceholder
  <2>2. /\ <<POOL_BOUNDARY, entry>> \in Seq(Entry)
        /\ <<POOL_BOUNDARY, entry>> = Append(<<POOL_BOUNDARY>>, entry)
    BY DEF Entry
  <2> QED BY <1>2, <1>3, <2>1, <2>2 DEF PageForPlaceholder
<1>4. CASE /\ tls = 0 /\ FirstPage(<<entry>>)
           /\ IF entry = POOL_BOUNDARY THEN DebugPoolAllocation
              ELSE ~DebugMissingPools
  <2>1. Content(1) = <<>>
    BY <1>1, <1>4 DEF Content, EMPTY_POOL_PLACEHOLDER
  <2>2. <<entry>> \in Seq(Entry) /\ <<entry>> = Append(<<>>, entry)
    OBVIOUS
  <2> QED BY <1>2, <1>4, <2>1, <2>2
<1> QED BY <1>3, <1>4 DEF autoreleaseNoPage

\* The token of the boundary that is the last entry of the page q.
NewToken(q) ==
  tokens' = Append(tokens, [page |-> q, slot |-> Len(pages'[q])])

\* The client adds an entry, perhaps a pool.
Adding(entry, q) ==
  /\ Added(entry, q) /\ UNCHANGED <<debug, calls>> /\ ClientRuns
  /\ \/ q = hotPage /\ hotPage # 0 /\ ~Full(hotPage)
     \/ /\ q = hotPage + 1
        /\ \/ hotPage = 0 \/ Full(hotPage)
           \/ DebugPoolAllocation /\ entry = POOL_BOUNDARY
  /\ hotPage = 0 /\ DebugMissingPools /\ entry # POOL_BOUNDARY =>
       tls = EMPTY_POOL_PLACEHOLDER
  /\ DebugPoolAllocation /\ entry = POOL_BOUNDARY => q = hotPage + 1
  /\ \/ tokens' = tokens
     \/ entry = POOL_BOUNDARY /\ NewToken(q)

LEMMA BeforeAdding ==
  ASSUME IInv, NEW entry \in Entry, NEW q, Adding(entry, q)
  PROVE  /\ q \in Nat /\ q > 0 /\ q <= MaxPages
         /\ IF hotPage = 0 THEN q = 1 ELSE q \in {hotPage, hotPage + 1}
         /\ Content(q) \in Seq(Entry) /\ Len(Content(q)) \in Nat
         /\ Len(Content(q)) < Capacity
         /\ hotPage # 0 /\ q = hotPage => Content(q) = pages[q]
         /\ hotPage # 0 /\ q = hotPage + 1 => Len(Content(q)) = 0
         /\ hotPage = 0 => Content(q) =
              IF tls = EMPTY_POOL_PLACEHOLDER THEN <<POOL_BOUNDARY>> ELSE <<>>
         /\ ~Looping
<1>1. /\ Len(pages) \in Nat /\ hotPage \in Nat /\ hotPage <= Len(pages)
      /\ \A p \in 1..Len(pages) :
           /\ pages[p] \in Seq(Entry) /\ Len(pages[p]) \in Nat
           /\ Len(pages[p]) <= Capacity
           /\ Empty(p) <=> Len(pages[p]) = 0
      /\ IF hotPage = 0 THEN tls \in {0, EMPTY_POOL_PLACEHOLDER}
         ELSE tls = hotPage
  BY PagesTyped DEF IInv, PageInv
<1>2. /\ Capacity \in Nat /\ Capacity >= 2
      /\ hotPage = 0 => Len(pages) = 0
      /\ ~Looping
  BY PopsHavePages, CapacityAssumption DEF Adding, ClientRuns, Looping
<1>3. q \in Nat /\ q > 0 /\ q <= MaxPages
  BY <1>1 DEF Adding, Added
<1>4. IF hotPage = 0 THEN q = 1 ELSE q \in {hotPage, hotPage + 1}
  BY <1>1 DEF Adding
<1>5. CASE hotPage = 0
  <2>1. q > Len(pages)
    BY <1>2, <1>4, <1>5
  <2>2. CASE tls = EMPTY_POOL_PLACEHOLDER
    <3>1. Content(q) = <<POOL_BOUNDARY>>
      BY <1>1, <1>3, <2>1, <2>2 DEF Content
    <3>2. <<POOL_BOUNDARY>> \in Seq(Entry) /\ Len(<<POOL_BOUNDARY>>) = 1
      BY DEF Entry
    <3> HIDE DEF Adding
    <3> QED BY <1>2, <1>3, <1>4, <1>5, <2>2, <3>1, <3>2
  <2>3. CASE tls # EMPTY_POOL_PLACEHOLDER
    <3>1. Content(q) = <<>>
      BY <1>1, <1>3, <2>1, <2>3 DEF Content
    <3>2. <<>> \in Seq(Entry) /\ Len(<<>>) = 0
      OBVIOUS
    <3> QED BY <1>2, <1>3, <1>4, <1>5, <2>3, <3>1, <3>2
  <2> QED BY <2>2, <2>3
<1>6. CASE hotPage # 0 /\ q = hotPage
  <2>1. q \in 1..Len(pages) /\ Content(q) = pages[q]
    BY <1>1, <1>6 DEF Content
  <2>2. ~Full(q)
    BY <1>1, <1>6, <1>2 DEF Adding, Full
  <2>3. Len(pages[q]) < Capacity
    BY <1>1, <1>2, <2>1, <2>2 DEF Full
  <2> QED BY <1>1, <1>2, <1>3, <1>4, <1>6, <2>1, <2>3
<1>7. CASE hotPage # 0 /\ q = hotPage + 1
  <2>1. CASE q <= Len(pages)
    <3>1. q \in 1..Len(pages) /\ q \in (hotPage + 1)..Len(pages)
      BY <1>1, <1>3, <1>7, <2>1
    <3>2. Content(q) = pages[q] /\ Empty(q)
      BY <2>1, <3>1 DEF Content, IInv, PageInv, ChildrenAreEmpty
    <3> QED BY <1>1, <1>2, <1>3, <1>4, <1>7, <3>1, <3>2
  <2>2. CASE q > Len(pages)
    <3>1. tls # EMPTY_POOL_PLACEHOLDER
      BY <1>1, <1>7 DEF EMPTY_POOL_PLACEHOLDER
    <3>2. Content(q) = <<>>
      BY <1>1, <1>3, <2>2, <3>1 DEF Content
    <3>3. <<>> \in Seq(Entry) /\ Len(<<>>) = 0
      OBVIOUS
    <3>4. Content(q) \in Seq(Entry) /\ Len(Content(q)) = 0
      BY <3>2, <3>3
    <3>5. hotPage \in Nat
      BY <1>1
    <3>6. q # hotPage
      BY <1>7, <3>5
    <3> QED BY <1>2, <1>3, <1>4, <1>7, <3>4, <3>6
  <2> QED BY <1>1, <1>3, <2>1, <2>2
<1> QED BY <1>1, <1>4, <1>5, <1>6, <1>7

LEMMA AfterAdding ==
  ASSUME IInv, NEW entry \in Entry, NEW q, Adding(entry, q)
  PROVE  /\ tls' = q /\ hotPage' = q /\ calls' = calls
         /\ debug' = debug
         /\ pages' \in Seq(Seq(Entry)) /\ Len(pages') \in Nat
         /\ Len(pages') = IF q > Len(pages) THEN q ELSE Len(pages)
         /\ Len(pages') <= MaxPages /\ q <= Len(pages')
         /\ \A p \in 1..Len(pages') :
              /\ DOMAIN pages'[p] = 1..Len(pages'[p])
              /\ Len(pages'[p]) \in Nat
              /\ p # q => p \in 1..Len(pages) /\ pages'[p] = pages[p]
         /\ Len(pages'[q]) = Len(Content(q)) + 1
         /\ pages'[q][Len(pages'[q])] = entry
         /\ \A s \in 1..Len(Content(q)) : pages'[q][s] = Content(q)[s]
<1>1. /\ q \in Nat /\ q > 0 /\ q <= MaxPages
      /\ Content(q) \in Seq(Entry) /\ Len(Content(q)) \in Nat
      /\ IF hotPage = 0 THEN q = 1 ELSE q \in {hotPage, hotPage + 1}
  BY BeforeAdding
<1>2. /\ Len(pages) \in Nat /\ hotPage \in Nat /\ hotPage <= Len(pages)
      /\ Len(pages) <= MaxPages
  BY PagesTyped DEF IInv, PageInv
<1>3. /\ tls' = q /\ calls' = calls /\ debug' = debug
      /\ pages' \in Seq(Seq(Entry))
      /\ Len(pages') = IF q > Len(pages) THEN q ELSE Len(pages)
      /\ \A p \in 1..Len(pages') : p # q => pages'[p] = pages[p]
      /\ pages'[q] = Append(Content(q), entry)
  BY DEF Adding, Added
<1>4. hotPage' = q
  BY <1>1, <1>3 DEF hotPage, EMPTY_POOL_PLACEHOLDER
<1>5. Len(pages') \in Nat /\ Len(pages') <= MaxPages /\ q <= Len(pages')
  <2>1. MaxPages \in Nat
    BY BoundsAssumption
  <2> QED BY <1>1, <1>2, <1>3, <2>1
<1>6. ASSUME NEW p \in 1..Len(pages')
      PROVE  /\ DOMAIN pages'[p] = 1..Len(pages'[p]) /\ Len(pages'[p]) \in Nat
             /\ p # q => p \in 1..Len(pages) /\ pages'[p] = pages[p]
  <2>1. pages'[p] \in Seq(Entry)
    BY <1>3, <1>5
  <2>2. p # q => p \in 1..Len(pages)
    BY <1>1, <1>2, <1>3, <1>5
  <2> QED BY <1>3, <2>1, <2>2
<1>7. /\ Len(pages'[q]) = Len(Content(q)) + 1
      /\ pages'[q][Len(pages'[q])] = entry
      /\ \A s \in 1..Len(Content(q)) : pages'[q][s] = Content(q)[s]
  BY <1>1, <1>3
<1> QED BY <1>3, <1>4, <1>5, <1>6, <1>7

\* The places of the pools stay, and the new one is above them.
LEMMA AddingPool ==
  ASSUME IInv, NEW entry \in Entry, NEW q, Adding(entry, q)
  PROVE  /\ tokens' \in Seq(Token) /\ DOMAIN tokens' = 1..Len(tokens')
         /\ Len(tokens') \in {Len(tokens), Len(tokens) + 1}
         /\ \A i \in 1..Len(tokens) :
              tokens'[i] = tokens[i] /\ Place(i)' = Place(i)
         /\ \A k \in 1..Len(tokens') : k > Len(tokens) =>
              /\ entry = POOL_BOUNDARY
              /\ tokens'[k] # PlaceholderToken /\ Place(k)' = tokens'[k]
              /\ tokens'[k].page = q
              /\ tokens'[k].slot = Len(Content(q)) + 1
<1>1. tokens \in Seq(Token) /\ Len(tokens) \in Nat
  BY TokensTyped DEF IInv, PageInv
<1>2. CASE tokens' = tokens
  <2>1. \A k \in 1..Len(tokens') : ~(k > Len(tokens))
    BY <1>1, <1>2
  <2> QED BY <1>1, <1>2, <2>1 DEF Place
<1>3. CASE entry = POOL_BOUNDARY /\ NewToken(q)
  <2>1. PICK new : new = [page |-> q, slot |-> Len(Content(q)) + 1]
    OBVIOUS
  <2>2. /\ q \in 1..MaxPages /\ Len(Content(q)) + 1 \in 1..Capacity
        /\ q # -1
    BY BeforeAdding, CapacityAssumption
  <2>3. new \in Token
    BY <2>1, <2>2 DEF Token
  <2>4. /\ new # PlaceholderToken /\ new.page = q
        /\ new.slot = Len(Content(q)) + 1
    BY <2>1, <2>2 DEF PlaceholderToken, EMPTY_POOL_PLACEHOLDER
  <2>5. tokens' = Append(tokens, new)
    BY <1>3, <2>1, AfterAdding DEF NewToken
  <2>6. /\ tokens' \in Seq(Token) /\ DOMAIN tokens' = 1..Len(tokens')
        /\ Len(tokens') = Len(tokens) + 1
        /\ \A i \in 1..Len(tokens) : tokens'[i] = tokens[i]
        /\ tokens'[Len(tokens) + 1] = new
    BY <1>1, <2>3, <2>5
  <2>7. \A i \in 1..Len(tokens) : Place(i)' = Place(i)
    BY <2>6 DEF Place
  <2>8. ASSUME NEW k \in 1..Len(tokens'), k > Len(tokens)
        PROVE  tokens'[k] = new /\ Place(k)' = new
    <3>1. k = Len(tokens) + 1
      BY <1>1, <2>6, <2>8
    <3> QED BY <2>4, <2>6, <3>1 DEF Place
  <2> QED BY <1>3, <2>4, <2>6, <2>7, <2>8
<1> QED BY <1>2, <1>3 DEF Adding

LEMMA AddingTypes ==
  ASSUME IInv, NEW entry \in Entry, NEW q, Adding(entry, q)
  PROVE  TypeOK' /\ ChildrenAreEmpty' /\ OneSparePage' /\ NoPageLeaks'
<1>1. /\ Len(pages) \in Nat /\ hotPage \in Nat /\ hotPage <= Len(pages)
      /\ \A p \in 1..Len(pages) :
           Len(pages[p]) \in Nat /\ Len(pages[p]) <= Capacity
  BY PagesTyped DEF IInv, PageInv
<1>2. /\ q \in Nat /\ q > 0
      /\ IF hotPage = 0 THEN q = 1 ELSE q \in {hotPage, hotPage + 1}
      /\ Len(Content(q)) \in Nat /\ Len(Content(q)) < Capacity
      /\ hotPage # 0 /\ q = hotPage => Content(q) = pages[q]
      /\ Capacity \in Nat
  BY BeforeAdding, CapacityAssumption
<1>3. /\ tls' = q /\ hotPage' = q /\ calls' = calls /\ debug' = debug
      /\ pages' \in Seq(Seq(Entry)) /\ Len(pages') \in Nat
      /\ Len(pages') = IF q > Len(pages) THEN q ELSE Len(pages)
      /\ Len(pages') <= MaxPages /\ q <= Len(pages')
      /\ \A p \in 1..Len(pages') : p # q =>
           p \in 1..Len(pages) /\ pages'[p] = pages[p]
      /\ Len(pages'[q]) = Len(Content(q)) + 1
  BY AfterAdding
<1>4. TypeOK'
  <2>1. ASSUME NEW p \in 1..Len(pages')
        PROVE  Len(pages'[p]) <= Capacity
    <3>1. CASE p = q
      BY <1>2, <1>3, <3>1
    <3>2. CASE p # q
      BY <1>1, <1>3, <3>2
    <3> QED BY <3>1, <3>2
  <2>2. tls' \in {EMPTY_POOL_PLACEHOLDER} \cup 0..Len(pages')
    BY <1>2, <1>3
  <2>3. debug' \in BOOLEAN \X BOOLEAN /\ calls' \in Seq(Call)
    BY <1>3 DEF IInv, PageInv, TypeOK
  <2>4. tokens' \in Seq(Token)
    BY AddingPool
  <2>5. DOMAIN pages' = 1..Len(pages')
    BY <1>3
  <2> QED BY <1>3, <2>1, <2>2, <2>3, <2>4, <2>5 DEF TypeOK, Entry
<1>5. ChildrenAreEmpty'
  <2> SUFFICES ASSUME NEW p \in (q + 1)..Len(pages') PROVE Empty(p)'
    BY <1>3 DEF ChildrenAreEmpty
  <2>1. p \in 1..Len(pages') /\ p # q
    BY <1>2, <1>3
  <2>2. p \in 1..Len(pages) /\ pages'[p] = pages[p]
    BY <1>3, <2>1
  <2>3. p \in (hotPage + 1)..Len(pages)
    BY <1>1, <1>2, <2>2
  <2> QED BY <2>2, <2>3 DEF IInv, PageInv, ChildrenAreEmpty, Empty
<1>6. OneSparePage'
  <2> SUFFICES ASSUME calls = <<>>
               PROVE  IF Len(pages'[q]) < Capacity \div 2
                      THEN Len(pages') = q
                      ELSE Len(pages') \in {q, q + 1}
    BY <1>3 DEF OneSparePage, lessThanHalfFull
  <2>1. CASE hotPage = 0
    <3>1. Len(pages) = 0
      BY <2>1, PopsHavePages
    <3> QED BY <1>2, <1>3, <2>1, <3>1
  <2>2. CASE hotPage # 0
    <3>1. IF Len(pages[hotPage]) < Capacity \div 2
          THEN Len(pages) = hotPage
          ELSE Len(pages) \in {hotPage, hotPage + 1}
      BY <2>2 DEF IInv, PageInv, OneSparePage, lessThanHalfFull
    <3>2. CASE q = hotPage
      <4>1. Len(pages') = Len(pages)
        BY <1>1, <1>3, <3>2
      <4>2. Len(pages'[q]) = Len(pages[q]) + 1 /\ Len(pages[q]) \in Nat
        BY <1>1, <1>2, <1>3, <2>2, <3>2
      <4>3. Capacity \div 2 \in Nat
        BY <1>2
      <4>4. Len(pages') \in {q, q + 1}
        BY <3>1, <3>2, <4>1
      <4>5. Len(pages[q]) + 1 < Capacity \div 2 =>
              Len(pages[q]) < Capacity \div 2
        BY <4>2, <4>3
      <4> QED BY <3>1, <3>2, <4>1, <4>2, <4>4, <4>5
    <3>3. CASE q = hotPage + 1
      <4>1. Len(pages) \in {hotPage, hotPage + 1}
        BY <3>1
      <4>2. Len(pages') = q
        BY <1>1, <1>3, <3>3, <4>1
      <4> QED BY <4>2
    <3> QED BY <1>2, <2>2, <3>2, <3>3
  <2> QED BY <2>1, <2>2
<1>7. NoPageLeaks'
  BY <1>2, <1>3 DEF NoPageLeaks
<1> QED BY <1>4, <1>5, <1>6, <1>7

\* What is below the hot page stays, and what is on it stays in front.
LEMMA AddingKeeps ==
  ASSUME IInv, NEW entry \in Entry, NEW q, Adding(entry, q),
         NEW p \in 1..hotPage
  PROVE  /\ p \in 1..Len(pages) /\ p \in 1..Len(pages') /\ p <= q
         /\ Len(pages[p]) \in Nat /\ Len(pages'[p]) \in Nat
         /\ Len(pages[p]) <= Len(pages'[p])
         /\ p # q => pages'[p] = pages[p]
         /\ p = q => pages[p] = Content(q)
         /\ \A s \in 1..Len(pages[p]) : pages'[p][s] = pages[p][s]
<1>1. /\ Len(pages) \in Nat /\ hotPage \in Nat /\ hotPage <= Len(pages)
      /\ \A r \in 1..Len(pages) : Len(pages[r]) \in Nat
  BY PagesTyped DEF IInv, PageInv
<1>2. /\ q \in Nat
      /\ IF hotPage = 0 THEN q = 1 ELSE q \in {hotPage, hotPage + 1}
      /\ hotPage # 0 /\ q = hotPage => Content(q) = pages[q]
  BY BeforeAdding
<1>3. /\ Len(pages') \in Nat /\ q <= Len(pages')
      /\ \A r \in 1..Len(pages') : /\ Len(pages'[r]) \in Nat
                                   /\ r # q => pages'[r] = pages[r]
      /\ Len(pages'[q]) = Len(Content(q)) + 1
      /\ \A s \in 1..Len(Content(q)) : pages'[q][s] = Content(q)[s]
  BY AfterAdding
<1>4. /\ p \in 1..Len(pages) /\ p \in 1..Len(pages') /\ p <= q
      /\ hotPage # 0
  BY <1>1, <1>2, <1>3
<1>5. CASE p = q
  <2>1. q = hotPage /\ pages[p] = Content(q)
    BY <1>1, <1>2, <1>4, <1>5
  <2> QED BY <1>1, <1>3, <1>4, <1>5, <2>1
<1>6. CASE p # q
  BY <1>1, <1>3, <1>4, <1>6
<1> QED BY <1>5, <1>6

LEMMA AddingBoundaries ==
  ASSUME IInv, NEW entry \in Entry, NEW q, Adding(entry, q)
  PROVE  NoBadPop'
<1> SUFFICES ASSUME NEW i \in 1..Len(tokens')
             PROVE  \/ /\ i \in 1..Len(tokens) /\ tokens'[i] = tokens[i]
                       /\ Holds(pages', q, Place(i).page, Place(i).slot)
                    \/ /\ tokens'[i] # PlaceholderToken
                       /\ Holds(pages', q, tokens'[i].page, tokens'[i].slot)
  <2>1. hotPage' = q /\ q \in Nat \ {0}
    BY BeforeAdding, AfterAdding
  <2>2. tokens' \in Seq(Token)
    BY AddingPool
  <2> QED BY <2>1, <2>2, BoundariesStay DEF IInv, PageInv
<1>1. Len(tokens) \in Nat /\ Len(tokens') \in {Len(tokens), Len(tokens) + 1}
  BY AddingPool, TokensTyped DEF IInv, PageInv
<1>2. /\ q \in Nat /\ q > 0 /\ Len(Content(q)) \in Nat
      /\ q <= Len(pages') /\ Len(pages') \in Nat
      /\ DOMAIN pages'[q] = 1..Len(pages'[q])
      /\ Len(pages'[q]) = Len(Content(q)) + 1
      /\ pages'[q][Len(pages'[q])] = entry
      /\ \A s \in 1..Len(Content(q)) : pages'[q][s] = Content(q)[s]
  BY BeforeAdding, AfterAdding
<1>3. CASE i > Len(tokens)
  <2>1. /\ entry = POOL_BOUNDARY /\ tokens'[i] # PlaceholderToken
        /\ tokens'[i].page = q /\ tokens'[i].slot = Len(Content(q)) + 1
    BY <1>3, AddingPool
  <2> QED BY <1>2, <2>1 DEF Holds
<1>4. CASE i <= Len(tokens)
  <2>1. i \in 1..Len(tokens) /\ tokens'[i] = tokens[i]
    BY <1>1, <1>4, AddingPool
  <2>2. PICK p, s : p = Place(i).page /\ s = Place(i).slot
    OBVIOUS
  <2>3. /\ p \in Nat /\ p > 0 /\ s \in Nat /\ s > 0
        /\ hotPage # 0 =>
             /\ p <= hotPage /\ s <= Len(pages[p])
             /\ pages[p][s] = POOL_BOUNDARY
        /\ hotPage = 0 =>
             /\ tls = EMPTY_POOL_PLACEHOLDER
             /\ Place(i) = [page |-> 1, slot |-> 1]
    BY <2>1, <2>2, TokensTyped DEF IInv, PageInv
  <2>4. CASE hotPage = 0
    <3>1. p = 1 /\ s = 1 /\ q = 1 /\ Content(q) = <<POOL_BOUNDARY>>
      BY <2>2, <2>3, <2>4, BeforeAdding
    <3>2. Len(Content(q)) = 1 /\ Content(q)[1] = POOL_BOUNDARY
      BY <3>1
    <3>3. 1 \in DOMAIN pages'[1] /\ pages'[1][1] = POOL_BOUNDARY
      BY <1>2, <3>1, <3>2
    <3>4. Holds(pages', q, p, s)
      BY <3>1, <3>3 DEF Holds
    <3> QED BY <2>1, <2>2, <3>4
  <2>5. CASE hotPage # 0
    <3>1. p \in 1..hotPage
      BY <2>3, <2>5, PagesTyped DEF IInv, PageInv
    <3>2. /\ p \in 1..Len(pages') /\ p <= q
          /\ Len(pages[p]) \in Nat /\ Len(pages'[p]) \in Nat
          /\ Len(pages[p]) <= Len(pages'[p])
          /\ \A r \in 1..Len(pages[p]) : pages'[p][r] = pages[p][r]
          /\ DOMAIN pages'[p] = 1..Len(pages'[p])
      BY <3>1, AddingKeeps, AfterAdding
    <3>3. s \in 1..Len(pages[p]) /\ s \in 1..Len(pages'[p]) /\ p \in 1..q
      BY <1>2, <2>3, <2>5, <3>2
    <3>4. pages'[p][s] = POOL_BOUNDARY
      BY <2>3, <2>5, <3>2, <3>3
    <3>5. Holds(pages', q, p, s)
      BY <3>2, <3>3, <3>4 DEF Holds
    <3> QED BY <2>1, <2>2, <3>5
  <2> QED BY <2>4, <2>5
<1> QED BY <1>1, <1>3, <1>4

LEMMA AddingPops ==
  ASSUME IInv, NEW entry \in Entry, NEW q, Adding(entry, q)
  PROVE  PopsStandFirm'
<1> SUFFICES ASSUME NEW c \in 1..Len(calls)
             PROVE  /\ calls[c].page <= q
                    /\ calls[c].stop <= Len(pages'[calls[c].page])
  <2>1. hotPage' = q /\ calls' = calls
    BY AfterAdding
  <2>2. DOMAIN calls = 1..Len(calls)
    BY CallsTyped DEF IInv, PageInv
  <2> QED BY <2>1, <2>2 DEF PopsStandFirm
<1>1. PICK p, s : p = calls[c].page /\ s = calls[c].stop
  OBVIOUS
<1>2. p \in 1..hotPage /\ s <= Len(pages[p]) /\ s \in Nat
  BY <1>1, PopsHavePages, CallsTyped DEF IInv, PageInv
<1>3. /\ p <= q /\ Len(pages[p]) \in Nat /\ Len(pages'[p]) \in Nat
      /\ Len(pages[p]) <= Len(pages'[p])
  BY <1>2, AddingKeeps
<1>4. s <= Len(pages'[p])
  BY <1>2, <1>3
<1> QED BY <1>1, <1>3, <1>4

LEMMA AddingOrder ==
  ASSUME IInv, NEW entry \in Entry, NEW q, Adding(entry, q)
  PROVE  TokenOrder'
<1>1. Len(tokens) \in Nat /\ Len(tokens') \in {Len(tokens), Len(tokens) + 1}
  BY AddingPool, TokensTyped DEF IInv, PageInv
<1>d. DOMAIN tokens = 1..Len(tokens) /\ DOMAIN tokens' = 1..Len(tokens')
  BY AddingPool, TokensTyped DEF IInv, PageInv
<1>2. ASSUME NEW i \in 1..Len(tokens'), i > Len(tokens)
      PROVE  /\ Place(i)'.page = q /\ Place(i)'.slot = Len(Content(q)) + 1
             /\ entry = POOL_BOUNDARY
  BY <1>2, AddingPool
<1>3. ASSUME NEW i \in 1..Len(tokens'), NEW j \in 1..Len(tokens'), i < j
      PROVE  UpTo(Place(i)'.page, Place(i)'.slot,
                  Place(j)'.page, Place(j)'.slot - 1)
  <2>1. i \in 1..Len(tokens) /\ Place(i)' = Place(i)
    <3>1. i \in 1..Len(tokens)
      BY <1>1, <1>3
    <3> QED BY <3>1, AddingPool
  <2>2. CASE j <= Len(tokens)
    <3>1. j \in 1..Len(tokens)
      BY <1>1, <2>2
    <3>2. Place(j)' = Place(j)
      BY <3>1, AddingPool
    <3> QED BY <1>d, <1>3, <2>1, <3>1, <3>2 DEF IInv, TokenOrder
  <2>3. CASE j > Len(tokens)
    <3>1. Place(j)'.page = q /\ Place(j)'.slot = Len(Content(q)) + 1
      BY <1>2, <2>3
    <3>2. UpTo(Place(i).page, Place(i).slot, q, Len(Content(q)))
      <4>1. PICK p, s : p = Place(i).page /\ s = Place(i).slot
        OBVIOUS
      <4>2. /\ p \in Nat /\ p > 0 /\ s \in Nat
            /\ hotPage # 0 => p <= hotPage /\ s <= Len(pages[p])
            /\ hotPage = 0 =>
                 /\ tls = EMPTY_POOL_PLACEHOLDER
                 /\ Place(i) = [page |-> 1, slot |-> 1]
        BY <2>1, <4>1, TokensTyped DEF IInv, PageInv
      <4>3. CASE hotPage = 0
        <5>1. p = 1 /\ s = 1 /\ q = 1 /\ Content(q) = <<POOL_BOUNDARY>>
          BY <4>1, <4>2, <4>3, BeforeAdding
        <5>2. Len(Content(q)) = 1
          BY <5>1
        <5> QED BY <4>1, <5>1, <5>2 DEF UpTo
      <4>4. CASE hotPage # 0
        <5>1. p \in 1..hotPage /\ q \in Nat
          BY <4>2, <4>4, PagesTyped, BeforeAdding DEF IInv, PageInv
        <5>2. p <= q /\ (p = q => pages[p] = Content(q))
          BY <5>1, AddingKeeps
        <5>3. p < q \/ (p = q /\ s <= Len(Content(q)))
          BY <4>2, <4>4, <5>1, <5>2
        <5> QED BY <4>1, <5>3 DEF UpTo
      <4> QED BY <4>3, <4>4
    <3>3. Len(Content(q)) \in Nat
      BY BeforeAdding
    <3>4. Place(j)'.slot - 1 = Len(Content(q))
      BY <3>1, <3>3
    <3> QED BY <2>1, <3>1, <3>2, <3>4 DEF UpTo
  <2> QED BY <1>1, <2>2, <2>3
<1>4. ASSUME DebugPoolAllocation, NEW i \in 1..Len(tokens')
      PROVE  Place(i)'.slot = 1
  <2>1. CASE i <= Len(tokens)
    <3>1. i \in 1..Len(tokens)
      BY <1>1, <2>1
    <3>2. Place(i)' = Place(i)
      BY <3>1, AddingPool
    <3> QED BY <1>d, <1>4, <3>1, <3>2 DEF IInv, TokenOrder
  <2>2. CASE i > Len(tokens)
    <3>1. q = hotPage + 1
      BY <1>2, <1>4, <2>2 DEF Adding
    <3>2. Len(Content(q)) = 0
      <4>1. CASE hotPage = 0
        <5>1. tls # EMPTY_POOL_PLACEHOLDER
          BY <1>4 DEF IInv, Packed
        <5>2. Content(q) = <<>>
          BY <4>1, <5>1, BeforeAdding
        <5> QED BY <5>2
      <4>2. CASE hotPage # 0
        BY <3>1, <4>2, BeforeAdding
      <4> QED BY <4>1, <4>2
    <3> QED BY <1>2, <2>2, <3>2
  <2> QED BY <1>1, <2>1, <2>2
<1>5. debug' = debug
  BY AfterAdding
<1> QED BY <1>d, <1>3, <1>4, <1>5 DEF TokenOrder, UpTo, debug

LEMMA AddingCalls ==
  ASSUME IInv, NEW entry \in Entry, NEW q, Adding(entry, q)
  PROVE  CallOrder'
<1>1. Len(tokens) \in Nat /\ Len(tokens') \in {Len(tokens), Len(tokens) + 1}
  BY AddingPool, TokensTyped DEF IInv, PageInv
<1>2. calls' = calls /\ debug' = debug /\ ~Looping
  BY BeforeAdding, AfterAdding
<1>3. ASSUME NEW c \in 1..Len(calls)
      PROVE  CallOk(c)'
  <2>1. CallOk(c) /\ calls[c].base \in Nat /\ calls[c].base <= Len(tokens)
    BY EachCall, CallsTyped DEF IInv, PageInv, CallOk
  <2>2. calls[c].base <= Len(tokens')
    BY <1>1, <2>1
  <2>3. ASSUME NEW i \in 1..calls[c].base
        PROVE  UpTo(Place(i)'.page, Place(i)'.slot,
                    calls[c].page, calls[c].stop)
    <3>1. i \in 1..Len(tokens)
      BY <1>1, <2>1
    <3>2. Place(i)' = Place(i)
      BY <3>1, AddingPool
    <3> QED BY <2>1, <3>2 DEF CallOk
  <2>4. ASSUME NEW i \in (calls[c].base + 1)..Len(tokens')
        PROVE  Above(c, Place(i)'.page, Place(i)'.slot - 1)
    <3>1. CASE i <= Len(tokens)
      <4>1. i \in 1..Len(tokens) /\ i \in (calls[c].base + 1)..Len(tokens)
        BY <1>1, <2>1, <3>1
      <4>2. Place(i)' = Place(i)
        BY <4>1, AddingPool
      <4> QED BY <2>1, <4>1, <4>2 DEF CallOk
    <3>2. CASE i > Len(tokens)
      <4>1. i \in 1..Len(tokens')
        BY <1>1, <2>1
      <4>2. /\ entry = POOL_BOUNDARY /\ Len(Content(q)) \in Nat
            /\ Place(i)'.page = q /\ Place(i)'.slot = Len(Content(q)) + 1
        BY <3>2, <4>1, AddingPool, BeforeAdding
      <4>3. Place(i)'.slot - 1 = Len(Content(q))
        BY <4>2
      <4>4. PICK p, s : p = calls[c].page /\ s = calls[c].stop
        OBVIOUS
      <4>5. p \in 1..hotPage /\ s <= Len(pages[p])
        BY <4>4, PopsHavePages
      <4>6. hotPage \in Nat /\ hotPage # 0 /\ q \in Nat
            /\ q \in {hotPage, hotPage + 1}
        BY <4>5, BeforeAdding, PagesTyped DEF IInv, PageInv
      <4>7. p <= q /\ (p = q => pages[p] = Content(q))
        BY <4>5, AddingKeeps
      <4>8. UpTo(p, s, q, Len(Content(q)))
        BY <4>5, <4>6, <4>7 DEF UpTo
      <4>9. DebugPoolAllocation => p < q
        BY <4>2, <4>5, <4>6 DEF Adding
      <4>10. DebugMissingPools => ~(q = 1 /\ Len(Content(q)) = 0)
        <5>1. ASSUME DebugMissingPools, q = 1
              PROVE  Len(Content(q)) # 0
          <6>1. hotPage = 1 /\ Content(q) = pages[1]
            BY <4>6, <5>1, BeforeAdding
          <6>2. ~Empty(1)
            BY <1>2, <5>1, <6>1 DEF IInv, Rooted
          <6>3. 1 \in 1..Len(pages)
            BY <6>1, PagesTyped DEF IInv, PageInv
          <6> QED BY <6>1, <6>2, <6>3, PagesTyped DEF IInv, PageInv
        <5> QED BY <5>1
      <4> QED BY <4>2, <4>3, <4>4, <4>8, <4>9, <4>10 DEF Above
    <3> QED BY <1>1, <2>1, <3>1, <3>2
  <2>5. UNCHANGED <<DebugPoolAllocation, DebugMissingPools>>
    BY <1>2 DEF debug
  <2> QED BY <1>2, <2>1, <2>2, <2>3, <2>4, <2>5 DEF CallOk, Above, UpTo
<1>4. DOMAIN calls = 1..Len(calls)
  BY CallsTyped DEF IInv, PageInv
<1>5. ~Looping'
  BY <1>2 DEF Looping, Top
<1> QED BY <1>2, <1>3, <1>4, <1>5 DEF CallOrder

LEMMA AddingPacked ==
  ASSUME IInv, NEW entry \in Entry, NEW q, Adding(entry, q)
  PROVE  Packed'
<1>1. /\ hotPage \in Nat /\ q \in Nat /\ q > 0
      /\ IF hotPage = 0 THEN q = 1 ELSE q \in {hotPage, hotPage + 1}
      /\ tls' = q /\ hotPage' = q /\ calls' = calls
      /\ Capacity \in Nat /\ Capacity >= 2
  BY BeforeAdding, AfterAdding, PagesTyped, CapacityAssumption
     DEF IInv, PageInv
<1>2. UNCHANGED <<DebugPoolAllocation, DebugMissingPools>>
  BY AfterAdding DEF debug
<1>3. ASSUME NEW p \in 1..(q - 1)
      PROVE  /\ p \in 1..hotPage /\ pages'[p] = pages[p]
             /\ p \in 1..(hotPage - 1) \/ (p = hotPage /\ q = hotPage + 1)
  <2>1. p \in 1..hotPage /\ p # q
    BY <1>1
  <2>2. pages'[p] = pages[p]
    BY <2>1, AddingKeeps
  <2>3. p \in 1..(hotPage - 1) \/ (p = hotPage /\ q = hotPage + 1)
    BY <1>1, <2>1
  <2> QED BY <2>1, <2>2, <2>3
<1>4. ASSUME ~DebugPoolAllocation, NEW p \in 1..(q - 1)
      PROVE  Full(p)'
  <2>1. CASE p \in 1..(hotPage - 1)
    BY <1>3, <1>4, <2>1 DEF IInv, Packed, Full
  <2>2. CASE p = hotPage /\ q = hotPage + 1
    <3>1. Full(hotPage)
      BY <1>1, <1>3, <1>4, <2>2 DEF Adding
    <3> QED BY <1>3, <2>2, <3>1 DEF Full
  <2> QED BY <1>3, <2>1, <2>2
<1>5. ASSUME NEW p \in 1..(q - 1), Empty(p)'
      PROVE  calls # <<>> /\ calls[1].page <= p
  <2>1. Empty(p)
    BY <1>3, <1>5 DEF Empty
  <2>2. CASE p \in 1..(hotPage - 1)
    BY <2>1, <2>2 DEF IInv, Packed
  <2>3. CASE p = hotPage /\ q = hotPage + 1
    <3>1. ~Full(hotPage)
      <4>1. p \in 1..Len(pages)
        BY <1>3, AddingKeeps
      <4>2. Len(pages[p]) = 0
        BY <2>1, <4>1, PagesTyped DEF IInv, PageInv
      <4> QED BY <1>1, <2>3, <4>2 DEF Full
    <3>2. DebugPoolAllocation /\ hotPage # 0
      BY <1>1, <1>3, <2>3, <3>1 DEF Adding
    <3>3. calls # <<>>
      BY <2>1, <2>3, <3>2 DEF IInv, Packed
    <3>4. 1 \in 1..Len(calls)
      BY <3>3, CallsTyped DEF IInv, PageInv
    <3>5. calls[1].page \in 1..hotPage
      BY <3>4, PopsHavePages
    <3> QED BY <1>1, <2>3, <3>3, <3>5
  <2> QED BY <1>3, <2>2, <2>3
<1>6. tls' # EMPTY_POOL_PLACEHOLDER /\ ~Empty(q)'
  <2>1. Len(pages'[q]) # 0
    BY BeforeAdding, AfterAdding
  <2>2. Len(<<>>) = 0
    OBVIOUS
  <2>3. pages'[q] # <<>>
    BY <2>1, <2>2
  <2> QED BY <1>1, <2>3 DEF Empty, EMPTY_POOL_PLACEHOLDER
<1> QED BY <1>1, <1>2, <1>4, <1>5, <1>6 DEF Packed, Empty

LEMMA AddingRooted ==
  ASSUME IInv, NEW entry \in Entry, NEW q, Adding(entry, q)
  PROVE  Rooted'
<1> SUFFICES ASSUME DebugMissingPools
             PROVE  Len(pages'[1]) # 0 /\ pages'[1][1] = POOL_BOUNDARY
  <2>1. UNCHANGED <<DebugPoolAllocation, DebugMissingPools>>
    BY AfterAdding DEF debug
  <2>2. Len(<<>>) = 0
    OBVIOUS
  <2> QED BY <2>1, <2>2 DEF Rooted, Empty
<1>1. /\ q \in Nat /\ hotPage \in Nat
      /\ Len(Content(q)) \in Nat /\ Len(pages'[q]) = Len(Content(q)) + 1
      /\ pages'[q][Len(pages'[q])] = entry
      /\ \A s \in 1..Len(Content(q)) : pages'[q][s] = Content(q)[s]
  BY BeforeAdding, AfterAdding, PagesTyped DEF IInv, PageInv
<1>2. CASE hotPage = 0
  <2>1. q = 1
    BY <1>2, BeforeAdding
  <2>2. CASE tls = EMPTY_POOL_PLACEHOLDER
    <3>1. Content(q) = <<POOL_BOUNDARY>>
      BY <1>2, <2>2, BeforeAdding
    <3>2. Len(Content(q)) = 1 /\ Content(q)[1] = POOL_BOUNDARY
      BY <3>1
    <3> QED BY <1>1, <2>1, <3>2
  <2>3. CASE tls # EMPTY_POOL_PLACEHOLDER
    <3>1. Content(q) = <<>> /\ entry = POOL_BOUNDARY
      BY <1>2, <2>3, BeforeAdding DEF Adding
    <3>2. Len(Content(q)) = 0
      BY <3>1
    <3> QED BY <1>1, <2>1, <3>1, <3>2
  <2> QED BY <2>2, <2>3
<1>3. CASE hotPage # 0
  <2>1. ~Empty(1) /\ pages[1][1] = POOL_BOUNDARY
    BY <1>3, BeforeAdding DEF IInv, Rooted
  <2>2. 1 \in 1..hotPage
    BY <1>1, <1>3
  <2>3. /\ 1 \in 1..Len(pages) /\ Len(pages[1]) \in Nat
        /\ Len(pages'[1]) \in Nat /\ Len(pages[1]) <= Len(pages'[1])
        /\ \A s \in 1..Len(pages[1]) : pages'[1][s] = pages[1][s]
    BY <2>2, AddingKeeps
  <2>4. Len(pages[1]) # 0
    BY <2>1, <2>3, PagesTyped DEF IInv, PageInv
  <2> QED BY <2>1, <2>3, <2>4
<1> QED BY <1>2, <1>3

\* The own page of the first pool that a -dealloc pushes is above the hot one.
LEMMA AddingExplained ==
  ASSUME IInv, Explained, NEW entry \in Entry, NEW q, Adding(entry, q),
         entry = POOL_BOUNDARY => tokens' # tokens
  PROVE  Explained'
<1>1. /\ hotPage \in Nat /\ q \in Nat /\ q > 0
      /\ IF hotPage = 0 THEN q = 1 ELSE q \in {hotPage, hotPage + 1}
      /\ tls' = q /\ hotPage' = q /\ calls' = calls
      /\ Capacity \in Nat /\ Capacity >= 2
  BY BeforeAdding, AfterAdding, PagesTyped, CapacityAssumption
     DEF IInv, PageInv
<1>2. UNCHANGED <<DebugPoolAllocation, DebugMissingPools>>
  BY AfterAdding DEF debug
<1>3. /\ Len(tokens) \in Nat /\ Len(tokens') \in {Len(tokens), Len(tokens) + 1}
  BY AddingPool, TokensTyped DEF IInv, PageInv
<1>4. ~Empty(q)'
  <2>1. Len(pages'[q]) # 0
    BY BeforeAdding, AfterAdding
  <2>2. Len(<<>>) = 0
    OBVIOUS
  <2> QED BY <2>1, <2>2 DEF Empty
<1>5. ASSUME DebugPoolAllocation, NEW p \in 1..(q - 1), Empty(p)'
      PROVE  \E c \in DOMAIN calls : calls[c].releasing /\ OwnPage(c, p + 1)'
  <2>1. p \in 1..hotPage /\ p # q
    BY <1>1, <1>5
  <2>2. Empty(p)
    BY <1>5, <2>1, AddingKeeps DEF Empty
  <2>3. CASE p \in 1..(hotPage - 1)
    <3>1. PICK c \in DOMAIN calls : calls[c].releasing /\ OwnPage(c, p + 1)
      BY <1>5, <2>2, <2>3 DEF Explained
    <3>2. c \in 1..Len(calls) /\ calls[c].base \in Nat
      BY <3>1, CallsTyped DEF IInv, PageInv
    <3>3. CASE /\ Len(tokens) > calls[c].base
               /\ tokens[calls[c].base + 1].page = p + 1
      <4>1. calls[c].base + 1 \in 1..Len(tokens)
        BY <1>3, <3>2, <3>3
      <4>2. tokens'[calls[c].base + 1] = tokens[calls[c].base + 1]
        BY <4>1, AddingPool
      <4>3. Len(tokens') > calls[c].base
        BY <1>3, <3>2, <3>3
      <4> QED BY <1>1, <3>1, <3>3, <4>2, <4>3 DEF OwnPage
    <3>4. CASE /\ c < Len(calls) /\ calls[c + 1].base = calls[c].base
               /\ calls[c + 1].page = p + 1 /\ calls[c + 1].stop = 0
      BY <1>1, <3>1, <3>4 DEF OwnPage
    <3> QED BY <3>1, <3>3, <3>4 DEF OwnPage
  <2>4. CASE p = hotPage /\ q = hotPage + 1
    <3>1. ~Full(hotPage) /\ hotPage # 0
      <4>1. p \in 1..Len(pages)
        BY <2>1, AddingKeeps
      <4>2. Len(pages[p]) = 0
        BY <2>2, <4>1, PagesTyped DEF IInv, PageInv
      <4> QED BY <1>1, <2>1, <2>4, <4>2 DEF Full
    <3>2. entry = POOL_BOUNDARY
      BY <1>1, <2>4, <3>1 DEF Adding
    <3>3. calls # <<>>
      BY <1>5, <2>2, <2>4, <3>1 DEF IInv, Packed
    <3>4. /\ Len(calls) \in DOMAIN calls /\ Top = calls[Len(calls)]
          /\ Top.base \in Nat
      BY <3>3, CallsTyped, TopCall DEF IInv, PageInv
    <3>5. Top.releasing /\ Len(tokens) = Top.base
      BY <1>5, <2>2, <2>4, <3>3 DEF Explained, Adding, ClientRuns
    <3>6. Len(tokens') = Len(tokens) + 1
      <4>1. tokens' = Append(tokens, [page |-> q, slot |-> Len(pages'[q])])
        BY <3>2 DEF Adding, NewToken
      <4>2. tokens \in Seq(Token)
        BY TokensTyped DEF IInv, PageInv
      <4>3. PICK x : x = [page |-> q, slot |-> Len(pages'[q])]
        OBVIOUS
      <4> QED BY <4>1, <4>2, <4>3
    <3>7. Top.base + 1 \in 1..Len(tokens') /\ Top.base + 1 > Len(tokens)
      BY <3>4, <3>5, <3>6
    <3>8. tokens'[Top.base + 1].page = p + 1
      BY <2>4, <3>7, AddingPool
    <3>9. Len(tokens') > Top.base
      BY <3>4, <3>7
    <3> QED BY <1>1, <3>4, <3>5, <3>8, <3>9 DEF OwnPage
  <2> QED BY <1>1, <1>5, <2>1, <2>3, <2>4
<1> QED BY <1>1, <1>2, <1>4, <1>5 DEF Explained, Empty

LEMMA Adds ==
  ASSUME IInv, NEW entry \in Entry, NEW q, Adding(entry, q)
  PROVE  IInv'
<1> QED BY AddingTypes, AddingBoundaries, AddingPops, AddingOrder,
           AddingCalls, AddingPacked, AddingRooted DEF IInv, PageInv

-----------------------------------------------------------------------------
(* A thread without pages *)

Pageless ==
  /\ debug \in BOOLEAN \X BOOLEAN /\ pages = <<>> /\ calls = <<>>
  /\ tls \in {0, EMPTY_POOL_PLACEHOLDER}
  /\ DebugPoolAllocation => tls = 0
  /\ tokens # <<>> =>
       tls = EMPTY_POOL_PLACEHOLDER /\ tokens = <<PlaceholderToken>>

LEMMA WithoutPages == Pageless => IInv /\ Explained
<1> SUFFICES ASSUME Pageless PROVE IInv /\ Explained
  OBVIOUS
<1>1. /\ hotPage = 0 /\ Len(pages) = 0 /\ Len(calls) = 0
      /\ DOMAIN pages = {} /\ DOMAIN calls = {}
      /\ pages \in Seq(Seq(Entry)) /\ calls \in Seq(Call)
      /\ ~Looping
  <2>1. hotPage = 0
    BY DEF Pageless, hotPage
  <2>2. pages = <<>> /\ calls = <<>>
    BY DEF Pageless
  <2> QED BY <2>1, <2>2 DEF Looping
<1>2. PlaceholderToken \in Token
  BY CapacityAssumption DEF PlaceholderToken, Token
<1>3. /\ tokens \in Seq(Token)
      /\ \A i \in DOMAIN tokens :
           /\ i = 1 /\ tokens[i] = PlaceholderToken
           /\ tls = EMPTY_POOL_PLACEHOLDER /\ ~DebugPoolAllocation
  <2>1. CASE tokens = <<>>
    BY <2>1
  <2>2. CASE tokens = <<PlaceholderToken>>
    <3>1. DOMAIN tokens = {1} /\ tokens[1] = PlaceholderToken
      BY <2>2
    <3>2. <<PlaceholderToken>> # <<>>
      OBVIOUS
    <3>3. tls = EMPTY_POOL_PLACEHOLDER /\ ~DebugPoolAllocation
      BY <2>2, <3>2 DEF Pageless, EMPTY_POOL_PLACEHOLDER
    <3> QED BY <1>2, <2>2, <3>1, <3>3
  <2> QED BY <2>1, <2>2 DEF Pageless
<1>4. TypeOK
  <2>1. tls \in {EMPTY_POOL_PLACEHOLDER} \cup 0..Len(pages)
    BY <1>1 DEF Pageless
  <2>2. MaxPages \in Nat
    BY BoundsAssumption
  <2>3. Len(pages) <= MaxPages
    BY <1>1, <2>2
  <2> QED BY <1>1, <1>3, <2>1, <2>3 DEF Pageless, TypeOK, Entry
<1>5. ChildrenAreEmpty /\ OneSparePage /\ NoPageLeaks
  BY <1>1 DEF ChildrenAreEmpty, OneSparePage, NoPageLeaks, Pageless
<1>6. NoBadPop
  BY <1>1, <1>3 DEF NoBadPop
<1>7. PopsStandFirm /\ CallOrder
  BY <1>1 DEF PopsStandFirm, CallOrder
<1>8. TokenOrder
  BY <1>3 DEF TokenOrder
<1>9. Packed /\ Rooted
  BY <1>1 DEF Packed, Rooted, Pageless, EMPTY_POOL_PLACEHOLDER
<1>10. Explained
  BY <1>1 DEF Explained, Pageless
<1> QED BY <1>4, <1>5, <1>6, <1>7, <1>8, <1>9, <1>10 DEF IInv, PageInv

LEMMA BackToNoPages ==
  ASSUME Pageless' PROVE IInv' /\ Explained'
<1> QED BY WithoutPages, PTL

LEMMA Initially ==
  ASSUME Init PROVE IInv /\ Explained
<1>1. Pageless
  BY DEF Init, Pageless, debug
<1> QED BY <1>1, WithoutPages

LEMMA StutterStep ==
  ASSUME IInv, UNCHANGED vars
  PROVE  IInv' /\ (Explained => Explained')
<1> USE DEF vars, debug
<1>1. hotPage' = hotPage /\ Top' = Top /\ (Looping' <=> Looping)
  BY DEF hotPage, Top, Looping
<1>2. PageInv' /\ PopsStandFirm'
  BY <1>1 DEF IInv, PageInv, TypeOK, ChildrenAreEmpty, OneSparePage, NoBadPop,
              NoPageLeaks, PopsStandFirm, Empty, lessThanHalfFull
<1>3. TokenOrder' /\ CallOrder'
  BY <1>1 DEF IInv, TokenOrder, CallOrder, CallOk, Above, Place
<1>4. Packed' /\ Rooted'
  BY <1>1 DEF IInv, Packed, Rooted, Empty, Full
<1>5. Explained => Explained'
  BY <1>1 DEF Explained, OwnPage, Empty
<1> QED BY <1>2, <1>3, <1>4, <1>5 DEF IInv

-----------------------------------------------------------------------------
(* Pushes and autoreleases are additions *)

LEMMA AutoreleaseAdds ==
  ASSUME IInv, NEW obj \in Objects, Autorelease(obj)
  PROVE  \/ \E q : Adding(obj, q) /\ tokens' = tokens
         \/ UNCHANGED vars
<1>1. /\ TypeOK /\ ChildrenAreEmpty /\ hotPage \in Nat
      /\ hotPage = 0 => pages = <<>>
      /\ obj \in Entry /\ obj # POOL_BOUNDARY
  BY PagesTyped, BoundaryAssumption DEF IInv, PageInv, NoPageLeaks, Entry
<1>2. autoreleaseFast(obj) /\ ClientRuns /\ UNCHANGED <<debug, tokens, calls>>
  BY DEF Autorelease
<1>3. CASE hotPage # 0 /\ ~Full(hotPage) /\ AddTo(hotPage, obj)
  <2>1. Adding(obj, hotPage)
    BY <1>1, <1>2, <1>3, AddToAdds DEF Adding
  <2> QED BY <1>2, <2>1
<1>4. CASE hotPage # 0 /\ Full(hotPage) /\ autoreleaseFullPage(obj)
  <2>1. Adding(obj, hotPage + 1)
    BY <1>1, <1>2, <1>4, NextPage DEF Adding
  <2> QED BY <1>2, <2>1
<1>5. CASE hotPage = 0 /\ autoreleaseNoPage(obj)
  <2>1. CASE /\ Added(obj, 1)
             /\ DebugMissingPools /\ obj # POOL_BOUNDARY =>
                  tls = EMPTY_POOL_PLACEHOLDER
    <3>1. Adding(obj, 1)
      BY <1>1, <1>2, <1>5, <2>1 DEF Adding
    <3> QED BY <1>2, <3>1
  <2>2. CASE UNCHANGED <<pages, tls>>
    BY <1>2, <2>2 DEF vars
  <2> QED BY <1>1, <1>5, <2>1, <2>2, FirstPageAdds
<1> QED BY <1>2, <1>3, <1>4, <1>5 DEF autoreleaseFast

LEMMA AutoreleaseStep ==
  ASSUME IInv, NEW obj \in Objects, Autorelease(obj)
  PROVE  IInv' /\ (Explained => Explained')
<1>1. obj \in Entry /\ obj # POOL_BOUNDARY
  BY BoundaryAssumption DEF Entry
<1>2. ASSUME NEW q, Adding(obj, q)
      PROVE  IInv' /\ (Explained => Explained')
  BY <1>1, <1>2, Adds, AddingExplained
<1> QED BY <1>2, AutoreleaseAdds, StutterStep

\* The first pool of a thread is a placeholder.
BecomesPlaceholder ==
  /\ Pageless /\ Pageless'
  /\ tls = 0 /\ tls' = EMPTY_POOL_PLACEHOLDER
  /\ tokens = <<>> /\ tokens' = <<PlaceholderToken>>

LEMMA PushAdds ==
  ASSUME IInv, Push
  PROVE  \/ \E q \in Nat : Adding(POOL_BOUNDARY, q) /\ NewToken(q)
         \/ BecomesPlaceholder
<1>1. /\ TypeOK /\ ChildrenAreEmpty /\ hotPage \in Nat
      /\ hotPage = 0 => pages = <<>>
      /\ POOL_BOUNDARY \in Entry
  BY PagesTyped DEF IInv, PageInv, NoPageLeaks, Entry
<1>2. /\ ClientRuns /\ UNCHANGED <<debug, calls>>
      /\ tokens' = Append(tokens,
           IF tls' = EMPTY_POOL_PLACEHOLDER THEN PlaceholderToken
           ELSE [page |-> tls', slot |-> Len(pages'[tls'])])
      /\ \/ DebugPoolAllocation /\ autoreleaseNewPage(POOL_BOUNDARY)
         \/ ~DebugPoolAllocation /\ autoreleaseFast(POOL_BOUNDARY)
  BY DEF Push, PushOn
<1>3. ASSUME NEW q \in Nat, Added(POOL_BOUNDARY, q)
      PROVE  NewToken(q)
  <2>1. tls' = q /\ q # EMPTY_POOL_PLACEHOLDER
    BY <1>3 DEF Added, EMPTY_POOL_PLACEHOLDER
  <2> QED BY <1>2, <2>1 DEF NewToken
<1>4. CASE hotPage # 0 /\ ~Full(hotPage) /\ AddTo(hotPage, POOL_BOUNDARY)
           /\ ~DebugPoolAllocation
  <2>1. Added(POOL_BOUNDARY, hotPage)
    BY <1>1, <1>4, AddToAdds
  <2>2. Adding(POOL_BOUNDARY, hotPage)
    BY <1>1, <1>2, <1>3, <1>4, <2>1 DEF Adding
  <2> QED BY <1>1, <1>3, <2>1, <2>2
<1>5. CASE hotPage # 0 /\ autoreleaseFullPage(POOL_BOUNDARY)
           /\ (DebugPoolAllocation \/ Full(hotPage))
  <2>1. Added(POOL_BOUNDARY, hotPage + 1) /\ hotPage + 1 \in Nat
    BY <1>1, <1>5, NextPage
  <2>2. Adding(POOL_BOUNDARY, hotPage + 1)
    BY <1>1, <1>2, <1>3, <1>5, <2>1 DEF Adding
  <2> QED BY <1>3, <2>1, <2>2
<1>6. CASE hotPage = 0 /\ autoreleaseNoPage(POOL_BOUNDARY)
  <2>1. CASE Added(POOL_BOUNDARY, 1)
    <3>1. Adding(POOL_BOUNDARY, 1)
      BY <1>1, <1>2, <1>3, <1>6, <2>1 DEF Adding
    <3> QED BY <1>3, <2>1, <3>1
  <2>2. CASE /\ ~DebugPoolAllocation /\ tls = 0
             /\ tls' = EMPTY_POOL_PLACEHOLDER /\ pages' = pages
    <3>1. tokens = <<>> /\ calls = <<>>
      <4>1. \A i \in 1..Len(tokens) : FALSE
        BY <1>6, <2>2, TokensTyped
           DEF IInv, PageInv, EMPTY_POOL_PLACEHOLDER
      <4>2. Len(tokens) \in Nat /\ (tokens = <<>> <=> Len(tokens) = 0)
        BY TokensTyped DEF IInv, PageInv
      <4> QED BY <1>6, <4>1, <4>2, PopsHavePages
    <3>2. tokens' = <<PlaceholderToken>>
      BY <1>2, <2>2, <3>1
    <3>3. /\ debug \in BOOLEAN \X BOOLEAN /\ debug' \in BOOLEAN \X BOOLEAN
          /\ ~DebugPoolAllocation /\ ~DebugPoolAllocation'
      BY <1>2, <2>2 DEF IInv, PageInv, TypeOK, debug
    <3>4. Pageless /\ Pageless'
      BY <1>1, <1>2, <1>6, <2>2, <3>1, <3>2, <3>3 DEF Pageless
    <3> QED BY <2>2, <3>1, <3>2, <3>4 DEF BecomesPlaceholder
  <2> QED BY <1>1, <1>6, <2>1, <2>2, FirstPageAdds
<1> QED BY <1>2, <1>4, <1>5, <1>6 DEF autoreleaseNewPage, autoreleaseFast

LEMMA PushStep ==
  ASSUME IInv, Push
  PROVE  IInv' /\ (Explained => Explained')
<1>1. ASSUME NEW q \in Nat, Adding(POOL_BOUNDARY, q), NewToken(q)
      PROVE  IInv' /\ (Explained => Explained')
  <2>1. tokens' # tokens
    <3>1. PICK x : x = [page |-> q, slot |-> Len(pages'[q])]
      OBVIOUS
    <3>2. tokens \in Seq(Token) /\ Len(tokens) \in Nat
      BY TokensTyped DEF IInv, PageInv
    <3>3. Len(tokens') = Len(tokens) + 1
      BY <1>1, <3>1, <3>2 DEF NewToken
    <3> QED BY <3>2, <3>3
  <2>2. POOL_BOUNDARY \in Entry
    BY DEF Entry
  <2> QED BY <1>1, <2>1, <2>2, Adds, AddingExplained
<1> QED BY <1>1, PushAdds, BackToNoPages DEF BecomesPlaceholder

-----------------------------------------------------------------------------
(* What is below the innermost pop *)

LEMMA BelowTop ==
  ASSUME IInv, calls # <<>>, NEW c \in 1..Len(calls)
  PROVE  /\ UpTo(calls[c].page, calls[c].stop, Top.page, Top.stop)
         /\ calls[c].base <= Top.base
<1>1. /\ Len(calls) \in Nat /\ Len(calls) \in 1..Len(calls)
      /\ Top = calls[Len(calls)]
      /\ Top.page \in Nat /\ Top.stop \in Nat /\ Top.base \in Nat
  BY TopCall, CallsTyped, PagesTyped DEF IInv, PageInv
<1>2. CASE c = Len(calls)
  BY <1>1, <1>2 DEF UpTo
<1>3. CASE c < Len(calls)
  <2>1. Len(calls) \in (c + 1)..Len(calls)
    BY <1>1, <1>3
  <2>2. CallOk(c)
    BY EachCall
  <2> QED BY <1>1, <2>1, <2>2 DEF CallOk, Above
<1> QED BY <1>1, <1>2, <1>3

LEMMA PoolsBelowTop ==
  ASSUME IInv, Looping, NEW i \in 1..Len(tokens)
  PROVE  /\ UpTo(Place(i).page, Place(i).slot, Top.page, Top.stop)
         /\ Holds(pages, hotPage, Place(i).page, Place(i).slot)
         /\ hotPage # 0
<1>1. calls # <<>> /\ Len(tokens) = Top.base
  BY DEF IInv, CallOrder, Looping
<1>2. Len(calls) \in 1..Len(calls) /\ Top = calls[Len(calls)]
  BY <1>1, TopCall
<1>3. CallOk(Len(calls))
  BY <1>2, EachCall
<1>4. UpTo(Place(i).page, Place(i).slot, Top.page, Top.stop)
  BY <1>1, <1>2, <1>3 DEF CallOk
<1>5. hotPage # 0 /\ hotPage \in Nat /\ hotPage <= Len(pages)
  BY <1>1, PopsHavePages, PagesTyped DEF IInv, PageInv
<1>6. PICK p, s : p = Place(i).page /\ s = Place(i).slot
  OBVIOUS
<1>7. /\ p \in Nat /\ p > 0 /\ s \in Nat /\ s > 0 /\ p <= hotPage
      /\ s <= Len(pages[p]) /\ pages[p][s] = POOL_BOUNDARY
  BY <1>5, <1>6, TokensTyped DEF IInv, PageInv
<1>8. p \in 1..hotPage /\ p \in 1..Len(pages) /\ s \in 1..Len(pages[p])
  <2>1. p \in 1..hotPage /\ p \in 1..Len(pages)
    BY <1>5, <1>7, PagesTyped DEF IInv, PageInv
  <2>2. Len(pages[p]) \in Nat
    BY <2>1, PagesTyped DEF IInv, PageInv
  <2> QED BY <1>7, <2>1, <2>2
<1>9. DOMAIN pages[p] = 1..Len(pages[p])
  BY <1>8, PagesTyped DEF IInv, PageInv
<1> QED BY <1>4, <1>5, <1>6, <1>7, <1>8, <1>9 DEF Holds

CallStays(c) ==
  /\ calls'[c].page = calls[c].page /\ calls'[c].stop = calls[c].stop
  /\ calls'[c].base = calls[c].base /\ calls'[c].exit = calls[c].exit

\* Pops and pools end from the innermost.
LEMMA CallsStay ==
  ASSUME IInv, debug' = debug, NEW k \in 0..Len(tokens),
         tokens' = SubSeq(tokens, 1, k),
         NEW m \in 0..Len(calls), Len(calls') = m,
         \A c \in 1..m : /\ CallStays(c) /\ calls[c].base <= k
                         /\ c < m => calls'[c].releasing
  PROVE  \A c \in 1..m : CallOk(c)'
<1> SUFFICES ASSUME NEW c \in 1..m PROVE CallOk(c)'
  OBVIOUS
<1>1. /\ Len(tokens) \in Nat /\ Len(calls) \in Nat /\ c \in 1..Len(calls)
      /\ k \in Nat /\ k <= Len(tokens) /\ m <= Len(calls)
  BY CallsTyped, TokensTyped DEF IInv, PageInv
<1>2. CallOk(c) /\ calls[c].base \in Nat /\ calls[c].base <= k /\ CallStays(c)
  BY <1>1, EachCall, CallsTyped DEF IInv, PageInv
<1>3. Len(tokens') = k /\ \A i \in 1..k : Place(i)' = Place(i)
  BY Prefix DEF IInv, PageInv
<1>4. ASSUME NEW i \in 1..calls[c].base
      PROVE  UpTo(Place(i)'.page, Place(i)'.slot, calls[c].page, calls[c].stop)
  <2>1. i \in 1..k
    BY <1>1, <1>2
  <2> QED BY <1>2, <1>3, <2>1 DEF CallOk
<1>5. ASSUME NEW i \in (calls[c].base + 1)..k
      PROVE  Above(c, Place(i)'.page, Place(i)'.slot - 1)
  <2>1. i \in 1..k /\ i \in (calls[c].base + 1)..Len(tokens)
    BY <1>1, <1>2
  <2> QED BY <1>2, <1>3, <2>1 DEF CallOk
<1>6. ASSUME NEW d \in (c + 1)..m
      PROVE  /\ calls'[c].base <= calls'[d].base
             /\ Above(c, calls'[d].page, calls'[d].stop)
  <2>1. d \in 1..m /\ d \in (c + 1)..Len(calls)
    BY <1>1
  <2> QED BY <1>2, <2>1 DEF CallOk, CallStays
<1>7. UNCHANGED <<DebugPoolAllocation, DebugMissingPools>>
  BY DEF debug
<1> QED BY <1>2, <1>3, <1>4, <1>5, <1>6, <1>7 DEF CallOk, CallStays, Above, UpTo

\* The innermost pop calls objc_release, or the -dealloc it has called returns.
LEMMA TopReleases ==
  ASSUME IInv, calls # <<>>, NEW b \in BOOLEAN,
         calls' = [calls EXCEPT ![Len(calls)].releasing = b]
  PROVE  /\ calls' \in Seq(Call) /\ Len(calls') = Len(calls)
         /\ DOMAIN calls' = 1..Len(calls) /\ calls' # <<>>
         /\ \A c \in 1..Len(calls) :
              /\ CallStays(c)
              /\ c # Len(calls) => calls'[c].releasing = calls[c].releasing
         /\ Top'.releasing = b /\ Top'.base = Top.base
         /\ Looping' <=> ~b
<1>1. /\ calls \in Seq(Call) /\ Len(calls) \in 1..Len(calls)
      /\ DOMAIN calls = 1..Len(calls)
  BY TopCall, CallsTyped DEF IInv, PageInv
<1>2. PICK x : x = [calls[Len(calls)] EXCEPT !.releasing = b]
  OBVIOUS
<1>3. /\ x \in Call /\ x.releasing = b
      /\ x.page = calls[Len(calls)].page /\ x.stop = calls[Len(calls)].stop
      /\ x.base = calls[Len(calls)].base /\ x.exit = calls[Len(calls)].exit
  <2>1. calls[Len(calls)] \in Call
    BY <1>1
  <2> QED BY <1>2, <2>1 DEF Call
<1>4. calls' = [calls EXCEPT ![Len(calls)] = x]
  BY <1>2
<1>5. /\ calls' \in Seq(Call) /\ Len(calls') = Len(calls)
      /\ DOMAIN calls' = 1..Len(calls) /\ calls' # <<>>
      /\ calls'[Len(calls)] = x
      /\ \A c \in 1..Len(calls) : c # Len(calls) => calls'[c] = calls[c]
  BY <1>1, <1>3, <1>4
<1>6. Top' = x
  BY <1>5 DEF Top
<1> QED BY <1>3, <1>5, <1>6 DEF CallStays, Top, Looping

-----------------------------------------------------------------------------
(* A pop releases an object *)

\* The page that releaseUntil finds.
Releasing(page) == PopPage(page) /\ ReleaseFrom(page)

LEMMA BeforeRelease ==
  ASSUME IInv, NEW page \in DOMAIN pages, Releasing(page)
  PROVE  /\ Looping /\ calls # <<>>
         /\ page \in 1..hotPage /\ page \in 1..Len(pages)
         /\ Len(pages[page]) \in Nat \ {0} /\ pages[page] \in Seq(Entry)
         /\ \A p \in (page + 1)..hotPage : Empty(p)
         /\ Top.page <= page
         /\ Top.page = page => Top.stop < Len(pages[page])
<1>1. /\ Looping /\ calls # <<>> /\ Len(pages[Top.page]) # Top.stop
      /\ page \in 1..hotPage /\ ~Empty(page)
      /\ \A p \in (page + 1)..hotPage : Empty(p)
  BY DEF Releasing, PopPage, ReleaseFrom, Looping
<1>2. /\ hotPage \in Nat /\ hotPage <= Len(pages) /\ Len(pages) \in Nat
      /\ \A p \in 1..Len(pages) :
           Len(pages[p]) \in Nat /\ (Empty(p) <=> Len(pages[p]) = 0)
  BY PagesTyped DEF IInv, PageInv
<1>3. page \in 1..Len(pages)
  BY <1>1, <1>2
<1>4. Len(pages[page]) \in Nat \ {0} /\ pages[page] \in Seq(Entry)
  BY <1>1, <1>2, <1>3, PagesTyped DEF IInv, PageInv
<1>5. PICK p, s : p = Top.page /\ s = Top.stop
  OBVIOUS
<1>6. p \in 1..hotPage /\ s \in Nat /\ s <= Len(pages[p]) /\ Len(pages[p]) # s
  BY <1>1, <1>5, TopCall
<1>7. p \in 1..Len(pages)
  BY <1>2, <1>6
<1>8. Len(pages[p]) \in Nat /\ s < Len(pages[p]) /\ ~Empty(p)
  BY <1>2, <1>6, <1>7
<1>9. p <= page
  <2>1. p > page => p \in (page + 1)..hotPage
    BY <1>1, <1>2, <1>6
  <2> QED BY <1>1, <1>2, <1>6, <1>8, <2>1
<1> QED BY <1>1, <1>3, <1>4, <1>5, <1>8, <1>9

LEMMA AfterRelease ==
  ASSUME IInv, NEW page \in DOMAIN pages, Releasing(page)
  PROVE  /\ hotPage' = page /\ tls' = page
         /\ tokens' = tokens /\ debug' = debug
         /\ pages' \in Seq(Seq(Entry)) /\ Len(pages') = Len(pages)
         /\ \A p \in 1..Len(pages) : p # page => pages'[p] = pages[p]
         /\ Len(pages'[page]) = Len(pages[page]) - 1
         /\ DOMAIN pages'[page] = 1..(Len(pages[page]) - 1)
         /\ \A s \in 1..(Len(pages[page]) - 1) :
              pages'[page][s] = pages[page][s]
         /\ calls' = [calls EXCEPT ![Len(calls)].releasing =
                        (pages[page][Len(pages[page])] # POOL_BOUNDARY)]
<1>1. /\ tls' = page /\ tokens' = tokens /\ debug' = debug
      /\ calls' = [calls EXCEPT ![Len(calls)].releasing =
                     (pages[page][Len(pages[page])] # POOL_BOUNDARY)]
      /\ pages' = [pages EXCEPT ![page] =
                     SubSeq(pages[page], 1, Len(pages[page]) - 1)]
  BY DEF Releasing, ReleaseFrom
<1>2. /\ page \in 1..hotPage /\ page \in 1..Len(pages)
      /\ Len(pages[page]) \in Nat \ {0} /\ pages[page] \in Seq(Entry)
      /\ pages \in Seq(Seq(Entry))
  BY BeforeRelease, PagesTyped DEF IInv, PageInv
<1>3. PICK n \in Nat : n = Len(pages[page]) - 1 /\ n <= Len(pages[page])
  <2>1. \A k \in Nat \ {0} : k - 1 \in Nat /\ k - 1 <= k
    OBVIOUS
  <2>2. Len(pages[page]) \in Nat \ {0}
    BY <1>2
  <2> QED BY <2>1, <2>2
<1>4. PICK r : r = SubSeq(pages[page], 1, n)
  OBVIOUS
<1>5. /\ r \in Seq(Entry) /\ Len(r) = n /\ DOMAIN r = 1..n
      /\ \A s \in 1..n : r[s] = pages[page][s]
  BY <1>2, <1>4, <1>3
<1>6. /\ pages' \in Seq(Seq(Entry)) /\ Len(pages') = Len(pages)
      /\ pages'[page] = r
      /\ \A p \in 1..Len(pages) : p # page => pages'[p] = pages[p]
  <2>1. pages' = [pages EXCEPT ![page] = r]
    BY <1>1, <1>3, <1>4
  <2> QED BY <1>2, <1>5, <2>1
<1>7. hotPage' = page
  BY <1>1, <1>2 DEF hotPage, EMPTY_POOL_PLACEHOLDER
<1> QED BY <1>1, <1>3, <1>5, <1>6, <1>7

\* What is not above the place where the pop stops, stays.
LEMMA ReleaseKeeps ==
  ASSUME IInv, NEW page \in DOMAIN pages, Releasing(page),
         NEW p \in 1..hotPage, NEW s \in Nat, s <= Len(pages[p]),
         UpTo(p, s, Top.page, Top.stop)
  PROVE  /\ p \in 1..page /\ s <= Len(pages'[p])
         /\ DOMAIN pages'[p] = 1..Len(pages'[p]) /\ Len(pages'[p]) \in Nat
         /\ \A r \in 1..s : pages'[p][r] = pages[p][r]
<1>1. /\ page \in 1..Len(pages) /\ Len(pages[page]) \in Nat \ {0}
      /\ Top.page <= page /\ Top.page \in Nat /\ Top.stop \in Nat
      /\ Top.page = page => Top.stop < Len(pages[page])
      /\ page <= hotPage /\ hotPage \in Nat /\ page \in Nat
      /\ hotPage <= Len(pages) /\ Len(pages) \in Nat
  <2>1. calls # <<>> /\ page \in 1..hotPage
    BY BeforeRelease
  <2>2. Top.page \in 1..hotPage /\ Top.stop \in Nat
    BY <2>1, TopCall
  <2>3. hotPage \in Nat /\ hotPage <= Len(pages) /\ Len(pages) \in Nat
    BY PagesTyped DEF IInv, PageInv
  <2> QED BY <2>1, <2>2, <2>3, BeforeRelease
<1>2. p <= page /\ (p = page => s < Len(pages[page]))
  BY <1>1 DEF UpTo
<1>3. p \in 1..page /\ p \in 1..Len(pages)
  BY <1>1, <1>2
<1>4. CASE p = page
  <2>1. /\ Len(pages'[p]) = Len(pages[p]) - 1
        /\ DOMAIN pages'[p] = 1..(Len(pages[p]) - 1)
        /\ \A r \in 1..(Len(pages[p]) - 1) : pages'[p][r] = pages[p][r]
    BY <1>4, AfterRelease
  <2>2. s <= Len(pages[p]) - 1 /\ Len(pages[p]) - 1 \in Nat
    BY <1>1, <1>2, <1>4
  <2>3. \A r \in 1..s : r \in 1..(Len(pages[p]) - 1)
    BY <2>2
  <2> QED BY <1>3, <2>1, <2>2, <2>3
<1>5. CASE p # page
  <2>1. pages'[p] = pages[p]
    BY <1>3, <1>5, AfterRelease
  <2>2. DOMAIN pages[p] = 1..Len(pages[p]) /\ Len(pages[p]) \in Nat
    BY <1>3, PagesTyped DEF IInv, PageInv
  <2> QED BY <1>3, <2>1, <2>2
<1> QED BY <1>4, <1>5

LEMMA ReleaseStep ==
  ASSUME IInv, NEW page \in DOMAIN pages, Releasing(page)
  PROVE  IInv' /\ (Explained => Explained')
<1>1. /\ Looping /\ calls # <<>>
      /\ page \in 1..hotPage /\ page \in 1..Len(pages)
      /\ Len(pages[page]) \in Nat \ {0}
      /\ \A p \in (page + 1)..hotPage : Empty(p)
  BY BeforeRelease
<1>2. /\ hotPage' = page /\ tls' = page /\ tokens' = tokens /\ debug' = debug
      /\ pages' \in Seq(Seq(Entry)) /\ Len(pages') = Len(pages)
      /\ \A p \in 1..Len(pages) : p # page => pages'[p] = pages[p]
      /\ Len(pages'[page]) = Len(pages[page]) - 1
  BY AfterRelease
<1>3. /\ hotPage \in Nat /\ hotPage <= Len(pages) /\ Len(pages) \in Nat
      /\ page \in Nat
      /\ \A p \in 1..Len(pages) :
           Len(pages[p]) \in Nat /\ Len(pages[p]) <= Capacity
  BY PagesTyped DEF IInv, PageInv
<1>4. PICK b \in BOOLEAN :
        /\ b = (pages[page][Len(pages[page])] # POOL_BOUNDARY)
        /\ calls' = [calls EXCEPT ![Len(calls)].releasing = b]
  BY AfterRelease
<1>5. /\ calls' \in Seq(Call) /\ Len(calls') = Len(calls)
      /\ DOMAIN calls' = 1..Len(calls) /\ calls' # <<>>
      /\ \A c \in 1..Len(calls) :
           /\ CallStays(c)
           /\ c # Len(calls) => calls'[c].releasing = calls[c].releasing
      /\ Top'.base = Top.base /\ (Looping' <=> ~b)
  BY <1>1, <1>4, TopReleases
<1>6. UNCHANGED <<DebugPoolAllocation, DebugMissingPools>>
  BY <1>2 DEF debug
<1>7. TypeOK'
  <2>1. \A p \in 1..Len(pages') : Len(pages'[p]) <= Capacity
    <3> SUFFICES ASSUME NEW p \in 1..Len(pages) PROVE Len(pages'[p]) <= Capacity
      BY <1>2
    <3>1. Len(pages[p]) \in Nat /\ Len(pages[p]) <= Capacity
      BY <1>3
    <3>2. Len(pages'[p]) \in {Len(pages[p]), Len(pages[p]) - 1}
      BY <1>2
    <3> QED BY <3>1, <3>2, CapacityAssumption
  <2>2. DOMAIN pages' = 1..Len(pages')
    BY <1>2
  <2>3. tls' \in {EMPTY_POOL_PLACEHOLDER} \cup 0..Len(pages')
    BY <1>1, <1>2
  <2> QED BY <1>2, <1>5, <2>1, <2>2, <2>3 DEF TypeOK, IInv, PageInv, Entry
<1>8. ChildrenAreEmpty'
  <2> SUFFICES ASSUME NEW p \in (page + 1)..Len(pages) PROVE Empty(p)'
    BY <1>2 DEF ChildrenAreEmpty
  <2>1. p \in 1..Len(pages) /\ p # page
    BY <1>1
  <2>2. p \in (page + 1)..hotPage \/ p \in (hotPage + 1)..Len(pages)
    BY <1>3
  <2>3. Empty(p)
    BY <1>1, <2>2 DEF IInv, PageInv, ChildrenAreEmpty
  <2> QED BY <1>2, <2>1, <2>3 DEF Empty
<1>9. OneSparePage' /\ NoPageLeaks'
  <2>1. hotPage' # 0
    BY <1>2, <1>3, <1>1
  <2> QED BY <1>5, <2>1 DEF OneSparePage, NoPageLeaks
<1>10. NoBadPop'
  <2>1. tokens \in Seq(Token) /\ hotPage' \in Nat \ {0}
    BY <1>1, <1>2, TokensTyped DEF IInv, PageInv
  <2>2. ASSUME NEW i \in 1..Len(tokens)
        PROVE  Holds(pages', hotPage', Place(i).page, Place(i).slot)
    <3>1. PICK p, s : p = Place(i).page /\ s = Place(i).slot
      OBVIOUS
    <3>2. /\ UpTo(p, s, Top.page, Top.stop) /\ p \in 1..hotPage
          /\ s \in DOMAIN pages[p] /\ pages[p][s] = POOL_BOUNDARY
      BY <1>1, <3>1, PoolsBelowTop DEF Holds
    <3>3. p \in 1..Len(pages)
      BY <1>3, <3>2
    <3>4. s \in 1..Len(pages[p])
      BY <3>2, <3>3, PagesTyped DEF IInv, PageInv
    <3>5. s \in Nat /\ s <= Len(pages[p]) /\ s > 0
      BY <1>3, <3>3, <3>4
    <3>6. /\ p \in 1..page /\ s <= Len(pages'[p])
          /\ DOMAIN pages'[p] = 1..Len(pages'[p]) /\ Len(pages'[p]) \in Nat
          /\ \A r \in 1..s : pages'[p][r] = pages[p][r]
      BY <3>2, <3>5, ReleaseKeeps
    <3>7. s \in DOMAIN pages'[p] /\ pages'[p][s] = POOL_BOUNDARY
      BY <3>2, <3>5, <3>6
    <3> QED BY <1>2, <3>1, <3>6, <3>7 DEF Holds
  <2> QED BY <1>2, <2>1, <2>2, BoundariesStay DEF IInv, PageInv
<1>11. PopsStandFirm'
  <2> SUFFICES ASSUME NEW c \in 1..Len(calls)
               PROVE  /\ calls[c].page <= page
                      /\ calls[c].stop <= Len(pages'[calls[c].page])
    BY <1>2, <1>5 DEF PopsStandFirm, CallStays
  <2>1. PICK p, s : p = calls[c].page /\ s = calls[c].stop
    OBVIOUS
  <2>2. /\ p \in 1..hotPage /\ s \in Nat /\ s <= Len(pages[p])
        /\ UpTo(p, s, Top.page, Top.stop)
    BY <1>1, <2>1, PopsHavePages, CallsTyped, BelowTop DEF IInv, PageInv
  <2>3. p \in 1..page /\ s <= Len(pages'[p])
    BY <2>2, ReleaseKeeps
  <2> QED BY <2>1, <2>3
<1>12. TokenOrder'
  BY <1>2, SamePools DEF IInv, PageInv
<1>13. CallOrder'
  <2>1. /\ Len(tokens) \in 0..Len(tokens)
        /\ tokens' = SubSeq(tokens, 1, Len(tokens))
    BY <1>2, TokensTyped DEF IInv, PageInv
  <2>2. Len(calls) \in 0..Len(calls) /\ Len(calls) \in Nat
    BY CallsTyped DEF IInv, PageInv
  <2>3. ASSUME NEW c \in 1..Len(calls)
        PROVE  /\ CallStays(c) /\ calls[c].base <= Len(tokens)
               /\ c < Len(calls) => calls'[c].releasing
    <3>1. CallOk(c)
      BY EachCall
    <3>2. c < Len(calls) => c # Len(calls)
      BY <2>2
    <3> QED BY <1>5, <3>1, <3>2 DEF CallOk
  <2>4. \A c \in 1..Len(calls) : CallOk(c)'
    BY <1>2, <1>5, <2>1, <2>2, <2>3, CallsStay
  <2> QED BY <1>1, <1>2, <1>5, <2>4 DEF CallOrder, IInv
<1>14. \A p \in 1..(page - 1) :
         /\ p \in 1..(hotPage - 1) /\ pages'[p] = pages[p]
         /\ Empty(p)' <=> Empty(p)
  <2> SUFFICES ASSUME NEW p \in 1..(page - 1)
               PROVE  /\ p \in 1..(hotPage - 1) /\ p \in 1..Len(pages)
                      /\ p # page
    BY <1>2 DEF Empty
  <2> QED BY <1>1, <1>3
<1>15. Packed'
  <2>1. 1 \in 1..Len(calls)
    BY <1>1, CallsTyped DEF IInv, PageInv
  <2>2. calls'[1].page = calls[1].page
    BY <1>5, <2>1 DEF CallStays
  <2>3. tls' # EMPTY_POOL_PLACEHOLDER
    BY <1>2, <1>3 DEF EMPTY_POOL_PLACEHOLDER
  <2>4. ~DebugPoolAllocation => \A p \in 1..(page - 1) : Full(p)'
    BY <1>14 DEF IInv, Packed, Full
  <2>5. \A p \in 1..(page - 1) : Empty(p)' => calls'[1].page <= p
    BY <1>14, <2>2 DEF IInv, Packed
  <2> QED BY <1>2, <1>5, <1>6, <2>3, <2>4, <2>5 DEF Packed, Empty, Full
<1>16. Rooted'
  <2> SUFFICES ASSUME DebugMissingPools
               PROVE  /\ ~Empty(1)' => pages'[1][1] = POOL_BOUNDARY
                      /\ Empty(1)' => ~b /\ page = 1
    BY <1>2, <1>5, <1>6 DEF Rooted, Empty
  <2>1. /\ ~Empty(1) => pages[1][1] = POOL_BOUNDARY
        /\ Empty(1) => hotPage = 1
    BY <1>1 DEF IInv, Rooted
  <2>2. CASE page = 1
    <3>1. Len(pages[1]) # 0 /\ 1 \in 1..Len(pages)
      BY <1>1, <2>2
    <3>2. ~Empty(1)
      BY <3>1, PagesTyped DEF IInv, PageInv
    <3>3. CASE Len(pages[1]) = 1
      <4>1. ~b
        BY <1>4, <2>1, <2>2, <3>2, <3>3
      <4>2. pages'[1] \in Seq(Entry) /\ Len(pages'[1]) = 0
        BY <1>1, <1>2, <2>2, <3>3
      <4>3. Empty(1)'
        BY <4>2 DEF Empty
      <4> QED BY <2>2, <4>1, <4>3
    <3>4. CASE Len(pages[1]) # 1
      <4>1. \A k \in Nat \ {0} : k # 1 => 1 \in 1..(k - 1) /\ k - 1 # 0
        OBVIOUS
      <4>2. Len(pages[1]) \in Nat \ {0}
        BY <1>1, <2>2
      <4>3. 1 \in 1..(Len(pages[1]) - 1) /\ Len(pages[1]) - 1 # 0
        BY <3>4, <4>1, <4>2
      <4>4. pages'[1][1] = pages[1][1] /\ Len(pages'[1]) # 0
        BY <2>2, <4>3, AfterRelease
      <4>5. Len(<<>>) = 0
        OBVIOUS
      <4> QED BY <2>1, <3>2, <4>4, <4>5 DEF Empty
    <3> QED BY <3>3, <3>4
  <2>3. CASE page # 1
    <3>1. hotPage # 1 /\ 1 \in 1..Len(pages)
      BY <1>1, <1>3, <2>3
    <3>2. pages'[1] = pages[1]
      BY <1>2, <2>3, <3>1
    <3> QED BY <2>1, <3>1, <3>2 DEF Empty
  <2> QED BY <2>2, <2>3
<1>17. Explained => Explained'
  <2> SUFFICES ASSUME Explained, DebugPoolAllocation
               PROVE  /\ \A p \in 1..(page - 1) : Empty(p)' =>
                           \E c \in DOMAIN calls :
                             calls'[c].releasing /\ OwnPage(c, p + 1)'
                      /\ Len(tokens) = Top.base
    <3>1. DOMAIN calls = DOMAIN calls'
      BY <1>5, CallsTyped DEF IInv, PageInv
    <3> QED BY <1>2, <1>5, <1>6, <3>1 DEF Explained, Empty
  <2>1. ASSUME NEW p \in 1..(page - 1), Empty(p)'
        PROVE  \E c \in DOMAIN calls : calls'[c].releasing /\ OwnPage(c, p + 1)'
    <3>1. PICK c \in DOMAIN calls : calls[c].releasing /\ OwnPage(c, p + 1)
      BY <1>14, <2>1 DEF Explained
    <3>2. c \in 1..Len(calls) /\ Len(calls) \in Nat
      BY CallsTyped DEF IInv, PageInv
    <3>3. c # Len(calls)
      BY <1>1, <3>1 DEF Looping, Top
    <3>4. CallStays(c) /\ calls'[c].releasing
      BY <1>5, <3>1, <3>2, <3>3
    <3>5. c + 1 \in 1..Len(calls)
      BY <3>2, <3>3
    <3>6. CallStays(c + 1)
      BY <1>5, <3>5
    <3>7. OwnPage(c, p + 1)'
      BY <1>2, <1>5, <3>1, <3>4, <3>6 DEF OwnPage, CallStays
    <3> QED BY <3>4, <3>7
  <2> QED BY <1>1, <2>1 DEF IInv, CallOrder
<1> QED BY <1>7, <1>8, <1>9, <1>10, <1>11, <1>12, <1>13, <1>15, <1>16, <1>17
        DEF IInv, PageInv

-----------------------------------------------------------------------------
(* A -dealloc returns *)

\* Nothing becomes of the pages.
SamePages == pages' = pages /\ tls' = tls /\ debug' = debug

LEMMA PagesStay ==
  ASSUME IInv, SamePages, NEW k \in 0..Len(tokens),
         tokens' = SubSeq(tokens, 1, k), hotPage # 0
  PROVE  /\ hotPage' = hotPage /\ ChildrenAreEmpty' /\ NoPageLeaks'
         /\ NoBadPop' /\ TokenOrder'
         /\ calls' \in Seq(Call) => TypeOK'
<1>1. /\ hotPage' = hotPage /\ pages' = pages /\ tls' = tls /\ debug' = debug
      /\ hotPage \in Nat
  BY PagesTyped DEF SamePages, hotPage, IInv, PageInv
<1>2. /\ tokens' \in Seq(Token) /\ Len(tokens') = k /\ TokenOrder'
      /\ \A i \in 1..k : i \in 1..Len(tokens) /\ tokens'[i] = tokens[i]
  BY <1>1, Prefix DEF IInv, PageInv
<1>3. NoBadPop'
  <2>1. ASSUME NEW i \in 1..k
        PROVE  Holds(pages, hotPage, Place(i).page, Place(i).slot)
    <3>1. PICK p, s : p = Place(i).page /\ s = Place(i).slot
      OBVIOUS
    <3>2. /\ p \in Nat /\ p > 0 /\ s \in Nat /\ s > 0 /\ p <= hotPage
          /\ s <= Len(pages[p]) /\ pages[p][s] = POOL_BOUNDARY
      BY <1>2, <3>1, TokensTyped DEF IInv, PageInv
    <3>3. p \in 1..hotPage /\ p \in 1..Len(pages)
      BY <1>1, <3>2, PagesTyped DEF IInv, PageInv
    <3>4. Len(pages[p]) \in Nat
      BY <3>3, PagesTyped DEF IInv, PageInv
    <3>5. s \in 1..Len(pages[p])
      BY <3>2, <3>4
    <3>6. DOMAIN pages[p] = 1..Len(pages[p])
      BY <3>3, PagesTyped DEF IInv, PageInv
    <3> QED BY <3>1, <3>2, <3>3, <3>5, <3>6 DEF Holds
  <2> QED BY <1>1, <1>2, <2>1, BoundariesStay DEF IInv, PageInv
<1>4. ChildrenAreEmpty' /\ NoPageLeaks'
  BY <1>1 DEF IInv, PageInv, ChildrenAreEmpty, NoPageLeaks, Empty
<1>5. calls' \in Seq(Call) => TypeOK'
  BY <1>1, <1>2 DEF IInv, PageInv, TypeOK
<1> QED BY <1>1, <1>2, <1>3, <1>4, <1>5

LEMMA EndReleaseStep ==
  ASSUME IInv, EndRelease
  PROVE  IInv' /\ (TRUE \notin LeftOpen /\ Explained => Explained')
<1>1. /\ calls # <<>> /\ Top.releasing /\ SamePages
      /\ Len(tokens) > Top.base => DebugPoolAllocation \in LeftOpen
      /\ calls' = [calls EXCEPT ![Len(calls)].releasing = FALSE]
      /\ tokens' = SubSeq(tokens, 1, Top.base)
  BY DEF EndRelease, SamePages, Base
<1>2. /\ Top.base \in 0..Len(tokens) /\ Len(tokens) \in Nat
      /\ Top.base \in Nat
      /\ hotPage # 0 /\ hotPage \in Nat /\ Len(calls) \in Nat
      /\ Top = calls[Len(calls)] /\ Len(calls) \in 1..Len(calls)
  <2>1. /\ Top.base \in Nat /\ Top.base <= Len(tokens) /\ Len(calls) \in Nat
        /\ Top = calls[Len(calls)] /\ Len(calls) \in 1..Len(calls)
    BY <1>1, TopCall
  <2>2. Len(tokens) \in Nat
    BY TokensTyped DEF IInv, PageInv
  <2>3. hotPage # 0 /\ hotPage \in Nat
    BY <1>1, PopsHavePages, PagesTyped DEF IInv, PageInv
  <2> QED BY <2>1, <2>2, <2>3
<1>3. /\ calls' \in Seq(Call) /\ Len(calls') = Len(calls)
      /\ DOMAIN calls' = 1..Len(calls) /\ calls' # <<>>
      /\ \A c \in 1..Len(calls) :
           /\ CallStays(c)
           /\ c # Len(calls) => calls'[c].releasing = calls[c].releasing
      /\ Top'.base = Top.base /\ ~Top'.releasing
  BY <1>1, TopReleases
<1>4. /\ hotPage' = hotPage /\ ChildrenAreEmpty' /\ NoPageLeaks'
      /\ NoBadPop' /\ TokenOrder' /\ TypeOK'
  BY <1>1, <1>2, <1>3, PagesStay
<1>5. /\ UNCHANGED <<pages, tls, DebugPoolAllocation, DebugMissingPools>>
      /\ debug' = debug
  BY <1>1 DEF SamePages, debug
<1>6. Len(tokens') = Top.base
  BY <1>2, <1>1, <1>5, Prefix DEF IInv, PageInv
<1>7. OneSparePage' /\ PopsStandFirm'
  <2>1. DOMAIN calls = 1..Len(calls)
    BY CallsTyped DEF IInv, PageInv
  <2>2. PopsStandFirm'
    BY <1>3, <1>4, <1>5, <2>1 DEF IInv, PopsStandFirm, CallStays
  <2> QED BY <1>3, <2>2 DEF OneSparePage
<1>8. CallOrder'
  <2>1. ASSUME NEW c \in 1..Len(calls)
        PROVE  /\ CallStays(c) /\ calls[c].base <= Top.base
               /\ c < Len(calls) => calls'[c].releasing
    <3>1. CallOk(c) /\ calls[c].base <= Top.base
      BY <1>1, EachCall, BelowTop
    <3>2. c < Len(calls) => c # Len(calls)
      BY <1>2
    <3> QED BY <1>3, <3>1, <3>2 DEF CallOk
  <2>2. Len(calls) \in 0..Len(calls)
    BY <1>2
  <2>3. \A c \in 1..Len(calls) : CallOk(c)'
    BY <1>1, <1>2, <1>3, <1>5, <2>1, <2>2, CallsStay
  <2> QED BY <1>3, <1>6, <2>3 DEF CallOrder
<1>9. Packed'
  <2>1. 1 \in 1..Len(calls)
    BY <1>2
  <2>2. calls'[1].page = calls[1].page
    BY <1>3, <2>1 DEF CallStays
  <2> QED BY <1>1, <1>3, <1>4, <1>5, <2>2 DEF IInv, Packed, Empty, Full
<1>10. Rooted'
  BY <1>1, <1>4, <1>5 DEF IInv, Rooted, Empty, Looping
<1>11. TRUE \notin LeftOpen /\ Explained => Explained'
  <2> SUFFICES ASSUME TRUE \notin LeftOpen, Explained, DebugPoolAllocation,
                      NEW p \in 1..(hotPage - 1), Empty(p)
               PROVE  \E c \in DOMAIN calls :
                        calls'[c].releasing /\ OwnPage(c, p + 1)'
    <3>1. DOMAIN calls = DOMAIN calls'
      BY <1>3, CallsTyped DEF IInv, PageInv
    <3> QED BY <1>3, <1>4, <1>5, <3>1 DEF Explained, Empty
  <2>1. PICK c \in DOMAIN calls : calls[c].releasing /\ OwnPage(c, p + 1)
    BY DEF Explained
  <2>2. c \in 1..Len(calls)
    BY CallsTyped DEF IInv, PageInv
  <2>3. DebugPoolAllocation = TRUE
    BY DEF IInv, PageInv, TypeOK, debug
  <2>4. Len(tokens) = Top.base
    <3>1. DebugPoolAllocation \notin LeftOpen
      BY <2>3
    <3>2. ~(Len(tokens) > Top.base)
      BY <1>1, <3>1
    <3>3. Top.base <= Len(tokens)
      BY <1>1, TopCall
    <3> QED BY <1>2, <3>2, <3>3
  <2>5. tokens' = tokens
    BY <1>1, <2>4, TokensTyped DEF IInv, PageInv
  <2>6. c # Len(calls)
    BY <1>2, <2>1, <2>4 DEF OwnPage
  <2>7. CallStays(c) /\ calls'[c].releasing
    BY <1>3, <2>1, <2>2, <2>6
  <2>8. c + 1 \in 1..Len(calls)
    BY <1>2, <2>2, <2>6
  <2>9. CallStays(c + 1)
    BY <1>3, <2>8
  <2>10. OwnPage(c, p + 1)'
    BY <1>3, <2>1, <2>5, <2>7, <2>9 DEF OwnPage, CallStays
  <2> QED BY <2>7, <2>10
<1> QED BY <1>4, <1>7, <1>8, <1>9, <1>10, <1>11 DEF IInv, PageInv

-----------------------------------------------------------------------------
(* A pop begins *)

\* The pop of what is at slot s of page p, which leaves k pools.
Begins(p, s, k, exit) ==
  /\ SamePages /\ tokens' = SubSeq(tokens, 1, k)
  /\ calls' = Append(calls, [page |-> p, stop |-> s - 1, base |-> k,
                             exit |-> exit, releasing |-> FALSE])

\* The pools up to k are below the place, and what was begun before is, too.
Beginning(p, s, k, exit) ==
  /\ k \in 0..Len(tokens)
  /\ p \in 1..hotPage /\ s \in 1..Capacity /\ s - 1 <= Len(pages[p])
  /\ DebugPoolAllocation => s = 1
  /\ \A i \in 1..k : UpTo(Place(i).page, Place(i).slot, p, s - 1)
  /\ \A c \in 1..Len(calls) : calls[c].base <= k /\ Above(c, p, s - 1)
  /\ exit \in BOOLEAN /\ (exit => calls = <<>> /\ p = 1 /\ s = 1)

LEMMA BeginStep ==
  ASSUME IInv, ClientRuns, NEW p, NEW s, NEW k, NEW exit,
         Begins(p, s, k, exit), Beginning(p, s, k, exit)
  PROVE  /\ IInv'
         /\ Len(calls') = Len(calls) + 1
         /\ \A c \in 1..Len(calls) : calls'[c] = calls[c]
         /\ calls'[Len(calls) + 1] =
              [page |-> p, stop |-> s - 1, base |-> k,
               exit |-> exit, releasing |-> FALSE]
<1>1. PICK new : new = [page |-> p, stop |-> s - 1, base |-> k,
                        exit |-> exit, releasing |-> FALSE]
  OBVIOUS
<1>2. /\ hotPage \in Nat /\ Len(calls) \in Nat /\ Capacity \in Nat
      /\ hotPage <= MaxPages /\ MaxPages \in Nat /\ Len(tokens) \in Nat
  BY PagesTyped, CallsTyped, TokensTyped, CapacityAssumption,
     BoundsAssumption DEF IInv, PageInv
<1>3. /\ p \in Nat /\ s \in Nat /\ s > 0 /\ k \in Nat /\ hotPage # 0
      /\ p \in 1..MaxPages /\ s - 1 \in 0..Capacity /\ s - 1 < Capacity
  BY <1>2 DEF Beginning
<1>4. new \in Call
  BY <1>1, <1>3 DEF Call, Beginning
<1>5. /\ calls' = Append(calls, new) /\ calls \in Seq(Call)
      /\ new.page = p /\ new.stop = s - 1 /\ new.base = k /\ new.exit = exit
      /\ ~new.releasing
  BY <1>1, CallsTyped DEF Begins, IInv, PageInv
<1>6. /\ calls' \in Seq(Call) /\ Len(calls') = Len(calls) + 1
      /\ DOMAIN calls' = 1..(Len(calls) + 1) /\ calls' # <<>>
      /\ \A c \in 1..Len(calls) : calls'[c] = calls[c]
      /\ calls'[Len(calls) + 1] = new
  BY <1>4, <1>5
<1>7. Top' = new /\ Looping'
  BY <1>5, <1>6 DEF Top, Looping
<1>8. /\ hotPage' = hotPage /\ ChildrenAreEmpty' /\ NoPageLeaks'
      /\ NoBadPop' /\ TokenOrder' /\ TypeOK'
  BY <1>3, <1>6, PagesStay DEF Begins, Beginning
<1>9. /\ UNCHANGED <<pages, tls, DebugPoolAllocation, DebugMissingPools>>
      /\ debug' = debug
  BY DEF SamePages, debug, Begins
<1>10. Len(tokens') = k /\ \A i \in 1..k : Place(i)' = Place(i)
  BY <1>9, Prefix DEF IInv, PageInv, Begins, Beginning
<1>11. ASSUME NEW c \in 1..(Len(calls) + 1)
       PROVE  \/ c \in 1..Len(calls) /\ calls'[c] = calls[c]
              \/ c = Len(calls) + 1 /\ calls'[c] = new
  BY <1>2, <1>6
<1>12. OneSparePage' /\ PopsStandFirm'
  <2>1. ASSUME NEW c \in 1..(Len(calls) + 1)
        PROVE  /\ calls'[c].page <= hotPage
               /\ calls'[c].stop <= Len(pages[calls'[c].page])
    <3>1. CASE c \in 1..Len(calls) /\ calls'[c] = calls[c]
      BY <1>2, <3>1, PopsHavePages
    <3>2. CASE calls'[c] = new
      BY <1>2, <1>5, <3>2 DEF Beginning
    <3> QED BY <1>11, <3>1, <3>2
  <2>2. PopsStandFirm'
    BY <1>6, <1>8, <1>9, <2>1 DEF PopsStandFirm
  <2> QED BY <1>6, <2>2 DEF OneSparePage
<1>13. ASSUME NEW c \in 1..Len(calls)
       PROVE  CallOk(c)'
  <2>1. /\ CallOk(c) /\ calls'[c] = calls[c] /\ calls[c].base \in Nat
        /\ calls[c].base <= k /\ Above(c, p, s - 1)
    BY <1>6, EachCall, CallsTyped DEF Beginning, IInv, PageInv
  <2>2. ASSUME NEW i \in 1..calls[c].base
        PROVE  UpTo(Place(i)'.page, Place(i)'.slot,
                    calls[c].page, calls[c].stop)
    <3>1. i \in 1..k
      BY <1>3, <2>1
    <3> QED BY <1>10, <2>1, <3>1 DEF CallOk
  <2>3. ASSUME NEW i \in (calls[c].base + 1)..k
        PROVE  Above(c, Place(i)'.page, Place(i)'.slot - 1)
    <3>1. k <= Len(tokens)
      BY <1>2 DEF Beginning
    <3>2. i \in 1..k /\ i \in (calls[c].base + 1)..Len(tokens)
      BY <1>2, <1>3, <2>1, <3>1
    <3> QED BY <1>10, <2>1, <3>2 DEF CallOk
  <2>4. ASSUME NEW d \in (c + 1)..(Len(calls) + 1)
        PROVE  /\ calls[c].base <= calls'[d].base
               /\ Above(c, calls'[d].page, calls'[d].stop)
    <3>1. d \in 1..(Len(calls) + 1)
      BY <1>2
    <3>2. CASE d \in 1..Len(calls) /\ calls'[d] = calls[d]
      <4>1. d \in (c + 1)..Len(calls)
        BY <1>2, <3>2
      <4> QED BY <2>1, <3>2, <4>1 DEF CallOk
    <3>3. CASE calls'[d] = new
      BY <1>5, <2>1, <3>3
    <3> QED BY <1>11, <3>1, <3>2, <3>3
  <2>5. calls[c].releasing
    <3>1. c < Len(calls) \/ c = Len(calls)
      BY <1>2
    <3>2. calls # <<>>
      BY <1>2, CallsTyped DEF IInv, PageInv
    <3> QED BY <2>1, <3>1, <3>2 DEF CallOk, ClientRuns, Top
  <2> QED BY <1>6, <1>9, <1>10, <2>1, <2>2, <2>3, <2>4, <2>5
          DEF CallOk, Above, UpTo
<1>14. ASSUME NEW c, c = Len(calls) + 1
       PROVE  CallOk(c)'
  <2>1. calls'[c] = new /\ Len(calls') = c /\ c \in Nat
    BY <1>2, <1>6, <1>14
  <2>2. \A i \in 1..k : UpTo(Place(i)'.page, Place(i)'.slot, p, s - 1)
    BY <1>10 DEF Beginning
  <2>3. exit => c = 1
    <3>1. exit => Len(calls) = 0
      BY CallsTyped DEF Beginning, IInv, PageInv
    <3> QED BY <1>14, <3>1
  <2>4. (k + 1)..k = {} /\ (c + 1)..c = {}
    BY <1>3, <2>1
  <2>5. DebugPoolAllocation => s - 1 = 0
    BY DEF Beginning
  <2>6. exit => p = 1 /\ s - 1 = 0
    BY DEF Beginning
  <2> QED BY <1>3, <1>5, <1>9, <1>10, <2>1, <2>2, <2>3, <2>4, <2>5, <2>6
          DEF CallOk, UpTo
<1>15. CallOrder'
  BY <1>5, <1>6, <1>7, <1>10, <1>11, <1>13, <1>14 DEF CallOrder
<1>16. Packed'
  <2>1. ASSUME calls # <<>> PROVE calls'[1] = calls[1]
    <3>1. 1 \in 1..Len(calls)
      BY <1>2, <2>1, CallsTyped DEF IInv, PageInv
    <3> QED BY <1>6, <3>1
  <2> QED BY <1>6, <1>8, <1>9, <2>1 DEF IInv, Packed, Empty, Full
<1>17. Rooted'
  <2>1. ~Looping
    BY DEF ClientRuns, Looping
  <2> QED BY <1>8, <1>9, <2>1 DEF IInv, Rooted, Empty
<1> QED BY <1>1, <1>6, <1>8, <1>12, <1>15, <1>16, <1>17 DEF IInv, PageInv

\* Popping the pool i.
LEMMA PoppingPool ==
  ASSUME IInv, ClientRuns, hotPage # 0, NEW i \in (Base + 1)..Len(tokens)
  PROVE  Beginning(Place(i).page, Place(i).slot, i - 1, FALSE)
<1>1. Base \in Nat /\ Len(tokens) \in Nat
  BY TopCall, TokensTyped DEF Base, IInv, PageInv
<1>2. i \in 1..Len(tokens) /\ i - 1 \in 0..Len(tokens)
  BY <1>1
<1>3. PICK p, s : p = Place(i).page /\ s = Place(i).slot
  OBVIOUS
<1>4. /\ p \in Nat /\ p > 0 /\ s \in Nat /\ s > 0 /\ p <= hotPage
      /\ s <= Len(pages[p])
  BY <1>2, <1>3, TokensTyped DEF IInv, PageInv
<1>5. p \in 1..hotPage /\ p \in 1..Len(pages)
  BY <1>4, PagesTyped DEF IInv, PageInv
<1>6. Len(pages[p]) \in Nat /\ Len(pages[p]) <= Capacity /\ Capacity \in Nat
  BY <1>5, PagesTyped, CapacityAssumption DEF IInv, PageInv
<1>7. s \in 1..Capacity /\ s - 1 <= Len(pages[p])
  BY <1>4, <1>6
<1>8. ASSUME NEW j \in 1..(i - 1)
      PROVE  UpTo(Place(j).page, Place(j).slot, p, s - 1)
  <2>1. j \in 1..Len(tokens) /\ j < i
    BY <1>1, <1>2
  <2>2. j \in DOMAIN tokens /\ i \in DOMAIN tokens
    BY <1>2, <2>1, TokensTyped DEF IInv, PageInv
  <2> QED BY <1>3, <2>1, <2>2 DEF IInv, TokenOrder
<1>9. DebugPoolAllocation => s = 1
  BY <1>2, <1>3, TokensTyped DEF IInv, PageInv, TokenOrder
<1>10. ASSUME NEW c \in 1..Len(calls)
       PROVE  calls[c].base <= i - 1 /\ Above(c, p, s - 1)
  <2>1. calls # <<>>
    BY CallsTyped DEF IInv, PageInv
  <2>2. calls[c].base \in Nat /\ calls[c].base <= Base
    BY <2>1, BelowTop, CallsTyped DEF Base, IInv, PageInv
  <2>3. calls[c].base <= i - 1 /\ i \in (calls[c].base + 1)..Len(tokens)
    BY <1>1, <2>2
  <2>4. CallOk(c)
    BY EachCall
  <2> QED BY <1>3, <2>3, <2>4 DEF CallOk
<1> QED BY <1>2, <1>3, <1>5, <1>7, <1>8, <1>9, <1>10 DEF Beginning

LEMMA PopBegins ==
  ASSUME IInv, NEW i \in (Base + 1)..Len(tokens), Pop(i)
  PROVE  \/ /\ hotPage # 0 /\ ClientRuns
            /\ Begins(Place(i).page, Place(i).slot, i - 1, FALSE)
         \/ hotPage = 0 /\ Pageless'
<1>1. /\ ClientRuns /\ debug' = debug
      /\ tokens' = SubSeq(tokens, 1, i - 1)
      /\ \/ tokens[i] = PlaceholderToken /\ PopPlaceholder(i - 1)
         \/ /\ tokens[i] # PlaceholderToken
            /\ BeginPop(tokens[i].page, tokens[i].slot, i - 1, FALSE)
  BY DEF Pop
<1>2. i \in 1..Len(tokens)
  BY TopCall, TokensTyped DEF Base, IInv, PageInv
<1>3. CASE tokens[i] = PlaceholderToken /\ hotPage # 0
  <2>1. BeginPop(1, 1, i - 1, FALSE)
    BY <1>1, <1>3 DEF PopPlaceholder
  <2>2. Place(i) = [page |-> 1, slot |-> 1]
    BY <1>3 DEF Place
  <2> QED BY <1>1, <1>3, <2>1, <2>2 DEF BeginPop, Begins, SamePages
<1>4. CASE tokens[i] = PlaceholderToken /\ hotPage = 0
  <2>1. tls' = 0 /\ UNCHANGED <<pages, calls>>
    BY <1>1, <1>4 DEF PopPlaceholder
  <2>2. pages = <<>> /\ calls = <<>>
    BY <1>4, PopsHavePages
  <2>3. i = 1 /\ tokens \in Seq(Token)
    BY <1>2, <1>4, TokensTyped DEF IInv, PageInv
  <2>4. tokens' = <<>>
    BY <1>1, <2>3
  <2>5. debug' \in BOOLEAN \X BOOLEAN
    BY <1>1 DEF IInv, PageInv, TypeOK
  <2> QED BY <1>4, <2>1, <2>2, <2>4, <2>5 DEF Pageless
<1>5. CASE tokens[i] # PlaceholderToken
  <2>1. Place(i) = tokens[i] /\ hotPage # 0
    BY <1>2, <1>5, TokensTyped DEF IInv, PageInv
  <2> QED BY <1>1, <1>5, <2>1 DEF BeginPop, Begins, SamePages
<1> QED BY <1>3, <1>4, <1>5

\* An own page whose pool is being popped becomes the page of the pop.
LEMMA PopExplained ==
  ASSUME IInv, Explained, ClientRuns, hotPage # 0,
         NEW i \in (Base + 1)..Len(tokens),
         Begins(Place(i).page, Place(i).slot, i - 1, FALSE)
  PROVE  Explained'
<1>1. Beginning(Place(i).page, Place(i).slot, i - 1, FALSE)
  BY PoppingPool
<1>2. PICK p, s : p = Place(i).page /\ s = Place(i).slot
  OBVIOUS
<1>3. PICK k : k = i - 1
  OBVIOUS
<1>4. /\ Len(calls') = Len(calls) + 1
      /\ \A c \in 1..Len(calls) : calls'[c] = calls[c]
      /\ calls'[Len(calls) + 1] =
           [page |-> p, stop |-> s - 1, base |-> k,
            exit |-> FALSE, releasing |-> FALSE]
  <2>1. Beginning(p, s, k, FALSE) /\ Begins(p, s, k, FALSE)
    BY <1>1, <1>2, <1>3
  <2> QED BY <2>1, BeginStep
<1>5. /\ UNCHANGED <<pages, tls, DebugPoolAllocation, DebugMissingPools>>
      /\ hotPage' = hotPage /\ debug' = debug
      /\ tokens' = SubSeq(tokens, 1, k)
  BY <1>3 DEF Begins, SamePages, debug, hotPage
<1>6. k \in 0..Len(tokens)
  BY <1>1, <1>3 DEF Beginning
<1>7. Len(tokens') = k /\ \A j \in 1..k : tokens'[j] = tokens[j]
  BY <1>5, <1>6, Prefix DEF IInv, PageInv
<1>8. /\ Len(calls) \in Nat /\ Len(tokens) \in Nat /\ Base \in Nat
      /\ i \in 1..Len(tokens) /\ k \in Nat /\ Base <= k /\ i = k + 1
  <2>1. /\ Len(calls) \in Nat /\ Len(tokens) \in Nat /\ Base \in Nat
    BY CallsTyped, TokensTyped, TopCall DEF Base, IInv, PageInv
  <2> QED BY <1>3, <2>1
<1>9. DOMAIN calls' = 1..(Len(calls) + 1)
  <2>1. calls \in Seq(Call)
    BY CallsTyped DEF IInv, PageInv
  <2>2. PICK x : calls' = Append(calls, x)
    BY DEF Begins
  <2> QED BY <2>1, <2>2
<1>10. ~Top'.releasing
  BY <1>4 DEF Top
<1>11. ASSUME DebugPoolAllocation, NEW e \in 1..(hotPage - 1), Empty(e)
       PROVE  \E c \in DOMAIN calls' : calls'[c].releasing /\ OwnPage(c, e + 1)'
  <2>1. PICK c \in DOMAIN calls : calls[c].releasing /\ OwnPage(c, e + 1)
    BY <1>11 DEF Explained
  <2>2. /\ c \in 1..Len(calls) /\ calls # <<>> /\ calls[c].base \in Nat
    BY <2>1, CallsTyped DEF IInv, PageInv
  <2>3. calls[c].base <= Base /\ Top = calls[Len(calls)] /\ Base = Top.base
        /\ Len(calls) \in 1..Len(calls)
    BY <2>2, BelowTop, TopCall DEF Base
  <2>4. c \in DOMAIN calls' /\ calls'[c] = calls[c]
    BY <1>4, <1>8, <1>9, <2>2
  <2>5. CASE /\ c < Len(calls) /\ calls[c + 1].base = calls[c].base
             /\ calls[c + 1].page = e + 1 /\ calls[c + 1].stop = 0
    <3>1. c + 1 \in 1..Len(calls) /\ c < Len(calls) + 1
      BY <1>8, <2>2, <2>5
    <3>2. calls'[c + 1] = calls[c + 1]
      BY <1>4, <3>1
    <3>3. OwnPage(c, e + 1)'
      BY <1>4, <2>4, <2>5, <3>1, <3>2 DEF OwnPage
    <3> QED BY <2>1, <2>4, <3>3
  <2>6. CASE /\ Len(tokens) > calls[c].base
             /\ tokens[calls[c].base + 1].page = e + 1
    <3>1. CASE calls[c].base < k
      <4>1. calls[c].base + 1 \in 1..k
        BY <1>8, <2>2, <3>1
      <4>2. tokens'[calls[c].base + 1] = tokens[calls[c].base + 1]
        BY <1>7, <4>1
      <4>3. OwnPage(c, e + 1)'
        BY <1>7, <1>8, <2>2, <2>4, <2>6, <3>1, <4>2 DEF OwnPage
      <4> QED BY <2>1, <2>4, <4>3
    <3>2. CASE ~(calls[c].base < k)
      <4>1. calls[c].base = k /\ Base = k
        BY <1>8, <2>2, <2>3, <3>2
      <4>2. tokens[i].page = e + 1
        BY <1>8, <2>6, <4>1
      <4>3. tokens[i] # PlaceholderToken
        BY <4>2 DEF PlaceholderToken, EMPTY_POOL_PLACEHOLDER
      <4>4. p = e + 1 /\ s = 1
        <5>1. Place(i) = tokens[i]
          BY <4>3 DEF Place
        <5>2. i \in DOMAIN tokens
          BY <1>8, TokensTyped DEF IInv, PageInv
        <5> QED BY <1>2, <1>11, <4>2, <5>1, <5>2 DEF IInv, TokenOrder
      <4>5. /\ calls'[Len(calls)] = calls[Len(calls)]
            /\ calls[Len(calls)].releasing /\ calls[Len(calls)].base = k
            /\ Len(calls) \in DOMAIN calls' /\ Len(calls) < Len(calls')
        BY <1>4, <1>8, <1>9, <2>2, <2>3, <4>1 DEF ClientRuns
      <4>6. /\ calls'[Len(calls) + 1].base = k
            /\ calls'[Len(calls) + 1].page = e + 1
            /\ calls'[Len(calls) + 1].stop = 0
        BY <1>4, <4>4
      <4>7. PICK n : n = Len(calls)
        OBVIOUS
      <4>8. OwnPage(n, e + 1)'
        BY <4>5, <4>6, <4>7 DEF OwnPage
      <4> QED BY <4>5, <4>7, <4>8
    <3> QED BY <3>1, <3>2
  <2> QED BY <2>1, <2>5, <2>6 DEF OwnPage
<1> QED BY <1>5, <1>10, <1>11 DEF Explained, Empty

LEMMA PopStep ==
  ASSUME IInv, NEW i \in (Base + 1)..Len(tokens), Pop(i)
  PROVE  IInv' /\ (Explained => Explained')
<1>1. CASE /\ hotPage # 0 /\ ClientRuns
           /\ Begins(Place(i).page, Place(i).slot, i - 1, FALSE)
  BY <1>1, PoppingPool, BeginStep, PopExplained
<1>2. CASE Pageless'
  BY <1>2, BackToNoPages
<1> QED BY <1>1, <1>2, PopBegins

-----------------------------------------------------------------------------
(* A pop ends *)

\* Where a pop ends, there is nothing above its page, but for pages of pools
\* that a -dealloc has left open.
LEMMA AtTheEnd ==
  ASSUME IInv, EndLoop, NEW p, p = Top.page
  PROVE  /\ calls # <<>> /\ Looping /\ ~Top.releasing
         /\ p \in 1..hotPage /\ p \in 1..Len(pages)
         /\ Len(pages[p]) = Top.stop /\ Len(pages[p]) < Capacity
         /\ DebugPoolAllocation => Empty(p)
         /\ ~DebugPoolAllocation => p = hotPage
         /\ Len(tokens) = Top.base
<1>1. /\ calls # <<>> /\ Looping /\ ~Top.releasing
      /\ Len(pages[p]) = Top.stop
  BY DEF EndLoop, Looping
<1>2. /\ p \in 1..hotPage /\ Len(calls) \in 1..Len(calls)
      /\ Top = calls[Len(calls)]
  BY <1>1, TopCall
<1>3. /\ hotPage \in Nat /\ p \in 1..Len(pages)
  BY <1>2, PagesTyped DEF IInv, PageInv
<1>4. CallOk(Len(calls))
  BY <1>2, EachCall
<1>5. Len(pages[p]) < Capacity
  BY <1>1, <1>2, <1>4 DEF CallOk
<1>6. DebugPoolAllocation => Empty(p)
  BY <1>1, <1>2, <1>3, <1>4, PagesTyped DEF CallOk, IInv, PageInv
<1>7. ASSUME ~DebugPoolAllocation PROVE p = hotPage
  <2>1. ~Full(p)
    BY <1>5, <1>3, PagesTyped, CapacityAssumption DEF Full, IInv, PageInv
  <2>2. p \in 1..(hotPage - 1) => Full(p)
    BY <1>7 DEF IInv, Packed
  <2> QED BY <1>2, <1>3, <2>1, <2>2
<1>8. Len(tokens) = Top.base
  BY <1>1 DEF IInv, CallOrder
<1> QED BY <1>1, <1>2, <1>3, <1>5, <1>6, <1>7, <1>8

\* The pages that are left.
LEMMA PagesLeft ==
  ASSUME IInv, EndLoop, NEW p, p = Top.page
  PROVE  \/ /\ Kept(p) = p - 1 /\ Empty(p)
            /\ DebugPoolAllocation \/ (DebugMissingPools /\ p = 1)
         \/ /\ ~DebugPoolAllocation /\ p = hotPage
            /\ ~(Empty(p) /\ DebugMissingPools /\ p = 1)
            /\ Kept(p) = p
            /\ p = Len(pages) \/ lessThanHalfFull(p)
         \/ /\ ~DebugPoolAllocation /\ p = hotPage
            /\ ~(Empty(p) /\ DebugMissingPools /\ p = 1)
            /\ Kept(p) = p + 1 /\ p < Len(pages) /\ ~lessThanHalfFull(p)
<1>1. /\ p \in 1..Len(pages) /\ Len(pages) \in Nat
      /\ DebugPoolAllocation => Empty(p)
      /\ ~DebugPoolAllocation => p = hotPage
  BY AtTheEnd, PagesTyped DEF IInv, PageInv
<1>2. p # Len(pages) => p < Len(pages)
  BY <1>1
<1> QED BY <1>1, <1>2 DEF Kept

LEMMA AfterEndPop ==
  ASSUME IInv, EndPop, NEW p, p = Top.page
  PROVE  /\ hotPage' = tls' /\ debug' = debug /\ tokens' = tokens
         /\ tls' \in Nat /\ tls' \in {p, p - 1}
         /\ tls' = p - 1 => Empty(p) /\ Len(pages') = p - 1
                            /\ (DebugPoolAllocation
                                  \/ (DebugMissingPools /\ p = 1))
         /\ tls' = p => /\ ~DebugPoolAllocation /\ p = hotPage
                        /\ ~(Empty(p) /\ DebugMissingPools /\ p = 1)
                        /\ IF lessThanHalfFull(p) THEN Len(pages') = p
                           ELSE Len(pages') \in {p, p + 1}
         /\ pages' \in Seq(Seq(Entry)) /\ Len(pages') \in Nat
         /\ Len(pages') <= Len(pages)
         /\ \A e \in 1..Len(pages') :
              e \in 1..Len(pages) /\ pages'[e] = pages[e]
<1>1. /\ p \in 1..Len(pages) /\ p \in 1..hotPage /\ Len(pages) \in Nat
      /\ pages \in Seq(Seq(Entry)) /\ EndLoop
  BY AtTheEnd, PagesTyped DEF IInv, PageInv, EndPop
<1>2. /\ pages' = SubSeq(pages, 1, Kept(p))
      /\ tls' = IF Kept(p) < p THEN Kept(p) ELSE p
      /\ debug' = debug /\ tokens' = tokens
  BY DEF EndPop
<1>3. PICK k : k = Kept(p)
  OBVIOUS
<1>4. k \in Nat /\ k <= Len(pages) /\ k \in {p - 1, p, p + 1}
  BY <1>1, <1>3, PagesLeft
<1>5. /\ pages' \in Seq(Seq(Entry)) /\ Len(pages') = k
      /\ \A e \in 1..k : e \in 1..Len(pages) /\ pages'[e] = pages[e]
  BY <1>1, <1>2, <1>3, <1>4
<1>6. tls' = IF k = p - 1 THEN p - 1 ELSE p
  BY <1>1, <1>2, <1>3, <1>4
<1>7. tls' \in Nat /\ tls' \in {p, p - 1} /\ p # p - 1
  BY <1>1, <1>6
<1>8. hotPage' = tls'
  BY <1>7 DEF hotPage, EMPTY_POOL_PLACEHOLDER
<1>9. tls' = p - 1 => Empty(p) /\ Len(pages') = p - 1
                      /\ (DebugPoolAllocation \/ (DebugMissingPools /\ p = 1))
  BY <1>1, <1>3, <1>5, <1>6, <1>7, PagesLeft
<1>10. tls' = p => /\ ~DebugPoolAllocation /\ p = hotPage
                   /\ ~(Empty(p) /\ DebugMissingPools /\ p = 1)
                   /\ IF lessThanHalfFull(p) THEN Len(pages') = p
                      ELSE Len(pages') \in {p, p + 1}
  BY <1>1, <1>3, <1>5, <1>6, <1>7, PagesLeft
<1> QED BY <1>2, <1>4, <1>5, <1>7, <1>8, <1>9, <1>10

LEMMA CallEnds ==
  ASSUME IInv, calls # <<>>, calls' = SubSeq(calls, 1, Len(calls) - 1)
  PROVE  /\ calls' \in Seq(Call) /\ Len(calls') = Len(calls) - 1
         /\ Len(calls') \in 0..Len(calls)
         /\ DOMAIN calls' = 1..Len(calls')
         /\ \A c \in 1..Len(calls') :
              /\ c \in 1..Len(calls) /\ c < Len(calls) /\ calls'[c] = calls[c]
              /\ calls[c].releasing /\ CallStays(c)
         /\ calls' # <<>> => Top'.releasing
         /\ ~Looping'
<1>1. calls \in Seq(Call) /\ Len(calls) \in Nat /\ Len(calls) # 0
  BY CallsTyped DEF IInv, PageInv
<1>2. PICK m \in Nat : m = Len(calls) - 1 /\ m < Len(calls)
  <2>1. \A n \in Nat : n # 0 => n - 1 \in Nat /\ n - 1 < n
    OBVIOUS
  <2> QED BY <1>1, <2>1
<1>3. /\ calls' \in Seq(Call) /\ Len(calls') = m
      /\ DOMAIN calls' = 1..m
      /\ \A c \in 1..m : c \in 1..Len(calls) /\ calls'[c] = calls[c]
  BY <1>1, <1>2
<1>4. ASSUME NEW c \in 1..m
      PROVE  c < Len(calls) /\ calls[c].releasing /\ CallStays(c)
  <2>1. c < Len(calls)
    BY <1>1, <1>2
  <2>2. CallOk(c)
    BY <1>3, EachCall
  <2> QED BY <1>3, <2>1, <2>2 DEF CallOk, CallStays
<1>5. m \in 0..Len(calls)
  BY <1>1, <1>2
<1>6. calls' # <<>> => Top'.releasing
  <2>1. calls' # <<>> => m \in 1..m
    BY <1>2, <1>3
  <2> QED BY <1>3, <1>4, <2>1 DEF Top
<1> QED BY <1>2, <1>3, <1>4, <1>5, <1>6 DEF Looping

LEMMA EndPopStep ==
  ASSUME IInv, EndPop
  PROVE  IInv' /\ (Explained => Explained')
<1>1. PICK p : p = Top.page
  OBVIOUS
<1>2. /\ EndLoop /\ calls # <<>> /\ Looping /\ ~Top.releasing
      /\ p \in 1..hotPage /\ p \in 1..Len(pages)
      /\ Len(pages[p]) = Top.stop
      /\ Len(tokens) = Top.base
  BY <1>1, AtTheEnd DEF EndPop
<1>3. /\ hotPage' = tls' /\ debug' = debug /\ tokens' = tokens
      /\ tls' \in Nat /\ tls' \in {p, p - 1}
      /\ tls' = p - 1 => Empty(p) /\ Len(pages') = p - 1
                         /\ (DebugPoolAllocation
                               \/ (DebugMissingPools /\ p = 1))
      /\ tls' = p => /\ ~DebugPoolAllocation /\ p = hotPage
                     /\ ~(Empty(p) /\ DebugMissingPools /\ p = 1)
                     /\ IF lessThanHalfFull(p) THEN Len(pages') = p
                        ELSE Len(pages') \in {p, p + 1}
      /\ pages' \in Seq(Seq(Entry)) /\ Len(pages') \in Nat
      /\ Len(pages') <= Len(pages)
      /\ \A e \in 1..Len(pages') : e \in 1..Len(pages) /\ pages'[e] = pages[e]
  BY <1>1, AfterEndPop
<1>4. /\ calls' \in Seq(Call) /\ Len(calls') = Len(calls) - 1
      /\ Len(calls') \in 0..Len(calls) /\ DOMAIN calls' = 1..Len(calls')
      /\ \A c \in 1..Len(calls') :
           /\ c \in 1..Len(calls) /\ c < Len(calls) /\ calls'[c] = calls[c]
           /\ calls[c].releasing /\ CallStays(c)
      /\ calls' # <<>> => Top'.releasing
      /\ ~Looping'
  BY <1>2, CallEnds DEF EndPop
<1>5. /\ hotPage \in Nat /\ hotPage <= Len(pages) /\ Len(pages) \in Nat
      /\ Len(pages) <= MaxPages /\ p \in Nat /\ p > 0 /\ MaxPages \in Nat
      /\ \A e \in 1..Len(pages) :
           /\ Len(pages[e]) \in Nat /\ Len(pages[e]) <= Capacity
           /\ Empty(e) <=> Len(pages[e]) = 0
  BY <1>2, PagesTyped, BoundsAssumption DEF IInv, PageInv
<1>6. UNCHANGED <<DebugPoolAllocation, DebugMissingPools>>
  BY <1>3 DEF debug
<1>7. Top.page = p /\ Top.stop = Len(pages[p]) /\ Len(pages[p]) \in Nat
  BY <1>1, <1>2, <1>5
<1>8. /\ tls' \in Nat /\ p \in Nat /\ hotPage \in Nat /\ tls' <= p
       /\ p <= hotPage /\ tls' <= Len(pages') /\ Len(pages') \in Nat
  <2>1. p <= hotPage
    BY <1>2, <1>5
  <2>2. tls' <= p
    BY <1>3, <1>5
  <2>3. tls' <= Len(pages')
    BY <1>3, <1>5
  <2> QED BY <1>3, <1>5, <2>1, <2>2, <2>3
\* What is not above the end of the pop is still there.
<1>9. ASSUME NEW e \in Nat, e > 0, NEW s \in Nat,
             UpTo(e, s, p, Len(pages[p])), e = p => tls' = p \/ s > 0
      PROVE  e <= tls' /\ e \in 1..Len(pages') /\ pages'[e] = pages[e]
  <2>1. e <= p
    BY <1>5, <1>9 DEF UpTo
  <2>2. e = p /\ tls' = p - 1 => FALSE
    <3>1. tls' = p - 1 => Len(pages[p]) = 0 /\ tls' # p
      BY <1>2, <1>3, <1>5
    <3>2. e = p => s <= Len(pages[p])
      BY <1>5, <1>9 DEF UpTo
    <3> QED BY <1>9, <3>1, <3>2
  <2>3. e <= tls'
    BY <1>3, <1>5, <2>1, <2>2
  <2>4. tls' <= Len(pages')
    BY <1>3, <1>5
  <2>5. e \in 1..Len(pages')
    BY <1>3, <1>9, <2>3, <2>4
  <2> QED BY <1>3, <2>3, <2>5
<1>10. TypeOK'
  <2>1. tls' \in {EMPTY_POOL_PLACEHOLDER} \cup 0..Len(pages')
    BY <1>3, <1>5
  <2>2. DOMAIN pages' = 1..Len(pages')
    BY <1>3
  <2>3. Len(pages') <= MaxPages
    BY <1>3, <1>5
  <2>4. \A e \in 1..Len(pages') : Len(pages'[e]) <= Capacity
    BY <1>3, <1>5
  <2> QED BY <1>3, <1>4, <2>1, <2>2, <2>3, <2>4 DEF TypeOK, IInv, PageInv, Entry
<1>11. ChildrenAreEmpty'
  <2> SUFFICES ASSUME NEW e \in (tls' + 1)..Len(pages') PROVE Empty(e)'
    BY <1>3 DEF ChildrenAreEmpty
  <2>1. tls' = p
    <3>1. \A n \in Nat : (n + 1)..n = {}
      OBVIOUS
    <3>2. tls' = p - 1 => Len(pages') = tls'
      BY <1>3
    <3>3. tls' # Len(pages')
      BY <1>3, <3>1
    <3> QED BY <1>3, <3>2, <3>3
  <2>2. e \in 1..Len(pages') /\ e > hotPage
    BY <1>3, <1>5, <2>1
  <2>3. e \in (hotPage + 1)..Len(pages) /\ pages'[e] = pages[e]
    BY <1>3, <1>5, <2>2
  <2> QED BY <2>3 DEF IInv, PageInv, ChildrenAreEmpty, Empty
<1>12. OneSparePage'
  <2>1. CASE tls' = p - 1
    <3>1. Len(pages') = tls'
      BY <1>3, <2>1
    <3> QED BY <1>3, <3>1 DEF OneSparePage
  <2>2. CASE tls' = p
    <3>1. IF lessThanHalfFull(p) THEN Len(pages') = p
          ELSE Len(pages') \in {p, p + 1}
      BY <1>3, <2>2
    <3>2. p \in 1..Len(pages')
      BY <1>3, <1>5, <2>2
    <3>3. lessThanHalfFull(p)' <=> lessThanHalfFull(p)
      BY <1>3, <3>2 DEF lessThanHalfFull
    <3> QED BY <1>3, <2>2, <3>1, <3>3 DEF OneSparePage, lessThanHalfFull
  <2> QED BY <1>3, <2>1, <2>2
<1>13. ASSUME NEW i \in 1..Len(tokens)
       PROVE  /\ tls' # 0
              /\ Holds(pages', hotPage', Place(i).page, Place(i).slot)
  <2>1. PICK e, s : e = Place(i).page /\ s = Place(i).slot
    OBVIOUS
  <2>2. /\ UpTo(e, s, p, Len(pages[p])) /\ e \in 1..hotPage
        /\ s \in DOMAIN pages[e] /\ pages[e][s] = POOL_BOUNDARY
    BY <1>2, <1>7, <2>1, PoolsBelowTop DEF Holds
  <2>3. e \in Nat /\ e > 0 /\ s \in Nat /\ s > 0
    BY <2>1, TokensTyped DEF IInv, PageInv
  <2>4. e <= tls' /\ pages'[e] = pages[e]
    BY <1>9, <2>2, <2>3
  <2> QED BY <1>3, <2>1, <2>2, <2>3, <2>4 DEF Holds
<1>14. NoBadPop' /\ NoPageLeaks'
  <2>1. NoPageLeaks'
    <3>1. tls' = 0 => Len(pages') = 0
      BY <1>3, <1>5
    <3>2. Len(pages') = 0 => pages' = <<>>
      BY <1>3
    <3> QED BY <1>3, <3>1, <3>2 DEF NoPageLeaks
  <2>2. tokens \in Seq(Token) /\ Len(tokens) \in Nat
        /\ DOMAIN tokens = 1..Len(tokens)
    BY TokensTyped DEF IInv, PageInv
  <2>3. CASE tls' # 0
    <3>1. hotPage' \in Nat \ {0}
      BY <1>3, <2>3
    <3> QED BY <1>3, <1>13, <2>1, <2>2, <3>1, BoundariesStay DEF IInv, PageInv
  <2>4. CASE tls' = 0
    <3>1. \A i \in 1..Len(tokens) : FALSE
      BY <1>13, <2>4
    <3> QED BY <1>3, <2>1, <2>2, <3>1 DEF NoBadPop
  <2> QED BY <2>3, <2>4
<1>15. ASSUME NEW c \in 1..Len(calls')
       PROVE  /\ calls[c].page <= tls'
              /\ calls[c].page \in Nat /\ calls[c].page > 0
              /\ pages'[calls[c].page] = pages[calls[c].page]
              /\ DebugPoolAllocation => calls[c].page < p
  <2>1. PICK e, s : e = calls[c].page /\ s = calls[c].stop
    OBVIOUS
  <2>2. /\ c \in 1..Len(calls) /\ c < Len(calls) /\ Len(calls) \in Nat
        /\ Len(calls) \in 1..Len(calls) /\ Top = calls[Len(calls)]
    BY <1>2, <1>4, TopCall
  <2>3. e \in Nat /\ e > 0 /\ s \in Nat
    BY <2>1, <2>2, CallsTyped DEF IInv, PageInv
  <2>4. Above(c, p, Len(pages[p]))
    <3>1. CallOk(c) /\ Len(calls) \in (c + 1)..Len(calls)
      BY <2>2, EachCall
    <3> QED BY <1>7, <2>2, <3>1 DEF CallOk
  <2>5. UpTo(e, s, p, Len(pages[p]))
    BY <2>1, <2>4 DEF Above
  <2>6. e = p => tls' = p
    <3>1. CASE tls' = p - 1
      <4>1. Len(pages[p]) = 0 /\ (DebugPoolAllocation
                                   \/ (DebugMissingPools /\ p = 1))
        BY <1>2, <1>3, <1>5, <3>1
      <4>2. DebugPoolAllocation => e < p
        BY <2>1, <2>4 DEF Above
      <4>3. DebugMissingPools => ~(p = 1 /\ Len(pages[p]) = 0)
        BY <2>4 DEF Above
      <4> QED BY <1>5, <2>3, <4>1, <4>2, <4>3
    <3> QED BY <1>3, <3>1
  <2>7. e <= tls' /\ pages'[e] = pages[e]
    BY <1>9, <2>3, <2>5, <2>6
  <2> QED BY <2>1, <2>3, <2>4, <2>7 DEF Above
<1>16. PopsStandFirm'
  <2>1. ASSUME NEW c \in 1..Len(calls')
        PROVE  /\ calls'[c].page <= tls'
               /\ calls'[c].stop <= Len(pages'[calls'[c].page])
    <3>1. c \in 1..Len(calls) /\ calls'[c] = calls[c]
      BY <1>4
    <3>2. calls[c].stop <= Len(pages[calls[c].page])
      BY <3>1, PopsHavePages
    <3> QED BY <1>15, <3>1, <3>2
  <2> QED BY <1>3, <1>4, <2>1 DEF PopsStandFirm
<1>17. TokenOrder'
  BY <1>3, SamePools DEF IInv, PageInv
<1>18. CallOrder'
  <2>1. /\ Len(tokens) \in 0..Len(tokens)
        /\ tokens' = SubSeq(tokens, 1, Len(tokens))
    BY <1>3, TokensTyped DEF IInv, PageInv
  <2>2. \A c \in 1..Len(calls') :
          /\ CallStays(c) /\ calls[c].base <= Len(tokens)
          /\ c < Len(calls') => calls'[c].releasing
    BY <1>4, EachCall DEF CallOk
  <2>3. \A c \in 1..Len(calls') : CallOk(c)'
    BY <1>3, <1>4, <2>1, <2>2, CallsStay
  <2> QED BY <1>4, <2>3 DEF CallOrder
<1>19. ASSUME NEW e \in 1..(tls' - 1)
       PROVE  /\ e \in 1..(hotPage - 1) /\ pages'[e] = pages[e]
              /\ Empty(e)' => Empty(e)
  <2>1. /\ tls' \in Nat /\ p \in Nat /\ hotPage \in Nat /\ tls' <= p
        /\ p <= hotPage /\ tls' <= Len(pages') /\ Len(pages') \in Nat
    BY <1>8
  <2>2. \A t, q, h, n \in Nat : t <= q /\ q <= h /\ t <= n =>
          \A x \in 1..(t - 1) : x \in 1..(h - 1) /\ x \in 1..n
    OBVIOUS
  <2>3. e \in 1..(hotPage - 1) /\ e \in 1..Len(pages')
    BY <2>1, <2>2
  <2> QED BY <1>3, <2>3 DEF Empty
<1>20. calls' = <<>> => calls[1].page = p
  <2>1. Len(calls) \in Nat /\ Len(calls) \in 1..Len(calls)
        /\ Top = calls[Len(calls)]
    BY <1>2, TopCall
  <2>2. calls' = <<>> => Len(calls') = 0
    OBVIOUS
  <2>3. calls' = <<>> => Len(calls) = 1
    BY <1>4, <2>1, <2>2
  <2> QED BY <1>7, <2>1, <2>3
<1>21. Packed'
  <2>1. ~DebugPoolAllocation => \A e \in 1..(tls' - 1) : Full(e)'
    BY <1>19 DEF IInv, Packed, Full
  <2>2. ASSUME NEW e \in 1..(tls' - 1), Empty(e)'
        PROVE  calls' # <<>> /\ calls'[1].page <= e
    <3>1. calls[1].page <= e
      BY <1>19, <2>2 DEF IInv, Packed
    <3>2. calls' # <<>>
      <4>1. tls' \in Nat /\ p \in Nat /\ tls' <= p
        BY <1>8
      <4>2. \A t, q \in Nat : t <= q => \A x \in 1..(t - 1) : ~(q <= x)
        OBVIOUS
      <4>3. ~(p <= e)
        BY <4>1, <4>2
      <4> QED BY <1>20, <3>1, <4>3
    <3>3. 1 \in 1..Len(calls')
      BY <1>4, <3>2
    <3> QED BY <1>4, <3>1, <3>2, <3>3
  <2>3. tls' # EMPTY_POOL_PLACEHOLDER
    BY <1>3 DEF EMPTY_POOL_PLACEHOLDER
  <2>4. ASSUME DebugPoolAllocation, calls' = <<>>, tls' # 0
        PROVE  pages'[tls'] # <<>>
    <3>1. tls' = p - 1
      BY <1>3, <2>4
    <3>2. PICK e \in Nat : e = tls'
      BY <1>8
    <3>3. e \in 1..(hotPage - 1) /\ e \in 1..Len(pages') /\ ~(p <= e)
      <4>1. e # 0 /\ e = p - 1 /\ e <= Len(pages') /\ Len(pages') \in Nat
            /\ p \in Nat /\ hotPage \in Nat /\ p <= hotPage
        BY <1>8, <2>4, <3>1, <3>2
      <4> QED BY <4>1
    <3>4. Empty(e) => p <= e
      BY <1>20, <2>4, <3>3 DEF IInv, Packed
    <3> QED BY <1>3, <3>2, <3>3, <3>4 DEF Empty
  <2> QED BY <1>3, <1>6, <2>1, <2>2, <2>3, <2>4 DEF Packed, Empty, Full
<1>22. Rooted'
  <2> SUFFICES ASSUME DebugMissingPools, tls' # 0
               PROVE  /\ ~Empty(1)' => pages'[1][1] = POOL_BOUNDARY
                      /\ ~Empty(1)'
    BY <1>3, <1>6 DEF Rooted, Empty
  <2>1. 1 \in 1..Len(pages') /\ hotPage # 0
    BY <1>2, <1>3, <1>5
  <2>2. pages'[1] = pages[1]
    BY <1>3, <2>1
  <2>3. ~Empty(1)
    <3>1. Empty(1) => hotPage = 1
      BY <2>1 DEF IInv, Rooted
    <3>2. hotPage = 1 => p = 1 /\ tls' = p
      BY <1>2, <1>3, <1>5
    <3> QED BY <1>3, <3>1, <3>2
  <2> QED BY <2>1, <2>2, <2>3 DEF IInv, Rooted, Empty
<1>23. Explained => Explained'
  <2> SUFFICES ASSUME Explained, DebugPoolAllocation
               PROVE  /\ \A e \in 1..(tls' - 1) : Empty(e)' =>
                           \E c \in DOMAIN calls' :
                             calls'[c].releasing /\ OwnPage(c, e + 1)'
                      /\ calls' # <<>> /\ pages'[tls'] = <<>> =>
                           Len(tokens) = Top'.base
    BY <1>3, <1>6 DEF Explained, Empty
  <2>0. /\ Len(calls) \in Nat /\ Len(calls) \in 1..Len(calls)
        /\ Top = calls[Len(calls)]
        /\ tls' = p - 1
    BY <1>2, <1>3, TopCall
  \* The pop's own page is not the one that explains an empty page.
  <2>1. ASSUME NEW c \in DOMAIN calls, NEW e \in 1..(hotPage - 1),
               calls[c].releasing, OwnPage(c, e + 1)
        PROVE  /\ c \in 1..Len(calls')
               /\ \/ e = p - 1 /\ c = Len(calls') /\ calls[c].base = Top.base
                  \/ /\ Len(tokens) > calls[c].base
                     /\ tokens[calls[c].base + 1].page = e + 1
                  \/ /\ c + 1 \in 1..Len(calls')
                     /\ calls[c + 1].base = calls[c].base
                     /\ calls[c + 1].page = e + 1 /\ calls[c + 1].stop = 0
    <3>1. c \in 1..Len(calls) /\ c # Len(calls)
      BY <1>2, <2>0, <2>1, CallsTyped DEF IInv, PageInv
    <3>2. c \in 1..Len(calls')
      BY <1>4, <2>0, <3>1
    <3>3. CASE c + 1 = Len(calls) /\ calls[c + 1].base = calls[c].base
               /\ calls[c + 1].page = e + 1
      <4>1. e = p - 1 /\ c = Len(calls')
        BY <1>4, <1>5, <1>7, <2>0, <3>1, <3>3
      <4> QED BY <2>0, <3>2, <3>3, <4>1
    <3>4. CASE c + 1 # Len(calls)
      <4>1. c + 1 \in 1..Len(calls')
        BY <1>4, <2>0, <3>1, <3>4
      <4> QED BY <2>1, <3>2, <4>1 DEF OwnPage
    <3> QED BY <2>1, <3>2, <3>3, <3>4 DEF OwnPage
  <2>2. ASSUME NEW e \in 1..(tls' - 1), Empty(e)'
        PROVE  \E c \in DOMAIN calls' :
                 calls'[c].releasing /\ OwnPage(c, e + 1)'
    <3>1. e \in 1..(hotPage - 1) /\ Empty(e) /\ e # p - 1
      BY <1>3, <1>5, <1>19, <2>0, <2>2
    <3>2. PICK c \in DOMAIN calls : calls[c].releasing /\ OwnPage(c, e + 1)
      BY <3>1 DEF Explained
    <3>3. /\ c \in 1..Len(calls')
          /\ \/ /\ Len(tokens) > calls[c].base
                /\ tokens[calls[c].base + 1].page = e + 1
             \/ /\ c + 1 \in 1..Len(calls')
                /\ calls[c + 1].base = calls[c].base
                /\ calls[c + 1].page = e + 1 /\ calls[c + 1].stop = 0
      BY <2>1, <3>1, <3>2
    <3>4. c \in DOMAIN calls' /\ calls'[c] = calls[c]
      BY <1>4, <3>3
    <3>5. OwnPage(c, e + 1)'
      <4>1. CASE /\ Len(tokens) > calls[c].base
                 /\ tokens[calls[c].base + 1].page = e + 1
        BY <1>3, <3>4, <4>1 DEF OwnPage
      <4>2. CASE /\ c + 1 \in 1..Len(calls')
                 /\ calls[c + 1].base = calls[c].base
                 /\ calls[c + 1].page = e + 1 /\ calls[c + 1].stop = 0
        <5>1. calls'[c + 1] = calls[c + 1]
          BY <1>4, <4>2
        <5>2. c < Len(calls')
          BY <1>4, <2>0, <3>3, <4>2
        <5> QED BY <3>4, <4>2, <5>1, <5>2 DEF OwnPage
      <4> QED BY <3>3, <4>1, <4>2
    <3> QED BY <3>2, <3>4, <3>5
  <2>3. ASSUME calls' # <<>>, pages'[tls'] = <<>>
        PROVE  Len(tokens) = Top'.base
    <3>1. tls' \in 1..(hotPage - 1)
      <4>1. Len(calls') \in 1..Len(calls')
        BY <1>4, <2>0, <2>3
      <4>2. PICK e : e = calls[Len(calls')].page
        OBVIOUS
      <4>3. e <= tls' /\ e \in Nat /\ e > 0
        BY <1>15, <4>1, <4>2
      <4> QED BY <1>2, <1>3, <1>5, <2>0, <4>3
    <3>2. PICK e \in 1..(hotPage - 1) : e = p - 1 /\ e = tls'
      BY <2>0, <3>1
    <3>3. Empty(e)
      <4>1. e \in Nat /\ e > 0
        <5>1. \A h \in Nat : \A x \in 1..(h - 1) : x \in Nat /\ x > 0
          OBVIOUS
        <5>2. hotPage \in Nat
          BY <1>8
        <5> QED BY <5>1, <5>2
      <4>3. e <= Len(pages') /\ Len(pages') \in Nat
        <5>1. e = tls'
          BY <3>2
        <5> QED BY <1>8, <5>1
      <4>2. e \in 1..Len(pages')
        BY <4>1, <4>3
      <4> QED BY <1>3, <2>3, <3>2, <4>2 DEF Empty
    <3>4. PICK c \in DOMAIN calls : calls[c].releasing /\ OwnPage(c, e + 1)
      BY <3>3 DEF Explained
    <3>5. e + 1 = p
      BY <1>5, <3>2
    <3>6. CASE c = Len(calls') /\ calls[c].base = Top.base
      BY <1>2, <1>4, <2>1, <3>4, <3>6 DEF Top
    <3>7. CASE /\ Len(tokens) > calls[c].base
               /\ tokens[calls[c].base + 1].page = p
      <4>1. PICK i : i = calls[c].base + 1
        OBVIOUS
      <4>2. i \in 1..Len(tokens)
        BY <3>7, <4>1, CallsTyped, TokensTyped DEF IInv, PageInv
      <4>3. tokens[i] # PlaceholderToken
        BY <1>5, <3>7, <4>1 DEF PlaceholderToken, EMPTY_POOL_PLACEHOLDER
      <4>4. Place(i) = tokens[i]
        BY <4>3 DEF Place
      <4>5. Place(i).slot \in DOMAIN pages[p]
        BY <1>2, <3>7, <4>1, <4>2, <4>4, PoolsBelowTop DEF Holds
      <4>6. pages[p] = <<>>
        BY <1>3, <1>5, <2>0 DEF Empty
      <4> QED BY <4>5, <4>6
    <3>8. CASE c + 1 \in 1..Len(calls') /\ calls[c + 1].page = p
      BY <1>5, <1>15, <3>8
    <3> QED BY <2>1, <3>4, <3>5, <3>6, <3>7, <3>8
  <2> QED BY <2>2, <2>3
<1> QED BY <1>10, <1>11, <1>12, <1>14, <1>16, <1>17, <1>18, <1>21, <1>22, <1>23
        DEF IInv, PageInv

-----------------------------------------------------------------------------
(* The thread ends *)

LEMMA NothingLeft ==
  ASSUME IInv, pages' = <<>>, tls' = 0, tokens' = <<>>, calls' = <<>>,
         debug' = debug
  PROVE  IInv' /\ Explained'
<1>1. debug' \in BOOLEAN \X BOOLEAN
  BY DEF IInv, PageInv, TypeOK
<1> QED BY <1>1, BackToNoPages DEF Pageless

\* Where no pop is in progress, only an only page can be empty.
LEMMA EmptyColdPage ==
  ASSUME IInv, calls = <<>>, hotPage # 0, Empty(1)
  PROVE  ~DebugPoolAllocation /\ ~DebugMissingPools /\ hotPage = 1
<1>1. hotPage \in Nat
  BY PagesTyped DEF IInv, PageInv
<1>2. 1 \notin 1..(hotPage - 1)
  BY DEF IInv, Packed
<1>3. hotPage = 1
  BY <1>1, <1>2
<1>4. ~Looping
  BY DEF Looping
<1> QED BY <1>3, <1>4 DEF IInv, Packed, Rooted

LEMMA BeginExitStep ==
  ASSUME IInv, BeginExit
  PROVE  IInv' /\ (Explained => Explained')
<1>1. calls = <<>> /\ tokens' = <<>> /\ debug' = debug /\ Len(calls) = 0
  BY DEF BeginExit
<1>2. tokens \in Seq(Token) /\ Len(tokens) \in Nat /\ calls \in Seq(Call)
  BY TokensTyped, CallsTyped DEF IInv, PageInv
<1>3. CASE /\ tls = EMPTY_POOL_PLACEHOLDER /\ tls' = 0
           /\ UNCHANGED <<pages, calls>>
  <2>1. hotPage = 0
    BY <1>3 DEF hotPage
  <2>2. pages' = <<>> /\ calls' = <<>>
    BY <1>1, <1>3, <2>1 DEF IInv, PageInv, NoPageLeaks
  <2> QED BY <1>1, <1>3, <2>2, NothingLeft
<1>4. CASE hotPage # 0 /\ ~Empty(1) /\ BeginPop(1, 1, 0, TRUE)
  <2>1. tokens' = SubSeq(tokens, 1, 0)
    BY <1>1, <1>2
  <2>2. Begins(1, 1, 0, TRUE)
    BY <1>1, <1>4, <2>1 DEF Begins, BeginPop, SamePages
  <2>3. hotPage \in Nat /\ 1 \in 1..hotPage /\ 1 \in 1..Len(pages)
    BY <1>4, PagesTyped DEF IInv, PageInv
  <2>4. 1 \in 1..Capacity /\ 1 - 1 <= Len(pages[1])
    BY <2>3, PagesTyped, CapacityAssumption DEF IInv, PageInv
  <2>5. 0 \in 0..Len(tokens)
    BY <1>2
  <2>6. Beginning(1, 1, 0, TRUE)
    BY <1>1, <2>3, <2>4, <2>5 DEF Beginning
  <2>7. /\ IInv' /\ Len(calls') = 1
        /\ calls'[1] = [page |-> 1, stop |-> 0, base |-> 0,
                        exit |-> TRUE, releasing |-> FALSE]
    <3>1. ClientRuns
      BY <1>1 DEF ClientRuns
    <3>2. PICK p, s, k, exit : p = 1 /\ s = 1 /\ k = 0 /\ exit = TRUE
      OBVIOUS
    <3>3. Begins(p, s, k, exit) /\ Beginning(p, s, k, exit)
      BY <2>2, <2>6, <3>2
    <3>4. /\ IInv' /\ Len(calls') = Len(calls) + 1
          /\ calls'[Len(calls) + 1] =
               [page |-> p, stop |-> s - 1, base |-> k,
                exit |-> exit, releasing |-> FALSE]
      BY <3>1, <3>3, BeginStep
    <3> QED BY <1>1, <3>2, <3>4
  <2>8. /\ UNCHANGED <<pages, tls, DebugPoolAllocation, DebugMissingPools>>
        /\ hotPage' = hotPage
    BY <2>2 DEF Begins, SamePages, debug, hotPage
  <2>9. ~Top'.releasing
    BY <2>7 DEF Top
  <2>10. \A page \in 1..(hotPage - 1) : ~Empty(page)
    BY <1>1 DEF IInv, Packed
  <2> QED BY <2>7, <2>8, <2>9, <2>10 DEF Explained, Empty
<1>5. CASE hotPage # 0 /\ Empty(1) /\ EndThread(Len(pages)) /\ UNCHANGED calls
  <2>1. ~DebugPoolAllocation /\ ~DebugMissingPools
    BY <1>1, <1>5, EmptyColdPage
  <2> QED BY <1>1, <1>5, <2>1, NothingLeft DEF EndThread
<1> QED BY <1>3, <1>4, <1>5 DEF BeginExit

LEMMA ThreadEnds ==
  ASSUME IInv, EndExit
  PROVE  /\ EndLoop /\ debug' = debug /\ Top.page = 1 /\ Top.stop = 0
         /\ pages' = <<>> /\ tls' = 0 /\ calls' = <<>>
         /\ tokens = <<>> /\ tokens' = <<>>
<1>1. EndLoop /\ Top.exit /\ debug' = debug /\ tokens' = tokens
  BY DEF EndExit
<1>2. /\ calls # <<>> /\ Looping /\ Len(calls) \in 1..Len(calls)
      /\ Top = calls[Len(calls)] /\ Len(tokens) = Top.base
      /\ Len(pages[Top.page]) = Top.stop
  BY <1>1, AtTheEnd, TopCall
<1>3. Len(calls) = 1 /\ Top.page = 1 /\ Top.stop = 0
  <2>1. CallOk(Len(calls))
    BY <1>2, EachCall
  <2> QED BY <1>1, <1>2, <2>1 DEF CallOk
<1>4. tokens = <<>> /\ tokens' = <<>>
  <2>1. ASSUME NEW i \in 1..Len(tokens) PROVE FALSE
    <3>1. UpTo(Place(i).page, Place(i).slot, 1, 0)
      BY <1>2, <1>3, PoolsBelowTop
    <3>2. /\ Place(i).page \in Nat /\ Place(i).page > 0
          /\ Place(i).slot \in Nat /\ Place(i).slot > 0
      BY TokensTyped DEF IInv, PageInv
    <3> QED BY <3>1, <3>2 DEF UpTo
  <2>2. Len(tokens) \in Nat /\ (Len(tokens) = 0 => tokens = <<>>)
    BY TokensTyped DEF IInv, PageInv
  <2>3. Len(tokens) = 0
    BY <2>1, <2>2
  <2> QED BY <1>1, <2>2, <2>3
<1>5. calls' = <<>>
  BY <1>3, CallsTyped DEF EndExit, IInv, PageInv
<1>6. pages' = <<>> /\ tls' = 0
  <2>1. pages \in Seq(Seq(Entry)) /\ Empty(1)
    <3>1. Top.page \in 1..Len(pages)
      BY <1>1, AtTheEnd
    <3> QED BY <1>2, <1>3, <3>1, PagesTyped DEF IInv, PageInv
  <2>2. DebugPoolAllocation \/ DebugMissingPools => Kept(1) = 0
    BY <2>1 DEF Kept
  <2>3. SubSeq(pages, 1, 0) = <<>>
    BY <2>1
  <2> QED BY <1>3, <2>2, <2>3 DEF EndExit, EndThread
<1> QED BY <1>1, <1>3, <1>4, <1>5, <1>6

LEMMA EndExitStep ==
  ASSUME IInv, EndExit
  PROVE  IInv' /\ (Explained => Explained')
BY ThreadEnds, NothingLeft

-----------------------------------------------------------------------------
(* Every step *)

LEMMA NextStep ==
  ASSUME IInv, [Next]_vars
  PROVE  IInv' /\ (TRUE \notin LeftOpen /\ Explained => Explained')
<1>1. CASE Push
  BY <1>1, PushStep
<1>2. CASE Release
  <2>1. PICK page \in DOMAIN pages : Releasing(page)
    BY <1>2 DEF Release, Releasing
  <2> QED BY <2>1, ReleaseStep
<1>3. CASE EndRelease
  BY <1>3, EndReleaseStep
<1>4. CASE EndPop
  BY <1>4, EndPopStep
<1>5. CASE BeginExit
  BY <1>5, BeginExitStep
<1>6. CASE EndExit
  BY <1>6, EndExitStep
<1>7. ASSUME NEW obj \in Objects, Autorelease(obj)
      PROVE  IInv' /\ (Explained => Explained')
  BY <1>7, AutoreleaseStep
<1>8. ASSUME NEW i \in (Base + 1)..Len(tokens), Pop(i)
      PROVE  IInv' /\ (Explained => Explained')
  BY <1>8, PopStep
<1>9. CASE UNCHANGED vars
  BY <1>9, StutterStep
<1> QED BY <1>1, <1>2, <1>3, <1>4, <1>5, <1>6, <1>7, <1>8, <1>9 DEF Next

(* However deep pops, -deallocs and the pools that they push are nested,   *)
(* and in every debugging mode: a page is empty above the hot one, one at  *)
(* most is spare, every token still names its boundary, and no page is     *)
(* lost when the thread has none.                                          *)
THEOREM PagesAreInOrder == Spec => []PageInv
<1>1. Init => IInv
  BY Initially
<1>2. IInv /\ [Next]_vars => IInv'
  BY NextStep
<1>3. IInv => PageInv
  BY DEF IInv
<1> QED BY <1>1, <1>2, <1>3, PTL DEF Spec

(* Whatever the -deallocs that a pop calls push, autorelease and pop: the  *)
(* page that the pop stands on is never freed, and nothing below the place *)
(* where it stops is released.                                             *)
THEOREM PopsKeepTheirPlace == Spec => []PopsStandFirm
<1>1. Init => IInv
  BY Initially
<1>2. IInv /\ [Next]_vars => IInv'
  BY NextStep
<1>3. IInv => PopsStandFirm
  BY DEF IInv
<1> QED BY <1>1, <1>2, <1>3, PTL DEF Spec

\* From the page on where a pop stops that looks for something to release, no
\* page below the hot one is empty.
LEMMA NoneEmptyOnTheWay ==
  ASSUME IInv, Explained, Looping, NEW e \in 1..(hotPage - 1),
         Top.page <= e, Empty(e)
  PROVE  FALSE
<1>1. /\ calls # <<>> /\ ~Top.releasing /\ Len(tokens) = Top.base
      /\ Len(calls) \in Nat /\ Len(calls) \in 1..Len(calls)
      /\ Top = calls[Len(calls)] /\ Top.page \in 1..hotPage
  BY TopCall DEF Looping, IInv, CallOrder
<1>2. /\ hotPage \in Nat /\ hotPage <= Len(pages) /\ Len(pages) \in Nat
      /\ Top.page \in Nat /\ Top.page < e + 1
      /\ e + 1 \in Nat /\ e + 1 > 1 /\ e + 1 <= hotPage /\ e \in 1..Len(pages)
  <2>1. /\ hotPage \in Nat /\ hotPage <= Len(pages) /\ Len(pages) \in Nat
        /\ Top.page \in Nat
    BY <1>1, PagesTyped DEF IInv, PageInv
  <2>2. PICK h, n, p : h = hotPage /\ n = Len(pages) /\ p = Top.page
    OBVIOUS
  <2>3. /\ h \in Nat /\ h <= n /\ n \in Nat /\ p \in Nat /\ p <= e
        /\ e \in 1..(h - 1)
    BY <2>1, <2>2
  <2>4. /\ p < e + 1 /\ e + 1 \in Nat /\ e + 1 > 1 /\ e + 1 <= h
        /\ e \in 1..n
    BY <2>3
  <2> QED BY <2>1, <2>2, <2>4
<1>3. DebugPoolAllocation
  <2>1. ~Full(e)
    BY <1>2, PagesTyped, CapacityAssumption DEF Full, IInv, PageInv
  <2> QED BY <2>1 DEF IInv, Packed
<1>4. PICK c \in DOMAIN calls : calls[c].releasing /\ OwnPage(c, e + 1)
  BY <1>3 DEF Explained
<1>5. c \in 1..Len(calls) /\ c < Len(calls)
  <2>1. c \in 1..Len(calls) /\ c # Len(calls)
    BY <1>1, <1>4, CallsTyped DEF IInv, PageInv
  <2> QED BY <1>1, <2>1
<1>6. CASE /\ Len(tokens) > calls[c].base
           /\ tokens[calls[c].base + 1].page = e + 1
  <2>1. PICK i : i = calls[c].base + 1
    OBVIOUS
  <2>2. i \in 1..Len(tokens)
    <3>1. calls[c].base \in Nat /\ Len(tokens) \in Nat
      BY <1>5, CallsTyped, TokensTyped DEF IInv, PageInv
    <3> QED BY <1>6, <2>1, <3>1
  <2>3. tokens[i] # PlaceholderToken
    BY <1>2, <1>6, <2>1 DEF PlaceholderToken, EMPTY_POOL_PLACEHOLDER
  <2>4. Place(i) = tokens[i] /\ Place(i).page = e + 1
    BY <1>6, <2>1, <2>3 DEF Place
  <2>5. UpTo(Place(i).page, Place(i).slot, Top.page, Top.stop)
    BY <2>2, PoolsBelowTop
  <2> QED BY <1>2, <2>4, <2>5 DEF UpTo
<1>7. CASE calls[c + 1].page = e + 1
  <2>1. c + 1 \in 1..Len(calls)
    BY <1>1, <1>5
  <2>2. UpTo(calls[c + 1].page, calls[c + 1].stop, Top.page, Top.stop)
    BY <1>1, <2>1, BelowTop
  <2> QED BY <1>2, <1>7, <2>2 DEF UpTo
<1> QED BY <1>4, <1>6, <1>7 DEF OwnPage

\* A pop that goes on finds something on the parent of an empty hot page.
LEMMA ParentIsNotEmpty ==
  ASSUME IInv, Explained, Looping, Len(pages[Top.page]) # Top.stop,
         Empty(hotPage)
  PROVE  hotPage > 1 /\ ~Empty(hotPage - 1)
<1>1. /\ Top.page \in 1..hotPage /\ Top.page \in Nat /\ Top.page > 0
      /\ Top.stop \in Nat /\ Top.stop <= Len(pages[Top.page])
  BY TopCall, PagesTyped DEF Looping, IInv, PageInv
<1>2. hotPage \in Nat /\ hotPage <= Len(pages) /\ Len(pages) \in Nat
  BY PagesTyped DEF IInv, PageInv
<1>3. Top.page # hotPage
  <2>1. hotPage \in 1..Len(pages)
    BY <1>1, <1>2
  <2>2. Len(pages[hotPage]) = 0
    BY <2>1, PagesTyped DEF IInv, PageInv
  <2> QED BY <1>1, <2>2
<1>4. PICK e : e = hotPage - 1
  OBVIOUS
<1>5. e \in 1..(hotPage - 1) /\ Top.page <= e /\ hotPage > 1
  BY <1>1, <1>2, <1>3, <1>4
<1>6. ~Empty(e)
  BY <1>5, NoneEmptyOnTheWay
<1> QED BY <1>4, <1>5, <1>6

\* A pop ends on the hot page.
LEMMA EndsOnHotPage ==
  ASSUME IInv, Explained, EndLoop
  PROVE  Top.page = hotPage
<1>1. /\ Looping /\ Top.page \in 1..hotPage
      /\ DebugPoolAllocation => Empty(Top.page)
      /\ ~DebugPoolAllocation => Top.page = hotPage
  BY AtTheEnd
<1>2. hotPage \in Nat
  BY PagesTyped DEF IInv, PageInv
<1>3. ASSUME Top.page # hotPage PROVE FALSE
  <2>1. PICK e : e = Top.page
    OBVIOUS
  <2>2. e \in 1..(hotPage - 1) /\ Top.page <= e /\ Empty(e)
    BY <1>1, <1>2, <1>3, <2>1
  <2> QED BY <1>1, <2>2, NoneEmptyOnTheWay
<1> QED BY <1>3

(* What the comment at the loop over parents in releaseUntil could not     *)
(* prove: where a -dealloc pops what it pushes when every pool has a page  *)
(* of its own, the parent of an empty hot page is never empty.             *)
THEOREM WhileIsIf ==
  ASSUME TRUE \notin LeftOpen
  PROVE  Spec => []WhileCanBeIf
<1>1. Init => IInv /\ Explained
  BY Initially
<1>2. (IInv /\ Explained) /\ [Next]_vars => (IInv /\ Explained)'
  BY NextStep
<1>3. IInv /\ Explained => WhileCanBeIf
  BY ParentIsNotEmpty DEF WhileCanBeIf
<1> QED BY <1>1, <1>2, <1>3, PTL DEF Spec

(* The assertion of debug builds at the end of releaseUntil, where a        *)
(* -dealloc pops what it pushes: when a pop has got to the place where it  *)
(* stops, nothing is left on the pages after it.                           *)
THEOREM NothingIsLeftBehind ==
  ASSUME TRUE \notin LeftOpen
  PROVE  Spec => []ReleasedEverything
<1>1. Init => IInv /\ Explained
  BY Initially
<1>2. (IInv /\ Explained) /\ [Next]_vars => (IInv /\ Explained)'
  BY NextStep
<1>3. IInv /\ Explained => ReleasedEverything
  BY EndsOnHotPage
     DEF ReleasedEverything, IInv, PageInv, ChildrenAreEmpty
<1> QED BY <1>1, <1>2, <1>3, PTL DEF Spec

-----------------------------------------------------------------------------
(* Sequences of sequences, one after the other *)

\* Induction, by the least number that is not in the set.
LEMMA SetInduction ==
  ASSUME NEW S, 0 \in S, \A n \in Nat : n \in S => n + 1 \in S
  PROVE  Nat \subseteq S
<1> SUFFICES ASSUME NEW x \in Nat, x \notin S PROVE FALSE
  OBVIOUS
<1> DEFINE T == {n \in Nat : n \notin S}
<1>1. T \subseteq Nat /\ T # {}
  OBVIOUS
<1> HIDE DEF T
<1>2. PICK m \in T : \A k \in T : ~ (<<k, m>> \in OpToRel(<, Nat))
  BY <1>1, NatLessThanWellFounded, WFMin
<1>3. m \in Nat /\ m \notin S
  BY <1>2 DEF T
<1>4. m - 1 \in Nat /\ (m - 1) + 1 = m
  BY <1>3
<1>5. m - 1 < m
  BY <1>3
<1>6. m - 1 \notin T
  BY <1>2, <1>3, <1>4, <1>5 DEF OpToRel
<1>7. m - 1 \in S
  BY <1>4, <1>6 DEF T
<1> QED BY <1>3, <1>4, <1>7

LEMMA FirstPart ==
  ASSUME NEW X, NEW s \in Seq(X), NEW n \in 0..Len(s)
  PROVE  /\ SubSeq(s, 1, n) \in Seq(X) /\ Len(SubSeq(s, 1, n)) = n
         /\ \A i \in 1..n : SubSeq(s, 1, n)[i] = s[i]
OBVIOUS

LEMMA SameElements ==
  ASSUME NEW X, NEW s \in Seq(X), NEW r \in Seq(X), Len(s) = Len(r),
         \A i \in 1..Len(s) : s[i] = r[i]
  PROVE  s = r
OBVIOUS

LEMMA ConcatType ==
  ASSUME NEW X, NEW a \in Seq(X), NEW b \in Seq(X)
  PROVE  a \o b \in Seq(X) /\ Len(a \o b) = Len(a) + Len(b)
OBVIOUS

LEMMA ConcatAppend ==
  ASSUME NEW X, NEW a \in Seq(X), NEW b \in Seq(X), NEW e \in X
  PROVE  a \o Append(b, e) = Append(a \o b, e)
<1>1. PICK s, r : s = a \o Append(b, e) /\ r = Append(a \o b, e)
  OBVIOUS
<1>2. s \in Seq(X) /\ r \in Seq(X) /\ Len(s) = Len(r)
  BY <1>1
<1>3. \A i \in 1..Len(s) : s[i] = r[i]
  BY <1>1
<1> QED BY <1>1, <1>2, <1>3, SameElements

LEMMA ConcatFront ==
  ASSUME NEW X, NEW a \in Seq(X), NEW b \in Seq(X), NEW n, n = Len(b), n # 0
  PROVE  /\ SubSeq(a \o b, 1, Len(a \o b) - 1) = a \o SubSeq(b, 1, n - 1)
         /\ (a \o b)[Len(a \o b)] = b[n] /\ Len(a \o b) = Len(a) + n
<1>1. PICK c \in Seq(X) : c = a \o b
  BY ConcatType
<1>2. PICK m \in Nat : m = Len(a)
  OBVIOUS
<1>3. /\ n \in Nat /\ Len(c) = m + n
      /\ \A i \in 1..m : c[i] = a[i]
      /\ \A i \in 1..n : c[m + i] = b[i]
  BY <1>1, <1>2
<1>4. c[Len(c)] = b[n]
  <2>1. n \in 1..n
    BY <1>3
  <2> QED BY <1>3, <2>1
<1>5. PICK s, r, d :
        s = SubSeq(c, 1, m + n - 1) /\ d = SubSeq(b, 1, n - 1) /\ r = a \o d
  OBVIOUS
<1>6. /\ s \in Seq(X) /\ Len(s) = m + n - 1
      /\ \A i \in 1..(m + n - 1) : s[i] = c[i]
  <2>1. m + n - 1 \in 0..Len(c)
    BY <1>3
  <2> QED BY <1>5, <2>1, FirstPart
<1>7. d \in Seq(X) /\ Len(d) = n - 1 /\ \A i \in 1..(n - 1) : d[i] = b[i]
  <2>1. n - 1 \in 0..Len(b)
    BY <1>3
  <2> QED BY <1>5, <2>1, FirstPart
<1>8. /\ r \in Seq(X) /\ Len(r) = m + n - 1
      /\ \A i \in 1..m : r[i] = a[i]
      /\ \A i \in 1..(n - 1) : r[m + i] = d[i]
  BY <1>2, <1>3, <1>5, <1>7
<1>9. ASSUME NEW i \in 1..(m + n - 1) PROVE s[i] = r[i]
  <2>1. CASE i <= m
    <3>1. i \in 1..m
      BY <1>2, <2>1
    <3> QED BY <1>3, <1>6, <1>8, <3>1
  <2>2. CASE i > m
    <3>1. PICK j : j = i - m
      OBVIOUS
    <3>2. j \in 1..(n - 1) /\ j \in 1..n /\ i = m + j
      BY <1>2, <1>3, <2>2, <3>1
    <3>3. c[m + j] = b[j] /\ r[m + j] = d[j] /\ d[j] = b[j]
      BY <1>3, <1>7, <1>8, <3>2
    <3> QED BY <1>6, <3>2, <3>3
  <2> QED BY <1>2, <1>3, <2>1, <2>2
<1>10. s = r
  BY <1>6, <1>8, <1>9, SameElements
<1>11. SubSeq(c, 1, Len(c) - 1) = a \o SubSeq(b, 1, n - 1)
  <2>1. Len(c) - 1 = m + n - 1
    BY <1>3
  <2> QED BY <1>5, <1>10, <2>1
<1>12. Len(c) = Len(a) + n
  BY <1>2, <1>3
<1> QED BY <1>1, <1>4, <1>11, <1>12

\* f[i] is the first i of the sequences, one after the other.
Joins(s, n, f) ==
  /\ f = [i \in 1..n |-> f[i]]
  /\ \A i \in 1..n : f[i] = IF i = 1 THEN s[i] ELSE f[i - 1] \o s[i]

LEMMA JoinExists ==
  ASSUME NEW s, NEW n \in Nat
  PROVE  \E f : Joins(s, n, f)
<1> DEFINE S == {m \in Nat : \E f : Joins(s, m, f)}
<1>1. 0 \in S
  <2>1. Joins(s, 0, [i \in 1..0 |-> i])
    BY DEF Joins
  <2> QED BY <2>1
<1>2. ASSUME NEW m \in Nat, m \in S PROVE m + 1 \in S
  <2>1. PICK g : Joins(s, m, g)
    BY <1>2
  <2> DEFINE last == IF m + 1 = 1 THEN s[m + 1] ELSE g[m] \o s[m + 1]
  <2>2. PICK e : e = last
    OBVIOUS
  <2> DEFINE f == [i \in 1..(m + 1) |-> IF i = m + 1 THEN e ELSE g[i]]
  <2>3. f = [i \in 1..(m + 1) |-> f[i]]
    OBVIOUS
  <2>4. ASSUME NEW i \in 1..(m + 1)
        PROVE  f[i] = IF i = 1 THEN s[i] ELSE f[i - 1] \o s[i]
    <3>1. CASE i = m + 1
      <4>1. f[i] = e
        BY <3>1
      <4>2. i # 1 => f[i - 1] = g[m]
        BY <3>1
      <4> HIDE DEF f
      <4> QED BY <2>2, <3>1, <4>1, <4>2
    <3>2. CASE i # m + 1
      <4>1. i \in 1..m /\ (i # 1 => i - 1 \in 1..m /\ i - 1 # m + 1)
        BY <3>2
      <4>2. f[i] = g[i]
        BY <3>2
      <4>3. i # 1 => i - 1 \in 1..(m + 1) /\ f[i - 1] = g[i - 1]
        BY <4>1
      <4>4. g[i] = IF i = 1 THEN s[i] ELSE g[i - 1] \o s[i]
        BY <2>1, <4>1 DEF Joins
      <4> HIDE DEF f
      <4> QED BY <4>2, <4>3, <4>4
    <3> QED BY <3>1, <3>2
  <2> HIDE DEF f
  <2>5. Joins(s, m + 1, f)
    BY <2>3, <2>4 DEF Joins
  <2> QED BY <2>5
<1> HIDE DEF S
<1>3. n \in S
  BY <1>1, <1>2, SetInduction
<1> QED BY <1>3 DEF S

LEMMA JoinUnique ==
  ASSUME NEW s, NEW r, NEW n \in Nat, NEW m \in Nat, NEW f, NEW g,
         Joins(s, n, f), Joins(r, m, g), NEW k \in 1..n, k <= m,
         \A i \in 1..k : s[i] = r[i]
  PROVE  f[k] = g[k]
<1> DEFINE S == {j \in Nat : j >= 1 /\ j <= k => f[j] = g[j]}
<1>1. 0 \in S
  OBVIOUS
<1>2. ASSUME NEW j \in Nat, j \in S PROVE j + 1 \in S
  <2> SUFFICES ASSUME j + 1 <= k PROVE f[j + 1] = g[j + 1]
    OBVIOUS
  <2>1. j + 1 \in 1..n /\ j + 1 \in 1..m /\ j + 1 \in 1..k
    OBVIOUS
  <2>2. PICK i : i = j + 1
    OBVIOUS
  <2>3. /\ f[i] = IF i = 1 THEN s[i] ELSE f[i - 1] \o s[i]
        /\ g[i] = IF i = 1 THEN r[i] ELSE g[i - 1] \o r[i]
    BY <2>1, <2>2 DEF Joins
  <2>4. s[i] = r[i]
    BY <2>1, <2>2
  <2>5. i # 1 => i - 1 = j /\ f[j] = g[j]
    BY <1>2, <2>2
  <2> HIDE DEF S
  <2>6. f[i] = g[i]
    BY <2>3, <2>4, <2>5
  <2> QED BY <2>2, <2>6
<1> HIDE DEF S
<1>3. Nat \subseteq S
  BY <1>1, <1>2, SetInduction
<1>4. k \in S /\ k >= 1 /\ k \in Nat
  BY <1>3
<1> QED BY <1>4 DEF S

LEMMA FlattenIs ==
  ASSUME NEW s, Len(s) \in Nat \ {0}
  PROVE  \E f : Joins(s, Len(s), f) /\ FlattenSeq(s) = f[Len(s)]
<1> DEFINE J(f) ==
      f = [i \in 1..Len(s) |-> IF i = 1 THEN s[i] ELSE f[i - 1] \o s[i]]
<1>1. FlattenSeq(s) = (CHOOSE f : J(f))[Len(s)]
  BY DEF FlattenSeq
<1>2. PICK g : Joins(s, Len(s), g)
  BY JoinExists
<1>3. J(g)
  BY <1>2, Zenon DEF Joins
<1> HIDE DEF J
<1>4. PICK f : f = CHOOSE h : J(h)
  OBVIOUS
<1>5. J(f)
  BY <1>3, <1>4
<1>6. Joins(s, Len(s), f)
  BY <1>5 DEF Joins, J
<1> QED BY <1>1, <1>4, <1>6

LEMMA FlattenEmpty == FlattenSeq(<<>>) = <<>>
BY DEF FlattenSeq

\* The last of the sequences comes last.
LEMMA FlattenLast ==
  ASSUME NEW X, NEW s \in Seq(Seq(X)), NEW n, n = Len(s), n # 0
  PROVE  FlattenSeq(s) = FlattenSeq(SubSeq(s, 1, n - 1)) \o s[n]
<1>1. n \in Nat /\ n \in 1..n
  OBVIOUS
<1>2. PICK f : Joins(s, n, f) /\ FlattenSeq(s) = f[n]
  BY <1>1, FlattenIs
<1>3. f[n] = IF n = 1 THEN s[n] ELSE f[n - 1] \o s[n]
  BY <1>1, <1>2 DEF Joins
<1>4. PICK r : r = SubSeq(s, 1, n - 1)
  OBVIOUS
<1>5. Len(r) = n - 1 /\ \A i \in 1..(n - 1) : r[i] = s[i]
  BY <1>1, <1>4
<1>6. CASE n = 1
  <2>1. r = <<>>
    BY <1>4, <1>6
  <2>2. s[n] \in Seq(X)
    BY <1>1
  <2>3. <<>> \o s[n] = s[n]
    BY <2>2
  <2>4. FlattenSeq(r) = <<>>
    BY <2>1, FlattenEmpty
  <2> QED BY <1>2, <1>3, <1>4, <1>6, <2>3, <2>4
<1>7. CASE n # 1
  <2>1. PICK m : m = n - 1
    OBVIOUS
  <2>2. m \in Nat \ {0} /\ m <= n /\ m \in 1..m
    BY <1>1, <1>7, <2>1
  <2>3. PICK g : Joins(r, m, g) /\ FlattenSeq(r) = g[m]
    BY <1>5, <2>1, <2>2, FlattenIs
  <2>4. \A i \in 1..m : r[i] = s[i]
    BY <1>5, <2>1
  <2>5. g[m] = f[m]
    <3>1. m \in Nat /\ n \in Nat
      BY <1>1, <2>2
    <3>2. /\ m \in Nat /\ n \in Nat /\ m \in 1..m /\ m <= n
          /\ Joins(r, m, g) /\ Joins(s, n, f)
          /\ \A i \in 1..m : r[i] = s[i]
      BY <1>2, <2>2, <2>3, <2>4, <3>1
    <3> QED BY ONLY <3>2, JoinUnique
  <2> QED BY <1>2, <1>3, <1>4, <1>7, <2>1, <2>3, <2>5
<1> QED BY <1>6, <1>7

LEMMA FlattenType ==
  ASSUME NEW X, NEW s \in Seq(Seq(X))
  PROVE  FlattenSeq(s) \in Seq(X)
<1> DEFINE S == {n \in Nat : \A r \in Seq(Seq(X)) :
                               Len(r) = n => FlattenSeq(r) \in Seq(X)}
<1>1. 0 \in S
  <2>1. ASSUME NEW r \in Seq(Seq(X)), Len(r) = 0
        PROVE  FlattenSeq(r) \in Seq(X)
    <3>1. r = <<>>
      BY <2>1
    <3>2. <<>> \in Seq(X)
      OBVIOUS
    <3> HIDE DEF S
    <3> QED BY <3>1, <3>2, FlattenEmpty
  <2> QED BY <2>1
<1>2. ASSUME NEW n \in Nat, n \in S PROVE n + 1 \in S
  <2>1. ASSUME NEW r \in Seq(Seq(X)), Len(r) = n + 1
        PROVE  FlattenSeq(r) \in Seq(X)
    <3>1. PICK k : k = n + 1
      OBVIOUS
    <3>2. k = Len(r) /\ k # 0 /\ k - 1 = n /\ k \in 1..Len(r)
      BY <2>1, <3>1
    <3>3. PICK q : q = SubSeq(r, 1, k - 1)
      OBVIOUS
    <3>4. q \in Seq(Seq(X)) /\ Len(q) = n
      BY <3>2, <3>3
    <3>5. FlattenSeq(q) \in Seq(X)
      BY <1>2, <3>4
    <3> HIDE DEF S
    <3>6. FlattenSeq(r) = FlattenSeq(q) \o r[k]
      BY <3>2, <3>3, FlattenLast
    <3>7. r[k] \in Seq(X)
      BY <3>2
    <3> QED BY <3>5, <3>6, <3>7
  <2> QED BY <2>1
<1> HIDE DEF S
<1>3. Len(s) \in S
  BY <1>1, <1>2, SetInduction
<1> QED BY <1>3 DEF S

Paged == Seq(Seq(Entry))

\* The first n pages, one after the other.
Flat(pgs, n) == FlattenSeq(SubSeq(pgs, 1, n))

LEMMA FlatIs ==
  ASSUME NEW pgs \in Paged
  PROVE  /\ Flat(pgs, 0) = <<>> /\ Flat(pgs, Len(pgs)) = FlattenSeq(pgs)
         /\ \A n \in 0..Len(pgs) :
              Flat(pgs, n) \in Seq(Entry) /\ Len(Flat(pgs, n)) \in Nat
         /\ \A n \in 1..Len(pgs) :
              /\ Flat(pgs, n) = Flat(pgs, n - 1) \o pgs[n]
              /\ Len(Flat(pgs, n)) = Len(Flat(pgs, n - 1)) + Len(pgs[n])
<1>1. SubSeq(pgs, 1, 0) = <<>> /\ SubSeq(pgs, 1, Len(pgs)) = pgs
  BY DEF Paged
<1>2. Flat(pgs, 0) = <<>> /\ Flat(pgs, Len(pgs)) = FlattenSeq(pgs)
  BY <1>1, FlattenEmpty DEF Flat
<1>3. ASSUME NEW n \in 0..Len(pgs)
      PROVE  Flat(pgs, n) \in Seq(Entry) /\ Len(Flat(pgs, n)) \in Nat
  <2>1. PICK s \in Paged : s = SubSeq(pgs, 1, n)
    BY FirstPart DEF Paged
  <2>2. FlattenSeq(s) \in Seq(Entry)
    BY FlattenType DEF Paged
  <2> QED BY <2>1, <2>2 DEF Flat
<1>4. ASSUME NEW n \in 1..Len(pgs)
      PROVE  /\ Flat(pgs, n) = Flat(pgs, n - 1) \o pgs[n]
             /\ Len(Flat(pgs, n)) = Len(Flat(pgs, n - 1)) + Len(pgs[n])
  <2>1. n \in 0..Len(pgs)
    BY DEF Paged
  <2>2. PICK s \in Paged : s = SubSeq(pgs, 1, n)
    BY <2>1, FirstPart DEF Paged
  <2>3. n = Len(s) /\ n # 0 /\ s[n] = pgs[n]
    BY <2>2 DEF Paged
  <2>4. SubSeq(s, 1, n - 1) = SubSeq(pgs, 1, n - 1)
    BY <2>2 DEF Paged
  <2>5. FlattenSeq(s) = FlattenSeq(SubSeq(s, 1, n - 1)) \o s[n]
    BY <2>3, FlattenLast DEF Paged
  <2>6. Flat(pgs, n) = Flat(pgs, n - 1) \o pgs[n]
    BY <2>2, <2>3, <2>4, <2>5 DEF Flat
  <2>7. n - 1 \in 0..Len(pgs) /\ pgs[n] \in Seq(Entry)
    BY DEF Paged
  <2>8. Flat(pgs, n - 1) \in Seq(Entry)
    BY <1>3, <2>7
  <2>9. PICK a \in Seq(Entry), b \in Seq(Entry) :
          a = Flat(pgs, n - 1) /\ b = pgs[n]
    BY <2>7, <2>8
  <2>10. Len(a \o b) = Len(a) + Len(b)
    OBVIOUS
  <2> QED BY <2>6, <2>9, <2>10
<1> QED BY <1>2, <1>3, <1>4

LEMMA FlatSame ==
  ASSUME NEW pgs \in Paged, NEW new \in Paged,
         NEW n \in Nat, n <= Len(pgs), n <= Len(new),
         \A p \in 1..n : new[p] = pgs[p]
  PROVE  Flat(new, n) = Flat(pgs, n)
<1>1. n \in 0..Len(pgs) /\ n \in 0..Len(new)
  BY DEF Paged
<1>2. PICK s \in Paged : s = SubSeq(pgs, 1, n)
  BY <1>1, FirstPart DEF Paged
<1>3. PICK r \in Paged : r = SubSeq(new, 1, n)
  BY <1>1, FirstPart DEF Paged
<1>4. Len(s) = n /\ \A p \in 1..n : s[p] = pgs[p]
  BY <1>2 DEF Paged
<1>5. Len(r) = n /\ \A p \in 1..n : r[p] = new[p]
  BY <1>3 DEF Paged
<1>6. \A p \in 1..n : s[p] = r[p]
  BY <1>4, <1>5
<1>7. s = r
  BY <1>4, <1>5, <1>6 DEF Paged
<1> QED BY <1>2, <1>3, <1>7 DEF Flat

\* The further a page the more there is up to it, and only more if there is
\* something in it.
LEMMA FlatGrows ==
  ASSUME NEW pgs \in Paged, NEW n \in Nat, NEW m \in Nat,
         n <= m, m <= Len(pgs)
  PROVE  /\ Len(Flat(pgs, n)) <= Len(Flat(pgs, m))
         /\ (\A p \in (n + 1)..m : pgs[p] = <<>>) =>
               Flat(pgs, m) = Flat(pgs, n)
<1> DEFINE S == {k \in Nat :
                   n + k <= m =>
                     /\ Len(Flat(pgs, n)) <= Len(Flat(pgs, n + k))
                     /\ (\A p \in (n + 1)..(n + k) : pgs[p] = <<>>) =>
                           Flat(pgs, n + k) = Flat(pgs, n)}
<1>a. Len(pgs) \in Nat
  BY DEF Paged
<1>1. 0 \in S
  <2>1. n + 0 = n /\ n \in 0..Len(pgs)
    BY <1>a
  <2>2. Len(Flat(pgs, n)) \in Nat
    BY <2>1, FlatIs
  <2>3. Len(Flat(pgs, n)) <= Len(Flat(pgs, n))
    BY <2>2
  <2> QED BY <2>1, <2>3
<1>2. ASSUME NEW k \in Nat, k \in S PROVE k + 1 \in S
  <2>1. PICK q : q = n + (k + 1)
    OBVIOUS
  <2> SUFFICES ASSUME q <= m
               PROVE  /\ Len(Flat(pgs, n)) <= Len(Flat(pgs, q))
                      /\ (\A p \in (n + 1)..q : pgs[p] = <<>>) =>
                            Flat(pgs, q) = Flat(pgs, n)
    BY <2>1
  <2>2. q \in 1..Len(pgs) /\ q - 1 = n + k /\ q - 1 <= m
        /\ q \in (n + 1)..q /\ q - 1 \in 0..Len(pgs)
    BY <1>a, <2>1
  <2>3. /\ Len(Flat(pgs, n)) <= Len(Flat(pgs, q - 1))
        /\ (\A p \in (n + 1)..(q - 1) : pgs[p] = <<>>) =>
              Flat(pgs, q - 1) = Flat(pgs, n)
    BY <1>2, <2>2
  <2> HIDE DEF S
  <2>4. /\ Flat(pgs, q) = Flat(pgs, q - 1) \o pgs[q]
        /\ Len(Flat(pgs, q)) = Len(Flat(pgs, q - 1)) + Len(pgs[q])
        /\ Len(Flat(pgs, q - 1)) \in Nat /\ Flat(pgs, q - 1) \in Seq(Entry)
    BY <2>2, FlatIs
  <2>5. Len(pgs[q]) \in Nat
    BY <2>2 DEF Paged
  <2>6. n \in 0..Len(pgs)
    BY <1>a
  <2>7. Len(Flat(pgs, n)) \in Nat
    BY <2>6, FlatIs
  <2>8. Len(Flat(pgs, n)) <= Len(Flat(pgs, q))
    <3>1. PICK a, b, c, d :
            /\ a = Len(Flat(pgs, n)) /\ b = Len(Flat(pgs, q - 1))
            /\ c = Len(pgs[q]) /\ d = Len(Flat(pgs, q))
      OBVIOUS
    <3>2. a \in Nat /\ b \in Nat /\ c \in Nat /\ a <= b /\ d = b + c
      BY <2>3, <2>4, <2>5, <2>7, <3>1
    <3>3. a <= d
      BY <3>2
    <3> QED BY <3>1, <3>3
  <2>9. ASSUME \A p \in (n + 1)..q : pgs[p] = <<>>
        PROVE  Flat(pgs, q) = Flat(pgs, n)
    <3>1. pgs[q] = <<>>
      BY <2>2, <2>9
    <3>2. \A p \in (n + 1)..(q - 1) : p \in (n + 1)..q
      BY <2>2
    <3>3. Flat(pgs, q - 1) = Flat(pgs, n)
      BY <2>3, <2>9, <3>2
    <3>4. \A a \in Seq(Entry) : a \o <<>> = a
      OBVIOUS
    <3> QED BY <2>4, <3>1, <3>3, <3>4
  <2> QED BY <2>8, <2>9
<1> HIDE DEF S
<1>3. PICK k \in Nat : n + k = m
  <2>1. m - n \in Nat /\ n + (m - n) = m
    OBVIOUS
  <2> QED BY <2>1
<1>4. k \in S
  BY <1>1, <1>2, SetInduction
<1>5. m <= m
  OBVIOUS
<1> QED BY <1>3, <1>4, <1>5 DEF S

\* The place of slot s of page p in the stack.
At(pgs, p, s) == Len(Flat(pgs, p - 1)) + s

LEMMA AtIs ==
  ASSUME NEW pgs \in Paged, NEW p \in Nat \ {0}, p <= Len(pgs) + 1,
         NEW s \in Nat
  PROVE  /\ At(pgs, p, s) \in Nat /\ At(pgs, p, s) >= s
         /\ p = 1 => At(pgs, p, s) = s
         /\ p <= Len(pgs) /\ s = Len(pgs[p]) =>
              At(pgs, p, s) = Len(Flat(pgs, p))
<1>1. p - 1 \in 0..Len(pgs)
  BY DEF Paged
<1>2. Len(Flat(pgs, p - 1)) \in Nat /\ Flat(pgs, 0) = <<>>
  BY <1>1, FlatIs
<1>3. p = 1 => p - 1 = 0
  OBVIOUS
<1>4. p <= Len(pgs) => Len(Flat(pgs, p)) = Len(Flat(pgs, p - 1)) + Len(pgs[p])
  <2>1. p <= Len(pgs) => p \in 1..Len(pgs)
    BY DEF Paged
  <2> QED BY <2>1, FlatIs
<1>5. p = 1 => Len(Flat(pgs, p - 1)) = 0
  BY <1>2, <1>3
<1>6. PICK a : a = Len(Flat(pgs, p - 1))
  OBVIOUS
<1>7. a \in Nat /\ (p = 1 => a = 0) /\ At(pgs, p, s) = a + s
  BY <1>2, <1>5, <1>6 DEF At
<1>8. p <= Len(pgs) => Len(Flat(pgs, p)) = a + Len(pgs[p])
  BY <1>4, <1>6
<1>9. a + s \in Nat /\ a + s >= s /\ (a = 0 => a + s = s)
  BY <1>7
<1> QED BY <1>7, <1>8, <1>9

LEMMA AtSame ==
  ASSUME NEW pgs \in Paged, NEW new \in Paged, NEW p \in Nat \ {0}, NEW s,
         p <= Len(pgs) + 1, p <= Len(new) + 1,
         \A e \in 1..(p - 1) : new[e] = pgs[e]
  PROVE  At(new, p, s) = At(pgs, p, s)
<1>1. p - 1 \in Nat /\ p - 1 <= Len(pgs) /\ p - 1 <= Len(new)
  BY DEF Paged
<1>2. Flat(new, p - 1) = Flat(pgs, p - 1)
  BY <1>1, FlatSame
<1> QED BY <1>2 DEF At

-----------------------------------------------------------------------------
(* The stack that the pages are *)

AbstractCall == [stop : Nat, base : Nat, releasing : BOOLEAN]

\* The three variables of the stack, by the pages up to the hot one and the
\* places of the pools.
StackMapped ==
  /\ Stack = IF hotPage # 0 THEN Flat(pages, hotPage)
             ELSE IF tls = EMPTY_POOL_PLACEHOLDER THEN <<POOL_BOUNDARY>>
             ELSE <<>>
  /\ Stack \in Seq(Entry)

OpenMapped ==
  /\ Open \in Seq(Nat) /\ Len(Open) = Len(tokens)
  /\ DOMAIN Open = 1..Len(tokens) /\ Len(tokens) \in Nat
  /\ \A i \in 1..Len(tokens) :
       Open[i] = At(pages, Place(i).page, Place(i).slot)

PopsMapped ==
  /\ Pops \in Seq(AbstractCall) /\ Len(Pops) = Len(calls)
  /\ DOMAIN Pops = 1..Len(calls) /\ Len(calls) \in Nat
  /\ Pops = <<>> <=> calls = <<>>
  /\ \A c \in 1..Len(calls) :
       Pops[c] = [stop |-> At(pages, calls[c].page, calls[c].stop),
                  base |-> calls[c].base, releasing |-> calls[c].releasing]

LEMMA StackIsMapped == IInv => StackMapped
<1> SUFFICES ASSUME IInv PROVE StackMapped
  OBVIOUS
<1>1. /\ pages \in Paged /\ Len(pages) \in Nat
      /\ hotPage \in Nat /\ hotPage <= Len(pages)
      /\ hotPage # 0 => tls = hotPage
      /\ hotPage = 0 => pages = <<>> /\ tls \in {0, EMPTY_POOL_PLACEHOLDER}
      /\ \A p \in (hotPage + 1)..Len(pages) : pages[p] = <<>>
  BY PagesTyped
     DEF IInv, PageInv, NoPageLeaks, ChildrenAreEmpty, Empty, Paged
<1>2. Stack = IF hotPage # 0 THEN Flat(pages, hotPage)
              ELSE IF tls = EMPTY_POOL_PLACEHOLDER THEN <<POOL_BOUNDARY>>
              ELSE <<>>
  <2>1. CASE hotPage = 0
    BY <1>1, <2>1, FlattenEmpty DEF Stack
  <2>2. CASE hotPage # 0
    <3>1. tls # EMPTY_POOL_PLACEHOLDER
      BY <1>1, <2>2 DEF EMPTY_POOL_PLACEHOLDER
    <3>2. Flat(pages, Len(pages)) = FlattenSeq(pages)
      BY <1>1, FlatIs
    <3>3. PICK n : n = Len(pages)
      OBVIOUS
    <3>4. Flat(pages, n) = Flat(pages, hotPage)
      <4>1. PICK h : h = hotPage
        OBVIOUS
      <4>2. /\ h \in Nat /\ n \in Nat /\ h <= n /\ n <= Len(pages)
            /\ \A p \in (h + 1)..n : pages[p] = <<>>
        BY <1>1, <3>3, <4>1
      <4>3. Flat(pages, n) = Flat(pages, h)
        BY <1>1, <4>2, FlatGrows
      <4> QED BY <4>1, <4>3
    <3> QED BY <2>2, <3>1, <3>2, <3>3, <3>4 DEF Stack
  <2> QED BY <2>1, <2>2
<1>3. Stack \in Seq(Entry)
  <2>1. hotPage \in 0..Len(pages)
    BY <1>1
  <2>2. Flat(pages, hotPage) \in Seq(Entry)
    BY <1>1, <2>1, FlatIs
  <2>3. <<POOL_BOUNDARY>> \in Seq(Entry) /\ <<>> \in Seq(Entry)
    BY DEF Entry
  <2> QED BY <1>2, <2>2, <2>3
<1> QED BY <1>2, <1>3 DEF StackMapped

LEMMA OpenIsMapped == IInv => OpenMapped
<1> SUFFICES ASSUME IInv PROVE OpenMapped
  OBVIOUS
<1>1. Open = [i \in 1..Len(tokens) |->
                At(pages, Place(i).page, Place(i).slot)]
  <2>1. DOMAIN tokens = 1..Len(tokens)
    BY TokensTyped DEF IInv, PageInv
  <2>2. ASSUME NEW i \in 1..Len(tokens)
        PROVE  (IF tokens[i] = PlaceholderToken THEN 1
                ELSE Position(tokens[i].page, tokens[i].slot))
               = At(pages, Place(i).page, Place(i).slot)
    <3>1. CASE tokens[i] = PlaceholderToken
      <4>1. Place(i).page = 1 /\ Place(i).slot = 1
        BY <3>1 DEF Place
      <4>2. pages \in Paged /\ 1 <= Len(pages) + 1 /\ 1 \in Nat \ {0}
        BY PagesTyped DEF IInv, PageInv, Paged
      <4>3. At(pages, 1, 1) = 1
        BY <4>2, AtIs
      <4> QED BY <3>1, <4>1, <4>3
    <3>2. CASE tokens[i] # PlaceholderToken
      BY <3>2 DEF Place, Position, Entries, At, Flat
    <3> QED BY <3>1, <3>2
  <2> QED BY <2>1, <2>2 DEF Open
<1>2. Len(tokens) \in Nat
  BY TokensTyped DEF IInv, PageInv
<1>3. ASSUME NEW i \in 1..Len(tokens)
      PROVE  At(pages, Place(i).page, Place(i).slot) \in Nat
  <2>1. /\ Place(i).page \in Nat \ {0} /\ Place(i).slot \in Nat
        /\ hotPage # 0 => Place(i).page <= hotPage
        /\ hotPage = 0 => Place(i).page = 1
    <3>1. tokens[i] = PlaceholderToken => Place(i).page = 1
      BY DEF Place
    <3> QED BY <3>1, TokensTyped DEF IInv, PageInv
  <2>2. /\ pages \in Paged /\ Len(pages) \in Nat
        /\ hotPage \in Nat /\ hotPage <= Len(pages)
    BY PagesTyped DEF IInv, PageInv, Paged
  <2>3. PICK p, s : p = Place(i).page /\ s = Place(i).slot
    OBVIOUS
  <2>4. p \in Nat \ {0} /\ s \in Nat /\ p <= Len(pages) + 1
    BY <2>1, <2>2, <2>3
  <2>5. At(pages, p, s) \in Nat
    BY <2>2, <2>4, AtIs
  <2> QED BY <2>3, <2>5
<1>4. PICK n \in Nat : n = Len(tokens)
  BY <1>2
<1>5. Open \in Seq(Nat) /\ Len(Open) = n /\ DOMAIN Open = 1..n
  <2>1. /\ DOMAIN Open = 1..n
        /\ Open = [i \in 1..n |-> Open[i]]
        /\ \A i \in 1..n : Open[i] \in Nat
    BY <1>1, <1>3, <1>4
  <2> QED BY <2>1
<1> QED BY <1>1, <1>2, <1>4, <1>5 DEF OpenMapped

LEMMA PopsAreMapped == IInv => PopsMapped
<1> SUFFICES ASSUME IInv PROVE PopsMapped
  OBVIOUS
<1>1. Pops = [c \in 1..Len(calls) |->
                [stop |-> At(pages, calls[c].page, calls[c].stop),
                 base |-> calls[c].base, releasing |-> calls[c].releasing]]
  <2>1. DOMAIN calls = 1..Len(calls)
    BY CallsTyped DEF IInv, PageInv
  <2> QED BY <2>1 DEF Pops, Position, Entries, At, Flat
<1>2. Len(calls) \in Nat /\ (calls = <<>> <=> Len(calls) = 0)
  BY CallsTyped DEF IInv, PageInv
<1>3. ASSUME NEW c \in 1..Len(calls)
      PROVE  [stop |-> At(pages, calls[c].page, calls[c].stop),
              base |-> calls[c].base, releasing |-> calls[c].releasing]
             \in AbstractCall
  <2>1. /\ calls[c].page \in Nat \ {0} /\ calls[c].stop \in Nat
        /\ calls[c].base \in Nat /\ calls[c].releasing \in BOOLEAN
        /\ calls[c].page \in 1..hotPage
    BY CallsTyped, PopsHavePages DEF IInv, PageInv
  <2>2. /\ pages \in Paged /\ Len(pages) \in Nat
        /\ hotPage \in Nat /\ hotPage <= Len(pages)
    BY PagesTyped DEF IInv, PageInv, Paged
  <2>3. PICK p, s : p = calls[c].page /\ s = calls[c].stop
    OBVIOUS
  <2>4. p \in Nat \ {0} /\ s \in Nat /\ p <= Len(pages) + 1
    BY <2>1, <2>2, <2>3
  <2>5. At(pages, p, s) \in Nat
    BY <2>2, <2>4, AtIs
  <2> QED BY <2>1, <2>3, <2>5 DEF AbstractCall
<1>4. PICK n \in Nat : n = Len(calls)
  BY <1>2
<1>5. Pops \in Seq(AbstractCall) /\ Len(Pops) = n /\ DOMAIN Pops = 1..n
  <2>1. /\ DOMAIN Pops = 1..n
        /\ Pops = [c \in 1..n |-> Pops[c]]
        /\ \A c \in 1..n : Pops[c] \in AbstractCall
    BY <1>1, <1>3, <1>4
  <2> QED BY <2>1
<1>6. Pops = <<>> <=> Len(Pops) = 0
  BY <1>5
<1> QED BY <1>1, <1>2, <1>4, <1>5, <1>6 DEF PopsMapped

Mapped == StackMapped /\ OpenMapped /\ PopsMapped

LEMMA MappedState == IInv => Mapped
BY StackIsMapped, OpenIsMapped, PopsAreMapped DEF Mapped

LEMMA MappedNext ==
  ASSUME IInv' PROVE Mapped'
BY MappedState, PTL

LEMMA AbstractTop ==
  ASSUME IInv
  PROVE  /\ Abstract!ClientRuns <=> ClientRuns
         /\ Abstract!Base = Base
         /\ Pops = <<>> <=> calls = <<>>
         /\ calls # <<>> =>
              Abstract!Top = [stop |-> At(pages, Top.page, Top.stop),
                              base |-> Top.base, releasing |-> Top.releasing]
<1>1. PopsMapped
  BY MappedState DEF Mapped
<1>2. ASSUME calls # <<>>
      PROVE  Abstract!Top = [stop |-> At(pages, Top.page, Top.stop),
                             base |-> Top.base, releasing |-> Top.releasing]
  <2>1. Len(calls) \in 1..Len(calls) /\ Top = calls[Len(calls)]
    BY <1>2, TopCall
  <2>2. Abstract!Top = Pops[Len(Pops)]
    BY DEF Abstract!Top
  <2> QED BY <1>1, <2>1, <2>2 DEF PopsMapped
<1>3. Pops = <<>> <=> calls = <<>>
  BY <1>1 DEF PopsMapped
<1> QED BY <1>2, <1>3
        DEF Abstract!ClientRuns, ClientRuns, Abstract!Base, Base

\* The pages below the hot one are as they were.
PagesKept ==
  \A p \in 1..(hotPage' - 1) : p <= Len(pages) /\ pages'[p] = pages[p]

PagesFit ==
  /\ pages \in Paged /\ Len(pages) \in Nat
  /\ hotPage \in Nat /\ hotPage <= Len(pages)

LEMMA PagesOk == IInv => PagesFit
BY PagesTyped DEF PagesFit, IInv, PageInv, Paged

LEMMA PagesOkNext ==
  ASSUME IInv' PROVE PagesFit'
BY PagesOk, PTL

\* So what is in the pages up to the hot one keeps its place.
LEMMA AtKept ==
  ASSUME IInv, IInv', PagesKept, NEW p \in Nat \ {0}, NEW s,
         p = 1 \/ p <= hotPage'
  PROVE  At(pages', p, s) = At(pages, p, s)
<1>1. /\ pages \in Paged /\ Len(pages) \in Nat
      /\ pages' \in Paged /\ Len(pages') \in Nat
      /\ hotPage' \in Nat /\ hotPage' <= Len(pages')
  BY PagesOk, PagesOkNext DEF PagesFit
<1>2. PICK h, n, m : h = hotPage' /\ n = Len(pages) /\ m = Len(pages')
  OBVIOUS
<1>3. \A e \in 1..(h - 1) : e <= n /\ pages'[e] = pages[e]
  BY <1>2 DEF PagesKept
<1>4. h \in Nat /\ n \in Nat /\ m \in Nat /\ h <= m /\ (p = 1 \/ p <= h)
  BY <1>1, <1>2
<1>5. \A e \in 1..(p - 1) : e \in 1..(h - 1)
  BY <1>4
<1>6. \A e \in 1..(p - 1) : pages'[e] = pages[e]
  BY <1>3, <1>5
<1>7. p <= n + 1 /\ p <= m + 1
  <2>1. p # 1 => p - 1 \in 1..(p - 1)
    OBVIOUS
  <2>2. p # 1 => p - 1 <= n
    BY <1>3, <1>5, <2>1
  <2> QED BY <1>4, <2>2
<1> QED BY <1>1, <1>2, <1>6, <1>7, AtSame

LEMMA PoolsKept ==
  ASSUME IInv, IInv', PagesKept, NEW k \in 0..Len(tokens),
         \A i \in 1..k : i \in 1..Len(tokens') /\ Place(i)' = Place(i)
  PROVE  \A i \in 1..k : Open'[i] = Open[i]
<1> SUFFICES ASSUME NEW i \in 1..k PROVE Open'[i] = Open[i]
  OBVIOUS
<1>1. OpenMapped /\ OpenMapped'
  BY MappedState, MappedNext DEF Mapped
<1>2. i \in 1..Len(tokens) /\ i \in 1..Len(tokens') /\ Place(i)' = Place(i)
  BY <1>1 DEF OpenMapped
<1>3. PICK p, s : p = Place(i).page /\ s = Place(i).slot
  OBVIOUS
<1>4. Open[i] = At(pages, p, s)
  BY <1>1, <1>2, <1>3 DEF OpenMapped
<1>5. Open'[i] = At(pages', p, s)
  <2>1. Open'[i] = At(pages', Place(i)'.page, Place(i)'.slot)
    BY <1>1, <1>2 DEF OpenMapped
  <2> QED BY <1>2, <1>3, <2>1
<1>6. p \in Nat \ {0}
  BY <1>2, <1>3, TokensTyped DEF IInv, PageInv
<1>7. p = 1 \/ p <= hotPage'
  <2>1. tokens'[i] = PlaceholderToken => p = 1
    BY <1>2, <1>3 DEF Place
  <2>2. tokens'[i] # PlaceholderToken => p = tokens'[i].page
    BY <1>2, <1>3 DEF Place
  <2>3. i \in DOMAIN tokens'
    BY <1>2 DEF IInv, PageInv, TypeOK
  <2>4. tokens'[i] # PlaceholderToken => tokens'[i].page \in 1..hotPage'
    BY <2>3 DEF IInv, PageInv, NoBadPop
  <2> QED BY <2>1, <2>2, <2>4, PagesOkNext DEF PagesFit
<1> QED BY <1>4, <1>5, <1>6, <1>7, AtKept

LEMMA OpenShortens ==
  ASSUME IInv, IInv', PagesKept, NEW k \in 0..Len(tokens),
         tokens' = SubSeq(tokens, 1, k)
  PROVE  /\ Open' = SubSeq(Open, 1, k)
         /\ k = Len(tokens) => Open' = Open
<1>1. OpenMapped /\ OpenMapped'
  BY MappedState, MappedNext DEF Mapped
<1>2. /\ Len(tokens') = k /\ k \in Nat
      /\ \A i \in 1..k : i \in 1..Len(tokens) /\ tokens'[i] = tokens[i]
  BY TokensTyped DEF IInv, PageInv
<1>3. \A i \in 1..k : i \in 1..Len(tokens') /\ Place(i)' = Place(i)
  BY <1>2 DEF Place
<1>4. \A i \in 1..k : Open'[i] = Open[i]
  BY <1>3, PoolsKept
<1>5. Open \in Seq(Nat) /\ Len(Open) = Len(tokens)
      /\ Open' \in Seq(Nat) /\ Len(Open') = k
  BY <1>1, <1>2 DEF OpenMapped
<1>6. PICK r : r = SubSeq(Open, 1, k)
  OBVIOUS
<1>7. r \in Seq(Nat) /\ Len(r) = k /\ \A i \in 1..k : r[i] = Open[i]
  <2>1. k \in 0..Len(Open)
    BY <1>5
  <2> QED BY <1>5, <1>6, <2>1, FirstPart
<1>8. Open' = r
  BY <1>4, <1>5, <1>7, SameElements
<1>9. k = Len(tokens) => Open' = Open
  BY <1>4, <1>5, SameElements
<1> QED BY <1>6, <1>8, <1>9

LEMMA OpenStays ==
  ASSUME IInv, IInv', PagesKept, tokens' = tokens
  PROVE  Open' = Open
<1>1. /\ tokens' = SubSeq(tokens, 1, Len(tokens))
      /\ Len(tokens) \in 0..Len(tokens)
  BY TokensTyped DEF IInv, PageInv
<1>2. PICK k : k = Len(tokens)
  OBVIOUS
<1> QED BY <1>1, <1>2, OpenShortens

LEMMA PopKept ==
  ASSUME IInv, IInv', PagesKept, NEW c \in 1..Len(calls),
         c \in 1..Len(calls'), CallStays(c)
  PROVE  Pops'[c] = [Pops[c] EXCEPT !.releasing = calls'[c].releasing]
<1>1. PopsMapped /\ PopsMapped'
  BY MappedState, MappedNext DEF Mapped
<1>2. PICK p, s : p = calls[c].page /\ s = calls[c].stop
  OBVIOUS
<1>3. Pops[c] = [stop |-> At(pages, p, s), base |-> calls[c].base,
                 releasing |-> calls[c].releasing]
  BY <1>1, <1>2 DEF PopsMapped
<1>4. Pops'[c] = [stop |-> At(pages', p, s), base |-> calls[c].base,
                  releasing |-> calls'[c].releasing]
  <2>1. Pops'[c] = [stop |-> At(pages', calls'[c].page, calls'[c].stop),
                    base |-> calls'[c].base,
                    releasing |-> calls'[c].releasing]
    BY <1>1 DEF PopsMapped
  <2> QED BY <1>2, <2>1 DEF CallStays
<1>5. p \in Nat \ {0}
  BY <1>2, CallsTyped DEF IInv, PageInv
<1>6. p <= hotPage'
  <2>1. c \in DOMAIN calls' /\ calls'[c].page = p
    BY <1>2 DEF IInv, PageInv, TypeOK, CallStays
  <2> QED BY <2>1 DEF IInv, PopsStandFirm
<1>7. At(pages', p, s) = At(pages, p, s)
  BY <1>5, <1>6, AtKept
<1> QED BY <1>3, <1>4, <1>7

\* The pops but for the innermost that is being added or removed.
LEMMA PopsKept ==
  ASSUME IInv, IInv', PagesKept, NEW c \in 1..Len(calls),
         c \in 1..Len(calls'), calls'[c] = calls[c]
  PROVE  Pops'[c] = Pops[c]
<1>1. CallStays(c)
  BY DEF CallStays
<1>2. Pops'[c] = [Pops[c] EXCEPT !.releasing = calls[c].releasing]
  BY <1>1, PopKept
<1>3. PopsMapped
  BY MappedState DEF Mapped
<1> QED BY <1>2, <1>3 DEF PopsMapped

LEMMA PopsStay ==
  ASSUME IInv, IInv', PagesKept, calls' = calls
  PROVE  Pops' = Pops
<1>1. PopsMapped /\ PopsMapped'
  BY MappedState, MappedNext DEF Mapped
<1>2. \A c \in 1..Len(calls) : Pops'[c] = Pops[c]
  BY PopsKept
<1>3. Pops \in Seq(AbstractCall) /\ Pops' \in Seq(AbstractCall)
      /\ Len(Pops) = Len(calls) /\ Len(Pops') = Len(calls)
  BY <1>1 DEF PopsMapped
<1> QED BY <1>2, <1>3, SameElements

LEMMA PopsBegin ==
  ASSUME IInv, IInv', PagesKept, NEW x, x \in Call, calls' = Append(calls, x)
  PROVE  Pops' = Append(Pops, [stop |-> At(pages', x.page, x.stop),
                               base |-> x.base, releasing |-> x.releasing])
<1>1. PopsMapped /\ PopsMapped'
  BY MappedState, MappedNext DEF Mapped
<1>2. PICK n : n = Len(calls)
  OBVIOUS
<1>3. /\ n \in Nat /\ Len(calls') = n + 1 /\ calls'[n + 1] = x
      /\ \A c \in 1..n : calls'[c] = calls[c]
  BY <1>2, CallsTyped DEF IInv, PageInv
<1>4. PICK y : y = [stop |-> At(pages', x.page, x.stop),
                    base |-> x.base, releasing |-> x.releasing]
  OBVIOUS
<1>5. Pops'[n + 1] = y
  <2>1. n + 1 \in 1..Len(calls')
    BY <1>3
  <2> QED BY <1>1, <1>3, <1>4, <2>1 DEF PopsMapped
<1>6. \A c \in 1..n : Pops'[c] = Pops[c]
  <2>1. \A c \in 1..n : c \in 1..Len(calls) /\ c \in 1..Len(calls')
    BY <1>2, <1>3
  <2> QED BY <1>3, <2>1, PopsKept
<1>7. /\ Pops \in Seq(AbstractCall) /\ Pops' \in Seq(AbstractCall)
      /\ Len(Pops) = n /\ Len(Pops') = n + 1
  BY <1>1, <1>2, <1>3 DEF PopsMapped
<1>8. y \in AbstractCall
  BY <1>3, <1>5, <1>7
<1>9. PICK r : r = Append(Pops, y)
  OBVIOUS
<1>10. /\ r \in Seq(AbstractCall) /\ Len(r) = n + 1 /\ r[n + 1] = y
       /\ \A c \in 1..n : r[c] = Pops[c]
  BY <1>7, <1>8, <1>9
<1>11. \A c \in 1..(n + 1) : Pops'[c] = r[c]
  BY <1>3, <1>5, <1>6, <1>10
<1>12. Pops' = r
  BY <1>7, <1>10, <1>11, SameElements
<1> QED BY <1>4, <1>9, <1>12

LEMMA PopsEnd ==
  ASSUME IInv, IInv', PagesKept, calls # <<>>,
         calls' = SubSeq(calls, 1, Len(calls) - 1)
  PROVE  Pops' = SubSeq(Pops, 1, Len(Pops) - 1)
<1>1. PopsMapped /\ PopsMapped'
  BY MappedState, MappedNext DEF Mapped
<1>2. PICK n : n = Len(calls') /\ n = Len(calls) - 1
  BY CallEnds
<1>3. n \in Nat /\ n \in 0..Len(calls)
      /\ \A c \in 1..n : c \in 1..Len(calls) /\ calls'[c] = calls[c]
  BY <1>1, <1>2, CallEnds DEF PopsMapped
<1>4. \A c \in 1..n : Pops'[c] = Pops[c]
  BY <1>2, <1>3, PopsKept
<1>5. /\ Pops \in Seq(AbstractCall) /\ Pops' \in Seq(AbstractCall)
      /\ Len(Pops') = n /\ Len(Pops) - 1 = n /\ n \in 0..Len(Pops)
  BY <1>1, <1>2, <1>3 DEF PopsMapped
<1>6. PICK r : r = SubSeq(Pops, 1, n)
  OBVIOUS
<1>7. r \in Seq(AbstractCall) /\ Len(r) = n
      /\ \A c \in 1..n : r[c] = Pops[c]
  BY <1>5, <1>6, FirstPart
<1>8. Pops' = r
  BY <1>4, <1>5, <1>7, SameElements
<1> QED BY <1>5, <1>6, <1>8

LEMMA PopsChange ==
  ASSUME IInv, IInv', PagesKept, calls # <<>>, NEW b \in BOOLEAN,
         calls' = [calls EXCEPT ![Len(calls)].releasing = b]
  PROVE  Pops' = [Pops EXCEPT ![Len(Pops)].releasing = b]
<1>1. PopsMapped /\ PopsMapped'
  BY MappedState, MappedNext DEF Mapped
<1>2. PICK n : n = Len(calls)
  OBVIOUS
<1>3. /\ n \in Nat /\ n \in 1..n /\ calls[n] \in Call
  BY <1>2, TopCall DEF Top
<1>4. /\ Len(calls') = n /\ \A c \in 1..n : CallStays(c)
      /\ \A c \in 1..n : c # n => calls'[c] = calls[c]
      /\ calls'[n].releasing = b
  <2>1. calls \in Seq(Call) /\ DOMAIN calls = 1..n
    BY <1>2, CallsTyped DEF IInv, PageInv
  <2> QED BY <1>2, <1>3, <2>1, TopReleases DEF Call
<1>5. /\ Pops \in Seq(AbstractCall) /\ Pops' \in Seq(AbstractCall)
      /\ Len(Pops') = n /\ Len(Pops) = n /\ DOMAIN Pops = 1..n
      /\ DOMAIN Pops' = 1..n
  BY <1>1, <1>2, <1>4 DEF PopsMapped
<1>6. Pops'[n] = [Pops[n] EXCEPT !.releasing = b]
  BY <1>2, <1>3, <1>4, PopKept
<1>7. \A c \in 1..n : c # n => Pops'[c] = Pops[c]
  BY <1>2, <1>4, PopsKept
<1>8. PICK r : r = [Pops EXCEPT ![n].releasing = b]
  OBVIOUS
<1>9. /\ DOMAIN r = 1..n /\ r[n] = [Pops[n] EXCEPT !.releasing = b]
      /\ \A c \in 1..n : c # n => r[c] = Pops[c]
      /\ r = [c \in 1..n |-> r[c]]
  BY <1>3, <1>5, <1>8
<1>10. Pops' = [c \in 1..n |-> Pops'[c]]
  BY <1>5
<1>11. Pops' = r
  BY <1>6, <1>7, <1>9, <1>10
<1> QED BY <1>5, <1>8, <1>11

-----------------------------------------------------------------------------
(* Every step is one of the stack *)

LEMMA AddingMapped ==
  ASSUME IInv, IInv', NEW entry \in Entry, NEW q, Adding(entry, q)
  PROVE  /\ Stack' = Append(Stack, entry) /\ PagesKept
         /\ Len(Stack') = At(pages', q, Len(pages'[q]))
<1>1. /\ pages \in Paged /\ Len(pages) \in Nat
      /\ hotPage \in Nat /\ hotPage <= Len(pages)
      /\ pages' \in Paged /\ Len(pages') \in Nat
  BY PagesOk, PagesOkNext DEF PagesFit
<1>2. /\ q \in Nat /\ q > 0
      /\ IF hotPage = 0 THEN q = 1 ELSE q \in {hotPage, hotPage + 1}
      /\ Content(q) \in Seq(Entry)
      /\ hotPage # 0 /\ q = hotPage => Content(q) = pages[q]
      /\ hotPage # 0 /\ q = hotPage + 1 => Len(Content(q)) = 0
      /\ hotPage = 0 => Content(q) =
           IF tls = EMPTY_POOL_PLACEHOLDER THEN <<POOL_BOUNDARY>> ELSE <<>>
  BY BeforeAdding
<1>3. /\ hotPage' = q /\ q <= Len(pages') /\ q \in 1..Len(pages')
      /\ Len(pages') = IF q > Len(pages) THEN q ELSE Len(pages)
      /\ \A p \in 1..Len(pages') : p # q => pages'[p] = pages[p]
      /\ pages'[q] = Append(Content(q), entry)
  BY <1>1, <1>2, AfterAdding DEF Adding, Added
<1>4. PICK n \in Nat : n = q - 1
  BY <1>2
<1>5. n <= Len(pages) /\ n <= Len(pages') /\ n \in 0..Len(pages)
  BY <1>1, <1>2, <1>3, <1>4
<1>6. \A p \in 1..n : p <= Len(pages) /\ pages'[p] = pages[p]
  BY <1>1, <1>2, <1>3, <1>4, <1>5
<1>7. PagesKept
  BY <1>3, <1>4, <1>6 DEF PagesKept
<1>8. Flat(pages', n) = Flat(pages, n)
  BY <1>1, <1>5, <1>6, FlatSame
<1>9. StackMapped /\ StackMapped'
  BY MappedState, MappedNext DEF Mapped
<1>10. Stack' = Flat(pages', q)
  BY <1>2, <1>3, <1>9 DEF StackMapped
<1>11. Flat(pages', q) = Flat(pages', n) \o pages'[q]
  BY <1>1, <1>3, <1>4, FlatIs
<1>12. PICK a \in Seq(Entry), b \in Seq(Entry) :
         a = Flat(pages, n) /\ b = Content(q)
  <2>1. Flat(pages, n) \in Seq(Entry)
    BY <1>1, <1>5, FlatIs
  <2> QED BY <1>2, <2>1
<1>13. Stack' = Append(a \o b, entry)
  <2>1. Stack' = a \o Append(b, entry)
    BY <1>3, <1>8, <1>10, <1>11, <1>12
  <2> QED BY <2>1, ConcatAppend
<1>14. Stack = a \o b
  <2>1. CASE hotPage = 0
    <3>1. n = 0
      BY <1>2, <1>4, <2>1
    <3>2. a = <<>>
      BY <1>1, <1>12, <3>1, FlatIs
    <3>3. <<>> \o b = b
      OBVIOUS
    <3>4. Stack = b
      BY <1>2, <1>9, <1>12, <2>1 DEF StackMapped
    <3> QED BY <3>2, <3>3, <3>4
  <2>2. CASE hotPage # 0 /\ q = hotPage
    <3>1. q \in 1..Len(pages)
      BY <1>1, <1>2, <2>2
    <3>2. Flat(pages, q) = Flat(pages, n) \o pages[q]
      BY <1>1, <1>4, <3>1, FlatIs
    <3> QED BY <1>2, <1>9, <1>12, <2>2, <3>2 DEF StackMapped
  <2>3. CASE hotPage # 0 /\ q = hotPage + 1
    <3>1. n = hotPage
      BY <1>1, <1>4, <2>3
    <3>2. Len(b) = 0
      BY <1>2, <1>12, <2>3
    <3>3. a \o b = a
      BY <3>2
    <3> QED BY <1>9, <1>12, <2>3, <3>1, <3>3 DEF StackMapped
  <2> QED BY <1>2, <2>1, <2>2, <2>3
<1>15. Len(Stack') = At(pages', q, Len(pages'[q]))
  <2>1. PICK s : s = Len(pages'[q])
    OBVIOUS
  <2>2. s \in Nat
    BY <1>1, <1>3, <2>1 DEF Paged
  <2>3. q \in Nat \ {0} /\ q <= Len(pages') /\ q <= Len(pages') + 1
    BY <1>1, <1>2, <1>3
  <2>4. At(pages', q, s) = Len(Flat(pages', q))
    BY <1>1, <2>1, <2>2, <2>3, AtIs
  <2> QED BY <1>10, <2>1, <2>4
<1> QED BY <1>7, <1>13, <1>14, <1>15

LEMMA AutoreleaseMaps ==
  ASSUME IInv, IInv', NEW obj \in Objects, Autorelease(obj)
  PROVE  Abstract!Autorelease(obj) \/ UNCHANGED <<Stack, Open, Pops>>
<1>1. obj \in Entry
  BY DEF Entry
<1>2. CASE UNCHANGED vars
  BY <1>2 DEF vars, Stack, Open, Pops, Position, Entries
<1>3. ASSUME NEW q, Adding(obj, q), tokens' = tokens
      PROVE  Abstract!Autorelease(obj)
  <2>1. Stack' = Append(Stack, obj) /\ PagesKept
    BY <1>1, <1>3, AddingMapped
  <2>2. calls' = calls /\ ClientRuns
    BY <1>3 DEF Adding
  <2>3. Open' = Open /\ Pops' = Pops
    BY <1>3, <2>1, <2>2, OpenStays, PopsStay
  <2>4. Abstract!ClientRuns
    BY <2>2, AbstractTop
  <2> QED BY <2>1, <2>3, <2>4 DEF Abstract!Autorelease
<1> QED BY <1>2, <1>3, AutoreleaseAdds

LEMMA PushMaps ==
  ASSUME IInv, IInv', Push
  PROVE  Abstract!Push
<1>1. POOL_BOUNDARY \in Entry
  BY DEF Entry
<1>2. OpenMapped /\ OpenMapped' /\ PopsMapped /\ PopsMapped'
      /\ StackMapped /\ StackMapped'
  BY MappedState, MappedNext DEF Mapped
<1>3. ASSUME NEW q \in Nat, Adding(POOL_BOUNDARY, q), NewToken(q)
      PROVE  Abstract!Push
  <2>1. /\ Stack' = Append(Stack, POOL_BOUNDARY) /\ PagesKept
        /\ Len(Stack') = At(pages', q, Len(pages'[q]))
    BY <1>1, <1>3, AddingMapped
  <2>2. calls' = calls /\ ClientRuns
    BY <1>3 DEF Adding
  <2>3. Pops' = Pops
    BY <2>1, <2>2, PopsStay
  <2>4. Abstract!ClientRuns
    BY <2>2, AbstractTop
  <2>5. PICK n \in Nat : n = Len(tokens)
    BY <1>2 DEF OpenMapped
  <2>6. tokens' # tokens /\ Len(tokens') = n + 1
        /\ tokens'[n + 1] = [page |-> q, slot |-> Len(pages'[q])]
    <3>1. PICK x : x = [page |-> q, slot |-> Len(pages'[q])]
      OBVIOUS
    <3>2. tokens \in Seq(Token)
      BY TokensTyped DEF IInv, PageInv
    <3>3. tokens' = Append(tokens, x)
      BY <1>3, <3>1 DEF NewToken
    <3> QED BY <2>5, <3>1, <3>2, <3>3
  <2>7. /\ \A i \in 1..n : i \in 1..Len(tokens') /\ Place(i)' = Place(i)
        /\ Place(n + 1)' = tokens'[n + 1]
    <3>1. /\ \A i \in 1..n : Place(i)' = Place(i)
          /\ \A k \in 1..Len(tokens') : k > n => Place(k)' = tokens'[k]
      BY <1>1, <1>3, <2>5, AddingPool
    <3>2. n + 1 \in 1..Len(tokens') /\ n + 1 > n
          /\ \A i \in 1..n : i \in 1..Len(tokens')
      BY <2>5, <2>6
    <3> QED BY <3>1, <3>2
  <2>8. \A i \in 1..n : Open'[i] = Open[i]
    <3>1. n \in 0..Len(tokens)
      BY <2>5
    <3> QED BY <2>1, <2>7, <3>1, PoolsKept
  <2>9. PICK k \in Nat : k = n + 1
    BY <2>5
  <2>10. Open'[k] = Len(Stack')
    <3>1. k \in 1..Len(tokens')
      BY <2>6, <2>9
    <3>2. Open'[k] = At(pages', Place(k)'.page, Place(k)'.slot)
      BY <1>2, <3>1 DEF OpenMapped
    <3>3. Place(k)' = [page |-> q, slot |-> Len(pages'[q])]
      BY <2>6, <2>7, <2>9
    <3> QED BY <2>1, <3>2, <3>3
  <2>11. /\ Open \in Seq(Nat) /\ Open' \in Seq(Nat)
         /\ Len(Open) = n /\ Len(Open') = k
    BY <1>2, <2>5, <2>6, <2>9 DEF OpenMapped
  <2>12. Len(Stack') \in Nat
    BY <1>2 DEF StackMapped
  <2>13. Open' = Append(Open, Len(Stack'))
    <3>a. PICK e \in Nat : e = Len(Stack')
      BY <2>12
    <3>1. PICK r : e = Len(Stack') /\ r = Append(Open, e)
      BY <3>a
    <3>2. /\ r \in Seq(Nat) /\ Len(r) = k /\ r[k] = e
          /\ \A i \in 1..n : r[i] = Open[i]
      BY <2>9, <2>11, <3>1
    <3>3. \A i \in 1..k : i = k \/ i \in 1..n
      BY <2>9
    <3>4. \A i \in 1..k : Open'[i] = r[i]
      BY <2>8, <2>10, <3>1, <3>2, <3>3
    <3>5. Open' = r
      BY <2>11, <3>2, <3>4, SameElements
    <3> QED BY <3>1, <3>5
  <2> QED BY <2>1, <2>3, <2>4, <2>13 DEF Abstract!Push
<1>4. CASE BecomesPlaceholder
  <2>1. /\ Stack = <<>> /\ Open = <<>> /\ Pops = <<>>
        /\ Stack' = <<POOL_BOUNDARY>> /\ Open' = <<1>> /\ Pops' = <<>>
    <3>1. /\ tls = 0 /\ tls' = EMPTY_POOL_PLACEHOLDER
          /\ pages = <<>> /\ calls = <<>> /\ pages' = <<>> /\ calls' = <<>>
          /\ tokens = <<>> /\ tokens' = <<PlaceholderToken>>
      BY <1>4 DEF BecomesPlaceholder, Pageless
    <3>2. Stack = <<>> /\ Stack' = <<POOL_BOUNDARY>>
      BY <3>1, FlattenEmpty DEF Stack, EMPTY_POOL_PLACEHOLDER
    <3>3. Pops = <<>> /\ Pops' = <<>>
      BY <1>2, <3>1 DEF PopsMapped
    <3>4. Open = <<>>
      BY <3>1 DEF Open
    <3>5. Open' = <<1>>
      <4>1. tokens'[1] = PlaceholderToken /\ DOMAIN tokens' = 1..1
        BY <3>1
      <4>2. Open' = [i \in 1..1 |-> 1]
        BY <4>1 DEF Open
      <4>3. [i \in 1..1 |-> 1] = <<1>>
        OBVIOUS
      <4> QED BY <4>2, <4>3
    <3> QED BY <3>2, <3>3, <3>4, <3>5
  <2>2. /\ <<POOL_BOUNDARY>> = Append(<<>>, POOL_BOUNDARY)
        /\ Len(<<POOL_BOUNDARY>>) = 1 /\ <<1>> = Append(<<>>, 1)
    OBVIOUS
  <2>3. Abstract!ClientRuns
    BY <2>1 DEF Abstract!ClientRuns
  <2> QED BY <2>1, <2>2, <2>3 DEF Abstract!Push
<1> QED BY <1>3, <1>4, PushAdds

\* The pages up to the last that is not empty are all.
LEMMA StackUpTo ==
  ASSUME IInv, NEW p \in 1..hotPage, \A e \in (p + 1)..hotPage : Empty(e)
  PROVE  /\ Stack = Flat(pages, p) /\ p \in 1..Len(pages)
         /\ Stack = Flat(pages, p - 1) \o pages[p]
         /\ Flat(pages, p - 1) \in Seq(Entry) /\ pages[p] \in Seq(Entry)
         /\ Len(Stack) = At(pages, p, Len(pages[p]))
<1>1. /\ pages \in Paged /\ Len(pages) \in Nat
      /\ hotPage \in Nat /\ hotPage <= Len(pages)
  BY PagesOk DEF PagesFit
<1>2. PICK h \in Nat : h = hotPage
  BY <1>1
<1>3. /\ p \in 1..Len(pages) /\ p \in Nat \ {0} /\ p <= h /\ h <= Len(pages)
      /\ h # 0 /\ p - 1 \in 0..Len(pages) /\ p <= Len(pages)
      /\ p <= Len(pages) + 1
  BY <1>1, <1>2
<1>4. \A e \in (p + 1)..h : pages[e] = <<>>
  BY <1>2 DEF Empty
<1>5. Flat(pages, h) = Flat(pages, p)
  <2>1. p \in Nat
    BY <1>3
  <2> QED BY <1>1, <1>3, <1>4, <2>1, FlatGrows
<1>6. StackMapped
  BY MappedState DEF Mapped
<1>7. Stack = Flat(pages, p)
  BY <1>2, <1>3, <1>5, <1>6 DEF StackMapped
<1>8. Flat(pages, p) = Flat(pages, p - 1) \o pages[p]
  BY <1>1, <1>3, FlatIs
<1>9. Flat(pages, p - 1) \in Seq(Entry)
  BY <1>1, <1>3, FlatIs
<1>10. pages[p] \in Seq(Entry)
  BY <1>1, <1>3 DEF Paged
<1>11. Len(Stack) = At(pages, p, Len(pages[p]))
  <2>1. PICK s \in Nat : s = Len(pages[p])
    BY <1>10
  <2>2. At(pages, p, s) = Len(Flat(pages, p))
    BY <1>1, <1>3, <2>1, AtIs
  <2> QED BY <1>7, <2>1, <2>2
<1> QED BY <1>3, <1>7, <1>8, <1>9, <1>10, <1>11

LEMMA ReleaseMaps ==
  ASSUME IInv, IInv', NEW page \in DOMAIN pages, Releasing(page)
  PROVE  Abstract!Release
<1>1. /\ Looping /\ calls # <<>> /\ page \in 1..hotPage
      /\ page \in 1..Len(pages) /\ Len(pages[page]) \in Nat \ {0}
      /\ \A p \in (page + 1)..hotPage : Empty(p)
      /\ Top.page <= page
      /\ Top.page = page => Top.stop < Len(pages[page])
  BY BeforeRelease
<1>2. /\ hotPage' = page /\ tokens' = tokens
      /\ Len(pages') = Len(pages)
      /\ \A p \in 1..Len(pages) : p # page => pages'[p] = pages[p]
      /\ calls' = [calls EXCEPT ![Len(calls)].releasing =
                     (pages[page][Len(pages[page])] # POOL_BOUNDARY)]
  BY AfterRelease
<1>3. /\ pages \in Paged /\ Len(pages) \in Nat /\ pages' \in Paged
      /\ page \in Nat \ {0} /\ page <= Len(pages)
  BY <1>1, PagesOk, PagesOkNext DEF PagesFit
<1>4. PICK n : n = Len(pages[page])
  OBVIOUS
<1>5. n \in Nat \ {0}
  BY <1>1, <1>4
<1>6. pages'[page] = SubSeq(pages[page], 1, n - 1)
  BY <1>1, <1>4 DEF Releasing, ReleaseFrom
<1>7. \A p \in 1..(page - 1) : p <= Len(pages) /\ pages'[p] = pages[p]
  BY <1>2, <1>3
<1>8. PagesKept
  BY <1>2, <1>7 DEF PagesKept
<1>9. Open' = Open
  BY <1>2, <1>8, OpenStays
<1>10. PICK b \in BOOLEAN :
         b = (pages[page][Len(pages[page])] # POOL_BOUNDARY)
  OBVIOUS
<1>11. Pops' = [Pops EXCEPT ![Len(Pops)].releasing = b]
  BY <1>1, <1>2, <1>8, <1>10, PopsChange
<1>12. /\ Stack = Flat(pages, page - 1) \o pages[page]
       /\ Flat(pages, page - 1) \in Seq(Entry) /\ pages[page] \in Seq(Entry)
  BY <1>1, StackUpTo
<1>13. Stack' = Flat(pages, page - 1) \o pages'[page]
  <2>1. Stack' = Flat(pages', page)
    <3>1. StackMapped'
      BY MappedNext DEF Mapped
    <3> QED BY <1>2, <1>3, <3>1 DEF StackMapped
  <2>2. page \in 1..Len(pages')
    BY <1>1, <1>2
  <2>3. Flat(pages', page) = Flat(pages', page - 1) \o pages'[page]
    BY <1>3, <2>2, FlatIs
  <2>4. Flat(pages', page - 1) = Flat(pages, page - 1)
    <3>1. page - 1 \in Nat /\ page - 1 <= Len(pages)
          /\ page - 1 <= Len(pages')
      BY <1>2, <1>3
    <3> QED BY <1>3, <1>7, <3>1, FlatSame
  <2> QED BY <2>1, <2>3, <2>4
<1>14. PICK a \in Seq(Entry), c \in Seq(Entry) :
         a = Flat(pages, page - 1) /\ c = pages[page]
  BY <1>12
<1>15. /\ Stack' = SubSeq(Stack, 1, Len(Stack) - 1)
       /\ Stack[Len(Stack)] = pages[page][Len(pages[page])]
       /\ Len(Stack) = Len(a) + n
  <2>1. /\ SubSeq(a \o c, 1, Len(a \o c) - 1) = a \o SubSeq(c, 1, n - 1)
        /\ (a \o c)[Len(a \o c)] = c[n] /\ Len(a \o c) = Len(a) + n
    <3>1. n = Len(c) /\ n # 0
      BY <1>4, <1>5, <1>14
    <3> QED BY <3>1, ConcatFront
  <2> QED BY <1>4, <1>6, <1>12, <1>13, <1>14, <2>1
<1>16. At(pages, Top.page, Top.stop) < Len(Stack)
  <2>1. PICK p, s : p = Top.page /\ s = Top.stop
    OBVIOUS
  <2>2. /\ p \in Nat \ {0} /\ s \in Nat /\ p <= page
        /\ p = page => s < n
        /\ p \in 1..Len(pages) /\ s <= Len(pages[p])
    <3>1. Top.page \in 1..hotPage /\ Top.stop \in Nat
          /\ Top.stop <= Len(pages[Top.page])
      BY <1>1, TopCall
    <3> QED BY <1>1, <1>3, <1>4, <2>1, <3>1
  <2>3. PICK m \in Nat : m = Len(a)
    OBVIOUS
  <2>4. CASE p = page
    <3>1. At(pages, p, s) = m + s
      BY <1>14, <2>3, <2>4 DEF At
    <3>2. m + s < m + n
      BY <1>5, <2>2, <2>4
    <3> QED BY <1>15, <2>1, <2>3, <3>1, <3>2
  <2>5. CASE p # page
    <3>1. p <= page - 1 /\ page - 1 <= Len(pages) /\ page - 1 \in Nat
          /\ p \in Nat
      BY <1>3, <2>2, <2>5
    <3>2. Len(Flat(pages, p)) <= Len(Flat(pages, page - 1))
      BY <1>3, <3>1, FlatGrows
    <3>3. Len(Flat(pages, p)) = Len(Flat(pages, p - 1)) + Len(pages[p])
      BY <1>3, <2>2, FlatIs
    <3>4. Len(Flat(pages, p - 1)) \in Nat /\ Len(pages[p]) \in Nat
      <4>1. p - 1 \in 0..Len(pages)
        BY <1>3, <2>2
      <4>2. pages[p] \in Seq(Entry)
        BY <1>3, <2>2 DEF Paged
      <4> QED BY <1>3, <4>1, <4>2, FlatIs
    <3>5. PICK i, j, k : /\ i = Len(Flat(pages, p - 1))
                         /\ j = Len(pages[p]) /\ k = Len(Flat(pages, p))
      OBVIOUS
    <3>6. /\ i \in Nat /\ j \in Nat /\ k = i + j /\ s <= j /\ k <= m
          /\ At(pages, p, s) = i + s
      BY <1>14, <2>2, <2>3, <3>2, <3>3, <3>4, <3>5 DEF At
    <3>7. i + s < m + n
      BY <1>5, <2>2, <2>3, <3>6
    <3> QED BY <1>15, <2>1, <2>3, <3>6, <3>7
  <2> QED BY <2>4, <2>5
<1>17. /\ Pops # <<>>
       /\ Abstract!Top = [stop |-> At(pages, Top.page, Top.stop),
                          base |-> Top.base, releasing |-> Top.releasing]
  BY <1>1, AbstractTop
<1>18. ~Abstract!Top.releasing /\ Len(Stack) > Abstract!Top.stop
  <2>1. At(pages, Top.page, Top.stop) \in Nat /\ Len(Stack) \in Nat
    <3>1. PopsMapped /\ StackMapped /\ Len(calls) \in 1..Len(calls)
          /\ Top = calls[Len(calls)]
      BY <1>1, MappedState, TopCall DEF Mapped
    <3>2. Pops[Len(calls)] \in AbstractCall
      BY <3>1 DEF PopsMapped
    <3>3. Pops[Len(calls)].stop = At(pages, Top.page, Top.stop)
      BY <3>1 DEF PopsMapped
    <3> QED BY <3>1, <3>2, <3>3 DEF AbstractCall, StackMapped
  <2>2. ~Top.releasing
    BY <1>1 DEF Looping
  <2>3. PICK x, y : x = At(pages, Top.page, Top.stop) /\ y = Len(Stack)
    OBVIOUS
  <2>4. y > x
    BY <1>16, <2>1, <2>3
  <2> QED BY <1>17, <2>2, <2>3, <2>4
<1> QED BY <1>9, <1>10, <1>11, <1>15, <1>17, <1>18 DEF Abstract!Release

\* Where nothing becomes of the pages.
LEMMA SamePagesKept ==
  ASSUME IInv, SamePages
  PROVE  PagesKept /\ Stack' = Stack /\ hotPage' = hotPage
<1>1. pages' = pages /\ tls' = tls
  BY DEF SamePages
<1>2. hotPage' = hotPage /\ Stack' = Stack
  BY <1>1 DEF hotPage, Stack
<1>3. hotPage \in Nat /\ hotPage <= Len(pages) /\ Len(pages) \in Nat
  BY PagesOk DEF PagesFit
<1>4. PICK h, n : h = hotPage /\ n = Len(pages)
  OBVIOUS
<1>5. \A p \in 1..(h - 1) : p <= n
  BY <1>3, <1>4
<1> QED BY <1>1, <1>2, <1>4, <1>5 DEF PagesKept

LEMMA EndReleaseMaps ==
  ASSUME IInv, IInv', EndRelease
  PROVE  Abstract!EndRelease
<1>1. /\ calls # <<>> /\ Top.releasing /\ SamePages /\ Base = Top.base
      /\ calls' = [calls EXCEPT ![Len(calls)].releasing = FALSE]
      /\ tokens' = SubSeq(tokens, 1, Top.base)
  BY DEF EndRelease, SamePages, Base
<1>2. PICK k : k = Top.base
  OBVIOUS
<1>3. k \in 0..Len(tokens)
  <2>1. Len(tokens) \in Nat
    BY TokensTyped DEF IInv, PageInv
  <2> QED BY <1>1, <1>2, <2>1, TopCall
<1>4. PagesKept /\ Stack' = Stack
  BY <1>1, SamePagesKept
<1>5. Open' = SubSeq(Open, 1, k)
  BY <1>1, <1>2, <1>3, <1>4, OpenShortens
<1>6. PICK b \in BOOLEAN : b = FALSE
  OBVIOUS
<1>7. Pops' = [Pops EXCEPT ![Len(Pops)].releasing = b]
  BY <1>1, <1>4, <1>6, PopsChange
<1>8. /\ Pops # <<>> /\ Abstract!Base = k
      /\ Abstract!Top.releasing
  BY <1>1, <1>2, AbstractTop
<1> QED BY <1>4, <1>5, <1>6, <1>7, <1>8 DEF Abstract!EndRelease

LEMMA PopMaps ==
  ASSUME IInv, IInv', NEW i \in (Base + 1)..Len(tokens), Pop(i)
  PROVE  /\ i \in (Abstract!Base + 1)..Len(Open)
         /\ Abstract!Pop(i)
<1>1. OpenMapped /\ OpenMapped' /\ PopsMapped /\ PopsMapped'
      /\ StackMapped /\ StackMapped'
  BY MappedState, MappedNext DEF Mapped
<1>2. i \in 1..Len(tokens) /\ Len(tokens) \in Nat /\ i \in Nat \ {0}
      /\ i - 1 \in 0..Len(tokens)
  BY TopCall, TokensTyped DEF Base, IInv, PageInv
<1>3. i \in (Abstract!Base + 1)..Len(Open) /\ (Abstract!ClientRuns)
  BY <1>1, AbstractTop DEF Pop, OpenMapped
<1>4. CASE /\ hotPage # 0 /\ ClientRuns
           /\ Begins(Place(i).page, Place(i).slot, i - 1, FALSE)
  <2>1. PICK k, p, s : k = i - 1 /\ p = Place(i).page /\ s = Place(i).slot
    OBVIOUS
  <2>2. PICK x : x = [page |-> p, stop |-> s - 1, base |-> k,
                      exit |-> FALSE, releasing |-> FALSE]
    OBVIOUS
  <2>3. /\ SamePages /\ tokens' = SubSeq(tokens, 1, k)
        /\ calls' = Append(calls, x)
    BY <1>4, <2>1, <2>2 DEF Begins
  <2>4. PagesKept /\ Stack' = Stack /\ pages' = pages
    BY <2>3, SamePagesKept DEF SamePages
  <2>5. Open' = SubSeq(Open, 1, k)
    <3>1. k \in 0..Len(tokens)
      BY <1>2, <2>1
    <3> QED BY <2>3, <2>4, <3>1, OpenShortens
  <2>6. p \in Nat \ {0} /\ s \in Nat \ {0} /\ p <= Len(pages)
    <3>1. /\ Place(i).page \in Nat /\ Place(i).page > 0
          /\ Place(i).slot \in Nat /\ Place(i).slot > 0
          /\ Place(i).page <= hotPage
      BY <1>2, <1>4, TokensTyped DEF IInv, PageInv
    <3>2. hotPage \in Nat /\ hotPage <= Len(pages) /\ Len(pages) \in Nat
      BY PagesOk DEF PagesFit
    <3> QED BY <2>1, <3>1, <3>2
  <2>7. x \in Call
    <3>1. calls' \in Seq(Call)
      BY DEF IInv, PageInv, TypeOK
    <3>2. calls \in Seq(Call)
      BY DEF IInv, PageInv, TypeOK
    <3>3. calls'[Len(calls) + 1] = x /\ Len(calls') = Len(calls) + 1
          /\ Len(calls) \in Nat
      BY <2>3, <3>2
    <3>4. Len(calls) + 1 \in 1..Len(calls')
      BY <3>3
    <3> QED BY <3>1, <3>3, <3>4
  <2>8. Pops' = Append(Pops, [stop |-> At(pages', x.page, x.stop),
                              base |-> x.base, releasing |-> x.releasing])
    BY <2>3, <2>4, <2>7, PopsBegin
  <2>9. Open[i] - 1 = At(pages, p, s - 1)
    <3>1. Open[i] = At(pages, p, s)
      BY <1>1, <1>2, <2>1 DEF OpenMapped
    <3>2. PICK a : a = Len(Flat(pages, p - 1))
      OBVIOUS
    <3>3. a \in Nat
      <4>1. /\ pages \in Paged /\ Len(pages) \in Nat
        BY PagesOk DEF PagesFit
      <4>2. p - 1 \in 0..Len(pages)
        BY <2>6, <4>1
      <4> QED BY <3>2, <4>1, <4>2, FlatIs
    <3>4. At(pages, p, s) = a + s /\ At(pages, p, s - 1) = a + (s - 1)
      BY <3>2 DEF At
    <3>5. PICK o : o = Open[i]
      OBVIOUS
    <3>6. o - 1 = a + (s - 1)
      BY <2>6, <3>1, <3>3, <3>4, <3>5
    <3> QED BY <3>4, <3>5, <3>6
  <2>10. Pops' = Append(Pops, [stop |-> Open[i] - 1, base |-> k,
                               releasing |-> FALSE])
    BY <2>2, <2>4, <2>8, <2>9
  <2> QED BY <1>3, <2>1, <2>4, <2>5, <2>10 DEF Abstract!Pop
<1>5. CASE hotPage = 0 /\ Pageless'
  <2>1. i = 1 /\ tokens[i] = PlaceholderToken /\ tls = EMPTY_POOL_PLACEHOLDER
    BY <1>2, <1>5, TokensTyped DEF IInv, PageInv
  <2>2. /\ pages = <<>> /\ calls = <<>> /\ pages' = <<>> /\ calls' = <<>>
        /\ tls' = 0 /\ tokens' = SubSeq(tokens, 1, i - 1)
    <3>1. tls' = 0
      BY <1>5, <2>1 DEF Pop, PopPlaceholder
    <3> QED BY <1>5, <3>1, PopsHavePages DEF Pop, Pageless
  <2>3. Stack = <<POOL_BOUNDARY>> /\ Stack' = <<>>
    BY <2>1, <2>2, FlattenEmpty DEF Stack, EMPTY_POOL_PLACEHOLDER
  <2>4. Pops' = Pops
    BY <2>2 DEF Pops
  <2>5. Open[1] = 1
    <3>1. 1 \in DOMAIN tokens /\ tokens[1] = PlaceholderToken
      BY <1>2, <2>1, TokensTyped DEF IInv, PageInv
    <3> QED BY <3>1 DEF Open
  <2>6. Open' = SubSeq(Open, 1, 0)
    <3>1. Len(tokens') = 0
      <4>1. tokens \in Seq(Token)
        BY TokensTyped DEF IInv, PageInv
      <4> QED BY <2>1, <2>2, <4>1
    <3>2. Open' = <<>>
      <4>1. Open' \in Seq(Nat) /\ Len(Open') = 0
        BY <1>1, <3>1 DEF OpenMapped
      <4> QED BY <4>1
    <3>3. SubSeq(Open, 1, 0) = <<>>
      <4>1. Open \in Seq(Nat)
        BY <1>1 DEF OpenMapped
      <4> QED BY <4>1
    <3> QED BY <3>2, <3>3
  <2>7. Len(<<POOL_BOUNDARY>>) = 1 /\ SubSeq(<<POOL_BOUNDARY>>, 1, 0) = <<>>
    OBVIOUS
  <2>8. 1 - 1 = 0
    OBVIOUS
  <2> QED BY <1>3, <2>1, <2>3, <2>4, <2>5, <2>6, <2>7, <2>8 DEF Abstract!Pop
<1> QED BY <1>3, <1>4, <1>5, PopBegins

LEMMA EndMaps ==
  ASSUME IInv, IInv', Explained, EndLoop, PagesKept, Stack' = Stack,
         tokens' = tokens, calls' = SubSeq(calls, 1, Len(calls) - 1)
  PROVE  Abstract!EndPop
<1>1. /\ calls # <<>> /\ Looping /\ ~Top.releasing
      /\ Len(pages[Top.page]) = Top.stop /\ Top.page \in 1..hotPage
  BY AtTheEnd
<1>2. Open' = Open /\ Pops' = SubSeq(Pops, 1, Len(Pops) - 1)
  BY <1>1, OpenStays, PopsEnd
<1>3. Len(Stack) = At(pages, Top.page, Top.stop)
  <2>1. PICK p : p = Top.page
    OBVIOUS
  <2>2. p = hotPage /\ p \in 1..hotPage
    BY <1>1, <2>1, EndsOnHotPage
  <2>3. \A e \in (p + 1)..hotPage : Empty(e)
    <3>1. hotPage \in Nat
      BY PagesOk DEF PagesFit
    <3> QED BY <2>2, <3>1
  <2>4. Len(Stack) = At(pages, p, Len(pages[p]))
    BY <2>2, <2>3, StackUpTo
  <2> QED BY <1>1, <2>1, <2>4
<1>4. /\ Pops # <<>>
      /\ Abstract!Top = [stop |-> At(pages, Top.page, Top.stop),
                         base |-> Top.base, releasing |-> Top.releasing]
  BY <1>1, AbstractTop
<1> QED BY <1>1, <1>2, <1>3, <1>4 DEF Abstract!EndPop

LEMMA EndPopMaps ==
  ASSUME IInv, IInv', Explained, EndPop
  PROVE  Abstract!EndPop
<1>1. PICK p : p = Top.page
  OBVIOUS
<1>2. EndLoop /\ p = hotPage /\ p \in 1..hotPage /\ p \in 1..Len(pages)
  BY <1>1, AtTheEnd, EndsOnHotPage DEF EndPop
<1>3. /\ hotPage' = tls' /\ tokens' = tokens /\ tls' \in {p, p - 1}
      /\ tls' = p - 1 => Empty(p) /\ Len(pages') = p - 1
      /\ \A e \in 1..Len(pages') : e \in 1..Len(pages) /\ pages'[e] = pages[e]
  BY <1>1, AfterEndPop
<1>4. /\ pages \in Paged /\ Len(pages) \in Nat /\ pages' \in Paged
      /\ Len(pages') \in Nat /\ hotPage' \in Nat /\ hotPage' <= Len(pages')
      /\ p \in Nat \ {0} /\ p <= Len(pages)
  BY <1>2, PagesOk, PagesOkNext DEF PagesFit
<1>5. PICK h \in Nat : h = hotPage'
  BY <1>4
<1>6. h <= Len(pages) /\ h <= Len(pages')
      /\ \A e \in 1..h : e <= Len(pages) /\ pages'[e] = pages[e]
  BY <1>3, <1>4, <1>5
<1>7. PagesKept
  BY <1>5, <1>6 DEF PagesKept
<1>8. Flat(pages', h) = Flat(pages, h)
  BY <1>4, <1>6, FlatSame
<1>9. /\ Stack = Flat(pages, p) /\ Stack = Flat(pages, p - 1) \o pages[p]
      /\ Flat(pages, p - 1) \in Seq(Entry)
  <2>1. \A e \in (p + 1)..hotPage : Empty(e)
    BY <1>2, <1>4
  <2> QED BY <1>2, <2>1, StackUpTo
<1>10. Stack' = Flat(pages, h)
  <2>1. StackMapped'
    BY MappedNext DEF Mapped
  <2>2. CASE h # 0
    BY <1>5, <1>8, <2>1, <2>2 DEF StackMapped
  <2>3. CASE h = 0
    <3>1. tls' # EMPTY_POOL_PLACEHOLDER
      BY <1>3, <1>5, <2>3 DEF EMPTY_POOL_PLACEHOLDER
    <3>2. Stack' = <<>>
      BY <1>5, <2>1, <2>3, <3>1 DEF StackMapped
    <3>3. Flat(pages, 0) = <<>>
      BY <1>4, FlatIs
    <3> QED BY <2>3, <3>2, <3>3
  <2> QED BY <2>2, <2>3
<1>11. Stack' = Stack
  <2>1. CASE h = p
    BY <1>9, <1>10, <2>1
  <2>2. CASE h = p - 1
    <3>1. pages[p] = <<>>
      BY <1>3, <1>5, <2>2 DEF Empty
    <3>2. \A a \in Seq(Entry) : a \o <<>> = a
      OBVIOUS
    <3> QED BY <1>9, <1>10, <2>2, <3>1, <3>2
  <2> QED BY <1>3, <1>5, <2>1, <2>2
<1>12. calls' = SubSeq(calls, 1, Len(calls) - 1)
  BY DEF EndPop
<1> QED BY <1>2, <1>3, <1>7, <1>11, <1>12, EndMaps

LEMMA EndExitMaps ==
  ASSUME IInv, IInv', Explained, EndExit
  PROVE  Abstract!EndPop
<1>1. /\ EndLoop /\ Top.page = 1 /\ Top.stop = 0
      /\ pages' = <<>> /\ tls' = 0 /\ tokens' = tokens
  BY ThreadEnds
<1>2. hotPage = 1 /\ hotPage' = 0
  BY <1>1, EndsOnHotPage DEF hotPage, EMPTY_POOL_PLACEHOLDER
<1>3. PagesKept
  BY <1>2 DEF PagesKept
<1>4. Stack = <<>>
  <2>1. PICK p \in Nat \ {0} : p = 1
    OBVIOUS
  <2>2. p \in 1..hotPage /\ \A e \in (p + 1)..hotPage : Empty(e)
    BY <1>2, <2>1
  <2>3. Len(Stack) = At(pages, p, Len(pages[p]))
    BY <2>2, StackUpTo
  <2>4. Len(pages[p]) = 0
    BY <1>1, <2>1, AtTheEnd
  <2>5. At(pages, p, 0) = 0
    <3>1. pages \in Paged /\ p <= Len(pages) + 1 /\ 0 \in Nat
      BY <2>1, PagesOk DEF PagesFit
    <3> QED BY <2>1, <3>1, AtIs
  <2>6. StackMapped
    BY MappedState DEF Mapped
  <2> QED BY <2>3, <2>4, <2>5, <2>6 DEF StackMapped
<1>5. Stack' = <<>>
  BY <1>1, FlattenEmpty DEF Stack, EMPTY_POOL_PLACEHOLDER
<1>6. calls' = SubSeq(calls, 1, Len(calls) - 1)
  BY DEF EndExit
<1> QED BY <1>1, <1>3, <1>4, <1>5, <1>6, EndMaps

LEMMA BeginExitMaps ==
  ASSUME IInv, IInv', BeginExit
  PROVE  Abstract!Exit \/ UNCHANGED <<Stack, Open, Pops>>
<1>1. calls = <<>> /\ tokens' = <<>> /\ Pops = <<>>
  BY AbstractTop DEF BeginExit
<1>2. Open' = <<>>
  <2>1. DOMAIN tokens' = {}
    BY <1>1
  <2>2. OpenMapped' /\ Len(tokens') = 0
    BY <1>1, MappedNext DEF Mapped
  <2> QED BY <2>2 DEF OpenMapped
<1>3. CASE /\ tls = EMPTY_POOL_PLACEHOLDER /\ tls' = 0
           /\ UNCHANGED <<pages, calls>>
  <2>1. pages = <<>>
    BY <1>3 DEF hotPage, IInv, PageInv, NoPageLeaks
  <2>2. Stack = <<POOL_BOUNDARY>> /\ Stack' = <<>>
    BY <1>3, <2>1, FlattenEmpty DEF Stack, EMPTY_POOL_PLACEHOLDER
  <2>3. Pops' = Pops
    BY <1>3 DEF Pops, Position, Entries
  <2> QED BY <1>1, <1>2, <2>2, <2>3 DEF Abstract!Exit
<1>4. CASE hotPage # 0 /\ ~Empty(1) /\ BeginPop(1, 1, 0, TRUE)
  <2>1. PICK x : x = [page |-> 1, stop |-> 0, base |-> 0,
                      exit |-> TRUE, releasing |-> FALSE]
    OBVIOUS
  <2>2. calls' = Append(calls, x) /\ SamePages
    <3>1. 1 - 1 = 0
      OBVIOUS
    <3> QED BY <1>4, <2>1, <3>1 DEF BeginExit, BeginPop, SamePages
  <2>3. PagesKept /\ Stack' = Stack
    BY <2>2, SamePagesKept
  <2>4. x \in Call
    <3>1. calls' \in Seq(Call)
      BY DEF IInv, PageInv, TypeOK
    <3>2. calls' = <<x>>
      BY <1>1, <2>2
    <3> QED BY <3>1, <3>2
  <2>5. Pops' = Append(Pops, [stop |-> At(pages', x.page, x.stop),
                              base |-> x.base, releasing |-> x.releasing])
    BY <2>2, <2>3, <2>4, PopsBegin
  <2>6. At(pages', 1, 0) = 0
    <3>1. pages' \in Paged /\ 1 <= Len(pages') + 1 /\ 0 \in Nat
          /\ 1 \in Nat \ {0}
      BY PagesOkNext DEF PagesFit
    <3> QED BY <3>1, AtIs
  <2>7. Pops' = <<[stop |-> 0, base |-> 0, releasing |-> FALSE]>>
    <3>1. PICK y : y = [stop |-> 0, base |-> 0, releasing |-> FALSE]
      OBVIOUS
    <3>2. /\ x.page = 1 /\ x.stop = 0 /\ x.base = 0
          /\ x.releasing = FALSE
      BY <2>1
    <3>3. Pops' = Append(<<>>, y)
      BY <1>1, <2>5, <2>6, <3>1, <3>2
    <3>4. Append(<<>>, y) = <<y>>
      OBVIOUS
    <3> QED BY <3>1, <3>3, <3>4
  <2> QED BY <1>1, <1>2, <2>3, <2>7 DEF Abstract!Exit
<1>5. CASE hotPage # 0 /\ Empty(1) /\ EndThread(Len(pages)) /\ UNCHANGED calls
  <2>1. hotPage = 1 /\ pages' = <<>> /\ tls' = 0
    BY <1>1, <1>5, EmptyColdPage DEF EndThread
  <2>2. PICK p \in Nat \ {0} : p = 1
    OBVIOUS
  <2>3. p \in 1..hotPage /\ \A e \in (p + 1)..hotPage : Empty(e)
    BY <2>1, <2>2
  <2>4. /\ Stack = Flat(pages, p - 1) \o pages[p] /\ p - 1 = 0
        /\ pages[p] = <<>>
    <3>1. Stack = Flat(pages, p - 1) \o pages[p]
      BY <2>3, StackUpTo
    <3>2. p - 1 = 0 /\ pages[p] = <<>>
      BY <1>5, <2>2 DEF Empty
    <3> QED BY <3>1, <3>2
  <2>5. Flat(pages, 0) = <<>>
    BY PagesOk, FlatIs DEF PagesFit
  <2>6. Stack = <<>>
    BY <2>4, <2>5
  <2>7. Stack' = <<>>
    BY <2>1, FlattenEmpty DEF Stack, EMPTY_POOL_PLACEHOLDER
  <2>8. Open = <<>>
    <3>1. Len(tokens) \in Nat
      BY TokensTyped DEF IInv, PageInv
    <3>2. ASSUME NEW i \in 1..Len(tokens) PROVE FALSE
      <4>1. /\ Place(i).page \in Nat /\ Place(i).page > 0
            /\ Place(i).slot \in Nat /\ Place(i).slot > 0
            /\ Place(i).page <= hotPage
            /\ Place(i).slot <= Len(pages[Place(i).page])
        BY <1>5, TokensTyped DEF IInv, PageInv
      <4>2. Place(i).page = p /\ Len(pages[p]) = 0
        BY <2>1, <2>2, <2>4, <4>1
      <4> QED BY <4>1, <4>2
    <3>3. Len(tokens) = 0
      BY <3>1, <3>2
    <3>4. OpenMapped
      BY MappedState DEF Mapped
    <3> QED BY <3>3, <3>4 DEF OpenMapped
  <2>9. Pops' = Pops
    <3>1. calls' = <<>> /\ PopsMapped'
      BY <1>1, <1>5, MappedNext DEF Mapped
    <3> QED BY <1>1, <3>1 DEF PopsMapped
  <2> QED BY <1>2, <2>6, <2>7, <2>8, <2>9
<1> QED BY <1>3, <1>4, <1>5 DEF BeginExit

LEMMA EachStepMaps ==
  ASSUME IInv, IInv', Explained, [Next]_vars
  PROVE  [Abstract!Next]_<<Stack, Open, Pops>>
<1>1. CASE Push
  BY <1>1, PushMaps DEF Abstract!Next
<1>2. CASE Release
  <2>1. PICK page \in DOMAIN pages : Releasing(page)
    BY <1>2 DEF Release, Releasing
  <2> QED BY <2>1, ReleaseMaps DEF Abstract!Next
<1>3. CASE EndRelease
  BY <1>3, EndReleaseMaps DEF Abstract!Next
<1>4. CASE EndPop
  BY <1>4, EndPopMaps DEF Abstract!Next
<1>5. CASE BeginExit
  BY <1>5, BeginExitMaps DEF Abstract!Next
<1>6. CASE EndExit
  BY <1>6, EndExitMaps DEF Abstract!Next
<1>7. ASSUME NEW obj \in Objects, Autorelease(obj)
      PROVE  [Abstract!Next]_<<Stack, Open, Pops>>
  BY <1>7, AutoreleaseMaps DEF Abstract!Next
<1>8. ASSUME NEW i \in (Base + 1)..Len(tokens), Pop(i)
      PROVE  Abstract!Next
  BY <1>8, PopMaps DEF Abstract!Next
<1>9. CASE UNCHANGED vars
  BY <1>9 DEF vars, Stack, Open, Pops, Position, Entries
<1> QED BY <1>1, <1>2, <1>3, <1>4, <1>5, <1>6, <1>7, <1>8, <1>9 DEF Next

(* A thread's autorelease pool is the stack that the comment above         *)
(* AutoreleasePoolPage promises, with pages of any size, in every          *)
(* debugging mode, whatever the -deallocs push, autorelease and pop that   *)
(* pop what they push.                                                     *)
THEOREM PagesAreOneStack ==
  ASSUME TRUE \notin LeftOpen
  PROVE  Spec => ImplementsPoolStack
<1>1. Init => Abstract!Init
  BY FlattenEmpty DEF Init, Abstract!Init, Stack, Open, Pops,
     EMPTY_POOL_PLACEHOLDER
<1>2. Init => IInv /\ Explained
  BY Initially
<1>3. (IInv /\ Explained) /\ [Next]_vars => (IInv /\ Explained)'
  BY NextStep
<1>4. IInv /\ IInv' /\ Explained /\ [Next]_vars
        => [Abstract!Next]_<<Stack, Open, Pops>>
  BY EachStepMaps
<1> QED BY <1>1, <1>2, <1>3, <1>4, PTL
        DEF Spec, ImplementsPoolStack, Abstract!Spec

=============================================================================
