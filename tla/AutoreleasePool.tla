--------------------------- MODULE AutoreleasePool ---------------------------
(***************************************************************************)
(* The autorelease pools of a thread (AutoreleasePoolPage in NSObject.mm). *)
(* The stack of pointers is cut into pages; thread-local storage names the *)
(* hot page, where the next pointer goes, and pages that have become empty *)
(* are reused or freed.  A thread whose only pool has nothing in it has no *)
(* page, only a placeholder.                                               *)
(*                                                                         *)
(* The pages are a doubly linked list that grows and shrinks at its end:   *)
(* they are a sequence here, numbered from the cold page, and a page's     *)
(* parent and child are its neighbours.  What happens between a call of    *)
(* objc_release from a pop and its return is a -dealloc's and any code it  *)
(* calls: that code pushes, autoreleases and pops as the client does.      *)
(***************************************************************************)
EXTENDS Integers, Sequences

CONSTANTS
  Objects,
  POOL_BOUNDARY,
  Capacity,      \* pointers in a page
  LeftOpen,      \* for which DebugPoolAllocation a -dealloc may return without
                 \* popping what it has pushed
  MaxPages,      \* bounds the pages of a thread
  MaxCalls       \* bounds the pops in progress, one inside the other: the
                 \* innermost -dealloc pushes no pool

ASSUME BoundaryAssumption == POOL_BOUNDARY \notin Objects
ASSUME CapacityAssumption == Capacity \in Nat /\ Capacity >= 2
ASSUME LeftOpenAssumption == LeftOpen \subseteq BOOLEAN
ASSUME BoundsAssumption == MaxPages \in Nat \ {0} /\ MaxCalls \in Nat \ {0}

VARIABLES
  DebugPoolAllocation,  \* the environment's OBJC_DEBUG_POOL_ALLOCATION ...
  DebugMissingPools,    \* ... and OBJC_DEBUG_MISSING_POOLS
  pages,                \* what each page holds up to its next
  tls,                  \* the hot page, 0 (nil) or EMPTY_POOL_PLACEHOLDER
  tokens,               \* of the pools the client has pushed and not popped
  calls                 \* pops in progress, the innermost last

debug == <<DebugPoolAllocation, DebugMissingPools>>
vars == <<debug, pages, tls, tokens, calls>>

EMPTY_POOL_PLACEHOLDER == -1
PlaceholderToken == [page |-> EMPTY_POOL_PLACEHOLDER, slot |-> 1]

hotPage == IF tls = EMPTY_POOL_PLACEHOLDER THEN 0 ELSE tls

Empty(page) == pages[page] = <<>>
Full(page) == Len(pages[page]) = Capacity
lessThanHalfFull(page) == Len(pages[page]) < Capacity \div 2

Init ==
  /\ DebugPoolAllocation \in BOOLEAN
  /\ DebugMissingPools \in BOOLEAN
  /\ pages = <<>>
  /\ tls = 0
  /\ tokens = <<>>
  /\ calls = <<>>

-----------------------------------------------------------------------------
(* push and autorelease *)

AddTo(page, entry) ==
  /\ page <= MaxPages
  /\ pages' = IF page > Len(pages) THEN Append(pages, <<entry>>)
              ELSE [pages EXCEPT ![page] = Append(@, entry)]
  /\ tls' = page

\* To the next page that is not full, a new one if there is none.
autoreleaseFullPage(entry) ==
  \E page \in (hotPage + 1)..(Len(pages) + 1) :
    /\ \A full \in (hotPage + 1)..(page - 1) : Full(full)
    /\ page <= Len(pages) => ~Full(page)
    /\ AddTo(page, entry)

FirstPage(entries) == pages' = <<entries>> /\ tls' = 1

\* The boundary that the placeholder stood for comes first.
PageForPlaceholder(entry) ==
  /\ tls = EMPTY_POOL_PLACEHOLDER
  /\ FirstPage(<<POOL_BOUNDARY, entry>>)

autoreleaseNoPage(entry) ==
  \/ PageForPlaceholder(entry)
  \/ /\ tls = 0 /\ entry # POOL_BOUNDARY /\ DebugMissingPools
     /\ UNCHANGED <<pages, tls>>    \* "just leaking"
  \/ /\ tls = 0 /\ entry = POOL_BOUNDARY /\ ~DebugPoolAllocation
     /\ tls' = EMPTY_POOL_PLACEHOLDER
     /\ UNCHANGED pages
  \/ /\ tls = 0
     /\ IF entry = POOL_BOUNDARY THEN DebugPoolAllocation
        ELSE ~DebugMissingPools
     /\ FirstPage(<<entry>>)

autoreleaseFast(entry) ==
  \/ hotPage # 0 /\ ~Full(hotPage) /\ AddTo(hotPage, entry)
  \/ hotPage # 0 /\ Full(hotPage) /\ autoreleaseFullPage(entry)
  \/ hotPage = 0 /\ autoreleaseNoPage(entry)

autoreleaseNewPage(entry) ==
  \/ hotPage # 0 /\ autoreleaseFullPage(entry)
  \/ hotPage = 0 /\ autoreleaseNoPage(entry)

Top == calls[Len(calls)]

\* The thread runs client code, in no pop or in a -dealloc that a pop has
\* called; it does not pop the pools of whoever called it.
ClientRuns == calls # <<>> => Top.releasing

Base == IF calls = <<>> THEN 0 ELSE Top.base

Autorelease(obj) ==
  /\ ClientRuns
  /\ autoreleaseFast(obj)
  /\ UNCHANGED <<debug, tokens, calls>>

PushOn(entered) ==
  /\ ClientRuns /\ Len(calls) < MaxCalls
  /\ entered
  /\ tokens' = Append(tokens,
                 IF tls' = EMPTY_POOL_PLACEHOLDER THEN PlaceholderToken
                 ELSE [page |-> tls', slot |-> Len(pages'[tls'])])
  /\ UNCHANGED <<debug, calls>>

\* Mutant: every pool gets a page, debugging or not.
PushNewPage == PushOn(autoreleaseNewPage(POOL_BOUNDARY))

Push ==
  PushOn(IF DebugPoolAllocation THEN autoreleaseNewPage(POOL_BOUNDARY)
         ELSE autoreleaseFast(POOL_BOUNDARY))

-----------------------------------------------------------------------------
(* pop *)

\* The start of the cold page need not be a boundary; any other place must.
ValidStop(page, slot) ==
  pages[page][slot] # POOL_BOUNDARY => page = 1 /\ slot = 1

BeginPop(page, slot, base, exit) ==
  /\ ValidStop(page, slot)
  /\ calls' = Append(calls,
                [page |-> page, stop |-> slot - 1, base |-> base,
                 exit |-> exit, releasing |-> FALSE])
  /\ UNCHANGED <<pages, tls>>

PopPlaceholder(base) ==
  \/ hotPage # 0 /\ BeginPop(1, 1, base, FALSE)
  \/ hotPage = 0 /\ tls' = 0 /\ UNCHANGED <<pages, calls>>

\* Popping a pool pops those that were pushed after it.
Pop(i) ==
  /\ ClientRuns
  /\ \/ tokens[i] = PlaceholderToken /\ PopPlaceholder(i - 1)
     \/ /\ tokens[i] # PlaceholderToken
        /\ BeginPop(tokens[i].page, tokens[i].slot, i - 1, FALSE)
  /\ tokens' = SubSeq(tokens, 1, i - 1)
  /\ UNCHANGED debug

Looping == calls # <<>> /\ ~Top.releasing

\* releaseUntil starts from the hot page every time, and goes to the parent
\* while the page is empty.
PopPage(page) ==
  /\ page \in 1..hotPage /\ ~Empty(page)
  /\ \A above \in (page + 1)..hotPage : Empty(above)

ReleaseFrom(page) ==
  /\ Looping
  /\ Len(pages[Top.page]) # Top.stop
  /\ LET size == Len(pages[page]) IN
       /\ pages' = [pages EXCEPT ![page] = SubSeq(@, 1, size - 1)]
       /\ calls' = [calls EXCEPT ![Len(calls)].releasing =
                      (pages[page][size] # POOL_BOUNDARY)]
  /\ tls' = page
  /\ UNCHANGED <<debug, tokens>>

\* Mutant: goes on where it started, whatever has been autoreleased meanwhile.
ReleaseOwn == Looping /\ ReleaseFrom(Top.page)

Release == \E page \in DOMAIN pages : PopPage(page) /\ ReleaseFrom(page)

\* The pools that the -dealloc has left open are the pop's to close.
EndRelease ==
  /\ calls # <<>> /\ Top.releasing
  /\ Len(tokens) > Base => DebugPoolAllocation \in LeftOpen
  /\ calls' = [calls EXCEPT ![Len(calls)].releasing = FALSE]
  /\ tokens' = SubSeq(tokens, 1, Base)
  /\ UNCHANGED <<debug, pages, tls>>

\* Mutant: an empty cold page is deleted when not debugging, too.
KeptUnlessEmpty(page) ==
  IF Empty(page) /\ (DebugPoolAllocation \/ page = 1) THEN page - 1
  ELSE IF page = Len(pages) \/ lessThanHalfFull(page) THEN page
  ELSE page + 1

\* How many pages a pop that ends on this page leaves: when debugging not
\* even itself, else one spare page if it is not less than half full.
Kept(page) ==
  IF Empty(page) /\ (DebugPoolAllocation \/ (DebugMissingPools /\ page = 1))
  THEN page - 1
  ELSE IF page = Len(pages) \/ lessThanHalfFull(page) THEN page
  ELSE page + 1

EndLoop == Looping /\ Len(pages[Top.page]) = Top.stop

EndPop ==
  /\ EndLoop /\ ~Top.exit
  /\ pages' = SubSeq(pages, 1, Kept(Top.page))
  /\ tls' = IF Kept(Top.page) < Top.page THEN Kept(Top.page) ELSE Top.page
  /\ calls' = SubSeq(calls, 1, Len(calls) - 1)
  /\ UNCHANGED <<debug, tokens>>

-----------------------------------------------------------------------------
(* tls_dealloc *)

\* Mutant: the pages are not killed.
EndThreadOnly(kept) == pages' = SubSeq(pages, 1, kept) /\ tls' = 0

\* The last two steps: page->kill() unless "pop() killed the pages already",
\* and the slot is cleared.
EndThread(kept) ==
  /\ pages' = IF DebugMissingPools \/ DebugPoolAllocation
              THEN SubSeq(pages, 1, kept) ELSE <<>>
  /\ tls' = 0

BeginExit ==
  /\ calls = <<>>
  /\ \/ tls = EMPTY_POOL_PLACEHOLDER /\ tls' = 0 /\ UNCHANGED <<pages, calls>>
     \/ hotPage # 0 /\ ~Empty(1) /\ BeginPop(1, 1, 0, TRUE)
     \/ hotPage # 0 /\ Empty(1) /\ EndThread(Len(pages)) /\ UNCHANGED calls
  /\ tokens' = <<>>
  /\ UNCHANGED debug

EndExit ==
  /\ EndLoop /\ Top.exit
  /\ EndThread(Kept(Top.page))
  /\ calls' = SubSeq(calls, 1, Len(calls) - 1)
  /\ UNCHANGED <<debug, tokens>>

Next ==
  \/ Push \/ Release \/ EndRelease \/ EndPop \/ BeginExit \/ EndExit
  \/ \E obj \in Objects : Autorelease(obj)
  \/ \E i \in (Base + 1)..Len(tokens) : Pop(i)

Spec == Init /\ [][Next]_vars

-----------------------------------------------------------------------------
(* Properties *)

Token == [page : {EMPTY_POOL_PLACEHOLDER} \cup 1..MaxPages, slot : 1..Capacity]

Call ==
  [page : 1..MaxPages, stop : 0..Capacity, base : Nat, exit : BOOLEAN,
   releasing : BOOLEAN]

\* In particular no page ever holds more than it has room for, which is what
\* add asserts.
TypeOK ==
  /\ debug \in BOOLEAN \X BOOLEAN
  /\ pages \in Seq(Seq(Objects \cup {POOL_BOUNDARY}))
  /\ \A page \in DOMAIN pages : Len(pages[page]) <= Capacity
  /\ tls \in {EMPTY_POOL_PLACEHOLDER} \cup 0..Len(pages)
  /\ Len(pages) <= MaxPages
  /\ tokens \in Seq(Token)
  /\ calls \in Seq(Call)

\* Whatever -deallocs do in the meantime, nothing is ever hotter than the hot
\* page.
ChildrenAreEmpty == \A page \in (hotPage + 1)..Len(pages) : Empty(page)

\* The pages hang from thread-local storage: when it holds none (after the
\* last pool is popped in a debugging mode, or the thread's end), all have
\* been freed.
NoPageLeaks == hotPage = 0 => pages = <<>>

\* The token of a pool that has not been popped names a boundary in a page
\* that is still there, so that a pop in order never gets to badPop.
NoBadPop ==
  \A i \in DOMAIN tokens :
    LET token == tokens[i] IN
      \/ /\ token = PlaceholderToken
         /\ i = 1
         /\ hotPage = 0 => tls = EMPTY_POOL_PLACEHOLDER
         /\ hotPage # 0 => pages[1] # <<>> /\ pages[1][1] = POOL_BOUNDARY
      \/ /\ token.page \in 1..hotPage
         /\ token.slot \in DOMAIN pages[token.page]
         /\ pages[token.page][token.slot] = POOL_BOUNDARY

\* A -dealloc that a pop has called pops and frees pages itself, but never
\* the page that the pop stands on, and never an entry below the place where
\* it stops: the loop in releaseUntil does not miss its end, and the walk to
\* the parent does not run off the cold page.
PopsStandFirm ==
  \A c \in DOMAIN calls :
    /\ calls[c].page <= hotPage
    /\ calls[c].stop <= Len(pages[calls[c].page])

\* "fixme I think this `while` can be `if`, but I can't prove it": when
\* releaseUntil finds the hot page empty, its parent is not.
WhileCanBeIf ==
  Looping /\ Len(pages[Top.page]) # Top.stop /\ Empty(hotPage) =>
    hotPage > 1 /\ ~Empty(hotPage - 1)

\* The assertion of DEBUG builds at the end of releaseUntil: "we expect any
\* children to be completely empty".
ReleasedEverything ==
  EndLoop => \A page \in (Top.page + 1)..Len(pages) : Empty(page)

\* "Hysteresis: keep one empty child if page is more than half full": outside
\* pops a thread has at most one page to spare, and none if the hot page is
\* less than half full.
OneSparePage ==
  calls = <<>> /\ hotPage # 0 =>
    IF lessThanHalfFull(hotPage) THEN Len(pages) = hotPage
    ELSE Len(pages) \in {hotPage, hotPage + 1}

\* What holds of the pages between any two steps of the owner, in every
\* debugging mode: the hot page is the last with anything in it, at most one
\* is spare, every token still names its boundary, and none are leaked.
PageInv ==
  TypeOK /\ ChildrenAreEmpty /\ OneSparePage /\ NoBadPop /\ NoPageLeaks
=============================================================================
