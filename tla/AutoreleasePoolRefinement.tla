---------------------- MODULE AutoreleasePoolRefinement ----------------------
(***************************************************************************)
(* The pages of AutoreleasePool, one after the other, are the stack of     *)
(* PoolStack, and the placeholder is a stack of one boundary.              *)
(***************************************************************************)
EXTENDS AutoreleasePool, SequencesExt

Entries(seqs) == Len(FlattenSeq(seqs))

\* A place in a page is one in the stack after the pages below.
Position(page, slot) == Entries(SubSeq(pages, 1, page - 1)) + slot

Stack ==
  IF tls = EMPTY_POOL_PLACEHOLDER THEN <<POOL_BOUNDARY>>
  ELSE FlattenSeq(pages)

Open ==
  [i \in DOMAIN tokens |->
     IF tokens[i] = PlaceholderToken THEN 1
     ELSE Position(tokens[i].page, tokens[i].slot)]

Pops ==
  [c \in DOMAIN calls |->
     [stop |-> Position(calls[c].page, calls[c].stop),
      base |-> calls[c].base, releasing |-> calls[c].releasing]]

Abstract == INSTANCE PoolStack WITH stack <- Stack, open <- Open, calls <- Pops

\* Cut into pages, with or without a page for each pool, under a placeholder
\* or not, and with pages freed and kept, it is still one stack: a pop
\* releases what is hotter than its boundary, hottest first and each once,
\* what -deallocs add meanwhile included, and leaves everything below alone.
ImplementsPoolStack == Abstract!Spec
=============================================================================
