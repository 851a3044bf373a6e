----------------------------- MODULE MCLoadMethod -----------------------------
(***************************************************************************)
(* LoadMethod with a library whose list has a subclass before its          *)
(* superclass, and two bundles that extend its classes.                    *)
(***************************************************************************)
EXTENDS LoadMethod, TLC

CONSTANTS Base, Plugin, Extra,
  Root, Middle, Leaf, Plug,
  OnRoot, OnLeaf, OnPlug, OnMiddle

MCSuper ==
  (Root :> Nobody) @@ (Middle :> Root) @@ (Leaf :> Middle)
  @@ (Plug :> Leaf)
MCClassOf ==
  (OnRoot :> Root) @@ (OnLeaf :> Leaf) @@ (OnPlug :> Plug)
  @@ (OnMiddle :> Middle)
MCImageOf ==
  [x \in {Root, Middle, Leaf, OnRoot} |-> Base]
  @@ [x \in {Plug, OnPlug, OnLeaf} |-> Plugin]
  @@ [x \in {OnMiddle} |-> Extra]
MCNonlazyClasses ==
  (Base :> <<Leaf, Root>>) @@ (Plugin :> <<Plug>>) @@ (Extra :> << >>)
MCNonlazyCategories ==
  (Base :> <<OnRoot>>) @@ (Plugin :> <<OnPlug, OnLeaf>>)
  @@ (Extra :> <<OnMiddle>>)

=============================================================================
