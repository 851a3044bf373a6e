\* A library whose list has a subclass before its superclass, and two bundles;
\* the loads run out in the end.
CONSTANTS
  Base = Base
  Plugin = Plugin
  Extra = Extra
  Root = Root
  Middle = Middle
  Leaf = Leaf
  Plug = Plug
  OnRoot = OnRoot
  OnLeaf = OnLeaf
  OnPlug = OnPlug
  OnMiddle = OnMiddle
  Nobody = Nobody
  Images = {Base, Plugin, Extra}
  Classes = {Root, Middle, Leaf, Plug}
  Categories = {OnRoot, OnLeaf, OnPlug, OnMiddle}
  Super <- MCSuper
  ClassOf <- MCClassOf
  ImageOf <- MCImageOf
  Loads = {Root, Leaf, Plug}
  NonlazyClasses <- MCNonlazyClasses
  NonlazyCategories <- MCNonlazyCategories
  Bundles = {Plugin, Extra}
  ClosesPending = FALSE
  MaxLoads = 9
SPECIFICATION FairSpec
PROPERTIES
  SuperclassesFirst
  ClassesBeforeCategories
  CalledOnceWhileMapped
  NoneForgotten
CHECK_DEADLOCK FALSE
