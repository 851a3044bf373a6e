------------------------------ MODULE LoadMethod ------------------------------
(***************************************************************************)
(* The +load methods of images (objc-loadmethod.mm, prepare_load_methods   *)
(* and _unload_image of objc-runtime-new.mm): the two lists of +loads that *)
(* wait, the outermost call_load_methods that works through them, and the  *)
(* images that a +load maps or unmaps while it runs.                       *)
(*                                                                         *)
(* load_images and unmap_image hold the recursive loadMethodLock from      *)
(* beginning to end, +loads included: one thread is inside, and the only   *)
(* steps between those of call_load_methods are the calls that a +load     *)
(* makes itself.                                                           *)
(***************************************************************************)
EXTENDS Integers, FiniteSets, Sequences, SequencesExt

CONSTANTS
  Images, Classes, Categories,
  Super,          \* cls->superclass, Nobody for a root class
  ClassOf,        \* cat->cls
  ImageOf,        \* the image of a class or category
  Loads,          \* the classes with a +load of their own
  NonlazyClasses, NonlazyCategories,   \* an image's lists of those with +load
  Bundles,        \* the images that can be unmapped
  ClosesPending,  \* also while the running pass has +loads of theirs
  Nobody,
  MaxLoads        \* bounds how many images are loaded

Items == Classes \cup Categories

ItemsOf(image) == {x \in Items : ImageOf[x] = image}

\* The linker lists the classes and the categories of an image that have a
\* +load, in an order of its own, and a category once.
ASSUME ImagesAssumption ==
  /\ Nobody \notin Items \cup Images
  /\ Classes \cap Categories = {}
  /\ Super \in [Classes -> Classes \cup {Nobody}]
  /\ ClassOf \in [Categories -> Classes]
  /\ ImageOf \in [Items -> Images]
  /\ Loads \subseteq Classes
  /\ NonlazyClasses \in [Images -> Seq(Classes)]
  /\ NonlazyCategories \in [Images -> Seq(Categories)]
  /\ \A image \in Images :
       /\ ToSet(NonlazyClasses[image]) = Loads \cap ItemsOf(image)
       /\ ToSet(NonlazyCategories[image]) \subseteq ItemsOf(image)
       /\ IsInjective(NonlazyCategories[image])
  /\ Bundles \subseteq Images
  /\ ClosesPending \in BOOLEAN
  /\ MaxLoads \in Nat

VARIABLES
  loaded,              \* the images for which load_images was called
  RW_LOADED,           \* the classes with that flag
  loadable_classes, loadable_categories,
  preparing,           \* the image that prepare_load_methods works on
  classlist,           \* the classes that it has still to schedule
  scheduling,          \* the calls of schedule_class_load, innermost first
  loading,             \* call_load_methods runs
  pass,                \* it calls the +loads of "classes" or "categories"
  detached,            \* the rest of the list that it has taken
  calling,             \* whose +load runs
  called,              \* ghost: the +loads called, of images still mapped
  opened               \* how many images were loaded

lists == <<loadable_classes, loadable_categories>>
preparation == <<preparing, classlist, scheduling>>
images == <<loaded, opened>>
passes == <<pass, detached, calling, called>>
vars == <<images, RW_LOADED, lists, preparation, loading, passes>>

Init ==
  /\ loaded = {}
  /\ RW_LOADED = {}
  /\ loadable_classes = << >>
  /\ loadable_categories = << >>
  /\ preparing = Nobody
  /\ classlist = << >>
  /\ scheduling = << >>
  /\ loading = FALSE
  /\ pass = "classes"
  /\ detached = << >>
  /\ calling = Nobody
  /\ called = {}
  /\ opened = 0

\* dyld initializes the images that an image needs before it.
Needs(image) ==
  ({ImageOf[ClassOf[c]] : c \in ItemsOf(image) \cap Categories}
   \cup {ImageOf[Super[c]] :
           c \in {d \in ItemsOf(image) \cap Classes : Super[d] # Nobody}})
  \ {image}

\* Whoever maps or unmaps an image is outside, or a +load.
ClientRuns == preparing = Nobody /\ (loading => calling # Nobody)

-----------------------------------------------------------------------------
(* load_images *)

hasLoadMethods(image) ==
  NonlazyClasses[image] # << >> \/ NonlazyCategories[image] # << >>

load_images(image) ==
  /\ ClientRuns
  /\ opened < MaxLoads
  /\ image \notin loaded /\ Needs(image) \subseteq loaded
  /\ loaded' = loaded \cup {image}
  /\ opened' = opened + 1
  /\ IF hasLoadMethods(image)
     THEN preparing' = image /\ classlist' = NonlazyClasses[image]
     ELSE UNCHANGED <<preparing, classlist>>
  /\ UNCHANGED <<RW_LOADED, lists, scheduling, loading, passes>>

\* prepare_load_methods schedules the classes of the image's list ...
PrepareClass ==
  /\ preparing # Nobody /\ scheduling = << >> /\ classlist # << >>
  /\ scheduling' = <<Head(classlist)>>
  /\ classlist' = Tail(classlist)
  /\ UNCHANGED <<images, RW_LOADED, lists, preparing, loading, passes>>

\* Mutant: the class is added before its superclass.
ScheduleSubclassFirst ==
  /\ scheduling # << >>
  /\ LET cls == Head(scheduling)
     IN /\ cls \notin RW_LOADED
        /\ Super[cls] \notin RW_LOADED \cup {Nobody}
        /\ scheduling' = <<Super[cls]>> \o scheduling
        /\ RW_LOADED' = RW_LOADED \cup {cls}
        /\ loadable_classes' = IF cls \in Loads
                               THEN Append(loadable_classes, cls)
                               ELSE loadable_classes
  /\ UNCHANGED <<images, loadable_categories, preparing, classlist, loading,
                 passes>>

\* ... each after its superclass ...
ScheduleSuperclass ==
  /\ scheduling # << >>
  /\ LET cls == Head(scheduling)
     IN /\ cls \notin RW_LOADED
        /\ Super[cls] \notin RW_LOADED \cup {Nobody}
        /\ scheduling' = <<Super[cls]>> \o scheduling
  /\ UNCHANGED <<images, RW_LOADED, lists, preparing, classlist, loading,
                 passes>>

\* ... by add_class_to_loadable_list, if it has a +load ...
ScheduleClass ==
  /\ scheduling # << >>
  /\ LET cls == Head(scheduling)
     IN /\ cls \notin RW_LOADED
        /\ Super[cls] \in RW_LOADED \cup {Nobody}
        /\ loadable_classes' = IF cls \in Loads
                               THEN Append(loadable_classes, cls)
                               ELSE loadable_classes
        /\ RW_LOADED' = RW_LOADED \cup {cls}
  /\ scheduling' = Tail(scheduling)
  /\ UNCHANGED <<images, loadable_categories, preparing, classlist, loading,
                 passes>>

\* ... and once,
ScheduledBefore ==
  /\ scheduling # << >> /\ Head(scheduling) \in RW_LOADED
  /\ scheduling' = Tail(scheduling)
  /\ UNCHANGED <<images, RW_LOADED, lists, preparing, classlist, loading,
                 passes>>

\* and then the categories.  Of several calls of call_load_methods inside one
\* another the first does the work.
PrepareCategories ==
  /\ preparing # Nobody /\ scheduling = << >> /\ classlist = << >>
  /\ loadable_categories' = loadable_categories \o NonlazyCategories[preparing]
  /\ preparing' = Nobody
  /\ loading' = TRUE
  /\ UNCHANGED <<images, RW_LOADED, loadable_classes, classlist, scheduling,
                 passes>>

-----------------------------------------------------------------------------
(* unmap_image *)

\* Mutant: the +loads that wait are left in the lists.
UnloadQuietly(image) ==
  /\ RW_LOADED' = RW_LOADED \ ItemsOf(image)
  /\ UNCHANGED lists

\* An image's entries in a list are emptied.
Cleared(list, image) ==
  [i \in DOMAIN list |-> IF list[i] \in ItemsOf(image) THEN Nobody ELSE list[i]]

\* The list that a running pass has detached stays as it is.
_unload_image(image) ==
  /\ RW_LOADED' = RW_LOADED \ ItemsOf(image)
  /\ loadable_classes' = Cleared(loadable_classes, image)
  /\ loadable_categories' = Cleared(loadable_categories, image)

\* No image that is loaded needs it, and it is not the caller's.
unmap_image(image) ==
  /\ ClientRuns
  /\ image \in loaded \cap Bundles
  /\ calling \notin ItemsOf(image)
  /\ \A other \in loaded \ {image} : image \notin Needs(other)
  /\ ClosesPending \/ ToSet(detached) \cap ItemsOf(image) = {}
  /\ loaded' = loaded \ {image}
  /\ _unload_image(image)
  /\ called' = called \ ItemsOf(image)
  /\ UNCHANGED <<preparation, loading, pass, detached, calling, opened>>

-----------------------------------------------------------------------------
(* call_load_methods *)

Between == preparing = Nobody /\ loading /\ calling = Nobody

\* call_class_loads takes the list, ...
DetachClasses ==
  /\ Between /\ pass = "classes" /\ detached = << >>
  /\ loadable_classes # << >>
  /\ detached' = loadable_classes
  /\ loadable_classes' = << >>
  /\ UNCHANGED <<images, RW_LOADED, loadable_categories, preparation, loading,
                 pass, calling, called>>

\* ... and calls one after the other, unless its entry was emptied.
CallNext ==
  /\ Between /\ detached # << >>
  /\ detached' = Tail(detached)
  /\ calling' = Head(detached)
  /\ called' = called \cup ({calling'} \ {Nobody})
  /\ UNCHANGED <<images, RW_LOADED, lists, preparation, loading, pass>>

LoadReturns ==
  /\ preparing = Nobody /\ loading /\ calling # Nobody
  /\ calling' = Nobody
  /\ UNCHANGED <<images, RW_LOADED, lists, preparation, loading, pass,
                 detached, called>>

\* No class waits any more: call_category_loads takes the other list.
DetachCategories ==
  /\ Between /\ pass = "classes" /\ detached = << >>
  /\ loadable_classes = << >>
  /\ pass' = "categories"
  /\ detached' = loadable_categories
  /\ loadable_categories' = << >>
  /\ UNCHANGED <<images, RW_LOADED, loadable_classes, preparation, loading,
                 calling, called>>

\* Mutant: new categories come before new classes.
MoreCategories ==
  /\ Between /\ pass = "categories" /\ detached = << >>
  /\ IF loadable_categories # << >>
     THEN /\ detached' = loadable_categories
          /\ loadable_categories' = << >>
          /\ UNCHANGED <<pass, loading>>
     ELSE /\ pass' = "classes"
          /\ loading' = (loadable_classes # << >>)
          /\ UNCHANGED <<detached, loadable_categories>>
  /\ UNCHANGED <<images, RW_LOADED, loadable_classes, preparation, calling,
                 called>>

\* Mutant: categories added meanwhile do not count.
StopEarly ==
  /\ Between /\ pass = "categories" /\ detached = << >>
  /\ pass' = "classes"
  /\ loading' = (loadable_classes # << >>)
  /\ UNCHANGED <<images, RW_LOADED, lists, preparation, detached, calling,
                 called>>

\* Each of the detached categories was called, for a class that is registered
\* is loadable; those added meanwhile stay.  Once more, if there are any.
CategoriesDone ==
  /\ Between /\ pass = "categories" /\ detached = << >>
  /\ pass' = "classes"
  /\ loading' = (loadable_classes # << >> \/ loadable_categories # << >>)
  /\ UNCHANGED <<images, RW_LOADED, lists, preparation, detached, calling,
                 called>>

-----------------------------------------------------------------------------
PrepareStep ==
  \/ PrepareClass \/ ScheduleSuperclass \/ ScheduleClass \/ ScheduledBefore
  \/ PrepareCategories

LoadStep ==
  \/ DetachClasses \/ CallNext \/ LoadReturns
  \/ DetachCategories \/ CategoriesDone

Next ==
  \/ \E image \in Images : load_images(image) \/ unmap_image(image)
  \/ PrepareStep
  \/ LoadStep

Spec == Init /\ [][Next]_vars

\* The thread inside goes on, and every +load returns.
FairSpec == Spec /\ WF_vars(PrepareStep \/ LoadStep)

-----------------------------------------------------------------------------
\* What is in every set of classes that has the class and, with a class, its
\* superclass: the class and its superclasses.
Lineage(cls) ==
  {c \in Classes :
     \A S \in SUBSET Classes :
       /\ cls \in S
       /\ \A d \in S : Super[d] \in S \cup {Nobody}
       => c \in S}

Superclasses(cls) == Lineage(cls) \ {cls}

\* The step calls the +load of one of them.
Calls(S) == calling' # calling /\ calling' \in S

(* "Class +load methods are called superclass-first", whatever the order   *)
(* of an image's classes, and also for classes that a +load brings in.     *)
SuperclassesFirst ==
  [][\A cls \in Classes :
       Calls({cls}) => Superclasses(cls) \cap Loads \subseteq called]_vars

(* "Category +load methods are not called until after the parent class's   *)
(* +load", even if a category's +load brings in the class and the category *)
ClassesBeforeCategories ==
  [][\A cat \in Categories :
       Calls({cat}) /\ ClassOf[cat] \in Loads => ClassOf[cat] \in called]_vars

(* A +load is called once while its image is mapped, and never when it is  *)
(* no longer: "Class cls may have been loadable before, but it is now no   *)
(* longer loadable (because its image is being unmapped)".                 *)
CalledOnceWhileMapped ==
  [][\A x \in Items :
       Calls({x}) => x \notin called /\ ImageOf[x] \in loaded]_vars

(* No +load is forgotten because it was added during a +load.              *)
NoneForgotten ==
  \A image \in Images :
    \A x \in ToSet(NonlazyClasses[image])
             \cup ToSet(NonlazyCategories[image]) :
      image \in loaded ~> image \notin loaded \/ x \in called

-----------------------------------------------------------------------------
(* The invariant behind them, as long as no +load closes an image whose     *)
(* +loads are next.                                                        *)

Waiting(list) == ToSet(list) \ {Nobody}
Ahead(list, i) == {list[j] : j \in 1 .. (i - 1)}

TypeOK ==
  /\ loaded \subseteq Images /\ RW_LOADED \subseteq Classes
  /\ loadable_classes \in Seq(Loads \cup {Nobody})
  /\ loadable_categories \in Seq(Categories \cup {Nobody})
  /\ preparing \in loaded \cup {Nobody}
  /\ classlist \in Seq(Classes) /\ scheduling \in Seq(Classes)
  /\ pass \in {"classes", "categories"}
  /\ detached \in Seq((IF pass = "classes" THEN Loads ELSE Categories)
                      \cup {Nobody})
  /\ calling \in Items \cup {Nobody} /\ called \subseteq Items

\* What the runtime knows of is mapped, with all that it needs.
MappedInv ==
  /\ \A image \in loaded : Needs(image) \subseteq loaded
  /\ \A x \in RW_LOADED \cup ToSet(classlist) \cup ToSet(scheduling)
             \cup called \cup Waiting(detached)
             \cup Waiting(loadable_classes) \cup Waiting(loadable_categories) :
       ImageOf[x] \in loaded
  /\ \A cls \in RW_LOADED : Super[cls] \in RW_LOADED \cup {Nobody}

\* A class is scheduled or will be, and what is scheduled waits or was called.
ScheduleInv ==
  /\ \A cls \in Loads :
       ImageOf[cls] \in loaded =>
         cls \in RW_LOADED \cup ToSet(classlist) \cup ToSet(scheduling)
  /\ (called \cup Waiting(detached) \cup Waiting(loadable_classes))
     \cap Classes = RW_LOADED \cap Loads
  /\ preparing = Nobody => classlist = << >> /\ scheduling = << >>

IsOnce(list) ==
  /\ Waiting(list) \cap called = {}
  /\ \A i, j \in DOMAIN list : list[i] = list[j] /\ list[i] # Nobody => i = j

\* It is in one place only.
OnceInv ==
  /\ IsOnce(detached) /\ IsOnce(loadable_classes)
  /\ IsOnce(loadable_categories)
  /\ Waiting(detached)
     \cap (Waiting(loadable_classes) \cup Waiting(loadable_categories)) = {}
  /\ preparing # Nobody =>
       (called \cup Waiting(detached) \cup Waiting(loadable_categories))
       \cap ItemsOf(preparing) \cap Categories = {}

\* In the lists a class is behind its superclasses; a category whose turn it
\* is, or will be, is behind its class.
OrderInv ==
  /\ \A i \in DOMAIN detached : detached[i] \in Classes =>
       Superclasses(detached[i]) \cap Loads
         \subseteq called \cup Ahead(detached, i)
  /\ \A i \in DOMAIN loadable_classes : loadable_classes[i] \in Classes =>
       Superclasses(loadable_classes[i]) \cap Loads
         \subseteq called \cup ToSet(detached) \cup Ahead(loadable_classes, i)
  /\ \A cat \in ToSet(detached) \cap Categories :
       ClassOf[cat] \in Loads => ClassOf[cat] \in called
  /\ \A cat \in ToSet(loadable_categories) \cap Categories :
       ClassOf[cat] \in Loads => ClassOf[cat] \in RW_LOADED

(* Every class of a mapped image that has a +load is scheduled, waits or   *)
(* was called, in one place and behind its superclasses.                   *)
LoadInv == TypeOK /\ MappedInv /\ ScheduleInv /\ OnceInv /\ OrderInv

=============================================================================
