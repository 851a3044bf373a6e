-------------------------- MODULE LoadMethodProofs --------------------------
(***************************************************************************)
(* For any images, classes and categories, and any order in which an       *)
(* image's classes are listed: LoadInv is inductive, and the order in      *)
(* which +loads are called follows from it.                                *)
(***************************************************************************)
EXTENDS LoadMethod, TLAPS

-----------------------------------------------------------------------------
(* Lists *)

LEMMA TailOf ==
  ASSUME NEW S, NEW list \in Seq(S), list # << >>
  PROVE  /\ Head(list) \in S /\ Tail(list) \in Seq(S)
         /\ Head(list) = list[1] /\ 1 \in DOMAIN list
         /\ DOMAIN Tail(list) = 1 .. (Len(list) - 1)
         /\ \A i \in DOMAIN Tail(list) :
              i + 1 \in DOMAIN list /\ Tail(list)[i] = list[i + 1]
         /\ ToSet(list) = {Head(list)} \cup ToSet(Tail(list))
<1>1. /\ Head(list) \in S /\ Tail(list) \in Seq(S)
      /\ Head(list) = list[1] /\ 1 \in DOMAIN list
  OBVIOUS
<1>2. Len(Tail(list)) = Len(list) - 1 /\ Len(list) \in Nat /\ Len(list) # 0
  OBVIOUS
<1>3. DOMAIN Tail(list) = 1 .. (Len(list) - 1)
  BY <1>1, <1>2
<1>4. \A i \in DOMAIN Tail(list) :
        i + 1 \in DOMAIN list /\ Tail(list)[i] = list[i + 1]
  BY <1>2, <1>3
<1>5. \A i \in DOMAIN list : i = 1 \/ (i - 1 \in DOMAIN Tail(list)
                                        /\ list[i] = Tail(list)[i - 1])
  BY <1>2, <1>3
<1>6. ToSet(list) \subseteq {Head(list)} \cup ToSet(Tail(list))
  <2> SUFFICES ASSUME NEW i \in DOMAIN list
               PROVE  list[i] \in {Head(list)} \cup ToSet(Tail(list))
    BY DEF ToSet
  <2> QED BY <1>1, <1>5 DEF ToSet
<1>7. {Head(list)} \cup ToSet(Tail(list)) \subseteq ToSet(list)
  BY <1>1, <1>4 DEF ToSet
<1> QED BY <1>1, <1>3, <1>4, <1>6, <1>7

LEMMA AppendTo ==
  ASSUME NEW S, NEW list \in Seq(S), NEW x \in S
  PROVE  /\ Append(list, x) \in Seq(S)
         /\ DOMAIN Append(list, x) = DOMAIN list \cup {Len(list) + 1}
         /\ \A i \in DOMAIN list : Append(list, x)[i] = list[i]
         /\ Append(list, x)[Len(list) + 1] = x
         /\ ToSet(Append(list, x)) = ToSet(list) \cup {x}
<1>1. /\ Append(list, x) \in Seq(S)
      /\ Len(Append(list, x)) = Len(list) + 1 /\ Len(list) \in Nat
      /\ \A i \in 1 .. Len(list) : Append(list, x)[i] = list[i]
      /\ Append(list, x)[Len(list) + 1] = x
  OBVIOUS
<1>2. DOMAIN list = 1 .. Len(list)
      /\ DOMAIN Append(list, x) = 1 .. (Len(list) + 1)
  BY <1>1
<1>3. 1 .. (Len(list) + 1) = (1 .. Len(list)) \cup {Len(list) + 1}
  BY <1>1
<1> QED BY <1>1, <1>2, <1>3 DEF ToSet

LEMMA ConcatOf ==
  ASSUME NEW S, NEW list \in Seq(S), NEW more \in Seq(S)
  PROVE  /\ list \o more \in Seq(S)
         /\ \A i \in DOMAIN (list \o more) :
              \/ i \in DOMAIN list /\ (list \o more)[i] = list[i]
              \/ /\ i > Len(list)
                 /\ i - Len(list) \in DOMAIN more
                 /\ (list \o more)[i] = more[i - Len(list)]
         /\ ToSet(list \o more) = ToSet(list) \cup ToSet(more)
<1>1. /\ list \o more \in Seq(S)
      /\ Len(list \o more) = Len(list) + Len(more)
      /\ Len(list) \in Nat /\ Len(more) \in Nat
      /\ \A i \in 1 .. (Len(list) + Len(more)) :
           (list \o more)[i] = IF i <= Len(list) THEN list[i]
                               ELSE more[i - Len(list)]
  OBVIOUS
<1>2. /\ DOMAIN list = 1 .. Len(list) /\ DOMAIN more = 1 .. Len(more)
      /\ DOMAIN (list \o more) = 1 .. (Len(list) + Len(more))
  BY <1>1
<1>3. \A i \in DOMAIN (list \o more) :
        \/ i \in DOMAIN list /\ (list \o more)[i] = list[i]
        \/ /\ i > Len(list)
           /\ i - Len(list) \in DOMAIN more
           /\ (list \o more)[i] = more[i - Len(list)]
  BY <1>1, <1>2
<1>4. \A i \in DOMAIN list : i \in DOMAIN (list \o more)
                             /\ (list \o more)[i] = list[i]
  BY <1>1, <1>2
<1>5. \A i \in DOMAIN more :
        i + Len(list) \in DOMAIN (list \o more)
        /\ (list \o more)[i + Len(list)] = more[i]
  <2> TAKE i \in DOMAIN more
  <2>1. i \in 1 .. Len(more)
    BY <1>2
  <2>2. /\ i + Len(list) \in 1 .. (Len(list) + Len(more))
        /\ ~ (i + Len(list) <= Len(list))
        /\ (i + Len(list)) - Len(list) = i
    BY <2>1, <1>1
  <2>3. (list \o more)[i + Len(list)] = more[(i + Len(list)) - Len(list)]
    BY <2>2, <1>1
  <2> QED BY <1>2, <2>2, <2>3
<1>6. ToSet(list \o more) \subseteq ToSet(list) \cup ToSet(more)
  <2> SUFFICES ASSUME NEW i \in DOMAIN (list \o more)
               PROVE  (list \o more)[i] \in ToSet(list) \cup ToSet(more)
    BY DEF ToSet
  <2> QED BY <1>3 DEF ToSet
<1>7. ToSet(list) \cup ToSet(more) \subseteq ToSet(list \o more)
  BY <1>4, <1>5 DEF ToSet
<1> QED BY <1>1, <1>3, <1>6, <1>7

\* The entries that are left, each where it was.
LEMMA ClearedList ==
  ASSUME NEW S, Nobody \in S, NEW list \in Seq(S), NEW image \in Images
  PROVE  /\ Cleared(list, image) \in Seq(S)
         /\ DOMAIN Cleared(list, image) = DOMAIN list
         /\ \A i \in DOMAIN list :
              \/ Cleared(list, image)[i] = list[i]
                 /\ list[i] \notin ItemsOf(image)
              \/ Cleared(list, image)[i] = Nobody
                 /\ list[i] \in ItemsOf(image)
         /\ Waiting(Cleared(list, image)) = Waiting(list) \ ItemsOf(image)
<1>1. DOMAIN list = 1 .. Len(list) /\ Len(list) \in Nat
      /\ \A i \in DOMAIN list : list[i] \in S
  OBVIOUS
<1>2. Nobody \notin ItemsOf(image)
  BY ImagesAssumption DEF ItemsOf
<1>3. Cleared(list, image) \in [1 .. Len(list) -> S]
  BY <1>1 DEF Cleared
<1>4. Cleared(list, image) \in Seq(S)
  BY <1>1, <1>3
<1>5. /\ DOMAIN Cleared(list, image) = DOMAIN list
      /\ \A i \in DOMAIN list :
           Cleared(list, image)[i] =
             IF list[i] \in ItemsOf(image) THEN Nobody ELSE list[i]
  BY DEF Cleared
<1>6. \A i \in DOMAIN list :
        \/ Cleared(list, image)[i] = list[i] /\ list[i] \notin ItemsOf(image)
        \/ Cleared(list, image)[i] = Nobody /\ list[i] \in ItemsOf(image)
  BY <1>5
<1>7. Waiting(Cleared(list, image)) = Waiting(list) \ ItemsOf(image)
  BY <1>2, <1>5, <1>6 DEF Waiting, ToSet
<1> QED BY <1>4, <1>5, <1>6, <1>7

LEMMA EmptyList ==
  ASSUME NEW S
  PROVE  /\ << >> \in Seq(S) /\ ToSet(<< >>) = {} /\ Waiting(<< >>) = {}
         /\ DOMAIN << >> = {}
BY DEF ToSet, Waiting

-----------------------------------------------------------------------------
(* Superclasses *)

\* A set that is closed under superclasses holds those of its members.
LEMMA LineageIsLeast ==
  ASSUME NEW cls \in Classes, NEW S \in SUBSET Classes, cls \in S,
         \A d \in S : Super[d] \in S \cup {Nobody}
  PROVE  Lineage(cls) \subseteq S
BY DEF Lineage

\* A superclass of what is mapped is mapped.
LEMMA LineageIsMapped ==
  ASSUME NEW some \in SUBSET Images,
         \A image \in some : Needs(image) \subseteq some,
         NEW cls \in Classes, ImageOf[cls] \in some
  PROVE  \A c \in Lineage(cls) : ImageOf[c] \in some
<1> DEFINE S == {c \in Classes : ImageOf[c] \in some}
<1>1. ASSUME NEW d \in S, Super[d] # Nobody
      PROVE  Super[d] \in S
  <2>1. Super[d] \in Classes /\ ImageOf[d] \in Images
    BY <1>1, ImagesAssumption DEF Items
  <2>2. d \in ItemsOf(ImageOf[d]) \cap Classes
    BY DEF ItemsOf, Items
  <2>3. ImageOf[Super[d]] \in Needs(ImageOf[d])
        \/ ImageOf[Super[d]] = ImageOf[d]
    BY <2>2, <1>1 DEF Needs
  <2> QED BY <2>1, <2>3
<1>2. cls \in S /\ S \in SUBSET Classes
  OBVIOUS
<1>3. \A d \in S : Super[d] \in S \cup {Nobody}
  BY <1>1
<1> HIDE DEF S
<1>4. Lineage(cls) \subseteq S
  BY <1>2, <1>3, LineageIsLeast
<1> QED BY <1>4 DEF S

\* The superclasses of a class that is scheduled were scheduled before.
LEMMA LineageIsLoaded ==
  ASSUME NEW loads \in SUBSET Classes,
         \A d \in loads : Super[d] \in loads \cup {Nobody},
         NEW cls \in Classes, Super[cls] \in loads \cup {Nobody}
  PROVE  Superclasses(cls) \subseteq loads
<1> DEFINE S == loads \cup {cls}
<1>1. cls \in S /\ S \in SUBSET Classes
      /\ \A d \in S : Super[d] \in S \cup {Nobody}
  OBVIOUS
<1> HIDE DEF S
<1>2. Lineage(cls) \subseteq S
  BY <1>1, LineageIsLeast
<1> QED BY <1>2 DEF S, Superclasses

-----------------------------------------------------------------------------
(* Steps *)

LEMMA InitInv == Init => LoadInv
<1> SUFFICES ASSUME Init PROVE LoadInv
  OBVIOUS
<1>1. \A S : << >> \in Seq(S) /\ ToSet(<< >>) = {} /\ Waiting(<< >>) = {}
             /\ DOMAIN << >> = {}
  BY EmptyList
<1>2. TypeOK
  BY <1>1 DEF Init, TypeOK
<1>3. MappedInv /\ ScheduleInv
  BY <1>1 DEF Init, MappedInv, ScheduleInv
<1>4. OnceInv /\ OrderInv
  BY <1>1 DEF Init, OnceInv, OrderInv, IsOnce
<1> QED BY <1>2, <1>3, <1>4 DEF LoadInv

\* An image that is loaded brings its classes' and categories' +loads.
LEMMA LoadImages ==
  ASSUME LoadInv, NEW image \in Images, load_images(image)
  PROVE  LoadInv'
<1> USE DEF LoadInv, load_images, lists, passes
<1>1. /\ classlist = << >> /\ scheduling = << >> /\ preparing = Nobody
      /\ preparing' \in {image, Nobody}
      /\ loaded' = loaded \cup {image}
      /\ ToSet(classlist) = {} /\ ToSet(scheduling) = {}
  BY EmptyList DEF ClientRuns, ScheduleInv
<1>2. /\ classlist' \in Seq(Classes)
      /\ ToSet(classlist') = Loads \cap ItemsOf(image)
      /\ preparing' = Nobody => classlist' = << >>
  <2>1. CASE hasLoadMethods(image)
    BY <2>1, ImagesAssumption
  <2>2. CASE ~ hasLoadMethods(image)
    BY <2>2, <1>1, ImagesAssumption, EmptyList DEF hasLoadMethods, TypeOK
  <2> QED BY <2>1, <2>2
<1>3. TypeOK'
  BY <1>1, <1>2 DEF TypeOK
<1>4. MappedInv'
  <2>1. \A other \in loaded' : Needs(other) \subseteq loaded'
    BY <1>1 DEF MappedInv
  <2>2. \A x \in ToSet(classlist') : ImageOf[x] \in loaded'
    BY <1>1, <1>2 DEF ItemsOf
  <2> QED BY <1>1, <2>1, <2>2 DEF MappedInv
<1>5. ScheduleInv'
  <2>1. ASSUME NEW cls \in Loads, ImageOf[cls] \in loaded'
        PROVE  cls \in RW_LOADED' \cup ToSet(classlist') \cup ToSet(scheduling')
    <3>1. CASE ImageOf[cls] \in loaded
      BY <3>1, <1>1 DEF ScheduleInv
    <3>2. CASE ImageOf[cls] = image
      BY <3>2, <1>2, ImagesAssumption DEF ItemsOf, Items
    <3> QED BY <2>1, <1>1, <3>1, <3>2
  <2> QED BY <1>1, <1>2, <2>1 DEF ScheduleInv
<1>6. OnceInv'
  <2>1. (called \cup Waiting(detached) \cup Waiting(loadable_categories))
        \cap ItemsOf(image) = {}
    BY DEF MappedInv, ItemsOf
  <2>2. preparing' # Nobody => preparing' = image
    BY <1>1
  <2>3. /\ called' = called /\ detached' = detached
        /\ loadable_classes' = loadable_classes
        /\ loadable_categories' = loadable_categories
    OBVIOUS
  <2> QED BY <2>1, <2>2, <2>3 DEF OnceInv, IsOnce
<1>7. OrderInv'
  BY DEF OrderInv
<1> QED BY <1>3, <1>4, <1>5, <1>6, <1>7

LEMMA ClassPrepared ==
  ASSUME LoadInv, PrepareClass
  PROVE  LoadInv'
<1> USE DEF LoadInv, PrepareClass, images, lists, passes
<1>1. /\ classlist' \in Seq(Classes) /\ scheduling' \in Seq(Classes)
      /\ ToSet(classlist) \cup ToSet(scheduling)
         = ToSet(classlist') \cup ToSet(scheduling')
  <2>1. /\ Head(classlist) \in Classes /\ Tail(classlist) \in Seq(Classes)
        /\ ToSet(classlist) = {Head(classlist)} \cup ToSet(Tail(classlist))
    BY TailOf DEF TypeOK
  <2>2. ToSet(<<Head(classlist)>>) = {Head(classlist)}
    BY DEF ToSet
  <2> QED BY <2>1, <2>2, EmptyList
<1>2. TypeOK'
  BY <1>1 DEF TypeOK
<1>3. MappedInv' /\ ScheduleInv'
  BY <1>1 DEF MappedInv, ScheduleInv
<1>4. OnceInv' /\ OrderInv'
  BY DEF OnceInv, IsOnce, OrderInv
<1> QED BY <1>2, <1>3, <1>4

LEMMA SuperclassScheduled ==
  ASSUME LoadInv, ScheduleSuperclass
  PROVE  LoadInv'
<1> USE DEF LoadInv, ScheduleSuperclass, images, lists, passes
<1> DEFINE cls == Head(scheduling)
<1>1. /\ cls \in Classes /\ cls \in ToSet(scheduling)
      /\ scheduling' = <<Super[cls]>> \o scheduling
      /\ Super[cls] \in Classes
  BY TailOf, ImagesAssumption DEF TypeOK
<1>2. /\ scheduling' \in Seq(Classes)
      /\ ToSet(scheduling') = ToSet(scheduling) \cup {Super[cls]}
  <2>1. /\ <<Super[cls]>> \in Seq(Classes) /\ scheduling \in Seq(Classes)
        /\ ToSet(<<Super[cls]>>) = {Super[cls]}
    BY <1>1 DEF TypeOK, ToSet
  <2>2. PICK one \in Seq(Classes) : one = <<Super[cls]>>
    BY <2>1
  <2>3. /\ one \o scheduling \in Seq(Classes)
        /\ ToSet(one \o scheduling) = ToSet(one) \cup ToSet(scheduling)
    BY <2>1, ConcatOf
  <2> QED BY <1>1, <2>1, <2>2, <2>3
<1>3. TypeOK'
  BY <1>2 DEF TypeOK
<1>4. ImageOf[Super[cls]] \in loaded
  <2>1. ImageOf[cls] \in loaded /\ cls \in ItemsOf(ImageOf[cls]) \cap Classes
    BY <1>1 DEF MappedInv, ItemsOf, Items
  <2>2. \/ ImageOf[Super[cls]] = ImageOf[cls]
        \/ ImageOf[Super[cls]] \in Needs(ImageOf[cls])
    BY <2>1 DEF Needs
  <2> QED BY <2>1, <2>2 DEF MappedInv
<1>5. MappedInv'
  BY <1>2, <1>4 DEF MappedInv
<1>6. ScheduleInv'
  <2>1. preparing # Nobody
    BY DEF ScheduleInv
  <2> QED BY <1>2, <2>1 DEF ScheduleInv
<1>7. OnceInv' /\ OrderInv'
  BY DEF OnceInv, IsOnce, OrderInv
<1> QED BY <1>3, <1>5, <1>6, <1>7

LEMMA FoundScheduled ==
  ASSUME LoadInv, ScheduledBefore
  PROVE  LoadInv'
<1> USE DEF LoadInv, ScheduledBefore, images, lists, passes
<1>1. /\ scheduling' \in Seq(Classes)
      /\ ToSet(scheduling) = {Head(scheduling)} \cup ToSet(scheduling')
  BY TailOf DEF TypeOK
<1>2. TypeOK'
  BY <1>1 DEF TypeOK
<1>3. MappedInv'
  BY <1>1 DEF MappedInv
<1>4. ScheduleInv'
  <2>1. preparing # Nobody
    BY DEF ScheduleInv
  <2> QED BY <1>1, <2>1 DEF ScheduleInv
<1>5. OnceInv' /\ OrderInv'
  BY DEF OnceInv, IsOnce, OrderInv
<1> QED BY <1>2, <1>3, <1>4, <1>5

LEMMA ClassScheduled ==
  ASSUME LoadInv, ScheduleClass
  PROVE  LoadInv'
<1> USE DEF LoadInv
<1> DEFINE cls == Head(scheduling)
<1>1. /\ cls \in Classes /\ cls \in ToSet(scheduling)
      /\ cls \notin RW_LOADED /\ Super[cls] \in RW_LOADED \cup {Nobody}
      /\ RW_LOADED' = RW_LOADED \cup {cls}
      /\ preparing # Nobody
      /\ scheduling' \in Seq(Classes)
      /\ ToSet(scheduling) = {cls} \cup ToSet(scheduling')
      /\ loadable_classes' = IF cls \in Loads
                             THEN Append(loadable_classes, cls)
                             ELSE loadable_classes
  BY TailOf DEF TypeOK, ScheduleClass, ScheduleInv
<1>2. /\ UNCHANGED <<loaded, preparing, classlist, pass, detached, calling>>
      /\ called' = called /\ loadable_categories' = loadable_categories
  BY DEF ScheduleClass, images, passes
<1> HIDE DEF cls
<1>3. /\ loadable_classes' \in Seq(Loads \cup {Nobody})
      /\ Waiting(loadable_classes')
         = Waiting(loadable_classes) \cup ({cls} \cap Loads)
      /\ DOMAIN loadable_classes \subseteq DOMAIN loadable_classes'
      /\ \A i \in DOMAIN loadable_classes :
           loadable_classes'[i] = loadable_classes[i]
      /\ \A i \in DOMAIN loadable_classes' \ DOMAIN loadable_classes :
           /\ i = Len(loadable_classes) + 1
           /\ loadable_classes'[i] = cls /\ cls \in Loads
  <2>1. loadable_classes \in Seq(Loads \cup {Nobody}) /\ cls # Nobody
    BY <1>1, ImagesAssumption DEF TypeOK, Items
  <2>2. CASE cls \in Loads
    <3>1. loadable_classes' = Append(loadable_classes, cls)
      BY <1>1, <2>2
    <3>2. /\ loadable_classes' \in Seq(Loads \cup {Nobody})
          /\ DOMAIN loadable_classes' =
               DOMAIN loadable_classes \cup {Len(loadable_classes) + 1}
          /\ \A i \in DOMAIN loadable_classes :
               loadable_classes'[i] = loadable_classes[i]
          /\ loadable_classes'[Len(loadable_classes) + 1] = cls
          /\ ToSet(loadable_classes') = ToSet(loadable_classes) \cup {cls}
      BY <2>1, <2>2, <3>1, AppendTo
    <3> QED BY <2>1, <2>2, <3>2 DEF Waiting
  <2>3. CASE cls \notin Loads
    BY <1>1, <2>1, <2>3
  <2> QED BY <2>2, <2>3
<1>4. TypeOK'
  BY <1>1, <1>2, <1>3 DEF TypeOK
<1>5. MappedInv'
  BY <1>1, <1>2, <1>3 DEF MappedInv
<1>6. ScheduleInv'
  <2>1. (called \cup Waiting(detached) \cup Waiting(loadable_classes'))
        \cap Classes = RW_LOADED' \cap Loads
    BY <1>1, <1>3, ImagesAssumption DEF ScheduleInv
  <2> QED BY <1>1, <1>2, <2>1 DEF ScheduleInv
\* It was not scheduled before and is nowhere.
<1>7. OnceInv'
  <2>1. cls \notin called \cup Waiting(detached) \cup Waiting(loadable_classes)
    BY <1>1 DEF ScheduleInv
  <2>2. cls \notin Waiting(loadable_categories) /\ cls # Nobody
    <3>1. \A i \in DOMAIN loadable_categories :
            loadable_categories[i] \in Categories \cup {Nobody}
      BY DEF TypeOK
    <3> QED BY <1>1, <3>1, ImagesAssumption DEF Waiting, ToSet, Items
  <2>3. \A i \in DOMAIN loadable_classes : loadable_classes[i] # cls
    BY <2>1, <2>2 DEF Waiting, ToSet
  <2>4. Waiting(loadable_classes') \cap called = {}
    BY <1>3, <2>1 DEF OnceInv, IsOnce
  <2>5. ASSUME NEW i \in DOMAIN loadable_classes',
               NEW j \in DOMAIN loadable_classes',
               loadable_classes'[i] = loadable_classes'[j],
               loadable_classes'[i] # Nobody
        PROVE  i = j
    BY <1>3, <2>3, <2>5 DEF OnceInv, IsOnce
  <2>6. IsOnce(loadable_classes)'
    BY <1>2, <2>4, <2>5 DEF IsOnce
  <2>7. Waiting(detached) \cap (Waiting(loadable_classes')
                                \cup Waiting(loadable_categories)) = {}
    BY <1>3, <2>1 DEF OnceInv
  <2> QED BY <1>2, <2>6, <2>7 DEF OnceInv, IsOnce
<1>8. OrderInv'
  <2>1. ASSUME NEW i \in DOMAIN loadable_classes',
               loadable_classes'[i] \in Classes
        PROVE  Superclasses(loadable_classes'[i]) \cap Loads
                 \subseteq called \cup ToSet(detached)
                           \cup Ahead(loadable_classes', i)
    <3>0. /\ Len(loadable_classes) \in Nat
          /\ DOMAIN loadable_classes = 1 .. Len(loadable_classes)
      BY DEF TypeOK
    <3>1. CASE i \in DOMAIN loadable_classes
      <4>1. 1 .. (i - 1) \subseteq DOMAIN loadable_classes
        BY <3>0, <3>1
      <4>2. Ahead(loadable_classes, i) \subseteq Ahead(loadable_classes', i)
        BY <1>3, <4>1 DEF Ahead
      <4>3. loadable_classes'[i] = loadable_classes[i]
        BY <1>3, <3>1
      <4> QED BY <2>1, <3>1, <4>2, <4>3 DEF OrderInv
    <3>2. CASE i \notin DOMAIN loadable_classes
      <4>1. i = Len(loadable_classes) + 1 /\ loadable_classes'[i] = cls
        BY <1>3, <3>2
      <4>2. 1 .. (i - 1) = DOMAIN loadable_classes
        BY <3>0, <4>1
      <4>3. Waiting(loadable_classes) \subseteq Ahead(loadable_classes', i)
        BY <1>3, <4>2 DEF Ahead, Waiting, ToSet
      <4>4. Superclasses(cls) \subseteq RW_LOADED
        BY <1>1, LineageIsLoaded DEF TypeOK, MappedInv
      <4>5. RW_LOADED \cap Loads
              \subseteq called \cup Waiting(detached)
                        \cup Waiting(loadable_classes)
        BY DEF ScheduleInv
      <4> QED BY <4>1, <4>3, <4>4, <4>5 DEF Waiting
    <3> QED BY <3>1, <3>2
  <2> QED BY <1>1, <1>2, <2>1 DEF OrderInv
<1> QED BY <1>4, <1>5, <1>6, <1>7, <1>8

LEMMA CategoriesPrepared ==
  ASSUME LoadInv, PrepareCategories
  PROVE  LoadInv'
<1> USE DEF LoadInv
<1> DEFINE old == loadable_categories
           more == NonlazyCategories[preparing]
<1>1. /\ preparing \in Images /\ preparing \in loaded /\ preparing # Nobody
      /\ scheduling = << >> /\ classlist = << >>
      /\ old' = old \o more /\ preparing' = Nobody
      /\ old \in Seq(Categories \cup {Nobody})
      /\ Len(old) \in Nat /\ DOMAIN old = 1 .. Len(old)
  BY DEF PrepareCategories, TypeOK
<1>2. UNCHANGED <<loaded, RW_LOADED, loadable_classes, classlist, scheduling,
                  pass, detached, calling, called>>
  BY DEF PrepareCategories, images, passes
<1>3. /\ more \in Seq(Categories) /\ more \in Seq(Categories \cup {Nobody})
      /\ ToSet(more) \subseteq ItemsOf(preparing) \cap Categories
      /\ Nobody \notin ToSet(more)
      /\ \A i, j \in DOMAIN more : more[i] = more[j] => i = j
  <2>1. /\ more \in Seq(Categories) /\ ToSet(more) \subseteq ItemsOf(preparing)
        /\ IsInjective(more)
    BY <1>1, ImagesAssumption
  <2>2. ToSet(more) \subseteq Categories
    BY <2>1 DEF ToSet
  <2> QED BY <2>1, <2>2, ImagesAssumption DEF Items, IsInjective
<1> HIDE DEF more
<1>4. /\ old' \in Seq(Categories \cup {Nobody})
      /\ Waiting(old') = Waiting(old) \cup ToSet(more)
      /\ \A i \in DOMAIN old' :
           \/ i \in DOMAIN old /\ old'[i] = old[i]
           \/ /\ i > Len(old) /\ i - Len(old) \in DOMAIN more
              /\ old'[i] = more[i - Len(old)]
  <2>1. /\ old \o more \in Seq(Categories \cup {Nobody})
        /\ ToSet(old \o more) = ToSet(old) \cup ToSet(more)
        /\ \A i \in DOMAIN (old \o more) :
             \/ i \in DOMAIN old /\ (old \o more)[i] = old[i]
             \/ /\ i > Len(old) /\ i - Len(old) \in DOMAIN more
                /\ (old \o more)[i] = more[i - Len(old)]
    BY <1>1, <1>3, ConcatOf
  <2> QED BY <1>1, <1>3, <2>1 DEF Waiting
<1>5. TypeOK'
  BY <1>1, <1>2, <1>4 DEF TypeOK
<1>6. MappedInv'
  <2>1. \A x \in ToSet(more) : ImageOf[x] \in loaded
    BY <1>1, <1>3 DEF ItemsOf
  <2> QED BY <1>2, <1>4, <2>1 DEF MappedInv
<1>7. ScheduleInv'
  BY <1>1, <1>2 DEF ScheduleInv
\* The image's categories are nowhere yet.
<1>8. OnceInv'
  <2>1. (called \cup Waiting(detached) \cup Waiting(old)) \cap ToSet(more) = {}
    BY <1>1, <1>3 DEF OnceInv
  <2>2. ASSUME NEW i \in DOMAIN old', NEW j \in DOMAIN old',
               old'[i] = old'[j], old'[i] # Nobody
        PROVE  i = j
    <3>1. CASE i \in DOMAIN old /\ j \in DOMAIN old
      <4>1. old'[i] = old[i] /\ old'[j] = old[j]
        BY <1>1, <1>4, <3>1
      <4> QED BY <2>2, <3>1, <4>1 DEF OnceInv, IsOnce
    <3>2. CASE i \notin DOMAIN old /\ j \notin DOMAIN old
      <4>1. /\ i - Len(old) \in DOMAIN more /\ j - Len(old) \in DOMAIN more
            /\ more[i - Len(old)] = more[j - Len(old)]
        BY <1>4, <2>2, <3>2
      <4>2. i - Len(old) = j - Len(old)
        BY <1>3, <4>1
      <4>3. i \in Int /\ j \in Int
        BY <1>4, <2>2
      <4> QED BY <1>1, <4>2, <4>3
    <3>3. ASSUME NEW a \in DOMAIN old, NEW b \in DOMAIN old',
                 b \notin DOMAIN old, old'[a] = old'[b], old'[a] # Nobody
          PROVE  FALSE
      <4>1. old'[a] = old[a]
        BY <1>1, <1>4, <3>3
      <4>2. old'[b] \in ToSet(more)
        BY <1>4, <3>3 DEF ToSet
      <4>3. old[a] \in Waiting(old)
        BY <3>3, <4>1 DEF Waiting, ToSet
      <4> QED BY <2>1, <3>3, <4>1, <4>2, <4>3
    <3> QED BY <2>2, <3>1, <3>2, <3>3
  <2>3. IsOnce(old)'
    <3>1. Waiting(old') \cap called' = {}
      BY <1>2, <1>4, <2>1 DEF OnceInv, IsOnce
    <3> QED BY <3>1, <2>2 DEF IsOnce
  <2>4. Waiting(detached) \cap (Waiting(loadable_classes) \cup Waiting(old'))
        = {}
    BY <1>4, <2>1 DEF OnceInv
  <2>5. IsOnce(detached)' /\ IsOnce(loadable_classes)'
    BY <1>2 DEF OnceInv, IsOnce
  <2>6. (Waiting(detached)
         \cap (Waiting(loadable_classes) \cup Waiting(old)))' = {}
    BY <1>2, <2>4
  <2> QED BY <1>1, <2>3, <2>5, <2>6 DEF OnceInv
\* The image's own classes and those of the images it needs are scheduled.
<1>9. OrderInv'
  <2>1. ASSUME NEW cat \in ToSet(more), ClassOf[cat] \in Loads
        PROVE  ClassOf[cat] \in RW_LOADED
    <3>1. cat \in ItemsOf(preparing) \cap Categories
      BY <1>3, <2>1
    <3>2. ImageOf[ClassOf[cat]] \in Needs(preparing)
          \/ ImageOf[ClassOf[cat]] = preparing
      BY <3>1 DEF Needs
    <3>3. ImageOf[ClassOf[cat]] \in loaded
      BY <1>1, <3>2 DEF MappedInv
    <3> QED BY <1>1, <2>1, <3>3, EmptyList DEF ScheduleInv
  <2>2. ToSet(old') \cap Categories
          \subseteq (ToSet(old) \cap Categories) \cup ToSet(more)
    BY <1>4, ImagesAssumption DEF Waiting, Items
  <2>3. \A cat \in ToSet(old') \cap Categories :
          ClassOf[cat] \in Loads => ClassOf[cat] \in RW_LOADED
    BY <2>1, <2>2 DEF OrderInv
  <2> QED BY <1>2, <2>3 DEF OrderInv
<1> QED BY <1>5, <1>6, <1>7, <1>8, <1>9

LEMMA ImageUnmapped ==
  ASSUME ~ ClosesPending, LoadInv, NEW image \in Images, unmap_image(image)
  PROVE  LoadInv'
<1> USE DEF LoadInv
<1> DEFINE gone == ItemsOf(image)
           left == loaded \ {image}
<1>1. /\ image \in loaded /\ loaded' = left
      /\ \A other \in left : image \notin Needs(other)
      /\ ToSet(detached) \cap gone = {}
      /\ preparing = Nobody
      /\ RW_LOADED' = RW_LOADED \ gone
      /\ loadable_classes' = Cleared(loadable_classes, image)
      /\ loadable_categories' = Cleared(loadable_categories, image)
      /\ called' = called \ gone
      /\ UNCHANGED <<preparing, classlist, scheduling, pass, detached, calling>>
  BY DEF unmap_image, _unload_image, ClientRuns, preparation
<1>2. /\ classlist = << >> /\ scheduling = << >>
      /\ ToSet(classlist) = {} /\ ToSet(scheduling) = {}
      /\ ToSet(classlist') = {} /\ ToSet(scheduling') = {}
  BY <1>1, EmptyList DEF ScheduleInv
<1>3. Nobody \notin gone
  BY ImagesAssumption DEF ItemsOf
<1>4. ASSUME NEW S, Nobody \in S, NEW list \in Seq(S)
      PROVE  /\ Cleared(list, image) \in Seq(S)
             /\ DOMAIN Cleared(list, image) = DOMAIN list
             /\ \A i \in DOMAIN list :
                  \/ Cleared(list, image)[i] = list[i] /\ list[i] \notin gone
                  \/ Cleared(list, image)[i] = Nobody /\ list[i] \in gone
             /\ Waiting(Cleared(list, image)) = Waiting(list) \ gone
  BY <1>4, ClearedList
<1>5. /\ loadable_classes' \in Seq(Loads \cup {Nobody})
      /\ DOMAIN loadable_classes' = DOMAIN loadable_classes
      /\ \A i \in DOMAIN loadable_classes :
           \/ /\ loadable_classes'[i] = loadable_classes[i]
              /\ loadable_classes[i] \notin gone
           \/ loadable_classes'[i] = Nobody /\ loadable_classes[i] \in gone
      /\ Waiting(loadable_classes') = Waiting(loadable_classes) \ gone
  BY <1>1, <1>4 DEF TypeOK
<1>6. /\ loadable_categories' \in Seq(Categories \cup {Nobody})
      /\ DOMAIN loadable_categories' = DOMAIN loadable_categories
      /\ \A i \in DOMAIN loadable_categories :
           \/ /\ loadable_categories'[i] = loadable_categories[i]
              /\ loadable_categories[i] \notin gone
           \/ loadable_categories'[i] = Nobody
              /\ loadable_categories[i] \in gone
      /\ Waiting(loadable_categories') = Waiting(loadable_categories) \ gone
  BY <1>1, <1>4 DEF TypeOK
\* What is left needs nothing that is gone.
<1>7. /\ \A other \in left : Needs(other) \subseteq left
      /\ left \in SUBSET Images
  BY <1>1 DEF MappedInv, TypeOK
<1>8. ASSUME NEW cls \in Classes, ImageOf[cls] \in left
      PROVE  \A c \in Lineage(cls) : ImageOf[c] \in left
  BY <1>7, <1>8, LineageIsMapped
<1>9. \A x \in Items : ImageOf[x] \in loaded /\ x \notin gone =>
                         ImageOf[x] \in left
  BY DEF ItemsOf
<1>10. \A x \in Items : ImageOf[x] \in left => x \notin gone
  BY DEF ItemsOf
<1>11. Waiting(detached) \cap gone = {}
  BY <1>1 DEF Waiting
<1>12. /\ Waiting(detached) \subseteq Items
       /\ Waiting(loadable_classes) \subseteq Items
       /\ Waiting(loadable_categories) \subseteq Items
       /\ RW_LOADED \subseteq Items /\ called \subseteq Items
       /\ Loads \subseteq Items
  BY ImagesAssumption DEF TypeOK, Waiting, ToSet, Items
<1> HIDE DEF gone, left
<1>13. TypeOK'
  BY <1>1, <1>2, <1>5, <1>6, <1>7 DEF TypeOK
<1>14. MappedInv'
  <2>1. \A x \in RW_LOADED' \cup called' \cup Waiting(detached)
                \cup Waiting(loadable_classes')
                \cup Waiting(loadable_categories') : ImageOf[x] \in left
    BY <1>1, <1>5, <1>6, <1>9, <1>11, <1>12 DEF MappedInv
  <2>2. ASSUME NEW cls \in RW_LOADED'
        PROVE  Super[cls] \in RW_LOADED' \cup {Nobody}
    <3>1. cls \in RW_LOADED /\ cls \in Classes /\ ImageOf[cls] \in left
      BY <1>1, <2>1 DEF TypeOK
    <3>2. CASE Super[cls] # Nobody
      <4>1. Super[cls] \in Classes /\ Super[cls] \in RW_LOADED
        BY <3>1, <3>2, ImagesAssumption DEF MappedInv
      <4>2. cls \in ItemsOf(ImageOf[cls]) \cap Classes
        BY <3>1 DEF ItemsOf, Items
      <4>3. ImageOf[Super[cls]] \in Needs(ImageOf[cls])
            \/ ImageOf[Super[cls]] = ImageOf[cls]
        BY <3>2, <4>2 DEF Needs
      <4>4. ImageOf[Super[cls]] \in left
        BY <1>7, <3>1, <4>3
      <4> QED BY <1>1, <1>10, <4>1, <4>4 DEF Items
    <3> QED BY <3>2
  <2> QED BY <1>1, <1>2, <1>7, <2>1, <2>2 DEF MappedInv
<1>15. ScheduleInv'
  <2>1. ASSUME NEW cls \in Loads, ImageOf[cls] \in left
        PROVE  cls \in RW_LOADED'
    <3>1. ImageOf[cls] \in loaded /\ cls \notin gone
      BY <1>1, <1>10, <1>12, <2>1 DEF left
    <3> QED BY <1>1, <1>2, <3>1 DEF ScheduleInv
  <2>2. (called' \cup Waiting(detached) \cup Waiting(loadable_classes'))
        \cap Classes = RW_LOADED' \cap Loads
    BY <1>1, <1>5, <1>11 DEF ScheduleInv
  <2> QED BY <1>1, <1>2, <2>1, <2>2 DEF ScheduleInv
<1>16. OnceInv'
  <2>1. IsOnce(loadable_classes)'
    BY <1>1, <1>5 DEF OnceInv, IsOnce
  <2>2. IsOnce(loadable_categories)'
    BY <1>1, <1>6 DEF OnceInv, IsOnce
  <2>3. IsOnce(detached)'
    BY <1>1 DEF OnceInv, IsOnce
  <2>4. Waiting(detached) \cap (Waiting(loadable_classes')
                                \cup Waiting(loadable_categories')) = {}
    BY <1>5, <1>6 DEF OnceInv
  <2> QED BY <1>1, <2>1, <2>2, <2>3, <2>4 DEF OnceInv
<1>17. OrderInv'
  \* A class that is left has its superclasses.
  <2>1. ASSUME NEW cls \in Classes, ImageOf[cls] \in left
        PROVE  Superclasses(cls) \cap gone = {}
    <3>1. \A c \in Lineage(cls) : c \in Items /\ ImageOf[c] \in left
      BY <1>8, <2>1 DEF Lineage, Items
    <3> QED BY <1>10, <3>1 DEF Superclasses
  <2>2. ASSUME NEW i \in DOMAIN detached, detached[i] \in Classes
        PROVE  Superclasses(detached[i]) \cap Loads
                 \subseteq called' \cup Ahead(detached, i)
    <3>1. detached[i] \in Waiting(detached)
      BY <2>2, ImagesAssumption DEF Waiting, ToSet, Items
    <3>2. ImageOf[detached[i]] \in left
      BY <1>9, <1>11, <1>12, <3>1 DEF MappedInv
    <3> QED BY <1>1, <2>1, <2>2, <3>2 DEF OrderInv
  <2>3. ASSUME NEW i \in DOMAIN loadable_classes',
               loadable_classes'[i] \in Classes
        PROVE  Superclasses(loadable_classes'[i]) \cap Loads
                 \subseteq called' \cup ToSet(detached)
                           \cup Ahead(loadable_classes', i)
    <3>1. /\ i \in DOMAIN loadable_classes
          /\ loadable_classes'[i] = loadable_classes[i]
          /\ loadable_classes[i] \notin gone
      BY <1>5, <2>3, ImagesAssumption DEF Items
    <3>2. loadable_classes[i] \in Waiting(loadable_classes)
      BY <2>3, <3>1, ImagesAssumption DEF Waiting, ToSet, Items
    <3>3. ImageOf[loadable_classes[i]] \in left
      BY <1>9, <1>12, <3>1, <3>2 DEF MappedInv
    <3>4. 1 .. (i - 1) \subseteq DOMAIN loadable_classes
      <4>1. /\ Len(loadable_classes) \in Nat
            /\ DOMAIN loadable_classes = 1 .. Len(loadable_classes)
        BY DEF TypeOK
      <4> QED BY <3>1, <4>1
    <3>5. Ahead(loadable_classes, i) \ gone
            \subseteq Ahead(loadable_classes', i)
      BY <1>5, <3>4 DEF Ahead
    <3>6. Superclasses(loadable_classes[i]) \cap Loads
            \subseteq called \cup ToSet(detached)
                      \cup Ahead(loadable_classes, i)
      BY <2>3, <3>1 DEF OrderInv
    <3>7. Superclasses(loadable_classes[i]) \cap gone = {}
      BY <2>1, <2>3, <3>1, <3>3
    <3> QED BY <1>1, <3>1, <3>5, <3>6, <3>7
  \* A category that is left has its class.
  <2>4. ASSUME NEW cat \in Categories, ImageOf[cat] \in left
        PROVE  ClassOf[cat] \notin gone
    <3>1. cat \in ItemsOf(ImageOf[cat]) \cap Categories
          /\ ClassOf[cat] \in Items
      BY ImagesAssumption DEF ItemsOf, Items
    <3>2. ImageOf[ClassOf[cat]] \in Needs(ImageOf[cat])
          \/ ImageOf[ClassOf[cat]] = ImageOf[cat]
      BY <3>1 DEF Needs
    <3> QED BY <1>7, <1>10, <2>4, <3>1, <3>2
  <2>5. ASSUME NEW cat \in ToSet(detached) \cap Categories,
               ClassOf[cat] \in Loads
        PROVE  ClassOf[cat] \in called'
    <3>1. cat \in Waiting(detached)
      BY ImagesAssumption DEF Waiting, Items
    <3>2. ImageOf[cat] \in left
      BY <1>9, <1>11, <1>12, <3>1 DEF MappedInv
    <3> QED BY <1>1, <2>4, <2>5, <3>2 DEF OrderInv
  <2>6. ASSUME NEW cat \in ToSet(loadable_categories') \cap Categories,
               ClassOf[cat] \in Loads
        PROVE  ClassOf[cat] \in RW_LOADED'
    <3>1. cat \in Waiting(loadable_categories')
      BY ImagesAssumption DEF Waiting, Items
    <3>2. cat \in Waiting(loadable_categories) /\ cat \notin gone
      BY <1>6, <3>1
    <3>3. ImageOf[cat] \in left
      BY <1>9, <1>12, <3>2 DEF MappedInv
    <3> QED BY <1>1, <2>4, <2>6, <3>2, <3>3 DEF OrderInv, Waiting
  <2> QED BY <1>1, <2>2, <2>3, <2>5, <2>6 DEF OrderInv
<1> QED BY <1>13, <1>14, <1>15, <1>16, <1>17

LEMMA ClassesDetached ==
  ASSUME LoadInv, DetachClasses
  PROVE  LoadInv'
<1> USE DEF LoadInv, DetachClasses, images, preparation
<1>1. /\ detached = << >> /\ pass = "classes" /\ pass' = "classes"
      /\ detached' = loadable_classes /\ loadable_classes' = << >>
      /\ ToSet(detached) = {} /\ Waiting(detached) = {}
      /\ Waiting(loadable_classes') = {}
      /\ \A S : loadable_classes' \in Seq(S)
      /\ DOMAIN loadable_classes' = {}
      /\ \A x \in ToSet(detached') : x \notin Categories
  <2>1. \A x \in ToSet(detached') : x \in Loads \cup {Nobody}
    BY DEF TypeOK, ToSet
  <2> QED BY <2>1, EmptyList, ImagesAssumption DEF Items
<1>2. UNCHANGED <<loaded, RW_LOADED, loadable_categories, preparing, classlist,
                  scheduling, called, calling>>
  OBVIOUS
<1>3. TypeOK'
  BY <1>1, <1>2 DEF TypeOK
<1>4. MappedInv' /\ ScheduleInv'
  BY <1>1, <1>2 DEF MappedInv, ScheduleInv
<1>5. OnceInv'
  <2>1. Waiting(loadable_classes) \cap Waiting(loadable_categories) = {}
    <3>1. /\ \A x \in Waiting(loadable_classes) : x \in Classes
          /\ \A x \in Waiting(loadable_categories) : x \in Categories
      BY ImagesAssumption DEF TypeOK, Waiting, ToSet
    <3> QED BY <3>1, ImagesAssumption
  <2>2. preparing = Nobody
    BY DEF Between
  <2> QED BY <1>1, <1>2, <2>1, <2>2 DEF OnceInv, IsOnce
<1>6. OrderInv'
  BY <1>1, <1>2 DEF OrderInv
<1> QED BY <1>3, <1>4, <1>5, <1>6

LEMMA CategoriesDetached ==
  ASSUME LoadInv, DetachCategories
  PROVE  LoadInv'
<1> USE DEF LoadInv, DetachCategories, images, preparation
<1>1. /\ detached = << >> /\ loadable_classes = << >>
      /\ pass' = "categories"
      /\ detached' = loadable_categories /\ loadable_categories' = << >>
      /\ ToSet(detached) = {} /\ Waiting(detached) = {}
      /\ Waiting(loadable_classes) = {} /\ Waiting(loadable_categories') = {}
      /\ \A S : loadable_categories' \in Seq(S)
      /\ DOMAIN loadable_categories' = {} /\ DOMAIN loadable_classes = {}
      /\ ToSet(loadable_categories') = {}
      /\ \A i \in DOMAIN detached' : detached'[i] \notin Classes
  <2>1. \A i \in DOMAIN detached' : detached'[i] \in Categories \cup {Nobody}
    BY DEF TypeOK
  <2> QED BY <2>1, EmptyList, ImagesAssumption DEF Items
<1>2. UNCHANGED <<loaded, RW_LOADED, loadable_classes, preparing, classlist,
                  scheduling, called, calling>>
  OBVIOUS
<1>3. TypeOK'
  BY <1>1, <1>2 DEF TypeOK
<1>4. MappedInv' /\ ScheduleInv'
  <2>1. \A x \in Waiting(detached') : x \notin Classes
    BY <1>1 DEF Waiting, ToSet
  <2> QED BY <1>1, <1>2, <2>1 DEF MappedInv, ScheduleInv
<1>5. OnceInv'
  <2>1. preparing = Nobody
    BY DEF Between
  <2> QED BY <1>1, <1>2, <2>1 DEF OnceInv, IsOnce
\* All classes that are scheduled were called.
<1>6. OrderInv'
  <2>1. RW_LOADED \cap Loads \subseteq called
    BY <1>1 DEF ScheduleInv
  <2>2. \A cat \in ToSet(detached') \cap Categories :
          ClassOf[cat] \in Loads => ClassOf[cat] \in called
    BY <1>1, <2>1 DEF OrderInv
  <2> QED BY <1>1, <1>2, <2>2 DEF OrderInv
<1> QED BY <1>3, <1>4, <1>5, <1>6

LEMMA CategoriesFinished ==
  ASSUME LoadInv, CategoriesDone
  PROVE  LoadInv'
<1> USE DEF LoadInv, CategoriesDone, images, lists, preparation
<1>1. TypeOK'
  BY EmptyList DEF TypeOK
<1>2. MappedInv' /\ ScheduleInv'
  BY DEF MappedInv, ScheduleInv
<1>3. OnceInv' /\ OrderInv'
  BY DEF OnceInv, IsOnce, OrderInv
<1> QED BY <1>1, <1>2, <1>3

LEMMA LoadEnded ==
  ASSUME LoadInv, LoadReturns
  PROVE  LoadInv'
<1> USE DEF LoadInv, LoadReturns, images, lists, preparation
<1>1. TypeOK'
  BY DEF TypeOK
<1>2. MappedInv' /\ ScheduleInv'
  BY DEF MappedInv, ScheduleInv
<1>3. OnceInv' /\ OrderInv'
  BY DEF OnceInv, IsOnce, OrderInv
<1> QED BY <1>1, <1>2, <1>3

LEMMA NextCalled ==
  ASSUME LoadInv, CallNext
  PROVE  LoadInv'
<1> USE DEF LoadInv
<1> DEFINE S == (IF pass = "classes" THEN Loads ELSE Categories) \cup {Nobody}
           next == Head(detached)
<1>1. /\ detached \in Seq(S) /\ detached # << >>
      /\ detached' = Tail(detached)
      /\ calling' = next
      /\ called' = called \cup ({next} \ {Nobody})
      /\ preparing = Nobody
  BY DEF CallNext, Between, TypeOK
<1>2. UNCHANGED <<loaded, RW_LOADED, loadable_classes, loadable_categories,
                  preparing, classlist, scheduling, pass>>
  BY DEF CallNext, images, lists, preparation
<1>3. /\ next \in S /\ detached' \in Seq(S)
      /\ next = detached[1] /\ 1 \in DOMAIN detached
      /\ DOMAIN detached' = 1 .. (Len(detached) - 1)
      /\ \A i \in DOMAIN detached' :
           i + 1 \in DOMAIN detached /\ detached'[i] = detached[i + 1]
      /\ ToSet(detached) = {next} \cup ToSet(detached')
  <2> HIDE DEF S, next
  <2>1. /\ Head(detached) \in S /\ Tail(detached) \in Seq(S)
        /\ Head(detached) = detached[1] /\ 1 \in DOMAIN detached
        /\ DOMAIN Tail(detached) = 1 .. (Len(detached) - 1)
        /\ \A i \in DOMAIN Tail(detached) :
             /\ i + 1 \in DOMAIN detached
             /\ Tail(detached)[i] = detached[i + 1]
        /\ ToSet(detached) = {Head(detached)} \cup ToSet(Tail(detached))
    BY <1>1, TailOf
  <2> QED BY <1>1, <2>1 DEF next
<1>4. S \subseteq Items \cup {Nobody}
  BY ImagesAssumption DEF Items
<1>5. Len(detached) \in Nat
  BY <1>1
<1> HIDE DEF next
<1>6. TypeOK'
  BY <1>1, <1>2, <1>3, <1>4 DEF TypeOK
<1> HIDE DEF S
<1>7. Waiting(detached) = Waiting(detached') \cup ({next} \ {Nobody})
  BY <1>3 DEF Waiting
<1>8. MappedInv'
  BY <1>1, <1>2, <1>7 DEF MappedInv
<1>9. ScheduleInv'
  <2>1. called' \cup Waiting(detached') = called \cup Waiting(detached)
    BY <1>1, <1>7
  <2> QED BY <1>1, <1>2, <2>1 DEF ScheduleInv
<1>10. OnceInv'
  \* What is called was there once.
  <2>1. next # Nobody => next \notin Waiting(detached')
    <3>1. ASSUME next # Nobody, NEW i \in DOMAIN detached', detached'[i] = next
          PROVE  FALSE
      <4>1. i \in Nat /\ i + 1 # 1 /\ i + 1 \in DOMAIN detached
            /\ detached[i + 1] = detached[1]
        BY <1>3, <1>5, <3>1
      <4> QED BY <1>3, <3>1, <4>1 DEF OnceInv, IsOnce
    <3> QED BY <3>1 DEF Waiting, ToSet
  <2>2. Waiting(detached') \cap called' = {}
    BY <1>1, <1>7, <2>1 DEF OnceInv, IsOnce
  <2>3. ASSUME NEW i \in DOMAIN detached', NEW j \in DOMAIN detached',
               detached'[i] = detached'[j], detached'[i] # Nobody
        PROVE  i = j
    <3>1. /\ i + 1 \in DOMAIN detached /\ j + 1 \in DOMAIN detached
          /\ detached[i + 1] = detached[j + 1] /\ detached[i + 1] # Nobody
          /\ i \in Nat /\ j \in Nat
      BY <1>3, <1>5, <2>3
    <3>2. i + 1 = j + 1
      BY <3>1 DEF OnceInv, IsOnce
    <3> QED BY <3>1, <3>2
  <2>4. IsOnce(detached)'
    BY <2>2, <2>3 DEF IsOnce
  <2>5. next # Nobody => next \notin Waiting(loadable_classes)
                                     \cup Waiting(loadable_categories)
    BY <1>7 DEF OnceInv
  <2>6. IsOnce(loadable_classes)' /\ IsOnce(loadable_categories)'
    BY <1>1, <1>2, <2>5 DEF OnceInv, IsOnce
  <2>7. (Waiting(detached) \cap (Waiting(loadable_classes)
                                 \cup Waiting(loadable_categories)))' = {}
    BY <1>2, <1>7 DEF OnceInv
  <2> QED BY <1>1, <1>2, <2>4, <2>6, <2>7 DEF OnceInv
<1>11. OrderInv'
  <2>1. ASSUME NEW i \in DOMAIN detached'
        PROVE  Ahead(detached, i + 1) \subseteq {next} \cup Ahead(detached', i)
    <3>1. i \in Nat /\ i <= Len(detached) - 1
      BY <1>3, <1>5
    <3>2. ASSUME NEW j \in 1 .. ((i + 1) - 1), j # 1
          PROVE  detached[j] \in Ahead(detached', i)
      <4>1. j - 1 \in 1 .. (i - 1) /\ j - 1 \in 1 .. (Len(detached) - 1)
            /\ (j - 1) + 1 = j
        BY <1>5, <3>1, <3>2
      <4>2. detached'[j - 1] = detached[j]
        BY <1>3, <4>1
      <4> QED BY <4>1, <4>2 DEF Ahead
    <3> QED BY <1>3, <3>2 DEF Ahead
  <2>2. Nobody \notin Classes
    BY ImagesAssumption DEF Items
  <2>3. \A cls : Superclasses(cls) \subseteq Classes
    BY DEF Superclasses, Lineage
  <2>4. ASSUME NEW i \in DOMAIN detached', detached'[i] \in Classes
        PROVE  Superclasses(detached'[i]) \cap Loads
                 \subseteq called' \cup Ahead(detached', i)
    <3>1. i + 1 \in DOMAIN detached /\ detached'[i] = detached[i + 1]
      BY <1>3, <2>4
    <3>2. Superclasses(detached[i + 1]) \cap Loads
            \subseteq called \cup Ahead(detached, i + 1)
      BY <2>4, <3>1 DEF OrderInv
    <3> QED BY <1>1, <2>1, <2>2, <2>3, <2>4, <3>1, <3>2
  <2>5. ASSUME NEW i \in DOMAIN loadable_classes,
               loadable_classes[i] \in Classes
        PROVE  Superclasses(loadable_classes[i]) \cap Loads
                 \subseteq called' \cup ToSet(detached')
                           \cup Ahead(loadable_classes, i)
    <3>1. Superclasses(loadable_classes[i]) \cap Loads
            \subseteq called \cup ToSet(detached)
                      \cup Ahead(loadable_classes, i)
      BY <2>5 DEF OrderInv
    <3> QED BY <1>1, <1>3, <2>2, <2>3, <3>1
  <2>6. \A cat \in ToSet(detached') \cap Categories :
          ClassOf[cat] \in Loads => ClassOf[cat] \in called'
    BY <1>1, <1>3 DEF OrderInv
  <2> QED BY <1>2, <2>4, <2>5, <2>6 DEF OrderInv
<1> QED BY <1>6, <1>8, <1>9, <1>10, <1>11

-----------------------------------------------------------------------------
(* Results *)

LEMMA StepInv ==
  ASSUME ~ ClosesPending, LoadInv, [Next]_vars
  PROVE  LoadInv'
<1>1. ASSUME NEW image \in Images, load_images(image)
      PROVE  LoadInv'
  BY <1>1, LoadImages
<1>2. ASSUME NEW image \in Images, unmap_image(image)
      PROVE  LoadInv'
  BY <1>2, ImageUnmapped
<1>3. CASE PrepareStep
  BY <1>3, ClassPrepared, SuperclassScheduled, ClassScheduled, FoundScheduled,
     CategoriesPrepared DEF PrepareStep
<1>4. CASE LoadStep
  BY <1>4, ClassesDetached, NextCalled, LoadEnded, CategoriesDetached,
     CategoriesFinished DEF LoadStep
<1>5. CASE UNCHANGED vars
  <2> USE <1>5 DEF vars, images, lists, preparation, passes, LoadInv
  <2>1. TypeOK' /\ MappedInv' /\ ScheduleInv'
    BY DEF TypeOK, MappedInv, ScheduleInv
  <2>2. OnceInv' /\ OrderInv'
    BY DEF OnceInv, IsOnce, OrderInv
  <2> QED BY <2>1, <2>2
<1> QED BY <1>1, <1>2, <1>3, <1>4, <1>5 DEF Next

(* Every class of a mapped image that has a +load is scheduled, waits or   *)
(* was called, in one place and behind its superclasses.                   *)
THEOREM LoadsAreOrdered == ~ ClosesPending => (Spec => []LoadInv)
<1> SUFFICES ASSUME ~ ClosesPending PROVE Spec => []LoadInv
  OBVIOUS
<1>1. LoadInv /\ [Next]_vars => LoadInv'
  BY StepInv
<1> QED BY <1>1, InitInv, PTL DEF Spec

\* A +load is called in one kind of step.
LEMMA OnlyNextCalls ==
  ASSUME LoadInv, [Next]_vars, calling' # calling, calling' # Nobody
  PROVE  CallNext
<1>1. ASSUME PrepareStep \/ \E image \in Images : load_images(image)
                                                  \/ unmap_image(image)
      PROVE  calling' = calling
  BY <1>1 DEF PrepareStep, PrepareClass, ScheduleSuperclass, ScheduleClass,
     ScheduledBefore, PrepareCategories, load_images, unmap_image, passes
<1>2. CASE LoadStep
  BY <1>2 DEF LoadStep, DetachClasses, LoadReturns, DetachCategories,
     CategoriesDone
<1> QED BY <1>1, <1>2 DEF Next, vars, passes

\* What is called then is the first of the list that was taken.
LEMMA FirstIsCalled ==
  ASSUME LoadInv, CallNext
  PROVE  /\ calling' = detached[1] /\ 1 \in DOMAIN detached
         /\ Ahead(detached, 1) = {}
         /\ calling' # Nobody => calling' \in Waiting(detached)
<1>1. calling' = detached[1] /\ 1 \in DOMAIN detached
  BY TailOf DEF CallNext, LoadInv, TypeOK
<1>2. 1 .. (1 - 1) = {}
  OBVIOUS
<1>3. Ahead(detached, 1) = {}
  BY <1>2 DEF Ahead
<1> QED BY <1>1, <1>3 DEF Waiting, ToSet

(* "Class +load methods are called superclass-first."                      *)
THEOREM SuperclassesLoadFirst == ~ ClosesPending => (Spec => SuperclassesFirst)
<1> SUFFICES ASSUME ~ ClosesPending PROVE Spec => SuperclassesFirst
  OBVIOUS
<1>1. ASSUME LoadInv, [Next]_vars, NEW cls \in Classes, Calls({cls})
      PROVE  Superclasses(cls) \cap Loads \subseteq called
  <2>1. calling' # calling /\ calling' = cls /\ cls # Nobody
    BY <1>1, ImagesAssumption DEF Calls, Items
  <2>2. CallNext
    BY <1>1, <2>1, OnlyNextCalls
  <2> QED BY <1>1, <2>1, <2>2, FirstIsCalled DEF LoadInv, OrderInv
<1>2. LoadInv /\ [Next]_vars =>
        [\A cls \in Classes :
           Calls({cls}) => Superclasses(cls) \cap Loads \subseteq called]_vars
  BY <1>1
<1> QED BY <1>2, LoadsAreOrdered, PTL DEF Spec, SuperclassesFirst

(* "Category +load methods are not called until after the parent class's   *)
(* +load."                                                                 *)
THEOREM ClassesLoadFirst == ~ ClosesPending => (Spec => ClassesBeforeCategories)
<1> SUFFICES ASSUME ~ ClosesPending PROVE Spec => ClassesBeforeCategories
  OBVIOUS
<1>1. ASSUME LoadInv, [Next]_vars, NEW cat \in Categories, Calls({cat}),
             ClassOf[cat] \in Loads
      PROVE  ClassOf[cat] \in called
  <2>1. calling' # calling /\ calling' = cat /\ cat # Nobody
    BY <1>1, ImagesAssumption DEF Calls, Items
  <2>2. CallNext
    BY <1>1, <2>1, OnlyNextCalls
  <2>3. cat \in ToSet(detached)
    BY <1>1, <2>1, <2>2, FirstIsCalled DEF ToSet
  <2> QED BY <1>1, <2>3 DEF LoadInv, OrderInv
<1>2. LoadInv /\ [Next]_vars =>
        [\A cat \in Categories :
           Calls({cat}) /\ ClassOf[cat] \in Loads =>
             ClassOf[cat] \in called]_vars
  BY <1>1
<1> QED BY <1>2, LoadsAreOrdered, PTL DEF Spec, ClassesBeforeCategories

(* A +load is called once while its image is mapped, and not afterwards.   *)
THEOREM LoadsOnce == ~ ClosesPending => (Spec => CalledOnceWhileMapped)
<1> SUFFICES ASSUME ~ ClosesPending PROVE Spec => CalledOnceWhileMapped
  OBVIOUS
<1>1. ASSUME LoadInv, [Next]_vars, NEW x \in Items, Calls({x})
      PROVE  x \notin called /\ ImageOf[x] \in loaded
  <2>1. calling' # calling /\ calling' = x /\ x # Nobody
    BY <1>1, ImagesAssumption DEF Calls
  <2>2. CallNext
    BY <1>1, <2>1, OnlyNextCalls
  <2>3. x \in Waiting(detached)
    BY <1>1, <2>1, <2>2, FirstIsCalled
  <2> QED BY <1>1, <2>3 DEF LoadInv, MappedInv, OnceInv, IsOnce
<1>2. LoadInv /\ [Next]_vars =>
        [\A x \in Items :
           Calls({x}) => x \notin called /\ ImageOf[x] \in loaded]_vars
  BY <1>1
<1> QED BY <1>2, LoadsAreOrdered, PTL DEF Spec, CalledOnceWhileMapped

=============================================================================
