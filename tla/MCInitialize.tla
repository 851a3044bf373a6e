---------------------------- MODULE MCInitialize ----------------------------
(***************************************************************************)
(* Initialize with the class hierarchy of the comment in objc-initialize.mm *)
(* that tells how two threads once deadlocked.                              *)
(***************************************************************************)
EXTENDS Initialize, TLC

CONSTANTS OBObject, OFObject, OWAddressEntry, OWController,
          OWConsoleController

OmniWebClasses ==
  {OBObject, OFObject, OWAddressEntry, OWController, OWConsoleController}

OmniWebSuper ==
  (OBObject :> NoClass) @@ (OFObject :> OBObject)
  @@ (OWAddressEntry :> OFObject) @@ (OWController :> OFObject)
  @@ (OWConsoleController :> OWController)

\* "[OBObject initialize] runs OBPostLoader, which inits lots of classes", and
\* a class whose +initialize uses its subclass.
OmniWebUses ==
  {OBObject} \X {OWConsoleController, OWAddressEntry}
    \cup {<<OFObject, OWController>>}
=============================================================================
