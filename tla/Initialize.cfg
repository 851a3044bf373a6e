\* Two threads and the classes of the comment; +[OBObject initialize], which
\* sends messages to classes two and three levels below, and +[OWController
\* initialize] may throw.  The threads stop when every class is initialized.
CONSTANTS
  Threads = {t1, t2}
  Classes <- OmniWebClasses
  Super <- OmniWebSuper
  Uses <- OmniWebUses
  Throws = {OBObject, OWController}
  OBObject = OBObject
  OFObject = OFObject
  OWAddressEntry = OWAddressEntry
  OWController = OWController
  OWConsoleController = OWConsoleController
  NoClass = NoClass
SPECIFICATION FairSpec
CHECK_DEADLOCK FALSE
INVARIANTS
  ClassInv
  NothingForgotten
  NoFatal
PROPERTIES
  NobodyTooEarly
  EveryMessageReturns
