SPECIFICATION FairReadSpec
CONSTANTS
  k1 = k1
  a1 = a1
  a2 = a2
  p1 = p1
  p2 = p2
  CustomerId = {k1}
  NewGuid = NewGuid
  Address = {a1, a2}
  PhoneNumber = {p1, p2}
  Blank = Blank
  Command <- Commands
  DomainEvent <- Event
  ForeignEvent = {}
  NoEvent = NoEvent
  MaxEvents = 3
  MaxFailures = 1
INVARIANTS
  ReadTypeOK
  ConsistentUnlessOverlapped
  ExactlyTheRegistered
  DocumentsAreSourced
PROPERTY EveryRegistrationIsShown
CHECK_DEADLOCK FALSE
