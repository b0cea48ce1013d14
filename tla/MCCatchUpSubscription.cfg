SPECIFICATION FairSpec
CONSTANTS
  DomainEvent = {ours}
  ForeignEvent = {theirs}
  NoEvent = NoEvent
  ours = ours
  theirs = theirs
  MaxEvents = 3
  MaxFailures = 2
INVARIANTS
  TypeOK
  IInv
  NothingSkipped
  DispatchedInOrder
  NoFeedback
PROPERTIES
  EveryEventIsDispatched
  ImplementsAtLeastOnce
CHECK_DEADLOCK FALSE
