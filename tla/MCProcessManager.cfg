SPECIFICATION FairSpec
CONSTANTS
  ordered = ordered
  paid = paid
  shipped = shipped
  returned = returned
  Kind = {ordered, paid, shipped, returned}
  CommandsOf <- Commands
  Storied = {paid, shipped}
  MaxEvents = 2
  MaxFailures = 1
INVARIANTS
  TypeOK
  ChainsLeadBack
  RepeatsAreReplays
  StateTellsReactions
PROPERTY CatchesUp
CHECK_DEADLOCK FALSE
