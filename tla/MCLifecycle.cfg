SPECIFICATION FairSpec
CONSTANTS
  process = process
  Subscription = {process}
  MaxLosses = 1
PROPERTY AnnouncedStopHappens
CHECK_DEADLOCK FALSE
