SPECIFICATION FairSpec
CONSTANTS
  k1 = k1
  k2 = k2
  a1 = a1
  a2 = a2
  p1 = p1
  CustomerId = {k1}
  NewGuid = NewGuid
  Address = {a1, a2}
  PhoneNumber = {p1}
  Blank = Blank
  Call = {c1, c2}
  Command <- OneCustomer
  SliceSize = 1
  MaxRetries = 1
PROPERTY EveryCommandReturns
CHECK_DEADLOCK FALSE
