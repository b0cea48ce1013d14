SPECIFICATION Spec
CONSTANTS
  k1 = k1
  k2 = k2
  a1 = a1
  a2 = a2
  p1 = p1
  CustomerId = {k1, k2}
  NewGuid = NewGuid
  Address = {a1, a2}
  PhoneNumber = {p1}
  Blank = Blank
  Id = k1
  SomeEvent <- Events
  MaxEvents = 5
INVARIANTS
  FoldIsAfter
  ExpectedVersionIsLoaded
CHECK_DEADLOCK FALSE
