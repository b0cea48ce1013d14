SPECIFICATION Spec
CONSTANTS
  k1 = k1
  k2 = k2
  a1 = a1
  a2 = a2
  p1 = p1
  CustomerId = {k1, k2}
  NewGuid = NewGuid
  Address = {a1, a2}
  PhoneNumber = {p1}
  Blank = Blank
  Call = {c1, c2, c3, c4}
  Command <- TwoCustomers
  SliceSize = 2
  MaxRetries = 1
SYMMETRY Calls
INVARIANTS
  TypeOK
  IInv
  LoadIsPrefix
  AppliedAtMostOnce
  OutcomesAreTruthful
  RegisteredOnlyFirst
  OwnStream
  NoRedundantRelocation
PROPERTY ImplementsAtomicCommands
CHECK_DEADLOCK FALSE
