SPECIFICATION Spec
CONSTANTS
  k1 = k1
  k2 = k2
  a1 = a1
  a2 = a2
  p1 = p1
  CustomerId = {k1, k2}
  NewGuid = guid
  Address = {a1, a2}
  PhoneNumber = {p1}
  Blank = blank
  Tool = "ScenariosOfStories"
  GivenEvent <- SomeGivenEvents
  Command <- SomeCommands
  Expectation <- SomeExpectations
  MaxSteps = 4
INVARIANTS
  TypeOK
  ScenarioIsFaithful
CHECK_DEADLOCK FALSE
