SPECIFICATION Spec
CONSTANTS
  Undefined = Undefined
  None = None
  WellFormed <- Digit
  AtMost <- StringOrder
  Field <- Names
  Pages <- Forms
INVARIANTS
  FormTypeOK
  VerdictFollowsMarkup
  SentMeetsMarkup
  ContainersTellValidity
  PendingIsCounted
PROPERTY RulesAreFixed
CHECK_DEADLOCK FALSE
