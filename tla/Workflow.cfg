CONSTANTS
  a = a
  b = b
  Workers = {a, b}
  StepLimits = {4}
  MaxEdits = 5
  Revisions = {1, 2, 3}
  IcpNames = {n1, n2}
  Facts = {1, 2, 3}
  ValueOf <- MCValueOf
  ConfidenceOf <- MCConfidenceOf
  LastTick = 11
  NoRow = NoRow
  NoWork = NoWork
  CriterionIds = {1, 2, 3}
  Weights = {1, 2}
SPECIFICATION MCSpec
INVARIANTS
  WorkflowTypeOK ServicesAgreeOnIcp ActionableStillHolds
  ActionableIsEvidenced
PROPERTIES
  WorkflowSettles ConfirmationNeverDemotes
CHECK_DEADLOCK FALSE
