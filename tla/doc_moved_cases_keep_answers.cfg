\* A case is not moved away from what the employee answered.
SPECIFICATION QuestionnaireSpec
CONSTANTS
  Indicators = {i1, i2}
  Cases = {e1, e2}
  Contracts = {k1}
  MaxVersions = 3
  Idle = Idle
CHECK_DEADLOCK FALSE
PROPERTY MovedCasesKeepAnswers
