SPECIFICATION Spec
CONSTANTS
  r1 = r1
  r2 = r2
  Request = {r1, r2}
  Nobody = Nobody
  Call <- MCCall
  Integer <- MCInteger
SYMMETRY RequestSymmetry
INVARIANTS
  RoutesAgree
  ErrorsAreJSON
  AnswerTruthful
CHECK_DEADLOCK FALSE
