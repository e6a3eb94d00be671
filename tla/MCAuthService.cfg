SPECIFICATION Spec
CONSTANTS
  r1 = r1
  r2 = r2
  r3 = r3
  r4 = r4
  Request = {r1, r2, r3}
  Calls <- MCCalls
  ForeignTokens <- MCForeignTokens
  TokenLife = 1
  MaxTime = 1
SYMMETRY RequestSymmetry
INVARIANTS
  TokenTruthful
  StoredCredentialsEnter
  ServicesAgree
PROPERTIES
  ImplementsAccounts
CHECK_DEADLOCK FALSE
