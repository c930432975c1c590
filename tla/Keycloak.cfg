SPECIFICATION Spec
CONSTANT MaxGrants = 4
INVARIANTS
  StaleOnlyIfRefused
  KeepsNewest
PROPERTY
  ImplementsSteps
