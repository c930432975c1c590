SPECIFICATION Spec
CONSTANTS
  Step = 5
  Timeout = 15
  Latency = 2
INVARIANTS
  Prompt
  ResultIsHonest
  WaitIsBounded
PROPERTY
  ImplementsWait
CHECK_DEADLOCK FALSE
