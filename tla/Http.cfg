SPECIFICATION FairSpec
CONSTANTS
  MaxHops = 3
  MaxKept = 2
INVARIANTS NilMeansCarriedOut AtMostOnce
PROPERTY CallEnds
CHECK_DEADLOCK FALSE
