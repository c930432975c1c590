CONSTANTS
  Product = {"base", "module1", "module2"}
  Base = "base"
  MaxAttempts = 2
SPECIFICATION FairSpec
INVARIANTS IInv NilMeansDone LoginIsPossible LeftoversReported DialBudget
PROPERTIES OperationEnds ImplementsSteps
