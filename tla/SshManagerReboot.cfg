CONSTANTS
  Product = {"base", "module1", "module2"}
  Base = "base"
  MaxAttempts = 2
SPECIFICATION Spec
INVARIANTS RebootIsDone
