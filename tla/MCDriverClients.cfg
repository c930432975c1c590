SPECIFICATION Spec
CONSTANTS
  Machine = {m1}
  NoMachine = NoMachine
  RepeatDelete = TRUE
  Licensed = TRUE
INVARIANTS
  ClientsReady
