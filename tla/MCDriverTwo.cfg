SPECIFICATION Spec
CONSTANTS
  Machine = {m1, m2}
  NoMachine = NoMachine
  RepeatDelete = FALSE
  Licensed = FALSE
SYMMETRY MachineSymmetry
CONSTRAINT BuildAndRemove
INVARIANTS
  IInv
