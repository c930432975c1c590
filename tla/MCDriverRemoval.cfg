SPECIFICATION FairSpec
CONSTANTS
  Machine = {m1}
  NoMachine = NoMachine
  RepeatDelete = TRUE
  Licensed = FALSE
PROPERTIES
  RemovalCompletes
  NoStepTwice
