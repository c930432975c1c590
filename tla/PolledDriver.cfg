SPECIFICATION PolledSpec
CONSTANTS
  Machine = {m1}
  NoMachine = NoMachine
  RepeatDelete = TRUE
  Licensed = TRUE
INVARIANTS
  ImageBeforePowerOn
  NoForgottenMachine
  CleanReport
  LicenseReleased
  NoLockout
  CreateOkReady
  RestartGoesThroughOff
  PanicOnlyInStop
PROPERTIES
  ImplementsLifecycle
  ImplementsDriver
