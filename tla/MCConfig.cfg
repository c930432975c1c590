SPECIFICATION Spec
CONSTANTS
  Texts <- MCTexts
  Given <- MCGiven
  Environments <- MCEnvironments
  Tenants <- MCTenants
CHECK_DEADLOCK FALSE
INVARIANTS IInv AcceptedIsComplete HostKeySurvives TenantIsKept CredentialsAreCurrent
