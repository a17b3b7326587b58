\* A request to execute beside one of any kind, one crash, two store faults.
SPECIFICATION LiveSpec
CONSTANTS
  j1 = j1
  j2 = j2
  t1 = t1
  t2 = t2
  NoTenant = NoTenant
  Jobs = {j1, j2}
  Tenants = {t1, t2}
  Vlan <- MCVlan
  Workloads <- MCWorkloads
  Settings <- MCSettings
  MaxFaults = 2
  MaxCrashes = 1
INVARIANTS
  TypeOK
  CommandsGuarded
  ActiveIsProvisioned
  SuccessIsActive
  RollbackJustified
  
PROPERTIES
  LifecycleSpec
  JobsSettle
CHECK_DEADLOCK FALSE
