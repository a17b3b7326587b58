\* A store error after apply: the catch block runs no rollback hook.
SPECIFICATION Spec
CONSTANTS
  j1 = j1
  j2 = j2
  t1 = t1
  t2 = t2
  NoTenant = NoTenant
  Jobs = {j1}
  Tenants = {t1, t2}
  Vlan <- NarrowVlan
  Workloads <- SingleWorkloads
  Settings <- WorkingSettings
  MaxFaults = 1
  MaxCrashes = 0
INVARIANT RolledBackAfterApply
CHECK_DEADLOCK FALSE
