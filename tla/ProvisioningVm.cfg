\* Two tenants are provisioned one after the other from one OpenTofu state.
SPECIFICATION Spec
CONSTANTS
  j1 = j1
  j2 = j2
  t1 = t1
  t2 = t2
  NoTenant = NoTenant
  Jobs = {j1, j2}
  Tenants = {t1, t2}
  Vlan <- NarrowVlan
  Workloads <- MCWorkloads
  Settings <- WorkingSettings
  MaxFaults = 0
  MaxCrashes = 0
INVARIANT OneVmPerTenant
CHECK_DEADLOCK FALSE
