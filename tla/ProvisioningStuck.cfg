\* A crash while a job runs: nothing settles the job afterwards.
SPECIFICATION LiveSpec
CONSTANTS
  j1 = j1
  j2 = j2
  t1 = t1
  t2 = t2
  NoTenant = NoTenant
  Jobs = {j1}
  Tenants = {t1, t2}
  Vlan <- NarrowVlan
  Workloads <- SingleWorkloads
  Settings <- WorkingSettings
  MaxFaults = 0
  MaxCrashes = 1
PROPERTY NoStuckJobs
CHECK_DEADLOCK FALSE
