\* Eight workloads of three calls, six environments, three days, one failing access, one crash.
SPECIFICATION Spec
CONSTANTS
  c1 = c1
  c2 = c2
  c3 = c3
  t1 = t1
  t2 = t2
  v1 = v1
  v2 = v2
  technician = technician
  admin = admin
  reader = reader
  Tokens = {technician, admin, reader}
  NoToken = NoToken
  Junk = Junk
  Never = Never
  NoAddress = NoAddress
  BadValue = BadValue
  Calls = {c1, c2, c3}
  o1 = o1
  o2 = o2
  Older <- SmallOlder
  Tenants = {t1, t2}
  Versions = {v1, v2}
  NoTenant = NoTenant
  NoVersion = NoVersion
  None = None
  Settings <- SmallSettings
  Workloads <- SmallWorkloads
  PageSize = 2
  Horizon = 2
  MaxFaults = 1
  MaxCrashes = 1
INVARIANTS
  TypeOK
  OutcomeTold
  NewestRuns
  PagesMissNothing
  OwnJobShown
  TenantAddressed
  RefusalsForeseen
PROPERTIES
  AccessAsConfigured
CHECK_DEADLOCK FALSE
