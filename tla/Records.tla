------------------------------ MODULE Records -------------------------------
(***************************************************************************)
(* The endpoints that make records and list them, behind the access guard, *)
(* and the page that uses them: POST /api/deployments, POST /api/jobs,     *)
(* POST /api/tenants, GET /api/jobs, the reports on expiring tokens, and   *)
(* app/jobs/page.tsx.                                                      *)
(*                                                                         *)
(* An access to the record store or the audit log is one step.  One to the *)
(* store may fail and leave things as they were, or make its change and    *)
(* then fail: a lock's handle that does not close (FileStore), a database  *)
(* connection lost after the commit.  One to the audit log may lose the    *)
(* event (AuditLog).  Days pass between steps.  The process may die and be *)
(* started again in another environment.                                   *)
(***************************************************************************)
EXTENDS Access, TenantPolicy, Functions

CONSTANTS
  Calls,       \* requests; each is made once, and names the records it makes
  Older,       \* the jobs that are there from the start, in the order they were made
  Tenants, Versions,
  NoTenant,    \* a job that belongs to no tenant, and a listing of all tenants
  NoVersion,   \* nothing is known to run
  None,        \* no record
  Settings,    \* the environments the process may be started in
  Workloads,   \* Workloads[i][c]: what call c asks for
  PageSize,    \* jobs on a page of a listing: 50 unless the client asks for 1..200
  Horizon,     \* the last day (bound)
  MaxFaults,   \* failing accesses (bound)
  MaxCrashes   \* process crashes (bound)

Backends == {"file", "db"}
Envs == {"Staging", "Production"}
JobStatus == {"Queued", "Running", "Success", "Failed", "DryRun"}
DeploymentStatus == {"Healthy", "Failed"}

Ids == Calls \union Range(Older)
Targets == Tenants \X Envs

PageLoads == {"open", "submit", "run"}
Kinds == PageLoads \union {"deploy", "job", "tenant", "scan", "health", "rotate", "simulate"}

ASSUME OlderAssumption ==
  /\ Older \in Seq(Range(Older))
  /\ \A i, j \in DOMAIN Older : Older[i] \notin Calls /\ (Older[i] = Older[j] => i = j)

\* The bodies of requests, as far as their values matter here.
DeployBodies ==
  [tenant : Tenants \union {Junk}, version : Versions \union {Junk},
   env : {Junk} \union STRING, dry : BOOLEAN]
JobBodies == [tenant : Tenants \union {Junk}, status : {Junk} \union STRING]
ProvisionBodies == [tenant : Tenants, status : {"DryRun", "Queued"}]
TenantBodies ==
  [name : Tenants, complete : BOOLEAN, size : Sizes \union {BadValue},
   vlan : {BadValue} \union Int, ip : {NoAddress} \union Seq(Nat), override : BOOLEAN]
SimulationBodies ==
  [secrets : BOOLEAN,
   tokens : Seq([user : BOOLEAN, role : Roles \union {Junk}, expiresAt : {Never, Junk} \union Nat])]

IsRequest(r) ==
  /\ r.kind \in Kinds
  /\ r.credential \in Credentials
  /\ CASE r.kind = "deploy" -> r.body \in DeployBodies
       [] r.kind \in {"job", "submit"} -> r.body \in JobBodies
       [] r.kind = "run" -> r.body \in ProvisionBodies
       [] r.kind = "tenant" -> r.body \in TenantBodies
       [] r.kind = "simulate" -> r.body \in SimulationBodies
       [] r.kind = "scan" -> r.body \in [filter : Tenants \union {NoTenant}]
       [] OTHER -> r.body = Junk

DeploymentRecords == [target : Targets, version : Versions, status : DeploymentStatus]
JobRecords == [status : JobStatus, tenant : Tenants \union {NoTenant}]
TenantRecords == [name : Tenants, vlan : Int, ip : Seq(Nat)]

ASSUME NoneAssumption == None \notin DeploymentRecords \union JobRecords \union TenantRecords
ASSUME NoTenantAssumption == NoTenant \notin Tenants /\ Junk \notin Tenants
ASSUME NoVersionAssumption == NoVersion \notin Versions /\ Junk \notin Versions
ASSUME SettingsAssumption == \A s \in Settings :
  /\ [mode |-> s.mode, dev |-> s.dev, oidc |-> s.oidc, tokens |-> s.tokens,
      warning |-> s.warning] \in Environments
  /\ s.backend \in Backends /\ s.tooling \in BOOLEAN
  /\ s.writable \in BOOLEAN /\ s.reachable \in BOOLEAN
ASSUME WorkloadsAssumption == \A w \in Workloads :
  w = [c \in Calls |-> w[c]] /\ \A c \in Calls : IsRequest(w[c])
ASSUME PageSizeAssumption == PageSize \in 1..200
ASSUME BoundsAssumption == Horizon \in Nat /\ MaxFaults \in Nat /\ MaxCrashes \in Nat

VARIABLES
  setting, serving,       \* the environment, and whether the process serves requests
  now,
  deployment, deployed,   \* the record of a deployment, and the records, newest first
  job, jobs,              \* likewise of jobs
  tenant,                 \* tenant[c]: the record of the tenant call c made
  events,                 \* events[c]: what call c has put into the audit log
  lost,                   \* lost[c]: its events that could not be stored (history)
  running,                \* running[t]: the version that runs on target t
  req, pc, work, result,  \* a call: its request, the await it is at, what it holds, its answer
  shown,                  \* the jobs the page shows
  faults, crashes,
  made,                   \* jobs in the order they were made (history)
  crossed,                \* two loads of the page were under way at once (history)
  contended               \* targets two deployments were under way for at once (history)

world == <<setting, serving, now>>
store == <<deployment, deployed, job, jobs, tenant, made>>
trail == <<events, lost>>
bounds == <<faults, crashes>>
history == <<crossed, contended>>
vars == <<world, store, trail, running, req, pc, work, result, shown, bounds, history>>

\* Who the caller is; how the command of a deployment went; what is read of
\* a listing; a report, the expiries it is about, and its day.
Idle == [role |-> Nobody, command |-> "none",
         page |-> 1, items |-> <<>>, pages |-> 0, seen |-> {}, base |-> {},
         day |-> 0, expiries |-> <<>>, report |-> None]

Body(c) == req[c].body
Kind(c) == req[c].kind
EnvOf(b) == IF b.env = Junk THEN "Staging" ELSE b.env
Target(c) == <<Body(c).tenant, EnvOf(Body(c))>>

\* runStartupHealthCheck: the data directory is writable, or the database
\* answers and has every table.
ExpectedTables ==
  {"tenants", "jobs", "deployments", "reports", "audit_events", "notification_config"}

Ready(s) ==
  IF s.backend = "file" THEN s.writable ELSE s.reachable /\ ExpectedTables \subseteq s.tables

Init ==
  /\ setting \in Settings
  /\ serving = Ready(setting)
  /\ now = 0
  /\ deployment = [c \in Calls |-> None]
  /\ deployed = <<>>
  /\ job = [i \in Ids |-> IF i \in Calls THEN None ELSE [status |-> "Success", tenant |-> NoTenant]]
  /\ made = Older
  /\ jobs = [i \in 1..Len(Older) |-> Older[Len(Older) + 1 - i]]
  /\ tenant = [c \in Calls |-> None]
  /\ events = [c \in Calls |-> {}]
  /\ lost = [c \in Calls |-> {}]
  /\ running = [t \in Targets |-> NoVersion]
  /\ req \in Workloads
  /\ pc = [c \in Calls |-> "idle"]
  /\ work = [c \in Calls |-> Idle]
  /\ result = [c \in Calls |-> "none"]
  /\ shown = <<>>
  /\ faults = 0
  /\ crashes = 0
  /\ crossed = FALSE
  /\ contended = {}

UnderWay(c) == pc[c] \notin {"idle", "over", "gone"}

\* A load of the page: from the request for the list until its answer is shown.
Loading(c) ==
  /\ UnderWay(c) /\ Kind(c) \in PageLoads
  /\ Kind(c) = "open" \/ pc[c] \in {"reload", "list", "listed", "answer"}

Goto(c, l) == pc' = [pc EXCEPT ![c] = l]

Conclude(c, r) ==
  /\ Goto(c, "over")
  /\ result' = [result EXCEPT ![c] = r]

Fault == faults < MaxFaults /\ faults' = faults + 1

\* appendAuditEvent throws nothing: an event that cannot be stored is lost,
\* and no handler looks at the answer.
Log(c, e) ==
  \/ /\ events' = [events EXCEPT ![c] = @ \union {e}]
     /\ UNCHANGED <<lost, faults>>
  \/ /\ Fault
     /\ lost' = [lost EXCEPT ![c] = @ \union {e}]
     /\ UNCHANGED events

\* The one access in a handler's try.
Caught(c) == pc[c] = "tenant"

\* An access to the store throws.
Break(c) == IF Caught(c) THEN Goto(c, "failure") /\ UNCHANGED result ELSE Conclude(c, "failed")

\* A change of the store is made, and the handler goes on unless the access fails then.
Proceed(c, l) ==
  \/ Goto(c, l) /\ UNCHANGED <<result, faults>>
  \/ Fault /\ Break(c)

----------------------------------------------------------------------------
(* The guard.                                                              *)

Matching(i, filter) == filter = NoTenant \/ job[i].tenant = filter

\* Where the jobs that match are in the list, and which of them come first.
Places(filter) == {k \in DOMAIN jobs : Matching(jobs[k], filter)}
UpTo(I, k) == {i \in I : i <= k}

\* Those jobs in the order of the list: up to the nth there are n of them.
Filtered(filter) ==
  LET of == Places(filter)
  IN  [n \in 1..Cardinality(of) |-> jobs[CHOOSE k \in of : Cardinality(UpTo(of, k)) = n]]

Deploys(c) == Kind(c) = "deploy" /\ ~Body(c).dry

\* A request is sent.  The page's buttons are disabled while it is busy.
Begin(c) ==
  /\ pc[c] = "idle"
  /\ serving
  /\ Kind(c) \in PageLoads => \A d \in Calls : UnderWay(d) => Kind(d) # Kind(c)
  /\ Goto(c, "auth")
  /\ work' = [work EXCEPT ![c].base =
       IF Kind(c) = "scan" THEN {i \in Ids : job[i] # None /\ Matching(i, Body(c).filter)} ELSE {}]
  /\ crossed' = (crossed \/ (Kind(c) = "open" /\ \E d \in Calls : Loading(d)))
  /\ contended' = contended \union
       {Target(d) : d \in {d \in Calls : /\ Deploys(c) /\ Deploys(d) /\ UnderWay(d)
                                         /\ Target(c) = Target(d)}}
  /\ UNCHANGED <<world, store, trail, running, req, result, shown, bounds>>

WellFormed(b) == b.tenant # Junk /\ b.version # Junk /\ EnvOf(b) \in Envs

\* Faulty variant, which no specification uses: any status will do.
ValidJobAny(b) == b.tenant # Junk

ValidJob(b) == b.tenant # Junk /\ b.status \in JobStatus \union {"default"}

\* Secret-like keys are refused, and entries that do not parse.
ValidSimulation(b) == ~b.secrets /\ \A i \in DOMAIN b.tokens : ValidMetadata(b.tokens[i])

Operation(c) ==
  IF pc[c] = "reload" \/ Kind(c) \in {"scan", "open"} THEN "jobs"
  ELSE CASE Kind(c) = "submit" -> "job"
         [] Kind(c) = "run" -> "provision"
         [] OTHER -> Kind(c)

\* The first await of a handler past the guard, and past the checks of the body.
First(c) ==
  CASE Operation(c) = "jobs" -> "list"
    [] Operation(c) = "deploy" -> IF ~WellFormed(Body(c)) THEN "reject"
                                  ELSE IF Body(c).dry THEN "plan" ELSE "deployment"
    [] Operation(c) = "job" -> IF ValidJob(Body(c)) THEN "create" ELSE "invalid"
    [] Operation(c) = "provision" -> "create"
    [] Operation(c) = "tenant" -> "requested"
    [] Operation(c) \in {"health", "rotate"} -> "report"
    [] Operation(c) = "simulate" -> IF ValidSimulation(Body(c)) THEN "report" ELSE "reject"

Caller(c) == CallerRole(setting, req[c].credential, now)

\* requireProtectedOperation, then what the handler does before it awaits
\* anything.  A JWT whose keys cannot be fetched is nobody's.
Authorize(c) ==
  /\ pc[c] \in {"auth", "reload"}
  /\ \E role \in {Caller(c), Nobody} :
       /\ IF role = Caller(c) THEN UNCHANGED faults ELSE ResolveMode(setting) = "jwt" /\ Fault
       /\ Goto(c, IF May(role, Operation(c)) THEN First(c) ELSE "deny")
       /\ work' = [work EXCEPT ![c].role = role]
  /\ UNCHANGED <<world, store, trail, running, req, result, shown, crashes, history>>

\* 401 and 403, put into the audit log.
Deny(c) ==
  /\ pc[c] = "deny"
  /\ Log(c, "denied")
  /\ Conclude(c, "denied")
  /\ UNCHANGED <<world, store, running, req, work, shown, crashes, history>>

\* 400 without an event.
Invalid(c) ==
  /\ pc[c] = "invalid"
  /\ Conclude(c, "invalid")
  /\ UNCHANGED <<world, store, trail, running, req, work, shown, bounds, history>>

\* 400 and 422, put into the audit log.
Reject(c) ==
  /\ pc[c] = "reject"
  /\ Log(c, "rejected")
  /\ Conclude(c, "invalid")
  /\ UNCHANGED <<world, store, running, req, work, shown, crashes, history>>

----------------------------------------------------------------------------
(* The record store, one access each.                                      *)

\* Faulty variant, which no specification uses: a new job is put last.
AddJobLast(i, status, t) ==
  /\ job' = [job EXCEPT ![i] = [status |-> status, tenant |-> t]]
  /\ jobs' = Append(jobs, i)
  /\ made' = Append(made, i)

\* createJob.  A list has its newest record first.
AddJob(i, status, t) ==
  /\ job' = [job EXCEPT ![i] = [status |-> status, tenant |-> t]]
  /\ jobs' = <<i>> \o jobs
  /\ made' = Append(made, i)

\* In database mode a job keeps only a tenantId, which no caller of createJob gives.
KeptTenant(t) == IF setting.backend = "db" THEN NoTenant ELSE t

----------------------------------------------------------------------------
(* POST /api/deployments.                                                  *)

\* A dry run.
Plan(c) ==
  /\ pc[c] = "plan"
  /\ Log(c, "planned")
  /\ Conclude(c, "ok")
  /\ UNCHANGED <<world, store, running, req, work, shown, crashes, history>>

\* The deployment is Healthy before it runs.
CreateDeployment(c) ==
  /\ pc[c] = "deployment"
  /\ deployment' = [deployment EXCEPT ![c] =
       [target |-> Target(c), version |-> Body(c).version, status |-> "Healthy"]]
  /\ deployed' = <<c>> \o deployed
  /\ Proceed(c, "track")
  /\ UNCHANGED <<world, job, jobs, tenant, made, trail, running, req, work, shown, crashes, history>>

CreateTrackingJob(c) ==
  /\ pc[c] = "track"
  /\ AddJob(c, "Running", KeptTenant(Body(c).tenant))
  /\ Proceed(c, "start")
  /\ UNCHANGED <<world, deployment, deployed, tenant, trail, running, req, work, shown, crashes, history>>

AuditStart(c) ==
  /\ pc[c] = "start"
  /\ Log(c, "start")
  /\ Goto(c, "exec")
  /\ UNCHANGED <<world, store, running, req, work, result, shown, crashes, history>>

\* The playbook is run, unless none is configured, which counts as success.
\* One that fails may have brought the version up all the same.
Exec(c) ==
  /\ pc[c] = "exec"
  /\ \E ok \in BOOLEAN :
       LET deploy == [running EXCEPT ![Target(c)] = Body(c).version]
       IN  /\ ok \/ setting.tooling
           /\ work' = [work EXCEPT ![c].command =
                IF ~setting.tooling THEN "skipped" ELSE IF ok THEN "ok" ELSE "failed"]
           /\ running' \in IF ~setting.tooling THEN {running}
                           ELSE IF ok THEN {deploy} ELSE {running, deploy}
  /\ Goto(c, "update")
  /\ UNCHANGED <<world, store, trail, req, result, shown, bounds, history>>

Succeeded(c) == work[c].command \in {"ok", "skipped"}

\* Faulty variant, which no specification uses: the job of a deployment always succeeds.
JobOutcomeAlways(c) == "Success"

JobOutcome(c) == IF Succeeded(c) THEN "Success" ELSE "Failed"

UpdateJob(c) ==
  /\ pc[c] = "update"
  /\ job' = [job EXCEPT ![c].status = JobOutcome(c)]
  /\ Proceed(c, "settle")
  /\ UNCHANGED <<world, deployment, deployed, jobs, tenant, made, trail, running, req, work, shown, crashes, history>>

\* Faulty variant, which no specification uses: a deployment stays Healthy.
DeploymentOutcomeAlways(c) == "Healthy"

DeploymentOutcome(c) == IF Succeeded(c) THEN "Healthy" ELSE "Failed"

UpdateDeployment(c) ==
  /\ pc[c] = "settle"
  /\ deployment' = [deployment EXCEPT ![c].status = DeploymentOutcome(c)]
  /\ Proceed(c, "outcome")
  /\ UNCHANGED <<world, deployed, job, jobs, tenant, made, trail, running, req, work, shown, crashes, history>>

AuditOutcome(c) ==
  /\ pc[c] = "outcome"
  /\ Log(c, IF Succeeded(c) THEN "success" ELSE "failure")
  /\ Conclude(c, "ok")
  /\ UNCHANGED <<world, store, running, req, work, shown, crashes, history>>

----------------------------------------------------------------------------
(* POST /api/jobs, and the job POST /api/provision/tenant makes (the rest  *)
(* of which is in Provisioning).                                           *)

\* The page loads the list once its request is answered.
CreateJob(c) ==
  /\ pc[c] = "create"
  /\ AddJob(c, IF Body(c).status = "default" THEN "Queued" ELSE Body(c).status,
            KeptTenant(Body(c).tenant))
  /\ \/ Kind(c) # "job" /\ Proceed(c, "reload")
     \/ Kind(c) = "job" /\ Conclude(c, "ok") /\ UNCHANGED faults
     \/ Kind(c) = "job" /\ Fault /\ Break(c)
  /\ crossed' = (crossed \/ (pc'[c] = "reload" /\ \E d \in Calls : Loading(d)))
  /\ UNCHANGED <<world, deployment, deployed, tenant, trail, running, req, work, shown, crashes, contended>>

----------------------------------------------------------------------------
(* POST /api/tenants.                                                      *)

AfterRequest(c) ==
  CASE ~FieldsOk(Body(c)) -> "invalid"
    [] FieldsOk(Body(c)) /\ Violations(Body(c)) = {} -> "tenant"
    [] OTHER -> IF Overrides(Body(c), work[c].role) THEN "override" ELSE "reject"

RequestTenant(c) ==
  /\ pc[c] = "requested"
  /\ Log(c, "requested")
  /\ Goto(c, AfterRequest(c))
  /\ UNCHANGED <<world, store, running, req, work, result, shown, crashes, history>>

\* Violations an admin overrides are put into the audit log first.
AuditOverride(c) ==
  /\ pc[c] = "override"
  /\ Log(c, "override")
  /\ Goto(c, "tenant")
  /\ UNCHANGED <<world, store, running, req, work, result, shown, crashes, history>>

NameTaken(n) == \E d \in Calls : tenant[d] # None /\ tenant[d].name = n

\* createTenant makes a tenant and a job in one access.  Only the database
\* refuses a second tenant of the same name.
CreateTenant(c) ==
  /\ pc[c] = "tenant"
  /\ setting.backend = "db" => ~NameTaken(Body(c).name)
  /\ tenant' = [tenant EXCEPT ![c] = [name |-> Body(c).name, vlan |-> Body(c).vlan,
                                      ip |-> ResolvedIp(Body(c), work[c].role)]]
  /\ AddJob(c, "Queued", Body(c).name)
  /\ Proceed(c, "success")
  /\ UNCHANGED <<world, deployment, deployed, trail, running, req, work, shown, crashes, history>>

RefuseTenant(c) ==
  /\ pc[c] = "tenant"
  /\ setting.backend = "db" /\ NameTaken(Body(c).name)
  /\ Goto(c, "failure")
  /\ UNCHANGED <<world, store, trail, running, req, work, result, shown, bounds, history>>

AuditSuccess(c) ==
  /\ pc[c] = "success"
  /\ Log(c, "success")
  /\ Conclude(c, "ok")
  /\ UNCHANGED <<world, store, running, req, work, shown, crashes, history>>

\* The catch of a handler.
AuditFailure(c) ==
  /\ pc[c] = "failure"
  /\ Log(c, "failure")
  /\ Conclude(c, "failed")
  /\ UNCHANGED <<world, store, running, req, work, shown, crashes, history>>

----------------------------------------------------------------------------
(* GET /api/jobs.                                                          *)

\* slice((page - 1) * limit, page * limit)
OnPage(s, k) ==
  LET last == IF k * PageSize < Len(s) THEN k * PageSize ELSE Len(s)
  IN  SubSeq(s, (k - 1) * PageSize + 1, last)

\* Faulty variant, which no specification uses: a last page that is not full is left out.
PagesOfFull(total) == total \div PageSize

\* Math.ceil(total / limit)
PagesOf(total) == (total + PageSize - 1) \div PageSize

List(c) ==
  /\ pc[c] = "list"
  /\ LET all == Filtered(IF Kind(c) = "scan" THEN Body(c).filter ELSE NoTenant)
     IN  work' = [work EXCEPT ![c].items = OnPage(all, work[c].page),
                              ![c].pages = PagesOf(Len(all))]
  /\ Goto(c, "listed")
  /\ UNCHANGED <<world, store, trail, running, req, result, shown, bounds, history>>

\* The listing is put into the audit log and answered.  A client that reads
\* all pages asks for the next one until the answer says there is none.
Listed(c) ==
  /\ pc[c] = "listed"
  /\ IF Kind(c) \in PageLoads THEN Goto(c, "answer") /\ UNCHANGED <<work, result>>
     ELSE /\ work' = [work EXCEPT ![c].seen = @ \union Range(work[c].items),
                                  ![c].items = <<>>, ![c].page = @ + 1]
          /\ IF work[c].page < work[c].pages THEN Goto(c, "auth") /\ UNCHANGED result
             ELSE Conclude(c, "ok")
  /\ UNCHANGED <<world, store, trail, running, req, shown, bounds, history>>

\* The answer arrives at the page.
Show(c) ==
  /\ pc[c] = "answer"
  /\ shown' = work[c].items
  /\ work' = [work EXCEPT ![c].items = <<>>]
  /\ Conclude(c, "ok")
  /\ UNCHANGED <<world, store, trail, running, req, bounds, history>>

----------------------------------------------------------------------------
(* GET /api/auth/health and POST /api/auth/rotation/plan report on the     *)
(* tokens in the environment, POST /api/auth/rotation/simulate on those it *)
(* is sent.                                                                *)

Reports == {"health", "rotate", "simulate"}

Report(c) ==
  /\ pc[c] = "report"
  /\ LET days == WarningDays(setting.warning)
     IN  work' = [work EXCEPT ![c].day = now,
           ![c].expiries = IF Kind(c) = "simulate" THEN Expiries(Body(c).tokens)
                           ELSE Expiries(Parse(setting.tokens)),
           ![c].report = IF Kind(c) = "simulate" THEN ImpactSummary(Body(c).tokens, days, now)
                         ELSE HealthSummary(setting.tokens, days, now)]
  /\ IF Kind(c) = "health" THEN Conclude(c, "ok") ELSE Goto(c, "success") /\ UNCHANGED result
  /\ UNCHANGED <<world, store, trail, running, req, shown, bounds, history>>

----------------------------------------------------------------------------
(* What may happen to any of them.                                         *)

Accesses == {"deployment", "track", "update", "settle", "create", "tenant", "list"}

\* An access to the store fails before it changes anything.
Fail(c) ==
  /\ pc[c] \in Accesses
  /\ Fault
  /\ Break(c)
  /\ UNCHANGED <<world, store, trail, running, req, work, shown, crashes, history>>

Tick ==
  /\ now < Horizon
  /\ now' = now + 1
  /\ UNCHANGED <<setting, serving, store, trail, running, req, pc, work, result, shown, bounds, history>>

\* The process dies, perhaps with a playbook half run, and is started again
\* on the same store; it serves requests if the store is in order.
Crash ==
  /\ crashes < MaxCrashes
  /\ crashes' = crashes + 1
  /\ \E s \in Settings : s.backend = setting.backend /\ setting' = s /\ serving' = Ready(s)
  /\ pc' = [c \in Calls |-> IF UnderWay(c) THEN "gone" ELSE pc[c]]
  /\ running' \in {running} \union
       {[running EXCEPT ![Target(c)] = Body(c).version] :
          c \in {c \in Calls : pc[c] = "exec" /\ setting.tooling}}
  /\ UNCHANGED <<now, store, trail, req, work, result, shown, faults, history>>

Next ==
  \/ \E c \in Calls :
       \/ Begin(c) \/ Authorize(c) \/ Deny(c) \/ Invalid(c) \/ Reject(c)
       \/ Plan(c) \/ CreateDeployment(c) \/ CreateTrackingJob(c) \/ AuditStart(c) \/ Exec(c)
       \/ UpdateJob(c) \/ UpdateDeployment(c) \/ AuditOutcome(c)
       \/ CreateJob(c)
       \/ RequestTenant(c) \/ AuditOverride(c) \/ CreateTenant(c) \/ RefuseTenant(c)
       \/ AuditSuccess(c) \/ AuditFailure(c)
       \/ List(c) \/ Listed(c) \/ Show(c) \/ Report(c) \/ Fail(c)
  \/ Tick
  \/ Crash

Spec == Init /\ [][Next]_vars

----------------------------------------------------------------------------
(* Every variable keeps its type, whatever the requests contain.           *)
Awaits ==
  {"idle", "auth", "deny", "invalid", "reject", "plan", "deployment", "track", "start", "exec",
   "update", "settle", "outcome", "create", "reload", "requested", "override", "tenant",
   "success", "failure", "list", "listed", "answer", "report", "over", "gone"}

TypeOK ==
  /\ setting \in Settings
  /\ serving \in BOOLEAN
  /\ now \in 0..Horizon
  /\ deployment \in [Calls -> DeploymentRecords \union {None}]
  /\ job \in [Ids -> JobRecords \union {None}]
  /\ tenant \in [Calls -> TenantRecords \union {None}]
  /\ jobs \in Seq({i \in Ids : job[i] # None})
  /\ deployed \in Seq({c \in Calls : deployment[c] # None})
  /\ pc \in [Calls -> Awaits]
  /\ result \in [Calls -> {"none", "ok", "denied", "invalid", "failed"}]
  /\ faults \in 0..MaxFaults
  /\ crashes \in 0..MaxCrashes

\* What the policy grants: everything to admins, making records to
\* technicians, reading jobs to anybody known.
Grants(role, operation) ==
  \/ role = "admin"
  \/ role = "technician" /\ operation \notin Reports
  \/ role = "readonly" /\ operation = "jobs"

\* Entry e puts the token of call c in force today, with a role that is enough.
Entitles(e, c) ==
  /\ e.token = req[c].credential.token
  /\ e.user /\ e.expiresAt # Junk
  /\ e.expiresAt # Never => now < e.expiresAt
  /\ Grants(IF e.role = Junk THEN "technician" ELSE e.role, Operation(c))

\* The roles the claims of a JWT name.
Claimed(claims) == Range(claims.roles) \union {claims.role} \union Range(claims.groups)

\* No token is listed twice.
Distinct(raw) == \A i, j \in DOMAIN raw : raw[i].token = raw[j].token => i = j

Decided(c, served) ==
  LET entitled == \E e \in Range(setting.tokens) : Entitles(e, c)
      claims == req[c].credential.claims
  IN  CASE ResolveMode(setting) = "trusted-bearer" ->
             /\ served => entitled
             /\ Distinct(setting.tokens) => (entitled => served)
        [] ResolveMode(setting) = "jwt" ->
             served => /\ claims.verified
                       /\ \/ Operation(c) = "jobs"
                          \/ \E r \in Claimed(claims) : Grants(r, Operation(c))
        [] OTHER -> served = Grants(NormalizeRole(req[c].credential.header), Operation(c))

(* A request gets past the guard with a trusted token exactly if the token *)
(* is in force that day with a role the operation is granted to (of a      *)
(* token listed twice: only if), and with a JWT only if the claims verify  *)
(* and name such a role, or the operation is reading.  In the other modes  *)
(* a header names the role, technician if it names none.                   *)
AccessAsConfigured ==
  [][\A c \in Calls :
       pc[c] \in {"auth", "reload"} /\ pc'[c] \notin {pc[c], "gone"} =>
         Decided(c, pc'[c] # "deny")]_vars

\* The outcomes call c has told the audit log, whether or not it could store them.
Verdicts(c) == (events[c] \union lost[c]) \intersect {"success", "failure"}

(* A deployment tells the audit log one outcome, that of its command, once *)
(* its record and its job's say the same, and is answered ok only after    *)
(* that; the records stay apart, or Healthy although the command failed,   *)
(* only if it was not answered ok.  The creation of a tenant is told as a  *)
(* success or a failure and never as both, as it is answered: a success    *)
(* only with both records there, a failure with a record there only after  *)
(* an access failed.  What is told is in the log unless its append failed. *)
OutcomeTold ==
  \A c \in Calls :
    /\ lost[c] # {} => faults > 0
    /\ Kind(c) = "deploy" /\ deployment[c] # None =>
         /\ Verdicts(c) \subseteq {IF Succeeded(c) THEN "success" ELSE "failure"}
         /\ result[c] = "ok" => Verdicts(c) # {}
         /\ Verdicts(c) # {} =>
              IF Succeeded(c) THEN job[c].status = "Success" /\ deployment[c].status = "Healthy"
              ELSE job[c].status = "Failed" /\ deployment[c].status = "Failed"
    /\ Kind(c) = "tenant" =>
         /\ Verdicts(c) # {"success", "failure"}
         /\ result[c] = "ok" => "success" \in Verdicts(c)
         /\ result[c] = "failed" => "failure" \in Verdicts(c)
         /\ "success" \in Verdicts(c) => tenant[c] # None
         /\ tenant[c] # None => job[c] # None
         /\ "failure" \in Verdicts(c) /\ tenant[c] # None => faults > 0

(* Where deployments of a target all ran to their answers, one after the   *)
(* other and with a playbook, a newest record that is Healthy names the    *)
(* version that runs.                                                      *)
NewestRuns ==
  \A t \in Targets \ contended :
    LET of == {k \in DOMAIN deployed : deployment[deployed[k]].target = t}
        newest == FirstOf(deployed, of)
    IN  /\ of # {}
        /\ \A k \in of : result[deployed[k]] = "ok" /\ work[deployed[k]].command # "skipped"
        /\ deployment[newest].status = "Healthy"
        => running[t] = deployment[newest].version

(* A client that reads a listing page by page, while jobs are made, misses *)
(* none that was there when it began.                                      *)
PagesMissNothing ==
  \A c \in Calls : Kind(c) = "scan" /\ result[c] = "ok" => work[c].base \subseteq work[c].seen

(* Once its request is answered and the list loaded again, the page shows  *)
(* the job it asked for, unless a page of newer ones came in between or    *)
(* two loads crossed.                                                      *)
OwnJobShown ==
  \A c \in Calls :
    /\ Kind(c) \in {"submit", "run"} /\ result[c] = "ok" /\ ~crossed
    /\ \A i \in DOMAIN made : made[i] = c => Len(made) - i < PageSize
    => c \in Range(shown)

(* The address in a tenant's record is the one its machine is given, or an *)
(* admin asked for another, and the audit log was told so before: it has   *)
(* the override's event unless its append failed, which stops nothing.     *)
TenantAddressed ==
  \A c \in Calls : tenant[c] # None =>
    \/ tenant[c].ip = PlanIp(tenant[c].vlan)
    \/ work[c].role = "admin" /\ "override" \in events[c] \union lost[c]

(* As long as the warning window of a report lasts, no more tokens have    *)
(* run out than it said were expiring soon, and none it did not count.     *)
RefusalsForeseen ==
  \A c \in Calls : Kind(c) \in Reports /\ result[c] = "ok" =>
    LET es == work[c].expiries
        lapsed == {i \in DOMAIN es : es[i] # Never /\ es[i] > work[c].day /\ es[i] <= now}
    IN  /\ now <= work[c].day + work[c].report.warningDays =>
             Cardinality(lapsed) <= work[c].report.expiringSoon
        /\ work[c].report.active = Cardinality({i \in DOMAIN es : es[i] # Never => es[i] > work[c].day})
=============================================================================
