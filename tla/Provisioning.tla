---------------------------- MODULE Provisioning ----------------------------
(***************************************************************************)
(* Provisioning jobs of the web application: POST /api/tenants and         *)
(* POST /api/provision/tenant create job records, and a background worker  *)
(* per provisioning request runs the five-phase engine                     *)
(* (app/api/provision/tenant/route.ts, lib/provisioning-engine.ts).        *)
(*                                                                         *)
(* Workers interleave at every await that touches shared state: each store *)
(* access and each command is a step.  A store access may fail, before or  *)
(* after the change it makes, a command may never end, and the process may *)
(* die and be started again.                                               *)
(***************************************************************************)
EXTENDS Naturals, Sequences, FiniteSets

CONSTANTS
  Jobs,        \* job records; each is made by one request
  Tenants,
  Vlan,        \* Vlan[t]: the VLAN of tenant t, 2..4094 by POST /api/tenants
  Workloads,   \* the requests that may be made, a subset of AllWorkloads
  Settings,    \* the configurations the process may run with
  NoTenant,
  MaxFaults,   \* failing store accesses (bound)
  MaxCrashes   \* process crashes (bound)

RequestKinds == {"environment",   \* POST /api/tenants
                 "dry",           \* POST /api/provision/tenant, dryRun (the default)
                 "execute"}       \* POST /api/provision/tenant, dryRun = false

\* Every POST /api/tenants makes a tenant of its own.
AllWorkloads ==
  {f \in [Jobs -> [kind : RequestKinds, tenant : Tenants]] :
     \A i, j \in Jobs : f[i].kind = "environment" /\ f[i] = f[j] => i = j}

\* executable: PROVISION_EXECUTION_ENABLED and every required variable is set;
\* hook: PROVISION_ROLLBACK_HOOK_CMD is unset, allowlisted or rejected;
\* backend: where records live.
AllSettings == [executable : BOOLEAN, hook : {"unset", "valid", "rejected"},
                backend : {"file", "db"}]

ASSUME WorkloadsAssumption == Workloads \subseteq AllWorkloads
ASSUME SettingsAssumption == Settings \subseteq AllSettings
ASSUME VlanAssumption == Vlan \in [Tenants -> 2..4094]
ASSUME NoTenantAssumption == NoTenant \notin Tenants
ASSUME FaultsAssumption == MaxFaults \in Nat
ASSUME CrashesAssumption == MaxCrashes \in Nat

VARIABLES
  setting,   \* the configuration, an element of Settings
  request,   \* request[j]: [kind, tenant] of job j
  status,    \* status[j]: the status in the record of job j, or "absent"
  trace,     \* trace[j]: the phase results in the record of job j
  tenant,    \* tenant[t]: the status in the record of tenant t, or "absent"
  pc,        \* pc[j]: the await the worker of job j is at
  results,   \* results[j]: the phase results its engine has in memory
  ran,       \* ran[j]: the commands its engine has run, with their success
  hooks,     \* hooks[j]: how often its worker has run the rollback hook
  vm,        \* the tenant of the one VM in the OpenTofu state
  faults, crashes

records == <<setting, request, status, trace, tenant>>
vars == <<setting, request, status, trace, tenant, pc, results, ran, hooks, vm,
          faults, crashes>>

Phases == <<"vm_create", "network_config", "os_bootstrap", "app_deploy", "health_verify">>
Commands == <<"init", "plan", "apply", "bootstrap", "deploy">>

\* The commands of a phase, as positions in Commands.
PhaseCommands(p) ==
  CASE p = "vm_create" -> 1..3
    [] p = "os_bootstrap" -> {4}
    [] p = "app_deploy" -> {5}
    [] OTHER -> {}

\* The check of network_config: the VLAN's range, and an address 10.<vlan>.10.100
\* whose parts have at most three digits.
NetworkOk(t) == Vlan[t] > 0 /\ Vlan[t] < 4095 /\ Vlan[t] < 1000

Dry(j) == request[j].kind = "dry"

\* The phase job j is in, and the result of the one before it.
Phase(j) == Phases[Len(results[j]) + 1]
Previous(j) == IF results[j] = <<>> THEN "none" ELSE results[j][Len(results[j])]

\* Two faulty variants, for the definitions that follow (see below).
\* The overall outcome is judged by the last phase.
FailedLast(j) == Previous(j) = "failed"

\* The rollback branch does not ask whether apply succeeded.
AlwaysApplied(j) == TRUE

Failed(j) == \E k \in 1..Len(results[j]) : results[j][k] = "failed"
ApplySucceeded(j) == results[j] # <<>> /\ results[j][1] = "success"

Init ==
  /\ setting \in Settings
  /\ request \in Workloads
  /\ status = [j \in Jobs |-> "absent"]
  /\ trace = [j \in Jobs |-> <<>>]
  /\ tenant = [t \in Tenants |->
       IF \E j \in Jobs : request[j] = [kind |-> "environment", tenant |-> t]
       THEN "absent" ELSE "Provisioning"]
  /\ pc = [j \in Jobs |-> "absent"]
  /\ results = [j \in Jobs |-> <<>>]
  /\ ran = [j \in Jobs |-> <<>>]
  /\ hooks = [j \in Jobs |-> 0]
  /\ vm = NoTenant
  /\ faults = 0
  /\ crashes = 0

Goto(j, l) == pc' = [pc EXCEPT ![j] = l]

\* updateJob(j, ...): one atomic change of the record.
UpdateJob(j, s, t) ==
  /\ status' = [status EXCEPT ![j] = s]
  /\ trace' = [trace EXCEPT ![j] = t]

----------------------------------------------------------------------------
(* Faulty variants, one plausible mistake each; no specification uses them. *)

\* The skip condition of network_config, where a skipped phase cannot precede,
\* used for every phase.
SkipsAfterFailed(j) == Previous(j) = "failed"

\* An error of updateTenant is swallowed in file mode too.
AfterFaultSwallowing(j) ==
  IF pc[j] = "catch" THEN "gone" ELSE IF pc[j] = "promote" THEN "final" ELSE "catch"

\* The refusal returns without settling the job.
RefuseSilently(j) ==
  /\ pc[j] = "refuse"
  /\ Goto(j, "gone")
  /\ UNCHANGED <<setting, request, status, trace, tenant, results, ran, hooks, vm, faults, crashes>>

\* A checkpoint writes the phases reported so far but the latest.
CheckpointStale(j) ==
  /\ pc[j] = "checkpoint"
  /\ UpdateJob(j, status[j], SubSeq(results[j], 1, Len(results[j]) - 1))
  /\ Goto(j, IF Len(results[j]) < Len(Phases) THEN "phase"
             ELSE IF Dry(j) THEN "final" ELSE IF Failed(j) THEN "rollback" ELSE "promote")
  /\ UNCHANGED <<setting, request, tenant, results, ran, hooks, vm, faults, crashes>>

\* A checkpoint that counts the phases one too far.
CheckpointPastLast(j) ==
  /\ pc[j] = "checkpoint"
  /\ UpdateJob(j, status[j], results[j])
  /\ Goto(j, IF Len(results[j]) <= Len(Phases) THEN "phase" ELSE "final")
  /\ UNCHANGED <<setting, request, tenant, results, ran, hooks, vm, faults, crashes>>

\* The catch block only logs the error.
CatchSilently(j) ==
  /\ pc[j] = "catch"
  /\ Goto(j, "gone")
  /\ UNCHANGED <<records, results, ran, hooks, vm, faults, crashes>>

----------------------------------------------------------------------------
(* The two handlers that create a job record.                              *)

\* POST /api/tenants: one write makes the tenant and a Queued job no worker
\* is started for.
CreateTenant(j) ==
  /\ status[j] = "absent"
  /\ request[j].kind = "environment"
  /\ tenant' = [tenant EXCEPT ![request[j].tenant] = "Provisioning"]
  /\ UpdateJob(j, "Queued", <<>>)
  /\ Goto(j, "gone")
  /\ UNCHANGED <<setting, request, results, ran, hooks, vm, faults, crashes>>

\* POST /api/provision/tenant: createJob, setImmediate, 202.  An unknown
\* tenant is answered 404 and leaves no job.
Accept(j) ==
  /\ status[j] = "absent"
  /\ request[j].kind # "environment"
  /\ tenant[request[j].tenant] # "absent"
  /\ UpdateJob(j, IF Dry(j) THEN "DryRun" ELSE "Queued", <<>>)
  /\ Goto(j, "prepare")
  /\ UNCHANGED <<setting, request, tenant, results, ran, hooks, vm, faults, crashes>>

----------------------------------------------------------------------------
(* runProvisioningInBackground up to the engine.                           *)

\* getTenantById and materializeProvisionFiles, into a directory of the job's own.
Prepare(j) ==
  /\ pc[j] = "prepare"
  /\ Goto(j, "record")
  /\ UNCHANGED <<records, results, ran, hooks, vm, faults, crashes>>

\* updateJob with the plan, then the two execution guards.
Record(j) ==
  /\ pc[j] = "record"
  /\ UpdateJob(j, status[j], <<>>)
  /\ Goto(j, IF Dry(j) THEN "begin" ELSE IF setting.executable THEN "mark" ELSE "refuse")
  /\ UNCHANGED <<setting, request, tenant, results, ran, hooks, vm, faults, crashes>>

Refuse(j) ==
  /\ pc[j] = "refuse"
  /\ UpdateJob(j, "Failed", <<>>)
  /\ Goto(j, "gone")
  /\ UNCHANGED <<setting, request, tenant, results, ran, hooks, vm, faults, crashes>>

MarkRunning(j) ==
  /\ pc[j] = "mark"
  /\ UpdateJob(j, "Running", trace[j])
  /\ Goto(j, "begin")
  /\ UNCHANGED <<setting, request, tenant, results, ran, hooks, vm, faults, crashes>>

----------------------------------------------------------------------------
(* runProvisioningEngine: five phases, each followed by a checkpoint.      *)

\* getJobById for the engine, and its first updateJob: a dry run is marked
\* Running too.
Begin(j) ==
  /\ pc[j] = "begin"
  /\ UpdateJob(j, "Running", trace[j])
  /\ Goto(j, "phase")
  /\ UNCHANGED <<setting, request, tenant, results, ran, hooks, vm, faults, crashes>>

EndPhase(j, r) ==
  /\ results' = [results EXCEPT ![j] = Append(@, r)]
  /\ Goto(j, "checkpoint")

PlanPhase(j) ==
  /\ pc[j] = "phase"
  /\ Dry(j)
  /\ EndPhase(j, "planned")
  /\ UNCHANGED <<records, ran, hooks, vm, faults, crashes>>

Skips(j) == Previous(j) \in {"failed", "skipped"}

SkipPhase(j) ==
  /\ pc[j] = "phase"
  /\ ~Dry(j)
  /\ Skips(j)
  /\ EndPhase(j, "skipped")
  /\ UNCHANGED <<records, ran, hooks, vm, faults, crashes>>

\* The phases without a command.  health_verify reports success whatever the
\* probe finds.
CheckPhase(j) ==
  /\ pc[j] = "phase"
  /\ ~Dry(j) /\ ~Skips(j)
  /\ PhaseCommands(Phase(j)) = {}
  /\ EndPhase(j, IF Phase(j) = "network_config" /\ ~NetworkOk(request[j].tenant)
                 THEN "failed" ELSE "success")
  /\ UNCHANGED <<records, ran, hooks, vm, faults, crashes>>

\* Commands of the current phase still to run.
Pending(j) ==
  {n \in PhaseCommands(Phase(j)) :
     \A k \in 1..Len(ran[j]) : ran[j][k].command # Commands[n]}

\* All tenants share one OpenTofu state with one VM in it
\* (infra/opentofu/environments/prod): applying another tenant's variables
\* replaces it, and an apply that fails may have removed or replaced it.
Applied(j, ok) ==
  IF ok THEN {request[j].tenant} ELSE {vm, NoTenant, request[j].tenant}

\* One command of the phase.  The first that fails ends the phase.
RunCommand(j) ==
  /\ pc[j] = "phase"
  /\ ~Dry(j) /\ ~Skips(j)
  /\ \E n \in Pending(j), ok \in BOOLEAN :
       /\ \A m \in Pending(j) : n <= m
       /\ ran' = [ran EXCEPT ![j] = Append(@, [command |-> Commands[n], ok |-> ok])]
       /\ IF Commands[n] = "apply" THEN vm' \in Applied(j, ok) ELSE vm' = vm
       /\ IF ok /\ Pending(j) # {n}
          THEN UNCHANGED <<results, pc>>
          ELSE EndPhase(j, IF ok THEN "success" ELSE "failed")
  /\ UNCHANGED <<records, hooks, faults, crashes>>

Checkpoint(j) ==
  /\ pc[j] = "checkpoint"
  /\ UpdateJob(j, status[j], results[j])
  /\ Goto(j, IF Len(results[j]) < Len(Phases) THEN "phase"
             ELSE IF Dry(j) THEN "final"
             ELSE IF Failed(j) THEN "rollback"
             ELSE "promote")
  /\ UNCHANGED <<setting, request, tenant, results, ran, hooks, vm, faults, crashes>>

Promote(j) ==
  /\ pc[j] = "promote"
  /\ tenant' = [tenant EXCEPT ![request[j].tenant] = "Active"]
  /\ Goto(j, "final")
  /\ UNCHANGED <<setting, request, status, trace, results, ran, hooks, vm, faults, crashes>>

----------------------------------------------------------------------------
(* The rest of runProvisioningInBackground.                                *)

\* The hook is the operator's own command; what it does is not modelled.
Rollback(j) ==
  /\ pc[j] = "rollback"
  /\ hooks' = [hooks EXCEPT ![j] =
                 IF ApplySucceeded(j) /\ setting.hook = "valid" THEN @ + 1 ELSE @]
  /\ Goto(j, "final")
  /\ UNCHANGED <<records, results, ran, vm, faults, crashes>>

FinalStatus(j) ==
  IF Dry(j) THEN "DryRun" ELSE IF Failed(j) THEN "Failed" ELSE "Success"

Final(j) ==
  /\ pc[j] = "final"
  /\ UpdateJob(j, FinalStatus(j), results[j])
  /\ Goto(j, "gone")
  /\ UNCHANGED <<setting, request, tenant, results, ran, hooks, vm, faults, crashes>>

\* The catch block: the job has failed and its phases are cleared.
Catch(j) ==
  /\ pc[j] = "catch"
  /\ UpdateJob(j, "Failed", <<>>)
  /\ Goto(j, "gone")
  /\ UNCHANGED <<setting, request, tenant, results, ran, hooks, vm, faults, crashes>>

----------------------------------------------------------------------------
(* Failures.                                                               *)

\* Where an error in a store access leads: into the catch block, out of it
\* with the job unsettled, or nowhere when updateTenant swallows it.
AfterFault(j) ==
  IF pc[j] = "catch" THEN "gone"
  ELSE IF pc[j] = "promote" /\ setting.backend = "db" THEN "final"
  ELSE "catch"

Fault(j) ==
  /\ faults < MaxFaults
  /\ faults' = faults + 1
  /\ Goto(j, AfterFault(j))

StoreFault(j) ==
  /\ pc[j] \in {"prepare", "record", "refuse", "mark", "begin", "checkpoint",
                "promote", "final", "catch"}
  /\ Fault(j)
  /\ UNCHANGED <<records, results, ran, hooks, vm, crashes>>

\* What the access a worker is at makes of the job's record.
Stored(j) ==
  CASE pc[j] = "record" -> UpdateJob(j, status[j], <<>>)
    [] pc[j] \in {"refuse", "catch"} -> UpdateJob(j, "Failed", <<>>)
    [] pc[j] \in {"mark", "begin"} -> UpdateJob(j, "Running", trace[j])
    [] pc[j] = "checkpoint" -> UpdateJob(j, status[j], results[j])
    [] pc[j] = "final" -> UpdateJob(j, FinalStatus(j), results[j])

\* The error comes after the change: the answer to a commit is lost, or the
\* file store's lock cannot be released.
LateFault(j) ==
  /\ \/ /\ pc[j] \in {"record", "refuse", "mark", "begin", "checkpoint", "final", "catch"}
        /\ Stored(j)
        /\ UNCHANGED tenant
     \/ /\ pc[j] = "promote"
        /\ tenant' = [tenant EXCEPT ![request[j].tenant] = "Active"]
        /\ UNCHANGED <<status, trace>>
  /\ Fault(j)
  /\ UNCHANGED <<setting, request, results, ran, hooks, vm, crashes>>

\* Of a request, too: it is answered 500, and its job has no worker.
LateAccept(j) ==
  /\ status[j] = "absent"
  /\ request[j].kind # "environment"
  /\ tenant[request[j].tenant] # "absent"
  /\ UpdateJob(j, IF Dry(j) THEN "DryRun" ELSE "Queued", <<>>)
  /\ faults < MaxFaults
  /\ faults' = faults + 1
  /\ Goto(j, "unasked")
  /\ UNCHANGED <<setting, request, tenant, results, ran, hooks, vm, crashes>>

\* The process dies: workers are gone, records stay.  The process started
\* next does nothing about them (lib/job-recovery.ts is not called).
Crash ==
  /\ crashes < MaxCrashes
  /\ crashes' = crashes + 1
  /\ pc' = [j \in Jobs |-> IF pc[j] \in {"absent", "unasked"} THEN pc[j] ELSE "gone"]
  /\ UNCHANGED <<records, results, ran, hooks, vm, faults>>

Work(j) ==
  \/ Prepare(j) \/ Record(j) \/ Refuse(j) \/ MarkRunning(j) \/ Begin(j)
  \/ PlanPhase(j) \/ SkipPhase(j) \/ CheckPhase(j) \/ RunCommand(j)
  \/ Checkpoint(j) \/ Promote(j) \/ Rollback(j) \/ Final(j) \/ Catch(j)

Step(j) ==
  CreateTenant(j) \/ Accept(j) \/ LateAccept(j) \/ Work(j) \/ StoreFault(j) \/ LateFault(j)

Next ==
  \/ \E j \in Jobs : Step(j)
  \/ Crash

Spec == Init /\ [][Next]_vars

\* The worker waits for a child process, a command or the rollback hook.
\* execFile is given no time limit.
Waiting(j) ==
  \/ pc[j] = "phase" /\ ~Dry(j) /\ ~Skips(j) /\ Pending(j) # {}
  \/ pc[j] = "rollback" /\ ApplySucceeded(j) /\ setting.hook = "valid"

\* A worker is carried on by the event loop; a child process need not end, and
\* nothing makes a request arrive, a store fail or a process die.
Fairness == \A j \in Jobs : WF_vars(~Waiting(j) /\ Work(j))

LiveSpec == Spec /\ Fairness

----------------------------------------------------------------------------
Statuses == {"absent", "Queued", "DryRun", "Running", "Failed", "Success"}
Results == {"planned", "skipped", "success", "failed"}
PCs == {"absent", "prepare", "record", "refuse", "mark", "begin", "phase",
        "checkpoint", "promote", "rollback", "final", "catch", "gone", "unasked"}
CommandNames == {"init", "plan", "apply", "bootstrap", "deploy"}

(* Every variable keeps its type, and no job has more than five phases.    *)
TypeOK ==
  /\ setting \in Settings
  /\ request \in Workloads
  /\ status \in [Jobs -> Statuses]
  /\ trace \in [Jobs -> Seq(Results)]
  /\ tenant \in [Tenants -> {"absent", "Provisioning", "Active"}]
  /\ pc \in [Jobs -> PCs]
  /\ results \in [Jobs -> Seq(Results)]
  /\ \A j \in Jobs : /\ Len(results[j]) <= Len(Phases)
                     /\ pc[j] = "phase" => Len(results[j]) < Len(Phases)
  /\ ran \in [Jobs -> Seq([command : CommandNames, ok : BOOLEAN])]
  /\ hooks \in [Jobs -> Nat]
  /\ vm \in Tenants \union {NoTenant}
  /\ faults \in 0..MaxFaults
  /\ crashes \in 0..MaxCrashes

(* Commands run one after the other in the order of the plan, none after   *)
(* one that failed, and none for a dry run or with execution disabled.     *)
CommandsGuarded ==
  \A j \in Jobs :
    /\ ran[j] # <<>> => request[j].kind = "execute" /\ setting.executable
    /\ \A k \in 1..Len(ran[j]) : /\ ran[j][k].command = Commands[k]
                                 /\ k < Len(ran[j]) => ran[j][k].ok

\* Job j ran every command of its plan with success.
FullyRun(j) ==
  /\ Len(ran[j]) = Len(Commands)
  /\ \A k \in 1..Len(ran[j]) : ran[j][k].ok

(* A tenant is Active only after some job ran its whole plan with success, *)
(* its network settings passing the check in between.                      *)
ActiveIsProvisioned ==
  \A t \in Tenants :
    tenant[t] = "Active" =>
      NetworkOk(t) /\ \E j \in Jobs : request[j].tenant = t /\ FullyRun(j)

(* In file mode a job that reached Success has made its tenant Active.     *)
SuccessIsActive ==
  setting.backend = "file" =>
    \A j \in Jobs : status[j] = "Success" => tenant[request[j].tenant] = "Active"

\* Job j ran the apply command with success.
Applies(j) == \E k \in 1..Len(ran[j]) : ran[j][k] = [command |-> "apply", ok |-> TRUE]

(* The rollback hook runs at most once per job, only when apply succeeded  *)
(* and something after it failed, and never for a job that ends well.      *)
RollbackJustified ==
  \A j \in Jobs :
    /\ hooks[j] <= 1
    /\ hooks[j] = 1 => Applies(j) /\ Failed(j) /\ status[j] # "Success"

\* How far a job whose record reads s and t has come; the record of an accepted
\* dry run differs from a settled one only by its empty trace.
StageOf(s, t) ==
  CASE s = "absent" -> "none"
    [] s = "Queued" \/ (s = "DryRun" /\ t = <<>>) -> "accepted"
    [] s = "Running" -> "running"
    [] OTHER -> "settled"

\* A provisioning job that is not settled yet.
Unsettled(j) ==
  /\ request[j].kind # "environment"
  /\ StageOf(status[j], trace[j]) \in {"accepted", "running"}

(* A job is left without a worker and unsettled only by a crash, or when   *)
(* the store fails twice: at a step and again in the catch block.          *)
OrphanExplained ==
  \A j \in Jobs : Unsettled(j) /\ pc[j] = "gone" => crashes > 0 \/ faults > 1

(* Every provisioning job that was answered 202 settles, unless the        *)
(* process dies, the store fails twice, or a command or the rollback hook  *)
(* it waits for never ends.                                                *)
JobsSettle ==
  \A j \in Jobs :
    (Unsettled(j) /\ pc[j] # "unasked")
      ~> (~Unsettled(j) \/ crashes > 0 \/ faults > 1 \/ []Waiting(j))

Lifecycle == INSTANCE JobLifecycle
               WITH stage <- [j \in Jobs |-> StageOf(status[j], trace[j])]

(* Jobs go through the stages of JobLifecycle in order, through faults,    *)
(* crashes and any interleaving of workers, and their records say what it  *)
(* says.  A dry run's status goes back: the engine marks it Running        *)
(* (provisioning-engine.ts:594), though its caller means it to stay DryRun *)
(* (provision/tenant/route.ts:133).                                        *)
LifecycleSpec == Lifecycle!Spec

----------------------------------------------------------------------------
(* What the documents say and the program does not do.                     *)

(* No provisioning job stays unsettled for good, a crash included, unless  *)
(* a command it waits for never ends.                                      *)
NoStuckJobs == \A j \in Jobs : Unsettled(j) ~> (~Unsettled(j) \/ []Waiting(j))

(* A job that failed after apply succeeded has run the rollback hook.      *)
RolledBackAfterApply ==
  \A j \in Jobs :
    status[j] = "Failed" /\ setting.hook = "valid" /\ Applies(j) => hooks[j] = 1

(* While every apply has succeeded, a tenant that is Active has a VM.      *)
OneVmPerTenant ==
  (\A j \in Jobs, k \in 1..3 : k <= Len(ran[j]) => ran[j][k].ok)
    => \A t \in Tenants : tenant[t] = "Active" => vm = t
=============================================================================
