------------------------- MODULE ProvisioningProofs -------------------------
(***************************************************************************)
(* Proofs about provisioning jobs, for any number of jobs, tenants, store  *)
(* faults and crashes.                                                     *)
(***************************************************************************)
EXTENDS Provisioning, SequenceTheorems, TLAPS

USE WorkloadsAssumption, SettingsAssumption, NoTenantAssumption,
    FaultsAssumption, CrashesAssumption

----------------------------------------------------------------------------
(* The inductive invariant, by what it relates.                            *)

\* A worker is in its engine from here on.
Started == {"phase", "checkpoint", "promote", "rollback", "final"}

\* All phases so far succeeded.
Clean(j) == \A k \in 1..Len(results[j]) : results[j][k] = "success"

\* The number of commands the engine has run after n successful phases.
CommandsAfter == <<3, 3, 4, 5, 5>>

\* Phase results: a dry run plans, an execution stops succeeding for good at
\* the first failure.
ResultsInv ==
  \A j \in Jobs :
    /\ Dry(j) => \A k \in 1..Len(results[j]) : results[j][k] = "planned"
    /\ ~Dry(j) => /\ \A k \in 1..Len(results[j]) : results[j][k] # "planned"
                  /\ Previous(j) = "success" => Clean(j)
                  /\ ~Failed(j) => Clean(j)
    /\ Len(results[j]) > 1 /\ results[j][2] = "success" => NetworkOk(request[j].tenant)

\* Commands: the engine has run a prefix of the plan, and while no phase has
\* failed no command has, and the phases tell how many there were.
CommandsInv ==
  \A j \in Jobs :
    /\ ran[j] # <<>> => request[j].kind = "execute" /\ setting.executable
    /\ Len(ran[j]) <= 5
    /\ \A k \in 1..Len(ran[j]) : /\ ran[j][k].command = Commands[k]
                                 /\ k < Len(ran[j]) => ran[j][k].ok
    /\ request[j].kind = "execute" /\ Clean(j) =>
         /\ \A k \in 1..Len(ran[j]) : ran[j][k].ok
         /\ Len(results[j]) = 0 => Len(ran[j]) < 3
         /\ Len(results[j]) > 0 => Len(ran[j]) = CommandsAfter[Len(results[j])]
    /\ ApplySucceeded(j) /\ ~Dry(j) => Len(ran[j]) >= 3 /\ ran[j][3].ok

\* The position of a worker and what it has done by then.
PhaseInv ==
  \A j \in Jobs :
    /\ pc[j] \notin Started \union {"catch", "gone"} =>
         results[j] = <<>> /\ ran[j] = <<>> /\ trace[j] = <<>>
    /\ pc[j] = "checkpoint" => Len(results[j]) > 0
    /\ pc[j] \in {"promote", "rollback", "final"} => Len(results[j]) = 5
    /\ pc[j] \in {"refuse", "mark"} => request[j].kind = "execute"
    /\ pc[j] \in Started \union {"mark"} /\ ~Dry(j) => setting.executable
    /\ pc[j] = "begin" /\ ~Dry(j) => setting.executable
    /\ pc[j] = "promote" => request[j].kind = "execute" /\ ~Failed(j)
    /\ pc[j] = "rollback" => request[j].kind = "execute" /\ Failed(j)
    /\ request[j].kind = "environment" => pc[j] \in {"absent", "gone"}
    /\ pc[j] \notin {"final", "gone", "catch"} => hooks[j] = 0
    /\ hooks[j] <= 1
    /\ hooks[j] = 1 => ~Dry(j) /\ Failed(j) /\ ApplySucceeded(j)

\* The record of a job, by the position of its worker.
RecordInv ==
  \A j \in Jobs :
    /\ pc[j] = "absent" <=> status[j] = "absent"
    /\ pc[j] \in {"prepare", "record", "refuse", "mark"} =>
         status[j] = IF Dry(j) THEN "DryRun" ELSE "Queued"
    /\ pc[j] = "begin" => status[j] = IF Dry(j) THEN "DryRun" ELSE "Running"
    /\ pc[j] \in Started => status[j] = "Running"
    /\ status[j] = "Success" => ~Failed(j) /\ request[j].kind = "execute"
    /\ status[j] = "DryRun" => Dry(j)
    /\ status[j] # "absent" => tenant[request[j].tenant] # "absent"
    /\ request[j].kind = "environment" /\ status[j] = "absent" =>
         tenant[request[j].tenant] = "absent"

\* Tenants, and jobs that lost their worker.
EffectInv ==
  /\ \A t \in Tenants :
       tenant[t] = "Active" =>
         \E j \in Jobs : /\ request[j] = [kind |-> "execute", tenant |-> t]
                         /\ Len(results[j]) = 5
                         /\ ~Failed(j)
  /\ \A j \in Jobs :
       /\ /\ setting.backend = "file"
          /\ \/ status[j] = "Success"
             \/ pc[j] = "final" /\ ~Dry(j) /\ ~Failed(j)
          => tenant[request[j].tenant] = "Active"
       /\ pc[j] = "catch" => faults > 0
       /\ Unsettled(j) /\ pc[j] = "gone" => crashes > 0 \/ faults > 1

IInv == TypeOK /\ ResultsInv /\ CommandsInv /\ PhaseInv /\ RecordInv /\ EffectInv

----------------------------------------------------------------------------
LEMMA InitIInv == Init => IInv
<1> SUFFICES ASSUME Init PROVE IInv
  OBVIOUS
<1>1. TypeOK
  <2>1. \A j \in Jobs : Len(results[j]) = 0
    BY DEF Init
  <2>2. tenant \in [Tenants -> {"absent", "Provisioning", "Active"}]
    BY DEF Init
  <2> QED
    BY <2>1, <2>2 DEF Init, TypeOK, Statuses, PCs, Phases
<1>2. ResultsInv
  BY DEF Init, ResultsInv, Clean, Failed, Previous
<1>3. CommandsInv
  BY DEF Init, CommandsInv, ApplySucceeded
<1>4. PhaseInv
  BY DEF Init, PhaseInv, Started
<1>5. RecordInv
  BY DEF Init, RecordInv, Started, AllWorkloads
<1>6. EffectInv
  BY DEF Init, EffectInv, Unsettled, StageOf
<1> QED
  BY <1>1, <1>2, <1>3, <1>4, <1>5, <1>6 DEF IInv

----------------------------------------------------------------------------
(* Types.                                                                  *)

LEMMA PhaseTypes ==
  /\ Len(Phases) = 5
  /\ \A p : PhaseCommands(p) \subseteq 1..5
  /\ Commands \in [1..5 -> CommandNames]
BY DEF Phases, PhaseCommands, Commands, CommandNames

\* A phase result that is reported from the phase position keeps the types.
LEMMA EndPhaseTypes ==
  ASSUME TypeOK, NEW j \in Jobs, pc[j] = "phase", NEW r \in Results, EndPhase(j, r)
  PROVE  /\ results' \in [Jobs -> Seq(Results)]
         /\ pc' \in [Jobs -> PCs]
         /\ \A i \in Jobs : /\ Len(results'[i]) <= Len(Phases)
                            /\ pc'[i] = "phase" => Len(results'[i]) < Len(Phases)
<1>1. results[j] \in Seq(Results) /\ Len(results[j]) < 5
  BY PhaseTypes DEF TypeOK
<1>2. /\ Append(results[j], r) \in Seq(Results)
      /\ Len(Append(results[j], r)) = Len(results[j]) + 1
  BY <1>1
<1> QED
  BY <1>1, <1>2, PhaseTypes DEF TypeOK, EndPhase, Goto, PCs

LEMMA UpdateJobTypes ==
  ASSUME TypeOK, NEW j \in Jobs, NEW s \in Statuses, NEW t, t = <<>> \/ t \in Seq(Results),
         UpdateJob(j, s, t)
  PROVE  status' \in [Jobs -> Statuses] /\ trace' \in [Jobs -> Seq(Results)]
<1>1. <<>> \in Seq(Results)
  OBVIOUS
<1> QED
  BY <1>1 DEF TypeOK, UpdateJob

\* Going anywhere but to a phase keeps the types.
LEMMA GotoTypes ==
  ASSUME TypeOK, NEW j \in Jobs, NEW l \in PCs, Goto(j, l), UNCHANGED results,
         l = "phase" => Len(results[j]) < Len(Phases)
  PROVE  /\ pc' \in [Jobs -> PCs]
         /\ \A i \in Jobs : /\ Len(results'[i]) <= Len(Phases)
                            /\ pc'[i] = "phase" => Len(results'[i]) < Len(Phases)
BY DEF TypeOK, Goto

\* An error after the change: the job's record, or the tenant's, has it.
LateStores(j) ==
  \/ /\ pc[j] \in {"record", "refuse", "mark", "begin", "checkpoint", "final", "catch"}
     /\ \/ pc[j] = "record" /\ UpdateJob(j, status[j], <<>>)
        \/ pc[j] \in {"refuse", "catch"} /\ UpdateJob(j, "Failed", <<>>)
        \/ pc[j] \in {"mark", "begin"} /\ UpdateJob(j, "Running", trace[j])
        \/ pc[j] = "checkpoint" /\ UpdateJob(j, status[j], results[j])
        \/ pc[j] = "final" /\ UpdateJob(j, FinalStatus(j), results[j])
     /\ tenant' = tenant
  \/ /\ pc[j] = "promote"
     /\ tenant' = [tenant EXCEPT ![request[j].tenant] = "Active"]
     /\ status' = status /\ trace' = trace

LEMMA LateFaultStores ==
  ASSUME NEW j \in Jobs, LateFault(j)
  PROVE  /\ LateStores(j)
         /\ faults' = faults + 1
         /\ Goto(j, AfterFault(j))
         /\ UNCHANGED <<setting, request, results, ran, hooks, vm, crashes>>
<1>1. CASE pc[j] = "promote"
  BY <1>1 DEF LateFault, Fault, LateStores
<1>2. CASE pc[j] # "promote"
  <2>1. Stored(j) /\ tenant' = tenant
    BY <1>2 DEF LateFault
  <2>2. pc[j] \in {"record", "refuse", "mark", "begin", "checkpoint", "final", "catch"}
    BY <1>2 DEF LateFault
  <2> QED
    BY <2>1, <2>2 DEF LateFault, Fault, LateStores, Stored
<1> QED
  BY <1>1, <1>2

\* Where a failed access leads.
LEMMA FaultLeads ==
  ASSUME NEW j \in Jobs
  PROVE  /\ AfterFault(j) \in {"catch", "gone", "final"}
         /\ AfterFault(j) \in PCs
         /\ AfterFault(j) = "gone" <=> pc[j] = "catch"
         /\ AfterFault(j) = "final" => pc[j] = "promote" /\ setting.backend = "db"
BY DEF AfterFault, PCs

LEMMA StepTypeOK ==
  ASSUME TypeOK, PhaseInv, [Next]_vars
  PROVE  TypeOK'
<1> USE DEF TypeOK, Statuses, PCs
<1>1. ASSUME NEW j \in Jobs, CreateTenant(j) PROVE TypeOK'
  BY <1>1, UpdateJobTypes, GotoTypes DEF CreateTenant
<1>2. ASSUME NEW j \in Jobs, Accept(j) PROVE TypeOK'
  BY <1>2, UpdateJobTypes, GotoTypes DEF Accept
<1>3. ASSUME NEW j \in Jobs, Prepare(j) PROVE TypeOK'
  BY <1>3, GotoTypes DEF Prepare, records
<1>4. ASSUME NEW j \in Jobs, Record(j) PROVE TypeOK'
  BY <1>4, UpdateJobTypes, GotoTypes DEF Record
<1>5. ASSUME NEW j \in Jobs, Refuse(j) PROVE TypeOK'
  BY <1>5, UpdateJobTypes, GotoTypes DEF Refuse
<1>6. ASSUME NEW j \in Jobs, MarkRunning(j) PROVE TypeOK'
  BY <1>6, UpdateJobTypes, GotoTypes DEF MarkRunning
<1>7. ASSUME NEW j \in Jobs, Begin(j) PROVE TypeOK'
  <2>1. Len(results[j]) < Len(Phases)
    <3>1. results[j] = <<>>
      BY <1>7 DEF Begin, PhaseInv, Started
    <3>2. Len(<<>>) = 0
      OBVIOUS
    <3> QED
      BY <3>1, <3>2, PhaseTypes
  <2> QED
    BY <1>7, <2>1, UpdateJobTypes, GotoTypes DEF Begin
<1>8. ASSUME NEW j \in Jobs, PlanPhase(j) \/ SkipPhase(j) \/ CheckPhase(j) PROVE TypeOK'
  <2>1. PICK r \in Results : EndPhase(j, r)
    BY <1>8 DEF PlanPhase, SkipPhase, CheckPhase, Results
  <2>2. pc[j] = "phase"
    BY <1>8 DEF PlanPhase, SkipPhase, CheckPhase
  <2> QED
    BY <1>8, <2>1, <2>2, EndPhaseTypes DEF PlanPhase, SkipPhase, CheckPhase, records
<1>9. ASSUME NEW j \in Jobs, RunCommand(j) PROVE TypeOK'
  <2>1. PICK n \in Pending(j), ok \in BOOLEAN :
          /\ ran' = [ran EXCEPT ![j] = Append(@, [command |-> Commands[n], ok |-> ok])]
          /\ IF Commands[n] = "apply" THEN vm' \in Applied(j, ok) ELSE vm' = vm
          /\ IF ok /\ Pending(j) # {n}
             THEN UNCHANGED <<results, pc>>
             ELSE EndPhase(j, IF ok THEN "success" ELSE "failed")
    BY <1>9 DEF RunCommand
  <2>2. Commands[n] \in CommandNames
    BY PhaseTypes DEF Pending
  <2>3. ran' \in [Jobs -> Seq([command : CommandNames, ok : BOOLEAN])]
    <3>1. [command |-> Commands[n], ok |-> ok] \in [command : CommandNames, ok : BOOLEAN]
      BY <2>2
    <3>2. Append(ran[j], [command |-> Commands[n], ok |-> ok])
            \in Seq([command : CommandNames, ok : BOOLEAN])
      <4>1. ran[j] \in Seq([command : CommandNames, ok : BOOLEAN])
        OBVIOUS
      <4> QED
        BY <3>1, <4>1, AppendProperties
    <3> QED
      BY <2>1, <3>2
  <2>4. vm' \in Tenants \union {NoTenant}
    BY <2>1 DEF Applied, AllWorkloads
  <2>5. /\ results' \in [Jobs -> Seq(Results)]
        /\ pc' \in [Jobs -> PCs]
        /\ \A i \in Jobs : /\ Len(results'[i]) <= Len(Phases)
                           /\ pc'[i] = "phase" => Len(results'[i]) < Len(Phases)
    <3>1. CASE UNCHANGED <<results, pc>>
      BY <3>1
    <3>2. CASE EndPhase(j, IF ok THEN "success" ELSE "failed")
      <4>1. (IF ok THEN "success" ELSE "failed") \in Results /\ pc[j] = "phase"
        BY <1>9 DEF RunCommand, Results
      <4> QED
        BY <3>2, <4>1, EndPhaseTypes
    <3> QED
      BY <2>1, <3>1, <3>2
  <2> QED
    BY <1>9, <2>3, <2>4, <2>5 DEF RunCommand, records
<1>10. ASSUME NEW j \in Jobs, Checkpoint(j) PROVE TypeOK'
  BY <1>10, UpdateJobTypes, GotoTypes DEF Checkpoint
<1>11. ASSUME NEW j \in Jobs, Promote(j) PROVE TypeOK'
  BY <1>11, GotoTypes DEF Promote
<1>12. ASSUME NEW j \in Jobs, Rollback(j) PROVE TypeOK'
  <2>1. hooks' \in [Jobs -> Nat]
    BY <1>12 DEF Rollback
  <2> QED
    BY <1>12, <2>1, GotoTypes DEF Rollback, records
<1>13. ASSUME NEW j \in Jobs, Final(j) PROVE TypeOK'
  BY <1>13, UpdateJobTypes, GotoTypes DEF Final, FinalStatus
<1>14. ASSUME NEW j \in Jobs, Catch(j) PROVE TypeOK'
  BY <1>14, UpdateJobTypes, GotoTypes DEF Catch
<1>15. ASSUME NEW j \in Jobs, StoreFault(j) PROVE TypeOK'
  <2>1. faults' \in 0..MaxFaults
    BY <1>15 DEF StoreFault, Fault
  <2>2. AfterFault(j) \in PCs \ {"phase"}
    BY DEF AfterFault
  <2> QED
    BY <1>15, <2>1, <2>2, GotoTypes DEF StoreFault, Fault, records
<1>16. ASSUME Crash PROVE TypeOK'
  <2>1. pc' \in [Jobs -> PCs] /\ \A j \in Jobs : pc'[j] # "phase"
    BY <1>16 DEF Crash
  <2>2. crashes' \in 0..MaxCrashes
    BY <1>16 DEF Crash
  <2> QED
    BY <1>16, <2>1, <2>2 DEF Crash, records
<1>17. ASSUME UNCHANGED vars PROVE TypeOK'
  BY <1>17 DEF vars
<1>18. ASSUME NEW j \in Jobs, LateAccept(j) PROVE TypeOK'
  <2>1. faults' \in 0..MaxFaults
    BY <1>18 DEF LateAccept
  <2> QED
    BY <1>18, <2>1, UpdateJobTypes, GotoTypes DEF LateAccept
<1>19. ASSUME NEW j \in Jobs, LateFault(j) PROVE TypeOK'
  <2>1. faults' \in 0..MaxFaults
    BY <1>19 DEF LateFault, Fault
  <2>2. AfterFault(j) \in PCs \ {"phase"}
    BY DEF AfterFault
  <2>3. /\ LateStores(j)
        /\ Goto(j, AfterFault(j))
        /\ UNCHANGED <<setting, request, results, ran, hooks, vm, crashes>>
    BY <1>19, LateFaultStores
  <2>4. status' \in [Jobs -> Statuses] /\ trace' \in [Jobs -> Seq(Results)]
    BY <2>3, UpdateJobTypes DEF LateStores, FinalStatus
  <2>5. tenant' \in [Tenants -> {"absent", "Provisioning", "Active"}]
    BY <2>3 DEF LateStores
  <2> QED
    BY <2>1, <2>2, <2>3, <2>4, <2>5, GotoTypes
<1> QED
  BY <1>1, <1>2, <1>3, <1>4, <1>5, <1>6, <1>7, <1>8, <1>9, <1>10, <1>11, <1>12,
     <1>13, <1>14, <1>15, <1>16, <1>17, <1>18, <1>19 DEF Next, Step, Work

----------------------------------------------------------------------------
(* What the engine has in memory.                                          *)

\* The configuration and the requests never change.
LEMMA Unchanging ==
  ASSUME [Next]_vars
  PROVE  setting' = setting /\ request' = request
BY DEF Next, Step, Work, Fault, LateFault, LateAccept, CreateTenant, Accept, Prepare,
         Record, Refuse, MarkRunning, Begin,
       PlanPhase, SkipPhase, CheckPhase, RunCommand, Checkpoint, Promote, Rollback,
       Final, Catch, StoreFault, Crash, records, vars

\* What ends a phase with result r.
Reports(j, r) ==
  /\ pc[j] = "phase"
  /\ IF Dry(j) THEN r = "planned"
     ELSE IF Skips(j) THEN r = "skipped"
     ELSE /\ r \in {"success", "failed"}
          /\ Phase(j) = "network_config" /\ r = "success" => NetworkOk(request[j].tenant)
  /\ EndPhase(j, r)

\* Phase results change only where a phase ends.
LEMMA ResultsChange ==
  ASSUME [Next]_vars
  PROVE  results' = results \/ \E j \in Jobs, r \in Results : Reports(j, r)
<1>1. ASSUME NEW j \in Jobs, PlanPhase(j) \/ SkipPhase(j) \/ CheckPhase(j)
      PROVE  \E r \in Results : Reports(j, r)
  BY <1>1 DEF PlanPhase, SkipPhase, CheckPhase, Reports, Results
<1>2. ASSUME NEW j \in Jobs, RunCommand(j)
      PROVE  results' = results \/ \E r \in Results : Reports(j, r)
  <2>1. Phase(j) # "network_config"
    BY <1>2 DEF RunCommand, Pending, PhaseCommands
  <2>2. \/ results' = results
        \/ EndPhase(j, "success")
        \/ EndPhase(j, "failed")
    BY <1>2 DEF RunCommand
  <2> QED
    BY <1>2, <2>1, <2>2 DEF RunCommand, Reports, Results
<1> QED
  BY <1>1, <1>2
     DEF Next, Step, Work, Fault, LateFault, LateAccept, CreateTenant, Accept, Prepare,
         Record, Refuse, MarkRunning, Begin,
         Checkpoint, Promote, Rollback, Final, Catch, StoreFault, Crash, vars

\* The results of a job after a phase of it has ended.
LEMMA ReportResults ==
  ASSUME TypeOK, NEW j \in Jobs, NEW r \in Results, Reports(j, r)
  PROVE  /\ results'[j] \in Seq(Results)
         /\ Len(results'[j]) = Len(results[j]) + 1
         /\ \A k \in 1..Len(results[j]) : results'[j][k] = results[j][k]
         /\ results'[j][Len(results[j]) + 1] = r
         /\ results'[j] # <<>>
         /\ \A i \in Jobs \ {j} : results'[i] = results[i]
<1>1. results[j] \in Seq(Results) /\ results'[j] = Append(results[j], r)
  BY DEF TypeOK, Reports, EndPhase
<1>2. \A i \in Jobs \ {j} : results'[i] = results[i]
  BY DEF TypeOK, Reports, EndPhase
<1> QED
  BY <1>1, <1>2, AppendProperties

LEMMA LenFacts ==
  ASSUME TypeOK, NEW j \in Jobs
  PROVE  /\ Len(results[j]) \in 0..5
         /\ results[j] = <<>> <=> Len(results[j]) = 0
         /\ Len(ran[j]) \in Nat
         /\ ran[j] = <<>> <=> Len(ran[j]) = 0
<1>1. results[j] \in Seq(Results) /\ Len(results[j]) <= 5
  BY PhaseTypes DEF TypeOK
<1>2. ran[j] \in Seq([command : CommandNames, ok : BOOLEAN])
  BY DEF TypeOK
<1>3. results[j] = <<>> <=> Len(results[j]) = 0
  BY <1>1, EmptySeq
<1>4. ran[j] = <<>> <=> Len(ran[j]) = 0
  BY <1>2, EmptySeq
<1>5. Len(results[j]) \in Nat /\ Len(ran[j]) \in Nat
  BY <1>1, <1>2, LenProperties
<1>6. \A n \in Nat : n <= 5 => n \in 0..5
  OBVIOUS
<1> QED
  BY <1>1, <1>3, <1>4, <1>5, <1>6, Zenon

LEMMA NotSkipping ==
  ASSUME TypeOK, ResultsInv, NEW j \in Jobs, ~Dry(j), ~Skips(j)
  PROVE  Clean(j)
<1> DEFINE n == Len(results[j])
<1>1. n \in 0..5 /\ (results[j] = <<>> <=> n = 0)
  BY LenFacts
<1>2. CASE n = 0
  BY <1>2 DEF Clean
<1>3. CASE n > 0
  <2>1. Previous(j) = results[j][n]
    BY <1>1, <1>3 DEF Previous
  <2>2. results[j][n] \in Results /\ results[j][n] # "planned"
    BY <1>1, <1>3 DEF TypeOK, ResultsInv
  <2> QED
    BY <2>1, <2>2 DEF Skips, ResultsInv, Results
<1> QED
  BY <1>1, <1>2, <1>3

LEMMA StepResultsInv ==
  ASSUME TypeOK, ResultsInv, [Next]_vars
  PROVE  ResultsInv'
<1>1. CASE results' = results
  BY <1>1, Unchanging DEF ResultsInv, Dry, Previous, Clean, Failed
<1>2. ASSUME NEW j \in Jobs, NEW r \in Results, Reports(j, r) PROVE ResultsInv'
  <2> DEFINE n == Len(results[j])
  <2>1. n \in 0..5 /\ (results[j] = <<>> <=> n = 0)
    BY LenFacts
  <2>2. /\ Len(results'[j]) = n + 1
        /\ \A k \in 1..n : results'[j][k] = results[j][k]
        /\ results'[j][n + 1] = r
        /\ results'[j] # <<>>
        /\ \A i \in Jobs \ {j} : results'[i] = results[i]
    BY <1>2, ReportResults
  <2> HIDE DEF n
  <2>3. ASSUME NEW i \in Jobs, i # j
        PROVE  /\ Dry(i)' <=> Dry(i)
               /\ Clean(i)' <=> Clean(i)
               /\ Failed(i)' <=> Failed(i)
               /\ Previous(i)' = Previous(i)
    BY <2>2, <2>3, Unchanging DEF Dry, Clean, Failed, Previous
  <2>4. Previous(j)' = r
    BY <2>1, <2>2 DEF Previous
  <2>5. CASE Dry(j)
    <3>1. r = "planned"
      BY <1>2, <2>5 DEF Reports
    <3>2. \A k \in 1..(n + 1) : results'[j][k] = "planned"
      BY <2>1, <2>2, <2>5, <3>1 DEF ResultsInv, n
    <3>3. Len(results'[j]) > 1 => results'[j][2] # "success"
      BY <2>1, <2>2, <3>2
    <3> QED
      BY <2>2, <2>3, <2>5, <3>2, <3>3, Unchanging DEF ResultsInv, Dry, NetworkOk
  <2>6. CASE ~Dry(j) /\ Skips(j)
    <3>1. r = "skipped"
      BY <1>2, <2>6 DEF Reports
    <3>2. n > 0 /\ results[j][n] \in {"failed", "skipped"}
      BY <2>1, <2>6 DEF Skips, Previous, n
    <3>3. Failed(j)
      BY <2>1, <2>6, <3>2 DEF ResultsInv, Clean, n
    <3>4. Failed(j)'
      BY <2>1, <2>2, <3>3 DEF Failed, n
    <3>5. \A k \in 1..(n + 1) : results'[j][k] # "planned"
      BY <2>1, <2>2, <2>6, <3>1 DEF ResultsInv, n
    <3>6. Len(results'[j]) > 1 /\ results'[j][2] = "success" => NetworkOk(request[j].tenant)
      BY <2>1, <2>2, <3>1 DEF ResultsInv, n
    <3> QED
      BY <2>2, <2>3, <2>4, <2>6, <3>1, <3>4, <3>5, <3>6, Unchanging
         DEF ResultsInv, Dry, NetworkOk
  <2>7. CASE ~Dry(j) /\ ~Skips(j)
    <3>1. r \in {"success", "failed"}
      BY <1>2, <2>7 DEF Reports
    <3>2. Clean(j)
      BY <2>7, NotSkipping
    <3>3. r = "success" => Clean(j)'
      BY <2>1, <2>2, <3>2 DEF Clean, n
    <3>4. r = "failed" => Failed(j)'
      BY <2>1, <2>2 DEF Failed
    <3>5. \A k \in 1..(n + 1) : results'[j][k] # "planned"
      BY <2>1, <2>2, <2>7, <3>1 DEF ResultsInv, n
    <3>6. Len(results'[j]) > 1 /\ results'[j][2] = "success" => NetworkOk(request[j].tenant)
      <4>1. n = 1 => Phase(j) = "network_config"
        BY DEF Phase, Phases, n
      <4>2. CASE n = 1
        BY <1>2, <2>2, <2>7, <4>1, <4>2 DEF Reports
      <4>3. CASE n > 1
        BY <2>1, <2>2, <4>3 DEF ResultsInv, n
      <4> QED
        BY <2>1, <2>2, <4>2, <4>3
    <3> QED
      BY <2>2, <2>3, <2>4, <2>7, <3>1, <3>3, <3>4, <3>5, <3>6, Unchanging
         DEF ResultsInv, Dry, NetworkOk
  <2> QED
    BY <2>5, <2>6, <2>7
<1> QED
  BY <1>1, <1>2, ResultsChange

\* The command a phase runs next is the one after those that have run.
LEMMA NextCommand ==
  ASSUME TypeOK, ResultsInv, CommandsInv, NEW j \in Jobs, pc[j] = "phase",
         request[j].kind = "execute", ~Skips(j),
         NEW n \in Pending(j), \A m \in Pending(j) : n <= m
  PROVE  /\ Clean(j)
         /\ n = Len(ran[j]) + 1
         /\ \/ Len(results[j]) = 0 /\ n \in 1..3 /\ (Pending(j) = {n} <=> n = 3)
            \/ Len(results[j]) = 2 /\ n = 4 /\ Pending(j) = {n}
            \/ Len(results[j]) = 3 /\ n = 5 /\ Pending(j) = {n}
<1> DEFINE L == Len(results[j])
           C == Len(ran[j])
<1>1. Clean(j)
  BY NotSkipping DEF Dry
<1>2. L \in 0..4 /\ C \in Nat
  <2>1. L \in 0..5 /\ L < 5
    BY LenFacts, PhaseTypes DEF TypeOK
  <2>2. C \in Nat
    BY LenFacts
  <2>3. \A k \in 0..5 : k < 5 => k \in 0..4
    OBVIOUS
  <2> QED
    BY <2>1, <2>2, <2>3, Zenon
<1>3. /\ L = 0 => C < 3
      /\ L = 1 => C = 3
      /\ L = 2 => C = 3
      /\ L = 3 => C = 4
      /\ L = 4 => C = 5
  <2>1. /\ L = 0 => C < 3
        /\ L > 0 => C = CommandsAfter[L]
    BY <1>1 DEF CommandsInv
  <2> HIDE DEF L, C
  <2> QED
    BY <1>2, <2>1 DEF CommandsAfter
<1>4. /\ L = 0 => PhaseCommands(Phase(j)) = 1..3
      /\ L = 1 => PhaseCommands(Phase(j)) = {}
      /\ L = 2 => PhaseCommands(Phase(j)) = {4}
      /\ L = 3 => PhaseCommands(Phase(j)) = {5}
      /\ L = 4 => PhaseCommands(Phase(j)) = {}
  <2>1. /\ L = 0 => Phase(j) = "vm_create"
        /\ L = 1 => Phase(j) = "network_config"
        /\ L = 2 => Phase(j) = "os_bootstrap"
        /\ L = 3 => Phase(j) = "app_deploy"
        /\ L = 4 => Phase(j) = "health_verify"
    <3>1. Phase(j) = Phases[L + 1]
      BY DEF Phase
    <3> HIDE DEF L
    <3> QED
      BY <3>1 DEF Phases
  <2> QED
    BY <2>1 DEF PhaseCommands
<1>5. \A k \in 1..C : ran[j][k].command = Commands[k]
  BY DEF CommandsInv
<1>6. \A k, m \in 1..5 : Commands[k] = Commands[m] => k = m
  BY DEF Commands
<1> HIDE DEF L, C
<1>7. CASE L = 0
  <2>1. Pending(j) = {m \in 1..3 : m > C}
    BY <1>2, <1>3, <1>4, <1>5, <1>6, <1>7 DEF Pending, C
  <2>2. C + 1 \in Pending(j)
    BY <1>2, <1>3, <1>7, <2>1
  <2>3. n = C + 1
    BY <1>2, <2>1, <2>2
  <2>4. Pending(j) = {n} <=> n = 3
    BY <1>2, <1>3, <1>7, <2>1, <2>3
  <2> QED
    BY <1>1, <1>2, <1>3, <1>7, <2>3, <2>4 DEF L, C
<1>8. CASE L = 2
  <2>1. n = 4 /\ Pending(j) = {n}
    BY <1>4, <1>8 DEF Pending
  <2>2. n = C + 1
    BY <1>3, <1>8, <2>1
  <2>3. Len(results[j]) = 2 /\ n = 4 /\ Pending(j) = {n} /\ n = Len(ran[j]) + 1
    BY <1>8, <2>1, <2>2 DEF L, C
  <2> QED
    BY <1>1, <2>3, Zenon
<1>9. CASE L = 3
  <2>1. n = 5 /\ Pending(j) = {n}
    BY <1>4, <1>9 DEF Pending
  <2>2. n = C + 1
    BY <1>3, <1>9, <2>1
  <2>3. Len(results[j]) = 3 /\ n = 5 /\ Pending(j) = {n} /\ n = Len(ran[j]) + 1
    BY <1>9, <2>1, <2>2 DEF L, C
  <2> QED
    BY <1>1, <2>3, Zenon
<1>10. L \notin {1, 4}
  BY <1>4 DEF Pending
<1> QED
  BY <1>2, <1>7, <1>8, <1>9, <1>10

\* The commands of a job after one more has run.
LEMMA RunRan ==
  ASSUME TypeOK, NEW j \in Jobs, NEW n \in 1..5, NEW ok \in BOOLEAN,
         ran' = [ran EXCEPT ![j] = Append(@, [command |-> Commands[n], ok |-> ok])]
  PROVE  /\ Len(ran'[j]) = Len(ran[j]) + 1
         /\ \A k \in 1..Len(ran[j]) : ran'[j][k] = ran[j][k]
         /\ ran'[j][Len(ran[j]) + 1] = [command |-> Commands[n], ok |-> ok]
         /\ ran'[j] # <<>>
         /\ \A i \in Jobs \ {j} : ran'[i] = ran[i]
<1>1. ran[j] \in Seq([command : CommandNames, ok : BOOLEAN])
  BY DEF TypeOK
<1>2. [command |-> Commands[n], ok |-> ok] \in [command : CommandNames, ok : BOOLEAN]
  BY PhaseTypes
<1>3. ran'[j] = Append(ran[j], [command |-> Commands[n], ok |-> ok])
  BY DEF TypeOK
<1>4. \A i \in Jobs \ {j} : ran'[i] = ran[i]
  BY DEF TypeOK
<1> QED
  BY <1>1, <1>2, <1>3, <1>4, AppendProperties

\* Commands only run from the phase position of an execution.
LEMMA RanChange ==
  ASSUME [Next]_vars
  PROVE  ran' = ran \/ \E j \in Jobs : RunCommand(j)
BY DEF Next, Step, Work, Fault, LateFault, LateAccept, CreateTenant, Accept, Prepare,
         Record, Refuse, MarkRunning, Begin,
       PlanPhase, SkipPhase, CheckPhase, Checkpoint, Promote, Rollback,
       Final, Catch, StoreFault, Crash, vars

\* CommandsInv for one job.
CommandsOk(j) ==
  /\ ran[j] # <<>> => request[j].kind = "execute" /\ setting.executable
  /\ Len(ran[j]) <= 5
  /\ \A k \in 1..Len(ran[j]) : /\ ran[j][k].command = Commands[k]
                               /\ k < Len(ran[j]) => ran[j][k].ok
  /\ request[j].kind = "execute" /\ Clean(j) =>
       /\ \A k \in 1..Len(ran[j]) : ran[j][k].ok
       /\ Len(results[j]) = 0 => Len(ran[j]) < 3
       /\ Len(results[j]) > 0 => Len(ran[j]) = CommandsAfter[Len(results[j])]
  /\ ApplySucceeded(j) /\ ~Dry(j) => Len(ran[j]) >= 3 /\ ran[j][3].ok

LEMMA CommandsByJob == CommandsInv <=> \A j \in Jobs : CommandsOk(j)
BY DEF CommandsInv, CommandsOk

LEMMA CommandsFrame ==
  ASSUME NEW i \in Jobs, CommandsOk(i), ran'[i] = ran[i], results'[i] = results[i],
         setting' = setting, request' = request
  PROVE  CommandsOk(i)'
BY DEF CommandsOk, Clean, ApplySucceeded, Dry

LEMMA RequestTypes ==
  ASSUME TypeOK, NEW j \in Jobs
  PROVE  request[j].kind \in RequestKinds /\ request[j].tenant \in Tenants
<1>1. request \in [Jobs -> [kind : RequestKinds, tenant : Tenants]]
  BY DEF TypeOK, AllWorkloads
<1>2. request[j] \in [kind : RequestKinds, tenant : Tenants]
  BY <1>1
<1> QED
  BY <1>2

\* Only an execution that the configuration allows gets past the plan.
LEMMA Executing ==
  ASSUME TypeOK, PhaseInv, NEW j \in Jobs, pc[j] \in Started, ~Dry(j)
  PROVE  request[j].kind = "execute" /\ setting.executable
<1>1. request[j].kind \in RequestKinds /\ request[j].kind # "dry"
  BY RequestTypes DEF Dry
<1>2. request[j].kind # "environment" /\ setting.executable
  BY DEF PhaseInv, Started
<1> QED
  BY <1>1, <1>2 DEF RequestKinds

\* A phase that ends without a command.
LEMMA SilentCommandsOk ==
  ASSUME TypeOK, ResultsInv, CommandsInv, PhaseInv, NEW j \in Jobs,
         setting' = setting, request' = request, ran' = ran,
         PlanPhase(j) \/ SkipPhase(j) \/ CheckPhase(j)
  PROVE  CommandsOk(j)'
<1> DEFINE L == Len(results[j])
<1>1. PICK r \in Results : EndPhase(j, r) /\ Reports(j, r)
  BY DEF PlanPhase, SkipPhase, CheckPhase, Reports, Results
<1>2. CommandsOk(j) /\ L \in 0..4
  <2>1. L \in 0..5 /\ L < 5
    BY <1>1, LenFacts, PhaseTypes DEF TypeOK, Reports
  <2>2. \A k \in 0..5 : k < 5 => k \in 0..4
    OBVIOUS
  <2> QED
    BY <2>1, <2>2, CommandsByJob, Zenon
<1>3. /\ Len(results'[j]) = L + 1
      /\ \A k \in 1..L : results'[j][k] = results[j][k]
      /\ results'[j][L + 1] = r
      /\ results'[j] # <<>>
  BY <1>1, ReportResults
<1>4. L > 0 => results[j] # <<>> /\ results'[j][1] = results[j][1]
  BY <1>2, <1>3, LenFacts
<1> HIDE DEF L
<1>5. CASE PlanPhase(j)
  BY <1>2, <1>5 DEF CommandsOk, PlanPhase, Dry
<1>6. CASE SkipPhase(j)
  <2>1. r = "skipped" /\ L > 0
    BY <1>1, <1>2, <1>6, LenFacts DEF SkipPhase, Reports, Skips, Previous, L
  <2>2. ~Clean(j)'
    BY <1>2, <1>3, <2>1 DEF Clean
  <2>3. ApplySucceeded(j)' => ApplySucceeded(j)
    BY <1>4, <2>1 DEF ApplySucceeded
  <2> QED
    BY <1>2, <2>2, <2>3 DEF CommandsOk, Dry
<1>7. CASE CheckPhase(j)
  <2>1. Clean(j) /\ request[j].kind = "execute"
    <3>1. ~Dry(j) /\ ~Skips(j) /\ pc[j] \in Started
      BY <1>7 DEF CheckPhase, Started
    <3> QED
      BY <3>1, NotSkipping, Executing, Zenon
  <2>2. L \in {1, 4}
    <3>1. Phase(j) = Phases[L + 1]
      BY DEF Phase, L
    <3> QED
      BY <1>2, <1>7, <3>1 DEF CheckPhase, PhaseCommands, Phases
  <2>3. Len(ran[j]) = CommandsAfter[L + 1]
    <3>1. /\ L = 0 => Len(ran[j]) < 3
          /\ L > 0 => Len(ran[j]) = CommandsAfter[L]
      BY <1>2, <2>1 DEF CommandsOk, L
    <3>2. CASE L = 1
      BY <3>1, <3>2 DEF CommandsAfter
    <3>3. CASE L = 4
      BY <3>1, <3>3 DEF CommandsAfter
    <3> QED
      BY <2>2, <3>2, <3>3
  <2>4. ApplySucceeded(j)' => ApplySucceeded(j)
    BY <1>4, <2>2 DEF ApplySucceeded
  <2>5. \A k \in 1..Len(ran[j]) : ran[j][k].ok
    BY <1>2, <2>1 DEF CommandsOk
  <2> QED
    BY <1>2, <1>3, <2>2, <2>3, <2>4, <2>5 DEF CommandsOk, Dry
<1> QED
  BY <1>5, <1>6, <1>7

LEMMA RunCommandsOk ==
  ASSUME TypeOK, ResultsInv, CommandsInv, PhaseInv, NEW j \in Jobs,
         setting' = setting, request' = request, RunCommand(j)
  PROVE  CommandsOk(j)' /\ \A i \in Jobs \ {j} : ran'[i] = ran[i] /\ results'[i] = results[i]
<1> DEFINE L == Len(results[j])
           C == Len(ran[j])
<1>1. PICK n \in Pending(j), ok \in BOOLEAN :
        /\ \A m \in Pending(j) : n <= m
        /\ ran' = [ran EXCEPT ![j] = Append(@, [command |-> Commands[n], ok |-> ok])]
        /\ IF ok /\ Pending(j) # {n}
           THEN UNCHANGED <<results, pc>>
           ELSE EndPhase(j, IF ok THEN "success" ELSE "failed")
  BY DEF RunCommand
<1>2. /\ request[j].kind = "execute" /\ pc[j] = "phase" /\ ~Skips(j) /\ ~Dry(j)
      /\ setting.executable
  <2>1. pc[j] = "phase" /\ ~Skips(j) /\ ~Dry(j) /\ pc[j] \in Started
    BY DEF RunCommand, Started
  <2> QED
    BY <2>1, Executing, Zenon
<1>3. /\ Clean(j)
      /\ n = C + 1
      /\ \/ L = 0 /\ n \in 1..3 /\ (Pending(j) = {n} <=> n = 3)
         \/ L = 2 /\ n = 4 /\ Pending(j) = {n}
         \/ L = 3 /\ n = 5 /\ Pending(j) = {n}
  BY <1>1, <1>2, NextCommand
<1>4. n \in 1..5
  BY <1>3
<1>5. /\ Len(ran'[j]) = C + 1
      /\ \A k \in 1..C : ran'[j][k] = ran[j][k]
      /\ ran'[j][C + 1] = [command |-> Commands[n], ok |-> ok]
      /\ ran'[j] # <<>>
      /\ \A i \in Jobs \ {j} : ran'[i] = ran[i]
  BY <1>1, <1>4, RunRan
<1>6. C \in Nat /\ CommandsOk(j)
  BY LenFacts, CommandsByJob
<1>7. \A k \in 1..C : ran[j][k].command = Commands[k] /\ ran[j][k].ok
  BY <1>2, <1>3, <1>6 DEF CommandsOk
<1>8. /\ \A k \in 1..(C + 1) : ran'[j][k].command = Commands[k]
      /\ \A k \in 1..C : ran'[j][k].ok
      /\ ran'[j][C + 1].ok = ok
  <2>1. n \in 1..5 /\ [command |-> Commands[n], ok |-> ok].command = Commands[n]
        /\ [command |-> Commands[n], ok |-> ok].ok = ok
    BY <1>4
  <2>2. /\ ran'[j][C + 1].command = Commands[C + 1]
        /\ ran'[j][C + 1].ok = ok
    BY <1>3, <1>5, <2>1, Zenon
  <2>3. \A k \in 1..C : ran'[j][k].command = Commands[k] /\ ran'[j][k].ok
    BY <1>5, <1>7, Zenon
  <2>4. \A k \in 1..(C + 1) : k \in 1..C \/ k = C + 1
    BY <1>6
  <2> QED
    BY <2>2, <2>3, <2>4, Zenon
<1>9. CASE ok /\ Pending(j) # {n}
  <2>1. results' = results /\ L = 0 /\ C + 1 < 3
    BY <1>1, <1>3, <1>9
  <2>2. ~ApplySucceeded(j)'
    BY <2>1, LenFacts DEF ApplySucceeded
  <2> QED
    BY <1>2, <1>5, <1>6, <1>8, <1>9, <2>1, <2>2 DEF CommandsOk
<1>10. CASE ~(ok /\ Pending(j) # {n})
  <2> DEFINE r == IF ok THEN "success" ELSE "failed"
  <2>1. Reports(j, r) /\ r \in Results
    <3>1. Phase(j) # "network_config"
      BY <1>1 DEF Pending, PhaseCommands
    <3> QED
      BY <1>1, <1>2, <1>10, <3>1 DEF Reports, Results
  <2>2. /\ Len(results'[j]) = L + 1
        /\ \A k \in 1..L : results'[j][k] = results[j][k]
        /\ results'[j][L + 1] = r
        /\ \A i \in Jobs \ {j} : results'[i] = results[i]
    BY <2>1, ReportResults
  <2>3. L \in 0..5
    BY LenFacts
  <2>4. ok => /\ \A k \in 1..(C + 1) : ran'[j][k].ok
              /\ C + 1 = CommandsAfter[L + 1]
    <3>1. ok => C + 1 = CommandsAfter[L + 1]
      <4>1. ok => \/ L = 0 /\ C + 1 = 3
                  \/ L = 2 /\ C + 1 = 4
                  \/ L = 3 /\ C + 1 = 5
        BY <1>3, <1>10
      <4> HIDE DEF L, C
      <4> QED
        BY <4>1 DEF CommandsAfter
    <3>2. \A k \in 1..(C + 1) : k \in 1..C \/ k = C + 1
      BY <1>6
    <3>3. ok => \A k \in 1..(C + 1) : ran'[j][k].ok
      BY <1>8, <3>2, Zenon
    <3> QED
      BY <3>1, <3>3, Zenon
  <2>5. ~ok => ~Clean(j)'
    BY <2>2, <2>3 DEF Clean
  <2>6. ApplySucceeded(j)' => C + 1 >= 3 /\ ran'[j][3].ok
    <3>1. CASE L = 0
      BY <1>3, <1>8, <1>10, <2>2, <3>1 DEF ApplySucceeded
    <3>2. CASE L # 0
      BY <1>3, <1>6, <1>8, <3>2
    <3> QED
      BY <3>1, <3>2
  <2> QED
    <3>1. C + 1 <= 5
      BY <1>3
    <3>2. Len(results'[j]) > 0
      BY <2>2, <2>3
    <3> QED
      BY <1>2, <1>5, <1>6, <1>8, <2>2, <2>4, <2>5, <2>6, <3>1, <3>2 DEF CommandsOk
<1> QED
  BY <1>9, <1>10

LEMMA StepCommandsInv ==
  ASSUME TypeOK, ResultsInv, CommandsInv, PhaseInv, [Next]_vars
  PROVE  CommandsInv'
<1> SUFFICES ASSUME NEW i \in Jobs PROVE CommandsOk(i)'
  BY DEF CommandsInv, CommandsOk
<1>1. setting' = setting /\ request' = request /\ CommandsOk(i)
  BY Unchanging, CommandsByJob
<1>2. CASE ran' = ran /\ results' = results
  BY <1>1, <1>2, CommandsFrame
<1>3. ASSUME NEW j \in Jobs, PlanPhase(j) \/ SkipPhase(j) \/ CheckPhase(j)
      PROVE  CommandsOk(i)'
  <2>1. ran' = ran /\ (i # j => results'[i] = results[i])
    BY <1>3 DEF PlanPhase, SkipPhase, CheckPhase, EndPhase, TypeOK
  <2> QED
    BY <1>1, <1>3, <2>1, SilentCommandsOk, CommandsFrame
<1>4. ASSUME NEW j \in Jobs, RunCommand(j) PROVE CommandsOk(i)'
  BY <1>1, <1>4, RunCommandsOk, CommandsFrame
<1> QED
  BY <1>2, <1>3, <1>4
     DEF Next, Step, Work, Fault, LateFault, LateAccept, CreateTenant, Accept, Prepare,
         Record, Refuse, MarkRunning, Begin,
         Checkpoint, Promote, Rollback, Final, Catch, StoreFault, Crash, vars

----------------------------------------------------------------------------
(* The position of a worker.                                               *)

\* A step taken for one job leaves every other job as it was.
LEMMA OthersKept ==
  ASSUME TypeOK, NEW j \in Jobs, NEW i \in Jobs, i # j,
         Step(j)
  PROVE  /\ pc'[i] = pc[i]
         /\ results'[i] = results[i]
         /\ ran'[i] = ran[i]
         /\ hooks'[i] = hooks[i]
         /\ trace'[i] = trace[i]
         /\ status'[i] = status[i]
<1> USE DEF TypeOK, Goto, UpdateJob, EndPhase, records
<1>1. CASE CreateTenant(j) \/ Accept(j) \/ LateAccept(j) \/ StoreFault(j)
  BY <1>1 DEF CreateTenant, Accept, LateAccept, StoreFault, Fault
<1>2. CASE Prepare(j) \/ Record(j) \/ Refuse(j) \/ MarkRunning(j) \/ Begin(j)
  BY <1>2 DEF Prepare, Record, Refuse, MarkRunning, Begin
<1>3. CASE PlanPhase(j) \/ SkipPhase(j) \/ CheckPhase(j)
  BY <1>3 DEF PlanPhase, SkipPhase, CheckPhase
<1>4. CASE RunCommand(j)
  BY <1>4 DEF RunCommand
<1>5. CASE Checkpoint(j) \/ Promote(j) \/ Rollback(j) \/ Final(j) \/ Catch(j)
  BY <1>5 DEF Checkpoint, Promote, Rollback, Final, Catch
<1>6. CASE LateFault(j)
  <2>1. LateStores(j) /\ Goto(j, AfterFault(j)) /\ UNCHANGED <<results, ran, hooks>>
    BY <1>6, LateFaultStores
  <2>2. pc'[i] = pc[i] /\ results'[i] = results[i] /\ ran'[i] = ran[i] /\ hooks'[i] = hooks[i]
    BY <2>1
  <2>3. trace'[i] = trace[i] /\ status'[i] = status[i]
    BY <2>1 DEF LateStores
  <2> QED
    BY <2>2, <2>3
<1> QED
  BY <1>1, <1>2, <1>3, <1>4, <1>5, <1>6 DEF Step, Work

\* PhaseInv for one job.
PhaseOk(j) ==
  /\ pc[j] \notin Started \union {"catch", "gone"} =>
       results[j] = <<>> /\ ran[j] = <<>> /\ trace[j] = <<>>
  /\ pc[j] = "checkpoint" => Len(results[j]) > 0
  /\ pc[j] \in {"promote", "rollback", "final"} => Len(results[j]) = 5
  /\ pc[j] \in {"refuse", "mark"} => request[j].kind = "execute"
  /\ pc[j] \in Started \union {"mark"} /\ ~Dry(j) => setting.executable
  /\ pc[j] = "begin" /\ ~Dry(j) => setting.executable
  /\ pc[j] = "promote" => request[j].kind = "execute" /\ ~Failed(j)
  /\ pc[j] = "rollback" => request[j].kind = "execute" /\ Failed(j)
  /\ request[j].kind = "environment" => pc[j] \in {"absent", "gone"}
  /\ pc[j] \notin {"final", "gone", "catch"} => hooks[j] = 0
  /\ hooks[j] <= 1
  /\ hooks[j] = 1 => ~Dry(j) /\ Failed(j) /\ ApplySucceeded(j)

LEMMA PhaseByJob == PhaseInv <=> \A j \in Jobs : PhaseOk(j)
BY DEF PhaseInv, PhaseOk

LEMMA PhaseFrame ==
  ASSUME NEW i \in Jobs, PhaseOk(i), pc'[i] = pc[i], results'[i] = results[i],
         ran'[i] = ran[i], trace'[i] = trace[i], hooks'[i] = hooks[i],
         setting' = setting, request' = request
  PROVE  PhaseOk(i)'
BY DEF PhaseOk, Dry, Failed, ApplySucceeded

\* What else holds of a job besides its position and its results.
LEMMA PhaseMoves ==
  ASSUME TypeOK, NEW j \in Jobs, PhaseOk(j), setting' = setting, request' = request,
         UNCHANGED <<results, ran, hooks>>, NEW l \in PCs, Goto(j, l)
  PROVE  /\ pc'[j] = l
         /\ results'[j] = results[j] /\ ran'[j] = ran[j] /\ hooks'[j] = hooks[j]
         /\ Dry(j)' <=> Dry(j)
         /\ Failed(j)' <=> Failed(j)
         /\ ApplySucceeded(j)' <=> ApplySucceeded(j)
BY DEF TypeOK, Goto, Dry, Failed, ApplySucceeded

LEMMA OwnPhaseOk ==
  ASSUME TypeOK, PhaseInv, NEW j \in Jobs, setting' = setting, request' = request,
         Step(j),
         status[j] = "absent" <=> pc[j] = "absent"
  PROVE  PhaseOk(j)'
<1>0. PhaseOk(j) /\ request[j].kind \in RequestKinds
  BY PhaseByJob, RequestTypes
<1> USE DEF Started
<1>1. CASE CreateTenant(j)
  BY <1>0, <1>1, PhaseMoves DEF CreateTenant, PhaseOk, PCs, Dry
<1>2. CASE Accept(j)
  <2>1. trace'[j] = <<>>
    BY <1>2 DEF Accept, UpdateJob, TypeOK
  <2> QED
    BY <1>0, <1>2, <2>1, PhaseMoves DEF Accept, PhaseOk, PCs
<1>3. CASE Prepare(j)
  BY <1>0, <1>3, PhaseMoves DEF Prepare, PhaseOk, PCs, records
<1>4. CASE Record(j)
  <2>1. trace'[j] = <<>>
    BY <1>4 DEF Record, UpdateJob, TypeOK
  <2> QED
    BY <1>0, <1>4, <2>1, PhaseMoves DEF Record, PhaseOk, PCs, RequestKinds, Dry
<1>5. CASE Refuse(j) \/ Final(j) \/ Catch(j)
  BY <1>0, <1>5, PhaseMoves DEF Refuse, Final, Catch, PhaseOk, PCs
<1>6. CASE MarkRunning(j)
  <2>1. trace'[j] = trace[j]
    BY <1>6 DEF MarkRunning, UpdateJob, TypeOK
  <2> QED
    BY <1>0, <1>6, <2>1, PhaseMoves DEF MarkRunning, PhaseOk, PCs
<1>7. CASE Begin(j)
  BY <1>0, <1>7, PhaseMoves DEF Begin, PhaseOk, PCs
<1>8. CASE PlanPhase(j) \/ SkipPhase(j) \/ CheckPhase(j)
  <2>1. PICK r \in Results : EndPhase(j, r) /\ Reports(j, r)
    BY <1>8 DEF PlanPhase, SkipPhase, CheckPhase, Reports, Results
  <2>2. Len(results'[j]) > 0 /\ pc'[j] = "checkpoint" /\ hooks'[j] = hooks[j]
    BY <1>8, <2>1, ReportResults, LenFacts
       DEF EndPhase, Goto, TypeOK, PlanPhase, SkipPhase, CheckPhase
  <2> QED
    BY <1>0, <2>1, <2>2 DEF PhaseOk, Reports, Dry
<1>9. CASE RunCommand(j)
  <2>1. hooks'[j] = hooks[j] /\ pc[j] = "phase"
    BY <1>9 DEF RunCommand
  <2>2. \/ pc'[j] = "phase"
        \/ pc'[j] = "checkpoint" /\ Len(results'[j]) > 0
    <3>1. CASE UNCHANGED <<results, pc>>
      BY <2>1, <3>1
    <3>2. ASSUME NEW r \in Results, EndPhase(j, r)
          PROVE  pc'[j] = "checkpoint" /\ Len(results'[j]) > 0
      <4>1. pc'[j] = "checkpoint" /\ results'[j] = Append(results[j], r)
        BY <3>2 DEF EndPhase, Goto, TypeOK
      <4>2. Len(Append(results[j], r)) = Len(results[j]) + 1 /\ Len(results[j]) \in Nat
        BY AppendProperties, LenProperties DEF TypeOK
      <4> QED
        BY <4>1, <4>2
    <3> QED
      BY <1>9, <3>1, <3>2 DEF RunCommand, Results
  <2> QED
    BY <1>0, <2>1, <2>2 DEF PhaseOk, Dry
<1>10. CASE Checkpoint(j)
  <2>1. Len(results[j]) \in 0..5
    BY LenFacts
  <2>2. Len(results[j]) < Len(Phases) \/ Len(results[j]) = 5
    <3>1. \A k \in 0..5 : k < 5 \/ k = 5
      OBVIOUS
    <3>2. Len(Phases) = 5
      BY PhaseTypes
    <3> QED
      BY <2>1, <3>1, <3>2, Zenon
  <2> QED
    BY <1>0, <1>10, <2>2, PhaseMoves DEF Checkpoint, PhaseOk, PCs, RequestKinds, Dry
<1>11. CASE Promote(j)
  BY <1>0, <1>11, PhaseMoves DEF Promote, PhaseOk, PCs
<1>12. CASE Rollback(j)
  <2>1. /\ pc[j] = "rollback" /\ pc'[j] = "final"
        /\ hooks[j] = 0
        /\ hooks'[j] = IF ApplySucceeded(j) /\ setting.hook = "valid" THEN 1 ELSE 0
    BY <1>0, <1>12 DEF Rollback, Goto, TypeOK, PhaseOk
  <2>2. /\ ApplySucceeded(j)' <=> ApplySucceeded(j)
        /\ Failed(j)' <=> Failed(j)
        /\ Dry(j)' <=> Dry(j)
        /\ results' = results
    BY <1>12 DEF Rollback, ApplySucceeded, Failed, Dry
  <2> QED
    BY <1>0, <2>1, <2>2 DEF PhaseOk, Dry
<1>13. CASE StoreFault(j) \/ LateFault(j)
  <2>1. /\ Goto(j, AfterFault(j))
        /\ UNCHANGED <<results, ran, hooks>>
        /\ pc[j] \in {"prepare", "record", "refuse", "mark", "begin", "checkpoint",
                       "promote", "final", "catch"}
    BY <1>13, LateFaultStores DEF StoreFault, Fault, LateStores
  <2>2. request[j].kind = "environment" => pc[j] \in {"absent", "gone"}
    BY <1>0 DEF PhaseOk
  <2> QED
    BY <1>0, <2>1, <2>2, FaultLeads, PhaseMoves DEF PhaseOk, Dry
<1>14. CASE LateAccept(j)
  <2>1. trace'[j] = <<>>
    BY <1>14 DEF LateAccept, UpdateJob, TypeOK
  <2> QED
    BY <1>0, <1>14, <2>1, PhaseMoves DEF LateAccept, PhaseOk, PCs
<1> QED
  BY <1>1, <1>2, <1>3, <1>4, <1>5, <1>6, <1>7, <1>8, <1>9, <1>10, <1>11, <1>12, <1>13, <1>14
     DEF Step, Work

LEMMA StepPhaseInv ==
  ASSUME TypeOK, PhaseInv, RecordInv, [Next]_vars
  PROVE  PhaseInv'
<1> SUFFICES ASSUME NEW i \in Jobs PROVE PhaseOk(i)'
  BY DEF PhaseInv, PhaseOk
<1>1. setting' = setting /\ request' = request /\ PhaseOk(i)
  BY Unchanging, PhaseByJob
<1>2. ASSUME NEW j \in Jobs, Step(j)
      PROVE  PhaseOk(i)'
  <2>1. CASE i = j
    BY <1>1, <1>2, <2>1, OwnPhaseOk DEF RecordInv
  <2>2. CASE i # j
    BY <1>1, <1>2, <2>2, OthersKept, PhaseFrame
  <2> QED
    BY <2>1, <2>2
<1>3. CASE Crash
  <2>1. pc'[i] = IF pc[i] \in {"absent", "unasked"} THEN pc[i] ELSE "gone"
    BY <1>3 DEF Crash
  <2>2. UNCHANGED <<results, ran, hooks, trace, request, setting>>
    BY <1>3 DEF Crash, records
  <2> QED
    BY <1>1, <2>1, <2>2 DEF PhaseOk, Dry, Failed, ApplySucceeded, Started
<1>4. CASE UNCHANGED vars
  BY <1>1, <1>4, PhaseFrame DEF vars
<1> QED
  BY <1>2, <1>3, <1>4 DEF Next

----------------------------------------------------------------------------
(* The records of jobs and tenants.                                        *)

\* What a step does to the record of its job, by the position it leaves.
LEMMA RecordMoves ==
  ASSUME TypeOK, NEW j \in Jobs
  PROVE  /\ \A l : Goto(j, l) => pc'[j] = l
         /\ \A s, t : UpdateJob(j, s, t) => status'[j] = s /\ trace'[j] = t
BY DEF TypeOK, Goto, UpdateJob

\* RecordInv for one job.
RecordOk(j) ==
  /\ pc[j] = "absent" <=> status[j] = "absent"
  /\ pc[j] \in {"prepare", "record", "refuse", "mark"} =>
       status[j] = IF Dry(j) THEN "DryRun" ELSE "Queued"
  /\ pc[j] = "begin" => status[j] = IF Dry(j) THEN "DryRun" ELSE "Running"
  /\ pc[j] \in Started => status[j] = "Running"
  /\ status[j] = "Success" => ~Failed(j) /\ request[j].kind = "execute"
  /\ status[j] = "DryRun" => Dry(j)
  /\ status[j] # "absent" => tenant[request[j].tenant] # "absent"
  /\ request[j].kind = "environment" /\ status[j] = "absent" =>
       tenant[request[j].tenant] = "absent"

LEMMA RecordByJob == RecordInv <=> \A j \in Jobs : RecordOk(j)
BY DEF RecordInv, RecordOk

\* A tenant's record changes where a tenant is made, and where it is promoted.
LEMMA TenantChanges ==
  ASSUME NEW j \in Jobs, Step(j)
  PROVE  \/ CreateTenant(j)
         \/ Promote(j)
         \/ LateFault(j) /\ pc[j] = "promote"
         \/ tenant' = tenant
<1>1. LateFault(j) /\ pc[j] # "promote" => tenant' = tenant
  BY LateFaultStores DEF LateStores
<1>2. Accept(j) \/ LateAccept(j) \/ StoreFault(j) => tenant' = tenant
  BY DEF Accept, LateAccept, StoreFault, records
<1>3. Work(j) => Promote(j) \/ tenant' = tenant
  BY DEF Work, Prepare, Record, Refuse, MarkRunning, Begin, PlanPhase, SkipPhase, CheckPhase,
         RunCommand, Checkpoint, Rollback, Final, Catch, records
<1> QED
  BY <1>1, <1>2, <1>3 DEF Step

\* Tenants are made once, and stay Active once they are.
LEMMA TenantMoves ==
  ASSUME TypeOK, PhaseInv, RecordInv, NEW j \in Jobs,
         Step(j), NEW t \in Tenants
  PROVE  /\ tenant[t] # "absent" => tenant'[t] # "absent"
         /\ tenant[t] = "Active" => tenant'[t] = "Active"
         /\ tenant'[t] # tenant[t] => request[j].tenant = t
         /\ tenant'[t] # tenant[t] =>
              \/ request[j].kind = "environment" /\ status[j] = "absent" /\ status'[j] # "absent"
              \/ tenant[t] # "absent" /\ pc[j] = "promote"
<1>1. request[j].tenant \in Tenants
  BY RequestTypes
<1>2. CASE CreateTenant(j)
  <2>1. tenant' = [tenant EXCEPT ![request[j].tenant] = "Provisioning"]
        /\ request[j].kind = "environment" /\ status[j] = "absent" /\ status'[j] = "Queued"
    BY <1>2, RecordMoves DEF CreateTenant
  <2>2. tenant[request[j].tenant] = "absent"
    BY <2>1 DEF RecordInv
  <2> QED
    BY <1>1, <2>1, <2>2 DEF TypeOK
<1>3. CASE Promote(j) \/ (LateFault(j) /\ pc[j] = "promote")
  <2>1. tenant' = [tenant EXCEPT ![request[j].tenant] = "Active"] /\ pc[j] = "promote"
    BY <1>3, LateFaultStores DEF Promote, LateStores
  <2>2. tenant[request[j].tenant] # "absent"
    BY <2>1 DEF RecordInv
  <2> QED
    BY <1>1, <2>1, <2>2 DEF TypeOK
<1>4. CASE tenant' = tenant
  BY <1>4
<1>5. \/ CreateTenant(j)
      \/ Promote(j) \/ (LateFault(j) /\ pc[j] = "promote")
      \/ tenant' = tenant
  BY TenantChanges
<1> QED
  BY <1>2, <1>3, <1>4, <1>5, Zenon

\* A record stays right when the job and its worker are as they were.
LEMMA OtherRecordOk ==
  ASSUME TypeOK, PhaseInv, RecordInv, NEW j \in Jobs, NEW i \in Jobs, i # j,
         setting' = setting, request' = request,
         Step(j)
  PROVE  RecordOk(i)'
<1>1. /\ RecordOk(i)
      /\ pc'[i] = pc[i] /\ results'[i] = results[i]
      /\ trace'[i] = trace[i] /\ status'[i] = status[i]
  BY RecordByJob, OthersKept
<1>2. /\ Dry(i)' <=> Dry(i)
      /\ Failed(i)' <=> Failed(i)
  BY <1>1 DEF Dry, Failed
<1>3. request[i].tenant \in Tenants /\ request[j].tenant \in Tenants
  BY RequestTypes
<1>4. tenant[request[i].tenant] # "absent" => tenant'[request[i].tenant] # "absent"
  BY <1>3, TenantMoves
<1>5. ASSUME request[i].kind = "environment", status[i] = "absent"
      PROVE  tenant'[request[i].tenant] = "absent"
  <2>1. tenant[request[i].tenant] = "absent"
    BY <1>1, <1>5 DEF RecordOk
  <2>2. SUFFICES ASSUME tenant'[request[i].tenant] # "absent" PROVE FALSE
    OBVIOUS
  <2>3. request[j].tenant = request[i].tenant /\ request[j].kind = "environment"
    BY <1>3, <2>1, <2>2, TenantMoves
  <2>4. request[j] = request[i]
    <3>1. request \in [Jobs -> [kind : RequestKinds, tenant : Tenants]]
      BY DEF TypeOK, AllWorkloads
    <3> QED
      BY <1>5, <2>3, <3>1
  <2> QED
    BY <2>3, <2>4 DEF TypeOK, AllWorkloads
<1> QED
  BY <1>1, <1>2, <1>4, <1>5 DEF RecordOk

LEMMA OwnRecordOk ==
  ASSUME TypeOK, PhaseInv, RecordInv, NEW j \in Jobs,
         setting' = setting, request' = request,
         Step(j)
  PROVE  RecordOk(j)'
<1>1. RecordOk(j) /\ PhaseOk(j) /\ request[j].kind \in RequestKinds /\ request[j].tenant \in Tenants
  BY RecordByJob, PhaseByJob, RequestTypes
<1>2. tenant[request[j].tenant] # "absent" => tenant'[request[j].tenant] # "absent"
  BY <1>1, TenantMoves
<1>3. Dry(j)' <=> Dry(j)
  BY DEF Dry
<1>4. results' = results => (Failed(j)' <=> Failed(j))
  BY DEF Failed
<1> USE DEF Started
<1>5. CASE CreateTenant(j)
  <2>1. pc'[j] = "gone" /\ status'[j] = "Queued" /\ tenant'[request[j].tenant] = "Provisioning"
    BY <1>1, <1>5, RecordMoves DEF CreateTenant, TypeOK
  <2> QED
    BY <1>1, <1>3, <2>1 DEF RecordOk
<1>6. CASE Accept(j)
  <2>1. pc'[j] = "prepare" /\ status'[j] = IF Dry(j) THEN "DryRun" ELSE "Queued"
    BY <1>6, RecordMoves DEF Accept
  <2>2. tenant'[request[j].tenant] # "absent"
    BY <1>2, <1>6 DEF Accept
  <2> QED
    BY <1>1, <1>3, <2>1, <2>2 DEF RecordOk
<1>7. CASE Prepare(j)
  BY <1>1, <1>2, <1>3, <1>4, <1>7, RecordMoves DEF Prepare, RecordOk, records
<1>8. CASE Record(j)
  <2>1. /\ pc[j] = "record" /\ status'[j] = status[j]
        /\ pc'[j] = IF Dry(j) THEN "begin" ELSE IF setting.executable THEN "mark" ELSE "refuse"
        /\ results' = results
    BY <1>8, RecordMoves DEF Record
  <2> QED
    BY <1>1, <1>2, <1>3, <1>4, <2>1 DEF RecordOk
<1>9. CASE Refuse(j) \/ Catch(j)
  <2>1. /\ pc[j] \in {"refuse", "catch"} /\ status'[j] = "Failed" /\ pc'[j] = "gone"
        /\ results' = results
    BY <1>9, RecordMoves DEF Refuse, Catch
  <2> QED
    BY <1>1, <1>2, <1>3, <1>4, <2>1 DEF RecordOk
<1>10. CASE MarkRunning(j)
  <2>1. /\ pc[j] = "mark" /\ status'[j] = "Running" /\ pc'[j] = "begin" /\ results' = results
    BY <1>10, RecordMoves DEF MarkRunning
  <2> QED
    BY <1>1, <1>2, <1>3, <1>4, <2>1 DEF RecordOk, PhaseOk, Dry
<1>11. CASE Begin(j)
  <2>1. /\ pc[j] = "begin" /\ status'[j] = "Running" /\ pc'[j] = "phase" /\ results' = results
    BY <1>11, RecordMoves DEF Begin
  <2> QED
    BY <1>1, <1>2, <1>3, <1>4, <2>1 DEF RecordOk
<1>12. CASE PlanPhase(j) \/ SkipPhase(j) \/ CheckPhase(j) \/ RunCommand(j)
  <2>1. pc[j] = "phase" /\ status'[j] = status[j] /\ pc'[j] \in {"phase", "checkpoint"}
    BY <1>1, <1>12, RecordMoves
       DEF PlanPhase, SkipPhase, CheckPhase, RunCommand, EndPhase, records
  <2> QED
    BY <1>1, <1>2, <1>3, <2>1 DEF RecordOk
<1>13. CASE Checkpoint(j)
  <2>1. /\ pc[j] = "checkpoint" /\ status'[j] = status[j] /\ results' = results
        /\ pc'[j] \in {"phase", "final", "rollback", "promote"}
    BY <1>13, RecordMoves DEF Checkpoint
  <2> QED
    BY <1>1, <1>2, <1>3, <1>4, <2>1 DEF RecordOk
<1>14. CASE Promote(j) \/ Rollback(j)
  <2>1. /\ pc[j] \in {"promote", "rollback"} /\ status'[j] = status[j] /\ results' = results
        /\ pc'[j] = "final"
    BY <1>14, RecordMoves DEF Promote, Rollback, records
  <2> QED
    BY <1>1, <1>2, <1>3, <1>4, <2>1 DEF RecordOk
<1>15. CASE Final(j)
  <2>1. /\ pc[j] = "final" /\ status'[j] = FinalStatus(j) /\ results' = results
        /\ pc'[j] = "gone"
    BY <1>15, RecordMoves DEF Final
  <2>2. ~Dry(j) => request[j].kind = "execute"
    BY <1>1, <2>1 DEF PhaseOk, RequestKinds, Dry
  <2> QED
    BY <1>1, <1>2, <1>3, <1>4, <2>1, <2>2 DEF RecordOk, FinalStatus
<1>16. CASE StoreFault(j)
  <2>1. /\ pc[j] \in {"prepare", "record", "refuse", "mark", "begin", "checkpoint",
                      "promote", "final", "catch"}
        /\ status'[j] = status[j] /\ trace'[j] = trace[j] /\ results' = results
        /\ pc'[j] = AfterFault(j)
    BY <1>16, RecordMoves DEF StoreFault, Fault, records
  <2> QED
    BY <1>1, <1>2, <1>3, <1>4, <2>1, FaultLeads DEF RecordOk
<1>17. CASE LateAccept(j)
  <2>1. pc'[j] = "unasked" /\ status'[j] = IF Dry(j) THEN "DryRun" ELSE "Queued"
    BY <1>17, RecordMoves DEF LateAccept
  <2>2. tenant'[request[j].tenant] # "absent"
    BY <1>2, <1>17 DEF LateAccept
  <2> QED
    BY <1>1, <1>3, <2>1, <2>2 DEF RecordOk
<1>18. CASE LateFault(j)
  <2>1. LateStores(j) /\ pc'[j] = AfterFault(j) /\ results' = results
    BY <1>18, LateFaultStores, RecordMoves
  <2>2. pc[j] # "absent" /\ status[j] # "absent"
    BY <1>1, <2>1 DEF LateStores, RecordOk
  <2>3. status'[j] \in {status[j], "Failed", "Running", FinalStatus(j)}
    BY <2>1, RecordMoves DEF LateStores
  <2>4. AfterFault(j) = "final" => status'[j] = "Running"
    BY <1>1, <2>1, FaultLeads DEF LateStores, RecordOk
  <2>5. status'[j] = FinalStatus(j) /\ status'[j] \notin {status[j], "Failed", "Running"}
          => pc[j] = "final"
    BY <2>1, RecordMoves DEF LateStores
  <2>6. ~Dry(j) /\ pc[j] = "final" => request[j].kind = "execute"
    BY <1>1 DEF PhaseOk, RequestKinds, Dry
  <2>7. status'[j] = "Success" => ~Failed(j) /\ request[j].kind = "execute"
    BY <1>1, <2>3, <2>5, <2>6 DEF RecordOk, FinalStatus
  <2>8. status'[j] = "DryRun" => Dry(j)
    BY <1>1, <2>3, <2>5 DEF RecordOk, FinalStatus
  <2>9. status'[j] # "absent"
    BY <2>2, <2>3 DEF FinalStatus
  <2>10. tenant'[request[j].tenant] # "absent"
    BY <1>1, <1>2, <2>2 DEF RecordOk
  <2>11. pc'[j] \in {"catch", "gone", "final"}
    BY <2>1, FaultLeads
  <2> QED
    BY <1>3, <1>4, <2>1, <2>4, <2>7, <2>8, <2>9, <2>10, <2>11 DEF RecordOk
<1> QED
  BY <1>5, <1>6, <1>7, <1>8, <1>9, <1>10, <1>11, <1>12, <1>13, <1>14, <1>15, <1>16, <1>17, <1>18
     DEF Step, Work

LEMMA StepRecordInv ==
  ASSUME TypeOK, PhaseInv, RecordInv, [Next]_vars
  PROVE  RecordInv'
<1> SUFFICES ASSUME NEW i \in Jobs PROVE RecordOk(i)'
  BY DEF RecordInv, RecordOk
<1>1. setting' = setting /\ request' = request /\ RecordOk(i)
  BY Unchanging, RecordByJob
<1>2. ASSUME NEW j \in Jobs, Step(j)
      PROVE  RecordOk(i)'
  <2>1. CASE i = j
    BY <1>1, <1>2, <2>1, OwnRecordOk
  <2>2. CASE i # j
    BY <1>1, <1>2, <2>2, OtherRecordOk
  <2> QED
    BY <2>1, <2>2
<1>3. CASE Crash
  <2>1. pc'[i] = IF pc[i] \in {"absent", "unasked"} THEN pc[i] ELSE "gone"
    BY <1>3 DEF Crash
  <2>2. UNCHANGED <<results, status, trace, tenant, request>>
    BY <1>3 DEF Crash, records
  <2> QED
    BY <1>1, <2>1, <2>2 DEF RecordOk, Dry, Failed, Started
<1>4. CASE UNCHANGED vars
  BY <1>1, <1>4 DEF vars, RecordOk, Dry, Failed
<1> QED
  BY <1>2, <1>3, <1>4 DEF Next

----------------------------------------------------------------------------
(* Active tenants, and jobs that lost their worker.                        *)

\* EffectInv for one job, and for one tenant.
EffectOk(j) ==
  /\ /\ setting.backend = "file"
     /\ \/ status[j] = "Success"
        \/ pc[j] = "final" /\ ~Dry(j) /\ ~Failed(j)
     => tenant[request[j].tenant] = "Active"
  /\ pc[j] = "catch" => faults > 0
  /\ Unsettled(j) /\ pc[j] = "gone" => crashes > 0 \/ faults > 1

Provisions(j, t) ==
  /\ request[j] = [kind |-> "execute", tenant |-> t]
  /\ Len(results[j]) = 5
  /\ ~Failed(j)

ActiveOk(t) == tenant[t] = "Active" => \E j \in Jobs : Provisions(j, t)

LEMMA EffectParts ==
  EffectInv <=> (\A t \in Tenants : ActiveOk(t)) /\ (\A j \in Jobs : EffectOk(j))
BY DEF EffectInv, EffectOk, ActiveOk, Provisions

\* A job with five results keeps them.
LEMMA ProvisionsKept ==
  ASSUME TypeOK, [Next]_vars, NEW j \in Jobs, NEW t \in Tenants, Provisions(j, t)
  PROVE  Provisions(j, t)'
<1>1. request' = request
  BY Unchanging
<1>2. results'[j] = results[j]
  <2>1. CASE results' = results
    BY <2>1
  <2>2. ASSUME NEW i \in Jobs, NEW r \in Results, Reports(i, r)
        PROVE  results'[j] = results[j]
    <3>1. Len(results[i]) < 5
      BY <2>2, PhaseTypes DEF TypeOK, Reports
    <3>2. Len(results[i]) # 5
      <4>1. Len(results[i]) \in 0..5
        BY LenFacts
      <4>2. \A k \in 0..5 : k < 5 => k # 5
        OBVIOUS
      <4> QED
        BY <3>1, <4>1, <4>2, Zenon
    <3>3. Len(results[j]) = 5
      BY DEF Provisions
    <3>4. i # j
      BY <3>2, <3>3, Zenon
    <3> QED
      BY <2>2, <3>4, ReportResults
  <2> QED
    BY <2>1, <2>2, ResultsChange
<1> QED
  BY <1>1, <1>2 DEF Provisions, Failed

LEMMA StepActiveOk ==
  ASSUME IInv, [Next]_vars, NEW t \in Tenants
  PROVE  ActiveOk(t)'
<1> USE DEF IInv
<1>1. SUFFICES ASSUME tenant'[t] = "Active" PROVE \E j \in Jobs : Provisions(j, t)'
  BY DEF ActiveOk, Provisions, Failed
<1>2. CASE tenant[t] = "Active"
  <2>1. PICK j \in Jobs : Provisions(j, t)
    BY <1>2, EffectParts DEF ActiveOk
  <2> QED
    BY <2>1, ProvisionsKept
<1>3. CASE tenant[t] # "Active"
  <2>1. PICK j \in Jobs : Promote(j) \/ (LateFault(j) /\ pc[j] = "promote")
    <3>1. tenant' # tenant
      BY <1>1, <1>3
    <3>2. PICK j \in Jobs : Step(j)
      BY <3>1 DEF Next, Crash, records, vars
    <3>3. ~CreateTenant(j)
      BY <1>1, <1>3 DEF CreateTenant, TypeOK
    <3>4. Promote(j) \/ (LateFault(j) /\ pc[j] = "promote")
      BY <3>1, <3>2, <3>3, TenantChanges
    <3> QED
      BY <3>4
  <2>2. request[j].tenant = t
    BY <1>1, <1>3, <2>1, LateFaultStores DEF Promote, LateStores, TypeOK
  <2>3. request[j] = [kind |-> "execute", tenant |-> t] /\ PhaseOk(j) /\ pc[j] = "promote"
    <3>1. request \in [Jobs -> [kind : RequestKinds, tenant : Tenants]]
      BY DEF TypeOK, AllWorkloads
    <3>2. PhaseOk(j) /\ pc[j] = "promote"
      BY <2>1, PhaseByJob DEF Promote
    <3> QED
      BY <2>2, <3>1, <3>2 DEF PhaseOk
  <2>4. Provisions(j, t)
    BY <2>3 DEF PhaseOk, Provisions
  <2> QED
    BY <2>4, ProvisionsKept
<1> QED
  BY <1>2, <1>3

LEMMA OtherEffectOk ==
  ASSUME IInv, NEW j \in Jobs, NEW i \in Jobs, i # j,
         setting' = setting, request' = request,
         Step(j)
  PROVE  EffectOk(i)'
<1> USE DEF IInv
<1>1. /\ EffectOk(i)
      /\ pc'[i] = pc[i] /\ results'[i] = results[i]
      /\ trace'[i] = trace[i] /\ status'[i] = status[i]
  BY EffectParts, OthersKept
<1>2. tenant[request[i].tenant] = "Active" => tenant'[request[i].tenant] = "Active"
  BY RequestTypes, TenantMoves
<1>3. /\ Dry(i)' <=> Dry(i)
      /\ Failed(i)' <=> Failed(i)
      /\ Unsettled(i)' <=> Unsettled(i)
  BY <1>1 DEF Dry, Failed, Unsettled, StageOf
<1>4. crashes' = crashes /\ faults' \in Nat /\ faults \in Nat /\ faults' >= faults
  BY DEF TypeOK, Step, Work, Fault, LateFault, LateAccept, CreateTenant, Accept, Prepare,
         Record, Refuse, MarkRunning, Begin,
         PlanPhase, SkipPhase, CheckPhase, RunCommand, Checkpoint, Promote, Rollback,
         Final, Catch, StoreFault
<1> QED
  BY <1>1, <1>2, <1>3, <1>4 DEF EffectOk

LEMMA OwnEffectOk ==
  ASSUME IInv, NEW j \in Jobs, setting' = setting, request' = request,
         Step(j)
  PROVE  EffectOk(j)'
<1> USE DEF IInv
<1>1. /\ EffectOk(j) /\ PhaseOk(j) /\ RecordOk(j)
      /\ request[j].kind \in RequestKinds /\ request[j].tenant \in Tenants
  BY EffectParts, PhaseByJob, RecordByJob, RequestTypes
<1>2. tenant[request[j].tenant] = "Active" => tenant'[request[j].tenant] = "Active"
  BY <1>1, TenantMoves
<1>3. Dry(j)' <=> Dry(j)
  BY DEF Dry
<1>4. results' = results => (Failed(j)' <=> Failed(j))
  BY DEF Failed
<1>5. CASE CreateTenant(j)
  <2>1. pc'[j] = "gone" /\ status'[j] = "Queued" /\ request[j].kind = "environment"
    BY <1>5, RecordMoves DEF CreateTenant
  <2> QED
    BY <2>1 DEF EffectOk, Unsettled, StageOf
<1>6. CASE Accept(j)
  <2>1. pc'[j] = "prepare" /\ status'[j] \in {"DryRun", "Queued"}
    BY <1>6, RecordMoves DEF Accept
  <2> QED
    BY <2>1 DEF EffectOk
<1>7. CASE Prepare(j) \/ Record(j) \/ MarkRunning(j) \/ Begin(j)
  <2>1. /\ pc'[j] \notin {"gone", "catch", "final"}
        /\ status'[j] = "Success" => status[j] = "Success"
    BY <1>7, RecordMoves DEF Prepare, Record, MarkRunning, Begin, records
  <2> QED
    BY <1>1, <1>2, <2>1 DEF EffectOk
<1>8. CASE Refuse(j) \/ Catch(j)
  <2>1. pc'[j] = "gone" /\ status'[j] = "Failed"
    BY <1>8, RecordMoves DEF Refuse, Catch
  <2> QED
    BY <2>1 DEF EffectOk, Unsettled, StageOf
<1>9. CASE PlanPhase(j) \/ SkipPhase(j) \/ CheckPhase(j) \/ RunCommand(j)
  <2>1. pc[j] = "phase" /\ status'[j] = status[j] /\ pc'[j] \in {"phase", "checkpoint"}
    BY <1>9, RecordMoves
       DEF PlanPhase, SkipPhase, CheckPhase, RunCommand, EndPhase, records
  <2> QED
    BY <1>1, <1>2, <2>1 DEF EffectOk
<1>10. CASE Checkpoint(j)
  <2>1. /\ status'[j] = status[j]
        /\ pc'[j] \in {"phase", "final", "rollback", "promote"}
        /\ pc'[j] = "final" => Dry(j)
    BY <1>10, RecordMoves DEF Checkpoint
  <2> QED
    BY <1>1, <1>2, <1>3, <2>1 DEF EffectOk
<1>11. CASE Promote(j)
  <2>1. pc'[j] = "final" /\ tenant'[request[j].tenant] = "Active"
    BY <1>1, <1>11, RecordMoves DEF Promote, TypeOK
  <2> QED
    BY <2>1 DEF EffectOk
<1>12. CASE Rollback(j)
  <2>1. pc'[j] = "final" /\ status'[j] = "Running" /\ Failed(j)'
    BY <1>1, <1>4, <1>12, RecordMoves DEF Rollback, PhaseOk, RecordOk, Started, records
  <2> QED
    BY <2>1 DEF EffectOk
<1>13. CASE Final(j)
  <2>1. /\ pc[j] = "final" /\ pc'[j] = "gone" /\ status'[j] = FinalStatus(j)
        /\ trace'[j] = results[j] /\ tenant' = tenant
    BY <1>13, RecordMoves DEF Final
  <2>2. results[j] # <<>>
    <3>1. Len(results[j]) = 5
      BY <1>1, <2>1 DEF PhaseOk
    <3>2. results[j] = <<>> <=> Len(results[j]) = 0
      BY LenFacts
    <3> QED
      BY <3>1, <3>2
  <2>3. ~Unsettled(j)'
    BY <2>1, <2>2 DEF Unsettled, StageOf, FinalStatus
  <2>4. status'[j] = "Success" => ~Dry(j) /\ ~Failed(j)
    BY <2>1 DEF FinalStatus
  <2> QED
    BY <1>1, <2>1, <2>3, <2>4 DEF EffectOk
<1>14. CASE StoreFault(j)
  <2>1. /\ status'[j] = status[j] /\ tenant' = tenant
        /\ pc'[j] = AfterFault(j) /\ faults' = faults + 1 /\ faults \in Nat
    <3>1. faults \in Nat
      BY DEF TypeOK
    <3> QED
      BY <1>14, <3>1, RecordMoves DEF StoreFault, Fault, records
  <2> QED
    BY <1>1, <2>1, FaultLeads DEF EffectOk
<1>15. CASE LateAccept(j)
  <2>1. pc'[j] = "unasked" /\ status'[j] \in {"DryRun", "Queued"}
    BY <1>15, RecordMoves DEF LateAccept
  <2> QED
    BY <2>1 DEF EffectOk
<1>16. CASE LateFault(j)
  <2>1. LateStores(j) /\ pc'[j] = AfterFault(j) /\ faults' = faults + 1 /\ faults \in Nat
        /\ results' = results
    <3>1. faults \in Nat
      BY DEF TypeOK
    <3> QED
      BY <1>16, <3>1, LateFaultStores, RecordMoves
  <2>2. pc[j] = "catch" => faults > 0
    BY <1>1 DEF EffectOk
  <2>3. status'[j] = "Success" /\ setting.backend = "file" =>
          tenant'[request[j].tenant] = "Active"
    <3>1. status'[j] = "Success" =>
            \/ status[j] = "Success"
            \/ pc[j] = "final" /\ ~Dry(j) /\ ~Failed(j)
      BY <2>1, RecordMoves DEF LateStores, FinalStatus
    <3> QED
      BY <1>1, <1>2, <3>1 DEF EffectOk
  <2>4. pc'[j] = "final" => setting.backend = "db"
    BY <2>1, FaultLeads
  <2>5. pc'[j] = "gone" => faults' > 1
    <3>1. pc'[j] = "gone" => pc[j] = "catch"
      BY <2>1, FaultLeads, Zenon
    <3> QED
      BY <2>1, <2>2, <3>1
  <2> QED
    BY <2>1, <2>3, <2>4, <2>5 DEF EffectOk
<1> QED
  BY <1>5, <1>6, <1>7, <1>8, <1>9, <1>10, <1>11, <1>12, <1>13, <1>14, <1>15, <1>16
     DEF Step, Work

LEMMA StepEffectInv ==
  ASSUME IInv, [Next]_vars
  PROVE  EffectInv'
<1> SUFFICES ASSUME NEW i \in Jobs PROVE EffectOk(i)'
  BY StepActiveOk DEF EffectInv, EffectOk, ActiveOk, Provisions
<1>1. setting' = setting /\ request' = request /\ EffectOk(i)
  BY Unchanging, EffectParts DEF IInv
<1>2. ASSUME NEW j \in Jobs, Step(j)
      PROVE  EffectOk(i)'
  <2>1. CASE i = j
    BY <1>1, <1>2, <2>1, OwnEffectOk
  <2>2. CASE i # j
    BY <1>1, <1>2, <2>2, OtherEffectOk
  <2> QED
    BY <2>1, <2>2
<1>3. CASE Crash
  <2>1. /\ pc'[i] = IF pc[i] \in {"absent", "unasked"} THEN pc[i] ELSE "gone"
        /\ crashes' > 0
    BY <1>3 DEF Crash, IInv, TypeOK
  <2>2. UNCHANGED <<status, tenant, request, setting>>
    BY <1>3 DEF Crash, records
  <2> QED
    BY <1>1, <2>1, <2>2 DEF EffectOk
<1>4. CASE UNCHANGED vars
  BY <1>1, <1>4 DEF vars, EffectOk, Dry, Failed, Unsettled, StageOf
<1> QED
  BY <1>2, <1>3, <1>4 DEF Next

----------------------------------------------------------------------------
(* The invariants.                                                         *)

(* Every reachable state of the jobs and their workers satisfies the       *)
(* inductive invariant.                                                    *)
THEOREM Invariance == Spec => []IInv
<1>1. IInv /\ [Next]_vars => IInv'
  BY StepTypeOK, StepResultsInv, StepCommandsInv, StepPhaseInv, StepRecordInv, StepEffectInv
     DEF IInv
<1> QED
  BY InitIInv, <1>1, PTL DEF Spec

(* The variables keep their types, and no job has more than five phases.   *)
THEOREM Typing == Spec => []TypeOK
BY Invariance, PTL DEF IInv

(* Commands run in the order of the plan, none after one that failed.      *)
THEOREM Guarded == Spec => []CommandsGuarded
<1>1. IInv => CommandsGuarded
  BY DEF IInv, CommandsInv, CommandsGuarded
<1> QED
  BY Invariance, <1>1, PTL

(* A tenant becomes Active only by a job that ran its whole plan.          *)
THEOREM ActiveTenants == Spec => []ActiveIsProvisioned
<1>1. ASSUME IInv, NEW t \in Tenants, tenant[t] = "Active"
      PROVE  NetworkOk(t) /\ \E j \in Jobs : request[j].tenant = t /\ FullyRun(j)
  <2>1. PICK j \in Jobs : Provisions(j, t)
    BY <1>1, EffectParts DEF IInv, ActiveOk
  <2>2. /\ request[j].kind = "execute" /\ request[j].tenant = t
        /\ Len(results[j]) = 5 /\ ~Failed(j) /\ ~Dry(j)
    BY <2>1 DEF Provisions, Dry
  <2>3. Clean(j)
    BY <1>1, <2>2 DEF IInv, ResultsInv
  <2>4. NetworkOk(t)
    BY <1>1, <2>2, <2>3 DEF IInv, ResultsInv, Clean
  <2>5. Len(ran[j]) = CommandsAfter[5] /\ \A k \in 1..Len(ran[j]) : ran[j][k].ok
    <3>1. CommandsOk(j) /\ Len(results[j]) > 0
      BY <1>1, <2>2, CommandsByJob DEF IInv
    <3>2. /\ Len(ran[j]) = CommandsAfter[Len(results[j])]
          /\ \A k \in 1..Len(ran[j]) : ran[j][k].ok
      BY <2>2, <2>3, <3>1, Zenon DEF CommandsOk
    <3> QED
      BY <2>2, <3>2, Zenon
  <2>6. FullyRun(j)
    BY <2>5 DEF FullyRun, CommandsAfter, Commands
  <2> QED
    BY <2>2, <2>4, <2>6
<1>2. IInv => ActiveIsProvisioned
  BY <1>1 DEF ActiveIsProvisioned
<1> QED
  BY Invariance, <1>2, PTL

(* In file mode the tenant of a successful job is Active.                  *)
THEOREM SuccessfulJobs == Spec => []SuccessIsActive
<1>1. IInv => SuccessIsActive
  BY DEF IInv, EffectInv, SuccessIsActive
<1> QED
  BY Invariance, <1>1, PTL

(* The rollback hook runs once at most, after an apply that succeeded.     *)
THEOREM JustifiedRollbacks == Spec => []RollbackJustified
<1>1. ASSUME IInv, NEW j \in Jobs, hooks[j] = 1
      PROVE  Applies(j) /\ Failed(j) /\ status[j] # "Success"
  <2>1. ~Dry(j) /\ Failed(j) /\ ApplySucceeded(j) /\ status[j] # "Success"
    BY <1>1 DEF IInv, PhaseInv, RecordInv
  <2>2. Len(ran[j]) >= 3 /\ ran[j][3].ok /\ Len(ran[j]) \in Nat
    BY <1>1, <2>1, LenFacts DEF IInv, CommandsInv
  <2>3. 3 \in 1..Len(ran[j])
    BY <2>2
  <2>4. ran[j][3].command = "apply"
    BY <1>1, <2>3 DEF IInv, CommandsInv, Commands
  <2>5. ran[j][3] \in [command : CommandNames, ok : BOOLEAN]
    <3>1. ran[j] \in Seq([command : CommandNames, ok : BOOLEAN])
      BY <1>1 DEF IInv, TypeOK
    <3> QED
      BY <2>3, <3>1, ElementOfSeq
  <2>6. ran[j][3] = [command |-> "apply", ok |-> TRUE]
    BY <2>2, <2>4, <2>5
  <2> QED
    BY <2>1, <2>3, <2>6 DEF Applies
<1>2. IInv => RollbackJustified
  BY <1>1 DEF IInv, PhaseInv, RollbackJustified
<1> QED
  BY Invariance, <1>2, PTL

(* A job loses its worker unsettled only by a crash or by two store faults. *)
THEOREM Orphans == Spec => []OrphanExplained
<1>1. IInv => OrphanExplained
  BY DEF IInv, EffectInv, OrphanExplained
<1> QED
  BY Invariance, <1>1, PTL

----------------------------------------------------------------------------
(* The records implement JobLifecycle.                                     *)

\* The record of a running job follows what its engine has in memory: it is
\* the same, except that a checkpoint writes one more result.
TraceOk(j) ==
  /\ pc[j] \in {"phase", "promote", "rollback", "final"} => trace[j] = results[j]
  /\ pc[j] = "checkpoint" =>
       \E r \in Lifecycle!Results(j, trace[j]) : results[j] = Append(trace[j], r)

TraceInv == \A j \in Jobs : TraceOk(j)

LEMMA ReportAllowed ==
  ASSUME IInv, NEW j \in Jobs, NEW r, Reports(j, r)
  PROVE  r \in Lifecycle!Results(j, results[j])
<1> USE DEF IInv
<1>1. Lifecycle!Results(j, results[j]) =
        IF Dry(j) THEN {"planned"} ELSE IF Failed(j) THEN {"skipped"} ELSE {"success", "failed"}
  BY DEF Lifecycle!Results, Dry, Failed
<1>2. CASE Dry(j)
  BY <1>1, <1>2 DEF Reports
<1>3. CASE ~Dry(j) /\ Skips(j)
  <2>1. Failed(j)
    <3>1. SUFFICES ASSUME Clean(j) PROVE FALSE
      BY <1>3 DEF ResultsInv
    <3>2. Previous(j) = "none" \/ Len(results[j]) \in 1..Len(results[j])
      BY LenFacts DEF Previous
    <3>3. Previous(j) \in {"none", "success"}
      BY <3>1, <3>2 DEF Clean, Previous
    <3> QED
      BY <1>3, <3>3 DEF Skips
  <2> QED
    BY <1>1, <1>3, <2>1 DEF Reports
<1>4. CASE ~Dry(j) /\ ~Skips(j)
  <2>1. ~Failed(j)
    BY <1>4, NotSkipping DEF Clean, Failed
  <2> QED
    BY <1>1, <1>4, <2>1 DEF Reports
<1> QED
  BY <1>2, <1>3, <1>4

LEMMA OwnTraceOk ==
  ASSUME IInv, TraceInv, NEW j \in Jobs, setting' = setting, request' = request,
         Step(j)
  PROVE  TraceOk(j)'
<1> USE DEF IInv
<1>1. TraceOk(j) /\ PhaseOk(j)
  BY PhaseByJob DEF TraceInv
<1>2. CASE /\ pc'[j] \notin {"phase", "checkpoint", "promote", "rollback", "final"}
  BY <1>2 DEF TraceOk
<1>3. CASE Begin(j)
  <2>1. pc[j] = "begin" /\ pc'[j] = "phase" /\ trace'[j] = trace[j] /\ results' = results
    BY <1>3, RecordMoves DEF Begin
  <2>2. trace[j] = results[j]
    BY <1>1, <2>1 DEF PhaseOk, Started
  <2> QED
    BY <2>1, <2>2 DEF TraceOk
<1>4. ASSUME NEW r, Reports(j, r), trace' = trace PROVE TraceOk(j)'
  <2>1. pc'[j] = "checkpoint" /\ results'[j] = Append(results[j], r) /\ trace[j] = results[j]
    BY <1>1, <1>4, RecordMoves DEF Reports, EndPhase, TypeOK, TraceOk
  <2>2. r \in Lifecycle!Results(j, trace[j])
    BY <1>4, <2>1, ReportAllowed
  <2>3. r \in Lifecycle!Results(j, trace[j])'
    BY <1>4, <2>2 DEF Lifecycle!Results
  <2> QED
    BY <1>4, <2>1, <2>3 DEF TraceOk
<1>5. CASE PlanPhase(j) \/ SkipPhase(j) \/ CheckPhase(j)
  <2>1. PICK r : Reports(j, r)
    BY <1>5 DEF PlanPhase, SkipPhase, CheckPhase, Reports
  <2> QED
    BY <1>4, <1>5, <2>1 DEF PlanPhase, SkipPhase, CheckPhase, records
<1>6. CASE RunCommand(j)
  <2>1. CASE UNCHANGED <<results, pc>>
    BY <1>1, <1>6, <2>1 DEF RunCommand, records, TraceOk
  <2>2. ASSUME NEW r \in {"success", "failed"}, EndPhase(j, r) PROVE TraceOk(j)'
    <3>1. Phase(j) # "network_config"
      BY <1>6 DEF RunCommand, Pending, PhaseCommands
    <3>2. Reports(j, r)
      BY <1>6, <2>2, <3>1 DEF RunCommand, Reports
    <3> QED
      BY <1>4, <1>6, <3>2 DEF RunCommand, records
  <2> QED
    BY <1>6, <2>1, <2>2 DEF RunCommand
<1>7. CASE Checkpoint(j)
  <2>1. /\ pc'[j] \in {"phase", "final", "rollback", "promote"}
        /\ trace'[j] = results[j] /\ results' = results
    BY <1>7, RecordMoves DEF Checkpoint
  <2> QED
    BY <2>1 DEF TraceOk
<1>8. CASE Promote(j) \/ Rollback(j)
  <2>1. /\ pc[j] \in {"promote", "rollback"} /\ pc'[j] = "final"
        /\ trace' = trace /\ results' = results
    BY <1>8, RecordMoves DEF Promote, Rollback, records
  <2> QED
    BY <1>1, <2>1 DEF TraceOk
<1>9. CASE StoreFault(j)
  <2>1. /\ pc'[j] = AfterFault(j) /\ trace' = trace /\ results' = results
    BY <1>9, RecordMoves DEF StoreFault, Fault, records
  <2> QED
    BY <1>1, <2>1, FaultLeads DEF TraceOk
<1>11. CASE LateFault(j)
  <2>1. LateStores(j) /\ pc'[j] = AfterFault(j) /\ results' = results
    BY <1>11, LateFaultStores, RecordMoves
  <2>2. CASE pc[j] = "promote"
    <3>1. trace' = trace
      BY <2>1, <2>2 DEF LateStores
    <3> QED
      BY <1>1, <2>1, <2>2, <3>1, FaultLeads DEF TraceOk
  <2>3. CASE pc[j] # "promote"
    <3>1. pc'[j] \in {"catch", "gone"}
      BY <2>1, <2>3, FaultLeads
    <3> QED
      BY <1>2, <3>1
  <2> QED
    BY <2>2, <2>3
<1>10. CASE \/ CreateTenant(j) \/ Accept(j) \/ Prepare(j) \/ Record(j) \/ Refuse(j)
            \/ MarkRunning(j) \/ Final(j) \/ Catch(j) \/ LateAccept(j)
  BY <1>2, <1>10, RecordMoves
     DEF CreateTenant, Accept, LateAccept, Prepare, Record, Refuse, MarkRunning, Final, Catch
<1> QED
  BY <1>3, <1>5, <1>6, <1>7, <1>8, <1>9, <1>10, <1>11 DEF Step, Work

LEMMA StepTraceInv ==
  ASSUME IInv, TraceInv, [Next]_vars
  PROVE  TraceInv'
<1> SUFFICES ASSUME NEW i \in Jobs PROVE TraceOk(i)'
  BY DEF TraceInv
<1>1. setting' = setting /\ request' = request /\ TraceOk(i)
  BY Unchanging DEF TraceInv
<1>2. ASSUME NEW j \in Jobs, Step(j)
      PROVE  TraceOk(i)'
  <2>1. CASE i = j
    BY <1>1, <1>2, <2>1, OwnTraceOk
  <2>2. CASE i # j
    <3>1. pc'[i] = pc[i] /\ results'[i] = results[i] /\ trace'[i] = trace[i]
      BY <1>2, <2>2, OthersKept DEF IInv
    <3>2. Lifecycle!Results(i, trace[i])' = Lifecycle!Results(i, trace[i])
      BY <1>1, <3>1 DEF Lifecycle!Results
    <3> QED
      BY <1>1, <3>1, <3>2 DEF TraceOk
  <2> QED
    BY <2>1, <2>2
<1>3. CASE Crash
  <2>1. pc'[i] = IF pc[i] \in {"absent", "unasked"} THEN pc[i] ELSE "gone"
    BY <1>3 DEF Crash
  <2> QED
    BY <2>1 DEF TraceOk
<1>4. CASE UNCHANGED vars
  BY <1>1, <1>4 DEF vars, TraceOk, Lifecycle!Results
<1> QED
  BY <1>2, <1>3, <1>4 DEF Next

\* What a change of a job's record does to its stage.
LEMMA Stages ==
  ASSUME TypeOK, NEW j \in Jobs, NEW s, NEW t, UpdateJob(j, s, t), NEW g, g = StageOf(s, t)
  PROVE  Lifecycle!Enter(j, g, s)
<1> DEFINE stage == [i \in Jobs |-> StageOf(status[i], trace[i])]
<1>1. \A i \in Jobs \ {j} : status'[i] = status[i] /\ trace'[i] = trace[i]
  BY DEF TypeOK, UpdateJob
<1>2. status'[j] = s /\ trace'[j] = t
  BY RecordMoves
<1>3. \A i \in Jobs : StageOf(status[i], trace[i])' = IF i = j THEN g ELSE StageOf(status[i], trace[i])
  BY <1>1, <1>2, Zenon
<1>4. stage' = [stage EXCEPT ![j] = g]
  BY <1>3
<1>5. status' = [status EXCEPT ![j] = s]
  BY DEF UpdateJob
<1> QED
  BY <1>4, <1>5 DEF Lifecycle!Enter

\* A job's record is written again as it was.
LEMMA SameRecord ==
  ASSUME TypeOK, NEW j \in Jobs, NEW s, NEW t, UpdateJob(j, s, t), s = status[j], t = trace[j]
  PROVE  status' = status /\ trace' = trace
BY DEF TypeOK, UpdateJob

\* What a client sees when no record changes.
LEMMA Stutters ==
  ASSUME request' = request, status' = status, trace' = trace
  PROVE  UNCHANGED Lifecycle!vars
BY DEF Lifecycle!vars

\* A provisioning job is accepted.
LEMMA Accepting ==
  ASSUME IInv, NEW j \in Jobs, request' = request, status[j] = "absent",
         UpdateJob(j, IF Dry(j) THEN "DryRun" ELSE "Queued", <<>>)
  PROVE  Lifecycle!Next
<1> USE DEF IInv
<1>1. trace[j] = <<>> /\ Lifecycle!Enter(j, "accepted", IF Dry(j) THEN "DryRun" ELSE "Queued")
  <2>1. trace[j] = <<>>
    BY DEF RecordInv, PhaseInv, Started
  <2>2. StageOf(IF Dry(j) THEN "DryRun" ELSE "Queued", <<>>) = "accepted"
    BY DEF StageOf
  <2> QED
    BY <2>1, <2>2, Stages
<1>2. trace' = trace
  BY <1>1 DEF UpdateJob, TypeOK
<1>3. StageOf(status[j], trace[j]) = "none"
  BY DEF StageOf
<1>4. Lifecycle!Accept(j)
  BY <1>1, <1>2, <1>3 DEF Lifecycle!Accept, Dry
<1> QED
  BY <1>4 DEF Lifecycle!Next

\* A job fails with its phases cleared.
LEMMA Aborting ==
  ASSUME IInv, NEW j \in Jobs, request' = request, pc[j] \in {"refuse", "catch"},
         UpdateJob(j, "Failed", <<>>)
  PROVE  Lifecycle!Next
<1> USE DEF IInv
<1>1. request[j].kind # "environment" /\ status[j] # "absent"
  BY DEF PhaseInv, RecordInv
<1>2. StageOf(status[j], trace[j]) # "none"
  BY <1>1 DEF StageOf
<1>3. Lifecycle!Enter(j, "settled", "Failed")
  <2>1. StageOf("Failed", <<>>) = "settled"
    BY DEF StageOf
  <2> QED
    BY <2>1, Stages
<1>4. trace' = [trace EXCEPT ![j] = <<>>]
  BY DEF UpdateJob
<1>5. Lifecycle!Abort(j)
  BY <1>1, <1>2, <1>3, <1>4 DEF Lifecycle!Abort, Lifecycle!Provisions
<1> QED
  BY <1>5 DEF Lifecycle!Next

\* A job is marked Running, once or again.
LEMMA Beginning ==
  ASSUME IInv, NEW j \in Jobs, request' = request, pc[j] \in {"mark", "begin"},
         UpdateJob(j, "Running", trace[j])
  PROVE  Lifecycle!Next \/ UNCHANGED Lifecycle!vars
<1> USE DEF IInv
<1>1. trace[j] = <<>> /\ request[j].kind # "environment"
  BY DEF PhaseInv, Started
<1>2. trace' = trace
  BY DEF UpdateJob, TypeOK
<1>3. CASE status[j] = "Running"
  BY <1>3, SameRecord, Stutters
<1>4. CASE status[j] # "Running"
  <2>1. status[j] \in {"DryRun", "Queued"}
    BY <1>4 DEF RecordInv
  <2>2. StageOf(status[j], trace[j]) = "accepted"
    BY <1>1, <2>1 DEF StageOf
  <2>3. StageOf("Running", trace[j]) = "running"
    BY DEF StageOf
  <2>4. Lifecycle!Enter(j, "running", "Running")
    BY <2>3, Stages
  <2>5. Lifecycle!Begin(j)
    BY <1>1, <1>2, <2>2, <2>4 DEF Lifecycle!Begin, Lifecycle!Provisions
  <2> QED
    BY <2>5 DEF Lifecycle!Next
<1> QED
  BY <1>3, <1>4

\* A checkpoint writes one more phase result.
LEMMA Reporting ==
  ASSUME IInv, TraceInv, NEW j \in Jobs, request' = request, pc[j] = "checkpoint",
         UpdateJob(j, status[j], results[j])
  PROVE  Lifecycle!Next
<1> USE DEF IInv
<1>1. PICK r \in Lifecycle!Results(j, trace[j]) : results[j] = Append(trace[j], r)
  BY DEF TraceInv, TraceOk
<1>2. status[j] = "Running"
  BY DEF RecordInv, Started
<1>3. /\ trace' = [trace EXCEPT ![j] = Append(trace[j], r)]
      /\ status' = status
  BY <1>1 DEF UpdateJob, TypeOK
<1>4. Len(trace[j]) < 5
  <2>1. Len(results[j]) = Len(trace[j]) + 1 /\ Len(trace[j]) \in Nat
    <3>1. trace[j] \in Seq(Results) /\ r \in Results
      BY DEF TypeOK, Lifecycle!Results, Results
    <3> QED
      BY <1>1, <3>1, AppendProperties, LenProperties
  <2>2. Len(results[j]) \in 0..5
    BY LenFacts
  <2> QED
    BY <2>1, <2>2
<1>5. \A t : StageOf(status[j], t) = "running"
  BY <1>2 DEF StageOf
<1>6. UNCHANGED [i \in Jobs |-> StageOf(status[i], trace[i])]
  <2>1. \A i \in Jobs \ {j} : trace'[i] = trace[i]
    BY <1>3 DEF TypeOK
  <2>2. \A i \in Jobs : StageOf(status[i], trace[i])' = StageOf(status[i], trace[i])
    <3>1. TAKE i \in Jobs
    <3>2. CASE i = j
      BY <1>3, <1>5, <3>2
    <3>3. CASE i # j
      BY <1>3, <2>1, <3>3
    <3> QED
      BY <3>2, <3>3
  <2> QED
    BY <2>2
<1>7. Lifecycle!Report(j)
  BY <1>3, <1>4, <1>5, <1>6 DEF Lifecycle!Report, Lifecycle!PhaseCount
<1> QED
  BY <1>7 DEF Lifecycle!Next

\* A job settles by what its phases reported.
LEMMA Completing ==
  ASSUME IInv, TraceInv, NEW j \in Jobs, request' = request, pc[j] = "final",
         UpdateJob(j, FinalStatus(j), results[j])
  PROVE  Lifecycle!Next
<1> USE DEF IInv
<1>1. status[j] = "Running" /\ trace[j] = results[j] /\ Len(trace[j]) = 5
  BY DEF TraceInv, TraceOk, RecordInv, PhaseInv, Started
<1>2. FinalStatus(j) =
        IF request[j].kind = "dry" THEN "DryRun"
        ELSE IF \E k \in 1..5 : trace[j][k] = "failed" THEN "Failed"
        ELSE "Success"
  <2>1. Failed(j) <=> \E k \in 1..5 : trace[j][k] = "failed"
    BY <1>1, Zenon DEF Failed
  <2> QED
    BY <2>1 DEF FinalStatus, Dry
<1>3. trace' = trace
  BY <1>1 DEF UpdateJob, TypeOK
<1>4. StageOf(status[j], trace[j]) = "running"
  BY <1>1 DEF StageOf
<1>5. Lifecycle!Enter(j, "settled", FinalStatus(j))
  <2>1. results[j] # <<>>
    <3>1. Len(results[j]) = 5
      BY <1>1, Zenon
    <3>2. results[j] = <<>> <=> Len(results[j]) = 0
      BY LenFacts
    <3> QED
      BY <3>1, <3>2
  <2>2. StageOf(FinalStatus(j), results[j]) = "settled"
    BY <2>1 DEF StageOf, FinalStatus
  <2> QED
    BY <2>2, Stages
<1>6. Lifecycle!Complete(j)
  BY <1>1, <1>2, <1>3, <1>4, <1>5 DEF Lifecycle!Complete, Lifecycle!PhaseCount
<1> QED
  BY <1>6 DEF Lifecycle!Next

\* A step of a job's handler or worker, as a step of the job's life.
LEMMA LifecycleSteps ==
  ASSUME IInv, TraceInv, NEW j \in Jobs, request' = request, Step(j)
  PROVE  Lifecycle!Next \/ UNCHANGED Lifecycle!vars
<1>1. CASE CreateTenant(j)
  <2>1. /\ status[j] = "absent"
        /\ UpdateJob(j, IF Dry(j) THEN "DryRun" ELSE "Queued", <<>>)
    BY <1>1 DEF CreateTenant, Dry
  <2> QED
    BY <2>1, Accepting
<1>2. CASE Accept(j) \/ LateAccept(j)
  BY <1>2, Accepting DEF Accept, LateAccept
<1>3. ASSUME pc[j] = "record", UpdateJob(j, status[j], <<>>)
      PROVE  UNCHANGED Lifecycle!vars
  <2>1. trace[j] = <<>>
    BY <1>3 DEF IInv, PhaseInv, Started
  <2> QED
    BY <1>3, <2>1, SameRecord, Stutters DEF IInv
<1>4. CASE Record(j)
  BY <1>3, <1>4 DEF Record
<1>5. CASE Refuse(j) \/ Catch(j)
  BY <1>5, Aborting DEF Refuse, Catch
<1>6. CASE MarkRunning(j) \/ Begin(j)
  BY <1>6, Beginning DEF MarkRunning, Begin
<1>7. CASE Checkpoint(j)
  BY <1>7, Reporting DEF Checkpoint
<1>8. CASE Final(j)
  BY <1>8, Completing DEF Final
<1>9. CASE LateFault(j)
  <2>1. LateStores(j)
    BY <1>9, LateFaultStores
  <2> QED
    BY <1>3, <2>1, Aborting, Beginning, Reporting, Completing, Stutters DEF LateStores
<1>10. CASE status' = status /\ trace' = trace
  BY <1>10, Stutters
<1> QED
  BY <1>1, <1>2, <1>4, <1>5, <1>6, <1>7, <1>8, <1>9, <1>10
     DEF Step, Work, Prepare, PlanPhase, SkipPhase, CheckPhase, RunCommand, Promote, Rollback,
         StoreFault, records

(* Jobs go through the stages of JobLifecycle in order, phase by phase,     *)
(* and a settled job changes at most by giving way to Failed.  A dry run's *)
(* status is no such order: the engine marks it Running                    *)
(* (provisioning-engine.ts:594), though its caller means it to stay DryRun *)
(* (provision/tenant/route.ts:133), and it reads DryRun again at the end.  *)
THEOREM Refinement == Spec => LifecycleSpec
<1>1. Init => Lifecycle!Init
  BY DEF Init, Lifecycle!Init, StageOf
<1>2. Init => TraceInv
  BY DEF Init, TraceInv, TraceOk
<1>3. IInv /\ TraceInv /\ [Next]_vars => [Lifecycle!Next]_(Lifecycle!vars)
  <2> SUFFICES ASSUME IInv, TraceInv, [Next]_vars
               PROVE  Lifecycle!Next \/ UNCHANGED Lifecycle!vars
    BY Zenon
  <2>1. request' = request
    BY Unchanging
  <2>2. CASE Crash \/ UNCHANGED vars
    <3>1. status' = status /\ trace' = trace
      BY <2>2 DEF Crash, vars, records
    <3> QED
      BY <2>1, <3>1, Stutters
  <2> QED
    BY <2>1, <2>2, LifecycleSteps DEF Next
<1>4. IInv /\ TraceInv /\ [Next]_vars => TraceInv'
  BY StepTraceInv
<1> QED
  BY <1>1, <1>2, <1>3, <1>4, Invariance, PTL DEF Spec, LifecycleSpec, Lifecycle!Spec
=============================================================================
