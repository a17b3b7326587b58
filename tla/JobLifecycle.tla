---------------------------- MODULE JobLifecycle ----------------------------
(***************************************************************************)
(* What a client that polls a provisioning job is promised.  A job is      *)
(* accepted, runs, reports its five phases one by one and settles; after a *)
(* phase that failed every later one is skipped.  Once settled, it changes *)
(* at most by giving way to Failed with its phases cleared.                *)
(*                                                                         *)
(* This is said of the stage of a job, which only moves forward.  The      *)
(* status in its record does not: a dry run reads DryRun when accepted,    *)
(* Running while its phases are planned, and DryRun again when settled.    *)
(* Provisioning implements this.                                           *)
(***************************************************************************)
EXTENDS Naturals, Sequences

CONSTANT Jobs

VARIABLES request,   \* request[j]: what job j was asked to do, see Provisioning
          stage,     \* stage[j]: none, accepted, running or settled
          status,    \* status[j]: the status in the job's record
          trace      \* trace[j]: the phase results in the job's record

vars == <<request, stage, status, trace>>

PhaseCount == 5

Init ==
  /\ stage = [j \in Jobs |-> "none"]
  /\ status = [j \in Jobs |-> "absent"]
  /\ trace = [j \in Jobs |-> <<>>]

\* Job j enters stage g and its record reads s.
Enter(j, g, s) ==
  /\ stage' = [stage EXCEPT ![j] = g]
  /\ status' = [status EXCEPT ![j] = s]

\* No worker takes up what POST /api/tenants queues.
Provisions(j) == request[j].kind # "environment"

Accept(j) ==
  /\ stage[j] = "none"
  /\ Enter(j, "accepted", IF request[j].kind = "dry" THEN "DryRun" ELSE "Queued")
  /\ UNCHANGED trace

Begin(j) ==
  /\ stage[j] = "accepted" /\ Provisions(j)
  /\ Enter(j, "running", "Running")
  /\ UNCHANGED trace

\* What the phase after those in t can report.
Results(j, t) ==
  IF request[j].kind = "dry" THEN {"planned"}
  ELSE IF \E k \in 1..Len(t) : t[k] = "failed" THEN {"skipped"}
  ELSE {"success", "failed"}

Report(j) ==
  /\ stage[j] = "running"
  /\ Len(trace[j]) < PhaseCount
  /\ \E r \in Results(j, trace[j]) :
       trace' = [trace EXCEPT ![j] = Append(trace[j], r)]
  /\ UNCHANGED <<stage, status>>

Complete(j) ==
  /\ stage[j] = "running"
  /\ Len(trace[j]) = PhaseCount
  /\ Enter(j, "settled",
           IF request[j].kind = "dry" THEN "DryRun"
           ELSE IF \E k \in 1..PhaseCount : trace[j][k] = "failed" THEN "Failed"
           ELSE "Success")
  /\ UNCHANGED trace

\* Refused, or given up after an error; the error may have come from storing
\* how the job settled.
Abort(j) ==
  /\ stage[j] # "none" /\ Provisions(j)
  /\ Enter(j, "settled", "Failed")
  /\ trace' = [trace EXCEPT ![j] = <<>>]

Next ==
  /\ request' = request
  /\ \E j \in Jobs : Accept(j) \/ Begin(j) \/ Report(j) \/ Complete(j) \/ Abort(j)

Spec == Init /\ [][Next]_vars
=============================================================================
