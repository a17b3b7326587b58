-------------------------- MODULE FileStoreProofs --------------------------
(***************************************************************************)
(* Proofs about the record store, for any number of clients, attempts and  *)
(* crashes and every way to find the file at first.                        *)
(***************************************************************************)
EXTENDS FileStore, TLAPS

----------------------------------------------------------------------------
(* The inductive invariant, in the order its parts are proved.             *)

\* What the position of a call says about it.
PhaseInv ==
  \A c \in Clients :
    /\ pc[c] = "idle" => attempts[c] = 0
    /\ pc[c] = "open" => attempts[c] < MaxAttempts
    /\ pc[c] \in {"open", "sleep", "write", "rename", "release", "unlink"} => Mutates(c)
    /\ pc[c] \notin {"release", "unlink", "done"} => outcome[c] = "none"
    /\ pc[c] \in {"release", "unlink"} => outcome[c] \in {"ok", "null", "failed"}
    /\ outcome[c] = "releaseError" => leftLock

\* The critical section is what the lock file guards.
LockInv ==
  /\ \A c \in Clients : HoldsLock(c) => lockFile
  /\ MutualExclusion
  /\ NoLeakedLock

\* The temp file at the rename is the one the same call wrote, and an update
\* that gets this far has found its record.
TmpInv ==
  \A c \in Clients :
    pc[c] = "rename" =>
      /\ tmp = Whole(seen[c] \union {c})
      /\ call[c].kind = "update" => call[c].target \in seen[c]

\* A mark anybody can see belongs to a call that wrote it.
TraceInv ==
  \A c \in Clients :
    (c \in disk.marks \/ \E d \in Clients : c \in seen[d])
       => outcome[c] \in {"ok", "lost", "releaseError"}

\* With a file from the start nobody seeds, and what a mutation has read is
\* still in the file when it writes.
ExistingInv ==
  boot = "existing" =>
    /\ disk.state = "whole"
    /\ seedFds = {}
    /\ \A c \in Clients :
         /\ pc[c] \notin {"seedopen", "seedwrite"}
         /\ pc[c] \in {"write", "rename"} => seen[c] = disk.marks
         /\ Mutates(c) /\ pc[c] \in {"release", "unlink", "done"} /\ outcome[c] = "ok"
              => c \in disk.marks

IInv == TypeOK /\ PhaseInv /\ LockInv /\ TmpInv /\ TraceInv /\ ExistingInv

----------------------------------------------------------------------------
LEMMA InitIInv == Init => IInv
<1> SUFFICES ASSUME Init PROVE IInv
  OBVIOUS
<1> USE AttemptsAssumption, CrashesAssumption, BootsAssumption
<1>1. TypeOK
  <2>1. disk \in Files /\ tmp \in Files
    BY DEF Init, Files, Missing, Seed, Whole
  <2>2. /\ call \in [Clients -> Ops]
        /\ attempts \in [Clients -> 0..MaxAttempts]
        /\ crashes \in 0..MaxCrashes
    BY DEF Init, Calls
  <2>3. pc \in [Clients -> PCs]
    BY DEF Init, PCs
  <2> QED
    BY <2>1, <2>2, <2>3 DEF Init, TypeOK
<1>2. PhaseInv
  BY DEF Init, PhaseInv
<1>3. LockInv
  BY DEF Init, LockInv, MutualExclusion, NoLeakedLock, HoldsLock
<1>4. TmpInv
  BY DEF Init, TmpInv
<1>5. TraceInv
  BY DEF Init, TraceInv, Missing, Seed, Whole
<1>6. ExistingInv
  BY DEF Init, ExistingInv, Seed, Whole
<1> QED
  BY <1>1, <1>2, <1>3, <1>4, <1>5, <1>6 DEF IInv

----------------------------------------------------------------------------
(* Types, and the position of a call.                                      *)

LEMMA StepTypeOK ==
  ASSUME TypeOK, PhaseInv, [Next]_vars
  PROVE  TypeOK'
<1> USE AttemptsAssumption, CrashesAssumption DEF TypeOK, Files, PCs, Goto, Finish
<1>1. ASSUME NEW c \in Clients, Start(c) PROVE TypeOK'
  BY <1>1 DEF Start
<1>2. ASSUME NEW c \in Clients, Acquire(c) PROVE TypeOK'
  BY <1>2 DEF Acquire
<1>3. ASSUME NEW c \in Clients, Busy(c) PROVE TypeOK'
  BY <1>3 DEF Busy, PhaseInv
<1>4. ASSUME NEW c \in Clients, Retry(c) PROVE TypeOK'
  BY <1>4 DEF Retry
<1>5. ASSUME NEW c \in Clients, GiveUp(c) PROVE TypeOK'
  BY <1>5 DEF GiveUp
<1>6. ASSUME NEW c \in Clients, EnsureStore(c) PROVE TypeOK'
  BY <1>6 DEF EnsureStore
<1>7. ASSUME NEW c \in Clients, Probe(c) PROVE TypeOK'
  BY <1>7 DEF Probe
<1>8. ASSUME NEW c \in Clients, SeedOpen(c) PROVE TypeOK'
  BY <1>8 DEF SeedOpen, Torn
<1>9. ASSUME NEW c \in Clients, SeedWrite(c) PROVE TypeOK'
  BY <1>9 DEF SeedWrite, Seed, Whole
<1>10. ASSUME NEW c \in Clients, ReadStore(c) PROVE TypeOK'
  BY <1>10 DEF ReadStore
<1>11. ASSUME NEW c \in Clients, ReadTorn(c) PROVE TypeOK'
  BY <1>11 DEF ReadTorn
<1>12. ASSUME NEW c \in Clients, NotFound(c) PROVE TypeOK'
  BY <1>12 DEF NotFound
<1>13. ASSUME NEW c \in Clients, WriteTmp(c) PROVE TypeOK'
  BY <1>13 DEF WriteTmp, Whole
<1>14. ASSUME NEW c \in Clients, Rename(c) PROVE TypeOK'
  BY <1>14 DEF Rename, Missing
<1>15. ASSUME NEW c \in Clients, CloseLock(c) \/ UnlinkLock(c) PROVE TypeOK'
  BY <1>15 DEF CloseLock, UnlinkLock
<1>16. ASSUME NEW c \in Clients, IOError(c) \/ CloseError(c) \/ UnlinkError(c)
       PROVE TypeOK'
  <2>1. CASE IOError(c)
    BY <2>1 DEF IOError, Torn
  <2>2. CASE CloseError(c) \/ UnlinkError(c)
    BY <2>2 DEF CloseError, UnlinkError
  <2> QED
    BY <1>16, <2>1, <2>2
<1>17. ASSUME Crash PROVE TypeOK'
  <2>1. crashes' \in 0..MaxCrashes
    BY <1>17 DEF Crash
  <2>2. pc' \in [Clients -> PCs]
    BY <1>17 DEF Crash
  <2>3. outcome' \in [Clients -> {"none", "ok", "null", "failed", "releaseError", "lost"}]
    BY <1>17 DEF Crash
  <2> QED
    BY <1>17, <2>1, <2>2, <2>3 DEF Crash
<1>18. ASSUME UNCHANGED vars PROVE TypeOK'
  BY <1>18 DEF vars
<1> QED
  BY <1>1, <1>2, <1>3, <1>4, <1>5, <1>6, <1>7, <1>8, <1>9, <1>10, <1>11, <1>12,
     <1>13, <1>14, <1>15, <1>16, <1>17, <1>18 DEF Next, Step

LEMMA StepPhaseInv ==
  ASSUME TypeOK, PhaseInv, [Next]_vars
  PROVE  PhaseInv'
<1> USE AttemptsAssumption DEF TypeOK, PhaseInv, Mutates, Goto, Finish
<1>1. ASSUME NEW c \in Clients, Start(c) PROVE PhaseInv'
  BY <1>1 DEF Start
<1>2. ASSUME NEW c \in Clients, Acquire(c) PROVE PhaseInv'
  BY <1>2 DEF Acquire
<1>3. ASSUME NEW c \in Clients, Busy(c) PROVE PhaseInv'
  BY <1>3 DEF Busy
<1>4. ASSUME NEW c \in Clients, Retry(c) PROVE PhaseInv'
  BY <1>4 DEF Retry
<1>5. ASSUME NEW c \in Clients, GiveUp(c) PROVE PhaseInv'
  BY <1>5 DEF GiveUp
<1>6. ASSUME NEW c \in Clients, EnsureStore(c) PROVE PhaseInv'
  BY <1>6 DEF EnsureStore
<1>7. ASSUME NEW c \in Clients, Probe(c) PROVE PhaseInv'
  BY <1>7 DEF Probe
<1>8. ASSUME NEW c \in Clients, SeedOpen(c) PROVE PhaseInv'
  BY <1>8 DEF SeedOpen
<1>9. ASSUME NEW c \in Clients, SeedWrite(c) PROVE PhaseInv'
  BY <1>9 DEF SeedWrite
<1>10. ASSUME NEW c \in Clients, ReadStore(c) PROVE PhaseInv'
  BY <1>10 DEF ReadStore
<1>11. ASSUME NEW c \in Clients, ReadTorn(c) PROVE PhaseInv'
  BY <1>11 DEF ReadTorn
<1>12. ASSUME NEW c \in Clients, NotFound(c) PROVE PhaseInv'
  BY <1>12 DEF NotFound
<1>13. ASSUME NEW c \in Clients, WriteTmp(c) PROVE PhaseInv'
  BY <1>13 DEF WriteTmp
<1>14. ASSUME NEW c \in Clients, Rename(c) PROVE PhaseInv'
  BY <1>14 DEF Rename
<1>15. ASSUME NEW c \in Clients, CloseLock(c) \/ UnlinkLock(c) PROVE PhaseInv'
  BY <1>15 DEF CloseLock, UnlinkLock
<1>16. ASSUME NEW c \in Clients, IOError(c) \/ CloseError(c) \/ UnlinkError(c)
       PROVE PhaseInv'
  BY <1>16 DEF IOError, CloseError, UnlinkError
<1>17. ASSUME Crash PROVE PhaseInv'
  BY <1>17 DEF Crash
<1>18. ASSUME UNCHANGED vars PROVE PhaseInv'
  BY <1>18 DEF vars
<1> QED
  BY <1>1, <1>2, <1>3, <1>4, <1>5, <1>6, <1>7, <1>8, <1>9, <1>10, <1>11, <1>12,
     <1>13, <1>14, <1>15, <1>16, <1>17, <1>18 DEF Next, Step

----------------------------------------------------------------------------
(* Mutual exclusion.  Seen from the lock there are five kinds of step.     *)

\* What a step may do to the lock and its holders.
Others(c) == \A d \in Clients \ {c} : HoldsLock(d)' = HoldsLock(d)
Taken(c) == /\ ~lockFile /\ lockFile' /\ HoldsLock(c)'
            /\ crashes' = crashes /\ leftLock' = leftLock /\ Others(c)
Released(c) == /\ HoldsLock(c) /\ ~HoldsLock(c)' /\ ~lockFile'
               /\ leftLock' = leftLock /\ Others(c)
LeftBehind(c) == /\ HoldsLock(c) /\ ~HoldsLock(c)' /\ lockFile' = lockFile
                 /\ leftLock' /\ Others(c)
Orphaned == /\ crashes' # 0 /\ lockFile' = lockFile /\ leftLock' = leftLock
            /\ \A d \in Clients : ~HoldsLock(d)'
Same == /\ UNCHANGED <<lockFile, crashes, leftLock>>
        /\ \A d \in Clients : HoldsLock(d)' = HoldsLock(d)

\* The lock changes hands in four ways only, and every other step keeps the
\* set of holders.
LEMMA HoldersChange ==
  ASSUME TypeOK, PhaseInv, [Next]_vars
  PROVE  \/ \E c \in Clients : Taken(c) \/ Released(c) \/ LeftBehind(c)
         \/ Orphaned
         \/ Same
<1> USE DEF TypeOK, PhaseInv, HoldsLock, Mutates, Goto, Finish, Others, Taken, Released,
            LeftBehind, Orphaned, Same
<1>1. ASSUME NEW c \in Clients, Start(c) PROVE Same
  BY <1>1 DEF Start
<1>2. ASSUME NEW c \in Clients, Acquire(c) PROVE Taken(c)
  BY <1>2 DEF Acquire
<1>3. ASSUME NEW c \in Clients, Busy(c) \/ Retry(c) \/ GiveUp(c) PROVE Same
  BY <1>3 DEF Busy, Retry, GiveUp
<1>4. ASSUME NEW c \in Clients, EnsureStore(c) \/ Probe(c) \/ SeedOpen(c) \/ SeedWrite(c)
      PROVE  Same
  BY <1>4 DEF EnsureStore, Probe, SeedOpen, SeedWrite
<1>5. ASSUME NEW c \in Clients, ReadStore(c) \/ ReadTorn(c) \/ NotFound(c) PROVE Same
  BY <1>5 DEF ReadStore, ReadTorn, NotFound
<1>6. ASSUME NEW c \in Clients, WriteTmp(c) \/ Rename(c) \/ CloseLock(c) PROVE Same
  BY <1>6 DEF WriteTmp, Rename, CloseLock
<1>7. ASSUME NEW c \in Clients, UnlinkLock(c) PROVE Released(c)
  BY <1>7 DEF UnlinkLock
<1>8. ASSUME NEW c \in Clients, IOError(c) PROVE Same
  BY <1>8 DEF IOError
<1>9. ASSUME NEW c \in Clients, CloseError(c) \/ UnlinkError(c) PROVE LeftBehind(c)
  BY <1>9 DEF CloseError, UnlinkError
<1>10. ASSUME Crash PROVE Orphaned
  BY <1>10, CrashesAssumption DEF Crash
<1>11. ASSUME UNCHANGED vars PROVE Same
  BY <1>11 DEF vars
<1> QED
  <2> HIDE DEF Same, HoldsLock, Taken, Released, LeftBehind, Orphaned
  <2> QED
    BY <1>1, <1>2, <1>3, <1>4, <1>5, <1>6, <1>7, <1>8, <1>9, <1>10, <1>11 DEF Next, Step

LEMMA StepLockInv ==
  ASSUME TypeOK, PhaseInv, LockInv, [Next]_vars
  PROVE  LockInv'
<1> USE DEF LockInv, MutualExclusion, NoLeakedLock, TypeOK, Others
<1>1. ASSUME NEW c \in Clients, Taken(c) PROVE LockInv'
  BY <1>1 DEF Taken
<1>2. ASSUME NEW c \in Clients, Released(c) PROVE LockInv'
  BY <1>2 DEF Released
<1>3. ASSUME NEW c \in Clients, LeftBehind(c) PROVE LockInv'
  BY <1>3 DEF LeftBehind
<1>4. ASSUME Orphaned PROVE LockInv'
  BY <1>4, CrashesAssumption DEF Orphaned
<1>5. ASSUME Same PROVE LockInv'
  BY <1>5 DEF Same
<1> QED
  BY <1>1, <1>2, <1>3, <1>4, <1>5, HoldersChange

----------------------------------------------------------------------------
(* The temp file and the records a call has read.                          *)

LEMMA StepTmpInv ==
  ASSUME TypeOK, PhaseInv, LockInv, TmpInv, [Next]_vars
  PROVE  TmpInv'
<1> USE DEF TypeOK, TmpInv, Goto, Finish
<1>1. ASSUME NEW c \in Clients, NEW d \in Clients,
             pc[c] \in {"write", "rename"}, pc[d] = "rename"
      PROVE  c = d
  BY <1>1 DEF LockInv, MutualExclusion, HoldsLock, PhaseInv
<1>2. ASSUME NEW c \in Clients,
             \/ Start(c) \/ Acquire(c) \/ Busy(c) \/ Retry(c) \/ GiveUp(c)
             \/ EnsureStore(c) \/ Probe(c) \/ SeedOpen(c) \/ SeedWrite(c)
      PROVE  TmpInv'
  BY <1>2 DEF Start, Acquire, Busy, Retry, GiveUp, EnsureStore, Probe, SeedOpen, SeedWrite
<1>3. ASSUME NEW c \in Clients,
             \/ ReadStore(c) \/ ReadTorn(c) \/ NotFound(c) \/ CloseLock(c)
             \/ UnlinkLock(c) \/ CloseError(c) \/ UnlinkError(c)
      PROVE  TmpInv'
  BY <1>3 DEF ReadStore, ReadTorn, NotFound, CloseLock, UnlinkLock, CloseError, UnlinkError
<1>4. ASSUME NEW c \in Clients, WriteTmp(c) PROVE TmpInv'
  BY <1>1, <1>4 DEF WriteTmp
<1>5. ASSUME NEW c \in Clients, Rename(c) PROVE TmpInv'
  BY <1>1, <1>5 DEF Rename
<1>6. ASSUME NEW c \in Clients, IOError(c) PROVE TmpInv'
  BY <1>1, <1>6 DEF IOError
<1>7. ASSUME Crash PROVE TmpInv'
  BY <1>7 DEF Crash
<1>8. ASSUME UNCHANGED vars PROVE TmpInv'
  BY <1>8 DEF vars
<1> QED
  BY <1>2, <1>3, <1>4, <1>5, <1>6, <1>7, <1>8 DEF Next, Step

LEMMA StepTraceInv ==
  ASSUME TypeOK, PhaseInv, TmpInv, TraceInv, [Next]_vars
  PROVE  TraceInv'
<1> USE DEF TypeOK, TraceInv, Goto, Finish, PhaseInv
<1>1. ASSUME NEW c \in Clients,
             Start(c) \/ Acquire(c) \/ Busy(c) \/ Retry(c) \/ EnsureStore(c) \/ Probe(c)
      PROVE  TraceInv'
  BY <1>1 DEF Start, Acquire, Busy, Retry, EnsureStore, Probe
<1>2. ASSUME NEW c \in Clients, GiveUp(c) PROVE TraceInv'
  BY <1>2 DEF GiveUp
<1>3. ASSUME NEW c \in Clients, SeedOpen(c) \/ SeedWrite(c) PROVE TraceInv'
  BY <1>3 DEF SeedOpen, SeedWrite, Torn, Seed, Whole
<1>4. ASSUME NEW c \in Clients, ReadStore(c) PROVE TraceInv'
  BY <1>4 DEF ReadStore
<1>5. ASSUME NEW c \in Clients, ReadTorn(c) \/ NotFound(c) PROVE TraceInv'
  BY <1>5 DEF ReadTorn, NotFound
<1>6. ASSUME NEW c \in Clients,
             WriteTmp(c) \/ CloseLock(c) \/ UnlinkLock(c) \/ CloseError(c) \/ UnlinkError(c)
      PROVE  TraceInv'
  BY <1>6 DEF WriteTmp, CloseLock, UnlinkLock, CloseError, UnlinkError
<1>7. ASSUME NEW c \in Clients, Rename(c) PROVE TraceInv'
  <2>1. disk'.marks = seen[c] \union {c} /\ seen' = seen
    BY <1>7 DEF Rename, TmpInv, Whole
  <2>2. outcome'[c] = "ok" /\ \A d \in Clients \ {c} : outcome'[d] = outcome[d]
    BY <1>7 DEF Rename
  <2>3. \A d, e \in Clients : d \in seen[e] => outcome[d] \in {"ok", "lost", "releaseError"}
    OBVIOUS
  <2> QED
    BY <2>1, <2>2, <2>3
<1>8. ASSUME NEW c \in Clients, IOError(c) PROVE TraceInv'
  BY <1>8 DEF IOError
<1>9. ASSUME Crash PROVE TraceInv'
  BY <1>9 DEF Crash
<1>10. ASSUME UNCHANGED vars PROVE TraceInv'
  BY <1>10 DEF vars
<1> QED
  BY <1>1, <1>2, <1>3, <1>4, <1>5, <1>6, <1>7, <1>8, <1>9, <1>10 DEF Next, Step

LEMMA StepExistingInv ==
  ASSUME TypeOK, PhaseInv, LockInv, TmpInv, ExistingInv, [Next]_vars
  PROVE  ExistingInv'
<1> USE DEF TypeOK, ExistingInv, Goto, Finish, Mutates
<1> SUFFICES ASSUME boot' = "existing" PROVE ExistingInv'
  BY DEF ExistingInv
<1>1. boot = "existing"
  BY DEF Next, Step, Start, Acquire, Busy, Retry, GiveUp, EnsureStore, Probe,
         SeedOpen, SeedWrite, ReadStore, ReadTorn, NotFound, WriteTmp, Rename,
         CloseLock, UnlinkLock, IOError, CloseError, UnlinkError, Crash, vars
<1> USE <1>1
<1>2. ASSUME NEW c \in Clients, NEW d \in Clients,
             pc[c] = "rename", pc[d] \in {"write", "rename"}
      PROVE  c = d
  BY <1>2 DEF LockInv, MutualExclusion, HoldsLock, PhaseInv
<1>3. ASSUME NEW c \in Clients,
             Start(c) \/ Acquire(c) \/ Busy(c) \/ Retry(c) \/ EnsureStore(c) \/ Probe(c)
      PROVE  ExistingInv'
  BY <1>3 DEF Start, Acquire, Busy, Retry, EnsureStore, Probe
<1>4. ASSUME NEW c \in Clients, SeedOpen(c) \/ SeedWrite(c) PROVE ExistingInv'
  BY <1>4 DEF SeedOpen, SeedWrite
<1>5. ASSUME NEW c \in Clients, ReadStore(c) \/ ReadTorn(c) PROVE ExistingInv'
  BY <1>5 DEF ReadStore, ReadTorn
<1>6. ASSUME NEW c \in Clients, GiveUp(c) \/ NotFound(c) PROVE ExistingInv'
  BY <1>6 DEF GiveUp, NotFound
<1>7. ASSUME NEW c \in Clients,
             WriteTmp(c) \/ CloseLock(c) \/ UnlinkLock(c) \/ CloseError(c) \/ UnlinkError(c)
      PROVE  ExistingInv'
  BY <1>7 DEF WriteTmp, CloseLock, UnlinkLock, CloseError, UnlinkError, PhaseInv
<1>8. ASSUME NEW c \in Clients, Rename(c) PROVE ExistingInv'
  <2>1. /\ disk'.state = "whole"
        /\ disk'.marks = disk.marks \union {c}
        /\ seedFds' = {}
    BY <1>8 DEF Rename, TmpInv, Whole
  <2>2. ASSUME NEW d \in Clients
        PROVE  /\ pc'[d] \notin {"seedopen", "seedwrite"}
               /\ pc'[d] \in {"write", "rename"} => seen'[d] = disk'.marks
    BY <1>8, <1>2 DEF Rename
  <2>3. ASSUME NEW d \in Clients, Mutates(d)', pc'[d] \in {"release", "unlink", "done"},
               outcome'[d] = "ok"
        PROVE  d \in disk'.marks
    BY <1>8, <2>1, <2>3 DEF Rename
  <2> QED
    BY <2>1, <2>2, <2>3
<1>9. ASSUME NEW c \in Clients, IOError(c) PROVE ExistingInv'
  BY <1>9 DEF IOError
<1>10. ASSUME Crash PROVE ExistingInv'
  BY <1>10 DEF Crash, PhaseInv
<1>11. ASSUME UNCHANGED vars PROVE ExistingInv'
  BY <1>11 DEF vars
<1> QED
  BY <1>3, <1>4, <1>5, <1>6, <1>7, <1>8, <1>9, <1>10, <1>11 DEF Next, Step

----------------------------------------------------------------------------
(* The theorems.                                                           *)

(* The conjunction of all parts is an invariant of the file store.         *)
THEOREM Invariance == Spec => []IInv
<1>1. Init => IInv
  BY InitIInv
<1>2. IInv /\ [Next]_vars => IInv'
  BY StepTypeOK, StepPhaseInv, StepLockInv, StepTmpInv, StepTraceInv,
     StepExistingInv DEF IInv
<1> QED
  BY <1>1, <1>2, PTL DEF Spec

(* Every variable keeps its type.                                          *)
THEOREM Typing == Spec => []TypeOK
<1>1. IInv => TypeOK
  BY DEF IInv
<1> QED
  BY <1>1, Invariance, PTL

(* withLock (data-store.ts) is a critical section for any number of        *)
(* callers, whatever times out, fails or crashes.                          *)
THEOREM Exclusion == Spec => []MutualExclusion
<1>1. IInv => MutualExclusion
  BY DEF IInv, LockInv
<1> QED
  BY <1>1, Invariance, PTL

(* No path through withLock leaves the lock file behind but a crash or a   *)
(* release the file system refused; after the latter nobody ever enters.   *)
THEOREM LockNotLeaked == Spec => []NoLeakedLock
<1>1. IInv => NoLeakedLock
  BY DEF IInv, LockInv
<1> QED
  BY <1>1, Invariance, PTL

(* A mutation of an existing store that was acknowledged is never lost.    *)
THEOREM MutationsKept == Spec => []NoLostMutation
<1>1. IInv => NoLostMutation
  BY DEF IInv, NoLostMutation, AcknowledgedStays, Acknowledged, ExistingInv
<1> QED
  BY <1>1, Invariance, PTL

(* A mutation that failed, or found no record, has changed nothing; one    *)
(* whose release threw may have, and the lock it left keeps everyone out.  *)
THEOREM FailuresTraceless == Spec => []FailedLeavesNoTrace
<1>1. IInv => FailedLeavesNoTrace
  BY DEF IInv, FailedLeavesNoTrace, TraceInv, PhaseInv, LockInv, NoLeakedLock
<1> QED
  BY <1>1, Invariance, PTL

----------------------------------------------------------------------------
(* Refinement.  A step of a store that is not covered changes nothing the  *)
(* abstract store sees; a step of one that is covered is one abstract      *)
(* action of the same client, or none.                                     *)

\* A step that moves no mark, outcome or status is a stutter.
LEMMA Stutter ==
  ASSUME UNCHANGED <<boot, call, outcome, seen>>,
         AbsMarks' = AbsMarks, AbsStatus' = AbsStatus
  PROVE  UNCHANGED Atomic!vars
BY DEF Atomic!vars, AbsResult, AbsAnswer, Covered, Mutates

LEMMA UncoveredStutters ==
  ASSUME TypeOK, [Next]_vars, ~Covered
  PROVE  UNCHANGED Atomic!vars
<1>1. boot' = boot /\ call' = call
  BY DEF Next, Step, Start, Acquire, Busy, Retry, GiveUp, EnsureStore, Probe,
         SeedOpen, SeedWrite, ReadStore, ReadTorn, NotFound, WriteTmp, Rename,
         CloseLock, UnlinkLock, IOError, CloseError, UnlinkError, Crash, vars
<1> QED
  BY <1>1 DEF Atomic!vars, AbsMarks, AbsStatus, AbsResult, AbsAnswer, Covered

\* A call of client c that ends its body with result r, marks and answers
\* aside, is abstractly decided.
LEMMA FinishDecides ==
  ASSUME TypeOK, PhaseInv, Covered, Covered', NEW c \in Clients,
         pc[c] \notin {"idle", "release", "unlink", "done"}, call' = call,
         NEW r \in {"ok", "null", "failed"},
         \/ Finish(c, r)
         \/ Goto(c, "done") /\ outcome' = [outcome EXCEPT ![c] = r]
  PROVE  Atomic!Decide(c, r)
<1> USE DEF TypeOK, PhaseInv, Goto, Finish, AbsStatus, AbsResult
<1>1. AbsStatus[c] = "pending"
  OBVIOUS
<1>2. PICK s \in {"decided", "returned"} : AbsStatus' = [AbsStatus EXCEPT ![c] = s]
  <2>1. CASE pc' = [pc EXCEPT ![c] = "done"]
    <3>1. AbsStatus' = [AbsStatus EXCEPT ![c] = "returned"]
      BY <2>1
    <3> QED
      BY <3>1
  <2>2. CASE pc' = [pc EXCEPT ![c] = "release"]
    <3>1. AbsStatus' = [AbsStatus EXCEPT ![c] = "decided"]
      BY <2>2
    <3> QED
      BY <3>1
  <2> QED
    BY <2>1, <2>2
<1>3. AbsResult' = [AbsResult EXCEPT ![c] = r]
  OBVIOUS
<1> QED
  BY <1>1, <1>2, <1>3 DEF Atomic!Decide

LEMMA CoveredSteps ==
  ASSUME IInv, [Next]_vars, Covered
  PROVE  [Atomic!Next]_(Atomic!vars)
<1> USE DEF IInv, TypeOK
<1>1. call' = call /\ boot' = boot /\ Covered'
  BY DEF Next, Step, Start, Acquire, Busy, Retry, GiveUp, EnsureStore, Probe,
         SeedOpen, SeedWrite, ReadStore, ReadTorn, NotFound, WriteTmp, Rename,
         CloseLock, UnlinkLock, IOError, CloseError, UnlinkError, Crash, vars, Covered
<1>2. ASSUME NEW c \in Clients, Start(c) PROVE Atomic!Call(c)
  <2>1. AbsStatus[c] = "idle" /\ AbsStatus' = [AbsStatus EXCEPT ![c] = "pending"]
    BY <1>1, <1>2 DEF Start, Goto, AbsStatus, PhaseInv, Mutates
  <2>2. UNCHANGED <<AbsMarks, AbsResult, AbsAnswer>>
    BY <1>1, <1>2 DEF Start, AbsMarks, AbsResult, AbsAnswer, Mutates
  <2> QED
    BY <1>1, <2>1, <2>2 DEF Atomic!Call
<1>3. ASSUME NEW c \in Clients,
             \/ Acquire(c) \/ Busy(c) \/ Retry(c) \/ EnsureStore(c) \/ Probe(c)
             \/ WriteTmp(c) \/ CloseLock(c)
      PROVE  UNCHANGED Atomic!vars
  <2>1. UNCHANGED <<disk, outcome, seen>>
    BY <1>3 DEF Acquire, Busy, Retry, EnsureStore, Probe, WriteTmp, CloseLock
  <2>2. AbsStatus' = AbsStatus
    BY <1>1, <1>3, <2>1
       DEF Acquire, Busy, Retry, EnsureStore, Probe, WriteTmp, CloseLock, Goto, AbsStatus,
           PhaseInv
  <2> QED
    BY <1>1, <2>1, <2>2, Stutter DEF AbsMarks
<1>4. ASSUME NEW c \in Clients, SeedOpen(c) \/ SeedWrite(c) \/ ReadTorn(c) PROVE FALSE
  BY <1>4 DEF SeedOpen, SeedWrite, ReadTorn, ExistingInv, Covered
<1>5. ASSUME NEW c \in Clients, GiveUp(c) \/ IOError(c) PROVE Atomic!Fail(c)
  <2>1. Atomic!Decide(c, "failed")
    BY <1>1, <1>5, FinishDecides DEF GiveUp, IOError
  <2>2. UNCHANGED <<AbsMarks, AbsAnswer>>
    BY <1>1, <1>5
       DEF GiveUp, IOError, AbsMarks, AbsAnswer, Mutates, Finish, Goto, PhaseInv
  <2> QED
    BY <1>1, <2>1, <2>2 DEF Atomic!Fail
<1>6. ASSUME NEW c \in Clients, NotFound(c) PROVE Atomic!NotFound(c)
  <2>1. Atomic!Decide(c, "null")
    BY <1>1, <1>6, FinishDecides DEF NotFound
  <2>2. UNCHANGED <<AbsMarks, AbsAnswer>>
    BY <1>1, <1>6 DEF NotFound, AbsMarks, AbsAnswer, Mutates, Finish, Goto, PhaseInv
  <2>3. call[c].kind = "update" /\ call[c].target \notin AbsMarks
    BY <1>6 DEF NotFound, AbsMarks, ExistingInv, Covered
  <2> QED
    BY <1>1, <2>1, <2>2, <2>3 DEF Atomic!NotFound
<1>7. ASSUME NEW c \in Clients, ReadStore(c), ~Mutates(c) PROVE Atomic!Read(c)
  <2>1. Atomic!Decide(c, "ok")
    BY <1>1, <1>7, FinishDecides DEF ReadStore
  <2>2. AbsMarks' = AbsMarks
    BY <1>1, <1>7 DEF ReadStore, AbsMarks
  <2>3. AbsAnswer' = [AbsAnswer EXCEPT ![c] = AbsMarks]
    BY <1>1, <1>7 DEF ReadStore, Finish, AbsMarks, AbsAnswer, Mutates, Covered, PhaseInv
  <2> QED
    BY <1>1, <1>7, <2>1, <2>2, <2>3 DEF Atomic!Read, Mutates
<1>8. ASSUME NEW c \in Clients, ReadStore(c), Mutates(c) PROVE UNCHANGED Atomic!vars
  <2>1. AbsMarks' = AbsMarks /\ AbsStatus' = AbsStatus /\ AbsResult' = AbsResult
    BY <1>1, <1>8 DEF ReadStore, Goto, AbsMarks, AbsStatus, AbsResult
  <2>2. AbsAnswer' = AbsAnswer
    BY <1>1, <1>8 DEF ReadStore, AbsAnswer, Mutates
  <2> QED
    BY <1>1, <2>1, <2>2 DEF Atomic!vars
<1>9. ASSUME NEW c \in Clients, Rename(c) PROVE Atomic!Apply(c)
  <2>1. Atomic!Decide(c, "ok")
    BY <1>1, <1>9, FinishDecides DEF Rename
  <2>2. AbsMarks' = AbsMarks \union {c}
    BY <1>1, <1>9 DEF Rename, AbsMarks, TmpInv, ExistingInv, Covered, Whole
  <2>3. AbsAnswer' = AbsAnswer
    <3>1. Mutates(c) /\ Mutates(c)' /\ seen' = seen
      BY <1>1, <1>9 DEF Rename, PhaseInv, Mutates
    <3>2. \A d \in Clients \ {c} : outcome'[d] = outcome[d]
      BY <1>9 DEF Rename, Finish
    <3>3. \A d \in Clients : ~Mutates(d)' /\ outcome'[d] = "ok"
                              <=> ~Mutates(d) /\ outcome[d] = "ok"
      BY <1>1, <3>1, <3>2 DEF Mutates
    <3> QED
      BY <1>1, <3>1, <3>3 DEF AbsAnswer
  <2>4. \/ call[c].kind = "create"
        \/ call[c].kind = "update" /\ call[c].target \in AbsMarks
    <3>1. call[c].kind \in {"create", "update"}
      <4>1. call[c] \in Ops
        OBVIOUS
      <4>2. call[c].kind \in {"read", "create", "update"}
        BY <4>1 DEF Ops
      <4> QED
        BY <1>9, <4>2 DEF Rename, PhaseInv, Mutates
    <3>2. AbsMarks = seen[c]
      BY <1>9 DEF Rename, ExistingInv, AbsMarks, Covered
    <3>3. call[c].kind = "update" => call[c].target \in seen[c]
      BY <1>9 DEF Rename, TmpInv
    <3> QED
      BY <3>1, <3>2, <3>3
  <2> QED
    BY <1>1, <2>1, <2>2, <2>3, <2>4 DEF Atomic!Apply
<1>10. ASSUME NEW c \in Clients, UnlinkLock(c) \/ UnlinkError(c) PROVE Atomic!Return(c)
  <2>1. AbsStatus[c] = "decided" /\ AbsStatus' = [AbsStatus EXCEPT ![c] = "returned"]
    BY <1>1, <1>10 DEF UnlinkLock, UnlinkError, Goto, AbsStatus, PhaseInv
  <2>2. UNCHANGED <<AbsMarks, AbsResult, AbsAnswer>>
    BY <1>1, <1>10 DEF UnlinkLock, UnlinkError, AbsMarks, AbsResult, AbsAnswer, Mutates
  <2> QED
    BY <1>1, <2>1, <2>2 DEF Atomic!Return
<1>11. ASSUME NEW c \in Clients, CloseError(c) PROVE Atomic!Lose(c)
  <2>1. AbsStatus[c] = "decided" /\ AbsStatus' = [AbsStatus EXCEPT ![c] = "returned"]
    BY <1>1, <1>11 DEF CloseError, Goto, AbsStatus, PhaseInv
  <2>2. AbsResult' = [AbsResult EXCEPT ![c] = "lost"]
    BY <1>1, <1>11 DEF CloseError, AbsResult
  <2>3. UNCHANGED <<AbsMarks, AbsAnswer>>
    BY <1>1, <1>11 DEF CloseError, AbsMarks, AbsAnswer, Mutates, PhaseInv
  <2> QED
    BY <1>1, <2>1, <2>2, <2>3 DEF Atomic!Lose
<1>12. ASSUME Crash PROVE Atomic!Crash
  <2>1. \A c \in Clients : pc[c] \in {"idle", "done"}
                               <=> AbsStatus[c] \notin {"pending", "decided"}
    BY DEF AbsStatus, Covered
  <2>2. AbsStatus' = [c \in Clients |->
                        IF AbsStatus[c] = "idle" THEN "idle" ELSE "returned"]
    BY <1>1, <1>12 DEF Crash, AbsStatus
  <2>3. AbsResult' = [c \in Clients |->
                        IF AbsStatus[c] \in {"pending", "decided"} THEN "lost"
                        ELSE AbsResult[c]]
    BY <1>1, <1>12, <2>1 DEF Crash, AbsResult
  <2>4. UNCHANGED <<AbsMarks, AbsAnswer>>
    BY <1>1, <1>12 DEF Crash, AbsMarks, AbsAnswer, Mutates, PhaseInv
  <2> QED
    BY <1>1, <2>2, <2>3, <2>4 DEF Atomic!Crash
<1>13. ASSUME UNCHANGED vars PROVE UNCHANGED Atomic!vars
  BY <1>13 DEF vars, Atomic!vars, AbsMarks, AbsStatus, AbsResult, AbsAnswer, Covered, Mutates
<1> QED
  BY <1>2, <1>3, <1>4, <1>5, <1>6, <1>7, <1>8, <1>9, <1>10, <1>11, <1>12,
     <1>13
     DEF Next, Step, Atomic!Next

(* Every behaviour of the file store, with a file from the start, is a     *)
(* behaviour of the atomic store.                                          *)
THEOREM Refinement == Spec => AtomicSpec
<1>1. Init => Atomic!Init
  BY DEF Init, Atomic!Init, AbsMarks, AbsStatus, AbsResult, AbsAnswer, Covered,
         Calls, Missing, Seed, Whole
<1>2. IInv /\ [Next]_vars => [Atomic!Next]_(Atomic!vars)
  BY CoveredSteps, UncoveredStutters DEF IInv
<1> QED
  BY <1>1, <1>2, Invariance, PTL DEF Spec, AtomicSpec, Atomic!Spec
=============================================================================
