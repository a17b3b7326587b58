----------------------------- MODULE FileStore -----------------------------
(***************************************************************************)
(* The JSON record store of the web application in file mode               *)
(* (lib/data-store.ts): an advisory lock file, read-modify-write under it, *)
(* a temp file renamed over the store, and a seed written on first use.    *)
(*                                                                         *)
(* A client is one call of the store's public API inside the Node process. *)
(* Calls interleave at every await, so each await is a step of its own.    *)
(* A record set is abstracted to the marks of the mutations in it: a       *)
(* create adds its own record, an update is recorded by its own mark and   *)
(* needs the record it targets.                                            *)
(***************************************************************************)
EXTENDS Naturals, FiniteSets

CONSTANTS
  Clients,      \* calls; each client makes one
  MaxAttempts,  \* times the lock file can be tried within the 2 s deadline
  MaxCrashes,   \* process crashes (bound)
  Boots         \* how store.json may be found at first: "existing", "missing",
                \* or "unreadable" (it exists, but reading it may fail once)

ASSUME AttemptsAssumption == MaxAttempts \in Nat \ {0}
ASSUME CrashesAssumption == MaxCrashes \in Nat
ASSUME BootsAssumption == Boots \subseteq {"existing", "missing", "unreadable"}

VARIABLES
  boot,         \* how store.json is found, chosen once
  lockFile,     \* store.lock exists
  disk,         \* store.json
  tmp,          \* store.json.tmp
  seedFds,      \* clients whose open seed descriptor refers to the current store.json
  initialized,  \* fileStoreInitialized
  call,         \* call[c]: the operation client c performs
  pc,           \* pc[c]: the await client c is at
  attempts,     \* attempts[c]: how often c found the lock taken
  seen,         \* seen[c]: the records c parsed from store.json
  outcome,      \* outcome[c]: what c's call reports; "releaseError": its body was
                \* over, but closing the lock's handle threw in the finally
  crashes,
  leftLock      \* history: a release ended without removing store.lock

vars == <<boot, lockFile, disk, tmp, seedFds, initialized, call, pc, attempts,
          seen, outcome, crashes, leftLock>>

Ops == [kind : {"read", "create", "update"}, target : Clients]

\* Only an update names a record: the one another client creates, or one that
\* does not exist (its own mark is never in the store before it writes).
Calls == {f \in [Clients -> Ops] :
            \A c \in Clients : f[c].kind # "update" => f[c].target = c}

Missing == [state |-> "missing", marks |-> {}]
Torn == [state |-> "torn", marks |-> {}]     \* truncated: does not parse
Whole(m) == [state |-> "whole", marks |-> m]
Seed == Whole({})

Mutates(c) == call[c].kind # "read"

\* Inside withLock: from the created lock file to its removal.
HoldsLock(c) ==
  Mutates(c) /\ pc[c] \in {"ensure", "probe", "seedopen", "seedwrite", "readfile",
                           "write", "rename", "release", "unlink"}

Init ==
  /\ boot \in Boots
  /\ lockFile = FALSE
  /\ disk = IF boot = "missing" THEN Missing ELSE Seed
  /\ tmp = Missing
  /\ seedFds = {}
  /\ initialized = FALSE
  /\ call \in Calls
  /\ pc = [c \in Clients |-> "idle"]
  /\ attempts = [c \in Clients |-> 0]
  /\ seen = [c \in Clients |-> {}]
  /\ outcome = [c \in Clients |-> "none"]
  /\ crashes = 0
  /\ leftLock = FALSE

Goto(c, l) == pc' = [pc EXCEPT ![c] = l]

\* Faulty variant of the next: no finally, an error skips the release.
FinishWithoutFinally(c, r) ==
  /\ Goto(c, IF Mutates(c) /\ r # "failed" THEN "release" ELSE "done")
  /\ outcome' = [outcome EXCEPT ![c] = r]

\* The body of a call is over: a mutation still has to release the lock.
Finish(c, r) ==
  /\ Goto(c, IF Mutates(c) THEN "release" ELSE "done")
  /\ outcome' = [outcome EXCEPT ![c] = r]

----------------------------------------------------------------------------
(* Faulty variants of single steps, one plausible mistake each.  No        *)
(* specification uses them; they show which mistake breaks which property. *)

\* open(LOCK_FILE, 'w'): an existing lock file is no obstacle.
AcquireAnyway(c) ==
  /\ pc[c] = "open"
  /\ lockFile' = TRUE
  /\ Goto(c, "ensure")
  /\ UNCHANGED <<boot, disk, tmp, seedFds, initialized, call, attempts, seen, outcome, crashes, leftLock>>

\* The clock is not looked at before the next attempt.
RetryForever(c) ==
  /\ pc[c] = "sleep"
  /\ Goto(c, "open")
  /\ UNCHANGED <<boot, lockFile, disk, tmp, seedFds, initialized, call, attempts, seen, outcome, crashes, leftLock>>

\* There is no error at the deadline.
GiveUpNever(c) == FALSE /\ UNCHANGED vars /\ pc[c] = "sleep"

\* acquireLock is called inside the try of withLock: giving up releases too.
GiveUpReleasing(c) ==
  /\ pc[c] = "sleep"
  /\ Goto(c, "release")
  /\ outcome' = [outcome EXCEPT ![c] = "failed"]
  /\ UNCHANGED <<boot, lockFile, disk, tmp, seedFds, initialized, call, attempts, seen, crashes, leftLock>>

\* writeStore truncates and writes store.json itself.
WriteInPlace(c) ==
  /\ pc[c] = "write"
  /\ call[c].kind = "update" => call[c].target \in seen[c]
  /\ disk' = Torn
  /\ tmp' = Whole(seen[c] \union {c})
  /\ Goto(c, "rename")
  /\ UNCHANGED <<boot, lockFile, seedFds, initialized, call, attempts, seen, outcome, crashes, leftLock>>

\* writeStore does something after the rename that can fail.
IOErrorAfterRename(c) ==
  /\ pc[c] = "rename"
  /\ disk' = tmp
  /\ Finish(c, "failed")
  /\ UNCHANGED <<boot, lockFile, tmp, seedFds, initialized, call, attempts, seen, crashes, leftLock>>

----------------------------------------------------------------------------
(* One client: acquireLock, readStore (with ensureStore), the body of the  *)
(* mutation, writeStore, releaseLock.                                      *)

Start(c) ==
  /\ pc[c] = "idle"
  /\ Goto(c, IF Mutates(c) THEN "open" ELSE "ensure")
  /\ UNCHANGED <<boot, lockFile, disk, tmp, seedFds, initialized, call, attempts, seen, outcome, crashes, leftLock>>

\* open(LOCK_FILE, 'wx') creates the file.
Acquire(c) ==
  /\ pc[c] = "open"
  /\ ~lockFile
  /\ lockFile' = TRUE
  /\ Goto(c, "ensure")
  /\ UNCHANGED <<boot, disk, tmp, seedFds, initialized, call, attempts, seen, outcome, crashes, leftLock>>

\* EEXIST: sleep 20 ms before the next look at the clock.
Busy(c) ==
  /\ pc[c] = "open"
  /\ lockFile
  /\ attempts' = [attempts EXCEPT ![c] = @ + 1]
  /\ Goto(c, "sleep")
  /\ UNCHANGED <<boot, lockFile, disk, tmp, seedFds, initialized, call, seen, outcome, crashes, leftLock>>

Retry(c) ==
  /\ pc[c] = "sleep"
  /\ attempts[c] < MaxAttempts
  /\ Goto(c, "open")
  /\ UNCHANGED <<boot, lockFile, disk, tmp, seedFds, initialized, call, attempts, seen, outcome, crashes, leftLock>>

\* The deadline passed: acquireLock throws, outside the try of withLock.
GiveUp(c) ==
  /\ pc[c] = "sleep"
  /\ Goto(c, "done")
  /\ outcome' = [outcome EXCEPT ![c] = "failed"]
  /\ UNCHANGED <<boot, lockFile, disk, tmp, seedFds, initialized, call, attempts, seen, crashes, leftLock>>

\* ensureStore: its flag is tested once, before the awaits.
EnsureStore(c) ==
  /\ pc[c] = "ensure"
  /\ Goto(c, IF initialized THEN "readfile" ELSE "probe")
  /\ UNCHANGED <<boot, lockFile, disk, tmp, seedFds, initialized, call, attempts, seen, outcome, crashes, leftLock>>

\* readFile succeeds on any existing file, whatever is in it.  Any error at
\* all counts as a missing file and leads to the seed.
Probe(c) ==
  /\ pc[c] = "probe"
  /\ \/ /\ disk.state = "missing" \/ boot = "unreadable"
        /\ Goto(c, "seedopen")
        /\ UNCHANGED initialized
     \/ /\ disk.state # "missing"
        /\ Goto(c, "readfile")
        /\ initialized' = TRUE
  /\ UNCHANGED <<boot, lockFile, disk, tmp, seedFds, call, attempts, seen, outcome, crashes, leftLock>>

\* writeFile(DATA_FILE, seed): the open truncates what is there by now.
SeedOpen(c) ==
  /\ pc[c] = "seedopen"
  /\ disk' = Torn
  /\ seedFds' = seedFds \union {c}
  /\ Goto(c, "seedwrite")
  /\ UNCHANGED <<boot, lockFile, tmp, initialized, call, attempts, seen, outcome, crashes, leftLock>>

\* The bytes go to the file that was opened, which a rename may have replaced.
SeedWrite(c) ==
  /\ pc[c] = "seedwrite"
  /\ disk' = IF c \in seedFds THEN Seed ELSE disk
  /\ seedFds' = seedFds \ {c}
  /\ initialized' = TRUE
  /\ Goto(c, "readfile")
  /\ UNCHANGED <<boot, lockFile, tmp, call, attempts, seen, outcome, crashes, leftLock>>

ReadStore(c) ==
  /\ pc[c] = "readfile"
  /\ disk.state = "whole"
  /\ seen' = [seen EXCEPT ![c] = disk.marks]
  /\ IF Mutates(c) THEN Goto(c, "write") /\ UNCHANGED outcome ELSE Finish(c, "ok")
  /\ UNCHANGED <<boot, lockFile, disk, tmp, seedFds, initialized, call, attempts, crashes, leftLock>>

\* A truncated file: JSON.parse throws.
ReadTorn(c) ==
  /\ pc[c] = "readfile"
  /\ disk.state = "torn"
  /\ Finish(c, "failed")
  /\ UNCHANGED <<boot, lockFile, disk, tmp, seedFds, initialized, call, attempts, seen, crashes, leftLock>>

\* An update whose record is not there returns null and writes nothing.
NotFound(c) ==
  /\ pc[c] = "write"
  /\ call[c].kind = "update"
  /\ call[c].target \notin seen[c]
  /\ Finish(c, "null")
  /\ UNCHANGED <<boot, lockFile, disk, tmp, seedFds, initialized, call, attempts, seen, crashes, leftLock>>

WriteTmp(c) ==
  /\ pc[c] = "write"
  /\ call[c].kind = "update" => call[c].target \in seen[c]
  /\ tmp' = Whole(seen[c] \union {c})
  /\ Goto(c, "rename")
  /\ UNCHANGED <<boot, lockFile, disk, seedFds, initialized, call, attempts, seen, outcome, crashes, leftLock>>

\* rename(tmp, DATA_FILE): descriptors opened before now refer to the old file.
Rename(c) ==
  /\ pc[c] = "rename"
  /\ disk' = tmp
  /\ tmp' = Missing
  /\ seedFds' = {}
  /\ Finish(c, "ok")
  /\ UNCHANGED <<boot, lockFile, initialized, call, attempts, seen, crashes, leftLock>>

\* releaseLock: close the handle,
CloseLock(c) ==
  /\ pc[c] = "release"
  /\ Goto(c, "unlink")
  /\ UNCHANGED <<boot, lockFile, disk, tmp, seedFds, initialized, call, attempts, seen, outcome, crashes, leftLock>>

\* and unlink the lock file, whoever created it.
UnlinkLock(c) ==
  /\ pc[c] = "unlink"
  /\ lockFile' = FALSE
  /\ Goto(c, "done")
  /\ UNCHANGED <<boot, disk, tmp, seedFds, initialized, call, attempts, seen, outcome, crashes, leftLock>>

\* close throws: the unlink is skipped, and the error replaces what the body
\* was to report.
CloseError(c) ==
  /\ pc[c] = "release"
  /\ Goto(c, "done")
  /\ outcome' = [outcome EXCEPT ![c] = "releaseError"]
  /\ leftLock' = TRUE
  /\ UNCHANGED <<boot, lockFile, disk, tmp, seedFds, initialized, call, attempts, seen, crashes>>

\* unlink throws: the error is swallowed, the caller does not hear of it.
UnlinkError(c) ==
  /\ pc[c] = "unlink"
  /\ Goto(c, "done")
  /\ leftLock' = TRUE
  /\ UNCHANGED <<boot, lockFile, disk, tmp, seedFds, initialized, call, attempts, seen, outcome, crashes>>

\* The file system refuses an operation of the body (disk full, permissions):
\* the call throws.  A refused write leaves what it was writing truncated.
IOError(c) ==
  /\ \/ /\ pc[c] = "open"
        /\ Goto(c, "done")
        /\ outcome' = [outcome EXCEPT ![c] = "failed"]
        /\ UNCHANGED <<tmp, seedFds>>
     \/ /\ pc[c] = "seedwrite"
        /\ seedFds' = seedFds \ {c}
        /\ Finish(c, "failed")
        /\ UNCHANGED tmp
     \/ /\ pc[c] = "write"
        /\ call[c].kind = "update" => call[c].target \in seen[c]
        /\ tmp' = Torn
        /\ Finish(c, "failed")
        /\ UNCHANGED seedFds
     \/ /\ \/ pc[c] = "ensure" /\ ~initialized
           \/ pc[c] \in {"seedopen", "readfile", "rename"}
        /\ Finish(c, "failed")
        /\ UNCHANGED <<tmp, seedFds>>
  /\ UNCHANGED <<boot, lockFile, disk, initialized, call, attempts, seen, crashes, leftLock>>

\* The process dies between any two steps and is started again.  Files stay,
\* the lock file among them: nothing removes it at startup.
Crash ==
  /\ crashes < MaxCrashes
  /\ crashes' = crashes + 1
  /\ initialized' = FALSE
  /\ seedFds' = {}
  /\ pc' = [c \in Clients |-> IF pc[c] = "idle" THEN "idle" ELSE "done"]
  /\ outcome' = [c \in Clients |->
                   IF pc[c] \in {"idle", "done"} THEN outcome[c] ELSE "lost"]
  /\ UNCHANGED <<boot, lockFile, disk, tmp, call, attempts, seen, leftLock>>

Step(c) ==
  \/ Acquire(c) \/ Busy(c) \/ Retry(c) \/ GiveUp(c)
  \/ EnsureStore(c) \/ Probe(c) \/ SeedOpen(c) \/ SeedWrite(c)
  \/ ReadStore(c) \/ ReadTorn(c) \/ NotFound(c) \/ WriteTmp(c) \/ Rename(c)
  \/ CloseLock(c) \/ UnlinkLock(c)

Next ==
  \/ \E c \in Clients : \/ Start(c) \/ Step(c)
                        \/ IOError(c) \/ CloseError(c) \/ UnlinkError(c)
  \/ Crash

Spec == Init /\ [][Next]_vars

\* A call that has begun is carried on by the event loop; nothing makes a
\* client call, the disk fail or the process crash.
Fairness == \A c \in Clients : WF_vars(Step(c))

LiveSpec == Spec /\ Fairness

----------------------------------------------------------------------------
PCs == {"idle", "open", "sleep", "ensure", "probe", "seedopen", "seedwrite",
        "readfile", "write", "rename", "release", "unlink", "done"}
Files == [state : {"missing", "torn", "whole"}, marks : SUBSET Clients]

(* Every variable keeps its type. *)
TypeOK ==
  /\ boot \in Boots
  /\ lockFile \in BOOLEAN
  /\ disk \in Files
  /\ tmp \in Files
  /\ seedFds \subseteq Clients
  /\ initialized \in BOOLEAN
  /\ call \in [Clients -> Ops]
  /\ pc \in [Clients -> PCs]
  /\ attempts \in [Clients -> 0..MaxAttempts]
  /\ seen \in [Clients -> SUBSET Clients]
  /\ outcome \in [Clients -> {"none", "ok", "null", "failed", "releaseError", "lost"}]
  /\ crashes \in 0..MaxCrashes
  /\ leftLock \in BOOLEAN

(* withLock is a critical section: at most one mutation is between the     *)
(* creation of the lock file and its removal, whoever timed out meanwhile. *)
MutualExclusion ==
  \A c, d \in Clients : HoldsLock(c) /\ HoldsLock(d) => c = d

(* The lock file exists only while a mutation holds it, on every error     *)
(* path of the body too.  It is left behind by a crash, or by a release    *)
(* whose close or unlink the file system refused; in the latter case the   *)
(* store is locked for good, but no mutation ever runs beside another.     *)
NoLeakedLock ==
  /\ lockFile /\ crashes = 0 /\ ~leftLock => \E c \in Clients : HoldsLock(c)
  /\ leftLock => lockFile /\ \A c \in Clients : ~HoldsLock(c)

\* A mutation was reported as done.
Acknowledged(c) == Mutates(c) /\ pc[c] = "done" /\ outcome[c] = "ok"

(* A mutation whose caller was told it is done is in store.json.           *)
AcknowledgedStays ==
  \A c \in Clients : Acknowledged(c) => c \in disk.marks

(* In a store whose file was there and readable from the start, no         *)
(* acknowledged mutation is ever lost and the file always parses, through  *)
(* errors, timeouts and crashes.                                           *)
NoLostMutation ==
  boot = "existing" => AcknowledgedStays /\ disk.state = "whole"

(* A mutation that was reported as failed or as a missing record left no   *)
(* trace: callers may repeat it without applying it twice.  The one error  *)
(* that can follow a stored change is that of the release, and then the    *)
(* lock is still there: no repetition gets past it.                        *)
FailedLeavesNoTrace ==
  \A c \in Clients :
    /\ outcome[c] \in {"failed", "null"} => c \notin disk.marks
    /\ outcome[c] = "releaseError" /\ c \in disk.marks => lockFile

(* Every call that begins is answered, or its process crashed.             *)
EveryCallSettles ==
  \A c \in Clients : (pc[c] # "idle") ~> (pc[c] = "done")

(* withLock always releases: the store never stays locked for good, as     *)
(* long as the file system lets go of every lock.                          *)
LockAlwaysReleased == [](~leftLock) => []<>(~lockFile)

----------------------------------------------------------------------------
(* Refinement.  A call takes effect when its outcome is fixed: a read when *)
(* the file is parsed, a mutation at the rename.  The promise covers a     *)
(* store whose file is there from the start; any other is mapped to a      *)
(* store nobody has called.                                                *)

Covered == boot = "existing"

AbsMarks == IF Covered THEN disk.marks ELSE {}

AbsStatus == [c \in Clients |->
  IF ~Covered \/ pc[c] = "idle" THEN "idle"
  ELSE IF pc[c] = "done" THEN "returned"
  ELSE IF outcome[c] = "none" THEN "pending"
  ELSE "decided"]

\* The caller of a release that threw cannot tell whether its change is stored.
AbsResult == [c \in Clients |->
  IF ~Covered THEN "none"
  ELSE IF outcome[c] = "releaseError" THEN "lost" ELSE outcome[c]]

AbsAnswer == [c \in Clients |->
  IF Covered /\ ~Mutates(c) /\ outcome[c] = "ok" THEN seen[c] ELSE {}]

Atomic == INSTANCE AtomicStore
            WITH marks <- AbsMarks, status <- AbsStatus,
                 result <- AbsResult, answer <- AbsAnswer

(* The file store implements the atomic store: reads, updates and creates  *)
(* appear to happen one at a time, and a crash or a release that throws    *)
(* only cuts a call off before or after its instant.                       *)
AtomicSpec == Atomic!Spec
=============================================================================
