---------------------------- MODULE AtomicStore ----------------------------
(***************************************************************************)
(* What a caller of the record store is promised: every call takes effect  *)
(* at one instant between its start and its answer, or not at all.  A      *)
(* record set is abstracted to the marks of the mutations in it: the mark  *)
(* of a call is in `marks' from the instant its change is in the store.    *)
(* FileStore implements this specification when the store file is there    *)
(* from the start.                                                         *)
(***************************************************************************)
CONSTANTS Clients,   \* calls; each client makes one
          Ops        \* the operations a call can be, see FileStore

VARIABLES marks,     \* mutations that are in the store
          call,      \* call[c]: the operation c asked for
          status,    \* status[c]: how far c's call is
          result,    \* result[c]: what c is or will be told
          answer     \* answer[c]: the marks a read returned

vars == <<marks, call, status, result, answer>>

Init ==
  /\ marks = {}
  /\ call \in [Clients -> Ops]
  /\ status = [c \in Clients |-> "idle"]
  /\ result = [c \in Clients |-> "none"]
  /\ answer = [c \in Clients |-> {}]

Call(c) ==
  /\ status[c] = "idle"
  /\ status' = [status EXCEPT ![c] = "pending"]
  /\ UNCHANGED <<marks, call, result, answer>>

\* The instant a call takes effect, with the result r it reports, at once or
\* later.
Decide(c, r) ==
  /\ status[c] = "pending"
  /\ \E s \in {"decided", "returned"} : status' = [status EXCEPT ![c] = s]
  /\ result' = [result EXCEPT ![c] = r]

Read(c) ==
  /\ call[c].kind = "read"
  /\ Decide(c, "ok")
  /\ answer' = [answer EXCEPT ![c] = marks]
  /\ UNCHANGED <<marks, call>>

Apply(c) ==
  /\ \/ call[c].kind = "create"
     \/ call[c].kind = "update" /\ call[c].target \in marks
  /\ Decide(c, "ok")
  /\ marks' = marks \union {c}
  /\ UNCHANGED <<call, answer>>

NotFound(c) ==
  /\ call[c].kind = "update"
  /\ call[c].target \notin marks
  /\ Decide(c, "null")
  /\ UNCHANGED <<marks, call, answer>>

Fail(c) ==
  /\ Decide(c, "failed")
  /\ UNCHANGED <<marks, call, answer>>

Return(c) ==
  /\ status[c] = "decided"
  /\ status' = [status EXCEPT ![c] = "returned"]
  /\ UNCHANGED <<marks, call, result, answer>>

\* The change is decided, but the caller gets an error that does not say so.
Lose(c) ==
  /\ status[c] = "decided"
  /\ status' = [status EXCEPT ![c] = "returned"]
  /\ result' = [result EXCEPT ![c] = "lost"]
  /\ UNCHANGED <<marks, call, answer>>

\* The process dies: calls without an answer never get one.
Crash ==
  /\ status' = [c \in Clients |-> IF status[c] = "idle" THEN "idle" ELSE "returned"]
  /\ result' = [c \in Clients |->
                  IF status[c] \in {"pending", "decided"} THEN "lost" ELSE result[c]]
  /\ UNCHANGED <<marks, call, answer>>

Next ==
  \/ \E c \in Clients : \/ Call(c) \/ Read(c) \/ Apply(c)
                        \/ NotFound(c) \/ Fail(c) \/ Return(c) \/ Lose(c)
  \/ Crash

Spec == Init /\ [][Next]_vars
=============================================================================
