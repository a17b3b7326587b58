------------------------------ MODULE AuditLog ------------------------------
(***************************************************************************)
(* The audit log of the web application (lib/audit.ts, lib/db/audit-db.ts):*)
(* handlers append events, and in file mode every append is followed by a  *)
(* rewrite of the file when it holds more lines than the cap.  Nothing     *)
(* keeps two of these calls apart.                                         *)
(*                                                                         *)
(* The file is a sequence of lines: events, and lines that do not parse.   *)
(***************************************************************************)
EXTENDS Naturals, Sequences, FiniteSets

CONSTANTS
  Events,      \* the events; each is appended by one call
  Cap,         \* MAX_AUDIT_ENTRIES
  Backends,    \* where the log may live, of "file" and "db"
  Torn,        \* a line that does not parse
  MaxFaults,   \* failing accesses (bound)
  MaxCrashes   \* process crashes (bound)

ASSUME EventsAssumption == IsFiniteSet(Events)
ASSUME CapAssumption == Cap \in Nat \ {0}
ASSUME BackendsAssumption == Backends \subseteq {"file", "db"}
ASSUME TornAssumption == Torn \notin Events
ASSUME FaultsAssumption == MaxFaults \in Nat
ASSUME CrashesAssumption == MaxCrashes \in Nat

VARIABLES
  backend,
  lines,      \* the lines of the audit file, or the rows of the table
  ragged,     \* the last line has no line feed
  pc,         \* pc[e]: the await the call for event e is at
  kept,       \* kept[e]: the lines its rewrite will write
  result,     \* result[e]: what the call answers
  begun,      \* the events in the order of their time stamps (history)
  appended,   \* the events in the order they reached the log (history)
  late,       \* the events whose own write was done when its error came (history)
  crossed,    \* an event was appended between another call's look at the cap and
              \* the end of its rewrite (history)
  faults, crashes

vars == <<backend, lines, ragged, pc, kept, result, begun, appended, late, crossed, faults, crashes>>

Init ==
  /\ backend \in Backends
  /\ lines = <<>>
  /\ ragged = FALSE
  /\ pc = [e \in Events |-> "idle"]
  /\ kept = [e \in Events |-> <<>>]
  /\ result = [e \in Events |-> "none"]
  /\ begun = <<>>
  /\ appended = <<>>
  /\ late = {}
  /\ crossed = FALSE
  /\ faults = 0
  /\ crashes = 0

Goto(e, l) == pc' = [pc EXCEPT ![e] = l]

Finish(e, r) ==
  /\ Goto(e, "done")
  /\ result' = [result EXCEPT ![e] = r]

Last(n, s) == SubSeq(s, Len(s) - n + 1, Len(s))

\* Of the lines s, those the cap leaves.
Newest(s) == IF Len(s) <= Cap THEN s ELSE Last(Cap, s)

UnderWay(e) == pc[e] \notin {"idle", "done"}

\* The lines after a line is added: a ragged last line swallows it.
Add(e) ==
  IF ragged THEN [lines EXCEPT ![Len(lines)] = Torn] ELSE Append(lines, e)

\* What can stick out of old once its first line is gone: the lines after one.
Rests(old) == {SubSeq(old, i + 1, Len(old)) : i \in 1..Len(old)}

\* What a file with the lines old holds once the lines new are written over its
\* beginning: nothing, part of a line or whole lines may stick out.
Overwrite(new, old) ==
  IF new = old THEN {new}
  ELSE {new} \union {new \o rest : rest \in Rests(old)}
             \union {Append(new, Torn) \o rest : rest \in Rests(old)}

\* Calls that have looked at the cap and still write back what they saw.
Rewriting == {e \in Events : pc[e] \in {"truncate", "rewrite"}}

----------------------------------------------------------------------------
(* Faulty variants, one plausible mistake each; no specification uses them. *)

\* One line too many is kept.
ReadCapOneMore(e) ==
  /\ pc[e] = "readcap"
  /\ IF Len(lines) <= Cap
     THEN Finish(e, "ok") /\ UNCHANGED kept
     ELSE /\ kept' = [kept EXCEPT ![e] = Last(Cap + 1, lines)]
          /\ Goto(e, "truncate")
          /\ UNCHANGED result
  /\ UNCHANGED <<backend, lines, ragged, begun, appended, late, crossed, faults, crashes>>

\* At the cap the file is rewritten although nothing has to go.
ReadCapAtCap(e) ==
  /\ pc[e] = "readcap"
  /\ IF Len(lines) < Cap
     THEN Finish(e, "ok") /\ UNCHANGED kept
     ELSE /\ kept' = [kept EXCEPT ![e] = Last(Cap, lines)]
          /\ Goto(e, "truncate")
          /\ UNCHANGED result
  /\ UNCHANGED <<backend, lines, ragged, begun, appended, late, crossed, faults, crashes>>

\* The oldest lines are kept.
ReadCapOldest(e) ==
  /\ pc[e] = "readcap"
  /\ IF Len(lines) <= Cap
     THEN Finish(e, "ok") /\ UNCHANGED kept
     ELSE /\ kept' = [kept EXCEPT ![e] = SubSeq(lines, 1, Cap)]
          /\ Goto(e, "truncate")
          /\ UNCHANGED result
  /\ UNCHANGED <<backend, lines, ragged, begun, appended, late, crossed, faults, crashes>>

\* One line too few is kept.
ReadCapOneLess(e) ==
  /\ pc[e] = "readcap"
  /\ IF Len(lines) <= Cap
     THEN Finish(e, "ok") /\ UNCHANGED kept
     ELSE /\ kept' = [kept EXCEPT ![e] = Last(Cap - 1, lines)]
          /\ Goto(e, "truncate")
          /\ UNCHANGED result
  /\ UNCHANGED <<backend, lines, ragged, begun, appended, late, crossed, faults, crashes>>

\* The error of the cap reaches the caller of the append.
CapFaultThrown(e) ==
  /\ pc[e] \in {"readcap", "truncate", "rewrite"}
  /\ faults < MaxFaults
  /\ faults' = faults + 1
  /\ Finish(e, "failed")
  /\ UNCHANGED <<backend, lines, ragged, kept, begun, appended, late, crossed, crashes>>

----------------------------------------------------------------------------
(* appendAuditEvent.                                                       *)

\* buildAuditEvent stamps the event, and the call begins.
Start(e) ==
  /\ pc[e] = "idle"
  /\ Goto(e, "append")
  /\ begun' = Append(begun, e)
  /\ UNCHANGED <<backend, lines, ragged, kept, result, appended, late, crossed, faults, crashes>>

\* The event is in the log.
Store(e) ==
  /\ lines' = Add(e)
  /\ ragged' = FALSE
  /\ appended' = Append(appended, e)
  /\ crossed' = (crossed \/ Rewriting # {})

\* appendFile, or the insertion of a row.
AppendEvent(e) ==
  /\ pc[e] = "append"
  /\ Store(e)
  /\ IF backend = "file" THEN Goto(e, "readcap") /\ UNCHANGED result ELSE Finish(e, "ok")
  /\ UNCHANGED <<backend, kept, begun, late, faults, crashes>>

\* The append fails: nothing is written, or in a file the beginning of a line.
AppendFault(e) ==
  /\ pc[e] = "append"
  /\ faults < MaxFaults
  /\ faults' = faults + 1
  /\ \/ UNCHANGED <<lines, ragged>>
     \/ /\ backend = "file"
        /\ lines' = Add(Torn)
        /\ ragged' = TRUE
  /\ Finish(e, "failed")
  /\ UNCHANGED <<backend, kept, begun, appended, late, crossed, crashes>>

\* The event is stored, but closing the file fails, or the connection is lost
\* after the commit: the call answers as if it were not, and skips the cap.
LateFault(e) ==
  /\ pc[e] = "append"
  /\ faults < MaxFaults
  /\ faults' = faults + 1
  /\ Store(e)
  /\ late' = late \union {e}
  /\ Finish(e, "failed")
  /\ UNCHANGED <<backend, kept, begun, crashes>>

\* enforceAuditCap reads the file.
ReadCap(e) ==
  /\ pc[e] = "readcap"
  /\ IF Len(lines) <= Cap
     THEN Finish(e, "ok") /\ UNCHANGED kept
     ELSE /\ kept' = [kept EXCEPT ![e] = Last(Cap, lines)]
          /\ Goto(e, "truncate")
          /\ UNCHANGED result
  /\ UNCHANGED <<backend, lines, ragged, begun, appended, late, crossed, faults, crashes>>

\* Its writeFile opens the file, which empties it,
Truncate(e) ==
  /\ pc[e] = "truncate"
  /\ lines' = <<>>
  /\ ragged' = FALSE
  /\ Goto(e, "rewrite")
  /\ UNCHANGED <<backend, kept, result, begun, appended, late, crossed, faults, crashes>>

\* and writes from its beginning, over what others have written meanwhile.
Rewrite(e) ==
  /\ pc[e] = "rewrite"
  /\ lines' \in Overwrite(kept[e], lines)
  /\ ragged' = (ragged /\ lines' # kept[e])
  /\ Finish(e, "ok")
  /\ UNCHANGED <<backend, kept, begun, appended, late, crossed, faults, crashes>>

\* enforceAuditCap swallows its errors: the call still answers ok.  A write
\* that fails has written some of the lines.
CapFault(e) ==
  /\ pc[e] \in {"readcap", "truncate", "rewrite"}
  /\ faults < MaxFaults
  /\ faults' = faults + 1
  /\ IF pc[e] = "rewrite"
     THEN \E n \in 0..Len(kept[e]), tail \in {<<>>, <<Torn>>} :
            LET part == SubSeq(kept[e], 1, n) \o tail
            IN  /\ tail # <<>> => n < Len(kept[e])
                /\ lines' \in IF part = <<>> THEN {lines} ELSE Overwrite(part, lines)
                /\ ragged' = IF lines' = part THEN tail # <<>> ELSE ragged
     ELSE UNCHANGED <<lines, ragged>>
  /\ Finish(e, "ok")
  /\ UNCHANGED <<backend, kept, begun, appended, late, crossed, crashes>>

\* The process dies: calls under way never answer.
Crash ==
  /\ crashes < MaxCrashes
  /\ crashes' = crashes + 1
  /\ pc' = [e \in Events |-> IF UnderWay(e) THEN "done" ELSE pc[e]]
  /\ result' = [e \in Events |-> IF UnderWay(e) THEN "lost" ELSE result[e]]
  /\ UNCHANGED <<backend, lines, ragged, kept, begun, appended, late, crossed, faults>>

Step(e) == AppendEvent(e) \/ ReadCap(e) \/ Truncate(e) \/ Rewrite(e)

Next ==
  \/ \E e \in Events : Start(e) \/ Step(e) \/ AppendFault(e) \/ LateFault(e) \/ CapFault(e)
  \/ Crash

Spec == Init /\ [][Next]_vars

----------------------------------------------------------------------------
Logged == {e \in Events : \E i \in DOMAIN lines : lines[i] = e}
Acknowledged == {e \in Events : pc[e] = "done" /\ result[e] = "ok"}

(* Every variable keeps its type.                                          *)
TypeOK ==
  /\ backend \in Backends
  /\ lines \in Seq(Events \union {Torn})
  /\ ragged \in BOOLEAN
  /\ ragged => lines # <<>>
  /\ pc \in [Events -> {"idle", "append", "readcap", "truncate", "rewrite", "done"}]
  /\ kept \in [Events -> Seq(Events \union {Torn})]
  /\ \A e \in Events : Len(kept[e]) <= Cap
  /\ result \in [Events -> {"none", "ok", "failed", "lost"}]
  /\ begun \in Seq(Events)
  /\ appended \in Seq(Events)
  /\ late \subseteq Events
  /\ crossed \in BOOLEAN
  /\ faults \in 0..MaxFaults
  /\ crashes \in 0..MaxCrashes

(* An append that was answered as failed left no event, unless its own     *)
(* write was done when its error came: no error of the cap, which runs     *)
(* after the write and for other events, makes a stored event look failed. *)
FailedNotLogged ==
  \A e \in Events : result[e] = "failed" /\ e \in Logged => e \in late

(* As long as no more events than the cap were ever written, concurrent    *)
(* appends lose nothing and a failed one costs at most one other event.    *)
BelowCapKept ==
  Len(begun) <= Cap => Cardinality(Acknowledged \ Logged) <= faults

(* Calls that overlap in any way, as long as no event is appended while    *)
(* another call rewrites the file, leave the newest events up to the cap,  *)
(* in the order they came.                                                 *)
NewestKept ==
  /\ backend = "file" /\ ~crossed /\ faults = 0 /\ crashes = 0
  /\ \A e \in Events : ~UnderWay(e)
  => lines = Newest(appended)

(* Whenever an acknowledged event is not in the log, it is in file mode,   *)
(* and as many events as the cap came after it, or the file is being       *)
(* rewritten just now, or an event was once appended during a rewrite, or  *)
(* an access failed, or the process died: nothing else loses an event.     *)
LossExplained ==
  \A i \in DOMAIN appended :
    appended[i] \in Acknowledged \ Logged =>
      /\ backend = "file"
      /\ \/ Len(appended) - i >= Cap
         \/ \E e \in Events : pc[e] = "rewrite"
         \/ crossed \/ faults > 0 \/ crashes > 0

(* What the comment on enforceAuditCap says: only the oldest entries go.   *)
(* With no call under way, an event that was acknowledged and is not in    *)
(* the log is followed by as many as the cap.                              *)
OnlyOldestTrimmed ==
  (\A e \in Events : ~UnderWay(e)) =>
    \A i \in DOMAIN appended :
      appended[i] \in Acknowledged \ Logged => Len(appended) - i >= Cap
=============================================================================
