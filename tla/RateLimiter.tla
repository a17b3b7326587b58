---------------------------- MODULE RateLimiter ----------------------------
(***************************************************************************)
(* The in-process sliding-window rate limiter (lib/rate-limiter.ts) as the *)
(* route handlers call it (lib/rate-limit-middleware.ts).                  *)
(*                                                                         *)
(* checkRateLimit is synchronous, so one call is one step.  Time stands    *)
(* still during a call and only moves forward.  The array of time stamps   *)
(* of a client is a set: a stamp carries the request it is for, which the  *)
(* code does not keep, and its number among those of its millisecond.      *)
(***************************************************************************)
EXTENDS Naturals, FiniteSets

CONSTANTS
  Endpoints,   \* the rate-limited operations
  Limit,       \* Limit[e]: requests allowed per window on endpoint e
  Window,      \* windowMs
  Second,      \* milliseconds in a second
  Tokens,      \* bearer tokens
  Addresses,   \* addresses a proxy header may carry
  Requests,    \* the requests that may be made, a subset of AllRequests
  MaxTime      \* the clock stops here (bound)

\* The identifying headers of a request, each a set with at most one value.  A
\* forwarded address is one that passes the pattern; any other counts as none.
AtMostOne(S) == {{}} \union {{x} : x \in S}
AllRequests == [token : AtMostOne(Tokens), forwarded : AtMostOne(Addresses),
                realIp : AtMostOne(Addresses)]

ASSUME LimitAssumption == Limit \in [Endpoints -> Nat \ {0}]
ASSUME WindowAssumption == Window \in Nat \ {0}
ASSUME SecondAssumption == Second \in Nat \ {0}
ASSUME RequestsAssumption == Requests \subseteq AllRequests
ASSUME TimeAssumption == MaxTime \in Nat

VARIABLES
  now,       \* Date.now()
  store,     \* store[e][k]: the recorded stamps of client key k on endpoint e
  promise,   \* promise[e][k]: the times refused callers were told to come back since
             \* the last request that passed, a history
  served     \* served[e]: what endpoint e let through in the window that ends now, a
             \* history that forgets what is older

vars == <<now, store, promise, served>>

Bearer(T) == [kind |-> "bearer", id |-> T]
Ip(A) == [kind |-> "ip", id |-> A]
Anonymous == [kind |-> "anonymous", id |-> {}]

Keys == {Bearer({t}) : t \in Tokens} \union {Ip({a}) : a \in Addresses} \union {Anonymous}

\* A faulty variant of the next: an address comes before the token.
ClientKeyByAddress(r) ==
  IF r.forwarded # {} THEN Ip(r.forwarded)
  ELSE IF r.token # {} THEN Bearer(r.token) ELSE Anonymous

\* getClientKey: the bearer token, then X-Forwarded-For, then X-Real-IP.
ClientKey(r) ==
  IF r.token # {} THEN Bearer(r.token)
  ELSE IF r.forwarded # {} THEN Ip(r.forwarded)
  ELSE IF r.realIp # {} THEN Ip(r.realIp)
  ELSE Anonymous

Stamps == [at : Nat, nth : Nat, request : Requests]

Init ==
  /\ now = 0
  /\ store = [e \in Endpoints |-> [k \in Keys |-> {}]]
  /\ promise = [e \in Endpoints |-> [k \in Keys |-> {}]]
  /\ served = [e \in Endpoints |-> {}]

\* A faulty variant of the next: stamps leave the window a tick too early.
ActiveShort(e, k) == {s \in store[e][k] : now + 1 < s.at + Window}

\* The stamps that have not left the window.
Active(e, k) == {s \in store[e][k] : now < s.at + Window}

\* Of the stamps in S, s was recorded first: active[0] in the code.
IsOldest(s, S) ==
  \A t \in S : s.at < t.at \/ (s.at = t.at /\ s.nth <= t.nth)

\* A faulty variant of the next: seconds are rounded down.
RetryAfterFloor(s) == (s.at + Window - now) \div Second

\* retryAfterSeconds.  The maximum with 1 changes nothing: s has not left.
RetryAfter(s) == (s.at + Window - now + Second - 1) \div Second

\* What a request that passes leaves behind.
Stamp(e, r) ==
  [at |-> now,
   nth |-> Cardinality({s \in store[e][ClientKey(r)] : s.at = now}),
   request |-> r]

\* Faulty variant of the next: the limit is compared with > instead of >=.
AllowOneMore(e, r) ==
  LET k == ClientKey(r)
  IN  /\ Cardinality(Active(e, k)) <= Limit[e]
      /\ store' = [store EXCEPT ![e][k] = Active(e, k) \union {Stamp(e, r)}]
      /\ promise' = [promise EXCEPT ![e][k] = {}]
      /\ served' = [served EXCEPT ![e] = @ \union {Stamp(e, r)}]
      /\ UNCHANGED now

\* checkRateLimit lets the request through and records it.  From here on a
\* caller who was told to come back is too late for the slot it was told of.
Allow(e, r) ==
  LET k == ClientKey(r)
  IN  /\ Cardinality(Active(e, k)) < Limit[e]
      /\ store' = [store EXCEPT ![e][k] = Active(e, k) \union {Stamp(e, r)}]
      /\ promise' = [promise EXCEPT ![e][k] = {}]
      /\ served' = [served EXCEPT ![e] = @ \union {Stamp(e, r)}]
      /\ UNCHANGED now

\* What a refused caller of key k is told, when stamp s frees the next slot.
Tell(e, k, s) ==
  promise' = [promise EXCEPT ![e][k] = @ \union {now + RetryAfter(s) * Second}]

\* A faulty variant of the next: the newest stamp counts, the array's last.
DenyByNewest(e, r) ==
  LET k == ClientKey(r)
  IN  /\ Cardinality(Active(e, k)) >= Limit[e]
      /\ \E s \in Active(e, k) : (\A t \in Active(e, k) : t.at <= s.at) /\ Tell(e, k, s)
      /\ UNCHANGED <<now, store, served>>

\* checkRateLimit refuses, and applyRateLimit answers 429 with Retry-After.
\* The pruned stamps are not stored.
Deny(e, r) ==
  LET k == ClientKey(r)
  IN  /\ Cardinality(Active(e, k)) >= Limit[e]
      /\ \E s \in Active(e, k) : IsOldest(s, Active(e, k)) /\ Tell(e, k, s)
      /\ UNCHANGED <<now, store, served>>

Tick ==
  /\ now < MaxTime
  /\ now' = now + 1
  /\ served' = [e \in Endpoints |-> {s \in served[e] : now' < s.at + Window}]
  /\ UNCHANGED <<store, promise>>

Next ==
  \/ \E e \in Endpoints, r \in Requests : Allow(e, r) \/ Deny(e, r)
  \/ Tick

Spec == Init /\ [][Next]_vars

----------------------------------------------------------------------------
(* Every variable keeps its type, and no client takes more memory than its *)
(* endpoint's limit.                                                       *)
TypeOK ==
  /\ now \in 0..MaxTime
  /\ store \in [Endpoints -> [Keys -> SUBSET Stamps]]
  /\ \A e \in Endpoints, k \in Keys : Cardinality(store[e][k]) <= Limit[e]
  /\ promise \in [Endpoints -> [Keys -> SUBSET Nat]]
  /\ served \in [Endpoints -> SUBSET Stamps]

(* In any span of a window's length, wherever it begins, no more requests  *)
(* with the same bearer token pass an endpoint than its limit, whatever    *)
(* addresses they come from: the span ends at some moment.                 *)
TokenLimit ==
  \A e \in Endpoints, x \in Tokens :
    Cardinality({s \in served[e] : s.request.token = {x}}) <= Limit[e]

(* The same for every client key: requests without a token are limited by  *)
(* address, and those with neither together.                               *)
WindowLimit ==
  \A e \in Endpoints, k \in Keys :
    Cardinality({s \in served[e] : ClientKey(s.request) = k}) <= Limit[e]

(* Retry-After is honest, every time it is sent: once the time a refused   *)
(* caller was told has come, a request of that client passes, unless       *)
(* another was faster.                                                     *)
RetryHonoured ==
  \A e \in Endpoints, k \in Keys :
    \A p \in promise[e][k] : now >= p => Cardinality(Active(e, k)) < Limit[e]

(* And it never asks for more than needed: a caller who comes a second or  *)
(* more before the time of any answer it got would be refused again.       *)
RetryNeeded ==
  \A e \in Endpoints, k \in Keys :
    \A p \in promise[e][k] : now + Second <= p => Cardinality(Active(e, k)) >= Limit[e]
=============================================================================
