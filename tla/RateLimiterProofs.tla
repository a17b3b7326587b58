-------------------------- MODULE RateLimiterProofs --------------------------
(***************************************************************************)
(* Proofs about the rate limiter, for any endpoints, limits, window and    *)
(* clients and for as long as the clock runs.                              *)
(***************************************************************************)
EXTENDS RateLimiter, FiniteSetTheorems, TLAPS

----------------------------------------------------------------------------
(* The inductive invariant.                                                *)

Finite == \A e \in Endpoints, k \in Keys : IsFiniteSet(store[e][k])

\* What passed in the window that ends now is still recorded under its key.
ServedInv ==
  \A e \in Endpoints : \A s \in served[e] : s \in Active(e, ClientKey(s.request))

\* A time somebody was told: the slots of the key are all taken, and it lies
\* within a second after the oldest of them is free again.
PromiseInv ==
  \A e \in Endpoints, k \in Keys :
    \A p \in promise[e][k] :
      /\ Cardinality(store[e][k]) >= Limit[e]
      /\ \E s \in store[e][k] :
           /\ IsOldest(s, store[e][k])
           /\ s.at + Window <= p /\ p < s.at + Window + Second

IInv == TypeOK /\ Finite /\ ServedInv /\ PromiseInv

----------------------------------------------------------------------------
(* Lemmas.                                                                 *)

\* Every request has a key.
LEMMA KeyTypes == \A r \in Requests : ClientKey(r) \in Keys
  BY RequestsAssumption DEF AllRequests, AtMostOne, ClientKey, Keys, Bearer, Ip, Anonymous

\* Rounding up to seconds.
LEMMA RoundUp ==
  \A d \in Nat \ {0} :
    LET q == (d + Second - 1) \div Second
    IN  q \in Nat /\ d <= q * Second /\ q * Second < d + Second
<1> SUFFICES ASSUME NEW d \in Nat \ {0}
             PROVE  LET q == (d + Second - 1) \div Second
                    IN  q \in Nat /\ d <= q * Second /\ q * Second < d + Second
  OBVIOUS
<1> DEFINE x == d + Second - 1
           q == x \div Second
           m == x % Second
<1>1. x \in Nat /\ Second \in Nat /\ Second > 0
  BY SecondAssumption
<1> HIDE DEF x
<1>2. q \in Nat /\ m \in 0..(Second - 1) /\ x = Second * q + m
  BY <1>1
<1> HIDE DEF q, m
<1>3. q * Second \in Nat /\ Second * q = q * Second
  BY <1>1, <1>2
<1>4. d <= q * Second /\ q * Second < d + Second
  BY <1>1, <1>2, <1>3 DEF x
<1> QED
  BY <1>2, <1>4 DEF q, x

\* What a client key has in the window, and what it leaves behind.
LEMMA ActiveFacts ==
  ASSUME IInv, NEW e \in Endpoints, NEW k \in Keys
  PROVE  /\ Active(e, k) \subseteq store[e][k]
         /\ Active(e, k) \in SUBSET Stamps
         /\ IsFiniteSet(Active(e, k))
         /\ Cardinality(Active(e, k)) \in Nat
<1>1. Active(e, k) \subseteq store[e][k] /\ store[e][k] \in SUBSET Stamps
  BY DEF IInv, TypeOK, Active
<1>2. IsFiniteSet(store[e][k])
  BY DEF IInv, Finite
<1> QED
  BY <1>1, <1>2, FS_Subset, FS_CardinalityType

LEMMA StampType ==
  ASSUME IInv, NEW e \in Endpoints, NEW r \in Requests
  PROVE  Stamp(e, r) \in Stamps
<1> DEFINE S == {s \in store[e][ClientKey(r)] : s.at = now}
<1>1. ClientKey(r) \in Keys
  BY KeyTypes
<1>2. IsFiniteSet(S)
  BY <1>1, FS_Subset DEF IInv, Finite
<1>3. Cardinality(S) \in Nat
  BY <1>2, FS_CardinalityType
<1>4. now \in Nat
  BY TimeAssumption DEF IInv, TypeOK
<1> QED
  BY <1>3, <1>4 DEF Stamp, Stamps

----------------------------------------------------------------------------
LEMMA InitIInv == Init => IInv
<1> SUFFICES ASSUME Init PROVE IInv
  OBVIOUS
<1>1. TypeOK
  BY TimeAssumption, LimitAssumption, FS_EmptySet DEF Init, TypeOK
<1>2. Finite
  BY FS_EmptySet DEF Init, Finite
<1> QED
  BY <1>1, <1>2 DEF Init, IInv, ServedInv, PromiseInv

\* A request that passes.
LEMMA AllowIInv ==
  ASSUME IInv, NEW e \in Endpoints, NEW r \in Requests, Allow(e, r)
  PROVE  IInv'
<1> DEFINE k == ClientKey(r)
           new == Active(e, k) \union {Stamp(e, r)}
<1>1. k \in Keys
  BY KeyTypes
<1>2. /\ Active(e, k) \in SUBSET Stamps /\ IsFiniteSet(Active(e, k))
      /\ Cardinality(Active(e, k)) \in Nat /\ Cardinality(Active(e, k)) < Limit[e]
  BY <1>1, ActiveFacts DEF Allow
<1>3. Stamp(e, r) \in Stamps /\ Stamp(e, r).at = now /\ Stamp(e, r).request = r
  BY StampType DEF Stamp
<1> HIDE DEF k
<1>4. /\ store' = [store EXCEPT ![e][k] = new]
      /\ promise' = [promise EXCEPT ![e][k] = {}]
      /\ served' = [served EXCEPT ![e] = @ \union {Stamp(e, r)}]
      /\ now' = now
  BY DEF Allow, k
<1>5. IsFiniteSet(new) /\ Cardinality(new) <= Limit[e]
  <2> DEFINE A == Active(e, k)
             x == Stamp(e, r)
  <2>1. IsFiniteSet(A) /\ Cardinality(A) \in Nat /\ Cardinality(A) < Limit[e]
    BY <1>2
  <2> HIDE DEF A, x
  <2>2. IsFiniteSet(A \union {x})
        /\ Cardinality(A \union {x}) = IF x \in A THEN Cardinality(A) ELSE Cardinality(A) + 1
    BY <2>1, FS_AddElement
  <2>3. Limit[e] \in Nat
    BY LimitAssumption
  <2>4. Cardinality(A \union {x}) <= Limit[e]
    BY <2>1, <2>2, <2>3
  <2> QED
    BY <2>2, <2>4 DEF A, x
<1>6. /\ store'[e][k] = new
      /\ \A f \in Endpoints, l \in Keys : <<f, l>> # <<e, k>> => store'[f][l] = store[f][l]
  BY <1>1, <1>4 DEF IInv, TypeOK
<1>7. /\ promise'[e][k] = {}
      /\ \A f \in Endpoints, l \in Keys :
           <<f, l>> # <<e, k>> => promise'[f][l] = promise[f][l]
  BY <1>1, <1>4 DEF IInv, TypeOK
<1>8. TypeOK'
  <2>1. new \in SUBSET Stamps
    BY <1>2, <1>3
  <2>2. store' \in [Endpoints -> [Keys -> SUBSET Stamps]]
    BY <1>1, <1>4, <2>1 DEF IInv, TypeOK
  <2>3. promise' \in [Endpoints -> [Keys -> SUBSET Nat]]
    BY <1>1, <1>4 DEF IInv, TypeOK
  <2>4. served' \in [Endpoints -> SUBSET Stamps]
    BY <1>3, <1>4 DEF IInv, TypeOK
  <2>5. \A f \in Endpoints, l \in Keys : Cardinality(store'[f][l]) <= Limit[f]
    BY <1>5, <1>6 DEF IInv, TypeOK
  <2> QED
    BY <1>4, <2>2, <2>3, <2>4, <2>5 DEF IInv, TypeOK
<1>9. Finite'
  BY <1>5, <1>6 DEF IInv, Finite
<1>10. ServedInv'
  <2> SUFFICES ASSUME NEW f \in Endpoints, NEW s \in served'[f]
               PROVE  Active(f, ClientKey(s.request))'
                        = {x \in store'[f][ClientKey(s.request)] : now' < x.at + Window}
                      /\ s \in store'[f][ClientKey(s.request)] /\ now < s.at + Window
    BY <1>4 DEF ServedInv, Active
  <2>1. CASE s \in served[f]
    <3>1. s.request \in Requests
      BY <2>1 DEF IInv, TypeOK, Stamps
    <3>2. s \in store[f][ClientKey(s.request)] /\ now < s.at + Window
      BY <2>1 DEF IInv, ServedInv, Active
    <3>3. s \in store'[f][ClientKey(s.request)]
      BY <1>6, <3>1, <3>2, KeyTypes DEF Active
    <3> QED
      BY <3>2, <3>3 DEF Active
  <2>2. CASE s \notin served[f]
    <3>1. f = e /\ s = Stamp(e, r)
      BY <1>4, <2>2 DEF IInv, TypeOK
    <3>2. now < s.at + Window
      BY <1>3, <3>1, WindowAssumption, TimeAssumption DEF IInv, TypeOK
    <3> QED
      BY <1>3, <1>6, <3>1, <3>2 DEF Active, k
  <2> QED
    BY <2>1, <2>2
<1>11. PromiseInv'
  BY <1>6, <1>7 DEF IInv, PromiseInv
<1> QED
  BY <1>8, <1>9, <1>10, <1>11 DEF IInv

\* The time a refused caller is told, from an active stamp s.
LEMMA BackFacts ==
  ASSUME IInv, NEW e \in Endpoints, NEW k \in Keys, NEW s \in Active(e, k)
  PROVE  LET back == now + RetryAfter(s) * Second
         IN  /\ s \in store[e][k] /\ back \in Nat
             /\ s.at + Window <= back /\ back < s.at + Window + Second
<1> DEFINE d == s.at + Window - now
<1>1. s \in store[e][k] /\ s \in Stamps
  BY ActiveFacts
<1>2. s.at \in Nat /\ now \in Nat /\ Window \in Nat /\ Second \in Nat /\ now < s.at + Window
  BY <1>1, WindowAssumption, SecondAssumption, TimeAssumption
  DEF IInv, TypeOK, Stamps, Active
<1>3. d \in Nat \ {0}
  BY <1>2
<1>4. RetryAfter(s) = (d + Second - 1) \div Second
  BY DEF RetryAfter
<1>5. RetryAfter(s) * Second \in Nat /\ d <= RetryAfter(s) * Second
      /\ RetryAfter(s) * Second < d + Second
  <2> DEFINE q == (d + Second - 1) \div Second
  <2>1. q \in Nat /\ d <= q * Second /\ q * Second < d + Second
    BY <1>3, RoundUp
  <2>2. RetryAfter(s) = q
    BY <1>4
  <2> HIDE DEF q, d
  <2>3. q * Second \in Nat
    BY <1>2, <2>1
  <2> QED
    BY <2>1, <2>2, <2>3
<1> HIDE DEF d
<1>6. /\ now + RetryAfter(s) * Second \in Nat
      /\ s.at + Window <= now + RetryAfter(s) * Second
      /\ now + RetryAfter(s) * Second < s.at + Window + Second
  BY <1>2, <1>5 DEF d
<1> QED
  BY <1>1, <1>6

\* A request that is refused.
LEMMA DenyIInv ==
  ASSUME IInv, NEW e \in Endpoints, NEW r \in Requests, Deny(e, r)
  PROVE  IInv'
<1> DEFINE k == ClientKey(r)
           back(s) == now + RetryAfter(s) * Second
<1>1. k \in Keys
  BY KeyTypes
<1>2. PICK s \in Active(e, k) : IsOldest(s, Active(e, k)) /\ Tell(e, k, s)
  BY DEF Deny
<1>3. UNCHANGED <<now, store, served>> /\ Cardinality(Active(e, k)) >= Limit[e]
  BY DEF Deny
<1>4. /\ s \in store[e][k] /\ back(s) \in Nat
      /\ s.at + Window <= back(s) /\ back(s) < s.at + Window + Second
  BY <1>1, BackFacts
<1>5. promise' = [promise EXCEPT ![e][k] = @ \union {back(s)}]
  BY <1>2 DEF Tell
<1>6. Active(e, k) = store[e][k]
  <2>1. /\ Active(e, k) \in SUBSET store[e][k] /\ Cardinality(Active(e, k)) \in Nat
        /\ IsFiniteSet(store[e][k]) /\ Cardinality(store[e][k]) <= Limit[e]
    BY <1>1, ActiveFacts DEF IInv, Finite, TypeOK
  <2>2. /\ Cardinality(Active(e, k)) <= Cardinality(store[e][k])
        /\ Cardinality(store[e][k]) \in Nat /\ Limit[e] \in Nat
    BY <2>1, FS_Subset, FS_CardinalityType, LimitAssumption
  <2>3. Cardinality(Active(e, k)) = Cardinality(store[e][k])
    BY <1>3, <2>1, <2>2
  <2> QED
    BY <2>1, <2>3, FS_Subset
<1> HIDE DEF k, back
<1>7. /\ promise'[e][k] = promise[e][k] \union {back(s)}
      /\ \A f \in Endpoints, l \in Keys :
           <<f, l>> # <<e, k>> => promise'[f][l] = promise[f][l]
      /\ promise' \in [Endpoints -> [Keys -> SUBSET Nat]]
  BY <1>1, <1>4, <1>5 DEF IInv, TypeOK
<1>8. Cardinality(store[e][k]) >= Limit[e] /\ IsOldest(s, store[e][k])
  BY <1>2, <1>3, <1>6
<1>9. PromiseInv'
  <2> SUFFICES ASSUME NEW f \in Endpoints, NEW l \in Keys, NEW p \in promise'[f][l]
               PROVE  /\ Cardinality(store[f][l]) >= Limit[f]
                      /\ \E x \in store[f][l] :
                           /\ IsOldest(x, store[f][l])
                           /\ x.at + Window <= p /\ p < x.at + Window + Second
    BY <1>3 DEF PromiseInv, IsOldest
  <2>1. CASE p \in promise[f][l]
    BY <2>1 DEF IInv, PromiseInv
  <2>2. CASE p \notin promise[f][l]
    <3>1. f = e /\ l = k /\ p = back(s)
      BY <1>7, <2>2
    <3> QED
      BY <1>4, <1>8, <3>1
  <2> QED
    BY <2>1, <2>2
<1> QED
  BY <1>3, <1>7, <1>9 DEF IInv, TypeOK, Finite, ServedInv, Active

LEMMA TickIInv == IInv /\ Tick => IInv'
<1> SUFFICES ASSUME IInv, Tick PROVE IInv'
  OBVIOUS
<1>1. /\ now' = now + 1 /\ now' \in 0..MaxTime
      /\ served' = [e \in Endpoints |-> {s \in served[e] : now' < s.at + Window}]
      /\ UNCHANGED <<store, promise>>
  BY TimeAssumption DEF IInv, TypeOK, Tick
<1>2. TypeOK'
  BY <1>1 DEF IInv, TypeOK
<1>3. ServedInv'
  BY <1>1 DEF IInv, ServedInv, Active
<1> QED
  BY <1>1, <1>2, <1>3 DEF IInv, Finite, PromiseInv

LEMMA StepIInv == IInv /\ [Next]_vars => IInv'
<1> SUFFICES ASSUME IInv, [Next]_vars PROVE IInv'
  OBVIOUS
<1>1. ASSUME NEW e \in Endpoints, NEW r \in Requests, Allow(e, r) PROVE IInv'
  BY <1>1, AllowIInv
<1>2. ASSUME NEW e \in Endpoints, NEW r \in Requests, Deny(e, r) PROVE IInv'
  BY <1>2, DenyIInv
<1>3. CASE Tick
  BY <1>3, TickIInv
<1>4. CASE UNCHANGED vars
  BY <1>4 DEF vars, IInv, TypeOK, Finite, ServedInv, PromiseInv, Active
<1> QED
  BY <1>1, <1>2, <1>3, <1>4 DEF Next

THEOREM Invariance == Spec => []IInv
  BY InitIInv, StepIInv, PTL DEF Spec

----------------------------------------------------------------------------
(* Variables keep their types and clients' arrays stay within the limit    *)
(* (checkRateLimit).                                                       *)
THEOREM Typing == Spec => []TypeOK
<1>1. IInv => TypeOK
  BY DEF IInv
<1> QED
  BY <1>1, Invariance, PTL

\* No more requests of a key pass than are active.
LEMMA ServedBounded ==
  ASSUME IInv, NEW e \in Endpoints, NEW k \in Keys,
         NEW S \in SUBSET served[e], \A s \in S : ClientKey(s.request) = k
  PROVE  Cardinality(S) <= Limit[e]
<1>1. S \in SUBSET store[e][k]
  BY DEF IInv, ServedInv, Active
<1>2. IsFiniteSet(store[e][k]) /\ Cardinality(store[e][k]) <= Limit[e]
  BY DEF IInv, Finite, TypeOK
<1>3. IsFiniteSet(S) /\ Cardinality(S) <= Cardinality(store[e][k])
  BY <1>1, <1>2, FS_Subset
<1>4. Cardinality(S) \in Nat /\ Cardinality(store[e][k]) \in Nat /\ Limit[e] \in Nat
  BY <1>2, <1>3, FS_CardinalityType, LimitAssumption
<1> QED
  BY <1>2, <1>3, <1>4

(* In any span of a window no client key passes an endpoint more often     *)
(* than its limit (checkRateLimit).                                        *)
THEOREM Limited == Spec => []WindowLimit
<1>1. IInv => WindowLimit
  <2> SUFFICES ASSUME IInv, NEW e \in Endpoints, NEW k \in Keys
               PROVE  Cardinality({s \in served[e] : ClientKey(s.request) = k}) <= Limit[e]
    BY DEF WindowLimit
  <2> QED
    BY ServedBounded
<1> QED
  BY <1>1, Invariance, PTL

(* Nor does a bearer token, whatever addresses it comes from               *)
(* (getClientKey, checkRateLimit).                                         *)
THEOREM TokensLimited == Spec => []TokenLimit
<1>1. IInv => TokenLimit
  <2> SUFFICES ASSUME IInv, NEW e \in Endpoints, NEW x \in Tokens
               PROVE  Cardinality({s \in served[e] : s.request.token = {x}}) <= Limit[e]
    BY DEF TokenLimit
  <2> DEFINE S == {s \in served[e] : s.request.token = {x}}
  <2>1. Bearer({x}) \in Keys
    BY DEF Keys
  <2>2. \A s \in S : ClientKey(s.request) = Bearer({x})
    BY DEF ClientKey
  <2> QED
    BY <2>1, <2>2, ServedBounded
<1> QED
  BY <1>1, Invariance, PTL

(* A caller who comes back when told finds a free slot, unless another was *)
(* faster (retryAfterSeconds).                                             *)
THEOREM Honoured == Spec => []RetryHonoured
<1>1. IInv => RetryHonoured
  <2> SUFFICES ASSUME IInv, NEW e \in Endpoints, NEW k \in Keys,
                      NEW p \in promise[e][k], now >= p
               PROVE  Cardinality(Active(e, k)) < Limit[e]
    BY DEF RetryHonoured
  <2>1. PICK s \in store[e][k] : s.at + Window <= p
    BY DEF IInv, PromiseInv
  <2>2. s.at \in Nat /\ p \in Nat /\ now \in Nat /\ Window \in Nat
    BY <2>1, WindowAssumption, TimeAssumption DEF IInv, TypeOK, Stamps
  <2>3. s \notin Active(e, k)
    BY <2>1, <2>2 DEF Active
  <2>4. /\ Active(e, k) \in SUBSET store[e][k] /\ Active(e, k) # store[e][k]
        /\ Cardinality(Active(e, k)) \in Nat
    BY <2>1, <2>3, ActiveFacts
  <2>5. IsFiniteSet(store[e][k]) /\ Cardinality(store[e][k]) <= Limit[e]
    BY DEF IInv, Finite, TypeOK
  <2>6. Cardinality(Active(e, k)) <= Cardinality(store[e][k])
        /\ Cardinality(Active(e, k)) # Cardinality(store[e][k])
    BY <2>4, <2>5, FS_Subset
  <2> QED
    BY <2>4, <2>5, <2>6, FS_CardinalityType, LimitAssumption
<1> QED
  BY <1>1, Invariance, PTL

(* Whoever comes a second or more before the time told in any answer would *)
(* be refused again (retryAfterSeconds).                                   *)
THEOREM Needed == Spec => []RetryNeeded
<1>1. IInv => RetryNeeded
  <2> SUFFICES ASSUME IInv, NEW e \in Endpoints, NEW k \in Keys,
                      NEW p \in promise[e][k], now + Second <= p
               PROVE  Cardinality(Active(e, k)) >= Limit[e]
    BY DEF RetryNeeded
  <2>1. Cardinality(store[e][k]) >= Limit[e]
    BY DEF IInv, PromiseInv
  <2>2. PICK s \in store[e][k] : IsOldest(s, store[e][k]) /\ p < s.at + Window + Second
    BY DEF IInv, PromiseInv
  <2>3. p \in Nat /\ now \in Nat /\ Window \in Nat /\ Second \in Nat
    BY WindowAssumption, SecondAssumption, TimeAssumption DEF IInv, TypeOK
  <2>4. \A t \in store[e][k] : t.at \in Nat
    BY DEF IInv, TypeOK, Stamps
  <2>5. \A t \in store[e][k] : now < t.at + Window
    BY <2>2, <2>3, <2>4 DEF IsOldest
  <2>6. Active(e, k) = store[e][k]
    BY <2>5 DEF Active
  <2> QED
    BY <2>1, <2>6
<1> QED
  BY <1>1, Invariance, PTL
=============================================================================
