---------------------------- MODULE ListingProofs ----------------------------
(***************************************************************************)
(* Proofs about the listings of jobs: a client that reads one page after   *)
(* the other, and the page that shows the first, for any calls and any     *)
(* number of jobs.                                                         *)
(***************************************************************************)
EXTENDS RecordsProofs

----------------------------------------------------------------------------
(* Counting.                                                               *)

\* The members of a finite set of numbers, counted upwards, are numbered
\* from 1 without a gap.
LEMMA CountUpTo ==
  ASSUME NEW N \in Nat, NEW I, I \subseteq 1..N
  PROVE  /\ IsFiniteSet(I) /\ Cardinality(I) \in Nat
         /\ \A k \in I : Cardinality(UpTo(I, k)) \in 1..Cardinality(I)
         /\ \A j, k \in I : j < k => Cardinality(UpTo(I, j)) < Cardinality(UpTo(I, k))
         /\ \A n \in 1..Cardinality(I) : \E k \in I : Cardinality(UpTo(I, k)) = n
<1>1. IsFiniteSet(I) /\ Cardinality(I) \in Nat /\ \A i \in I : i \in Nat
  <2>1. I \in SUBSET (1..N) /\ IsFiniteSet(1..N)
    BY FS_Interval
  <2>2. \A i \in I : i \in Nat
    OBVIOUS
  <2> QED
    BY <2>1, <2>2, FS_Subset, FS_CardinalityType
<1>2. ASSUME NEW k \in I
      PROVE  /\ IsFiniteSet(UpTo(I, k)) /\ Cardinality(UpTo(I, k)) \in Nat
             /\ Cardinality(UpTo(I, k)) \in 1..Cardinality(I)
  <2>1. UpTo(I, k) \in SUBSET I /\ k \in UpTo(I, k)
    BY <1>1 DEF UpTo
  <2>2. /\ IsFiniteSet(UpTo(I, k)) /\ Cardinality(UpTo(I, k)) \in Nat
        /\ Cardinality(UpTo(I, k)) <= Cardinality(I)
    BY <1>1, <2>1, FS_Subset, FS_CardinalityType
  <2>3. Cardinality(UpTo(I, k)) # 0
    BY <2>1, <2>2, FS_EmptySet
  <2> QED
    BY <1>1, <2>2, <2>3
<1>3. ASSUME NEW j \in I, NEW k \in I, j < k
      PROVE  Cardinality(UpTo(I, j)) < Cardinality(UpTo(I, k))
  <2>1. UpTo(I, j) \in SUBSET UpTo(I, k) /\ k \in UpTo(I, k) /\ k \notin UpTo(I, j)
    <3>1. j \in Nat /\ k \in Nat /\ j < k
      BY <1>1, <1>3
    <3>2. \A i \in I : i <= j => i <= k
      BY <1>1, <3>1
    <3>3. k <= k /\ ~(k <= j)
      BY <3>1
    <3>4. UpTo(I, j) \subseteq UpTo(I, k)
      BY <3>2, Zenon DEF UpTo
    <3> QED
      BY <3>3, <3>4 DEF UpTo
  <2>2. /\ Cardinality(UpTo(I, j)) <= Cardinality(UpTo(I, k))
        /\ Cardinality(UpTo(I, j)) # Cardinality(UpTo(I, k))
    BY <1>2, <2>1, FS_Subset
  <2> QED
    BY <1>2, <2>2
<1> DEFINE T == 1..Cardinality(I)
           rank == [k \in I |-> Cardinality(UpTo(I, k))]
<1>4. rank \in Injection(I, T)
  <2>1. rank \in [I -> T]
    BY <1>2
  <2>2. ASSUME NEW j \in I, NEW k \in I, rank[j] = rank[k] PROVE j = k
    <3>1. ~(j < k) /\ ~(k < j)
      BY <1>2, <1>3, <2>2
    <3> QED
      BY <3>1
  <2> HIDE DEF rank
  <2> QED
    BY <2>1, <2>2 DEF Injection, IsInjective
<1>5. IsFiniteSet(T) /\ Cardinality(T) = Cardinality(I)
  BY <1>1, FS_Interval
<1> HIDE DEF T, rank
<1>6. rank \in Surjection(I, T)
  BY <1>4, <1>5, FS_Injection
<1>7. \A n \in T : \E k \in I : rank[k] = n
  BY <1>6 DEF Surjection
<1>8. \A n \in T : \E k \in I : Cardinality(UpTo(I, k)) = n
  BY <1>7 DEF rank
<1> QED
  BY <1>1, <1>2, <1>3, <1>8 DEF T

\* Numbers pushed up by one are no fewer, whatever is added to them.
LEMMA CountShifted ==
  ASSUME NEW N \in Nat, NEW I, I \subseteq 1..N, NEW J, J \subseteq 1..(N + 1),
         \A i \in I : i + 1 \in J, NEW k \in I
  PROVE  Cardinality(UpTo(I, k)) <= Cardinality(UpTo(J, k + 1))
<1> DEFINE S == UpTo(I, k)
           T == UpTo(J, k + 1)
           up == [i \in S |-> i + 1]
<1>1. IsFiniteSet(T)
  <2>1. T \in SUBSET (1..(N + 1)) /\ IsFiniteSet(1..(N + 1))
    <3>1. N + 1 \in Int /\ 1 \in Int
      OBVIOUS
    <3> QED
      BY <3>1, FS_Interval DEF UpTo
  <2> QED
    BY <2>1, FS_Subset
<1>2. up \in [S -> T] /\ \A i, j \in S : up[i] = up[j] => i = j
  <2>1. \A i \in I : i \in Nat
    OBVIOUS
  <2>2. S \subseteq I /\ \A i \in S : i <= k
    BY DEF UpTo
  <2>3. \A i \in S : i + 1 \in T
    BY <2>1, <2>2 DEF UpTo
  <2> HIDE DEF S, T
  <2> QED
    BY <2>1, <2>2, <2>3
<1> HIDE DEF S, T, up
<1>3. up \in Injection(S, T)
  BY <1>2 DEF Injection, IsInjective
<1> QED
  BY <1>1, <1>3, FS_Injection DEF S, T

\* Up to the kth of the first numbers there are k of them.
LEMMA CountAll ==
  ASSUME NEW N \in Nat, NEW k \in 1..N
  PROVE  Cardinality(UpTo(1..N, k)) = k
<1>1. UpTo(1..N, k) = 1..k
  BY DEF UpTo
<1> QED
  BY <1>1, FS_Interval

\* As many pages as it takes to hold them all.
LEMMA PagesSuffice ==
  ASSUME NEW total \in Nat, NEW p \in Nat, NEW n \in 1..total, n > p * PageSize
  PROVE  p < PagesOf(total)
<1> DEFINE a == total + PageSize - 1
           q == a \div PageSize
<1>1. PageSize \in Nat /\ PageSize > 0 /\ p * PageSize \in Nat
  BY PageSizeAssumption
<1>2. a \in Nat /\ a >= p * PageSize + PageSize
  BY <1>1
<1> HIDE DEF a
<1>3. q \in Int /\ a < q * PageSize + PageSize
  BY <1>1, <1>2
<1> HIDE DEF q
<1>4. p * PageSize < q * PageSize
  <2>1. q * PageSize \in Int
    BY <1>1, <1>3
  <2> QED
    BY <1>1, <1>2, <1>3, <2>1
<1>5. q <= p => q * PageSize <= p * PageSize
  BY <1>1, <1>3
<1>6. p < q
  BY <1>1, <1>3, <1>4, <1>5
<1> QED
  BY <1>6 DEF PagesOf, a, q

\* What is on page p of a list.
LEMMA OnPageFacts ==
  ASSUME NEW S, NEW s \in Seq(S), NEW p \in Nat \ {0}, NEW n \in 1..Len(s),
         n > (p - 1) * PageSize, n <= p * PageSize
  PROVE  s[n] \in Range(OnPage(s, p))
<1> DEFINE lo == (p - 1) * PageSize
           hi == p * PageSize
           last == IF hi < Len(s) THEN hi ELSE Len(s)
           page == SubSeq(s, lo + 1, last)
<1>1. lo \in Nat /\ hi \in Nat /\ Len(s) \in Nat /\ last \in Nat
  BY PageSizeAssumption
<1>2. OnPage(s, p) = page
  BY DEF OnPage
<1>3. lo + 1 <= n /\ n <= last
  BY <1>1
<1>4. \A i \in (lo + 1)..last : s[i] \in S
  <2>1. \A i \in (lo + 1)..last : i \in 1..Len(s)
    BY <1>1
  <2> QED
    BY <2>1, ElementOfSeq
<1> HIDE DEF lo, hi, last
<1>5. /\ page \in Seq(S) /\ Len(page) = last - (lo + 1) + 1
      /\ \A i \in 1..(last - (lo + 1) + 1) : page[i] = s[(lo + 1) + i - 1]
  <2>1. lo + 1 \in Int /\ last \in Int /\ lo + 1 <= last
    BY <1>1, <1>3
  <2> QED
    BY <1>4, <2>1, SubSeqProperties
<1> HIDE DEF page
<1>6. n - lo \in 1..(last - (lo + 1) + 1) /\ (lo + 1) + (n - lo) - 1 = n
  BY <1>1, <1>3
<1>7. page[n - lo] = s[n] /\ n - lo \in DOMAIN page
  BY <1>1, <1>5, <1>6
<1> QED
  BY <1>2, <1>7 DEF Range

----------------------------------------------------------------------------
(* The list of jobs that match.                                            *)

LEMMA FilteredFacts ==
  ASSUME NEW S, jobs \in Seq(S), NEW filter
  PROVE  LET of == Places(filter)
             all == Filtered(filter)
         IN  /\ all \in Seq(S) /\ Len(all) = Cardinality(of) /\ Cardinality(of) \in Nat
             /\ \A k \in of : /\ Cardinality(UpTo(of, k)) \in 1..Len(all)
                             /\ all[Cardinality(UpTo(of, k))] = jobs[k]
<1> DEFINE of == Places(filter)
           all == Filtered(filter)
           N == Len(jobs)
           at(n) == CHOOSE k \in of : Cardinality(UpTo(of, k)) = n
<1>1. N \in Nat /\ of \subseteq 1..N /\ \A k \in 1..N : jobs[k] \in S
  BY ElementOfSeq DEF Places
<1> HIDE DEF of, N
<1>2. /\ Cardinality(of) \in Nat
      /\ \A k \in of : Cardinality(UpTo(of, k)) \in 1..Cardinality(of)
      /\ \A j, k \in of : j < k => Cardinality(UpTo(of, j)) < Cardinality(UpTo(of, k))
      /\ \A n \in 1..Cardinality(of) : \E k \in of : Cardinality(UpTo(of, k)) = n
  BY <1>1, CountUpTo
<1>3. \A n \in 1..Cardinality(of) : at(n) \in of /\ Cardinality(UpTo(of, at(n))) = n
  BY <1>2
<1>4. ASSUME NEW k \in of PROVE at(Cardinality(UpTo(of, k))) = k
  <2> DEFINE n == Cardinality(UpTo(of, k))
             j == at(n)
  <2>1. j \in of /\ Cardinality(UpTo(of, j)) = n /\ n \in Nat
    BY <1>2, <1>3
  <2> HIDE DEF j
  <2>2. j \in Nat /\ k \in Nat
    BY <1>1, <2>1
  <2>3. ~(j < k) /\ ~(k < j)
    BY <1>2, <2>1
  <2>4. j = k
    BY <2>2, <2>3
  <2> QED
    BY <2>4 DEF j
<1>5. all = [n \in 1..Cardinality(of) |-> jobs[at(n)]]
  BY DEF Filtered, of
<1> HIDE DEF at, all
<1>6. all \in Seq(S) /\ Len(all) = Cardinality(of)
  <2>1. \A n \in 1..Cardinality(of) : jobs[at(n)] \in S
    BY <1>1, <1>3
  <2>2. all \in [1..Cardinality(of) -> S]
    BY <1>5, <2>1
  <2> QED
    BY <1>2, <2>2, SeqDef
<1>7. \A k \in of : all[Cardinality(UpTo(of, k))] = jobs[k]
  BY <1>2, <1>4, <1>5
<1> QED
  BY <1>2, <1>6, <1>7 DEF of, all

----------------------------------------------------------------------------
(* The invariant.                                                          *)

\* Job b is in the listing, and not on its first n pages.
Ahead(filter, b, n) ==
  \E k \in Places(filter) :
    jobs[k] = b /\ Cardinality(UpTo(Places(filter), k)) > n * PageSize

\* Every job that was made is in the list, the newest first.
Listing ==
  /\ Range(jobs) = Made
  /\ made \in Seq(Ids) /\ Len(made) = Len(jobs)
  /\ \A k \in 1..Len(jobs) : jobs[k] = made[Len(made) + 1 - k]

\* Where a call may be that has made its job.
Past == {"start", "exec", "update", "settle", "outcome", "reload", "deny", "list", "listed",
         "answer", "success", "failure", "over", "gone"}

Answering == {"reload", "list", "listed", "answer"}

Making(c) ==
  /\ job[c] # None => Kind(c) \in {"deploy", "job", "submit", "run", "tenant"} /\ pc[c] \in Past
  /\ Kind(c) \in {"submit", "run"} /\ (pc[c] \in Answering \/ result[c] = "ok") => job[c] # None

\* What a client that reads page after page has not seen yet is ahead of it.
Unseen(c) == work[c].base \ work[c].seen

Scanned(c) ==
  Kind(c) = "scan" =>
    /\ work[c].page \in Nat \ {0} /\ (pc[c] = "idle" => work[c].page = 1)
    /\ pc[c] \in {"auth", "list"} =>
         \A b \in Unseen(c) : Ahead(Body(c).filter, b, work[c].page - 1)
    /\ pc[c] = "listed" =>
         \A b \in Unseen(c) :
           \/ b \in Range(work[c].items)
           \/ work[c].page < work[c].pages /\ Ahead(Body(c).filter, b, work[c].page)
    /\ result[c] = "ok" => Unseen(c) = {}

\* The jobs the page has asked for, and was not told they failed, that fewer
\* than a page of others have followed.
Recent ==
  {c \in Calls : /\ Kind(c) \in {"submit", "run"} /\ job[c] # None /\ result[c] # "failed"
                 /\ \A i \in DOMAIN made : made[i] = c => Len(made) - i < PageSize}

\* The first page of the list has them.
Loaded(c) ==
  Kind(c) \in PageLoads =>
    /\ work[c].page = 1
    /\ ~crossed /\ pc[c] \in {"listed", "answer"} => Recent \subseteq Range(work[c].items)

Displayed == ~crossed => \A c \in Recent : result[c] = "ok" => c \in Range(shown)

ListInv ==
  /\ Inv /\ Listing /\ Displayed
  /\ \A c \in Calls : Making(c) /\ Scanned(c) /\ Loaded(c)

----------------------------------------------------------------------------
(* What becomes of the list.                                               *)

\* What is ahead stays ahead.
StaysAhead == \A filter, b : \A n \in Nat : Ahead(filter, b, n) => Ahead(filter, b, n)'

LEMMA ListStays ==
  ASSUME Typed, Listing, jobs' = jobs, made' = made, Made' = Made,
         \A i \in Made : job'[i].tenant = job[i].tenant
  PROVE  Listing' /\ StaysAhead
<1>1. \A k \in DOMAIN jobs : jobs[k] \in Made
  BY DEF Listing, Range
<1>2. ASSUME NEW filter PROVE Places(filter)' = Places(filter)
  BY <1>1 DEF Places, Matching
<1> QED
  BY <1>2 DEF Listing, StaysAhead, Ahead

LEMMA ListGrows ==
  ASSUME Typed, Listing, NEW c \in Calls, NEW r, r # None, job[c] = None,
         job' = [job EXCEPT ![c] = r], jobs' = <<c>> \o jobs, made' = Append(made, c)
  PROVE  Listing' /\ StaysAhead
<1> DEFINE N == Len(jobs)
<1>1. /\ jobs \in Seq(Ids) /\ c \in Ids /\ N \in Nat /\ DOMAIN jobs = 1..N
      /\ made \in Seq(Ids) /\ Len(made) = N /\ DOMAIN job = Ids
      /\ Range(jobs) = Made
  <2>1. jobs \in Seq(Made) /\ Made \subseteq Ids /\ DOMAIN job = Ids
    BY DEF Typed, StoreTyped, Made
  <2> QED
    BY <2>1, SeqMonotonic DEF Listing, Ids
<1>2. /\ jobs' \in Seq(Ids) /\ Len(jobs') = N + 1 /\ DOMAIN jobs' = 1..(N + 1)
      /\ jobs'[1] = c /\ \A k \in 1..N : jobs'[k + 1] = jobs[k]
  <2>1. <<c>> \in Seq(Ids) /\ Len(<<c>>) = 1 /\ <<c>>[1] = c
    BY <1>1
  <2>2. /\ jobs' \in Seq(Ids) /\ Len(jobs') = 1 + N
        /\ \A i \in 1..(1 + N) : jobs'[i] = IF i <= 1 THEN <<c>>[i] ELSE jobs[i - 1]
    BY <1>1, <2>1, ConcatProperties
  <2> HIDE DEF N
  <2> QED
    BY <1>1, <2>1, <2>2
<1>3. /\ made' \in Seq(Ids) /\ Len(made') = N + 1
      /\ \A i \in 1..N : made'[i] = made[i]
      /\ made'[N + 1] = c
  BY <1>1, AppendProperties
<1>4. /\ Made' = Made \union {c} /\ c \notin Made
      /\ \A i \in Made : job'[i] = job[i]
  BY <1>1 DEF Made
<1> HIDE DEF N
<1>5. Listing'
  <2>1. Range(jobs') = Made'
    <3>1. \A k \in DOMAIN jobs' : jobs'[k] \in Made'
      <4>1. ASSUME NEW k \in 1..(N + 1) PROVE jobs'[k] \in Made'
        <5>1. CASE k = 1
          BY <1>2, <1>4, <5>1
        <5>2. CASE k # 1
          <6>1. k - 1 \in 1..N /\ (k - 1) + 1 = k
            BY <1>1, <5>2
          <6>2. jobs'[k] = jobs[k - 1]
            BY <1>2, <6>1
          <6> QED
            BY <1>1, <1>4, <6>1, <6>2 DEF Range
        <5> QED
          BY <5>1, <5>2
      <4> QED
        BY <1>2, <4>1
    <3>2. ASSUME NEW i \in Made' PROVE \E k \in DOMAIN jobs' : jobs'[k] = i
      <4>1. CASE i = c
        BY <1>1, <1>2, <4>1
      <4>2. CASE i \in Made
        <5>1. PICK k \in 1..N : jobs[k] = i
          BY <1>1, <4>2 DEF Range
        <5>2. k + 1 \in 1..(N + 1)
          BY <1>1
        <5>3. jobs'[k + 1] = i
          BY <1>2, <5>1
        <5> QED
          BY <1>2, <5>2, <5>3
      <4> QED
        BY <1>4, <4>1, <4>2
    <3> QED
      BY <3>1, <3>2 DEF Range
  <2>2. ASSUME NEW k \in 1..(N + 1) PROVE jobs'[k] = made'[(N + 1) + 1 - k]
    <3>1. CASE k = 1
      BY <1>1, <1>2, <1>3, <3>1
    <3>2. CASE k # 1
      <4>1. k - 1 \in 1..N /\ (k - 1) + 1 = k /\ N + 1 - (k - 1) = (N + 1) + 1 - k
            /\ N + 1 - (k - 1) \in 1..N
        BY <1>1, <3>2
      <4>2. jobs'[k] = jobs[k - 1] /\ made'[N + 1 - (k - 1)] = made[N + 1 - (k - 1)]
        BY <1>2, <1>3, <4>1
      <4>3. jobs[k - 1] = made[N + 1 - (k - 1)]
        BY <1>1, <4>1 DEF Listing, N
      <4> QED
        BY <4>1, <4>2, <4>3
    <3> QED
      BY <3>1, <3>2
  <2> QED
    BY <1>2, <1>3, <2>1, <2>2 DEF Listing
<1>6. ASSUME NEW filter, NEW b, NEW n \in Nat, Ahead(filter, b, n)
      PROVE  Ahead(filter, b, n)'
  <2> DEFINE I == Places(filter)
             J == Places(filter)'
  <2>1. /\ I = {k \in 1..N : filter = NoTenant \/ job[jobs[k]].tenant = filter}
        /\ J = {k \in 1..(N + 1) : filter = NoTenant \/ job'[jobs'[k]].tenant = filter}
    BY <1>1, <1>2 DEF Places, Matching
  <2>2. PICK k \in I : jobs[k] = b /\ Cardinality(UpTo(I, k)) > n * PageSize
    BY <1>6 DEF Ahead
  <2>3. \A i \in I : i \in 1..N /\ i + 1 \in J
    <3>1. ASSUME NEW i \in 1..N
          PROVE  i + 1 \in 1..(N + 1) /\ jobs'[i + 1] = jobs[i] /\ jobs[i] \in Made
      <4>1. i + 1 \in 1..(N + 1)
        BY <1>1
      <4>2. jobs[i] \in Range(jobs)
        BY <1>1 DEF Range
      <4> QED
        BY <1>1, <1>2, <4>1, <4>2
    <3> QED
      BY <1>4, <2>1, <3>1
  <2>4. I \subseteq 1..N /\ J \subseteq 1..(N + 1)
    BY <2>1
  <2> HIDE DEF I, J
  <2>5. Cardinality(UpTo(I, k)) <= Cardinality(UpTo(J, k + 1))
    BY <1>1, <2>3, <2>4, CountShifted
  <2>6. Cardinality(UpTo(I, k)) \in Nat /\ Cardinality(UpTo(J, k + 1)) \in Nat
    <3>1. N + 1 \in Nat /\ k + 1 \in J
      BY <1>1, <2>3
    <3>2. Cardinality(UpTo(I, k)) \in 1..Cardinality(I) /\ Cardinality(I) \in Nat
      BY <1>1, <2>4, CountUpTo
    <3>3. Cardinality(UpTo(J, k + 1)) \in 1..Cardinality(J) /\ Cardinality(J) \in Nat
      BY <2>4, <3>1, CountUpTo
    <3> QED
      BY <3>2, <3>3
  <2>7. n * PageSize \in Nat
    BY PageSizeAssumption
  <2>8. Cardinality(UpTo(J, k + 1)) > n * PageSize
    BY <2>2, <2>5, <2>6, <2>7
  <2>9. k + 1 \in J /\ jobs'[k + 1] = b
    BY <1>2, <2>2, <2>3
  <2> QED
    BY <2>8, <2>9 DEF Ahead, J
<1> QED
  BY <1>5, <1>6 DEF StaysAhead

----------------------------------------------------------------------------
(* The steps.                                                              *)

Kept(c) == Making(c) /\ Scanned(c) /\ Loaded(c)

LEMMA RecentStays ==
  ASSUME req' = req, made' = made,
         \A d \in Calls : /\ job'[d] # None => job[d] # None
                          /\ result[d] = "failed" => result'[d] = "failed"
  PROVE  Recent' \subseteq Recent
BY DEF Recent, Kind

LEMMA RecentGrows ==
  ASSUME req' = req, NEW c \in Calls, made \in Seq(Ids), made' = Append(made, c),
         \A d \in Calls : d # c => job'[d] = job[d] /\ result'[d] = result[d]
  PROVE  \A d \in Recent' :
           d \in Recent \/ (d = c /\ Kind(c) \in {"submit", "run"} /\ result'[c] # "failed")
<1> SUFFICES ASSUME NEW d \in Recent', d # c PROVE d \in Recent
  BY DEF Recent, Kind
<1>1. /\ Len(made) \in Nat /\ Len(made') = Len(made) + 1
      /\ \A i \in 1..Len(made) : made'[i] = made[i]
      /\ DOMAIN made = 1..Len(made) /\ DOMAIN made' = 1..(Len(made) + 1)
  <2>1. c \in Ids
    BY DEF Ids
  <2> QED
    BY <2>1, AppendProperties
<1>2. d \in Calls /\ Kind(d) \in {"submit", "run"} /\ job[d] # None /\ result[d] # "failed"
  BY DEF Recent, Kind
<1>3. ASSUME NEW i \in 1..Len(made), made[i] = d PROVE Len(made) - i < PageSize
  <2>1. i \in 1..(Len(made) + 1) /\ made'[i] = d
    BY <1>1, <1>3
  <2>2. Len(made') - i < PageSize
    BY <1>1, <2>1 DEF Recent
  <2> QED
    BY <1>1, <2>2, PageSizeAssumption
<1> QED
  BY <1>1, <1>2, <1>3 DEF Recent

\* A call that is left alone.
LEMMA Bystander ==
  ASSUME NEW d \in Calls, Kept(d), req' = req, StaysAhead, ~crossed' => ~crossed,
         work'[d] = work[d], result'[d] = result[d], job'[d] = job[d],
         pc'[d] = pc[d] \/ pc'[d] = "gone",
         ~crossed' /\ Kind(d) \in PageLoads /\ pc[d] \in {"listed", "answer"} => Recent' \subseteq Recent
  PROVE  Kept(d)'
<1> USE DEF Kind, Body
<1>1. Making(d)'
  BY DEF Kept, Making, Past, Answering
<1>2. Scanned(d)'
  <2> SUFFICES ASSUME Kind(d) = "scan" PROVE Scanned(d)'
    BY DEF Scanned
  <2>1. work[d].page \in Nat \ {0} /\ work[d].page - 1 \in Nat
    BY DEF Kept, Scanned
  <2> QED
    BY <2>1 DEF Kept, Scanned, StaysAhead, Unseen
<1>3. Loaded(d)'
  BY DEF Kept, Loaded
<1> QED
  BY <1>1, <1>2, <1>3 DEF Kept

\* A step of c that at most moves it on, logs something, answers it or
\* changes records that are there.
LEMMA Passing ==
  ASSUME ListInv, NEW c \in Calls, Frame(c), Listing', StaysAhead,
         made' = made, shown' = shown, crossed' = crossed,
         job'[c] # None => job[c] # None,
         work'[c].page = work[c].page, result[c] # "failed",
         pc'[c] \in Past \/ pc[c] \notin Past,
         pc'[c] \notin Answering \union {"idle", "auth"},
         result'[c] = "ok" => Kind(c) \notin {"scan", "submit", "run"}
  PROVE  Listing' /\ Displayed' /\ \A d \in Calls : Kept(d)'
<1> USE DEF Kind, Body
<1>1. \A d \in Calls : Kept(d)
  BY DEF ListInv, Kept
<1>2. Recent' \subseteq Recent
  BY RecentStays DEF Frame, Same
<1>3. Displayed'
  BY <1>2 DEF Displayed, ListInv, Frame, Same, Recent
<1>4. Kept(c)'
  <2>1. Making(c)'
    BY <1>1 DEF Kept, Making, Frame, Answering
  <2>2. Scanned(c)'
    BY <1>1 DEF Kept, Scanned, Frame, Answering
  <2>3. Loaded(c)'
    BY <1>1 DEF Kept, Loaded, Frame, Answering
  <2> QED
    BY <2>1, <2>2, <2>3 DEF Kept
<1>5. ASSUME NEW d \in Calls, d # c PROVE Kept(d)'
  BY <1>1, <1>2, <1>5, Bystander DEF Frame, Same
<1> QED
  BY <1>3, <1>4, <1>5

\* A step of c that makes its job.
LEMMA Adding ==
  ASSUME ListInv, NEW c \in Calls, Frame(c), NEW status \in JobStatus,
         NEW t \in Tenants \union {NoTenant}, AddJob(c, status, t),
         pc[c] \notin Past, work'[c] = work[c], shown' = shown, ~crossed' => ~crossed,
         Kind(c) \in {"submit", "run"} =>
           \/ pc'[c] = "over" /\ result'[c] = "failed"
           \/ /\ pc'[c] = "reload" /\ result'[c] = result[c]
              /\ (\E d \in Calls : Loading(d)) => crossed',
         Kind(c) \in {"deploy", "job", "submit", "run", "tenant"},
         pc'[c] \in {"start", "success", "failure", "over", "reload"}
  PROVE  Listing' /\ Displayed' /\ \A d \in Calls : Kept(d)'
<1> USE DEF Kind, Body
<1>1. \A d \in Calls : Kept(d)
  BY DEF ListInv, Kept
<1>2. job[c] = None /\ result[c] = "none"
  <2>1. Staged(c)
    BY DEF ListInv, Inv, Local
  <2> QED
    BY <1>1, <2>1 DEF Kept, Making, Staged, Past
<1>3. Typed /\ StoreTyped /\ Listing /\ req' = req
  BY DEF ListInv, Inv, Typed, Frame
<1>4. job'[c] # None /\ \A d \in Calls : d # c => job'[d] = job[d]
  BY <1>3, AddJobFacts
<1>5. Listing' /\ StaysAhead
  <2> DEFINE r == [status |-> status, tenant |-> t]
  <2>1. r # None
    BY NoneAssumption DEF JobRecords
  <2>2. job' = [job EXCEPT ![c] = r] /\ jobs' = <<c>> \o jobs /\ made' = Append(made, c)
    BY DEF AddJob
  <2> HIDE DEF r
  <2> QED
    BY <1>2, <1>3, <2>1, <2>2, ListGrows
<1>6. \A d \in Recent' :
        d \in Recent \/ (d = c /\ Kind(c) \in {"submit", "run"} /\ result'[c] # "failed")
  BY <1>3, <1>4, RecentGrows DEF Listing, AddJob, Frame, Same
<1>7. Displayed'
  <2> SUFFICES ASSUME ~crossed', NEW d \in Recent', result'[d] = "ok" PROVE d \in Range(shown')
    BY DEF Displayed
  <2>1. d # c
    <3>1. c \notin Recent
      BY <1>2 DEF Recent
    <3> QED
      BY <1>2, <1>6, <3>1
  <2>2. d \in Recent /\ d \in Calls /\ result[d] = "ok"
    BY <1>6, <2>1 DEF Frame, Same, Recent
  <2> QED
    BY <2>2 DEF Displayed, ListInv
<1>8. Kept(c)'
  <2>1. Making(c)'
    BY <1>3, <1>4 DEF Making, Past
  <2>2. Scanned(c)'
    BY <1>3 DEF Scanned
  <2>3. Loaded(c)'
    BY <1>1, <1>3 DEF Kept, Loaded
  <2> QED
    BY <2>1, <2>2, <2>3 DEF Kept
<1>9. ASSUME NEW d \in Calls, d # c PROVE Kept(d)'
  <2>1. Same(d)
    BY <1>9 DEF Frame
  <2>2. ASSUME ~crossed', Kind(d) \in PageLoads, pc[d] \in {"listed", "answer"}
        PROVE  Recent' \subseteq Recent
    <3>1. Loading(d)
      BY <2>2 DEF Loading, UnderWay
    <3>2. Kind(c) \notin {"submit", "run"} \/ result'[c] = "failed"
      BY <2>2, <3>1
    <3> QED
      BY <1>6, <3>2
  <2> QED
    BY <1>1, <1>3, <1>5, <2>1, <2>2, Bystander DEF Same
<1> QED
  BY <1>5, <1>7, <1>8, <1>9

LEMMA BeginLists ==
  ASSUME ListInv, NEW c \in Calls, Begin(c)
  PROVE  Listing' /\ Displayed' /\ \A d \in Calls : Kept(d)'
<1> USE DEF Kind, Body
<1>1. /\ Typed /\ CallsTyped /\ Listing /\ Local(c) /\ Frame(c) /\ req' = req
      /\ \A d \in Calls : Kept(d)
  BY BeginStep DEF ListInv, Inv, Typed, Kept, Frame
<1>2. /\ pc[c] = "idle" /\ pc' = [pc EXCEPT ![c] = "auth"] /\ result' = result
      /\ work' = [work EXCEPT ![c].base =
            IF Kind(c) = "scan" THEN {i \in Ids : job[i] # None /\ Matching(i, Body(c).filter)} ELSE {}]
      /\ job' = job /\ jobs' = jobs /\ made' = made /\ shown' = shown
      /\ ~crossed' => ~crossed
  BY DEF Begin, Goto, store
<1>3. /\ pc'[c] = "auth" /\ work'[c].page = work[c].page /\ result[c] = "none" /\ job[c] = None
      /\ Kind(c) = "scan" =>
           work'[c].base = {i \in Ids : job[i] # None /\ Matching(i, Body(c).filter)}
  <2>1. result[c] = "none" /\ job[c] = None
    BY <1>1, <1>2 DEF Local, Staged, Kept, Making, Past
  <2> QED
    BY <1>1, <1>2, <2>1 DEF CallsTyped, Parts
<1>4. Listing' /\ StaysAhead
  BY <1>1, <1>2, ListStays DEF Made
<1>5. Recent' \subseteq Recent
  BY <1>1, <1>2, RecentStays
<1>6. Displayed'
  BY <1>2, <1>5 DEF Displayed, ListInv
<1>7. Scanned(c)'
  <2> SUFFICES ASSUME Kind(c) = "scan" PROVE Scanned(c)'
    BY <1>1 DEF Scanned
  <2>1. work'[c].page = 1
    BY <1>1, <1>2, <1>3 DEF Kept, Scanned
  <2>2. ASSUME NEW b \in Unseen(c)' PROVE Ahead(Body(c).filter, b, 0)
    <3> DEFINE filter == Body(c).filter
    <3>1. b \in Made /\ Matching(b, filter)
      BY <1>3, <2>2 DEF Unseen, Made
    <3>2. PICK k \in DOMAIN jobs : jobs[k] = b
      BY <1>1, <3>1 DEF Listing, Range
    <3>3. k \in Places(filter)
      BY <3>1, <3>2 DEF Places
    <3>4. Cardinality(UpTo(Places(filter), k)) \in 1..Cardinality(Places(filter))
          /\ Cardinality(Places(filter)) \in Nat
      <4>1. jobs \in Seq(Made)
        BY <1>1 DEF Typed, StoreTyped
      <4>2. Places(filter) \subseteq 1..Len(jobs) /\ Len(jobs) \in Nat
        BY <4>1 DEF Places
      <4> HIDE DEF filter
      <4> QED
        BY <3>3, <4>2, CountUpTo
    <3>5. Cardinality(UpTo(Places(filter), k)) > 0 * PageSize
      BY <3>4, PageSizeAssumption
    <3> QED
      BY <3>2, <3>3, <3>5 DEF Ahead
  <2>3. \A b \in Unseen(c)' : Ahead(Body(c).filter, b, 0)'
    BY <1>1, <1>4, <2>2 DEF StaysAhead
  <2>4. 1 - 1 = 0 /\ Body(c)' = Body(c)
    BY <1>1
  <2> QED
    BY <1>1, <1>2, <1>3, <2>1, <2>3, <2>4 DEF Scanned
<1>8. Kept(c)'
  <2>1. Making(c)'
    BY <1>1, <1>2, <1>3 DEF Making, Answering
  <2>2. Loaded(c)'
    BY <1>1, <1>3 DEF Kept, Loaded
  <2> QED
    BY <1>7, <2>1, <2>2 DEF Kept
<1>9. ASSUME NEW d \in Calls, d # c PROVE Kept(d)'
  BY <1>1, <1>2, <1>4, <1>5, <1>9, Bystander DEF Frame, Same
<1> QED
  BY <1>4, <1>6, <1>8, <1>9

LEMMA AuthorizeLists ==
  ASSUME ListInv, NEW c \in Calls, Authorize(c)
  PROVE  Listing' /\ Displayed' /\ \A d \in Calls : Kept(d)'
<1> USE DEF Kind, Body
<1>1. /\ Typed /\ CallsTyped /\ Listing /\ Local(c) /\ Frame(c) /\ req' = req /\ Requests
      /\ \A d \in Calls : Kept(d)
  BY AuthorizeStep DEF ListInv, Inv, Typed, Kept, Frame, CallsTyped, Requests
<1>2. /\ pc[c] \in {"auth", "reload"}
      /\ pc'[c] \in {First(c), "deny"}
      /\ \E role : work' = [work EXCEPT ![c].role = role]
      /\ result' = result /\ job' = job /\ jobs' = jobs /\ made' = made /\ shown' = shown
      /\ crossed' = crossed
  BY <1>1 DEF Authorize, Goto, store, history, CallsTyped
<1>3. /\ work'[c].page = work[c].page /\ work'[c].base = work[c].base
      /\ work'[c].seen = work[c].seen /\ result[c] = "none"
  BY <1>1, <1>2 DEF CallsTyped, Parts, Local, Staged
<1>4. Listing' /\ StaysAhead
  BY <1>1, <1>2, ListStays DEF Made
<1>5. Recent' \subseteq Recent
  BY <1>1, <1>2, RecentStays
<1>6. Displayed'
  BY <1>2, <1>5 DEF Displayed, ListInv
<1>7. pc'[c] \in {"reject", "plan", "deployment", "create", "invalid", "requested", "report", "list", "deny"}
  <2>1. pc[c] = "reload" => Kind(c) \in {"submit", "run"}
    BY <1>1 DEF Local, Staged
  <2> QED
    BY <1>1, <1>2, <2>1, FirstStage
<1>8. pc[c] = "reload" => pc'[c] \in {"list", "deny"}
  BY <1>2 DEF First, Operation
<1>9. pc[c] = "auth" /\ Kind(c) \in {"submit", "run"} => pc'[c] # "list"
  BY <1>2 DEF First, Operation
<1>10. Making(c)'
  <2>1. pc[c] = "auth" => job[c] = None
    BY <1>1 DEF Kept, Making, Past
  <2> QED
    BY <1>1, <1>2, <1>3, <1>7, <1>8, <1>9, <2>1 DEF Kept, Making, Past, Answering
<1>11. Scanned(c)'
  <2> SUFFICES ASSUME Kind(c) = "scan" PROVE Scanned(c)'
    BY <1>1 DEF Scanned
  <2>1. pc[c] = "auth"
    BY <1>1, <1>2 DEF Local, Staged
  <2>2. work[c].page \in Nat \ {0} /\ work[c].page - 1 \in Nat
    BY <1>1 DEF Kept, Scanned
  <2>3. \A b \in Unseen(c) : Ahead(Body(c).filter, b, work[c].page - 1)
    BY <1>1, <2>1 DEF Kept, Scanned
  <2>4. \A b \in Unseen(c)' : Ahead(Body(c).filter, b, work[c].page - 1)'
    BY <1>1, <1>3, <1>4, <2>2, <2>3 DEF StaysAhead, Unseen
  <2> QED
    BY <1>1, <1>2, <1>3, <1>7, <2>2, <2>4 DEF Scanned
<1>12. Loaded(c)'
  BY <1>1, <1>3, <1>7 DEF Kept, Loaded
<1>13. Kept(c)'
  BY <1>10, <1>11, <1>12 DEF Kept
<1>14. ASSUME NEW d \in Calls, d # c PROVE Kept(d)'
  BY <1>1, <1>2, <1>4, <1>5, <1>14, Bystander DEF Frame, Same
<1> QED
  BY <1>4, <1>6, <1>13, <1>14

\* What the first page has.
LEMMA FirstPage ==
  ASSUME Typed, Listing, NEW d \in Recent
  PROVE  d \in Range(OnPage(Filtered(NoTenant), 1))
<1> DEFINE N == Len(jobs)
           of == Places(NoTenant)
           all == Filtered(NoTenant)
<1>1. jobs \in Seq(Made) /\ N \in Nat /\ DOMAIN jobs = 1..N /\ Len(made) = N /\ DOMAIN made = 1..N
  BY DEF Typed, StoreTyped, Listing
<1>2. of = 1..N
  BY <1>1 DEF Places, Matching
<1>3. d \in Made
  BY DEF Recent, Made, Ids
<1>4. PICK k \in 1..N : jobs[k] = d
  BY <1>1, <1>3 DEF Listing, Range
<1>5. k <= PageSize
  <2>1. made[N + 1 - k] = d /\ N + 1 - k \in 1..N
    BY <1>1, <1>4 DEF Listing
  <2>2. N - (N + 1 - k) < PageSize
    BY <1>1, <2>1 DEF Recent
  <2> HIDE DEF N
  <2>3. N - (N + 1 - k) = k - 1
    BY <1>1
  <2> QED
    BY <1>4, <2>2, <2>3, PageSizeAssumption
<1> HIDE DEF N
<1>6. Cardinality(UpTo(1..N, k)) = k
  BY <1>1, CountAll
<1>7. all \in Seq(Made) /\ k \in 1..Len(all) /\ all[k] = d
  BY <1>1, <1>2, <1>4, <1>6, FilteredFacts
<1> HIDE DEF all
<1>8. k > (1 - 1) * PageSize /\ k <= 1 * PageSize
  BY <1>4, <1>5, PageSizeAssumption
<1>9. all[k] \in Range(OnPage(all, 1))
  BY <1>7, <1>8, OnPageFacts
<1> QED
  BY <1>7, <1>9 DEF all

\* What is ahead of a client is on the page it gets or on a later one.
LEMMA NextPage ==
  ASSUME Typed, NEW filter, NEW p \in Nat \ {0}, NEW b, Ahead(filter, b, p - 1)
  PROVE  \/ b \in Range(OnPage(Filtered(filter), p))
         \/ p < PagesOf(Len(Filtered(filter))) /\ Ahead(filter, b, p)
<1> DEFINE of == Places(filter)
           all == Filtered(filter)
<1>1. jobs \in Seq(Made)
  BY DEF Typed, StoreTyped
<1>2. PICK k \in of : jobs[k] = b /\ Cardinality(UpTo(of, k)) > (p - 1) * PageSize
  BY DEF Ahead
<1> DEFINE n == Cardinality(UpTo(of, k))
<1>3. all \in Seq(Made) /\ n \in 1..Len(all) /\ all[n] = b /\ Len(all) \in Nat
  BY <1>1, <1>2, FilteredFacts
<1>4. n > p * PageSize => Ahead(filter, b, p)
  BY <1>2 DEF Ahead
<1>5. n > (p - 1) * PageSize
  BY <1>2
<1> HIDE DEF n, all
<1>6. CASE n <= p * PageSize
  BY <1>3, <1>5, <1>6, OnPageFacts DEF all
<1>7. CASE n > p * PageSize
  BY <1>3, <1>4, <1>7, PagesSuffice DEF all
<1> QED
  BY <1>3, <1>6, <1>7, PageSizeAssumption

LEMMA ListLists ==
  ASSUME ListInv, NEW c \in Calls, List(c)
  PROVE  Listing' /\ Displayed' /\ \A d \in Calls : Kept(d)'
<1> USE DEF Kind, Body
<1> DEFINE filter == IF Kind(c) = "scan" THEN Body(c).filter ELSE NoTenant
           all == Filtered(filter)
<1>1. /\ Typed /\ CallsTyped /\ Listing /\ Local(c) /\ Frame(c) /\ req' = req
      /\ \A d \in Calls : Kept(d)
  BY ListSteps DEF ListInv, Inv, Typed, Kept, Frame
<1>2. /\ pc[c] = "list" /\ pc' = [pc EXCEPT ![c] = "listed"] /\ result' = result
      /\ work' = [work EXCEPT ![c].items = OnPage(all, work[c].page), ![c].pages = PagesOf(Len(all))]
      /\ job' = job /\ jobs' = jobs /\ made' = made /\ shown' = shown /\ crossed' = crossed
  BY DEF List, Goto, store, history
<1> HIDE DEF all
<1>3. /\ pc'[c] = "listed" /\ result[c] = "none"
      /\ work'[c].page = work[c].page /\ work'[c].base = work[c].base /\ work'[c].seen = work[c].seen
      /\ work'[c].items = OnPage(all, work[c].page) /\ work'[c].pages = PagesOf(Len(all))
  BY <1>1, <1>2 DEF CallsTyped, Parts, Local, Staged
<1>4. Listing' /\ StaysAhead
  BY <1>1, <1>2, ListStays DEF Made
<1>5. Recent' \subseteq Recent
  BY <1>1, <1>2, RecentStays
<1>6. Displayed'
  BY <1>2, <1>5 DEF Displayed, ListInv
<1>7. Making(c)'
  BY <1>1, <1>2, <1>3 DEF Kept, Making, Past, Answering
<1>8. Scanned(c)'
  <2> SUFFICES ASSUME Kind(c) = "scan" PROVE Scanned(c)'
    BY <1>1 DEF Scanned
  <2>1. work[c].page \in Nat \ {0} /\ \A b \in Unseen(c) : Ahead(Body(c).filter, b, work[c].page - 1)
    BY <1>1, <1>2 DEF Kept, Scanned
  <2>2. ASSUME NEW b \in Unseen(c)
        PROVE  \/ b \in Range(work'[c].items)
               \/ work[c].page < work'[c].pages /\ Ahead(Body(c).filter, b, work[c].page)
    BY <1>1, <1>3, <2>1, <2>2, NextPage DEF all
  <2>3. ASSUME NEW b \in Unseen(c)'
        PROVE  \/ b \in Range(work'[c].items)
               \/ work'[c].page < work'[c].pages /\ Ahead(Body(c).filter, b, work[c].page)'
    <3>1. b \in Unseen(c)
      BY <1>3, <2>3 DEF Unseen
    <3> QED
      BY <1>1, <1>3, <1>4, <2>1, <2>2, <3>1 DEF StaysAhead
  <2> QED
    BY <1>2, <1>3, <2>1, <2>3 DEF Scanned
<1>9. Loaded(c)'
  <2> SUFFICES ASSUME Kind(c) \in PageLoads PROVE Loaded(c)'
    BY <1>1 DEF Loaded
  <2>1. work[c].page = 1
    BY <1>1 DEF Kept, Loaded
  <2>2. Kind(c) # "scan"
    BY DEF PageLoads
  <2>3. work'[c].items = OnPage(Filtered(NoTenant), 1)
    BY <1>3, <2>1, <2>2 DEF all
  <2>4. Recent' \subseteq Range(work'[c].items)
    BY <1>1, <1>5, <2>3, FirstPage
  <2> QED
    BY <1>3, <2>1, <2>4 DEF Loaded
<1>10. Kept(c)'
  BY <1>7, <1>8, <1>9 DEF Kept
<1>11. ASSUME NEW d \in Calls, d # c PROVE Kept(d)'
  BY <1>1, <1>2, <1>4, <1>5, <1>11, Bystander DEF Frame, Same
<1> QED
  BY <1>4, <1>6, <1>10, <1>11

LEMMA ListedLists ==
  ASSUME ListInv, NEW c \in Calls, Listed(c)
  PROVE  Listing' /\ Displayed' /\ \A d \in Calls : Kept(d)'
<1> USE DEF Kind, Body
<1>1. /\ Typed /\ CallsTyped /\ Listing /\ Local(c) /\ Frame(c) /\ req' = req
      /\ \A d \in Calls : Kept(d)
  BY ListSteps DEF ListInv, Inv, Typed, Kept, Frame
<1>2. /\ pc[c] = "listed" /\ result[c] = "none"
      /\ job' = job /\ jobs' = jobs /\ made' = made /\ shown' = shown /\ crossed' = crossed
  BY <1>1 DEF Listed, store, history, Local, Staged
<1>3. Listing' /\ StaysAhead
  BY <1>1, <1>2, ListStays DEF Made
<1>4. Recent' \subseteq Recent
  BY <1>1, <1>2, RecentStays DEF Frame, Same
<1>5. ASSUME NEW d \in Calls, d # c PROVE Kept(d)'
  BY <1>1, <1>2, <1>3, <1>4, <1>5, Bystander DEF Frame, Same
<1>6. CASE Kind(c) \in PageLoads
  <2>1. pc'[c] = "answer" /\ work' = work /\ result' = result
    BY <1>1, <1>6 DEF Listed, Goto, CallsTyped
  <2>2. Displayed'
    BY <1>2, <1>4, <2>1 DEF Displayed, ListInv
  <2>3. Making(c)'
    BY <1>1, <1>2, <2>1 DEF Kept, Making, Past, Answering
  <2>4. Scanned(c)' /\ Loaded(c)'
    BY <1>1, <1>2, <1>4, <1>6, <2>1 DEF Kept, Scanned, Loaded, PageLoads
  <2> QED
    BY <1>3, <1>5, <2>2, <2>3, <2>4 DEF Kept
<1>7. CASE Kind(c) \notin PageLoads
  <2>1. Kind(c) = "scan"
    BY <1>1, <1>2, <1>7 DEF Local, Staged
  <2>2. /\ work'[c].page = work[c].page + 1 /\ work'[c].base = work[c].base
        /\ work'[c].seen = work[c].seen \union Range(work[c].items)
    BY <1>1, <1>7 DEF Listed, CallsTyped, Parts
  <2>3. IF work[c].page < work[c].pages THEN pc'[c] = "auth" /\ result' = result
        ELSE pc'[c] = "over" /\ result' = [result EXCEPT ![c] = "ok"]
    BY <1>1, <1>7 DEF Listed, Goto, Conclude, CallsTyped
  <2>4. work[c].page \in Nat \ {0}
    BY <1>1, <2>1 DEF Kept, Scanned
  <2>5. ASSUME NEW b \in Unseen(c)'
        PROVE  work[c].page < work[c].pages /\ Ahead(Body(c).filter, b, work[c].page)
    <3>1. b \in Unseen(c) /\ b \notin Range(work[c].items)
      BY <2>2, <2>5 DEF Unseen
    <3> QED
      BY <1>1, <1>2, <2>1, <3>1 DEF Kept, Scanned
  <2>6. Scanned(c)'
    <3>1. work'[c].page \in Nat \ {0} /\ work'[c].page - 1 = work[c].page /\ work[c].page \in Nat
      BY <2>2, <2>4
    <3>2. \A b \in Unseen(c)' : Ahead(Body(c).filter, b, work[c].page - 1)'
      <4>1. ASSUME NEW f, f = Body(c).filter, NEW n, n = work[c].page, NEW b \in Unseen(c)'
            PROVE  Ahead(f, b, n)'
        BY <1>3, <2>4, <2>5, <4>1 DEF StaysAhead
      <4>2. Body(c)' = Body(c)
        BY <1>1
      <4> QED
        BY <3>1, <4>1, <4>2
    <3>3. result'[c] = "ok" => Unseen(c)' = {}
      BY <1>2, <2>3, <2>5
    <3> QED
      BY <1>1, <2>3, <3>1, <3>2, <3>3 DEF Scanned
  <2>7. Making(c)' /\ Loaded(c)'
    BY <1>1, <1>2, <1>7, <2>1, <2>3 DEF Kept, Making, Loaded, Past, Answering
  <2>8. Displayed'
    <3> SUFFICES ASSUME ~crossed', NEW d \in Recent', result'[d] = "ok" PROVE d \in Range(shown')
      BY DEF Displayed
    <3>1. d # c /\ d \in Recent /\ d \in Calls
      BY <1>1, <1>4, <2>1 DEF Recent
    <3> QED
      BY <1>1, <1>2, <3>1 DEF Displayed, ListInv, Frame, Same
  <2> QED
    BY <1>3, <1>5, <2>6, <2>7, <2>8 DEF Kept
<1> QED
  BY <1>6, <1>7

LEMMA ShowLists ==
  ASSUME ListInv, NEW c \in Calls, Show(c)
  PROVE  Listing' /\ Displayed' /\ \A d \in Calls : Kept(d)'
<1> USE DEF Kind, Body
<1>1. /\ Typed /\ CallsTyped /\ Listing /\ Local(c) /\ Frame(c) /\ req' = req
      /\ \A d \in Calls : Kept(d)
  BY ListSteps DEF ListInv, Inv, Typed, Kept, Frame
<1>2. /\ pc[c] = "answer" /\ result[c] = "none" /\ Kind(c) \in PageLoads
      /\ pc'[c] = "over" /\ result'[c] = "ok" /\ work'[c].page = work[c].page
      /\ shown' = work[c].items
      /\ job' = job /\ jobs' = jobs /\ made' = made /\ crossed' = crossed
  BY <1>1 DEF Show, Conclude, Goto, store, history, Local, Staged, CallsTyped, Parts
<1>3. Listing' /\ StaysAhead
  BY <1>1, <1>2, ListStays DEF Made
<1>4. Recent' \subseteq Recent
  BY <1>1, <1>2, RecentStays DEF Frame, Same
<1>5. Displayed'
  BY <1>1, <1>2, <1>4 DEF Displayed, Kept, Loaded
<1>6. Making(c)'
  BY <1>1, <1>2 DEF Kept, Making, Past, Answering
<1>7. Scanned(c)' /\ Loaded(c)'
  BY <1>1, <1>2 DEF Kept, Scanned, Loaded, PageLoads
<1>8. ASSUME NEW d \in Calls, d # c PROVE Kept(d)'
  BY <1>1, <1>2, <1>3, <1>4, <1>8, Bystander DEF Frame, Same
<1> QED
  BY <1>3, <1>5, <1>6, <1>7, <1>8 DEF Kept

LEMMA QuietLists ==
  ASSUME ListInv, NEW c \in Calls,
         \/ Deny(c) \/ Invalid(c) \/ Reject(c) \/ Plan(c) \/ AuditStart(c) \/ AuditOutcome(c)
         \/ RequestTenant(c) \/ AuditOverride(c) \/ RefuseTenant(c)
         \/ AuditSuccess(c) \/ AuditFailure(c)
  PROVE  Listing' /\ Displayed' /\ \A d \in Calls : Kept(d)'
<1>1. /\ Typed /\ CallsTyped /\ Listing /\ Local(c) /\ Frame(c)
  BY SpeakSteps DEF ListInv, Inv, Typed
<1>2. /\ job' = job /\ jobs' = jobs /\ made' = made /\ shown' = shown /\ crossed' = crossed
      /\ work' = work
  BY DEF Deny, Invalid, Reject, Plan, AuditStart, AuditOutcome, RequestTenant, AuditOverride,
     RefuseTenant, AuditSuccess, AuditFailure, store, history
<1>3. Listing' /\ StaysAhead
  BY <1>1, <1>2, ListStays DEF Made
<1>4. /\ pc'[c] \in Past \/ pc[c] \notin Past
      /\ pc'[c] \notin Answering \union {"idle", "auth"}
  <2>1. CASE \/ Deny(c) \/ Invalid(c) \/ Reject(c) \/ Plan(c) \/ AuditStart(c) \/ AuditOutcome(c)
             \/ AuditSuccess(c) \/ AuditFailure(c)
    BY <1>1, <2>1 DEF Deny, Invalid, Reject, Plan, AuditStart, AuditOutcome, AuditSuccess,
       AuditFailure, Conclude, Goto, CallsTyped, Past, Answering
  <2>2. CASE RequestTenant(c) \/ AuditOverride(c) \/ RefuseTenant(c)
    BY <1>1, <2>2 DEF RequestTenant, AuditOverride, RefuseTenant, AfterRequest, Goto, CallsTyped,
       Past, Answering
  <2> QED
    BY <2>1, <2>2
<1>5. result'[c] = "ok" => Kind(c) \notin {"scan", "submit", "run"}
  <2>1. CASE Deny(c) \/ Invalid(c) \/ Reject(c) \/ AuditFailure(c)
    BY <1>1, <2>1 DEF Deny, Invalid, Reject, AuditFailure, Conclude, CallsTyped
  <2>2. CASE Plan(c) \/ AuditOutcome(c) \/ AuditSuccess(c)
    BY <1>1, <2>2 DEF Plan, AuditOutcome, AuditSuccess, Local, Staged, Running
  <2>3. CASE AuditStart(c) \/ RequestTenant(c) \/ AuditOverride(c) \/ RefuseTenant(c)
    BY <1>1, <2>3 DEF AuditStart, RequestTenant, AuditOverride, RefuseTenant, Local, Staged
  <2> QED
    BY <2>1, <2>2, <2>3
<1>6. result[c] = "none"
  BY <1>1 DEF Deny, Invalid, Reject, Plan, AuditStart, AuditOutcome, RequestTenant, AuditOverride,
     RefuseTenant, AuditSuccess, AuditFailure, Local, Staged
<1> QED
  BY <1>1, <1>2, <1>3, <1>4, <1>5, <1>6, Passing

LEMMA RecordLists ==
  ASSUME ListInv, NEW c \in Calls,
         CreateDeployment(c) \/ Exec(c) \/ UpdateJob(c) \/ UpdateDeployment(c) \/ Report(c) \/ Fail(c)
  PROVE  Listing' /\ Displayed' /\ \A d \in Calls : Kept(d)'
<1>1. /\ Typed /\ StoreTyped /\ CallsTyped /\ Listing /\ Local(c) /\ Frame(c)
  BY CreateDeploymentStep, ExecStep, UpdateJobStep, UpdateDeploymentStep, ReportStep, FailStep
     DEF ListInv, Inv, Typed
<1>7. Inv
  BY DEF ListInv
<1>2. /\ jobs' = jobs /\ made' = made /\ shown' = shown /\ crossed' = crossed
      /\ UpdateJob(c) \/ job' = job
  BY DEF CreateDeployment, Exec, UpdateJob, UpdateDeployment, Report, Fail, store, history
<1>3. work'[c].page = work[c].page
  <2>1. CASE Exec(c)
    BY <1>1, <2>1 DEF Exec, CallsTyped, Parts
  <2>2. CASE Report(c)
    BY <1>1, <2>2 DEF Report, CallsTyped, Parts
  <2>3. CASE ~Exec(c) /\ ~Report(c)
    BY <2>3 DEF CreateDeployment, UpdateJob, UpdateDeployment, Fail
  <2> QED
    BY <2>1, <2>2, <2>3
<1>4. /\ Made' = Made /\ \A i \in Made : job'[i].tenant = job[i].tenant
      /\ job'[c] # None => job[c] # None
  <2>1. CASE UpdateJob(c)
    <3>1. c \in Ids /\ job[c] # None /\ job[c] \in JobRecords
      BY <1>1, <2>1 DEF UpdateJob, Local, Recorded, Running, Ids, StoreTyped
    <3>2. /\ DOMAIN job' = Ids /\ \A i \in Ids : i # c => job'[i] = job[i]
          /\ job'[c] = [job[c] EXCEPT !.status = JobOutcome(c)]
      BY <1>1, <2>1, <3>1 DEF UpdateJob, StoreTyped
    <3>3. job'[c].tenant = job[c].tenant /\ job'[c] \in JobRecords
      BY <3>1, <3>2 DEF JobRecords, JobOutcome, JobStatus
    <3>4. job'[c] # None
      BY <3>3, NoneAssumption
    <3> QED
      BY <3>1, <3>2, <3>3, <3>4 DEF Made
  <2>2. CASE job' = job
    BY <2>2 DEF Made
  <2> QED
    BY <1>2, <2>1, <2>2
<1>5. Listing' /\ StaysAhead
  BY <1>1, <1>2, <1>4, ListStays
<1>6. /\ pc'[c] \in Past \/ pc[c] \notin Past
      /\ pc'[c] \notin Answering \union {"idle", "auth"}
      /\ result'[c] = "ok" => Kind(c) \notin {"scan", "submit", "run"}
  <2>1. CASE Exec(c)
    BY <1>1, <2>1 DEF Exec, Goto, CallsTyped, Past, Answering, Local, Staged
  <2>4. CASE CreateDeployment(c) \/ UpdateJob(c) \/ UpdateDeployment(c)
    <3>1. pc'[c] \in {"track", "settle", "outcome", "over", "failure"}
      <4>1. CASE CreateDeployment(c)
        BY <1>7, <4>1, Proceeds DEF CreateDeployment, Awaits
      <4>2. CASE UpdateJob(c)
        BY <1>7, <4>2, Proceeds DEF UpdateJob, Awaits
      <4>3. CASE UpdateDeployment(c)
        BY <1>7, <4>3, Proceeds DEF UpdateDeployment, Awaits
      <4> QED
        BY <2>4, <4>1, <4>2, <4>3
    <3>2. Kind(c) = "deploy" /\ pc[c] \in {"deployment", "update", "settle"}
      BY <1>1, <2>4 DEF CreateDeployment, UpdateJob, UpdateDeployment, Local, Staged, Running
    <3>3. pc'[c] = "track" => pc[c] = "deployment"
      <4>1. CASE UpdateJob(c)
        BY <1>7, <4>1, Proceeds DEF UpdateJob, Awaits
      <4>2. CASE UpdateDeployment(c)
        BY <1>7, <4>2, Proceeds DEF UpdateDeployment, Awaits
      <4> QED
        BY <2>4, <4>1, <4>2 DEF CreateDeployment
    <3> QED
      BY <3>1, <3>2, <3>3 DEF Past, Answering
  <2>2. CASE Report(c)
    <3>1. Kind(c) \notin {"scan", "submit", "run"}
      BY <1>1, <2>2 DEF Report, Local, Staged, Reports
    <3>2. pc'[c] \in {"over", "success"}
      BY <1>1, <2>2 DEF Report, Goto, Conclude, CallsTyped
    <3> QED
      BY <3>1, <3>2 DEF Past, Answering
  <2>3. CASE Fail(c)
    <3>1. pc'[c] \in {"over", "failure"} /\ (result'[c] = result[c] \/ result'[c] = "failed")
      BY <1>7, <2>3, Breaks DEF Fail
    <3>2. result[c] = "none"
      BY <1>1, <2>3 DEF Fail, Accesses, Local, Staged
    <3> QED
      BY <3>1, <3>2 DEF Past, Answering
  <2> QED
    BY <2>1, <2>2, <2>3, <2>4
<1>8. result[c] = "none"
  BY <1>1 DEF CreateDeployment, Exec, UpdateJob, UpdateDeployment, Report, Fail, Accesses, Local, Staged
<1> QED
  BY <1>1, <1>2, <1>3, <1>4, <1>5, <1>6, <1>8, Passing

LEMMA CreateLists ==
  ASSUME ListInv, NEW c \in Calls, CreateTrackingJob(c) \/ CreateJob(c) \/ CreateTenant(c)
  PROVE  Listing' /\ Displayed' /\ \A d \in Calls : Kept(d)'
<1>1. /\ CallsTyped /\ Local(c) /\ Frame(c) /\ Requests
  BY CreateTrackingJobStep, CreateJobStep, CreateTenantStep DEF ListInv, Inv, Typed, CallsTyped, Requests
<1>2. work' = work /\ shown' = shown /\ Inv
  BY DEF CreateTrackingJob, CreateJob, CreateTenant, ListInv
<1>3. CASE CreateTrackingJob(c)
  <2>1. Kind(c) = "deploy" /\ pc[c] = "track" /\ Body(c).tenant \in Tenants
    BY <1>1, <1>3, RequestFacts DEF Local, Staged, CreateTrackingJob, Running, WellFormed, DeployBodies
  <2>2. KeptTenant(Body(c).tenant) \in Tenants \union {NoTenant}
    BY <2>1, KeptTenantType
  <2>3. /\ AddJob(c, "Running", KeptTenant(Body(c).tenant)) /\ pc'[c] \in {"start", "over"}
        /\ crossed' = crossed
    BY <1>2, <1>3, <2>1, Proceeds DEF CreateTrackingJob, history, Awaits
  <2>4. "Running" \in JobStatus /\ pc[c] \notin Past
    BY <2>1 DEF JobStatus, Past
  <2> QED
    BY <1>1, <1>2, <2>1, <2>2, <2>3, <2>4, Adding
<1>4. CASE CreateJob(c)
  <2> DEFINE status == IF Body(c).status = "default" THEN "Queued" ELSE Body(c).status
  <2>1. Kind(c) \in {"job", "submit", "run"} /\ pc[c] = "create" /\ Body(c).tenant \in Tenants
        /\ ValidJob(Body(c))
    BY <1>1, <1>4, RequestFacts DEF Local, Staged, CreateJob, ValidJob, JobBodies, ProvisionBodies
  <2>2. KeptTenant(Body(c).tenant) \in Tenants \union {NoTenant}
    BY <2>1, KeptTenantType
  <2>3. status \in JobStatus /\ pc[c] \notin Past
    BY <2>1 DEF ValidJob, JobStatus, Past
  <2>4. AddJob(c, status, KeptTenant(Body(c).tenant))
    BY <1>4 DEF CreateJob
  <2>5. Kind(c) \in {"submit", "run"} =>
          \/ pc'[c] = "over" /\ result'[c] = "failed"
          \/ /\ pc'[c] = "reload" /\ result'[c] = result[c]
             /\ (\E d \in Calls : Loading(d)) => crossed'
    <3> SUFFICES ASSUME Kind(c) # "job"
        PROVE  \/ pc'[c] = "over" /\ result'[c] = "failed"
               \/ /\ pc'[c] = "reload" /\ result'[c] = result[c]
                  /\ (\E d \in Calls : Loading(d)) => crossed'
      OBVIOUS
    <3>1. Proceed(c, "reload") /\ crossed' = (crossed \/ (pc'[c] = "reload" /\ \E d \in Calls : Loading(d)))
      BY <1>4 DEF CreateJob
    <3>2. (pc'[c] = "reload" /\ result'[c] = result[c]) \/ (pc'[c] = "over" /\ result'[c] = "failed")
      BY <1>2, <2>1, <3>1, Proceeds DEF Awaits
    <3> QED
      BY <3>1, <3>2
  <2>6. pc'[c] \in {"over", "reload"}
    <3>1. CASE Proceed(c, "reload")
      BY <1>2, <2>1, <3>1, Proceeds DEF Awaits
    <3>2. CASE Conclude(c, "ok")
      BY <1>1, <3>2 DEF Goto, Conclude, CallsTyped
    <3>3. CASE Fault /\ Break(c)
      BY <1>2, <2>1, <3>3, Breaks
    <3> QED
      BY <1>4, <3>1, <3>2, <3>3 DEF CreateJob
  <2>7. ~crossed' => ~crossed
    BY <1>4 DEF CreateJob
  <2> HIDE DEF status
  <2> QED
    BY <1>1, <1>2, <2>1, <2>2, <2>3, <2>4, <2>5, <2>6, <2>7, Adding
<1>5. CASE CreateTenant(c)
  <2>1. Kind(c) = "tenant" /\ pc[c] = "tenant" /\ Body(c).name \in Tenants
    BY <1>1, <1>5, RequestFacts DEF Local, Staged, CreateTenant, TenantBodies
  <2>2. /\ AddJob(c, "Queued", Body(c).name) /\ pc'[c] \in {"success", "failure"}
        /\ crossed' = crossed
    BY <1>2, <1>5, <2>1, Proceeds DEF CreateTenant, history, Awaits
  <2>3. "Queued" \in JobStatus /\ pc[c] \notin Past
    BY <2>1 DEF JobStatus, Past
  <2> QED
    BY <1>1, <1>2, <2>1, <2>2, <2>3, Adding
<1> QED
  BY <1>3, <1>4, <1>5

LEMMA OtherLists ==
  ASSUME ListInv, Tick \/ Crash \/ UNCHANGED vars
  PROVE  Listing' /\ Displayed' /\ \A d \in Calls : Kept(d)'
<1>1. Typed /\ CallsTyped /\ Listing /\ \A d \in Calls : Kept(d)
  BY DEF ListInv, Inv, Typed, Kept
<1>2. /\ job' = job /\ jobs' = jobs /\ made' = made /\ shown' = shown /\ crossed' = crossed
      /\ work' = work /\ result' = result /\ req' = req
  BY DEF Tick, Crash, vars, store, history
<1>3. \A d \in Calls : pc'[d] = pc[d] \/ pc'[d] = "gone"
  BY DEF Tick, Crash, vars
<1>4. Listing' /\ StaysAhead
  BY <1>1, <1>2, ListStays DEF Made
<1>5. Recent' \subseteq Recent
  BY <1>2, RecentStays
<1>6. Displayed'
  BY <1>2, <1>5 DEF Displayed, ListInv
<1>7. ASSUME NEW d \in Calls PROVE Kept(d)'
  BY <1>1, <1>2, <1>3, <1>4, <1>5, Bystander
<1> QED
  BY <1>4, <1>6, <1>7

LEMMA InitLists ==
  Init => ListInv
<1> SUFFICES ASSUME Init PROVE ListInv
  OBVIOUS
<1> DEFINE n == Len(Older)
<1>1. Older \in Seq(Range(Older)) /\ n \in Nat /\ DOMAIN Older = 1..n /\ Inv
  BY OlderAssumption, InitInv
<1>2. jobs = [i \in 1..n |-> Older[n + 1 - i]] /\ made = Older
  BY DEF Init
<1>3. Made = Range(Older)
  <2> DEFINE old == [status |-> "Success", tenant |-> NoTenant]
  <2>1. old # None
    BY NoneAssumption DEF JobRecords, JobStatus
  <2>2. job = [i \in Ids |-> IF i \in Calls THEN None ELSE old]
    BY DEF Init
  <2> HIDE DEF old
  <2>3. Range(Older) \intersect Calls = {}
    BY OlderAssumption DEF Range
  <2> QED
    BY <2>1, <2>2, <2>3 DEF Made, Ids
<1> HIDE DEF n
<1>4. Listing
  <2>1. made \in Seq(Ids) /\ Len(made) = n
    BY <1>1, <1>2, SeqMonotonic DEF Ids, n
  <2>2. jobs \in Seq(Range(Older)) /\ Len(jobs) = n /\ DOMAIN jobs = 1..n
    <3>1. \A i \in 1..n : n + 1 - i \in 1..n
      BY <1>1
    <3>2. \A i \in 1..n : Older[n + 1 - i] \in Range(Older)
      BY <1>1, <3>1 DEF Range
    <3>3. jobs \in [1..n -> Range(Older)]
      BY <1>2, <3>2
    <3> QED
      BY <1>1, <3>3, SeqDef
  <2>3. \A k \in 1..n : jobs[k] = made[n + 1 - k]
    BY <1>2
  <2>4. ASSUME NEW i \in Range(Older) PROVE \E k \in DOMAIN jobs : jobs[k] = i
    <3>1. PICK j \in 1..n : Older[j] = i
      BY <1>1 DEF Range
    <3>2. n + 1 - j \in 1..n /\ n + 1 - (n + 1 - j) = j
      BY <1>1
    <3>3. jobs[n + 1 - j] = i
      BY <1>2, <3>1, <3>2
    <3> QED
      BY <2>2, <3>2, <3>3
  <2>5. Range(jobs) = Range(Older)
    <3>1. \A k \in DOMAIN jobs : jobs[k] \in Range(Older)
      BY <2>2, ElementOfSeq
    <3> QED
      BY <2>4, <3>1 DEF Range
  <2> QED
    BY <1>3, <2>1, <2>2, <2>3, <2>5 DEF Listing
<1>5. \A c \in Calls : pc[c] = "idle" /\ result[c] = "none" /\ job[c] = None /\ work[c] = Idle
  BY DEF Init, Ids
<1>6. Displayed
  BY <1>5 DEF Displayed, Recent
<1>7. ASSUME NEW c \in Calls PROVE Making(c) /\ Scanned(c) /\ Loaded(c)
  BY <1>5 DEF Making, Scanned, Loaded, Answering, Idle
<1> QED
  BY <1>1, <1>4, <1>6, <1>7 DEF ListInv

LEMMA StepLists ==
  ListInv /\ [Next]_vars => ListInv'
<1> SUFFICES ASSUME ListInv, [Next]_vars PROVE ListInv'
  OBVIOUS
<1>1. Inv'
  BY StepInv DEF ListInv
<1>2. Listing' /\ Displayed' /\ \A d \in Calls : Kept(d)'
  BY BeginLists, AuthorizeLists, ListLists, ListedLists, ShowLists, QuietLists, RecordLists,
     CreateLists, OtherLists DEF Next
<1> QED
  BY <1>1, <1>2 DEF ListInv, Kept

LEMMA Lists ==
  Spec => []ListInv
BY InitLists, StepLists, PTL DEF Spec

----------------------------------------------------------------------------
(* The list holds every job that was made, in the reverse of the order in  *)
(* which they were made (createJob).                                       *)
THEOREM Complete ==
  Spec => []Listing
<1>1. ListInv => Listing
  BY DEF ListInv
<1> QED
  BY <1>1, Lists, PTL

(* A client that reads all pages of a listing gets every job that was      *)
(* there when it began, however many are made meanwhile, on a page of any  *)
(* size (GET /api/jobs).                                                   *)
THEOREM NothingMissed ==
  Spec => []PagesMissNothing
<1>1. ListInv => PagesMissNothing
  BY DEF ListInv, Scanned, Unseen, PagesMissNothing
<1> QED
  BY <1>1, Lists, PTL

(* The page shows the job it asked for once the list is loaded again,      *)
(* unless a page of newer ones was made or two loads crossed               *)
(* (app/jobs/page.tsx).                                                    *)
THEOREM OwnShown ==
  Spec => []OwnJobShown
<1>1. ASSUME ListInv PROVE OwnJobShown
  <2>1. ASSUME NEW c \in Calls, Kind(c) \in {"submit", "run"}, result[c] = "ok", ~crossed,
               \A i \in DOMAIN made : made[i] = c => Len(made) - i < PageSize
        PROVE  c \in Range(shown)
    <3>1. c \in Recent
      BY <1>1, <2>1 DEF ListInv, Making, Recent
    <3> QED
      BY <1>1, <2>1, <3>1 DEF ListInv, Displayed
  <2> QED
    BY <2>1 DEF OwnJobShown
<1>2. ListInv => OwnJobShown
  BY <1>1
<1> QED
  BY <1>2, Lists, PTL
=============================================================================
