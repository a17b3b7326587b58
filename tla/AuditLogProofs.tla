--------------------------- MODULE AuditLogProofs ---------------------------
(***************************************************************************)
(* Proofs about the audit log, for any events, cap, faults and crashes.    *)
(***************************************************************************)
EXTENDS AuditLog, SequenceTheorems, FiniteSetTheorems, TLAPS

Lines == Events \union {Torn}

----------------------------------------------------------------------------
(* Lemmas about lines.                                                     *)

\* What is taken off the end of a sequence.
LEMMA LastFacts ==
  ASSUME NEW S, NEW s \in Seq(S), NEW n \in 0..Len(s)
  PROVE  /\ Last(n, s) \in Seq(S)
         /\ Len(Last(n, s)) = n
         /\ \A i \in 1..n : Last(n, s)[i] = s[Len(s) - n + i]
         /\ Range(Last(n, s)) \subseteq Range(s)
<1> DEFINE m == Len(s) - n + 1
<1>1. Len(s) \in Nat /\ n \in Nat /\ m \in Int /\ 1 <= m
  BY LenProperties
<1>2. \A i \in m..Len(s) : s[i] \in S
  BY <1>1, ElementOfSeq
<1>3. /\ SubSeq(s, m, Len(s)) \in Seq(S)
      /\ Len(SubSeq(s, m, Len(s))) = IF m <= Len(s) THEN Len(s) - m + 1 ELSE 0
      /\ \A i \in 1..Len(s) - m + 1 : SubSeq(s, m, Len(s))[i] = s[m + i - 1]
  BY <1>1, <1>2, SubSeqProperties
<1>4. Last(n, s) = SubSeq(s, m, Len(s))
  BY DEF Last
<1>5. Last(n, s) \in Seq(S) /\ Len(Last(n, s)) = n
      /\ \A i \in 1..n : Last(n, s)[i] = s[Len(s) - n + i]
  BY <1>1, <1>3, <1>4
<1>6. Range(Last(n, s)) \subseteq Range(s)
  <2>1. Range(Last(n, s)) = {Last(n, s)[i] : i \in 1..n} /\ Range(s) = {s[i] : i \in 1..Len(s)}
    BY <1>5, RangeEquality
  <2>2. \A i \in 1..n : Len(s) - n + i \in 1..Len(s)
    BY <1>1
  <2> QED
    BY <1>5, <2>1, <2>2
<1> QED
  BY <1>5, <1>6

\* What a beginning of a sequence holds.
LEMMA PrefixFacts ==
  ASSUME NEW S, NEW s \in Seq(S), NEW n \in 0..Len(s)
  PROVE  /\ SubSeq(s, 1, n) \in Seq(S)
         /\ Len(SubSeq(s, 1, n)) = n
         /\ Range(SubSeq(s, 1, n)) \subseteq Range(s)
<1>1. Len(s) \in Nat /\ n \in Nat
  BY LenProperties
<1>2. \A i \in 1..n : s[i] \in S
  BY <1>1, ElementOfSeq
<1>3. /\ SubSeq(s, 1, n) \in Seq(S)
      /\ Len(SubSeq(s, 1, n)) = n
      /\ \A i \in 1..n : SubSeq(s, 1, n)[i] = s[i]
  BY <1>1, <1>2, SubSeqProperties
<1>4. /\ Range(SubSeq(s, 1, n)) = {SubSeq(s, 1, n)[i] : i \in 1..n}
      /\ Range(s) = {s[i] : i \in 1..Len(s)}
  BY <1>3, RangeEquality
<1>5. 1..n \subseteq 1..Len(s)
  BY <1>1
<1> QED
  BY <1>3, <1>4, <1>5

\* The newest lines.
LEMMA NewestFacts ==
  ASSUME NEW S, NEW s \in Seq(S)
  PROVE  /\ Newest(s) \in Seq(S)
         /\ Len(Newest(s)) = IF Len(s) <= Cap THEN Len(s) ELSE Cap
         /\ \A i \in 1..Len(Newest(s)) : Newest(s)[i] = s[Len(s) - Len(Newest(s)) + i]
<1>1. Len(s) \in Nat /\ Cap \in Nat
  BY LenProperties, CapAssumption
<1>2. CASE Len(s) <= Cap
  <2>1. Newest(s) = s
    BY <1>2 DEF Newest
  <2>2. \A i \in 1..Len(s) : s[i] = s[Len(s) - Len(s) + i]
    BY <1>1
  <2> QED
    BY <1>2, <2>1, <2>2
<1>3. CASE ~(Len(s) <= Cap)
  <2>1. Newest(s) = Last(Cap, s) /\ Cap \in 0..Len(s)
    BY <1>1, <1>3 DEF Newest
  <2>2. /\ Last(Cap, s) \in Seq(S) /\ Len(Last(Cap, s)) = Cap
        /\ \A i \in 1..Cap : Last(Cap, s)[i] = s[Len(s) - Cap + i]
    BY <2>1, LastFacts
  <2> QED
    BY <1>3, <2>1, <2>2
<1> QED
  BY <1>2, <1>3

\* Of the newest lines and one more, the newest are those of all the lines.
LEMMA NewestAppend ==
  ASSUME NEW S, NEW s \in Seq(S), NEW x \in S
  PROVE  Newest(Append(Newest(s), x)) = Newest(Append(s, x))
<1> DEFINE a == Append(Newest(s), x)
           b == Append(s, x)
<1>1. Len(s) \in Nat /\ Cap \in Nat /\ 0 < Cap
  BY LenProperties, CapAssumption
<1>2. /\ Newest(s) \in Seq(S)
      /\ Len(Newest(s)) = IF Len(s) <= Cap THEN Len(s) ELSE Cap
      /\ \A i \in 1..Len(Newest(s)) : Newest(s)[i] = s[Len(s) - Len(Newest(s)) + i]
  BY NewestFacts
<1>3. /\ a \in Seq(S) /\ Len(a) = Len(Newest(s)) + 1
      /\ \A i \in 1..Len(Newest(s)) : a[i] = Newest(s)[i]
      /\ a[Len(Newest(s)) + 1] = x
  BY <1>2, AppendProperties
<1>4. /\ b \in Seq(S) /\ Len(b) = Len(s) + 1
      /\ \A i \in 1..Len(s) : b[i] = s[i]
      /\ b[Len(s) + 1] = x
  BY AppendProperties
<1> HIDE DEF a, b
<1>5. /\ Newest(a) \in Seq(S)
      /\ Len(Newest(a)) = IF Len(a) <= Cap THEN Len(a) ELSE Cap
      /\ \A i \in 1..Len(Newest(a)) : Newest(a)[i] = a[Len(a) - Len(Newest(a)) + i]
  BY <1>3, NewestFacts
<1>6. /\ Newest(b) \in Seq(S)
      /\ Len(Newest(b)) = IF Len(b) <= Cap THEN Len(b) ELSE Cap
      /\ \A i \in 1..Len(Newest(b)) : Newest(b)[i] = b[Len(b) - Len(Newest(b)) + i]
  BY <1>4, NewestFacts
<1>7. Len(Newest(a)) = Len(Newest(b))
  BY <1>1, <1>2, <1>3, <1>4, <1>5, <1>6
<1>8. ASSUME NEW i \in 1..Len(Newest(a))
      PROVE  Newest(a)[i] = Newest(b)[i]
  <2> DEFINE N == Len(Newest(s))
             j == Len(a) - Len(Newest(a)) + i
             l == Len(b) - Len(Newest(b)) + i
  <2>1. Newest(a)[i] = a[j] /\ Newest(b)[i] = b[l]
    BY <1>5, <1>6, <1>7
  <2>2. N \in Nat /\ j \in 1..(N + 1) /\ l \in 1..(Len(s) + 1) /\ l = Len(s) - N + j
        /\ (j <= N => l <= Len(s) /\ j \in 1..N /\ l \in 1..Len(s))
        /\ (~(j <= N) => j = N + 1 /\ l = Len(s) + 1)
    <3>1. Len(Newest(a)) \in Nat /\ N \in Nat /\ N <= Len(s) /\ i \in Nat
      BY <1>1, <1>2, <1>3, <1>5
    <3>2. Len(Newest(a)) <= N + 1 /\ Len(a) = N + 1 /\ Len(b) = Len(s) + 1
          /\ Len(Newest(b)) = Len(Newest(a)) /\ 1 <= i /\ i <= Len(Newest(a))
      BY <1>1, <1>2, <1>3, <1>4, <1>5, <1>7
    <3> DEFINE p == Len(Newest(a))
    <3>3. j = N + 1 - p + i /\ l = Len(s) + 1 - p + i
      BY <3>2
    <3> HIDE DEF N, p, j, l
    <3> QED
      BY <1>1, <3>1, <3>2, <3>3 DEF p
  <2> HIDE DEF j, l
  <2>3. CASE j <= N
    <3>1. a[j] = Newest(s)[j] /\ Newest(s)[j] = s[Len(s) - N + j] /\ b[l] = s[l]
      BY <1>2, <1>3, <1>4, <2>2, <2>3
    <3> QED
      BY <2>1, <2>2, <3>1
  <2>4. CASE ~(j <= N)
    BY <1>3, <1>4, <2>1, <2>2, <2>4
  <2> QED
    BY <2>3, <2>4
<1>9. Newest(a) = Newest(b)
  BY <1>5, <1>6, <1>7, <1>8, SeqEqual
<1> QED
  BY <1>9 DEF a, b

\* What an added element adds.
LEMMA AppendRange ==
  ASSUME NEW S, NEW s \in Seq(S), NEW x \in S
  PROVE  Range(Append(s, x)) = Range(s) \union {x}
<1> DEFINE t == <<x>>
<1>1. Append(s, x) = s \o t
  BY AppendIsConcat
<1>2. t \in Seq(S) /\ Range(t) = {x}
  BY DEF Range
<1> HIDE DEF t
<1>3. Range(s \o t) = Range(s) \union Range(t)
  BY <1>2, RangeConcatenation
<1> QED
  BY <1>1, <1>2, <1>3

\* One more line in the log.
LEMMA AddFacts ==
  ASSUME lines \in Seq(Lines), ragged \in BOOLEAN, ragged => lines # <<>>, NEW x \in Lines
  PROVE  /\ Add(x) \in Seq(Lines) /\ Add(x) # <<>>
         /\ Len(Add(x)) <= Len(lines) + 1
         /\ Range(Add(x)) \subseteq Range(lines) \union {x, Torn}
         /\ ~ragged => Add(x) = Append(lines, x) /\ x \in Range(Add(x))
         /\ ~ragged \/ lines[Len(lines)] = Torn => Range(lines) \subseteq Range(Add(x))
         /\ ragged \/ x = Torn => Add(x)[Len(Add(x))] = Torn
<1>1. Len(lines) \in Nat /\ Torn \in Lines
  BY LenProperties DEF Lines
<1>2. CASE ~ragged
  <2>1. Add(x) = Append(lines, x)
    BY <1>2 DEF Add
  <2>2. /\ Append(lines, x) \in Seq(Lines) /\ Append(lines, x) # <<>>
        /\ Len(Append(lines, x)) = Len(lines) + 1
        /\ \A i \in 1..Len(lines) : Append(lines, x)[i] = lines[i]
        /\ Append(lines, x)[Len(lines) + 1] = x
    BY AppendProperties
  <2>3. /\ Range(Add(x)) = {Add(x)[i] : i \in 1..Len(lines) + 1}
        /\ Range(lines) = {lines[i] : i \in 1..Len(lines)}
    <3>1. Add(x) \in Seq(Lines) /\ Len(Add(x)) = Len(lines) + 1
      BY <2>1, <2>2
    <3>2. Range(Add(x)) = {Add(x)[i] : i \in 1..Len(Add(x))}
      BY <3>1, RangeEquality
    <3>3. Range(lines) = {lines[i] : i \in 1..Len(lines)}
      BY RangeEquality
    <3> QED
      BY <3>1, <3>2, <3>3
  <2>4. \A i \in 1..Len(lines) + 1 : i \in 1..Len(lines) \/ i = Len(lines) + 1
    BY <1>1
  <2>5. Len(lines) + 1 \in 1..Len(lines) + 1 /\ 1..Len(lines) \subseteq 1..Len(lines) + 1
    BY <1>1
  <2>6. Range(Add(x)) = Range(lines) \union {x}
    BY <2>1, <2>2, <2>3, <2>4, <2>5
  <2>7. /\ Add(x) \in Seq(Lines) /\ Add(x) # <<>> /\ Len(Add(x)) <= Len(lines) + 1
        /\ Add(x)[Len(Add(x))] = x
    BY <1>1, <2>1, <2>2
  <2> QED
    BY <1>2, <2>1, <2>6, <2>7
<1>3. CASE ragged
  <2> DEFINE m == Len(lines)
  <2>1. Add(x) = [lines EXCEPT ![m] = Torn] /\ m \in 1..Len(lines)
    BY <1>1, <1>3, EmptySeq DEF Add
  <2>2. /\ Add(x) \in Seq(Lines) /\ Len(Add(x)) = Len(lines)
        /\ \A j \in 1..Len(lines) : Add(x)[j] = IF j = m THEN Torn ELSE lines[j]
    BY <1>1, <2>1, ExceptSeq
  <2>3. /\ Range(Add(x)) = {Add(x)[i] : i \in 1..Len(lines)}
        /\ Range(lines) = {lines[i] : i \in 1..Len(lines)}
    BY <2>2, RangeEquality
  <2>4. Add(x) # <<>>
    BY <2>1, <2>2, EmptySeq
  <2>5. Range(Add(x)) \subseteq Range(lines) \union {Torn}
    BY <2>2, <2>3
  <2>6. lines[m] = Torn => Range(lines) \subseteq Range(Add(x))
    BY <2>2, <2>3
  <2>7. Len(Add(x)) <= Len(lines) + 1 /\ Add(x)[Len(Add(x))] = Torn
    BY <1>1, <2>1, <2>2
  <2> QED
    BY <1>3, <2>2, <2>4, <2>5, <2>6, <2>7
<1> QED
  BY <1>2, <1>3

\* Lines written over a file.
LEMMA OverwriteFacts ==
  ASSUME NEW new \in Seq(Lines), NEW old \in Seq(Lines), NEW s \in Overwrite(new, old)
  PROVE  /\ s \in Seq(Lines) /\ Len(s) >= Len(new)
         /\ Range(s) \subseteq Range(new) \union Range(old) \union {Torn}
         /\ old = <<>> \/ old = new => s = new
         /\ s # new => s # <<>>
<1>1. Len(new) \in Nat /\ Len(old) \in Nat /\ Torn \in Lines
  BY LenProperties DEF Lines
<1>2. CASE s = new
  BY <1>1, <1>2
<1>3. CASE s # new
  <2>0. new # old
    BY <1>3 DEF Overwrite
  <2>1. PICK rest \in Rests(old) : s = new \o rest \/ s = Append(new, Torn) \o rest
    BY <1>3, <2>0 DEF Overwrite
  <2>2. PICK i \in 1..Len(old) : rest = SubSeq(old, i + 1, Len(old))
    BY <2>1 DEF Rests
  <2>3. rest \in Seq(Lines) /\ Range(rest) \subseteq Range(old)
    <3>1. Len(old) - i \in 0..Len(old) /\ Len(old) - (Len(old) - i) + 1 = i + 1
      BY <1>1
    <3>2. rest = Last(Len(old) - i, old)
      BY <2>2, <3>1 DEF Last
    <3> QED
      BY <3>1, <3>2, LastFacts
  <2>4. PICK head \in {new, Append(new, Torn)} : s = head \o rest
    BY <2>1
  <2>5. /\ head \in Seq(Lines) /\ Len(head) >= Len(new)
        /\ Range(head) \subseteq Range(new) \union {Torn}
        /\ head = <<>> => head = new
    <3>1. CASE head = new
      BY <1>1, <3>1
    <3>2. CASE head = Append(new, Torn)
      <4> DEFINE t == <<Torn>>
      <4>1. new \o t = head /\ Range(t) = {Torn}
        BY <1>1, <3>2, AppendIsConcat DEF Range
      <4>2. t \in Seq(Lines)
        BY <1>1
      <4> HIDE DEF t
      <4>3. Range(new \o t) = Range(new) \union Range(t)
        BY <4>2, RangeConcatenation
      <4>4. Range(head) = Range(new) \union {Torn}
        BY <4>1, <4>3
      <4> QED
        BY <1>1, <3>2, <4>4, AppendProperties
    <3> QED
      BY <2>4, <3>1, <3>2
  <2>6. /\ s \in Seq(Lines) /\ Len(s) = Len(head) + Len(rest)
        /\ Range(s) = Range(head) \union Range(rest)
    <3>1. head \o rest \in Seq(Lines) /\ Len(head \o rest) = Len(head) + Len(rest)
      BY <2>3, <2>5, ConcatProperties
    <3>2. Range(head \o rest) = Range(head) \union Range(rest)
      BY <2>3, <2>5, RangeConcatenation
    <3> QED
      BY <2>4, <3>1, <3>2
  <2>7. Len(head) \in Nat /\ Len(rest) \in Nat
    BY <2>3, <2>5, LenProperties
  <2>8. s \in Seq(Lines) /\ Len(s) >= Len(new)
        /\ Range(s) \subseteq Range(new) \union Range(old) \union {Torn}
    BY <1>1, <2>3, <2>5, <2>6, <2>7
  <2>9. old # <<>>
    BY <1>1, EmptySeq
  <2>10. s # <<>>
    <3> SUFFICES ASSUME s = <<>> PROVE FALSE
      OBVIOUS
    <3>1. head = <<>> /\ rest = <<>>
      <4>1. head \o rest = <<>>
        BY <2>4
      <4> QED
        BY <2>3, <2>5, <4>1, ConcatEqualIffEmpty
    <3>2. s = new
      BY <2>4, <2>5, <3>1, ConcatEmptySeq
    <3> QED
      BY <1>3, <3>2
  <2> QED
    BY <2>0, <2>8, <2>9, <2>10
<1> QED
  BY <1>2, <1>3

----------------------------------------------------------------------------
(* Types.                                                                  *)

\* What finishing a call leaves of the types.
LEMMA FinishTypes ==
  ASSUME TypeOK, NEW e \in Events, NEW r \in {"ok", "failed"}, Finish(e, r)
  PROVE  /\ pc' \in [Events -> {"idle", "append", "readcap", "truncate", "rewrite", "done"}]
         /\ result' \in [Events -> {"none", "ok", "failed", "lost"}]
         /\ pc'[e] = "done" /\ result'[e] = r
         /\ \A f \in Events \ {e} : pc'[f] = pc[f] /\ result'[f] = result[f]
  BY DEF TypeOK, Finish, Goto

\* A rewrite that fails.
LEMMA CapFaultFacts ==
  ASSUME TypeOK, NEW e \in Events, CapFault(e)
  PROVE  /\ lines' \in Seq(Lines) /\ ragged' \in BOOLEAN /\ (ragged' => lines' # <<>>)
         /\ Range(lines') \subseteq Range(lines) \union Range(kept[e]) \union {Torn}
         /\ pc[e] # "rewrite" => UNCHANGED <<lines, ragged>>
<1>1. lines \in Seq(Lines) /\ kept[e] \in Seq(Lines) /\ Torn \in Lines
  BY DEF TypeOK, Lines
<1>2. CASE pc[e] # "rewrite"
  BY <1>1, <1>2 DEF TypeOK, CapFault
<1>3. CASE pc[e] = "rewrite"
  <2>1. PICK n \in 0..Len(kept[e]), tail \in {<<>>, <<Torn>>} :
          LET part == SubSeq(kept[e], 1, n) \o tail
          IN  /\ lines' \in IF part = <<>> THEN {lines} ELSE Overwrite(part, lines)
              /\ ragged' = IF lines' = part THEN tail # <<>> ELSE ragged
    BY <1>3 DEF CapFault
  <2> DEFINE whole == SubSeq(kept[e], 1, n)
             part == whole \o tail
  <2>2. /\ lines' \in IF part = <<>> THEN {lines} ELSE Overwrite(part, lines)
        /\ ragged' = IF lines' = part THEN tail # <<>> ELSE ragged
    BY <2>1
  <2>3. whole \in Seq(Lines) /\ Range(whole) \subseteq Range(kept[e])
    BY <1>1, PrefixFacts
  <2>4. tail \in Seq(Lines) /\ Range(tail) \subseteq {Torn}
    <3>1. <<>> \in Seq(Lines) /\ Range(<<>>) = {}
      BY DEF Range
    <3>2. <<Torn>> \in Seq(Lines) /\ Range(<<Torn>>) = {Torn}
      BY <1>1 DEF Range
    <3> QED
      BY <3>1, <3>2
  <2> HIDE DEF whole
  <2>5. part \in Seq(Lines) /\ Range(part) = Range(whole) \union Range(tail)
        /\ (tail # <<>> => part # <<>>)
    BY <2>3, <2>4, ConcatProperties, RangeConcatenation, ConcatEqualIffEmpty
  <2> HIDE DEF part
  <2>6. CASE part = <<>>
    BY <1>1, <2>2, <2>5, <2>6 DEF TypeOK
  <2>7. CASE part # <<>>
    <3>1. lines' \in Overwrite(part, lines)
      BY <2>2, <2>7
    <3>2. /\ lines' \in Seq(Lines)
          /\ Range(lines') \subseteq Range(part) \union Range(lines) \union {Torn}
          /\ lines' # part => lines' # <<>>
      BY <1>1, <2>5, <3>1, OverwriteFacts
    <3> QED
      BY <1>3, <2>2, <2>3, <2>4, <2>5, <2>7, <3>2 DEF TypeOK
  <2> QED
    BY <2>6, <2>7
<1> QED
  BY <1>2, <1>3

\* What storing an event leaves of the types.
StoreTypes(e) ==
  /\ lines' \in Seq(Lines) /\ ~ragged' /\ ragged' \in BOOLEAN
  /\ appended' \in Seq(Events)
  /\ crossed' \in BOOLEAN

LEMMA StoreFacts ==
  ASSUME TypeOK, NEW e \in Events, Store(e)
  PROVE  StoreTypes(e)
<1>1. lines' \in Seq(Lines)
  BY AddFacts DEF TypeOK, Store, Lines
<1>2. appended' \in Seq(Events)
  BY AppendProperties DEF TypeOK, Store
<1>3. crossed' \in BOOLEAN
  BY DEF TypeOK, Store
<1> QED
  BY <1>1, <1>2, <1>3 DEF StoreTypes, Store

LEMMA TypeStep ==
  ASSUME TypeOK, [Next]_vars
  PROVE  TypeOK'
<1>1. ASSUME NEW e \in Events, Start(e)
      PROVE  TypeOK'
  <2>1. begun' \in Seq(Events)
    BY <1>1, AppendProperties DEF TypeOK, Start
  <2> QED
    BY <1>1, <2>1 DEF TypeOK, Start, Goto
<1>2. ASSUME NEW e \in Events, AppendEvent(e)
      PROVE  TypeOK'
  <2>1. StoreTypes(e)
    BY <1>2, StoreFacts DEF AppendEvent
  <2> QED
    BY <1>2, <2>1 DEF StoreTypes, TypeOK, AppendEvent, Goto, Finish, Lines
<1>3. ASSUME NEW e \in Events, AppendFault(e)
      PROVE  TypeOK'
  <2>1. lines' \in Seq(Lines) /\ ragged' \in BOOLEAN /\ (ragged' => lines' # <<>>)
    <3>1. Add(Torn) \in Seq(Lines) /\ Add(Torn) # <<>>
      BY AddFacts DEF TypeOK, Lines
    <3>2. \/ UNCHANGED <<lines, ragged>>
          \/ lines' = Add(Torn) /\ ragged' = TRUE
      BY <1>3 DEF AppendFault
    <3>3. lines \in Seq(Lines) /\ ragged \in BOOLEAN /\ (ragged => lines # <<>>)
      BY DEF TypeOK, Lines
    <3>4. CASE UNCHANGED <<lines, ragged>>
      BY <3>3, <3>4
    <3>5. CASE lines' = Add(Torn) /\ ragged' = TRUE
      BY <3>1, <3>5
    <3> QED
      BY <3>2, <3>4, <3>5
  <2>2. faults' \in 0..MaxFaults
    BY <1>3, FaultsAssumption DEF TypeOK, AppendFault
  <2>3. Finish(e, "failed") /\ UNCHANGED <<backend, kept, begun, appended, late, crossed, crashes>>
    BY <1>3 DEF AppendFault
  <2> QED
    BY <2>1, <2>2, <2>3, FinishTypes DEF TypeOK, Lines
<1>4. ASSUME NEW e \in Events, ReadCap(e)
      PROVE  TypeOK'
  <2>1. CASE Len(lines) <= Cap
    BY <1>4, <2>1 DEF TypeOK, ReadCap, Finish, Goto
  <2>2. CASE ~(Len(lines) <= Cap)
    <3>1. Last(Cap, lines) \in Seq(Lines) /\ Len(Last(Cap, lines)) = Cap
      <4>1. Cap \in 0..Len(lines)
        BY <2>2, CapAssumption, LenProperties DEF TypeOK
      <4> QED
        BY <4>1, LastFacts DEF TypeOK, Lines
    <3>2. /\ kept' = [kept EXCEPT ![e] = Last(Cap, lines)]
          /\ pc' = [pc EXCEPT ![e] = "truncate"]
          /\ UNCHANGED <<backend, lines, ragged, result, begun, appended, late, crossed, faults, crashes>>
      BY <1>4, <2>2 DEF ReadCap, Goto
    <3> HIDE DEF Last
    <3>3. kept' \in [Events -> Seq(Lines)] /\ \A f \in Events : Len(kept'[f]) <= Cap
      BY <3>1, <3>2, CapAssumption DEF TypeOK, Lines
    <3> QED
      BY <3>2, <3>3 DEF TypeOK, Lines
  <2> QED
    BY <2>1, <2>2
<1>5. ASSUME NEW e \in Events, Truncate(e)
      PROVE  TypeOK'
  <2>1. lines' \in Seq(Lines) /\ ~ragged'
    BY <1>5 DEF Truncate
  <2> QED
    BY <1>5, <2>1 DEF TypeOK, Truncate, Goto, Lines
<1>6. ASSUME NEW e \in Events, Rewrite(e)
      PROVE  TypeOK'
  <2>1. lines' \in Seq(Lines) /\ (ragged' => lines' # <<>>) /\ ragged' \in BOOLEAN
    <3>1. lines \in Seq(Lines) /\ kept[e] \in Seq(Lines) /\ ragged \in BOOLEAN
      BY DEF TypeOK, Lines
    <3>2. lines' \in Overwrite(kept[e], lines) /\ ragged' = (ragged /\ lines' # kept[e])
      BY <1>6 DEF Rewrite
    <3>3. lines' \in Seq(Lines) /\ (lines' # kept[e] => lines' # <<>>)
      BY <3>1, <3>2, OverwriteFacts
    <3> QED
      BY <3>1, <3>2, <3>3
  <2>2. Finish(e, "ok")
        /\ UNCHANGED <<backend, kept, begun, appended, late, crossed, faults, crashes>>
    BY <1>6 DEF Rewrite
  <2> QED
    BY <2>1, <2>2, FinishTypes DEF TypeOK, Lines
<1>7. ASSUME NEW e \in Events, CapFault(e)
      PROVE  TypeOK'
  <2>1. lines' \in Seq(Lines) /\ ragged' \in BOOLEAN /\ (ragged' => lines' # <<>>)
    BY <1>7, CapFaultFacts
  <2>2. faults' \in 0..MaxFaults
    BY <1>7, FaultsAssumption DEF TypeOK, CapFault
  <2>3. Finish(e, "ok") /\ UNCHANGED <<backend, kept, begun, appended, late, crossed, crashes>>
    BY <1>7 DEF CapFault
  <2> QED
    BY <2>1, <2>2, <2>3, FinishTypes DEF TypeOK, Lines
<1>8. ASSUME Crash
      PROVE  TypeOK'
  BY <1>8, CrashesAssumption DEF TypeOK, Crash, UnderWay
<1>9. ASSUME UNCHANGED vars
      PROVE  TypeOK'
  BY <1>9 DEF TypeOK, vars
<1>10. ASSUME NEW e \in Events, LateFault(e)
       PROVE  TypeOK'
  <2>1. StoreTypes(e)
    BY <1>10, StoreFacts DEF LateFault
  <2>2. faults' \in 0..MaxFaults /\ late' \subseteq Events
    BY <1>10, FaultsAssumption DEF TypeOK, LateFault
  <2>3. Finish(e, "failed") /\ UNCHANGED <<backend, kept, begun, crashes>>
    BY <1>10 DEF LateFault
  <2> QED
    BY <2>1, <2>2, <2>3, FinishTypes DEF StoreTypes, TypeOK, Lines
<1> QED
  BY <1>1, <1>2, <1>3, <1>4, <1>5, <1>6, <1>7, <1>8, <1>9, <1>10 DEF Next, Step

----------------------------------------------------------------------------
(* A failed append leaves no event: every event in the log, or about to be *)
(* written back, comes from a call past its append that did not fail, or   *)
(* failed after its write was done.                                        *)

Written(e) == pc[e] \notin {"idle", "append"} /\ (result[e] = "failed" => e \in late)

LoggedInv ==
  \A e \in Events :
    /\ pc[e] # "done" => result[e] = "none"
    /\ e \in Range(lines) => Written(e)
    /\ \A f \in Events : e \in Range(kept[f]) => Written(e)

LEMMA LoggedStep ==
  ASSUME TypeOK, LoggedInv, [Next]_vars
  PROVE  LoggedInv'
<1>0. lines \in Seq(Lines) /\ ragged \in BOOLEAN /\ (ragged => lines # <<>>)
      /\ Events \subseteq Lines /\ Torn \in Lines /\ Torn \notin Events
      /\ \A e \in Events : kept[e] \in Seq(Lines)
  BY TornAssumption DEF TypeOK, Lines
<1>1. ASSUME NEW e \in Events, Start(e)
      PROVE  LoggedInv'
  BY <1>1 DEF TypeOK, LoggedInv, Written, Start, Goto
<1>2. ASSUME NEW e \in Events, AppendEvent(e)
      PROVE  LoggedInv'
  <2>1. Range(lines') \subseteq Range(lines) \union {e, Torn}
    BY <1>0, <1>2, AddFacts DEF AppendEvent, Store
  <2>2. /\ pc[e] = "append" /\ pc'[e] \in {"readcap", "done"} /\ result'[e] \in {result[e], "ok"}
        /\ (pc'[e] # "done" => result'[e] = result[e])
        /\ \A f \in Events \ {e} : pc'[f] = pc[f] /\ result'[f] = result[f]
        /\ kept' = kept /\ late' = late
    BY <1>2 DEF TypeOK, AppendEvent, Goto, Finish
  <2> QED
    BY <1>0, <2>1, <2>2 DEF LoggedInv, Written
<1>3. ASSUME NEW e \in Events, AppendFault(e)
      PROVE  LoggedInv'
  <2>1. Range(lines') \subseteq Range(lines) \union {Torn}
    <3>1. Range(Add(Torn)) \subseteq Range(lines) \union {Torn}
      BY <1>0, AddFacts
    <3>2. lines' = lines \/ lines' = Add(Torn)
      BY <1>3 DEF AppendFault
    <3> QED
      BY <3>1, <3>2
  <2>2. pc[e] = "append" /\ Finish(e, "failed") /\ kept' = kept /\ late' = late
    BY <1>3 DEF AppendFault
  <2> QED
    BY <1>0, <2>1, <2>2, FinishTypes DEF LoggedInv, Written
<1>4. ASSUME NEW e \in Events, ReadCap(e)
      PROVE  LoggedInv'
  <2>1. \A f \in Events : Range(kept'[f]) \subseteq Range(kept[f]) \union Range(lines)
    <3>1. CASE Len(lines) <= Cap
      BY <1>4, <3>1 DEF ReadCap
    <3>2. CASE ~(Len(lines) <= Cap)
      <4>1. Cap \in 0..Len(lines)
        BY <1>0, <3>2, CapAssumption, LenProperties
      <4>2. Range(Last(Cap, lines)) \subseteq Range(lines)
        BY <1>0, <4>1, LastFacts
      <4>3. kept' = [kept EXCEPT ![e] = Last(Cap, lines)]
        BY <1>4, <3>2 DEF ReadCap
      <4> HIDE DEF Last
      <4> QED
        BY <4>2, <4>3 DEF TypeOK
    <3> QED
      BY <3>1, <3>2
  <2>2. /\ pc[e] = "readcap" /\ pc'[e] \in {"truncate", "done"} /\ result'[e] \in {result[e], "ok"}
        /\ (pc'[e] # "done" => result'[e] = result[e])
        /\ \A f \in Events \ {e} : pc'[f] = pc[f] /\ result'[f] = result[f]
        /\ lines' = lines /\ late' = late
    BY <1>4 DEF TypeOK, ReadCap, Goto, Finish
  <2> QED
    BY <1>0, <2>1, <2>2 DEF LoggedInv, Written
<1>5. ASSUME NEW e \in Events, Truncate(e)
      PROVE  LoggedInv'
  <2>1. Range(lines') = {}
    BY <1>5 DEF Truncate, Range
  <2> QED
    BY <1>5, <2>1 DEF TypeOK, LoggedInv, Written, Truncate, Goto
<1>6. ASSUME NEW e \in Events, Rewrite(e)
      PROVE  LoggedInv'
  <2>1. Range(lines') \subseteq Range(lines) \union Range(kept[e]) \union {Torn}
    BY <1>0, <1>6, OverwriteFacts DEF Rewrite
  <2>2. pc[e] = "rewrite" /\ Finish(e, "ok") /\ kept' = kept /\ late' = late
    BY <1>6 DEF Rewrite
  <2> QED
    BY <1>0, <2>1, <2>2, FinishTypes DEF LoggedInv, Written
<1>7. ASSUME NEW e \in Events, CapFault(e)
      PROVE  LoggedInv'
  <2>1. Range(lines') \subseteq Range(lines) \union Range(kept[e]) \union {Torn}
    BY <1>7, CapFaultFacts
  <2>2. pc[e] \in {"readcap", "truncate", "rewrite"} /\ Finish(e, "ok") /\ kept' = kept /\ late' = late
    BY <1>7 DEF CapFault
  <2> QED
    BY <1>0, <2>1, <2>2, FinishTypes DEF LoggedInv, Written
<1>8. ASSUME Crash
      PROVE  LoggedInv'
  BY <1>8 DEF TypeOK, LoggedInv, Written, Crash, UnderWay
<1>9. ASSUME UNCHANGED vars
      PROVE  LoggedInv'
  BY <1>9 DEF LoggedInv, Written, vars
<1>10. ASSUME NEW e \in Events, LateFault(e)
       PROVE  LoggedInv'
  <2>1. Range(lines') \subseteq Range(lines) \union {e, Torn}
    BY <1>0, <1>10, AddFacts DEF LateFault, Store
  <2>2. Finish(e, "failed") /\ kept' = kept /\ late' = late \union {e}
    BY <1>10 DEF LateFault
  <2> QED
    BY <1>0, <2>1, <2>2, FinishTypes DEF LoggedInv, Written
<1> QED
  BY <1>1, <1>2, <1>3, <1>4, <1>5, <1>6, <1>7, <1>8, <1>9, <1>10 DEF Next, Step

----------------------------------------------------------------------------
(* No event appended during a rewrite, no fault and no crash: what the file *)
(* holds at every await of the calls under way.                            *)

LEMMA NewestSame ==
  ASSUME NEW S, NEW s \in Seq(S), NEW t \in Seq(S), NEW x \in S, Newest(s) = Newest(t)
  PROVE  Newest(Append(s, x)) = Newest(Append(t, x))
<1>1. Newest(Append(Newest(s), x)) = Newest(Append(s, x))
  BY NewestAppend
<1>2. Newest(Append(Newest(t), x)) = Newest(Append(t, x))
  BY NewestAppend
<1> HIDE DEF Newest
<1> QED
  BY <1>1, <1>2

LEMMA NewestShort ==
  ASSUME NEW S, NEW s \in Seq(S)
  PROVE  /\ Len(Newest(s)) <= Cap
         /\ Newest(Newest(s)) = Newest(s)
<1>1. Len(Newest(s)) = IF Len(s) <= Cap THEN Len(s) ELSE Cap
  BY NewestFacts
<1>2. Len(Newest(s)) <= Cap
  <2>1. Cap \in Nat
    BY CapAssumption
  <2> HIDE DEF Newest
  <2> QED
    BY <1>1, <2>1
<1> QED
  BY <1>2 DEF Newest

Apart == backend = "file" /\ ~crossed /\ faults = 0 /\ crashes = 0

ApartInv ==
  Apart =>
    /\ ~ragged
    /\ \A e \in Rewriting : kept[e] = Newest(appended)
    /\ (\E e \in Events : pc[e] = "rewrite") => lines = <<>> \/ lines = Newest(appended)
    /\ (\A e \in Events : pc[e] # "rewrite") => Newest(lines) = Newest(appended)
    /\ Len(lines) > Cap => \E e \in Events : pc[e] \in {"readcap", "truncate"}

LEMMA ApartStep ==
  ASSUME TypeOK, ApartInv, [Next]_vars
  PROVE  ApartInv'
<1>0. lines \in Seq(Lines) /\ appended \in Seq(Events) /\ Events \subseteq Lines
      /\ appended \in Seq(Lines) /\ ragged \in BOOLEAN /\ (ragged => lines # <<>>)
      /\ \A e \in Events : kept[e] \in Seq(Lines)
  <2>1. appended \in Seq(Events) /\ Events \subseteq Lines
    BY DEF TypeOK, Lines
  <2>2. appended \in Seq(Lines)
    BY <2>1, SeqMonotonic
  <2> QED
    BY <2>1, <2>2 DEF TypeOK, Lines
<1>a. /\ Newest(Newest(appended)) = Newest(appended) /\ Len(Newest(appended)) <= Cap
      /\ Len(<<>>) <= Cap /\ Cap \in Nat /\ Len(lines) \in Nat
  BY <1>0, NewestShort, CapAssumption, LenProperties
<1>1. ASSUME NEW e \in Events, Start(e)
      PROVE  ApartInv'
  <2>1. UNCHANGED <<backend, lines, ragged, kept, appended, crossed, faults, crashes>>
    BY <1>1 DEF Start
  <2>2. pc[e] = "idle" /\ pc'[e] = "append" /\ \A f \in Events \ {e} : pc'[f] = pc[f]
    BY <1>1 DEF TypeOK, Start, Goto
  <2> QED
    BY <2>1, <2>2 DEF ApartInv, Apart, Rewriting, Newest, Last
<1>2. ASSUME NEW e \in Events, AppendEvent(e)
      PROVE  ApartInv'
  <2> SUFFICES ASSUME Apart'
               PROVE  ApartInv'
    BY DEF ApartInv
  <2>1. Apart /\ Rewriting = {} /\ pc[e] = "append"
    BY <1>2 DEF Apart, AppendEvent, Store, TypeOK
  <2>2. /\ pc'[e] = "readcap" /\ \A f \in Events \ {e} : pc'[f] = pc[f]
        /\ ~ragged' /\ lines' = Add(e) /\ appended' = Append(appended, e)
    BY <1>2, <2>1 DEF TypeOK, Apart, AppendEvent, Store, Goto
  <2>3. Newest(lines) = Newest(appended) /\ lines' = Append(lines, e)
    BY <2>1, <2>2 DEF ApartInv, Rewriting, Add
  <2>4. Newest(Append(lines, e)) = Newest(Append(appended, e))
    BY <1>0, <2>3, NewestSame
  <2>5. Newest(lines)' = Newest(appended)'
    BY <2>2, <2>3, <2>4 DEF Newest, Last
  <2>6. Rewriting' = {} /\ \A f \in Events : pc'[f] # "rewrite"
    BY <2>1, <2>2 DEF Rewriting
  <2> QED
    BY <2>2, <2>5, <2>6 DEF ApartInv
<1>3. ASSUME NEW e \in Events, AppendFault(e) \/ LateFault(e) \/ CapFault(e)
      PROVE  ApartInv'
  <2>1. faults' # 0
    BY <1>3 DEF AppendFault, LateFault, CapFault, TypeOK
  <2> QED
    BY <2>1 DEF ApartInv, Apart
<1>4. ASSUME NEW e \in Events, ReadCap(e)
      PROVE  ApartInv'
  <2> SUFFICES ASSUME Apart'
               PROVE  ApartInv'
    BY DEF ApartInv
  <2>1. Apart /\ pc[e] = "readcap" /\ UNCHANGED <<lines, ragged, appended>>
    BY <1>4 DEF Apart, ReadCap
  <2>2. Newest(lines)' = Newest(lines) /\ Newest(appended)' = Newest(appended)
    BY <2>1 DEF Newest, Last
  <2>3. CASE Len(lines) <= Cap
    <3>1. pc'[e] = "done" /\ kept' = kept /\ \A f \in Events \ {e} : pc'[f] = pc[f]
      BY <1>4, <2>3 DEF TypeOK, ReadCap, Finish, Goto
    <3>2. Rewriting' = Rewriting /\ \A f \in Events : pc[f] = "rewrite" <=> pc'[f] = "rewrite"
      BY <2>1, <3>1 DEF Rewriting
    <3>3. ~(Len(lines') > Cap)
      BY <1>a, <2>1, <2>3
    <3> QED
      BY <2>1, <2>2, <3>1, <3>2, <3>3 DEF ApartInv
  <2>4. CASE ~(Len(lines) <= Cap)
    <3>1. /\ pc'[e] = "truncate" /\ \A f \in Events \ {e} : pc'[f] = pc[f]
          /\ kept'[e] = Last(Cap, lines) /\ \A f \in Events \ {e} : kept'[f] = kept[f]
      BY <1>4, <2>4 DEF TypeOK, ReadCap, Goto
    <3>2. \A f \in Events : pc[f] # "rewrite"
      BY <1>a, <2>1, <2>4 DEF ApartInv
    <3>3. Newest(lines) = Newest(appended) /\ Last(Cap, lines) = Newest(lines)
      BY <2>1, <2>4, <3>2 DEF ApartInv, Newest
    <3>4. Rewriting' = Rewriting \union {e} /\ \A f \in Events : pc'[f] # "rewrite"
      BY <3>1, <3>2 DEF Rewriting
    <3>5. \A f \in Rewriting' : kept'[f] = Newest(appended)'
      <4>1. \A f \in Rewriting : f \in Events /\ kept[f] = Newest(appended)
        BY <2>1 DEF ApartInv, Rewriting
      <4>2. \A f \in Rewriting' : f = e \/ f \in Rewriting
        BY <3>4
      <4> QED
        BY <2>2, <3>1, <3>3, <4>1, <4>2
    <3>6. \E f \in Events : pc'[f] \in {"readcap", "truncate"}
      BY <3>1
    <3>7. ~ragged' /\ Newest(lines)' = Newest(appended)'
      BY <2>1, <2>2, <3>3 DEF ApartInv
    <3> QED
      BY <3>4, <3>5, <3>6, <3>7 DEF ApartInv
  <2> QED
    BY <2>3, <2>4
<1>5. ASSUME NEW e \in Events, Truncate(e)
      PROVE  ApartInv'
  <2> SUFFICES ASSUME Apart'
               PROVE  ApartInv'
    BY DEF ApartInv
  <2>1. /\ Apart /\ pc[e] = "truncate" /\ lines' = <<>> /\ ~ragged'
        /\ UNCHANGED <<kept, appended>>
    BY <1>5 DEF Apart, Truncate
  <2>2. pc'[e] = "rewrite" /\ \A f \in Events \ {e} : pc'[f] = pc[f]
    BY <1>5 DEF TypeOK, Truncate, Goto
  <2>3. Rewriting' = Rewriting /\ Newest(appended)' = Newest(appended)
    BY <2>1, <2>2 DEF Rewriting, Newest, Last
  <2>4. ~(Len(lines') > Cap)
    BY <1>a, <2>1
  <2> QED
    BY <2>1, <2>2, <2>3, <2>4 DEF ApartInv
<1>6. ASSUME NEW e \in Events, Rewrite(e)
      PROVE  ApartInv'
  <2> SUFFICES ASSUME Apart'
               PROVE  ApartInv'
    BY DEF ApartInv
  <2>1. Apart /\ pc[e] = "rewrite" /\ lines' \in Overwrite(kept[e], lines)
        /\ UNCHANGED <<kept, appended>>
    BY <1>6 DEF Apart, Rewrite
  <2>2. kept[e] = Newest(appended) /\ (lines = <<>> \/ lines = Newest(appended))
        /\ Newest(appended)' = Newest(appended)
    BY <2>1 DEF ApartInv, Rewriting, Newest, Last
  <2>3. lines' = Newest(appended)
    BY <1>0, <2>1, <2>2, OverwriteFacts
  <2>4. ~ragged'
    BY <1>6, <2>2, <2>3 DEF Rewrite
  <2>5. pc'[e] = "done" /\ \A f \in Events \ {e} : pc'[f] = pc[f]
    BY <1>6 DEF TypeOK, Rewrite, Finish, Goto
  <2>6. Newest(lines)' = Newest(appended)' /\ ~(Len(lines') > Cap)
    <3>1. Newest(lines)' = Newest(Newest(appended))
      BY <2>3 DEF Newest, Last
    <3>2. Len(lines') \in Nat /\ Len(lines') <= Cap
      BY <1>0, <1>a, <2>1, <2>3, OverwriteFacts, LenProperties
    <3> QED
      BY <1>a, <2>2, <3>1, <3>2
  <2>7. Rewriting' \subseteq Rewriting
    BY <2>5 DEF Rewriting
  <2> QED
    BY <2>1, <2>2, <2>3, <2>4, <2>6, <2>7 DEF ApartInv
<1>7. ASSUME Crash
      PROVE  ApartInv'
  <2>1. crashes' # 0
    BY <1>7 DEF Crash, TypeOK
  <2> QED
    BY <2>1 DEF ApartInv, Apart
<1>8. ASSUME UNCHANGED vars
      PROVE  ApartInv'
  <2>1. (Newest(appended))' = Newest(appended) /\ (Newest(lines))' = Newest(lines)
    BY <1>8 DEF vars, Newest, Last
  <2> QED
    BY <1>8, <2>1 DEF ApartInv, Apart, Rewriting, vars
<1> QED
  BY <1>1, <1>2, <1>3, <1>4, <1>5, <1>6, <1>7, <1>8 DEF Next, Step

\* The table holds every event that was inserted, and no call trims it.
DbInv ==
  backend = "db" =>
    /\ lines = appended /\ ~ragged
    /\ \A e \in Events : pc[e] \in {"idle", "append", "done"}

LEMMA DbStep ==
  ASSUME TypeOK, DbInv, [Next]_vars
  PROVE  DbInv'
<1> SUFFICES ASSUME backend' = "db"
             PROVE  DbInv'
  BY DEF DbInv
<1>0. backend = "db"
  BY DEF Next, Step, Start, AppendEvent, AppendFault, LateFault, ReadCap, Truncate, Rewrite,
         CapFault, Crash, vars
<1>00. lines = appended /\ ~ragged /\ \A e \in Events : pc[e] \in {"idle", "append", "done"}
  BY <1>0 DEF DbInv
<1>1. ASSUME NEW e \in Events, Start(e)
      PROVE  DbInv'
  BY <1>00, <1>1 DEF DbInv, TypeOK, Start, Goto
<1>2. ASSUME NEW e \in Events, AppendEvent(e)
      PROVE  DbInv'
  BY <1>0, <1>00, <1>2 DEF DbInv, TypeOK, AppendEvent, Store, Add, Finish, Goto
<1>3. ASSUME NEW e \in Events, AppendFault(e)
      PROVE  DbInv'
  BY <1>0, <1>00, <1>3 DEF DbInv, TypeOK, AppendFault, Finish, Goto
<1>4. ASSUME NEW e \in Events, LateFault(e)
      PROVE  DbInv'
  BY <1>00, <1>4 DEF DbInv, TypeOK, LateFault, Store, Add, Finish, Goto
<1>5. ASSUME NEW e \in Events, ReadCap(e) \/ Truncate(e) \/ Rewrite(e) \/ CapFault(e)
      PROVE  DbInv'
  <2>1. pc[e] \in {"readcap", "truncate", "rewrite"}
    BY <1>5 DEF ReadCap, Truncate, Rewrite, CapFault
  <2> QED
    BY <1>00, <2>1
<1>6. ASSUME Crash
      PROVE  DbInv'
  BY <1>00, <1>6 DEF DbInv, TypeOK, Crash, UnderWay
<1>7. ASSUME UNCHANGED vars
      PROVE  DbInv'
  BY <1>00, <1>7 DEF DbInv, vars
<1> QED
  BY <1>1, <1>2, <1>3, <1>4, <1>5, <1>6, <1>7 DEF Next, Step

----------------------------------------------------------------------------
(* Below the cap: no call ever rewrites the file, which has no more lines  *)
(* than calls that are past their append, and an event can only go missing *)
(* by a fault.                                                             *)

Begun == {e \in Events : pc[e] # "idle"}
PastAppend == {e \in Events : pc[e] \notin {"idle", "append"}}
Gone == Range(appended) \ Range(lines)

CountInv ==
  /\ Cardinality(Begun) = Len(begun)
  /\ \A e \in Events :
       \/ pc[e] \in {"readcap", "truncate", "rewrite"}
       \/ pc[e] = "done" /\ result[e] = "ok"
       => e \in Range(appended)

BelowInv ==
  Len(begun) <= Cap =>
    /\ \A e \in Events : pc[e] \notin {"truncate", "rewrite"}
    /\ Len(lines) <= Cardinality(PastAppend)
    /\ ragged => lines[Len(lines)] = Torn
    /\ Cardinality(Gone) + (IF ragged THEN 1 ELSE 0) <= faults

LEMMA CountStep ==
  ASSUME TypeOK, CountInv, [Next]_vars
  PROVE  CountInv'
<1> USE DEF TypeOK
<1>1. ASSUME NEW e \in Events, Start(e)
      PROVE  CountInv'
  <2>1. Begun' = Begun \union {e} /\ e \notin Begun
    BY <1>1 DEF Start, Goto, Begun
  <2>2. IsFiniteSet(Begun)
    BY EventsAssumption, FS_Subset DEF Begun
  <2>3. Cardinality(Begun') = Cardinality(Begun) + 1
    BY <2>1, <2>2, FS_AddElement
  <2>4. Len(begun') = Len(begun) + 1
    BY <1>1, AppendProperties DEF Start
  <2>5. Cardinality(Begun)' = Len(begun)'
    BY <2>3, <2>4 DEF CountInv
  <2> QED
    BY <1>1, <2>5 DEF CountInv, Start, Goto
<1>2. ASSUME NEW e \in Events, AppendEvent(e)
      PROVE  CountInv'
  <2>1. Begun' = Begun /\ begun' = begun
    BY <1>2 DEF AppendEvent, Goto, Finish, Begun
  <2>2. Range(appended') = Range(appended) \union {e}
    BY <1>2, AppendRange DEF AppendEvent, Store
  <2> QED
    BY <1>2, <2>1, <2>2 DEF CountInv, AppendEvent, Goto, Finish
<1>3. ASSUME NEW e \in Events, AppendFault(e)
      PROVE  CountInv'
  <2>1. Begun' = Begun /\ begun' = begun
    BY <1>3 DEF AppendFault, Goto, Finish, Begun
  <2> QED
    BY <1>3, <2>1 DEF CountInv, AppendFault, Goto, Finish
<1>4. ASSUME NEW e \in Events, ReadCap(e)
      PROVE  CountInv'
  <2>1. Begun' = Begun /\ begun' = begun
    BY <1>4 DEF ReadCap, Goto, Finish, Begun
  <2> QED
    BY <1>4, <2>1 DEF CountInv, ReadCap, Goto, Finish
<1>5. ASSUME NEW e \in Events, Truncate(e)
      PROVE  CountInv'
  <2>1. Begun' = Begun /\ begun' = begun
    BY <1>5 DEF Truncate, Goto, Begun
  <2> QED
    BY <1>5, <2>1 DEF CountInv, Truncate, Goto
<1>6. ASSUME NEW e \in Events, Rewrite(e)
      PROVE  CountInv'
  <2>1. Begun' = Begun /\ begun' = begun
    BY <1>6 DEF Rewrite, Goto, Finish, Begun
  <2> QED
    BY <1>6, <2>1 DEF CountInv, Rewrite, Goto, Finish
<1>7. ASSUME NEW e \in Events, CapFault(e)
      PROVE  CountInv'
  <2>1. Begun' = Begun /\ begun' = begun
    BY <1>7 DEF CapFault, Goto, Finish, Begun
  <2>2. pc[e] \in {"readcap", "truncate", "rewrite"} /\ Finish(e, "ok") /\ appended' = appended
    BY <1>7 DEF CapFault
  <2> QED
    BY <2>1, <2>2, FinishTypes DEF CountInv
<1>8. ASSUME Crash
      PROVE  CountInv'
  <2>1. Begun' = Begun /\ begun' = begun
    BY <1>8 DEF Crash, UnderWay, Begun
  <2> QED
    BY <1>8, <2>1 DEF CountInv, Crash, UnderWay
<1>9. ASSUME UNCHANGED vars
      PROVE  CountInv'
  BY <1>9 DEF CountInv, Begun, vars
<1>10. ASSUME NEW e \in Events, LateFault(e)
       PROVE  CountInv'
  <2>1. Begun' = Begun /\ begun' = begun
    BY <1>10 DEF LateFault, Goto, Finish, Begun
  <2>2. Range(appended') = Range(appended) \union {e}
    BY <1>10, AppendRange DEF LateFault, Store
  <2> QED
    BY <1>10, <2>1, <2>2 DEF CountInv, LateFault, Goto, Finish
<1> QED
  BY <1>1, <1>2, <1>3, <1>4, <1>5, <1>6, <1>7, <1>8, <1>9, <1>10 DEF Next, Step

LEMMA BelowStep ==
  ASSUME TypeOK, CountInv, BelowInv, [Next]_vars
  PROVE  BelowInv'
<1> DEFINE debt == Cardinality(Gone) + (IF ragged THEN 1 ELSE 0)
<1>0. /\ lines \in Seq(Lines) /\ ragged \in BOOLEAN /\ (ragged => lines # <<>>)
      /\ Len(lines) \in Nat /\ Len(begun) \in Nat /\ faults \in Nat
      /\ Events \subseteq Lines /\ Torn \in Lines /\ Torn \notin Events
      /\ Cap \in Nat
  BY TornAssumption, CapAssumption, FaultsAssumption, LenProperties DEF TypeOK, Lines
<1>a. IsFiniteSet(Begun) /\ IsFiniteSet(PastAppend) /\ IsFiniteSet(Gone)
      /\ Cardinality(PastAppend) \in Nat /\ Cardinality(Gone) \in Nat
      /\ Cardinality(PastAppend) <= Len(begun)
  <2>1. Begun \subseteq Events /\ PastAppend \subseteq Begun /\ Gone \subseteq Events
    BY RangeOfSeq DEF TypeOK, Begun, PastAppend, Gone
  <2>2. IsFiniteSet(Begun) /\ IsFiniteSet(Gone)
    BY <2>1, EventsAssumption, FS_Subset
  <2>3. IsFiniteSet(PastAppend) /\ Cardinality(PastAppend) <= Cardinality(Begun)
    BY <2>1, <2>2, FS_Subset
  <2> QED
    BY <2>2, <2>3, FS_CardinalityType DEF CountInv
<1>1. ASSUME NEW e \in Events, Start(e)
      PROVE  BelowInv'
  <2>1. Len(begun') = Len(begun) + 1
    BY <1>1, AppendProperties DEF TypeOK, Start
  <2>2. PastAppend' = PastAppend /\ Gone' = Gone
    BY <1>1 DEF TypeOK, Start, Goto, PastAppend, Gone
  <2> QED
    BY <1>0, <1>1, <2>1, <2>2 DEF TypeOK, BelowInv, Start, Goto
<1>2. ASSUME NEW e \in Events, AppendEvent(e) \/ LateFault(e)
      PROVE  BelowInv'
  <2> SUFFICES ASSUME Len(begun) <= Cap
               PROVE  BelowInv'
    BY <1>2 DEF BelowInv, AppendEvent, LateFault
  <2>1. /\ \A f \in Events : pc[f] \notin {"truncate", "rewrite"}
        /\ Len(lines) <= Cardinality(PastAppend)
        /\ ragged => lines[Len(lines)] = Torn
        /\ debt <= faults
    BY DEF BelowInv
  <2>2. /\ pc[e] = "append" /\ pc'[e] \in {"readcap", "done"}
        /\ \A f \in Events \ {e} : pc'[f] = pc[f]
        /\ lines' = Add(e) /\ ~ragged' /\ appended' = Append(appended, e)
        /\ faults' \in {faults, faults + 1}
    BY <1>2 DEF TypeOK, AppendEvent, LateFault, Store, Goto, Finish
  <2>3. Len(lines') <= Cardinality(PastAppend')
    <3>1. PastAppend' = PastAppend \union {e} /\ e \notin PastAppend
      BY <2>2 DEF PastAppend
    <3>2. Cardinality(PastAppend') = Cardinality(PastAppend) + 1
      BY <1>a, <3>1, FS_AddElement
    <3>3. Len(lines') <= Len(lines) + 1 /\ Len(lines') \in Nat
      BY <1>0, <2>2, AddFacts, LenProperties
    <3> QED
      BY <1>0, <1>a, <2>1, <3>2, <3>3
  <2>4. /\ Range(lines) \subseteq Range(lines')
        /\ ~ragged => e \in Range(lines')
    BY <1>0, <2>1, <2>2, AddFacts
  <2>5. Range(appended') = Range(appended) \union {e}
    BY <2>2, AppendRange DEF TypeOK
  <2>6. Cardinality(Gone') \in Nat /\ Cardinality(Gone') <= debt
    <3>1. CASE ~ragged
      <4>1. Gone' \subseteq Gone
        BY <2>4, <2>5, <3>1 DEF Gone
      <4> QED
        BY <1>a, <3>1, <4>1, FS_Subset, FS_CardinalityType
    <3>2. CASE ragged
      <4>1. Gone' \subseteq Gone \union {e}
        BY <2>4, <2>5 DEF Gone
      <4>2. IsFiniteSet(Gone \union {e}) /\ Cardinality(Gone \union {e}) <= Cardinality(Gone) + 1
        <5> DEFINE more == Gone \union {e}
        <5>1. IsFiniteSet(Gone) /\ Cardinality(Gone) \in Nat
          BY <1>a
        <5> HIDE DEF Gone
        <5>2. /\ IsFiniteSet(more)
              /\ Cardinality(more) = IF e \in Gone THEN Cardinality(Gone) ELSE Cardinality(Gone) + 1
          BY <5>1, FS_AddElement
        <5> HIDE DEF more
        <5>3. IsFiniteSet(more) /\ Cardinality(more) <= Cardinality(Gone) + 1
          BY <5>1, <5>2
        <5> QED
          BY <5>3 DEF more
      <4>3. IsFiniteSet(Gone') /\ Cardinality(Gone') <= Cardinality(Gone \union {e})
        BY <4>1, <4>2, FS_Subset
      <4>4. Cardinality(Gone') \in Nat /\ Cardinality(Gone \union {e}) \in Nat
        BY <4>2, <4>3, FS_CardinalityType
      <4> QED
        BY <1>a, <3>2, <4>2, <4>3, <4>4
    <3> QED
      BY <1>0, <3>1, <3>2
  <2> HIDE DEF debt
  <2>7. Cardinality(Gone') + (IF ragged' THEN 1 ELSE 0) <= faults'
    <3>1. debt \in Int
      BY <1>0, <1>a DEF debt
    <3> QED
      BY <1>0, <2>1, <2>2, <2>6, <3>1
  <2>8. \A f \in Events : pc'[f] \notin {"truncate", "rewrite"}
    BY <2>1, <2>2
  <2> QED
    BY <2>2, <2>3, <2>7, <2>8 DEF BelowInv
<1>3. ASSUME NEW e \in Events, AppendFault(e)
      PROVE  BelowInv'
  <2> SUFFICES ASSUME Len(begun) <= Cap
               PROVE  BelowInv'
    BY <1>3 DEF BelowInv, AppendFault
  <2>1. /\ \A f \in Events : pc[f] \notin {"truncate", "rewrite"}
        /\ Len(lines) <= Cardinality(PastAppend)
        /\ ragged => lines[Len(lines)] = Torn
        /\ debt <= faults
    BY DEF BelowInv
  <2>2. /\ pc[e] = "append" /\ pc'[e] = "done"
        /\ \A f \in Events \ {e} : pc'[f] = pc[f]
        /\ appended' = appended /\ faults' = faults + 1
    BY <1>3 DEF TypeOK, AppendFault, Goto, Finish
  <2>3. \/ lines' = lines /\ ragged' = ragged
        \/ lines' = Add(Torn) /\ ragged' = TRUE
    BY <1>3 DEF AppendFault
  <2>4. /\ Len(lines') <= Len(lines) + 1 /\ Len(lines') \in Nat
        /\ Range(lines) \subseteq Range(lines')
        /\ ragged' => lines'[Len(lines')] = Torn
        /\ ragged' \in BOOLEAN
    <3>1. CASE lines' = lines /\ ragged' = ragged
      BY <1>0, <2>1, <3>1
    <3>2. CASE lines' = Add(Torn) /\ ragged' = TRUE
      BY <1>0, <2>1, <3>2, AddFacts, LenProperties
    <3> QED
      BY <2>3, <3>1, <3>2
  <2>5. Len(lines') <= Cardinality(PastAppend')
    <3>1. PastAppend' = PastAppend \union {e} /\ e \notin PastAppend
      BY <2>2 DEF PastAppend
    <3>2. Cardinality(PastAppend') = Cardinality(PastAppend) + 1
      BY <1>a, <3>1, FS_AddElement
    <3> QED
      BY <1>0, <1>a, <2>1, <2>4, <3>2
  <2>6. Cardinality(Gone') \in Nat /\ Cardinality(Gone') <= Cardinality(Gone)
    <3>1. Gone' \subseteq Gone
      BY <2>2, <2>4 DEF Gone
    <3> QED
      BY <1>a, <3>1, FS_Subset, FS_CardinalityType
  <2>7. Cardinality(Gone') + (IF ragged' THEN 1 ELSE 0) <= faults'
    BY <1>0, <1>a, <2>1, <2>2, <2>4, <2>6
  <2>8. \A f \in Events : pc'[f] \notin {"truncate", "rewrite"}
    BY <2>1, <2>2
  <2> QED
    BY <2>4, <2>5, <2>7, <2>8 DEF BelowInv
<1>4. ASSUME NEW e \in Events, ReadCap(e)
      PROVE  BelowInv'
  <2> SUFFICES ASSUME Len(begun) <= Cap
               PROVE  BelowInv'
    BY <1>4 DEF BelowInv, ReadCap
  <2>1. Len(lines) <= Cap
    BY <1>0, <1>a DEF BelowInv
  <2>2. /\ pc[e] = "readcap" /\ pc'[e] = "done"
        /\ \A f \in Events \ {e} : pc'[f] = pc[f]
        /\ UNCHANGED <<lines, ragged, appended, faults>>
    BY <1>4, <2>1 DEF TypeOK, ReadCap, Goto, Finish
  <2>3. PastAppend' = PastAppend /\ Gone' = Gone
    BY <2>2 DEF PastAppend, Gone
  <2> QED
    BY <2>2, <2>3 DEF BelowInv
<1>5. ASSUME NEW e \in Events, Truncate(e) \/ Rewrite(e)
      PROVE  BelowInv'
  <2>1. ~(Len(begun) <= Cap) /\ begun' = begun
    BY <1>5 DEF BelowInv, Truncate, Rewrite
  <2> QED
    BY <2>1 DEF BelowInv
<1>6. ASSUME NEW e \in Events, CapFault(e)
      PROVE  BelowInv'
  <2> SUFFICES ASSUME Len(begun) <= Cap
               PROVE  BelowInv'
    BY <1>6 DEF BelowInv, CapFault
  <2>1. /\ pc[e] = "readcap" /\ pc'[e] = "done" /\ faults' = faults + 1
        /\ \A f \in Events \ {e} : pc'[f] = pc[f]
        /\ UNCHANGED <<lines, ragged, appended>>
    BY <1>6 DEF TypeOK, BelowInv, CapFault, Goto, Finish
  <2>2. PastAppend' = PastAppend /\ Gone' = Gone
    BY <2>1 DEF PastAppend, Gone
  <2> QED
    BY <1>0, <1>a, <2>1, <2>2 DEF BelowInv
<1>7. ASSUME Crash
      PROVE  BelowInv'
  <2> SUFFICES ASSUME Len(begun) <= Cap
               PROVE  BelowInv'
    BY <1>7 DEF BelowInv, Crash
  <2>1. PastAppend \subseteq PastAppend' /\ PastAppend' \subseteq Events
    BY <1>7 DEF Crash, UnderWay, PastAppend
  <2>2. Cardinality(PastAppend) <= Cardinality(PastAppend') /\ Cardinality(PastAppend') \in Nat
    BY <2>1, EventsAssumption, FS_Subset, FS_CardinalityType
  <2>3. Gone' = Gone /\ \A f \in Events : pc'[f] \in {pc[f], "done"}
    BY <1>7 DEF Crash, Gone
  <2> QED
    BY <1>0, <1>7, <1>a, <2>2, <2>3 DEF BelowInv, Crash
<1>8. ASSUME UNCHANGED vars
      PROVE  BelowInv'
  BY <1>8 DEF BelowInv, PastAppend, Gone, vars
<1> QED
  BY <1>1, <1>2, <1>3, <1>4, <1>5, <1>6, <1>7, <1>8 DEF Next, Step

----------------------------------------------------------------------------
(* The theorems.                                                           *)

IInv == TypeOK /\ LoggedInv /\ ApartInv /\ DbInv /\ CountInv /\ BelowInv

THEOREM Invariance == Spec => []IInv
<1>1. Init => IInv
  <2> SUFFICES ASSUME Init PROVE IInv
    OBVIOUS
  <2>1. <<>> \in Seq(Lines) /\ <<>> \in Seq(Events) /\ Len(<<>>) = 0 /\ Range(<<>>) = {}
    BY DEF Range
  <2>2. TypeOK
    <3>1. kept = [e \in Events |-> <<>>] /\ lines = <<>> /\ begun = <<>> /\ appended = <<>>
      BY DEF Init
    <3>2. kept \in [Events -> Seq(Lines)] /\ \A e \in Events : Len(kept[e]) <= Cap
      BY <2>1, <3>1, CapAssumption
    <3>3. faults \in 0..MaxFaults /\ crashes \in 0..MaxCrashes
      BY FaultsAssumption, CrashesAssumption DEF Init
    <3> QED
      BY <2>1, <3>1, <3>2, <3>3 DEF Init, TypeOK, Lines
  <2>3. LoggedInv
    BY <2>1 DEF Init, LoggedInv
  <2>4. ApartInv /\ DbInv
    BY <2>1, CapAssumption DEF Init, ApartInv, DbInv, Rewriting
  <2>5. Begun = {} /\ PastAppend = {} /\ Gone = {}
    BY <2>1 DEF Init, Begun, PastAppend, Gone
  <2>6. CountInv /\ BelowInv
    BY <2>1, <2>5, FS_EmptySet DEF Init, CountInv, BelowInv
  <2> QED
    BY <2>2, <2>3, <2>4, <2>6 DEF IInv
<1>2. IInv /\ [Next]_vars => IInv'
  BY TypeStep, LoggedStep, ApartStep, DbStep, CountStep, BelowStep DEF IInv
<1> QED
  BY <1>1, <1>2, PTL DEF Spec

(* Every variable keeps its type, and no rewrite writes more lines than    *)
(* the cap (enforceAuditCap).                                              *)
THEOREM Typing == Spec => []TypeOK
<1>1. IInv => TypeOK
  BY DEF IInv
<1> QED
  BY <1>1, Invariance, PTL

(* An append that was answered with a failure left no event in the log,    *)
(* whatever was written over the file meanwhile, unless its own write was  *)
(* done when its error came (appendAuditEvent).                            *)
THEOREM FailuresUnlogged == Spec => []FailedNotLogged
<1>1. IInv => FailedNotLogged
  <2> SUFFICES ASSUME IInv, NEW e \in Events, result[e] = "failed", e \in Logged
               PROVE  e \in late
    BY DEF FailedNotLogged
  <2>1. e \in Range(lines)
    BY DEF Logged, Range
  <2> QED
    BY <2>1 DEF IInv, LoggedInv, Written
<1> QED
  BY <1>1, Invariance, PTL

(* Up to the cap, concurrent appends lose nothing, and a failed access     *)
(* costs at most one event (appendAuditEvent).                             *)
THEOREM KeptBelowCap == Spec => []BelowCapKept
<1>1. IInv => BelowCapKept
  <2> SUFFICES ASSUME IInv, Len(begun) <= Cap
               PROVE  Cardinality(Acknowledged \ Logged) <= faults
    BY DEF BelowCapKept
  <2>1. Gone \subseteq Events /\ IsFiniteSet(Gone)
    BY RangeOfSeq, EventsAssumption, FS_Subset DEF IInv, TypeOK, Gone
  <2>2. Acknowledged \ Logged \subseteq Gone
    <3>1. \A e \in Acknowledged : e \in Range(appended)
      BY DEF IInv, CountInv, Acknowledged
    <3>2. \A e \in Events : e \in Range(lines) => e \in Logged
      BY DEF Logged, Range
    <3> QED
      BY <3>1, <3>2 DEF Gone, Acknowledged
  <2>3. Cardinality(Acknowledged \ Logged) <= Cardinality(Gone)
        /\ Cardinality(Acknowledged \ Logged) \in Nat /\ Cardinality(Gone) \in Nat
    BY <2>1, <2>2, FS_Subset, FS_CardinalityType
  <2>4. Cardinality(Gone) + (IF ragged THEN 1 ELSE 0) <= faults /\ ragged \in BOOLEAN /\ faults \in Nat
    BY FaultsAssumption DEF IInv, BelowInv, TypeOK
  <2> QED
    BY <2>3, <2>4
<1> QED
  BY <1>1, Invariance, PTL

(* Calls that overlap in any way leave the newest events up to the cap, in *)
(* the order they came, as long as no event is appended while another call *)
(* rewrites the file (enforceAuditCap).                                    *)
THEOREM KeptNewest == Spec => []NewestKept
<1>1. IInv => NewestKept
  <2> SUFFICES ASSUME IInv, Apart, \A e \in Events : ~UnderWay(e)
               PROVE  lines = Newest(appended)
    BY DEF NewestKept, Apart
  <2>1. \A e \in Events : pc[e] \notin {"readcap", "truncate", "rewrite"}
    BY DEF UnderWay
  <2>2. Newest(lines) = Newest(appended) /\ ~(Len(lines) > Cap)
    BY <2>1 DEF IInv, ApartInv
  <2>3. Len(lines) \in Nat /\ Cap \in Nat
    BY CapAssumption, LenProperties DEF IInv, TypeOK
  <2>4. Newest(lines) = lines
    BY <2>2, <2>3 DEF Newest
  <2> QED
    BY <2>2, <2>4
<1> QED
  BY <1>1, Invariance, PTL

(* An acknowledged event that is not in the log has been followed by as    *)
(* many as the cap, unless the file is being rewritten, an event was once  *)
(* appended during a rewrite, an access failed or the process died; and in *)
(* database mode it is always in the log (appendAuditEvent,                *)
(* appendAuditEventToDb, enforceAuditCap).                                 *)
THEOREM LossesExplained == Spec => []LossExplained
<1>1. IInv => LossExplained
  <2> SUFFICES ASSUME IInv, NEW i \in DOMAIN appended, appended[i] \in Acknowledged \ Logged
               PROVE  /\ backend = "file"
                      /\ \/ Len(appended) - i >= Cap
                         \/ \E e \in Events : pc[e] = "rewrite"
                         \/ crossed \/ faults > 0 \/ crashes > 0
    BY DEF LossExplained
  <2>0. /\ lines \in Seq(Lines) /\ appended \in Seq(Events) /\ backend \in {"file", "db"}
        /\ Len(appended) \in Nat /\ Len(lines) \in Nat /\ Cap \in Nat
        /\ faults \in Nat /\ crashes \in Nat /\ i \in 1..Len(appended)
    BY BackendsAssumption, CapAssumption, FaultsAssumption, CrashesAssumption, LenProperties
       DEF IInv, TypeOK, Lines
  <2>00. \A j \in 1..Len(lines) : lines[j] # appended[i]
    BY <2>0, LenProperties DEF Logged, Acknowledged
  <2>1. backend = "file"
    BY <2>0, <2>00 DEF IInv, DbInv
  <2>2. ASSUME ~(Len(appended) - i >= Cap), \A e \in Events : pc[e] # "rewrite",
               ~crossed, ~(faults > 0), ~(crashes > 0)
        PROVE  FALSE
    <3>1. Newest(lines) = Newest(appended)
      BY <2>0, <2>1, <2>2 DEF IInv, ApartInv, Apart
    <3> DEFINE n == Len(Newest(appended))
    <3>2. /\ n = IF Len(appended) <= Cap THEN Len(appended) ELSE Cap
          /\ \A j \in 1..n : Newest(appended)[j] = appended[Len(appended) - n + j]
      BY <2>0, NewestFacts
    <3>3. /\ n = IF Len(lines) <= Cap THEN Len(lines) ELSE Cap
          /\ \A j \in 1..n : Newest(appended)[j] = lines[Len(lines) - n + j]
      BY <2>0, <3>1, NewestFacts
    <3> HIDE DEF n
    <3> DEFINE j == i - (Len(appended) - n)
    <3>4. n \in Nat /\ n <= Len(lines) /\ j \in 1..n /\ Len(appended) - n + j = i
      BY <2>0, <2>2, <3>2, <3>3
    <3>5. Len(lines) - n + j \in 1..Len(lines)
      BY <2>0, <3>4
    <3> HIDE DEF j
    <3>6. lines[Len(lines) - n + j] = appended[i]
      BY <3>2, <3>3, <3>4
    <3> QED
      BY <2>00, <3>5, <3>6
  <2> QED
    BY <2>0, <2>1, <2>2
<1> QED
  BY <1>1, Invariance, PTL
=============================================================================
