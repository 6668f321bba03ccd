-------------------------- MODULE TraceStoreProofs --------------------------
(***************************************************************************)
(* Proofs about TraceStore for every set of sizes, budgets and page sizes, *)
(* and any number of pushes, reloads and pulls.                            *)
(*                                                                         *)
(* The size of a queue is a recursive sum; what an append and a pop do to  *)
(* it follows by induction (DataInduction).  PushInv says what the         *)
(* eviction loop has established about the suffixes it has passed over,    *)
(* PullInv where the records a client has yet to be served must lie.       *)
(***************************************************************************)
EXTENDS TraceStore, DataInduction

-----------------------------------------------------------------------------
(* The size of a sequence of records.                                      *)

Sizes(s) == [i \in 1 .. Len(s) |-> s[i].size]

LEMMA RecordSize == \A r \in Record : r.size \in Nat
  BY StoreAssumption DEF Record

LEMMA SizesType ==
    ASSUME NEW s \in Seq(Record)
    PROVE  Sizes(s) \in [1 .. Len(s) -> Nat] /\ Len(s) \in Nat
  <1>1. \A i \in 1 .. Len(s) : s[i] \in Record
    OBVIOUS
  <1>2. \A i \in 1 .. Len(s) : s[i].size \in Nat
    BY <1>1, RecordSize
  <1>. QED BY <1>2 DEF Sizes

\* Bytes is the last of the partial sums.
LEMMA BytesIsSum ==
    ASSUME NEW s \in Seq(Record), NEW f, PartialSums(f, Sizes(s), Len(s))
    PROVE  Bytes(s) = f[Len(s)]
  <1>. DEFINE n == Len(s)
              E(a) == a = [i \in 0 .. n |-> IF i = 0 THEN 0 ELSE a[i - 1] + s[i].size]
              sum == CHOOSE a : E(a)
  <1>1. n \in Nat /\ Sizes(s) \in [1 .. n -> Nat]
    BY SizesType
  <1>2. \A i \in 1 .. n : Sizes(s)[i] = s[i].size
    BY DEF Sizes
  <1>3. E(f)
    BY <1>1, <1>2 DEF PartialSums
  <1>4. E(sum)
    BY <1>3, Zenon
  <1>5. Bytes(s) = sum[n]
    BY Zenon DEF Bytes
  <1>. HIDE DEF sum
  <1>6. sum[0] = 0 /\ \A i \in 1 .. n : sum[i] = sum[i - 1] + Sizes(s)[i]
    BY <1>1, <1>2, <1>4
  <1>7. sum[n] = f[n]
    BY <1>1, <1>6, SumsUnique
  <1>. QED BY <1>5, <1>7

LEMMA BytesEmpty == Bytes(<<>>) = 0
  <1>1. <<>> \in Seq(Record) /\ Len(<<>>) = 0
    OBVIOUS
  <1>2. PICK f : PartialSums(f, Sizes(<<>>), 0)
    BY <1>1, SizesType, SumsExist
  <1>3. Bytes(<<>>) = f[0]
    BY <1>1, <1>2, BytesIsSum
  <1>. QED BY <1>2, <1>3 DEF PartialSums

LEMMA BytesAppend ==
    ASSUME NEW s \in Seq(Record), NEW r \in Record
    PROVE  Bytes(Append(s, r)) = Bytes(s) + r.size /\ Bytes(s) \in Nat
  <1>. DEFINE t == Append(s, r)
              n == Len(s)
  <1>1. /\ t \in Seq(Record) /\ Len(t) = n + 1 /\ n \in Nat /\ t[n + 1] = r
        /\ \A i \in 1 .. n : t[i] = s[i]
    OBVIOUS
  <1>2. /\ \A i \in 1 .. n : Sizes(t)[i] = Sizes(s)[i]
        /\ Sizes(t)[n + 1] = r.size /\ r.size \in Nat
    <2>. HIDE DEF t
    <2>1. n + 1 \in 1 .. Len(t)
      BY <1>1
    <2>2. ASSUME NEW i \in 1 .. n PROVE Sizes(t)[i] = Sizes(s)[i]
      BY <1>1 DEF Sizes
    <2>. QED BY <1>1, <2>1, <2>2, RecordSize DEF Sizes
  <1>. HIDE DEF t
  <1>3. PICK f : PartialSums(f, Sizes(t), n + 1)
    BY <1>1, SizesType, SumsExist
  <1>. DEFINE h == [i \in 0 .. n |-> f[i]]
  <1>4. PartialSums(h, Sizes(s), n)
    <2>1. h \in [0 .. n -> Nat] /\ h[0] = 0
      BY <1>1, <1>3 DEF PartialSums
    <2>2. ASSUME NEW i \in 1 .. n PROVE h[i] = h[i - 1] + Sizes(s)[i]
      BY <1>1, <1>2, <1>3 DEF PartialSums
    <2>. HIDE DEF h
    <2>. QED BY <2>1, <2>2 DEF PartialSums
  <1>5. h[n] = f[n] /\ f[n + 1] = f[n] + r.size /\ f[n] \in Nat
    BY <1>1, <1>2, <1>3 DEF PartialSums
  <1>. HIDE DEF h
  <1>6. Bytes(t) = f[n + 1] /\ Bytes(s) = h[n]
    BY <1>1, <1>3, <1>4, BytesIsSum
  <1>. QED BY <1>5, <1>6 DEF t

LEMMA BytesTail ==
    ASSUME NEW s \in Seq(Record), s # <<>>
    PROVE  /\ Bytes(s) = Head(s).size + Bytes(Tail(s))
           /\ Head(s).size \in Nat /\ Bytes(Tail(s)) \in Nat
  <1>. DEFINE t == Tail(s)
              n == Len(t)
  <1>1. /\ t \in Seq(Record) /\ Len(s) = n + 1 /\ n \in Nat /\ Head(s) = s[1]
        /\ s[1] \in Record /\ \A i \in 1 .. n : t[i] = s[i + 1]
    OBVIOUS
  <1>2. /\ \A i \in 1 .. n : Sizes(t)[i] = Sizes(s)[i + 1]
        /\ Sizes(s)[1] = s[1].size /\ s[1].size \in Nat
        /\ Sizes(t) \in [1 .. n -> Nat] /\ Sizes(s) \in [1 .. n + 1 -> Nat]
    <2>. HIDE DEF t
    <2>1. ASSUME NEW i \in 1 .. n PROVE Sizes(t)[i] = Sizes(s)[i + 1]
      <3>1. i + 1 \in 1 .. Len(s)
        BY <1>1
      <3>. QED BY <1>1, <3>1 DEF Sizes
    <2>2. Sizes(s)[1] = s[1].size
      BY <1>1 DEF Sizes
    <2>3. Sizes(t) \in [1 .. n -> Nat] /\ Sizes(s) \in [1 .. n + 1 -> Nat]
      <3>1. Sizes(t) \in [1 .. Len(t) -> Nat] /\ Sizes(s) \in [1 .. Len(s) -> Nat]
        BY <1>1, SizesType
      <3>. QED BY <1>1, <3>1
    <2>. QED BY <1>1, <2>1, <2>2, <2>3, RecordSize
  <1>. HIDE DEF t
  <1>3. PICK f : PartialSums(f, Sizes(s), n + 1)
    <2>1. n + 1 \in Nat
      BY <1>1
    <2>. QED BY <1>2, <2>1, SumsExist
  <1>4. PICK b : PartialSums(b, Sizes(t), n)
    BY <1>1, <1>2, SumsExist
  <1>5. /\ f \in [0 .. n + 1 -> Nat] /\ b \in [0 .. n -> Nat]
        /\ f[0] = 0 /\ b[0] = 0 /\ f[1] = s[1].size
        /\ \A i \in 1 .. n : b[i] = b[i - 1] + Sizes(t)[i]
        /\ \A i \in 1 .. n : f[i + 1] = f[i] + Sizes(s)[i + 1]
    <2>1. ASSUME NEW i \in 1 .. n PROVE f[i + 1] = f[i] + Sizes(s)[i + 1]
      <3>1. i + 1 \in 1 .. n + 1 /\ (i + 1) - 1 = i
        BY <1>1
      <3>. QED BY <1>3, <3>1 DEF PartialSums
    <2>2. f[1] = f[0] + Sizes(s)[1] /\ f[0] = 0 /\ b[0] = 0
      <3>1. 1 \in 1 .. n + 1 /\ 1 - 1 = 0
        BY <1>1
      <3>. QED BY <1>3, <1>4, <3>1 DEF PartialSums
    <2>. QED BY <1>2, <1>3, <1>4, <2>1, <2>2 DEF PartialSums
  <1>. DEFINE a == [i \in 0 .. n |-> f[i + 1]]
              c == s[1].size
  <1>6. /\ a \in [0 .. n -> Nat] /\ c \in Nat /\ a[0] = b[0] + c /\ a[n] = f[n + 1]
    BY <1>1, <1>2, <1>5
  <1>7. \A i \in 1 .. n : /\ a[i] = a[i - 1] + Sizes(t)[i] /\ Sizes(t)[i] \in Nat
                          /\ b[i] = b[i - 1] + Sizes(t)[i]
    BY <1>1, <1>2, <1>5
  <1>. HIDE DEF a, c
  <1>8. a[n] = b[n] + c
    <2>. DEFINE g == Sizes(t)
    <2>1. g \in [1 .. n -> Nat] /\ n \in Nat /\ b \in [0 .. n -> Nat]
      BY <1>1, <1>2, <1>5
    <2>2. /\ \A i \in 1 .. n : a[i] = a[i - 1] + g[i]
          /\ \A i \in 1 .. n : b[i] = b[i - 1] + g[i]
      BY <1>7
    <2>. HIDE DEF g, n
    <2>. QED BY <1>6, <2>1, <2>2, SumsAgree
  <1>9. Bytes(s) = f[n + 1] /\ Bytes(t) = b[n]
    BY <1>1, <1>3, <1>4, BytesIsSum
  <1>10. f[n + 1] = b[n] + c /\ b[n] \in Nat
    BY <1>1, <1>5, <1>6, <1>8
  <1>. QED BY <1>1, <1>2, <1>9, <1>10 DEF t, c

-----------------------------------------------------------------------------
(* A queue and what is left of it.                                         *)

\* s is t without its first k members.
Suffix(s, t, k) ==
    /\ k \in 0 .. Len(t) /\ Len(s) = Len(t) - k
    /\ \A i \in 1 .. Len(s) : s[i] = t[k + i]

LEMMA SuffixIsSubSeq ==
    ASSUME NEW s \in Seq(Record), NEW t \in Seq(Record), NEW k, Suffix(s, t, k)
    PROVE  s = SubSeq(t, k + 1, Len(t))
  <1>. DEFINE u == SubSeq(t, k + 1, Len(t))
  <1>1. k \in Nat /\ Len(t) \in Nat /\ k <= Len(t) /\ Len(s) = Len(t) - k
    BY DEF Suffix
  <1>2. u \in Seq(Record) /\ Len(u) = Len(t) - k
    BY <1>1
  <1>3. \A i \in 1 .. Len(u) : u[i] = t[k + i]
    BY <1>1
  <1>. HIDE DEF u
  <1>4. \A i \in 1 .. Len(s) : s[i] = u[i]
    BY <1>1, <1>2, <1>3 DEF Suffix
  <1>5. s = u
    BY <1>1, <1>2, <1>4
  <1>. QED BY <1>5 DEF u

LEMMA SubSeqIsSuffix ==
    ASSUME NEW t \in Seq(Record), NEW k \in 0 .. Len(t)
    PROVE  /\ SubSeq(t, k + 1, Len(t)) \in Seq(Record)
           /\ Suffix(SubSeq(t, k + 1, Len(t)), t, k)
  <1>. DEFINE u == SubSeq(t, k + 1, Len(t))
  <1>1. u \in Seq(Record) /\ Len(u) = Len(t) - k
    OBVIOUS
  <1>2. \A i \in 1 .. Len(u) : u[i] = t[k + i]
    OBVIOUS
  <1>. HIDE DEF u
  <1>3. Suffix(u, t, k)
    BY <1>1, <1>2 DEF Suffix
  <1>. QED BY <1>1, <1>3 DEF u

LEMMA SuffixSelf == ASSUME NEW s \in Seq(Record) PROVE Suffix(s, s, 0)
  BY DEF Suffix

LEMMA SuffixTail ==
    ASSUME NEW s \in Seq(Record), NEW t \in Seq(Record), NEW k, Suffix(s, t, k), s # <<>>
    PROVE  Suffix(Tail(s), t, k + 1)
  <1>1. k \in Nat /\ Len(t) \in Nat /\ Len(s) \in Nat \ {0} /\ Len(s) = Len(t) - k
    BY DEF Suffix
  <1>2. Len(Tail(s)) = Len(s) - 1 /\ \A i \in 1 .. Len(s) - 1 : Tail(s)[i] = s[i + 1]
    BY <1>1
  <1>3. ASSUME NEW i \in 1 .. Len(Tail(s)) PROVE Tail(s)[i] = t[(k + 1) + i]
    <2>1. i + 1 \in 1 .. Len(s) /\ k + (i + 1) = (k + 1) + i
      BY <1>1, <1>2
    <2>. QED BY <1>2, <2>1 DEF Suffix
  <1>. QED BY <1>1, <1>2, <1>3 DEF Suffix

LEMMA SuffixAppend ==
    ASSUME NEW s \in Seq(Record), NEW t \in Seq(Record), NEW k, Suffix(s, t, k),
           NEW r \in Record
    PROVE  Suffix(Append(s, r), Append(t, r), k)
  <1>1. k \in Nat /\ Len(t) \in Nat /\ Len(s) \in Nat /\ Len(s) = Len(t) - k
    BY DEF Suffix
  <1>2. /\ Len(Append(s, r)) = Len(s) + 1 /\ Len(Append(t, r)) = Len(t) + 1
        /\ Append(s, r)[Len(s) + 1] = r /\ Append(t, r)[Len(t) + 1] = r
        /\ \A i \in 1 .. Len(s) : Append(s, r)[i] = s[i]
        /\ \A i \in 1 .. Len(t) : Append(t, r)[i] = t[i]
    OBVIOUS
  <1>3. ASSUME NEW i \in 1 .. Len(s) + 1 PROVE Append(s, r)[i] = Append(t, r)[k + i]
    <2>1. CASE i = Len(s) + 1
      BY <1>1, <1>2, <2>1
    <2>2. CASE i \in 1 .. Len(s)
      <3>1. k + i \in 1 .. Len(t)
        BY <1>1, <2>2
      <3>. QED BY <1>2, <2>2, <3>1 DEF Suffix
    <2>. QED BY <1>1, <2>1, <2>2
  <1>4. k \in 0 .. Len(Append(t, r)) /\ Len(Append(s, r)) = Len(Append(t, r)) - k
    <2>1. k <= Len(t)
      BY DEF Suffix
    <2>. QED BY <1>1, <1>2, <2>1
  <1>5. \A i \in 1 .. Len(Append(s, r)) : Append(s, r)[i] = Append(t, r)[k + i]
    BY <1>2, <1>3
  <1>. QED BY <1>4, <1>5, Zenon DEF Suffix

-----------------------------------------------------------------------------
(* The invariant.                                                          *)

FlagsOK == pushing \in BOOLEAN /\ pulling \in BOOLEAN

DataOK ==
    /\ deque \in Seq(Record) /\ pushed \in Seq(Record) /\ before \in Seq(Record)
    /\ estimatedBytes \in Nat /\ dropped \in Nat
    /\ maxRecords \in RecordCap /\ maxBytes \in ByteCap
    /\ size \in Size \cup {0} /\ reloads \in 0 .. MaxReloads
    /\ limit \in Limit \cup {0} /\ pulls \in 0 .. MaxPulls
    /\ offset \in Nat /\ seen \subseteq Record /\ present \subseteq Record

\* The records are numbered in the order of their pushes; those that were there
\* when a pull began had been pushed.
NumberInv ==
    /\ \A i \in 1 .. Len(pushed) : pushed[i].id = i
    /\ \A r \in present : r.id <= Len(pushed)

\* The suffix of the queue that began at i, with the new record, is over budget.
TooBig(i) ==
    \/ Len(before) - i + 2 > maxRecords
    \/ Bytes(SubSeq(before, i, Len(before))) + size > maxBytes

\* The loop drops from the front, and only while what is left does not fit.
PushInv ==
    pushing =>
        /\ size \in Size
        /\ \E k \in Nat : Suffix(deque, before, k) /\ \A i \in 1 .. k : TooBig(i)

\* What a client has yet to be served lies beyond the offset it asks for next.
PullInv ==
    pulling =>
        \A i \in 1 .. Len(deque) :
            deque[i] \in present => deque[i] \in seen \/ i <= Len(deque) - offset

StoreInv ==
    /\ FlagsOK /\ DataOK /\ BytesExact /\ Suffix(deque, pushed, dropped)
    /\ NumberInv /\ PushInv /\ PullInv

LEMMA InitStore == Init => StoreInv
  <1>. SUFFICES ASSUME Init PROVE StoreInv
    OBVIOUS
  <1>1. FlagsOK
    BY Zenon DEF Init, FlagsOK
  <1>2. DataOK
    BY StoreAssumption DEF Init, DataOK
  <1>3. BytesExact
    BY BytesEmpty DEF Init, BytesExact
  <1>. QED BY <1>1, <1>2, <1>3 DEF Init, StoreInv, Suffix, NumberInv, PushInv, PullInv

\* A step that leaves the queue and its history alone, and the push too.
LEMMA UnseenStore ==
    ASSUME StoreInv, UNCHANGED <<deque, estimatedBytes, dropped, pushed>>
    PROVE  BytesExact' /\ Suffix(deque, pushed, dropped)'
           /\ \A i \in 1 .. Len(pushed') : pushed'[i].id = i
  BY DEF StoreInv, BytesExact, Suffix, NumberInv

LEMMA PushBeginInv ==
    ASSUME StoreInv, NEW s \in Size, PushBegin(s)
    PROVE  StoreInv'
  <1>1. FlagsOK'
    BY Zenon DEF StoreInv, FlagsOK, PushBegin, pullVars
  <1>2. DataOK'
    BY DEF StoreInv, DataOK, PushBegin, pullVars
  <1>3. BytesExact' /\ Suffix(deque, pushed, dropped)' /\ NumberInv'
    BY UnseenStore DEF StoreInv, PushBegin, pullVars, NumberInv
  <1>4. PushInv'
    <2>1. Suffix(deque', before', 0)
      BY SuffixSelf DEF PushBegin, StoreInv, DataOK
    <2>. QED BY <2>1 DEF PushInv, PushBegin
  <1>5. PullInv'
    BY DEF StoreInv, PullInv, PushBegin, pullVars
  <1>. QED BY <1>1, <1>2, <1>3, <1>4, <1>5 DEF StoreInv

LEMMA PopFrontInv ==
    ASSUME StoreInv, PopFront
    PROVE  StoreInv'
  <1>0. /\ deque \in Seq(Record) /\ deque # <<>> /\ deque' = Tail(deque)
        /\ dropped' = dropped + 1 /\ dropped \in Nat /\ pushing
        /\ UNCHANGED <<maxRecords, maxBytes, pushing, size, reloads, pullVars, pushed, before>>
    BY DEF StoreInv, DataOK, PopFront, AfterPop
  <1>1. FlagsOK'
    BY <1>0, Zenon DEF StoreInv, FlagsOK, pullVars
  <1>2. estimatedBytes' = Bytes(Tail(deque)) /\ estimatedBytes' \in Nat
    <2>1. /\ Bytes(deque) = Head(deque).size + Bytes(Tail(deque))
          /\ Head(deque).size \in Nat /\ Bytes(Tail(deque)) \in Nat
      BY <1>0, BytesTail
    <2>2. estimatedBytes' = IF estimatedBytes >= Head(deque).size
                              THEN estimatedBytes - Head(deque).size ELSE 0
      BY DEF PopFront, BytesAfterPop
    <2>3. estimatedBytes = Bytes(deque)
      BY DEF StoreInv, BytesExact
    <2>. QED BY <2>1, <2>2, <2>3
  <1>3. DataOK'
    BY <1>0, <1>2 DEF StoreInv, DataOK, pullVars
  <1>4. BytesExact'
    BY <1>0, <1>2 DEF BytesExact
  <1>5. Suffix(deque', pushed', dropped')
    BY <1>0, SuffixTail DEF StoreInv, DataOK
  <1>6. NumberInv'
    BY <1>0 DEF StoreInv, NumberInv, pullVars
  <1>7. PushInv'
    <2>1. PICK k \in Nat : Suffix(deque, before, k) /\ \A i \in 1 .. k : TooBig(i)
      BY <1>0 DEF StoreInv, PushInv
    <2>2. before \in Seq(Record) /\ Suffix(Tail(deque), before, k + 1)
      BY <1>0, <2>1, SuffixTail DEF StoreInv, DataOK
    <2>3. TooBig(k + 1)
      <3>1. deque = SubSeq(before, k + 1, Len(before))
        BY <1>0, <2>1, <2>2, SuffixIsSubSeq
      <3>2. Len(deque) = Len(before) - k /\ Len(before) \in Nat
        BY <2>1, <2>2 DEF Suffix
      <3>6. estimatedBytes = Bytes(deque)
        BY DEF StoreInv, BytesExact
      <3>3. maxRecords \in Nat
        BY StoreAssumption DEF StoreInv, DataOK
      <3>4. CASE Len(deque) >= maxRecords
        BY <3>2, <3>3, <3>4 DEF TooBig
      <3>5. CASE estimatedBytes + size > maxBytes
        BY <3>1, <3>5, <3>6 DEF TooBig
      <3>. QED BY <3>4, <3>5 DEF PopFront, OverBudget
    <2>4. \A i \in 1 .. k + 1 : TooBig(i)
      BY <2>1, <2>3
    <2>5. \A i \in 1 .. k + 1 : TooBig(i)'
      BY <1>0, <2>4 DEF TooBig
    <2>. QED BY <1>0, <2>2, <2>5 DEF StoreInv, PushInv
  <1>8. PullInv'
    <2>. SUFFICES ASSUME pulling, NEW i \in 1 .. Len(deque'), deque'[i] \in present
                  PROVE  deque'[i] \in seen \/ i <= Len(deque') - offset
      BY <1>0 DEF PullInv, pullVars
    <2>1. /\ Len(deque) \in Nat /\ Len(deque') = Len(deque) - 1 /\ deque'[i] = deque[i + 1]
          /\ i + 1 \in 1 .. Len(deque) /\ offset \in Nat
      BY <1>0 DEF StoreInv, DataOK
    <2>2. deque[i + 1] \in seen \/ i + 1 <= Len(deque) - offset
      BY <2>1 DEF StoreInv, PullInv
    <2>. QED BY <2>1, <2>2
  <1>. QED BY <1>1, <1>3, <1>4, <1>5, <1>6, <1>7, <1>8 DEF StoreInv

LEMMA NewRecord ==
    ASSUME StoreInv, PushBack
    PROVE  LET r == [id |-> Len(pushed) + 1, size |-> size]
           IN  /\ r \in Record /\ r.size = size /\ r.id = Len(pushed) + 1
               /\ deque' = Append(deque, r) /\ pushed' = Append(pushed, r)
  <1>1. size \in Size /\ Len(pushed) \in Nat
    BY DEF StoreInv, PushInv, DataOK, PushBack
  <1>. QED BY <1>1 DEF PushBack, Record

LEMMA PushBackInv ==
    ASSUME StoreInv, PushBack
    PROVE  StoreInv'
  <1>. DEFINE r == [id |-> Len(pushed) + 1, size |-> size]
  <1>1. /\ r \in Record /\ r.size = size /\ r.id = Len(pushed) + 1
        /\ deque' = Append(deque, r) /\ pushed' = Append(pushed, r)
    BY NewRecord
  <1>. HIDE DEF r
  <1>2. /\ deque \in Seq(Record) /\ pushed \in Seq(Record) /\ estimatedBytes \in Nat
        /\ ~pushing' /\ estimatedBytes' = estimatedBytes + size
        /\ UNCHANGED <<dropped, maxRecords, maxBytes, size, reloads, pullVars, before>>
    BY DEF StoreInv, DataOK, PushBack
  <1>3. FlagsOK'
    BY <1>2, Zenon DEF StoreInv, FlagsOK, pullVars, PushBack
  <1>4. size \in Nat
    BY <1>1, RecordSize
  <1>5. DataOK'
    BY <1>1, <1>2, <1>4 DEF StoreInv, DataOK, pullVars
  <1>6. BytesExact'
    <2>1. Bytes(Append(deque, r)) = Bytes(deque) + size
      BY <1>1, <1>2, BytesAppend
    <2>. QED BY <1>1, <1>2, <2>1 DEF StoreInv, BytesExact
  <1>7. Suffix(deque', pushed', dropped')
    BY <1>1, <1>2, SuffixAppend DEF StoreInv
  <1>8. NumberInv'
    <2>1. /\ Len(pushed) \in Nat /\ Len(pushed') = Len(pushed) + 1
          /\ pushed'[Len(pushed) + 1] = r
          /\ \A i \in 1 .. Len(pushed) : pushed'[i] = pushed[i]
      BY <1>1, <1>2
    <2>2. ASSUME NEW i \in 1 .. Len(pushed') PROVE pushed'[i].id = i
      BY <1>1, <2>1 DEF StoreInv, NumberInv
    <2>3. ASSUME NEW q \in present PROVE q.id <= Len(pushed')
      <3>1. q.id \in Nat /\ q.id <= Len(pushed)
        BY DEF StoreInv, NumberInv, DataOK, Record
      <3>. QED BY <2>1, <3>1
    <2>. QED BY <1>2, <2>2, <2>3 DEF NumberInv, pullVars
  <1>9. PushInv'
    BY <1>2 DEF PushInv
  <1>10. PullInv'
    <2>. SUFFICES ASSUME pulling, NEW i \in 1 .. Len(deque'), deque'[i] \in present
                  PROVE  deque'[i] \in seen \/ i <= Len(deque') - offset
      BY <1>2 DEF PullInv, pullVars
    <2>1. /\ Len(deque) \in Nat /\ Len(deque') = Len(deque) + 1 /\ offset \in Nat
          /\ deque'[Len(deque) + 1] = r
          /\ \A j \in 1 .. Len(deque) : deque'[j] = deque[j]
      BY <1>1, <1>2 DEF StoreInv, DataOK
    <2>2. r \notin present
      BY <1>1, <1>2 DEF StoreInv, NumberInv
    <2>3. i \in 1 .. Len(deque) /\ deque'[i] = deque[i]
      BY <2>1, <2>2
    <2>4. deque[i] \in seen \/ i <= Len(deque) - offset
      BY <2>3 DEF StoreInv, PullInv
    <2>. QED BY <2>1, <2>3, <2>4
  <1>. QED BY <1>3, <1>5, <1>6, <1>7, <1>8, <1>9, <1>10 DEF StoreInv

LEMMA SetCapsInv ==
    ASSUME StoreInv, NEW n \in RecordCap, NEW b \in ByteCap, SetCaps(n, b)
    PROVE  StoreInv'
  <1>1. FlagsOK'
    BY Zenon DEF StoreInv, FlagsOK, SetCaps, pullVars
  <1>2. DataOK'
    BY StoreAssumption DEF StoreInv, DataOK, SetCaps, pullVars
  <1>3. BytesExact' /\ Suffix(deque, pushed, dropped)' /\ NumberInv'
    BY UnseenStore DEF StoreInv, SetCaps, pullVars, NumberInv
  <1>4. PushInv' /\ PullInv'
    BY DEF StoreInv, PushInv, PullInv, SetCaps, pullVars
  <1>. QED BY <1>1, <1>2, <1>3, <1>4 DEF StoreInv

\* A pull and its pages leave the push alone.
LEMMA PushUnseen ==
    ASSUME StoreInv, UNCHANGED <<deque, maxRecords, maxBytes, pushing, size, before>>
    PROVE  PushInv'
  BY DEF StoreInv, PushInv, TooBig

LEMMA PullBeginInv ==
    ASSUME StoreInv, NEW n \in Limit, PullBegin(n)
    PROVE  StoreInv'
  <1>0. /\ UNCHANGED <<deque, estimatedBytes, dropped, maxRecords, maxBytes, pushing,
                       size, reloads, pushed, before>>
        /\ pulling' = TRUE /\ offset' = 0 /\ limit' = n /\ seen' = {} /\ pulls' = pulls + 1
        /\ pulls < MaxPulls /\ present' = {deque[i] : i \in DOMAIN deque}
    BY DEF PullBegin, ToSet
  <1>1. FlagsOK'
    BY <1>0, Zenon DEF StoreInv, FlagsOK
  <1>2. /\ deque \in Seq(Record) /\ DOMAIN deque = 1 .. Len(deque) /\ Len(deque) \in Nat
        /\ present' \subseteq Record
    BY <1>0 DEF StoreInv, DataOK
  <1>3. DataOK'
    BY <1>0, <1>2, StoreAssumption DEF StoreInv, DataOK
  <1>4. BytesExact' /\ Suffix(deque, pushed, dropped)' /\ PushInv'
    BY <1>0, UnseenStore, PushUnseen
  <1>5. NumberInv'
    <2>1. ASSUME NEW q \in present' PROVE q.id <= Len(pushed)
      <3>1. PICK i \in 1 .. Len(deque) : q = deque[i]
        BY <1>0, <1>2
      <3>2. dropped + i \in 1 .. Len(pushed) /\ q = pushed[dropped + i]
        BY <1>2, <3>1 DEF StoreInv, DataOK, Suffix
      <3>. QED BY <3>2 DEF StoreInv, NumberInv
    <2>. QED BY <1>0, <2>1, UnseenStore DEF NumberInv
  <1>6. PullInv'
    BY <1>0, <1>2 DEF PullInv
  <1>. QED BY <1>1, <1>3, <1>4, <1>5, <1>6 DEF StoreInv

\* What a page holds: the records between its ends.
LEMMA PageHolds ==
    ASSUME StoreInv, PullPage
    PROVE  LET end   == IF Len(deque) > offset THEN Len(deque) - offset ELSE 0
               n     == IF limit = 0 THEN Len(deque) ELSE limit
               start == IF end > n THEN end - n ELSE 0
           IN  /\ seen \subseteq seen' /\ seen' \subseteq Record
               /\ \A i \in start + 1 .. end : deque[i] \in seen'
               /\ pulling' <=> limit # 0 /\ end - start = limit
  <1>. DEFINE end   == IF Len(deque) > offset THEN Len(deque) - offset ELSE 0
              n     == IF limit = 0 THEN Len(deque) ELSE limit
              start == IF end > n THEN end - n ELSE 0
              page  == SubSeq(deque, start + 1, end)
  <1>1. deque \in Seq(Record) /\ Len(deque) \in Nat /\ offset \in Nat /\ limit \in Nat
    BY StoreAssumption DEF StoreInv, DataOK
  <1>2. start \in 0 .. Len(deque) /\ end \in start .. Len(deque)
    <2>1. end \in 0 .. Len(deque) /\ n \in Nat
      BY <1>1
    <2>. HIDE DEF end, n
    <2>. QED BY <1>1, <2>1
  <1>3. SnapshotBounded(limit, offset) = page
    BY DEF SnapshotBounded, Saturating
  <1>. HIDE DEF start, end
  <1>4. /\ page \in Seq(Record) /\ Len(page) = end - start
        /\ \A i \in 1 .. end - start : page[i] = deque[start + i]
    BY <1>1, <1>2
  <1>. HIDE DEF page
  <1>5. seen' = seen \cup {page[i] : i \in DOMAIN page}
    BY <1>3 DEF PullPage, ToSet
  <1>6. pulling' = (limit # 0 /\ Len(page) = limit)
    BY <1>3 DEF PullPage
  <1>7. ASSUME NEW i \in start + 1 .. end PROVE deque[i] \in seen'
    <2>1. i - start \in 1 .. end - start /\ start + (i - start) = i
      BY <1>2
    <2>2. i - start \in DOMAIN page /\ page[i - start] = deque[i]
      BY <1>2, <1>4, <2>1
    <2>. QED BY <1>5, <2>2
  <1>8. seen' \subseteq Record
    BY <1>4, <1>5 DEF StoreInv, DataOK
  <1>9. pulling' <=> limit # 0 /\ end - start = limit
    BY <1>4, <1>6
  <1>. QED BY <1>5, <1>7, <1>8, <1>9 DEF start, end

LEMMA PullPageInv ==
    ASSUME StoreInv, PullPage
    PROVE  StoreInv'
  <1>. DEFINE end   == IF Len(deque) > offset THEN Len(deque) - offset ELSE 0
              n     == IF limit = 0 THEN Len(deque) ELSE limit
              start == IF end > n THEN end - n ELSE 0
  <1>0. /\ UNCHANGED <<deque, estimatedBytes, dropped, maxRecords, maxBytes, pushing,
                       size, reloads, limit, pulls, present, pushed, before>>
        /\ pulling /\ offset' = offset + limit
    BY DEF PullPage
  <1>1. FlagsOK'
    BY Zenon DEF StoreInv, FlagsOK, PullPage
  <1>2. deque \in Seq(Record) /\ Len(deque) \in Nat /\ offset \in Nat /\ limit \in Nat
    BY StoreAssumption DEF StoreInv, DataOK
  <1>3. /\ seen \subseteq seen' /\ seen' \subseteq Record
        /\ \A i \in start + 1 .. end : deque[i] \in seen'
        /\ pulling' <=> limit # 0 /\ end - start = limit
    BY PageHolds
  <1>4. DataOK'
    BY <1>0, <1>2, <1>3 DEF StoreInv, DataOK
  <1>5. BytesExact' /\ Suffix(deque, pushed, dropped)' /\ PushInv' /\ NumberInv'
    BY <1>0, UnseenStore, PushUnseen DEF StoreInv, NumberInv
  <1>6. PullInv'
    <2>. SUFFICES ASSUME pulling', NEW i \in 1 .. Len(deque), deque[i] \in present
                  PROVE  deque[i] \in seen' \/ i <= Len(deque) - (offset + limit)
      BY <1>0 DEF PullInv
    <2>1. deque[i] \in seen \/ i <= Len(deque) - offset
      BY <1>0 DEF StoreInv, PullInv
    <2>2. CASE deque[i] \in seen
      BY <1>3, <2>2
    <2>3. CASE i <= Len(deque) - offset
      <3>1. limit # 0 /\ end = Len(deque) - offset /\ end \in Nat
        BY <1>2, <1>3, <2>3
      <3>2. CASE i \in start + 1 .. end
        BY <1>3, <3>2
      <3>3. CASE i <= start
        BY <1>2, <3>1, <3>3
      <3>. QED BY <1>2, <2>3, <3>1, <3>2, <3>3
    <2>. QED BY <2>1, <2>2, <2>3
  <1>. QED BY <1>1, <1>4, <1>5, <1>6 DEF StoreInv

LEMMA StoreStep == StoreInv /\ [Next]_vars => StoreInv'
  <1>. SUFFICES ASSUME StoreInv, [Next]_vars PROVE StoreInv'
    OBVIOUS
  <1>1. CASE Idle \/ UNCHANGED vars
    <2>1. UNCHANGED vars
      BY <1>1 DEF Idle
    <2>2. FlagsOK'
      BY <2>1, Zenon DEF StoreInv, FlagsOK, vars, pullVars
    <2>3. DataOK'
      BY <2>1 DEF StoreInv, DataOK, vars, pullVars
    <2>4. BytesExact' /\ Suffix(deque, pushed, dropped)' /\ PushInv' /\ NumberInv'
      BY <2>1, UnseenStore, PushUnseen DEF StoreInv, NumberInv, vars, pullVars
    <2>5. PullInv'
      BY <2>1 DEF StoreInv, PullInv, vars, pullVars
    <2>. QED BY <2>2, <2>3, <2>4, <2>5 DEF StoreInv
  <1>. QED
    BY <1>1, PushBeginInv, PopFrontInv, PushBackInv, SetCapsInv, PullBeginInv, PullPageInv
    DEF Next

LEMMA StoreHolds == Spec => []StoreInv
  BY InitStore, StoreStep, PTL DEF Spec

\* Every variable keeps its type.
THEOREM StoreTyped == Spec => []TypeOK
  <1>1. StoreInv => TypeOK
    <2>1. DataOK /\ FlagsOK => TypeOK
      BY DEF DataOK, FlagsOK, TypeOK
    <2>. QED BY <2>1 DEF StoreInv
  <1>. QED BY <1>1, StoreHolds, PTL

\* The store holds the newest records without a gap, counts every other one as
\* dropped, and its running byte count is their size: no sequence of pushes and
\* reloads makes estimated_bytes drift or saturate.
THEOREM HoldsExactly == Spec => []StoreExact
  <1>1. StoreInv => StoreExact
    <2>. SUFFICES ASSUME StoreInv PROVE StoreExact
      OBVIOUS
    <2>1. deque = SubSeq(pushed, dropped + 1, Len(pushed))
      BY SuffixIsSubSeq DEF StoreInv, DataOK
    <2>. QED BY <2>1 DEF StoreInv, StoreExact, KeepsNewest
  <1>. QED BY <1>1, StoreHolds, PTL

\* A client of /__atg/records that pulls page by page, while records come and go
\* between its requests, misses none that was there throughout.
THEOREM PullsEverything == Spec => PullMissesNothing
  <1>1. ASSUME StoreInv, [Next]_vars, pulling, ~pulling'
        PROVE  present \cap ToSet(deque) \subseteq seen'
    <2>0. PullPage
      BY <1>1, Zenon DEF Next, PushBegin, PopFront, PushBack, Idle, PullBegin, SetCaps, vars, pullVars
    <2>. DEFINE end   == IF Len(deque) > offset THEN Len(deque) - offset ELSE 0
                n     == IF limit = 0 THEN Len(deque) ELSE limit
                start == IF end > n THEN end - n ELSE 0
    <2>1. deque \in Seq(Record) /\ Len(deque) \in Nat /\ offset \in Nat /\ limit \in Nat
      BY <1>1, StoreAssumption DEF StoreInv, DataOK
    <2>2. /\ seen \subseteq seen'
          /\ \A i \in start + 1 .. end : deque[i] \in seen'
          /\ pulling' <=> limit # 0 /\ end - start = limit
      BY <1>1, <2>0, PageHolds
    <2>3. start = 0
      <3>0. ~(limit # 0 /\ end - start = limit)
        <4>. HIDE DEF end, n, start
        <4>. QED BY <1>1, <2>2, Zenon
      <3>1. end \in 0 .. Len(deque) /\ n \in Nat
        BY <2>1
      <3>2. CASE limit = 0
        <4>1. n = Len(deque)
          BY <3>2
        <4>. HIDE DEF end, n
        <4>. QED BY <2>1, <3>1, <4>1
      <3>3. CASE limit # 0
        <4>1. n = limit
          BY <3>3
        <4>. HIDE DEF end, n
        <4>. QED BY <2>1, <3>0, <3>1, <3>3, <4>1
      <3>. QED BY <3>2, <3>3
    <2>4. ASSUME NEW i \in 1 .. Len(deque), deque[i] \in present PROVE deque[i] \in seen'
      <3>1. deque[i] \in seen \/ i <= Len(deque) - offset
        BY <1>1, <2>4 DEF StoreInv, PullInv
      <3>2. CASE i <= Len(deque) - offset
        <4>1. i \in start + 1 .. end
          BY <2>1, <2>3, <3>2
        <4>. QED BY <2>2, <4>1
      <3>. QED BY <2>2, <3>1, <3>2
    <2>5. ToSet(deque) = {deque[i] : i \in 1 .. Len(deque)}
      BY <2>1 DEF ToSet
    <2>. QED BY <2>4, <2>5
  <1>2. StoreInv /\ [Next]_vars
          => [pulling /\ ~pulling' => present \cap ToSet(deque) \subseteq seen']_vars
    BY <1>1
  <1>. QED BY <1>2, StoreHolds, PTL DEF Spec, PullMissesNothing

-----------------------------------------------------------------------------
(* What a push keeps.                                                      *)

LEMMA LeastChosen ==
    ASSUME NEW F \in SUBSET Nat, NEW m \in F, \A j \in F : m <= j
    PROVE  (CHOOSE i \in F : \A j \in F : i <= j) = m
  <1>. DEFINE c == CHOOSE i \in F : \A j \in F : i <= j
  <1>1. c \in F /\ \A j \in F : c <= j
    OBVIOUS
  <1>. HIDE DEF c
  <1>2. c = m
    BY <1>1
  <1>. QED BY <1>2 DEF c

\* The suffix of a queue with a record appended.
LEMMA SuffixOfAppend ==
    ASSUME NEW s \in Seq(Record), NEW r \in Record, NEW i \in 1 .. Len(s) + 1
    PROVE  /\ SubSeq(Append(s, r), i, Len(s) + 1) = Append(SubSeq(s, i, Len(s)), r)
           /\ Len(SubSeq(Append(s, r), i, Len(s) + 1)) = Len(s) - i + 2
           /\ Bytes(SubSeq(Append(s, r), i, Len(s) + 1)) = Bytes(SubSeq(s, i, Len(s))) + r.size
           /\ Bytes(SubSeq(s, i, Len(s))) \in Nat
  <1>. DEFINE u == SubSeq(s, i, Len(s))
              k == i - 1
  <1>1. k \in 0 .. Len(s) /\ k + 1 = i /\ Len(s) \in Nat
    OBVIOUS
  <1>. HIDE DEF k
  <1>2. u \in Seq(Record) /\ Suffix(u, s, k)
    BY <1>1, SubSeqIsSuffix
  <1>3. /\ Append(u, r) \in Seq(Record) /\ Append(s, r) \in Seq(Record)
        /\ Len(Append(s, r)) = Len(s) + 1
    BY <1>2
  <1>. HIDE DEF u
  <1>4. Suffix(Append(u, r), Append(s, r), k)
    BY <1>2, SuffixAppend
  <1>5. Append(u, r) = SubSeq(Append(s, r), k + 1, Len(s) + 1)
    BY <1>3, <1>4, SuffixIsSubSeq
  <1>6. Len(u) = Len(s) - k
    BY <1>2 DEF Suffix
  <1>6a. Len(Append(u, r)) = Len(u) + 1
    BY <1>2
  <1>7. Len(Append(u, r)) = Len(s) - i + 2
    BY <1>1, <1>6, <1>6a
  <1>8. Bytes(Append(u, r)) = Bytes(u) + r.size /\ Bytes(u) \in Nat
    BY <1>2, BytesAppend
  <1>. QED BY <1>1, <1>5, <1>7, <1>8 DEF u

\* A push keeps the longest run of newest records that the budgets allow, and the
\* new record alone if even that does not fit, for every queue it may find.
THEOREM PushKeepsMost == Spec => PushKeepsLongestFit
  <1>1. ASSUME StoreInv, [Next]_vars, pushing, ~pushing'
        PROVE  LET all   == Append(before, pushed'[Len(pushed')])
                   from(i) == SubSeq(all, i, Len(all))
                   fit   == {i \in 1 .. Len(all) : Fits(from(i))}
                   first == IF fit = {} THEN Len(all)
                            ELSE CHOOSE i \in fit : \A j \in fit : i <= j
               IN  deque' = from(first)
    <2>0. PushBack
      BY <1>1, Zenon DEF Next, PushBegin, PopFront, Idle, PullBegin, PullPage, SetCaps, vars
    <2>. DEFINE r == [id |-> Len(pushed) + 1, size |-> size]
                L == Len(before)
                all == Append(before, pushed'[Len(pushed')])
                from(i) == SubSeq(all, i, Len(all))
                fit == {i \in 1 .. Len(all) : Fits(from(i))}
                first == IF fit = {} THEN Len(all)
                         ELSE CHOOSE i \in fit : \A j \in fit : i <= j
    <2>1. /\ r \in Record /\ r.size = size
          /\ deque' = Append(deque, r) /\ pushed' = Append(pushed, r)
      BY <1>1, <2>0, NewRecord
    <2>2. /\ deque \in Seq(Record) /\ before \in Seq(Record) /\ pushed \in Seq(Record)
          /\ L \in Nat /\ maxRecords \in Nat /\ maxBytes \in Nat /\ size \in Nat
      BY <1>1, <2>1, RecordSize, StoreAssumption DEF StoreInv, DataOK
    <2>. HIDE DEF r
    <2>3. all = Append(before, r) /\ Len(all) = L + 1
      BY <2>1, <2>2
    <2>. HIDE DEF all
    <2>4. PICK k \in Nat : Suffix(deque, before, k) /\ \A i \in 1 .. k : TooBig(i)
      BY <1>1 DEF StoreInv, PushInv
    <2>5. ASSUME NEW i \in 1 .. L + 1
          PROVE  /\ from(i) = Append(SubSeq(before, i, L), r)
                 /\ Len(from(i)) = L - i + 2
                 /\ Bytes(from(i)) = Bytes(SubSeq(before, i, L)) + size
                 /\ Bytes(SubSeq(before, i, L)) \in Nat
      BY <2>1, <2>2, <2>3, SuffixOfAppend
    <2>6. k <= L /\ deque = SubSeq(before, k + 1, L) /\ Len(deque) = L - k
      <3>1. deque = SubSeq(before, k + 1, Len(before))
        BY <2>2, <2>4, SuffixIsSubSeq
      <3>. QED BY <2>2, <2>4, <3>1 DEF Suffix
    <2>7. deque' = from(k + 1) /\ k + 1 \in 1 .. L + 1
      <3>. HIDE DEF L, from
      <3>1. k + 1 \in 1 .. L + 1
        BY <2>2, <2>6
      <3>2. from(k + 1) = Append(SubSeq(before, k + 1, L), r)
        BY <2>5, <3>1
      <3>. QED BY <2>1, <2>6, <3>1, <3>2
    <2>8. ASSUME NEW i \in 1 .. k PROVE ~Fits(from(i))
      <3>1. i \in 1 .. L + 1 /\ TooBig(i)
        BY <2>2, <2>4, <2>6
      <3>2. /\ Len(from(i)) = L - i + 2 /\ Bytes(from(i)) = Bytes(SubSeq(before, i, L)) + size
            /\ Bytes(SubSeq(before, i, L)) \in Nat
        BY <2>5, <3>1
      <3>. HIDE DEF from
      <3>. QED BY <2>2, <3>1, <3>2 DEF TooBig, Fits
    <2>9. fit \in SUBSET Nat /\ \A j \in fit : k + 1 <= j /\ j <= L + 1
      <3>1. ASSUME NEW j \in fit PROVE j \in Nat /\ k + 1 <= j /\ j <= L + 1
        <4>1. j \in 1 .. L + 1 /\ Fits(from(j))
          BY <2>3
        <4>2. j \notin 1 .. k
          BY <2>8, <4>1
        <4>. QED BY <2>2, <4>1, <4>2
      <3>. HIDE DEF fit
      <3>. QED BY <3>1
    <2>10. k + 1 \in fit \/ (fit = {} /\ k = L)
      <3>1. CASE ~OverBudget
        <4>1. estimatedBytes = Bytes(deque) /\ Bytes(deque) \in Nat
          BY <1>1, <2>1, <2>2, BytesAppend DEF StoreInv, BytesExact
        <4>2. Len(from(k + 1)) = Len(deque) + 1 /\ Bytes(from(k + 1)) = Bytes(deque) + size
          BY <2>2, <2>5, <2>6, <2>7
        <4>3. Len(deque) \in Nat /\ Len(deque) < maxRecords /\ Bytes(deque) + size <= maxBytes
          BY <2>2, <3>1, <4>1 DEF OverBudget
        <4>4. Fits(from(k + 1))
          <5>. HIDE DEF from
          <5>. QED BY <2>2, <4>1, <4>2, <4>3 DEF Fits
        <4>. QED BY <2>3, <2>7, <4>4
      <3>2. CASE deque = <<>>
        <4>0. Len(deque) = 0
          BY <3>2
        <4>1. k = L
          <5>. HIDE DEF L
          <5>. QED BY <2>2, <2>6, <4>0
        <4>2. ASSUME NEW j \in fit PROVE j = k + 1
          <5>1. k + 1 <= j /\ j <= L + 1 /\ j \in Nat
            BY <2>9
          <5>. QED BY <2>2, <4>1, <5>1
        <4>. HIDE DEF fit
        <4>. QED BY <4>1, <4>2
      <3>. QED BY <2>0, <3>1, <3>2 DEF PushBack
    <2>11. first = k + 1
      <3>1. CASE k + 1 \in fit
        <4>1. fit # {} /\ \A j \in fit : k + 1 <= j
          BY <2>9, <3>1
        <4>. HIDE DEF fit
        <4>2. (CHOOSE i \in fit : \A j \in fit : i <= j) = k + 1
          BY <2>9, <3>1, <4>1, LeastChosen
        <4>. QED BY <4>1, <4>2
      <3>2. CASE fit = {} /\ k = L
        <4>. HIDE DEF fit
        <4>. QED BY <2>3, <3>2
      <3>. QED BY <2>10, <3>1, <3>2
    <2>12. deque' = from(first)
      BY <2>7, <2>11
    <2>. QED BY <2>12 DEF all
  <1>2. StoreInv /\ [Next]_vars =>
          [pushing /\ ~pushing' =>
             LET all   == Append(before, pushed'[Len(pushed')])
                 from(i) == SubSeq(all, i, Len(all))
                 fit   == {i \in 1 .. Len(all) : Fits(from(i))}
                 first == IF fit = {} THEN Len(all)
                          ELSE CHOOSE i \in fit : \A j \in fit : i <= j
             IN  deque' = from(first)]_vars
    BY <1>1, Zenon
  <1>. QED BY <1>2, StoreHolds, PTL DEF Spec, PushKeepsLongestFit
=============================================================================
