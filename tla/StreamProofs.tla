---------------------------- MODULE StreamProofs ----------------------------
(***************************************************************************)
(* Proofs about the two parsers that read a relayed stream while it is cut *)
(* into chunks anywhere: the SSE drain (SseEngine) and the frame parsers   *)
(* of an upgraded connection (WsTurn).  Each loop over data is a recursive *)
(* function, and what it computes follows by induction (DataInduction).    *)
(*                                                                         *)
(* The drain: decoding, splitting into frames and feeding them all         *)
(* distribute over the concatenation of two parts of a body when the first *)
(* part ends a frame (FramesConcat, FeedConcat).  So the inductive         *)
(* invariant DrainInv says that what was fed is the frames of the bytes up *)
(* to some frame end, that the tail is the rest, and that no frame ends in *)
(* the tail.  The theorems hold for every stream of bytes.                 *)
(*                                                                         *)
(* The frame parsers: for every cap and every set of payload lengths, for  *)
(* any number of turns and events.  What a message says does not matter to *)
(* the parsers: the bytes are those of some set of messages.               *)
(*                                                                         *)
(* The turns, without a cap: a parser's buffer and the wire behind it are  *)
(* together whole frames (Carries), so a call takes exactly the messages   *)
(* whose last byte passed (Passing).  PairInv says how the messages on     *)
(* their way complete what the turn state and the records hold (Flow), and *)
(* every message keeps it (FlowMore, FlowDone).                            *)
(***************************************************************************)
EXTENDS SseEngine, WsTurn, SequenceTheorems, FiniteSetTheorems, DataInduction

-----------------------------------------------------------------------------
(* Decoding.                                                               *)

Char(B) == B \cup {LF, <<"char">>, <<"fffd">>}

\* f decodes the first n bytes, one by one.
Decoding(f, bytes, n) ==
    /\ f = [i \in 0 .. n |-> f[i]] /\ f[0] = <<>>
    /\ \A i \in 1 .. n : f[i] = f[i - 1] \o DecodeAt(bytes, i)

LEMMA DecodingExists ==
    ASSUME NEW bytes, NEW n \in Nat
    PROVE  \E f : Decoding(f, bytes, n)
  <1>. DEFINE S == {m \in Nat : \E f : Decoding(f, bytes, m)}
  <1>1. 0 \in S
    <2>. DEFINE f == [i \in 0 .. 0 |-> <<>>]
    <2>1. f = [i \in 0 .. 0 |-> f[i]] /\ f[0] = <<>>
      OBVIOUS
    <2>2. Decoding(f, bytes, 0)
      BY <2>1 DEF Decoding
    <2>. QED BY <2>2
  <1>2. ASSUME NEW m \in S PROVE m + 1 \in S
    <2>1. PICK f : Decoding(f, bytes, m)
      OBVIOUS
    <2>. DEFINE x == f[m] \o DecodeAt(bytes, m + 1)
                h == [i \in 0 .. m + 1 |-> IF i = m + 1 THEN x ELSE f[i]]
    <2>. HIDE DEF x
    <2>2. m \in Nat /\ f[0] = <<>> /\ \A i \in 1 .. m : f[i] = f[i - 1] \o DecodeAt(bytes, i)
      BY <2>1 DEF Decoding
    <2>3. h = [i \in 0 .. m + 1 |-> h[i]] /\ h[0] = <<>>
      BY <2>2
    <2>4. ASSUME NEW i \in 1 .. m + 1 PROVE h[i] = h[i - 1] \o DecodeAt(bytes, i)
      <3>1. h[i - 1] = f[i - 1]
        BY <2>2
      <3>2. CASE i = m + 1
        <4>1. h[i] = x /\ i - 1 = m
          BY <2>2, <3>2
        <4>. HIDE DEF h
        <4>. QED BY <3>1, <3>2, <4>1 DEF x
      <3>3. CASE i # m + 1
        <4>1. h[i] = f[i] /\ i \in 1 .. m
          BY <2>2, <3>3
        <4>. HIDE DEF h
        <4>. QED BY <2>2, <3>1, <4>1
      <3>. QED BY <3>2, <3>3
    <2>. HIDE DEF h
    <2>5. Decoding(h, bytes, m + 1)
      BY <2>3, <2>4 DEF Decoding
    <2>. QED BY <2>2, <2>5
  <1>. HIDE DEF S
  <1>3. S = Nat
    BY <1>1, <1>2, SetInduction DEF S
  <1>. QED BY <1>3 DEF S

LEMMA DecodeSteps ==
    ASSUME NEW bytes, Len(bytes) \in Nat
    PROVE  \E f : Decoding(f, bytes, Len(bytes)) /\ Decode(bytes) = f[Len(bytes)]
  <1>. DEFINE n == Len(bytes)
              E(f) == f = [i \in 0 .. n |-> IF i = 0 THEN <<>> ELSE f[i - 1] \o DecodeAt(bytes, i)]
              st == CHOOSE f : E(f)
  <1>1. Decode(bytes) = st[n]
    BY DEF Decode
  <1>2. PICK f : Decoding(f, bytes, n)
    BY DecodingExists
  <1>3. E(f)
    <2>1. ASSUME NEW i \in 0 .. n
          PROVE  f[i] = IF i = 0 THEN <<>> ELSE f[i - 1] \o DecodeAt(bytes, i)
      <3>1. CASE i = 0
        BY <1>2, <3>1, Zenon DEF Decoding
      <3>2. CASE i # 0
        <4>1. i \in 1 .. n
          BY <3>2
        <4>. QED BY <1>2, <3>2, <4>1, Zenon DEF Decoding
      <3>. QED BY <3>1, <3>2
    <2>. QED BY <1>2, <2>1 DEF Decoding
  <1>4. E(st)
    BY <1>3, Zenon
  <1>. HIDE DEF st
  <1>5. st[0] = <<>> /\ \A i \in 1 .. n : st[i] = st[i - 1] \o DecodeAt(bytes, i)
    <2>1. st[0] = <<>>
      BY <1>4
    <2>2. ASSUME NEW i \in 1 .. n PROVE st[i] = st[i - 1] \o DecodeAt(bytes, i)
      <3>1. i \in 0 .. n /\ i # 0
        OBVIOUS
      <3>2. st[i] = IF i = 0 THEN <<>> ELSE st[i - 1] \o DecodeAt(bytes, i)
        BY <1>4, <3>1, Zenon
      <3>. QED BY <3>1, <3>2
    <2>. QED BY <2>1, <2>2
  <1>6. st = [i \in 0 .. n |-> st[i]]
    BY <1>4
  <1>7. Decoding(st, bytes, n)
    BY <1>5, <1>6 DEF Decoding
  <1>. QED BY <1>1, <1>7

LEMMA DecodeAtType ==
    ASSUME NEW B, NEW bytes \in Seq(B), NEW i \in 1 .. Len(bytes)
    PROVE  DecodeAt(bytes, i) \in Seq(Char(B))
  <1>1. bytes[i] \in B
    OBVIOUS
  <1>2. /\ <<<<"char">>>> \in Seq(Char(B)) /\ <<>> \in Seq(Char(B))
        /\ <<<<"fffd">>>> \in Seq(Char(B)) /\ <<bytes[i]>> \in Seq(Char(B))
    BY <1>1 DEF Char
  <1>. QED BY <1>2, Zenon DEF DecodeAt

\* A byte that is no part of a long character is decoded as it is.
LEMMA DecodeAtPlain ==
    ASSUME NEW bytes, NEW i, bytes[i] # Lead, ~Paired(bytes, i - 1), bytes[i] # Cont
    PROVE  DecodeAt(bytes, i) = <<bytes[i]>>
  <1>1. ~Paired(bytes, i)
    BY DEF Paired
  <1>. QED BY <1>1, Zenon DEF DecodeAt

LEMMA ByteKinds ==
    /\ LF # Lead /\ LF # Cont /\ LF # CR /\ CR # Lead /\ CR # Cont
    /\ LF # <<"char">> /\ LF # <<"fffd">>
  BY DEF LF, CR, Lead, Cont

\* No character reaches across a line feed.
LEMMA PairedConcat ==
    ASSUME NEW B, NEW a \in Seq(B), NEW b \in Seq(B), Len(a) > 0, a[Len(a)] = LF
    PROVE  /\ \A i \in 0 .. Len(a) : Paired(a \o b, i) <=> Paired(a, i)
           /\ \A j \in 0 .. Len(b) : Paired(a \o b, Len(a) + j) <=> Paired(b, j)
  <1>. DEFINE c == a \o b
              m == Len(a)
              n == Len(b)
  <1>1. /\ c \in Seq(B) /\ m \in Nat /\ n \in Nat /\ m > 0
        /\ DOMAIN c = 1 .. m + n /\ DOMAIN a = 1 .. m /\ DOMAIN b = 1 .. n
        /\ \A i \in 1 .. m : c[i] = a[i]
        /\ \A j \in 1 .. n : c[m + j] = b[j]
        /\ a[m] = LF
    <2>1. \A i \in 1 .. m + n : c[i] = IF i <= m THEN a[i] ELSE b[i - m]
      BY ConcatProperties
    <2>2. c \in Seq(B) /\ Len(c) = m + n /\ m \in Nat /\ n \in Nat
      BY ConcatProperties
    <2>. HIDE DEF c, m, n
    <2>3. ASSUME NEW j \in 1 .. n PROVE c[m + j] = b[j]
      <3>1. m + j \in 1 .. m + n /\ ~(m + j <= m) /\ (m + j) - m = j
        BY <2>2
      <3>. QED BY <2>1, <3>1
    <2>. QED BY <2>1, <2>2, <2>3 DEF m, n
  <1>. HIDE DEF c, m, n
  <1>2. ASSUME NEW i \in 0 .. m PROVE Paired(c, i) <=> Paired(a, i)
    <2>1. CASE i = 0
      BY <1>1, <2>1 DEF Paired
    <2>2. CASE i = m
      BY <1>1, <2>2, ByteKinds DEF Paired
    <2>3. CASE i \in 1 .. m - 1
      BY <1>1, <2>3 DEF Paired
    <2>. QED BY <1>1, <2>1, <2>2, <2>3
  <1>3. ASSUME NEW j \in 0 .. n PROVE Paired(c, m + j) <=> Paired(b, j)
    <2>1. CASE j = 0
      BY <1>1, <2>1, ByteKinds DEF Paired
    <2>2. CASE j = n
      BY <1>1, <2>2 DEF Paired
    <2>3. CASE j \in 1 .. n - 1
      <3>1. /\ m + j \in 1 .. m + n /\ (m + j) + 1 \in 1 .. m + n
            /\ j \in 1 .. n /\ j + 1 \in 1 .. n /\ (m + j) + 1 = m + (j + 1)
        BY <1>1, <2>3
      <3>2. c[m + j] = b[j] /\ c[(m + j) + 1] = b[j + 1]
        BY <1>1, <3>1
      <3>. QED BY <1>1, <3>1, <3>2 DEF Paired
    <2>. QED BY <1>1, <2>1, <2>2, <2>3
  <1>. QED BY <1>2, <1>3 DEF c, m, n

LEMMA DecodeAtConcat ==
    ASSUME NEW B, NEW a \in Seq(B), NEW b \in Seq(B), Len(a) > 0, a[Len(a)] = LF
    PROVE  /\ \A i \in 1 .. Len(a) : DecodeAt(a \o b, i) = DecodeAt(a, i)
           /\ \A j \in 1 .. Len(b) : DecodeAt(a \o b, Len(a) + j) = DecodeAt(b, j)
  <1>. DEFINE c == a \o b
  <1>1. ASSUME NEW i \in 1 .. Len(a) PROVE DecodeAt(c, i) = DecodeAt(a, i)
    <2>1. c[i] = a[i] /\ i \in 0 .. Len(a) /\ i - 1 \in 0 .. Len(a)
      OBVIOUS
    <2>2. (Paired(c, i) <=> Paired(a, i)) /\ (Paired(c, i - 1) <=> Paired(a, i - 1))
      BY <2>1, PairedConcat, Zenon
    <2>. HIDE DEF c
    <2>. QED BY <2>1, <2>2, Zenon DEF DecodeAt
  <1>2. ASSUME NEW j \in 1 .. Len(b) PROVE DecodeAt(c, Len(a) + j) = DecodeAt(b, j)
    <2>1. /\ c[Len(a) + j] = b[j] /\ j \in 0 .. Len(b) /\ j - 1 \in 0 .. Len(b)
          /\ (Len(a) + j) - 1 = Len(a) + (j - 1)
      OBVIOUS
    <2>2. \A k \in 0 .. Len(b) : Paired(c, Len(a) + k) <=> Paired(b, k)
      BY PairedConcat
    <2>3. Paired(c, Len(a) + j) <=> Paired(b, j)
      BY <2>1, <2>2, Zenon
    <2>4. Paired(c, (Len(a) + j) - 1) <=> Paired(b, j - 1)
      BY <2>1, <2>2
    <2>. HIDE DEF c
    <2>. QED BY <2>1, <2>3, <2>4, Zenon DEF DecodeAt
  <1>. QED BY <1>1, <1>2

LEMMA DecodingType ==
    ASSUME NEW B, NEW bytes \in Seq(B), NEW f, Decoding(f, bytes, Len(bytes))
    PROVE  \A i \in 0 .. Len(bytes) : f[i] \in Seq(Char(B))
  <1>. DEFINE n == Len(bytes)
              S == {m \in Nat : m <= n => f[m] \in Seq(Char(B))}
  <1>0. n \in Nat
    OBVIOUS
  <1>1. 0 \in S
    BY DEF Decoding
  <1>2. ASSUME NEW m \in S PROVE m + 1 \in S
    <2>. SUFFICES ASSUME m + 1 <= n PROVE f[m + 1] \in Seq(Char(B))
      OBVIOUS
    <2>1. m + 1 \in 1 .. n /\ (m + 1) - 1 = m /\ f[m] \in Seq(Char(B))
      BY <1>0
    <2>2. f[m + 1] = f[m] \o DecodeAt(bytes, m + 1)
      BY <2>1 DEF Decoding
    <2>3. DecodeAt(bytes, m + 1) \in Seq(Char(B))
      BY <2>1, DecodeAtType
    <2>. QED BY <2>1, <2>2, <2>3, ConcatProperties
  <1>. HIDE DEF S
  <1>3. S = Nat
    BY <1>1, <1>2, SetInduction DEF S
  <1>. QED BY <1>0, <1>3 DEF S

LEMMA DecodeType ==
    ASSUME NEW B, NEW bytes \in Seq(B)
    PROVE  Decode(bytes) \in Seq(Char(B))
  <1>1. Len(bytes) \in Nat
    OBVIOUS
  <1>2. PICK f : Decoding(f, bytes, Len(bytes)) /\ Decode(bytes) = f[Len(bytes)]
    BY <1>1, DecodeSteps
  <1>. QED BY <1>1, <1>2, DecodingType

\* What follows a line feed can be decoded by itself: the prefix drain_feed cuts
\* off is decoded as it is in the whole body.
LEMMA DecodeConcat ==
    ASSUME NEW B, NEW a \in Seq(B), NEW b \in Seq(B), Len(a) > 0, a[Len(a)] = LF
    PROVE  Decode(a \o b) = Decode(a) \o Decode(b)
  <1>. DEFINE m == Len(a)
              n == Len(b)
              c == a \o b
  <1>1. m \in Nat /\ n \in Nat /\ m > 0 /\ c \in Seq(B) /\ Len(c) = m + n
    BY ConcatProperties
  <1>2. PICK f : Decoding(f, c, m + n) /\ Decode(c) = f[m + n]
    <2>1. Len(c) \in Nat
      BY <1>1
    <2>2. PICK f : Decoding(f, c, Len(c)) /\ Decode(c) = f[Len(c)]
      BY <2>1, DecodeSteps, Zenon
    <2>. QED BY <1>1, <2>2, Zenon
  <1>3. PICK g : Decoding(g, a, m) /\ Decode(a) = g[m]
    BY <1>1, DecodeSteps
  <1>4. PICK h : Decoding(h, b, n) /\ Decode(b) = h[n]
    BY <1>1, DecodeSteps
  <1>5. /\ \A i \in 0 .. m : g[i] \in Seq(Char(B))
        /\ \A i \in 0 .. n : h[i] \in Seq(Char(B))
    BY <1>3, <1>4, DecodingType
  <1>6. /\ \A i \in 1 .. m : DecodeAt(c, i) = DecodeAt(a, i)
        /\ \A j \in 1 .. n : DecodeAt(c, m + j) = DecodeAt(b, j)
    BY DecodeAtConcat
  <1>7. ASSUME NEW j \in 1 .. n PROVE DecodeAt(b, j) \in Seq(Char(B))
    BY DecodeAtType
  <1>. HIDE DEF m, n, c
  <1>8. f[m] = g[m]
    <2>. DEFINE S == {k \in Nat : k <= m => f[k] = g[k]}
    <2>1. 0 \in S
      BY <1>2, <1>3 DEF Decoding
    <2>2. ASSUME NEW k \in S PROVE k + 1 \in S
      <3>. SUFFICES ASSUME k + 1 <= m PROVE f[k + 1] = g[k + 1]
        OBVIOUS
      <3>1. k + 1 \in 1 .. m /\ k + 1 \in 1 .. m + n /\ (k + 1) - 1 = k /\ f[k] = g[k]
        BY <1>1
      <3>2. f[k + 1] = f[k] \o DecodeAt(c, k + 1) /\ g[k + 1] = g[k] \o DecodeAt(a, k + 1)
        BY <1>2, <1>3, <3>1 DEF Decoding
      <3>. QED BY <1>6, <3>1, <3>2
    <2>. HIDE DEF S
    <2>3. S = Nat
      BY <2>1, <2>2, SetInduction DEF S
    <2>. QED BY <1>1, <2>3 DEF S
  <1>9. f[m + n] = g[m] \o h[n]
    <2>. DEFINE P(k) == f[m + k] = g[m] \o h[k]
                S == {k \in Nat : k <= n => P(k)}
    <2>1. 0 \in S
      <3>1. h[0] = <<>> /\ m + 0 = m /\ g[m] \in Seq(Char(B))
        BY <1>1, <1>4, <1>5 DEF Decoding
      <3>2. g[m] \o <<>> = g[m]
        BY <3>1, ConcatEmptySeq
      <3>. QED BY <1>8, <3>1, <3>2
    <2>2. ASSUME NEW k \in S PROVE k + 1 \in S
      <3>. SUFFICES ASSUME k + 1 <= n PROVE P(k + 1)
        <4>. HIDE DEF P
        <4>. QED OBVIOUS
      <3>1. /\ k + 1 \in 1 .. n /\ m + (k + 1) \in 1 .. m + n /\ (k + 1) - 1 = k
            /\ (m + (k + 1)) - 1 = m + k /\ P(k) /\ k \in 0 .. n /\ m \in 0 .. m
        <4>. HIDE DEF P
        <4>. QED BY <1>1
      <3>2. f[m + (k + 1)] = f[m + k] \o DecodeAt(c, m + (k + 1))
        BY <1>2, <3>1 DEF Decoding
      <3>3. h[k + 1] = h[k] \o DecodeAt(b, k + 1)
        BY <1>4, <3>1 DEF Decoding
      <3>4. DecodeAt(c, m + (k + 1)) = DecodeAt(b, k + 1)
        BY <1>6, <3>1
      <3>5. (g[m] \o h[k]) \o DecodeAt(b, k + 1) = g[m] \o (h[k] \o DecodeAt(b, k + 1))
        <4>1. g[m] \in Seq(Char(B)) /\ h[k] \in Seq(Char(B)) /\ DecodeAt(b, k + 1) \in Seq(Char(B))
          BY <1>5, <1>7, <3>1
        <4>. DEFINE x == g[m]
                    y == h[k]
                    z == DecodeAt(b, k + 1)
        <4>2. x \in Seq(Char(B)) /\ y \in Seq(Char(B)) /\ z \in Seq(Char(B))
          BY <4>1
        <4>. HIDE DEF x, y, z
        <4>3. (x \o y) \o z = x \o (y \o z)
          BY <4>2, ConcatAssociative
        <4>. QED BY <4>3 DEF x, y, z
      <3>. QED BY <3>1, <3>2, <3>3, <3>4, <3>5, Zenon
    <2>. HIDE DEF S, P
    <2>3. S = Nat
      BY <2>1, <2>2, SetInduction DEF S
    <2>4. P(n)
      BY <1>1, <2>3 DEF S
    <2>. QED BY <2>4 DEF P
  <1>10. Decode(c) = Decode(a) \o Decode(b)
    BY <1>2, <1>3, <1>4, <1>9
  <1>. QED BY <1>10 DEF c

-----------------------------------------------------------------------------
(* Collecting frames.                                                      *)

LEMMA DecodingPlain ==
    ASSUME NEW bytes, NEW n \in Nat, NEW f, Decoding(f, bytes, n), NEW i \in 1 .. n,
           bytes[i] \in {LF, CR}
    PROVE  f[i] = f[i - 1] \o <<bytes[i]>>
  <1>1. bytes[i] # Lead /\ bytes[i] # Cont
    BY ByteKinds
  <1>2. ~Paired(bytes, i - 1)
    <2>1. (i - 1) + 1 = i
      OBVIOUS
    <2>. QED BY <1>1, <2>1 DEF Paired
  <1>3. DecodeAt(bytes, i) = <<bytes[i]>>
    BY <1>1, <1>2, DecodeAtPlain
  <1>. QED BY <1>3 DEF Decoding

LEMMA FrameEndOfConcat ==
    ASSUME NEW C, NEW t \in Seq(C), LF \in C
    PROVE  /\ LET text == (t \o <<LF>>) \o <<LF>> IN FrameEnd(text, Len(text))
           /\ CR \in C => LET text == ((t \o <<LF>>) \o <<CR>>) \o <<LF>>
                          IN  FrameEnd(text, Len(text))
  <1>1. <<LF>> \in Seq(C) /\ Len(<<LF>>) = 1 /\ Len(t) \in Nat
    OBVIOUS
  <1>. DEFINE u == t \o <<LF>>
  <1>2. u \in Seq(C) /\ Len(u) = Len(t) + 1 /\ u[Len(t) + 1] = LF
    BY <1>1
  <1>. HIDE DEF u
  <1>. DEFINE v == u \o <<LF>>
  <1>3. Len(v) = Len(t) + 2 /\ v[Len(t) + 1] = LF /\ v[Len(t) + 2] = LF
    BY <1>1, <1>2
  <1>4. FrameEnd(v, Len(v))
    <2>. HIDE DEF v
    <2>. QED BY <1>1, <1>3 DEF FrameEnd
  <1>5. ASSUME CR \in C PROVE LET w == (u \o <<CR>>) \o <<LF>> IN FrameEnd(w, Len(w))
    <2>. DEFINE x == u \o <<CR>>
    <2>1. x \in Seq(C) /\ Len(x) = Len(t) + 2 /\ x[Len(t) + 1] = LF /\ x[Len(t) + 2] = CR
      BY <1>1, <1>2, <1>5
    <2>. HIDE DEF x
    <2>. DEFINE w == x \o <<LF>>
    <2>2. /\ Len(w) = Len(t) + 3 /\ w[Len(t) + 1] = LF /\ w[Len(t) + 2] = CR
          /\ w[Len(t) + 3] = LF
      BY <1>1, <2>1
    <2>3. FrameEnd(w, Len(w))
      <3>. HIDE DEF w
      <3>. QED BY <1>1, <2>2 DEF FrameEnd
    <2>. QED BY <2>3 DEF w, x
  <1>. QED BY <1>4, <1>5 DEF u, v

\* A blank line of the bytes is one of the text.
LEMMA FrameEndDecoded ==
    ASSUME NEW B, NEW a \in Seq(B), Len(a) > 0, FrameEnd(a, Len(a))
    PROVE  FrameEnd(Decode(a), Len(Decode(a)))
  <1>. DEFINE n == Len(a)
              C == Char(B)
  <1>1. n \in Nat /\ n > 0 /\ a[n] = LF
    BY DEF FrameEnd
  <1>2. PICK f : Decoding(f, a, n) /\ Decode(a) = f[n]
    BY <1>1, DecodeSteps
  <1>3. \A i \in 0 .. n : f[i] \in Seq(C)
    BY <1>2, DecodingType
  <1>4. \A i \in 1 .. n : a[i] \in C
    BY DEF Char
  <1>5. f[n] = f[n - 1] \o <<LF>>
    BY <1>1, <1>2, DecodingPlain
  <1>6. LF \in C
    BY <1>1, <1>4
  <1>. HIDE DEF n, C
  <1>7. CASE n > 1 /\ a[n - 1] = LF
    <2>1. n - 1 \in 1 .. n /\ n - 2 \in 0 .. n /\ (n - 1) - 1 = n - 2
      BY <1>1, <1>7
    <2>2. f[n - 1] = f[n - 2] \o <<LF>>
      BY <1>1, <1>2, <1>7, <2>1, DecodingPlain
    <2>. QED BY <1>2, <1>3, <1>5, <1>6, <2>1, <2>2, FrameEndOfConcat
  <1>8. CASE n > 2 /\ a[n - 1] = CR /\ a[n - 2] = LF
    <2>1. /\ n - 1 \in 1 .. n /\ n - 2 \in 1 .. n /\ n - 3 \in 0 .. n
          /\ (n - 1) - 1 = n - 2 /\ (n - 2) - 1 = n - 3
      BY <1>1, <1>8
    <2>2. f[n - 1] = f[n - 2] \o <<CR>>
      BY <1>1, <1>2, <1>8, <2>1, DecodingPlain
    <2>3. f[n - 2] = f[n - 3] \o <<LF>>
      BY <1>1, <1>2, <1>8, <2>1, DecodingPlain
    <2>4. CR \in C
      BY <1>4, <1>8, <2>1
    <2>. QED BY <1>2, <1>3, <1>5, <1>6, <2>1, <2>2, <2>3, <2>4, FrameEndOfConcat
  <1>. QED BY <1>7, <1>8 DEF FrameEnd, n

Scan(C) == [out : Seq(Seq(C)), data : Seq(Seq(C)), line : Seq(C)]

\* f collects the frames of the first n characters, one by one.
Scanning(f, text, n) ==
    /\ f = [i \in 0 .. n |-> f[i]] /\ f[0] = NoFrames
    /\ \A i \in 1 .. n : f[i] = TakeChar(f[i - 1], text[i])

LEMMA ScanningExists ==
    ASSUME NEW text, NEW n \in Nat
    PROVE  \E f : Scanning(f, text, n)
  <1>. DEFINE S == {m \in Nat : \E f : Scanning(f, text, m)}
  <1>1. 0 \in S
    <2>. DEFINE f == [i \in 0 .. 0 |-> NoFrames]
    <2>1. f = [i \in 0 .. 0 |-> f[i]] /\ f[0] = NoFrames
      OBVIOUS
    <2>2. Scanning(f, text, 0)
      BY <2>1 DEF Scanning
    <2>. QED BY <2>2
  <1>2. ASSUME NEW m \in S PROVE m + 1 \in S
    <2>1. PICK f : Scanning(f, text, m)
      OBVIOUS
    <2>. DEFINE x == TakeChar(f[m], text[m + 1])
                h == [i \in 0 .. m + 1 |-> IF i = m + 1 THEN x ELSE f[i]]
    <2>. HIDE DEF x
    <2>2. m \in Nat /\ f[0] = NoFrames /\ \A i \in 1 .. m : f[i] = TakeChar(f[i - 1], text[i])
      BY <2>1 DEF Scanning
    <2>3. h = [i \in 0 .. m + 1 |-> h[i]] /\ h[0] = NoFrames
      BY <2>2
    <2>4. ASSUME NEW i \in 1 .. m + 1 PROVE h[i] = TakeChar(h[i - 1], text[i])
      <3>1. h[i - 1] = f[i - 1]
        BY <2>2
      <3>2. CASE i = m + 1
        <4>1. h[i] = x /\ i - 1 = m
          BY <2>2, <3>2
        <4>. HIDE DEF h
        <4>. QED BY <3>1, <3>2, <4>1 DEF x
      <3>3. CASE i # m + 1
        <4>1. h[i] = f[i] /\ i \in 1 .. m
          BY <2>2, <3>3
        <4>. HIDE DEF h
        <4>. QED BY <2>2, <3>1, <4>1
      <3>. QED BY <3>2, <3>3
    <2>. HIDE DEF h
    <2>5. Scanning(h, text, m + 1)
      BY <2>3, <2>4 DEF Scanning
    <2>. QED BY <2>2, <2>5
  <1>. HIDE DEF S
  <1>3. S = Nat
    BY <1>1, <1>2, SetInduction DEF S
  <1>. QED BY <1>3 DEF S

LEMMA CollectSteps ==
    ASSUME NEW text, Len(text) \in Nat
    PROVE  \E f : /\ Scanning(f, text, Len(text))
                  /\ CollectFrames(text) = TakeLine(f[Len(text)]).out \o TakeLine(f[Len(text)]).data
  <1>. DEFINE n == Len(text)
              E(f) == f = [i \in 0 .. n |-> IF i = 0 THEN NoFrames ELSE TakeChar(f[i - 1], text[i])]
              st == CHOOSE f : E(f)
  <1>1. CollectFrames(text) = TakeLine(st[n]).out \o TakeLine(st[n]).data
    BY DEF CollectFrames
  <1>2. PICK f : Scanning(f, text, n)
    BY ScanningExists
  <1>3. E(f)
    <2>1. ASSUME NEW i \in 0 .. n
          PROVE  f[i] = IF i = 0 THEN NoFrames ELSE TakeChar(f[i - 1], text[i])
      <3>1. CASE i = 0
        BY <1>2, <3>1, Zenon DEF Scanning
      <3>2. CASE i # 0
        <4>1. i \in 1 .. n
          BY <3>2
        <4>. QED BY <1>2, <3>2, <4>1, Zenon DEF Scanning
      <3>. QED BY <3>1, <3>2
    <2>. QED BY <1>2, <2>1 DEF Scanning
  <1>4. E(st)
    BY <1>3, Zenon
  <1>. HIDE DEF st
  <1>5. st[0] = NoFrames /\ \A i \in 1 .. n : st[i] = TakeChar(st[i - 1], text[i])
    <2>1. st[0] = NoFrames
      BY <1>4
    <2>2. ASSUME NEW i \in 1 .. n PROVE st[i] = TakeChar(st[i - 1], text[i])
      <3>1. i \in 0 .. n /\ i # 0
        OBVIOUS
      <3>2. st[i] = IF i = 0 THEN NoFrames ELSE TakeChar(st[i - 1], text[i])
        BY <1>4, <3>1, Zenon
      <3>. QED BY <3>1, <3>2
    <2>. QED BY <2>1, <2>2
  <1>6. st = [i \in 0 .. n |-> st[i]]
    BY <1>4
  <1>7. Scanning(st, text, n)
    BY <1>5, <1>6 DEF Scanning
  <1>. QED BY <1>1, <1>7

LEMMA StripCrType ==
    ASSUME NEW C, NEW line \in Seq(C)
    PROVE  StripCr(line) \in Seq(C)
  <1>1. CASE line # <<>>
    <2>1. Len(line) \in Nat /\ Len(line) > 0 /\ \A i \in 1 .. Len(line) - 1 : line[i] \in C
      BY <1>1
    <2>2. SubSeq(line, 1, Len(line) - 1) \in Seq(C)
      BY <2>1, SubSeqProperties
    <2>. QED BY <2>2 DEF StripCr, Front
  <1>2. CASE line = <<>>
    BY <1>2 DEF StripCr
  <1>. QED BY <1>1, <1>2

LEMMA AddDataType ==
    ASSUME NEW C, LF \in C, NEW data \in Seq(Seq(C)), NEW line \in Seq(C), line # <<>>
    PROVE  AddData(data, line) \in Seq(Seq(C))
  <1>1. Tail(line) \in Seq(C)
    BY HeadTailProperties
  <1>2. <<Tail(line)>> \in Seq(Seq(C))
    BY <1>1
  <1>3. CASE data # <<>>
    <2>1. data[1] \in Seq(C)
      BY <1>3
    <2>2. <<LF>> \in Seq(C)
      OBVIOUS
    <2>3. data[1] \o <<LF>> \in Seq(C)
      BY <2>1, <2>2, ConcatProperties
    <2>4. data[1] \o <<LF>> \o Tail(line) \in Seq(C)
      BY <1>1, <2>3, ConcatProperties
    <2>. DEFINE d == data[1] \o <<LF>> \o Tail(line)
    <2>. HIDE DEF d
    <2>5. <<d>> \in Seq(Seq(C))
      BY <2>4 DEF d
    <2>. QED BY <1>2, <1>3, <2>5, Zenon DEF AddData, d
  <1>4. CASE data = <<>>
    BY <1>2, <1>4, Zenon DEF AddData
  <1>. QED BY <1>3, <1>4

LEMMA TakeLineType ==
    ASSUME NEW C, LF \in C, NEW st \in Scan(C)
    PROVE  TakeLine(st) \in Scan(C)
  <1>1. st.out \in Seq(Seq(C)) /\ st.data \in Seq(Seq(C)) /\ st.line \in Seq(C)
    BY DEF Scan
  <1>. DEFINE line == StripCr(st.line)
  <1>2. line \in Seq(C)
    BY <1>1, StripCrType
  <1>. HIDE DEF line
  <1>3. CASE line = <<>>
    <2>1. st.out \o st.data \in Seq(Seq(C))
      BY <1>1, ConcatProperties
    <2>2. TakeLine(st) = [out |-> st.out \o st.data, data |-> <<>>, line |-> <<>>]
      BY <1>3 DEF TakeLine, line
    <2>. QED BY <2>1, <2>2 DEF Scan
  <1>4. CASE line # <<>>
    <2>1. AddData(st.data, line) \in Seq(Seq(C))
      BY <1>1, <1>2, <1>4, AddDataType
    <2>2. TakeLine(st) = [out |-> st.out, data |-> AddData(st.data, line), line |-> <<>>]
      BY <1>4 DEF TakeLine, line
    <2>. QED BY <1>1, <2>1, <2>2 DEF Scan
  <1>. QED BY <1>3, <1>4

LEMMA TakeCharType ==
    ASSUME NEW C, LF \in C, NEW st \in Scan(C), NEW c \in C
    PROVE  TakeChar(st, c) \in Scan(C)
  <1>1. st.out \in Seq(Seq(C)) /\ st.data \in Seq(Seq(C)) /\ st.line \in Seq(C)
    BY DEF Scan
  <1>2. CASE c = LF
    BY <1>2, TakeLineType DEF TakeChar
  <1>3. CASE c # LF
    <2>1. Append(st.line, c) \in Seq(C)
      BY <1>1
    <2>. QED BY <1>1, <1>3, <2>1 DEF TakeChar, Scan
  <1>. QED BY <1>2, <1>3

LEMMA ScanningType ==
    ASSUME NEW C, LF \in C, NEW text \in Seq(C), NEW f, Scanning(f, text, Len(text))
    PROVE  \A i \in 0 .. Len(text) : f[i] \in Scan(C)
  <1>. DEFINE n == Len(text)
              S == {m \in Nat : m <= n => f[m] \in Scan(C)}
  <1>0. n \in Nat
    OBVIOUS
  <1>1. 0 \in S
    <2>1. NoFrames \in Scan(C)
      BY DEF NoFrames, Scan
    <2>. QED BY <2>1 DEF Scanning
  <1>2. ASSUME NEW m \in S PROVE m + 1 \in S
    <2>. SUFFICES ASSUME m + 1 <= n PROVE f[m + 1] \in Scan(C)
      OBVIOUS
    <2>1. m + 1 \in 1 .. n /\ (m + 1) - 1 = m /\ f[m] \in Scan(C)
      BY <1>0
    <2>2. f[m + 1] = TakeChar(f[m], text[m + 1])
      <3>1. f[m + 1] = TakeChar(f[(m + 1) - 1], text[m + 1])
        BY <2>1, Zenon DEF Scanning
      <3>. QED BY <2>1, <3>1
    <2>3. text[m + 1] \in C
      BY <2>1
    <2>. QED BY <2>1, <2>2, <2>3, TakeCharType
  <1>. HIDE DEF S
  <1>3. S = Nat
    BY <1>1, <1>2, SetInduction DEF S
  <1>. QED BY <1>0, <1>3 DEF S

\* A state with the frames found before put in front of it.
After(x, st) == [out |-> x \o st.out, data |-> st.data, line |-> st.line]

LEMMA TakeLineAfter ==
    ASSUME NEW C, LF \in C, NEW st \in Scan(C), NEW x \in Seq(Seq(C))
    PROVE  TakeLine(After(x, st)) = After(x, TakeLine(st))
  <1>1. st.out \in Seq(Seq(C)) /\ st.data \in Seq(Seq(C)) /\ st.line \in Seq(C)
    BY DEF Scan
  <1>2. /\ After(x, st).out = x \o st.out /\ After(x, st).data = st.data
        /\ After(x, st).line = st.line
    BY DEF After
  <1>. DEFINE line == StripCr(st.line)
              y == st.out
              z == st.data
  <1>3. (x \o y) \o z = x \o (y \o z)
    <2>1. y \in Seq(Seq(C)) /\ z \in Seq(Seq(C))
      BY <1>1
    <2>. HIDE DEF y, z
    <2>. QED BY <2>1, ConcatAssociative
  <1>4. CASE line = <<>>
    <2>1. TakeLine(After(x, st)) = [out |-> (x \o y) \o z, data |-> <<>>, line |-> <<>>]
      BY <1>2, <1>4, Zenon DEF TakeLine
    <2>2. TakeLine(st) = [out |-> y \o z, data |-> <<>>, line |-> <<>>]
      BY <1>4, Zenon DEF TakeLine
    <2>3. After(x, TakeLine(st)) = [out |-> x \o (y \o z), data |-> <<>>, line |-> <<>>]
      BY <2>2 DEF After
    <2>. QED BY <1>3, <2>1, <2>3, Zenon
  <1>5. CASE line # <<>>
    <2>. DEFINE d == AddData(z, line)
    <2>1. TakeLine(After(x, st)) = [out |-> x \o y, data |-> d, line |-> <<>>]
      BY <1>2, <1>5, Zenon DEF TakeLine
    <2>2. TakeLine(st) = [out |-> y, data |-> d, line |-> <<>>]
      BY <1>5, Zenon DEF TakeLine
    <2>3. After(x, TakeLine(st)) = [out |-> x \o y, data |-> d, line |-> <<>>]
      <3>. HIDE DEF d
      <3>. QED BY <2>2 DEF After
    <2>. QED BY <2>1, <2>3, Zenon
  <1>. QED BY <1>4, <1>5

LEMMA TakeCharAfter ==
    ASSUME NEW C, LF \in C, NEW st \in Scan(C), NEW x \in Seq(Seq(C)), NEW c
    PROVE  TakeChar(After(x, st), c) = After(x, TakeChar(st, c))
  <1>1. CASE c = LF
    BY <1>1, TakeLineAfter DEF TakeChar
  <1>2. CASE c # LF
    <2>1. TakeChar(st, c) = [out |-> st.out, data |-> st.data, line |-> Append(st.line, c)]
      BY <1>2 DEF TakeChar
    <2>2. TakeChar(After(x, st), c)
            = [out |-> x \o st.out, data |-> st.data, line |-> Append(st.line, c)]
      BY <1>2 DEF TakeChar, After
    <2>. QED BY <2>1, <2>2 DEF After
  <1>. QED BY <1>1, <1>2

\* After a blank line nothing is pending.
LEMMA ScanEnds ==
    ASSUME NEW C, LF \in C, NEW text \in Seq(C), Len(text) > 0, FrameEnd(text, Len(text)),
           NEW f, Scanning(f, text, Len(text))
    PROVE  f[Len(text)].data = <<>> /\ f[Len(text)].line = <<>>
  <1>. DEFINE n == Len(text)
  <1>1. n \in Nat /\ n > 0 /\ text[n] = LF
    BY DEF FrameEnd
  <1>2. \A i \in 0 .. n : f[i] \in Scan(C)
    BY ScanningType
  <1>3. f[n] = TakeLine(f[n - 1])
    <2>1. n \in 1 .. n
      BY <1>1
    <2>. QED BY <1>1, <2>1 DEF Scanning, TakeChar
  <1>4. ASSUME NEW st PROVE TakeLine(st).line = <<>>
    BY DEF TakeLine
  <1>5. ASSUME NEW i \in 1 .. n, text[i] = LF PROVE f[i].line = <<>>
    BY <1>4, <1>5 DEF Scanning, TakeChar
  <1>6. ASSUME StripCr(f[n - 1].line) = <<>> PROVE f[n].data = <<>>
    BY <1>3, <1>6 DEF TakeLine
  <1>7. CASE n > 1 /\ text[n - 1] = LF
    <2>1. n - 1 \in 1 .. n
      BY <1>1, <1>7
    <2>2. f[n - 1].line = <<>>
      BY <1>5, <1>7, <2>1
    <2>3. StripCr(<<>>) = <<>>
      BY DEF StripCr
    <2>. QED BY <1>3, <1>4, <1>6, <2>2, <2>3
  <1>8. CASE n > 2 /\ text[n - 1] = CR /\ text[n - 2] = LF
    <2>1. n - 1 \in 1 .. n /\ n - 2 \in 1 .. n /\ (n - 1) - 1 = n - 2
      BY <1>1, <1>8
    <2>2. f[n - 2].line = <<>>
      BY <1>5, <1>8, <2>1
    <2>3. f[n - 1] = TakeChar(f[n - 2], CR)
      BY <1>8, <2>1 DEF Scanning
    <2>4. f[n - 1].line = <<CR>>
      <3>1. Append(<<>>, CR) = <<CR>>
        OBVIOUS
      <3>. QED BY <2>2, <2>3, <3>1, ByteKinds DEF TakeChar
    <2>5. StripCr(<<CR>>) = <<>>
      <3>1. <<CR>> \in Seq({CR}) /\ Len(<<CR>>) = 1 /\ <<CR>>[1] = CR
        OBVIOUS
      <3>2. SubSeq(<<CR>>, 1, 0) = <<>>
        BY SubSeqEmpty
      <3>. QED BY <3>1, <3>2 DEF StripCr, Front, Last
    <2>. QED BY <1>3, <1>4, <1>6, <2>4, <2>5
  <1>. QED BY <1>7, <1>8 DEF FrameEnd

LEMMA CollectType ==
    ASSUME NEW C, LF \in C, NEW text \in Seq(C)
    PROVE  CollectFrames(text) \in Seq(Seq(C))
  <1>1. Len(text) \in Nat
    OBVIOUS
  <1>2. PICK f : /\ Scanning(f, text, Len(text))
                 /\ CollectFrames(text)
                      = TakeLine(f[Len(text)]).out \o TakeLine(f[Len(text)]).data
    BY <1>1, CollectSteps
  <1>. DEFINE end == TakeLine(f[Len(text)])
  <1>3. end \in Scan(C)
    <2>1. f[Len(text)] \in Scan(C)
      BY <1>1, <1>2, ScanningType
    <2>. QED BY <2>1, TakeLineType
  <1>. HIDE DEF end
  <1>4. end.out \in Seq(Seq(C)) /\ end.data \in Seq(Seq(C))
    BY <1>3 DEF Scan
  <1>. QED BY <1>2, <1>4, ConcatProperties DEF end

\* The frames of a text that has a blank line in the middle are those before it
\* and those after it.
LEMMA CollectConcat ==
    ASSUME NEW C, LF \in C, NEW a \in Seq(C), NEW b \in Seq(C), Len(a) > 0,
           FrameEnd(a, Len(a))
    PROVE  CollectFrames(a \o b) = CollectFrames(a) \o CollectFrames(b)
  <1>. DEFINE m == Len(a)
              n == Len(b)
              c == a \o b
  <1>1. m \in Nat /\ n \in Nat /\ c \in Seq(C) /\ Len(c) = m + n
    BY ConcatProperties
  <1>2. PICK f : Scanning(f, c, m + n)
                 /\ CollectFrames(c) = TakeLine(f[m + n]).out \o TakeLine(f[m + n]).data
    <2>1. Len(c) \in Nat
      BY <1>1
    <2>2. PICK f : Scanning(f, c, Len(c))
                   /\ CollectFrames(c) = TakeLine(f[Len(c)]).out \o TakeLine(f[Len(c)]).data
      BY <2>1, CollectSteps, Zenon
    <2>. QED BY <1>1, <2>2, Zenon
  <1>3. PICK g : Scanning(g, a, m)
                 /\ CollectFrames(a) = TakeLine(g[m]).out \o TakeLine(g[m]).data
    BY <1>1, CollectSteps
  <1>4. PICK h : Scanning(h, b, n)
                 /\ CollectFrames(b) = TakeLine(h[n]).out \o TakeLine(h[n]).data
    BY <1>1, CollectSteps
  <1>5. (\A i \in 0 .. m : g[i] \in Scan(C)) /\ (\A i \in 0 .. n : h[i] \in Scan(C))
    BY <1>3, <1>4, ScanningType
  <1>6. g[m].data = <<>> /\ g[m].line = <<>>
    BY <1>3, ScanEnds
  <1>7. (\A i \in 1 .. m : c[i] = a[i]) /\ (\A j \in 1 .. n : c[m + j] = b[j])
    OBVIOUS
  <1>. HIDE DEF m, n, c
  <1>8. f[m] = g[m]
    <2>. DEFINE S == {k \in Nat : k <= m => f[k] = g[k]}
    <2>1. 0 \in S
      BY <1>2, <1>3 DEF Scanning
    <2>2. ASSUME NEW k \in S PROVE k + 1 \in S
      <3>. SUFFICES ASSUME k + 1 <= m PROVE f[k + 1] = g[k + 1]
        OBVIOUS
      <3>1. k + 1 \in 1 .. m /\ k + 1 \in 1 .. m + n /\ (k + 1) - 1 = k /\ f[k] = g[k]
        BY <1>1
      <3>2. f[k + 1] = TakeChar(f[(k + 1) - 1], c[k + 1])
        BY <1>2, <3>1, Zenon DEF Scanning
      <3>3. g[k + 1] = TakeChar(g[(k + 1) - 1], a[k + 1])
        BY <1>3, <3>1, Zenon DEF Scanning
      <3>4. c[k + 1] = a[k + 1]
        BY <1>7, <3>1
      <3>. QED BY <3>1, <3>2, <3>3, <3>4
    <2>. HIDE DEF S
    <2>3. S = Nat
      BY <2>1, <2>2, SetInduction DEF S
    <2>. QED BY <1>1, <2>3 DEF S
  <1>. DEFINE x == g[m].out
  <1>9. x \in Seq(Seq(C)) /\ g[m] \in Scan(C)
    BY <1>1, <1>5 DEF Scan
  <1>10. f[m + n] = After(x, h[n])
    <2>. DEFINE P(k) == f[m + k] = After(x, h[k])
                S == {k \in Nat : k <= n => P(k)}
    <2>1. 0 \in S
      <3>1. h[0] = NoFrames /\ m + 0 = m
        BY <1>1, <1>4 DEF Scanning
      <3>2. x \o <<>> = x
        BY <1>9, ConcatEmptySeq
      <3>3. After(x, NoFrames) = [out |-> x, data |-> <<>>, line |-> <<>>]
        <4>. HIDE DEF x
        <4>. QED BY <3>2 DEF After, NoFrames
      <3>4. g[m] = [out |-> x, data |-> <<>>, line |-> <<>>]
        BY <1>6, <1>9 DEF Scan
      <3>. QED BY <1>8, <3>1, <3>3, <3>4
    <2>2. ASSUME NEW k \in S PROVE k + 1 \in S
      <3>. SUFFICES ASSUME k + 1 <= n PROVE P(k + 1)
        <4>. HIDE DEF P
        <4>. QED OBVIOUS
      <3>1. /\ k + 1 \in 1 .. n /\ m + (k + 1) \in 1 .. m + n /\ (k + 1) - 1 = k
            /\ (m + (k + 1)) - 1 = m + k /\ P(k) /\ k \in 0 .. n
        <4>. HIDE DEF P
        <4>. QED BY <1>1
      <3>2. f[m + (k + 1)] = TakeChar(f[(m + (k + 1)) - 1], c[m + (k + 1)])
        BY <1>2, <3>1, Zenon DEF Scanning
      <3>3. h[k + 1] = TakeChar(h[(k + 1) - 1], b[k + 1])
        BY <1>4, <3>1, Zenon DEF Scanning
      <3>4. c[m + (k + 1)] = b[k + 1]
        BY <1>7, <3>1
      <3>5. h[k] \in Scan(C)
        BY <1>5, <3>1
      <3>6. TakeChar(After(x, h[k]), b[k + 1]) = After(x, TakeChar(h[k], b[k + 1]))
        BY <1>9, <3>5, TakeCharAfter
      <3>. QED BY <3>1, <3>2, <3>3, <3>4, <3>6, Zenon
    <2>. HIDE DEF S, P
    <2>3. S = Nat
      BY <2>1, <2>2, SetInduction DEF S
    <2>4. P(n)
      BY <1>1, <2>3 DEF S
    <2>. QED BY <2>4 DEF P
  <1>11. CollectFrames(a) = x
    <2>1. StripCr(<<>>) = <<>>
      BY DEF StripCr
    <2>2. TakeLine(g[m]) = [out |-> x \o <<>>, data |-> <<>>, line |-> <<>>]
      BY <1>6, <2>1 DEF TakeLine
    <2>3. x \o <<>> = x
      BY <1>9, ConcatEmptySeq
    <2>. QED BY <1>3, <2>2, <2>3
  <1>. DEFINE end == TakeLine(h[n])
  <1>12. TakeLine(f[m + n]) = After(x, end)
    <2>1. h[n] \in Scan(C)
      BY <1>1, <1>5
    <2>. QED BY <1>9, <1>10, <2>1, TakeLineAfter
  <1>13. end \in Scan(C)
    BY <1>1, <1>5, TakeLineType
  <1>. HIDE DEF end, x
  <1>14. end.out \in Seq(Seq(C)) /\ end.data \in Seq(Seq(C))
    BY <1>13 DEF Scan
  <1>15. CollectFrames(c) = (x \o end.out) \o end.data
    <2>1. After(x, end).out = x \o end.out /\ After(x, end).data = end.data
      BY DEF After
    <2>. QED BY <1>2, <1>12, <2>1, Zenon
  <1>16. (x \o end.out) \o end.data = x \o (end.out \o end.data)
    <2>. DEFINE y == end.out
                z == end.data
    <2>1. y \in Seq(Seq(C)) /\ z \in Seq(Seq(C)) /\ x \in Seq(Seq(C))
      BY <1>9, <1>14
    <2>. HIDE DEF y, z
    <2>2. (x \o y) \o z = x \o (y \o z)
      BY <2>1, ConcatAssociative
    <2>. QED BY <2>2 DEF y, z
  <1>17. CollectFrames(c) = CollectFrames(a) \o CollectFrames(b)
    BY <1>4, <1>11, <1>15, <1>16 DEF end
  <1>. QED BY <1>17 DEF c

-----------------------------------------------------------------------------
(* Frames.                                                                 *)

LEMMA FramesType ==
    ASSUME NEW B, NEW bytes \in Seq(B)
    PROVE  Frames(bytes) \in Seq(Seq(Char(B)))
  <1>1. Decode(bytes) \in Seq(Char(B)) /\ LF \in Char(B)
    BY DecodeType DEF Char
  <1>. QED BY <1>1, CollectType DEF Frames

LEMMA FramesOfNothing == Frames(<<>>) = <<>>
  <1>1. Len(<<>>) = 0 /\ Len(<<>>) \in Nat
    OBVIOUS
  <1>2. Decode(<<>>) = <<>>
    <2>1. PICK f : Decoding(f, <<>>, Len(<<>>)) /\ Decode(<<>>) = f[Len(<<>>)]
      BY <1>1, DecodeSteps
    <2>. QED BY <1>1, <2>1 DEF Decoding
  <1>3. CollectFrames(<<>>) = <<>>
    <2>1. PICK f : /\ Scanning(f, <<>>, Len(<<>>))
                   /\ CollectFrames(<<>>)
                        = TakeLine(f[Len(<<>>)]).out \o TakeLine(f[Len(<<>>)]).data
      BY <1>1, CollectSteps
    <2>2. CollectFrames(<<>>) = TakeLine(NoFrames).out \o TakeLine(NoFrames).data
      BY <1>1, <2>1 DEF Scanning
    <2>3. StripCr(<<>>) = <<>>
      BY DEF StripCr
    <2>4. TakeLine(NoFrames) = [out |-> <<>> \o <<>>, data |-> <<>>, line |-> <<>>]
      BY <2>3 DEF TakeLine, NoFrames
    <2>5. <<>> \o <<>> = <<>>
      OBVIOUS
    <2>. QED BY <2>2, <2>4, <2>5
  <1>. QED BY <1>2, <1>3 DEF Frames

\* A body that is cut after a blank line has the frames of its two parts.
LEMMA FramesConcat ==
    ASSUME NEW B, NEW a \in Seq(B), NEW b \in Seq(B),
           a = <<>> \/ FrameEnd(a, Len(a))
    PROVE  Frames(a \o b) = Frames(a) \o Frames(b)
  <1>1. CASE a = <<>>
    <2>1. a \o b = b
      BY <1>1, ConcatEmptySeq
    <2>2. <<>> \o Frames(b) = Frames(b)
      BY FramesType, ConcatEmptySeq
    <2>. QED BY <1>1, <2>1, <2>2, FramesOfNothing
  <1>2. CASE a # <<>>
    <2>1. Len(a) > 0 /\ FrameEnd(a, Len(a)) /\ a[Len(a)] = LF
      BY <1>2 DEF FrameEnd
    <2>2. Decode(a \o b) = Decode(a) \o Decode(b)
      BY <2>1, DecodeConcat
    <2>3. LF \in Char(B) /\ Decode(a) \in Seq(Char(B)) /\ Decode(b) \in Seq(Char(B))
      BY DecodeType DEF Char
    <2>4. FrameEnd(Decode(a), Len(Decode(a)))
      BY <2>1, FrameEndDecoded
    <2>. DEFINE t == Decode(a)
    <2>. HIDE DEF t
    <2>5. t # <<>> /\ t \in Seq(Char(B)) /\ FrameEnd(t, Len(t))
      BY <2>3, <2>4 DEF FrameEnd, t
    <2>6. Len(t) > 0
      BY <2>5
    <2>7. CollectFrames(t \o Decode(b)) = CollectFrames(t) \o CollectFrames(Decode(b))
      BY <2>3, <2>5, <2>6, CollectConcat
    <2>. QED BY <2>2, <2>7 DEF Frames, t
  <1>. QED BY <1>1, <1>2

-----------------------------------------------------------------------------
(* Feeding frames.                                                         *)

\* f feeds the first n frames, one by one.
Feeding(f, a, protocol, frames, n) ==
    /\ f = [i \in 0 .. n |-> f[i]] /\ f[0] = a
    /\ \A i \in 1 .. n : f[i] = FeedFrame(f[i - 1], protocol, frames[i])

LEMMA FeedingExists ==
    ASSUME NEW a, NEW protocol, NEW frames, NEW n \in Nat
    PROVE  \E f : Feeding(f, a, protocol, frames, n)
  <1>. DEFINE S == {m \in Nat : \E f : Feeding(f, a, protocol, frames, m)}
  <1>1. 0 \in S
    <2>. DEFINE f == [i \in 0 .. 0 |-> a]
    <2>1. f = [i \in 0 .. 0 |-> f[i]] /\ f[0] = a
      OBVIOUS
    <2>2. Feeding(f, a, protocol, frames, 0)
      BY <2>1 DEF Feeding
    <2>. QED BY <2>2
  <1>2. ASSUME NEW m \in S PROVE m + 1 \in S
    <2>1. PICK f : Feeding(f, a, protocol, frames, m)
      OBVIOUS
    <2>. DEFINE x == FeedFrame(f[m], protocol, frames[m + 1])
                h == [i \in 0 .. m + 1 |-> IF i = m + 1 THEN x ELSE f[i]]
    <2>. HIDE DEF x
    <2>2. /\ m \in Nat /\ f[0] = a
          /\ \A i \in 1 .. m : f[i] = FeedFrame(f[i - 1], protocol, frames[i])
      BY <2>1 DEF Feeding
    <2>3. h = [i \in 0 .. m + 1 |-> h[i]] /\ h[0] = a
      BY <2>2
    <2>4. ASSUME NEW i \in 1 .. m + 1 PROVE h[i] = FeedFrame(h[i - 1], protocol, frames[i])
      <3>1. h[i - 1] = f[i - 1]
        BY <2>2
      <3>2. CASE i = m + 1
        <4>1. h[i] = x /\ i - 1 = m
          BY <2>2, <3>2
        <4>. HIDE DEF h
        <4>. QED BY <3>1, <3>2, <4>1 DEF x
      <3>3. CASE i # m + 1
        <4>1. h[i] = f[i] /\ i \in 1 .. m
          BY <2>2, <3>3
        <4>. HIDE DEF h
        <4>. QED BY <2>2, <3>1, <4>1
      <3>. QED BY <3>2, <3>3
    <2>. HIDE DEF h
    <2>5. Feeding(h, a, protocol, frames, m + 1)
      BY <2>3, <2>4 DEF Feeding
    <2>. QED BY <2>2, <2>5
  <1>. HIDE DEF S
  <1>3. S = Nat
    BY <1>1, <1>2, SetInduction DEF S
  <1>. QED BY <1>3 DEF S

LEMMA FeedSteps ==
    ASSUME NEW a, NEW protocol, NEW frames, Len(frames) \in Nat
    PROVE  \E f : /\ Feeding(f, a, protocol, frames, Len(frames))
                  /\ FeedAll(a, protocol, frames) = f[Len(frames)]
  <1>. DEFINE n == Len(frames)
              E(f) == f = [k \in 0 .. n |-> IF k = 0 THEN a
                                            ELSE FeedFrame(f[k - 1], protocol, frames[k])]
              st == CHOOSE f : E(f)
  <1>1. FeedAll(a, protocol, frames) = st[n]
    BY DEF FeedAll
  <1>2. PICK f : Feeding(f, a, protocol, frames, n)
    BY FeedingExists
  <1>3. E(f)
    <2>1. ASSUME NEW i \in 0 .. n
          PROVE  f[i] = IF i = 0 THEN a ELSE FeedFrame(f[i - 1], protocol, frames[i])
      <3>1. CASE i = 0
        BY <1>2, <3>1, Zenon DEF Feeding
      <3>2. CASE i # 0
        <4>1. i \in 1 .. n
          BY <3>2
        <4>. QED BY <1>2, <3>2, <4>1, Zenon DEF Feeding
      <3>. QED BY <3>1, <3>2
    <2>. QED BY <1>2, <2>1 DEF Feeding
  <1>4. E(st)
    BY <1>3, Zenon
  <1>. HIDE DEF st
  <1>5. st[0] = a /\ \A i \in 1 .. n : st[i] = FeedFrame(st[i - 1], protocol, frames[i])
    <2>1. st[0] = a
      BY <1>4
    <2>2. ASSUME NEW i \in 1 .. n PROVE st[i] = FeedFrame(st[i - 1], protocol, frames[i])
      <3>1. i \in 0 .. n /\ i # 0
        OBVIOUS
      <3>2. st[i] = IF i = 0 THEN a ELSE FeedFrame(st[i - 1], protocol, frames[i])
        BY <1>4, <3>1, Zenon
      <3>. QED BY <3>1, <3>2
    <2>. QED BY <2>1, <2>2
  <1>6. st = [i \in 0 .. n |-> st[i]]
    BY <1>4
  <1>7. Feeding(st, a, protocol, frames, n)
    BY <1>5, <1>6 DEF Feeding
  <1>. QED BY <1>1, <1>7

\* Feeding two sequences of frames one after the other is feeding both at once.
LEMMA FeedConcat ==
    ASSUME NEW F, NEW p \in Seq(F), NEW q \in Seq(F), NEW a, NEW protocol
    PROVE  FeedAll(a, protocol, p \o q) = FeedAll(FeedAll(a, protocol, p), protocol, q)
  <1>. DEFINE m == Len(p)
              n == Len(q)
              r == p \o q
              mid == FeedAll(a, protocol, p)
  <1>1. m \in Nat /\ n \in Nat /\ r \in Seq(F) /\ Len(r) = m + n
    BY ConcatProperties
  <1>2. PICK f : Feeding(f, a, protocol, r, m + n) /\ FeedAll(a, protocol, r) = f[m + n]
    <2>1. Len(r) \in Nat
      BY <1>1
    <2>2. PICK f : Feeding(f, a, protocol, r, Len(r)) /\ FeedAll(a, protocol, r) = f[Len(r)]
      BY <2>1, FeedSteps, Zenon
    <2>. QED BY <1>1, <2>2, Zenon
  <1>3. PICK g : Feeding(g, a, protocol, p, m) /\ mid = g[m]
    BY <1>1, FeedSteps
  <1>4. PICK h : Feeding(h, mid, protocol, q, n) /\ FeedAll(mid, protocol, q) = h[n]
    BY <1>1, FeedSteps
  <1>5. (\A i \in 1 .. m : r[i] = p[i]) /\ (\A j \in 1 .. n : r[m + j] = q[j])
    OBVIOUS
  <1>. HIDE DEF m, n, r, mid
  <1>6. f[m] = g[m]
    <2>. DEFINE S == {k \in Nat : k <= m => f[k] = g[k]}
    <2>1. 0 \in S
      BY <1>2, <1>3 DEF Feeding
    <2>2. ASSUME NEW k \in S PROVE k + 1 \in S
      <3>. SUFFICES ASSUME k + 1 <= m PROVE f[k + 1] = g[k + 1]
        OBVIOUS
      <3>1. k + 1 \in 1 .. m /\ k + 1 \in 1 .. m + n /\ (k + 1) - 1 = k /\ f[k] = g[k]
        BY <1>1
      <3>2. f[k + 1] = FeedFrame(f[(k + 1) - 1], protocol, r[k + 1])
        BY <1>2, <3>1, Zenon DEF Feeding
      <3>3. g[k + 1] = FeedFrame(g[(k + 1) - 1], protocol, p[k + 1])
        BY <1>3, <3>1, Zenon DEF Feeding
      <3>4. r[k + 1] = p[k + 1]
        BY <1>5, <3>1
      <3>. QED BY <3>1, <3>2, <3>3, <3>4
    <2>. HIDE DEF S
    <2>3. S = Nat
      BY <2>1, <2>2, SetInduction DEF S
    <2>. QED BY <1>1, <2>3 DEF S
  <1>7. f[m + n] = h[n]
    <2>. DEFINE S == {k \in Nat : k <= n => f[m + k] = h[k]}
    <2>1. 0 \in S
      <3>1. h[0] = mid /\ m + 0 = m
        BY <1>1, <1>4 DEF Feeding
      <3>. QED BY <1>3, <1>6, <3>1
    <2>2. ASSUME NEW k \in S PROVE k + 1 \in S
      <3>. SUFFICES ASSUME k + 1 <= n PROVE f[m + (k + 1)] = h[k + 1]
        OBVIOUS
      <3>1. /\ k + 1 \in 1 .. n /\ m + (k + 1) \in 1 .. m + n /\ (k + 1) - 1 = k
            /\ (m + (k + 1)) - 1 = m + k /\ f[m + k] = h[k]
        <4>1. k \in Nat /\ k <= n /\ f[m + k] = h[k]
          BY <1>1
        <4>2. ASSUME NEW x \in Nat, NEW y \in Nat, NEW z \in Nat, z + 1 <= y
              PROVE  /\ z + 1 \in 1 .. y /\ x + (z + 1) \in 1 .. x + y /\ (z + 1) - 1 = z
                     /\ (x + (z + 1)) - 1 = x + z
          BY <4>2
        <4>. QED BY <1>1, <4>1, <4>2, Zenon
      <3>2. f[m + (k + 1)] = FeedFrame(f[(m + (k + 1)) - 1], protocol, r[m + (k + 1)])
        BY <1>2, <3>1, Zenon DEF Feeding
      <3>3. h[k + 1] = FeedFrame(h[(k + 1) - 1], protocol, q[k + 1])
        BY <1>4, <3>1, Zenon DEF Feeding
      <3>4. r[m + (k + 1)] = q[k + 1]
        BY <1>5, <3>1
      <3>. QED BY <3>1, <3>2, <3>3, <3>4, Zenon
    <2>. HIDE DEF S
    <2>3. S = Nat
      BY <2>1, <2>2, SetInduction DEF S
    <2>. QED BY <1>1, <2>3 DEF S
  <1>8. FeedAll(a, protocol, r) = FeedAll(mid, protocol, q)
    BY <1>2, <1>4, <1>7
  <1>. QED BY <1>8 DEF r, mid

LEMMA FeedNothing ==
    ASSUME NEW a, NEW protocol
    PROVE  FeedAll(a, protocol, <<>>) = a
  <1>1. Len(<<>>) = 0 /\ Len(<<>>) \in Nat
    OBVIOUS
  <1>2. PICK f : /\ Feeding(f, a, protocol, <<>>, Len(<<>>))
                 /\ FeedAll(a, protocol, <<>>) = f[Len(<<>>)]
    BY <1>1, FeedSteps
  <1>. QED BY <1>1, <1>2 DEF Feeding

-----------------------------------------------------------------------------
(* The last frame boundary.                                                *)

LEMMA BoundaryOf ==
    ASSUME NEW B, NEW body \in Seq(B)
    PROVE  LET cut == LastFrameBoundary(body)
           IN  /\ cut \in 0 .. Len(body)
               /\ cut = 0 \/ FrameEnd(body, cut)
               /\ \A i \in 1 .. Len(body) : FrameEnd(body, i) => i <= cut
  <1>. DEFINE T == {0} \cup {i \in DOMAIN body : FrameEnd(body, i)}
  <1>1. T \in SUBSET Nat /\ T # {} /\ Len(body) \in Nat /\ \A x \in T : x <= Len(body)
    OBVIOUS
  <1>2. PICK x \in T : \A y \in T : y <= x
    <2>. HIDE DEF T
    <2>. QED BY <1>1, GreatestNat
  <1>3. Max(T) \in T /\ \A y \in T : Max(T) >= y
    <2>1. \E z \in T : \A y \in T : z >= y
      BY <1>1, <1>2
    <2>. HIDE DEF T
    <2>. QED BY <2>1, Zenon DEF Max
  <1>4. LastFrameBoundary(body) = Max(T)
    BY DEF LastFrameBoundary
  <1>. DEFINE cut == Max(T)
  <1>. HIDE DEF cut
  <1>5. cut \in T /\ \A y \in T : y <= cut
    BY <1>1, <1>3 DEF cut
  <1>. QED BY <1>4, <1>5 DEF cut

\* A part of a body, from behind its first k bytes up to its e-th.
LEMMA Part ==
    ASSUME NEW B, NEW body \in Seq(B), NEW e \in 0 .. Len(body), NEW k \in 0 .. e
    PROVE  /\ SubSeq(body, k + 1, e) \in Seq(B)
           /\ Len(SubSeq(body, k + 1, e)) = e - k
           /\ \A i \in 1 .. e - k : SubSeq(body, k + 1, e)[i] = body[k + i]
  <1>. DEFINE s == SubSeq(body, k + 1, e)
  <1>1. k + 1 \in Int /\ e \in Int /\ e - (k + 1) + 1 = e - k /\ k \in Nat /\ e \in Nat /\ k <= e
    OBVIOUS
  <1>2. \A i \in k + 1 .. e : body[i] \in B
    OBVIOUS
  <1>3. /\ s \in Seq(B) /\ Len(s) = IF k + 1 <= e THEN e - (k + 1) + 1 ELSE 0
        /\ \A i \in 1 .. e - (k + 1) + 1 : s[i] = body[(k + 1) + i - 1]
    BY <1>1, <1>2, SubSeqProperties
  <1>. HIDE DEF s
  <1>4. Len(s) = e - k
    BY <1>1, <1>3
  <1>5. ASSUME NEW i \in 1 .. e - k PROVE s[i] = body[k + i]
    <2>1. i \in 1 .. e - (k + 1) + 1 /\ (k + 1) + i - 1 = k + i
      BY <1>1
    <2>. QED BY <1>3, <2>1
  <1>. QED BY <1>3, <1>4, <1>5 DEF s

LEMMA PartOfPart ==
    ASSUME NEW B, NEW body \in Seq(B), NEW e \in 0 .. Len(body), NEW k \in 0 .. e,
           NEW j \in 0 .. e - k, NEW i \in 0 .. j
    PROVE  SubSeq(SubSeq(body, k + 1, e), i + 1, j) = SubSeq(body, (k + i) + 1, k + j)
  <1>. DEFINE s == SubSeq(body, k + 1, e)
              t == SubSeq(s, i + 1, j)
              u == SubSeq(body, (k + i) + 1, k + j)
  <1>1. s \in Seq(B) /\ Len(s) = e - k /\ \A m \in 1 .. e - k : s[m] = body[k + m]
    BY Part
  <1>. HIDE DEF s
  <1>2. t \in Seq(B) /\ Len(t) = j - i /\ \A m \in 1 .. j - i : t[m] = s[i + m]
    BY <1>1, Part
  <1>3. k + j \in 0 .. Len(body) /\ k + i \in 0 .. k + j /\ (k + j) - (k + i) = j - i
    OBVIOUS
  <1>4. u \in Seq(B) /\ Len(u) = j - i /\ \A m \in 1 .. j - i : u[m] = body[(k + i) + m]
    BY <1>3, Part
  <1>. HIDE DEF t, u
  <1>5. ASSUME NEW m \in 1 .. j - i PROVE t[m] = u[m]
    <2>1. i + m \in 1 .. e - k /\ k + (i + m) = (k + i) + m
      OBVIOUS
    <2>2. s[i + m] = body[k + (i + m)]
      BY <1>1, <2>1
    <2>. QED BY <1>2, <1>4, <2>1, <2>2
  <1>6. t = u
    BY <1>2, <1>4, <1>5, SeqEqual
  <1>. QED BY <1>6 DEF s, t, u

\* Two adjacent parts.
LEMMA PartsJoin ==
    ASSUME NEW B, NEW body \in Seq(B), NEW e \in 0 .. Len(body), NEW m \in 0 .. e,
           NEW k \in 0 .. m
    PROVE  SubSeq(body, k + 1, m) \o SubSeq(body, m + 1, e) = SubSeq(body, k + 1, e)
  <1>1. k + 1 \in 1 .. Len(body) + 1 /\ m \in (k + 1) - 1 .. Len(body) /\ e \in m .. Len(body)
    OBVIOUS
  <1>. QED BY <1>1, ConcatAdjacentSubSeq

\* A boundary of a part is one of the body.
LEMMA PartFrameEnd ==
    ASSUME NEW B, NEW body \in Seq(B), NEW e \in 0 .. Len(body), NEW k \in 0 .. e,
           NEW i \in 1 .. e - k, FrameEnd(SubSeq(body, k + 1, e), i)
    PROVE  FrameEnd(body, k + i)
  <1>. DEFINE s == SubSeq(body, k + 1, e)
  <1>1. \A j \in 1 .. e - k : s[j] = body[k + j]
    BY Part
  <1>. HIDE DEF s
  <1>2. s[i] = LF /\ body[k + i] = LF
    BY <1>1 DEF FrameEnd, s
  <1>3. CASE i > 1 /\ s[i - 1] = LF
    <2>1. i - 1 \in 1 .. e - k /\ k + (i - 1) = (k + i) - 1 /\ k + i > 1
      BY <1>3
    <2>2. body[(k + i) - 1] = LF
      BY <1>1, <1>3, <2>1
    <2>. QED BY <1>2, <2>1, <2>2 DEF FrameEnd
  <1>4. CASE i > 2 /\ s[i - 1] = CR /\ s[i - 2] = LF
    <2>1. /\ i - 1 \in 1 .. e - k /\ k + (i - 1) = (k + i) - 1 /\ k + i > 2
          /\ i - 2 \in 1 .. e - k /\ k + (i - 2) = (k + i) - 2
      BY <1>4
    <2>2. body[(k + i) - 1] = CR /\ body[(k + i) - 2] = LF
      BY <1>1, <1>4, <2>1
    <2>. QED BY <1>2, <2>1, <2>2 DEF FrameEnd
  <1>. QED BY <1>3, <1>4 DEF FrameEnd, s

LEMMA PrefixFrameEnd ==
    ASSUME NEW B, NEW body \in Seq(B), NEW k \in 0 .. Len(body), k = 0 \/ FrameEnd(body, k)
    PROVE  /\ SubSeq(body, 1, k) \in Seq(B)
           /\ LET s == SubSeq(body, 1, k) IN s = <<>> \/ FrameEnd(s, Len(s))
  <1>. DEFINE s == SubSeq(body, 1, k)
  <1>1. s \in Seq(B) /\ Len(s) = k /\ \A i \in 1 .. k : s[i] = body[i]
    <2>1. 0 \in 0 .. k /\ 0 + 1 = 1 /\ k - 0 = k /\ \A i \in 1 .. k : 0 + i = i
      OBVIOUS
    <2>. QED BY <2>1, Part
  <1>. HIDE DEF s
  <1>2. CASE k = 0
    BY <1>1, <1>2 DEF s
  <1>3. CASE k # 0
    <2>1. k \in 1 .. k /\ k - 1 \in Nat /\ FrameEnd(body, k)
      BY <1>3
    <2>2. s[k] = LF
      BY <1>1, <2>1 DEF FrameEnd
    <2>3. CASE k > 1 /\ body[k - 1] = LF
      BY <1>1, <2>1, <2>2, <2>3 DEF FrameEnd, s
    <2>4. CASE k > 2 /\ body[k - 1] = CR /\ body[k - 2] = LF
      <3>1. k - 1 \in 1 .. k /\ k - 2 \in 1 .. k
        BY <2>4
      <3>. QED BY <1>1, <2>2, <2>4, <3>1 DEF FrameEnd, s
    <2>. QED BY <2>1, <2>3, <2>4 DEF FrameEnd
  <1>. QED BY <1>1, <1>2, <1>3 DEF s

-----------------------------------------------------------------------------
(* The drain.                                                              *)

\* The drain has fed the frames of the bytes up to some frame boundary, keeps the
\* rest of what it received, and there is no boundary in it.
Drained(k) ==
    /\ k = 0 \/ FrameEnd(stream.body, k)
    /\ tail = SubSeq(stream.body, k + 1, pos)
    /\ acc = FeedAll(Accum, stream.protocol, Frames(SubSeq(stream.body, 1, k)))

DrainInv ==
    /\ stream \in Stream /\ pos \in 0 .. Len(stream.body)
    /\ \E k \in 0 .. pos : Drained(k)
    /\ LastFrameBoundary(tail) = 0

LEMMA FeedWhole ==
    ASSUME NEW B, NEW body \in Seq(B), NEW e \in 0 .. Len(body), NEW k \in 0 .. e,
           k = 0 \/ FrameEnd(body, k), NEW a, NEW protocol
    PROVE  FeedAll(FeedAll(a, protocol, Frames(SubSeq(body, 1, k))), protocol,
                   Frames(SubSeq(body, k + 1, e)))
             = FeedAll(a, protocol, Frames(SubSeq(body, 1, e)))
  <1>. DEFINE s == SubSeq(body, 1, k)
              t == SubSeq(body, k + 1, e)
  <1>1. s \in Seq(B) /\ (s = <<>> \/ FrameEnd(s, Len(s)))
    <2>1. k \in 0 .. Len(body)
      OBVIOUS
    <2>. QED BY <2>1, PrefixFrameEnd
  <1>2. t \in Seq(B)
    BY Part
  <1>3. s \o t = SubSeq(body, 1, e)
    <2>1. 0 \in 0 .. k /\ 0 + 1 = 1
      OBVIOUS
    <2>. QED BY <2>1, PartsJoin
  <1>. HIDE DEF s, t
  <1>4. Frames(s \o t) = Frames(s) \o Frames(t)
    BY <1>1, <1>2, FramesConcat
  <1>5. Frames(s) \in Seq(Seq(Char(B))) /\ Frames(t) \in Seq(Seq(Char(B)))
    BY <1>1, <1>2, FramesType
  <1>6. FeedAll(a, protocol, Frames(s) \o Frames(t))
          = FeedAll(FeedAll(a, protocol, Frames(s)), protocol, Frames(t))
    BY <1>5, FeedConcat
  <1>. QED BY <1>3, <1>4, <1>6 DEF s, t

LEMMA InitDrain == SseInit => DrainInv
  <1>. SUFFICES ASSUME SseInit PROVE DrainInv
    OBVIOUS
  <1>. DEFINE B == ToSet(stream.body)
  <1>1. stream.body \in Seq(B) /\ stream \in Stream /\ pos = 0 /\ tail = <<>> /\ acc = Accum
    BY StreamAssumption DEF SseInit
  <1>. HIDE DEF B
  <1>2. pos \in 0 .. Len(stream.body) /\ 0 \in 0 .. pos
    BY <1>1
  <1>3. SubSeq(stream.body, 1, 0) = <<>>
    BY SubSeqEmpty
  <1>4. Drained(0)
    <2>1. SubSeq(stream.body, 0 + 1, 0) = <<>> /\ pos = 0
      BY <1>1, <1>3
    <2>2. FeedAll(Accum, stream.protocol, Frames(SubSeq(stream.body, 1, 0))) = Accum
      BY <1>3, FramesOfNothing, FeedNothing
    <2>. QED BY <1>1, <2>1, <2>2, Zenon DEF Drained
  <1>5. LastFrameBoundary(tail) = 0
    <2>1. tail \in Seq(B) /\ Len(tail) = 0
      BY <1>1
    <2>2. LastFrameBoundary(tail) \in 0 .. 0
      BY <2>1, BoundaryOf
    <2>. QED BY <2>2
  <1>. QED BY <1>1, <1>2, <1>4, <1>5 DEF DrainInv

LEMMA FeedDrain ==
    ASSUME DrainInv, NEW n \in 1 .. Len(stream.body), DrainFeed(n)
    PROVE  DrainInv'
  <1>. DEFINE body == stream.body
              B == ToSet(body)
              e == pos + n
  <1>1. PICK k \in 0 .. pos : Drained(k)
    BY DEF DrainInv
  <1>2. body \in Seq(B) /\ stream \in Stream /\ pos \in 0 .. Len(body) /\ stream' = stream
    BY StreamAssumption DEF DrainInv, DrainFeed
  <1>. HIDE DEF body, B
  <1>3. /\ e \in 0 .. Len(body) /\ pos \in 0 .. e /\ k \in 0 .. e /\ k \in 0 .. pos
        /\ e - k \in Nat
    BY <1>1, <1>2 DEF DrainFeed, body
  <1>. DEFINE joined == SubSeq(body, k + 1, e)
              cut == LastFrameBoundary(joined)
  <1>4. tail \o SubSeq(body, pos + 1, e) = joined
    <2>1. tail = SubSeq(body, k + 1, pos)
      BY <1>1 DEF Drained, body
    <2>. HIDE DEF e
    <2>. QED BY <1>2, <1>3, <2>1, PartsJoin
  <1>5. /\ pos' = e
        /\ acc' = FeedAll(acc, stream.protocol, Frames(SubSeq(joined, 1, cut)))
        /\ tail' = SubSeq(joined, cut + 1, Len(joined))
    BY <1>4 DEF DrainFeed, body
  <1>. HIDE DEF e
  <1>6. joined \in Seq(B) /\ Len(joined) = e - k
    BY <1>2, <1>3, Part
  <1>7. /\ cut \in 0 .. e - k /\ (cut = 0 \/ FrameEnd(joined, cut))
        /\ \A i \in 1 .. e - k : FrameEnd(joined, i) => i <= cut
    BY <1>6, BoundaryOf
  <1>. HIDE DEF cut
  <1>8. SubSeq(joined, 1, cut) = SubSeq(body, k + 1, k + cut)
    <2>1. 0 \in 0 .. cut /\ 0 + 1 = 1 /\ k + 0 = k
      BY <1>3, <1>7
    <2>. QED BY <1>2, <1>3, <1>7, <2>1, PartOfPart
  <1>9. SubSeq(joined, cut + 1, Len(joined)) = SubSeq(body, (k + cut) + 1, e)
    <2>1. cut \in 0 .. e - k /\ e - k \in 0 .. e - k /\ k + (e - k) = e
      BY <1>3, <1>7
    <2>2. SubSeq(joined, cut + 1, e - k) = SubSeq(body, (k + cut) + 1, k + (e - k))
      BY <1>2, <1>3, <2>1, PartOfPart
    <2>. QED BY <1>6, <2>1, <2>2
  <1>10. k + cut \in 0 .. e /\ k + cut \in 0 .. Len(body) /\ k \in 0 .. k + cut
    BY <1>3, <1>7
  <1>11. k + cut = 0 \/ FrameEnd(body, k + cut)
    <2>1. CASE cut = 0
      <3>1. k + cut = k
        BY <1>3, <2>1
      <3>. QED BY <1>1, <3>1 DEF Drained, body
    <2>2. CASE cut # 0
      <3>1. cut \in 1 .. e - k /\ FrameEnd(joined, cut)
        BY <1>7, <2>2
      <3>. QED BY <1>2, <1>3, <3>1, PartFrameEnd
    <2>. QED BY <2>1, <2>2
  <1>12. acc' = FeedAll(Accum, stream.protocol, Frames(SubSeq(body, 1, k + cut)))
    <2>1. acc = FeedAll(Accum, stream.protocol, Frames(SubSeq(body, 1, k)))
      BY <1>1 DEF Drained, body
    <2>2. k = 0 \/ FrameEnd(body, k)
      BY <1>1 DEF Drained, body
    <2>. HIDE DEF joined
    <2>3. acc' = FeedAll(FeedAll(Accum, stream.protocol, Frames(SubSeq(body, 1, k))),
                         stream.protocol, Frames(SubSeq(body, k + 1, k + cut)))
      BY <1>5, <1>8, <2>1, Zenon
    <2>. QED BY <1>2, <1>10, <2>2, <2>3, FeedWhole
  <1>13. PICK j \in 0 .. e : Drained(j)'
    <2>1. body' = body
      BY <1>2 DEF body
    <2>2. PICK m \in 0 .. e : m = k + cut
      BY <1>10
    <2>. HIDE DEF joined
    <2>3. /\ m = 0 \/ FrameEnd(body', m)
          /\ tail' = SubSeq(body', m + 1, pos')
          /\ acc' = FeedAll(Accum, stream'.protocol, Frames(SubSeq(body', 1, m)))
      BY <1>2, <1>5, <1>9, <1>11, <1>12, <2>1, <2>2, Zenon
    <2>4. Drained(m)'
      BY <2>3, Zenon DEF Drained, body
    <2>. QED BY <2>4
  <1>14. LastFrameBoundary(tail') = 0
    <2>. DEFINE t == SubSeq(joined, cut + 1, Len(joined))
    <2>1. cut \in 0 .. Len(joined) /\ Len(joined) \in 0 .. Len(joined) /\ Len(joined) \in Nat
      BY <1>3, <1>6, <1>7
    <2>2. t \in Seq(B) /\ Len(t) = Len(joined) - cut
      BY <1>6, <2>1, Part
    <2>. DEFINE c == LastFrameBoundary(t)
    <2>3. c \in 0 .. Len(t) /\ (c = 0 \/ FrameEnd(t, c))
      BY <2>2, BoundaryOf
    <2>. HIDE DEF c
    <2>4. ASSUME c # 0 PROVE FALSE
      <3>. HIDE DEF t
      <3>1. c \in 1 .. Len(joined) - cut /\ FrameEnd(t, c)
        <4>0. ASSUME NEW l \in Nat, c \in 0 .. l PROVE c \in 1 .. l
          BY <2>4, <4>0
        <4>1. Len(t) \in Nat
          BY <2>2, LenProperties, Zenon
        <4>2. c \in 1 .. Len(t) /\ FrameEnd(t, c)
          BY <2>3, <2>4, <4>0, <4>1, Zenon
        <4>. QED BY <2>2, <4>2, Zenon
      <3>. HIDE DEF joined
      <3>2. FrameEnd(joined, cut + c)
        BY <1>6, <2>1, <3>1, PartFrameEnd DEF t
      <3>3. cut + c \in 1 .. e - k /\ ~(cut + c <= cut)
        BY <1>3, <1>6, <1>7, <3>1
      <3>. QED BY <1>7, <3>2, <3>3 DEF joined
    <2>. QED BY <1>5, <2>4 DEF c
  <1>15. /\ stream' \in Stream /\ pos' \in 0 .. Len(stream'.body)
         /\ \E m \in 0 .. pos' : Drained(m)'
    BY <1>2, <1>3, <1>5, <1>13, Zenon DEF body
  <1>. QED BY <1>14, <1>15, Zenon DEF DrainInv

LEMMA StepDrain == DrainInv /\ [SseNext]_sseVars => DrainInv'
  <1>. SUFFICES ASSUME DrainInv, [SseNext]_sseVars PROVE DrainInv'
    OBVIOUS
  <1>1. CASE SseNext
    BY <1>1, FeedDrain DEF SseNext
  <1>2. CASE UNCHANGED sseVars
    BY <1>2 DEF sseVars, DrainInv, Drained
  <1>. QED BY <1>1, <1>2

LEMMA DrainInvariant == SseSpec => []DrainInv
  BY InitDrain, StepDrain, PTL DEF SseSpec

\* A drain that is finished now has fed all it received.
LEMMA FinishFeedsAll ==
    ASSUME DrainInv
    PROVE  /\ Frames(Received) \in Seq(Seq(Char(ToSet(stream.body))))
           /\ FeedAll(acc, stream.protocol, Frames(tail))
                = FeedAll(Accum, stream.protocol, Frames(Received))
  <1>. DEFINE body == stream.body
              B == ToSet(body)
  <1>1. body \in Seq(B) /\ pos \in 0 .. Len(body)
    BY StreamAssumption DEF DrainInv
  <1>2. PICK k \in 0 .. pos : Drained(k)
    BY DEF DrainInv
  <1>3. /\ k = 0 \/ FrameEnd(body, k)
        /\ tail = SubSeq(body, k + 1, pos)
        /\ acc = FeedAll(Accum, stream.protocol, Frames(SubSeq(body, 1, k)))
    BY <1>2 DEF Drained
  <1>4. Received = SubSeq(body, 1, pos)
    BY DEF Received
  <1>. HIDE DEF body, B
  <1>5. Received \in Seq(B)
    <2>1. 0 \in 0 .. pos /\ 0 + 1 = 1
      BY <1>1
    <2>. QED BY <1>1, <1>4, <2>1, Part
  <1>6. Frames(Received) \in Seq(Seq(Char(B)))
    BY <1>5, FramesType
  <1>7. FeedAll(acc, stream.protocol, Frames(tail))
          = FeedAll(Accum, stream.protocol, Frames(SubSeq(body, 1, pos)))
    BY <1>1, <1>3, FeedWhole
  <1>. QED BY <1>4, <1>6, <1>7 DEF body, B

\* drain_finish: "the outcome equals stream_response on the same concatenated
\* body", for every body, however it is cut into chunks and wherever it ends.
THEOREM DrainAlwaysEqualsWhole == SseSpec => []DrainEqualsWhole
  <1>1. DrainInv => DrainEqualsWhole
    BY FinishFeedsAll DEF DrainEqualsWhole, DrainFinish, StreamResponse
  <1>. QED BY <1>1, DrainInvariant, PTL

\* The drain never retains a complete frame: between two line feeds of the tail
\* that last_frame_boundary left there is always a line that is not blank.
THEOREM TailAlwaysOneFrame == SseSpec => []TailIsOneFrame
  <1>1. DrainInv => TailIsOneFrame
    <2>. SUFFICES ASSUME DrainInv, NEW i \in DOMAIN tail, NEW j \in DOMAIN tail, i < j,
                         tail[i] = LF, tail[j] = LF,
                         StripCr(SubSeq(tail, i + 1, j - 1)) = <<>>
                  PROVE  FALSE
      BY DEF TailIsOneFrame
    <2>. DEFINE body == stream.body
                B == ToSet(body)
    <2>1. body \in Seq(B) /\ pos \in 0 .. Len(body)
      BY StreamAssumption DEF DrainInv
    <2>2. tail \in Seq(B)
      <3>1. PICK k \in 0 .. pos : Drained(k)
        BY DEF DrainInv
      <3>2. tail = SubSeq(body, k + 1, pos)
        BY <3>1 DEF Drained
      <3>. HIDE DEF body, B
      <3>. QED BY <2>1, <3>2, Part
    <2>3. \A m \in 1 .. Len(tail) : ~FrameEnd(tail, m)
      <3>1. LastFrameBoundary(tail) = 0
        BY DEF DrainInv
      <3>. QED BY <2>2, <3>1, BoundaryOf
    <2>. HIDE DEF body, B
    <2>. DEFINE line == SubSeq(tail, i + 1, j - 1)
    <2>4. /\ i \in Nat /\ j \in Nat /\ 1 <= i /\ j <= Len(tail) /\ Len(tail) \in Nat
          /\ i \in 1 .. Len(tail) /\ j \in 1 .. Len(tail)
      BY <2>2
    <2>5. line \in Seq(B) /\ Len(line) = (j - 1) - i
          /\ \A m \in 1 .. (j - 1) - i : line[m] = tail[i + m]
      <3>1. j - 1 \in 0 .. Len(tail) /\ i \in 0 .. j - 1
        BY <2>4
      <3>. QED BY <2>2, <3>1, Part
    <2>6. StripCr(line) = <<>>
      OBVIOUS
    <2>. HIDE DEF line
    <2>7. line = <<>> \/ (Len(line) = 1 /\ line[1] = CR)
      <3>. SUFFICES ASSUME line # <<>> PROVE Len(line) = 1 /\ line[1] = CR
        OBVIOUS
      <3>1. Len(line) \in Nat /\ Len(line) > 0
        BY <2>5
      <3>2. line[Len(line)] = CR /\ SubSeq(line, 1, Len(line) - 1) = <<>>
        BY <2>6 DEF StripCr, Front, Last
      <3>3. Len(SubSeq(line, 1, Len(line) - 1)) = Len(line) - 1
        <4>1. /\ Len(line) - 1 \in 0 .. Len(line) /\ 0 \in 0 .. Len(line) - 1
              /\ 0 + 1 = 1 /\ (Len(line) - 1) - 0 = Len(line) - 1
          BY <3>1
        <4>. QED BY <2>5, <4>1, Part
      <3>4. Len(line) - 1 = 0
        BY <3>2, <3>3
      <3>5. Len(line) = 1
        BY <3>1, <3>4
      <3>. QED BY <3>2, <3>5, Zenon
    <2>8. CASE line = <<>>
      <3>1. j - 1 = i /\ j > 1
        BY <2>4, <2>5, <2>8
      <3>. QED BY <2>3, <2>4, <3>1 DEF FrameEnd
    <2>9. CASE Len(line) = 1 /\ line[1] = CR
      <3>0. (j - 1) - i = 1
        BY <2>5, <2>9, Zenon
      <3>1. j - 2 = i /\ j > 2 /\ i + 1 = j - 1 /\ 1 \in 1 .. (j - 1) - i
        <4>1. ASSUME NEW x \in Nat, NEW y \in Nat, 1 <= x, (y - 1) - x = 1
              PROVE  y - 2 = x /\ y > 2 /\ x + 1 = y - 1 /\ 1 \in 1 .. (y - 1) - x
          BY <4>1
        <4>. QED BY <2>4, <3>0, <4>1, Zenon
      <3>2. tail[j - 1] = CR
        BY <2>5, <2>9, <3>1
      <3>. QED BY <2>3, <2>4, <3>1, <3>2 DEF FrameEnd
    <2>. QED BY <2>7, <2>8, <2>9
  <1>. QED BY <1>1, DrainInvariant, PTL

-----------------------------------------------------------------------------
(* Usage.                                                                  *)

Fields == {"text", "error", "frameErrors", "tools", "pending", "chatTools", "usage"}

LEMMA RuleKeepsUsage ==
    ASSUME NEW a, DOMAIN a = Fields, NEW protocol, NEW e
    PROVE  LET r == ApplySseRule(a, protocol, e)
           IN  DOMAIN r = Fields /\ r.usage = a.usage
  <1>1. DOMAIN ToolOpen(a, e) = Fields /\ ToolOpen(a, e).usage = a.usage
    BY DEF ToolOpen, Fields
  <1>2. DOMAIN ToolArg(a, e) = Fields /\ ToolArg(a, e).usage = a.usage
    BY DEF ToolArg, Fields
  <1>3. DOMAIN ToolClose(a, e) = Fields /\ ToolClose(a, e).usage = a.usage
    BY DEF ToolClose, Fields
  <1>4. DOMAIN ToolDone(a, e) = Fields /\ ToolDone(a, e).usage = a.usage
    BY DEF ToolDone, Fields
  <1>5. DOMAIN ToolChunk(a, e) = Fields /\ ToolChunk(a, e).usage = a.usage
    BY DEF ToolChunk, Fields
  <1>. QED BY <1>1, <1>2, <1>3, <1>4, <1>5, Zenon DEF ApplySseRule

LEMMA TrimType ==
    ASSUME NEW C, NEW data \in Seq(C)
    PROVE  Trim(data) \in Seq(C)
  <1>. DEFINE ink == {i \in DOMAIN data : data[i] \notin {LF, CR}}
  <1>1. ink \in SUBSET Nat /\ Len(data) \in Nat /\ \A x \in ink : x <= Len(data)
    OBVIOUS
  <1>2. \A x \in ink : x \in 1 .. Len(data)
    OBVIOUS
  <1>3. CASE ink = {}
    BY <1>3 DEF Trim
  <1>4. CASE ink # {}
    <2>. HIDE DEF ink
    <2>1. \E x \in ink : \A y \in ink : x <= y
      BY <1>1, <1>4, LeastNat
    <2>2. \E x \in ink : \A y \in ink : y <= x
      BY <1>1, <1>4, GreatestNat
    <2>3. Min(ink) \in ink
      BY <2>1, Zenon DEF Min
    <2>4. \E x \in ink : \A y \in ink : x >= y
      BY <1>1, <2>2
    <2>5. Max(ink) \in ink
      BY <2>4, Zenon DEF Max
    <2>. DEFINE lo == Min(ink)
                hi == Max(ink)
    <2>6. lo \in 1 .. Len(data) /\ hi \in 1 .. Len(data)
      BY <1>2, <2>3, <2>5
    <2>. HIDE DEF lo, hi
    <2>7. lo \in Int /\ hi \in Int /\ \A i \in lo .. hi : data[i] \in C
      BY <1>1, <2>6
    <2>8. SubSeq(data, lo, hi) \in Seq(C)
      BY <2>7, SubSeqProperties
    <2>9. Trim(data) = SubSeq(data, lo, hi)
      BY <1>4 DEF Trim, ink, lo, hi
    <2>. QED BY <2>8, <2>9
  <1>. QED BY <1>3, <1>4

\* An event is neither blank nor text.
LEMMA EventKinds ==
    ASSUME NEW C, NEW payload \in Seq(C), IsEvent(payload)
    PROVE  ~Skipped(payload) /\ ~IsText(payload)
  <1>1. Len(payload) = 1 /\ 1 \in DOMAIN payload
        /\ (payload[1] = ErrorFrame \/ Len(payload[1]) > 1)
    BY DEF IsEvent
  <1>2. \A t \in TextByte \cup {Done} : t # ErrorFrame /\ ~(Len(t) > 1)
    <2>1. ASSUME NEW t \in {"x", "char", "fffd", "[DONE]"}
          PROVE  <<t>> # <<"error">> /\ Len(<<t>>) = 1
      OBVIOUS
    <2>2. ASSUME NEW t \in TextByte \cup {Done}
          PROVE  \E z \in {"x", "char", "fffd", "[DONE]"} : t = <<z>>
      BY DEF TextByte, Done
    <2>3. ASSUME NEW t \in TextByte \cup {Done} PROVE t # ErrorFrame /\ Len(t) = 1
      BY <2>1, <2>2, Zenon DEF ErrorFrame
    <2>4. ~(1 > 1)
      OBVIOUS
    <2>. QED BY <2>3, <2>4, Zenon
  <1>3. payload[1] \notin TextByte \cup {Done}
    BY <1>1, <1>2
  <1>4. payload # <<>> /\ payload # <<Done>>
    <2>1. <<Done>>[1] = Done
      OBVIOUS
    <2>2. payload # <<>>
      BY <1>1
    <2>. QED BY <1>3, <2>1, <2>2
  <1>5. ~IsText(payload)
    BY <1>1, <1>3 DEF IsText, ToSet
  <1>. QED BY <1>4, <1>5 DEF Skipped

SameTurn(a, b) == a.tools = b.tools /\ a.pending = b.pending /\ a.usage = b.usage

\* What an event does to the tools and the usage; no other payload changes them.
LEMMA FeedFrameForms ==
    ASSUME NEW a, DOMAIN a = Fields, NEW protocol, NEW C, NEW data \in Seq(C)
    PROVE  LET f == FeedFrame(a, protocol, data)
               payload == Trim(data)
               e == payload[1]
           IN  /\ DOMAIN f = Fields /\ payload \in Seq(C)
               /\ ~IsEvent(payload) => SameTurn(f, a)
               /\ IsEvent(payload) =>
                    \E b : /\ DOMAIN b = Fields /\ SameTurn(b, a)
                           /\ f.tools = ApplySseRule(b, protocol, e).tools
                           /\ f.pending = ApplySseRule(b, protocol, e).pending
                           /\ f.usage = IF e[1] # "usage" THEN a.usage
                                        ELSE MergeUsage(a.usage, UsageFromObj(protocol, e[2]))
  <1>. DEFINE payload == Trim(data)
              e == payload[1]
              b == [a EXCEPT !.error = @ \/ ErrorMarker(protocol, e)]
              r == ApplySseRule(b, protocol, e)
              u == IF e[1] # "usage" THEN r.usage
                   ELSE MergeUsage(r.usage, UsageFromObj(protocol, e[2]))
              x == [r EXCEPT !.usage = u]
              t == [a EXCEPT !.text = @ \o payload]
              w == [a EXCEPT !.frameErrors = @ + 1]
              f == FeedFrame(a, protocol, data)
  <1>0. payload \in Seq(C)
    BY TrimType
  <1>. HIDE DEF payload, e
  <1>1. DOMAIN b = Fields /\ SameTurn(b, a)
    BY DEF Fields, SameTurn
  <1>. HIDE DEF b
  <1>2. DOMAIN r = Fields /\ r.usage = b.usage
    BY <1>1, RuleKeepsUsage
  <1>. HIDE DEF r
  <1>. HIDE DEF u
  <1>3. DOMAIN x = Fields /\ x.usage = u /\ x.tools = r.tools /\ x.pending = r.pending
    BY <1>2 DEF Fields
  <1>4. DOMAIN t = Fields /\ SameTurn(t, a)
    BY DEF Fields, SameTurn
  <1>5. DOMAIN w = Fields /\ SameTurn(w, a)
    BY DEF Fields, SameTurn
  <1>6. f = CASE Skipped(payload) -> a
              [] ~Skipped(payload) /\ IsText(payload) -> t
              [] ~Skipped(payload) /\ IsEvent(payload) -> x
              [] OTHER -> w
    BY DEF FeedFrame, payload, e, b, r, u
  <1>. HIDE DEF f, x, t, w
  <1>7. CASE IsEvent(payload)
    <2>1. f = x
      <3>1. ~Skipped(payload) /\ ~IsText(payload)
        BY <1>0, <1>7, EventKinds
      <3>. QED BY <1>6, <1>7, <3>1
    <2>2. u = IF e[1] # "usage" THEN a.usage
              ELSE MergeUsage(a.usage, UsageFromObj(protocol, e[2]))
      BY <1>1, <1>2, Zenon DEF u, SameTurn
    <2>. QED BY <1>0, <1>1, <1>3, <1>7, <2>1, <2>2, Zenon DEF f, payload, e, r
  <1>8. CASE ~IsEvent(payload)
    <2>1. f = a \/ f = t \/ f = w
      BY <1>6, <1>8
    <2>2. SameTurn(a, a)
      BY DEF SameTurn
    <2>. QED BY <1>0, <1>4, <1>5, <1>8, <2>1, <2>2, Zenon DEF f, payload
  <1>. QED BY <1>7, <1>8, Zenon

LEMMA FeedFrameUsage ==
    ASSUME NEW a, DOMAIN a = Fields, NEW protocol, NEW C, NEW data \in Seq(C)
    PROVE  LET r == FeedFrame(a, protocol, data)
               payload == Trim(data)
           IN  /\ DOMAIN r = Fields
               /\ r.usage = IF EventOf(payload, "usage")
                              THEN MergeUsage(a.usage, UsageFromObj(protocol, payload[1][2]))
                              ELSE a.usage
  <1>. DEFINE f == FeedFrame(a, protocol, data)
              payload == Trim(data)
              e == payload[1]
  <1>1. /\ DOMAIN f = Fields
        /\ ~IsEvent(payload) => f.usage = a.usage
        /\ IsEvent(payload) =>
             f.usage = IF e[1] # "usage" THEN a.usage
                       ELSE MergeUsage(a.usage, UsageFromObj(protocol, e[2]))
    <2>1. /\ DOMAIN f = Fields
          /\ ~IsEvent(payload) => SameTurn(f, a)
          /\ IsEvent(payload) =>
               \E b : /\ DOMAIN b = Fields /\ SameTurn(b, a)
                      /\ f.tools = ApplySseRule(b, protocol, e).tools
                      /\ f.pending = ApplySseRule(b, protocol, e).pending
                      /\ f.usage = IF e[1] # "usage" THEN a.usage
                                   ELSE MergeUsage(a.usage, UsageFromObj(protocol, e[2]))
      BY FeedFrameForms
    <2>. HIDE DEF f, payload, e
    <2>. QED BY <2>1, Zenon DEF SameTurn
  <1>. HIDE DEF f, payload
  <1>2. f.usage = IF EventOf(payload, "usage")
                    THEN MergeUsage(a.usage, UsageFromObj(protocol, e[2])) ELSE a.usage
    BY <1>1, Zenon DEF EventOf
  <1>. QED BY <1>1, <1>2 DEF f, payload

\* What the first n frames report.
ReportsUpTo(payloads, n) == {k \in EventsOf(payloads, "usage") : k <= n}
ReportingUpTo(payloads, n, b) ==
    {k \in ReportsUpTo(payloads, n) : b \in DOMAIN Reported(payloads, k)}
UsageUpTo(usage, protocol, payloads, n) ==
    /\ DOMAIN usage = UNION {DOMAIN Reported(payloads, k) : k \in ReportsUpTo(payloads, n)}
    /\ \A b \in DOMAIN usage :
         usage[b] = UsageFromObj(protocol,
                                 Reported(payloads, Max(ReportingUpTo(payloads, n, b))))[b]

LEMMA UsageStep ==
    ASSUME NEW usage, NEW protocol, NEW payloads, NEW n \in Nat, DOMAIN payloads = 1 .. n,
           NEW m \in 0 .. n - 1, UsageUpTo(usage, protocol, payloads, m)
    PROVE  UsageUpTo(IF EventOf(payloads[m + 1], "usage")
                       THEN MergeUsage(usage, UsageFromObj(protocol, payloads[m + 1][1][2]))
                       ELSE usage,
                     protocol, payloads, m + 1)
  <1>. DEFINE Old == ReportsUpTo(payloads, m)
              New == ReportsUpTo(payloads, m + 1)
              next == Reported(payloads, m + 1)
  <1>0. m \in Nat /\ m + 1 \in 1 .. n
    OBVIOUS
  <1>1. (m + 1 \in EventsOf(payloads, "usage")) <=> EventOf(payloads[m + 1], "usage")
    BY <1>0 DEF EventsOf, EventOf
  <1>2. EventsOf(payloads, "usage") \subseteq 1 .. n
    BY DEF EventsOf, EventOf
  <1>3. CASE ~EventOf(payloads[m + 1], "usage")
    <2>1. New = Old
      BY <1>0, <1>1, <1>2, <1>3 DEF ReportsUpTo
    <2>2. \A b : ReportingUpTo(payloads, m + 1, b) = ReportingUpTo(payloads, m, b)
      BY <2>1, Zenon DEF ReportingUpTo
    <2>3. UsageUpTo(usage, protocol, payloads, m + 1)
      BY <2>1, <2>2, Zenon DEF UsageUpTo
    <2>. QED BY <1>3, <2>3
  <1>4. CASE EventOf(payloads[m + 1], "usage")
    <2>1. New = Old \cup {m + 1} /\ m + 1 \in New
      BY <1>0, <1>1, <1>2, <1>4 DEF ReportsUpTo
    <2>. DEFINE v == UsageFromObj(protocol, next)
                w == MergeUsage(usage, v)
                dom(k) == DOMAIN Reported(payloads, k)
    <2>2. DOMAIN v = DOMAIN next
      BY DEF UsageFromObj
    <2>. HIDE DEF v
    <2>3. /\ DOMAIN w = DOMAIN usage \cup DOMAIN next
          /\ \A b \in DOMAIN w : w[b] = IF b \in DOMAIN next THEN v[b] ELSE usage[b]
      BY <2>2 DEF MergeUsage
    <2>. HIDE DEF w
    <2>4. DOMAIN w = UNION {dom(k) : k \in New}
      <3>1. DOMAIN usage = UNION {dom(k) : k \in Old}
        BY DEF UsageUpTo
      <3>. HIDE DEF Old, New
      <3>. QED BY <2>1, <2>3, <3>1
    <2>5. ASSUME NEW b \in DOMAIN w
          PROVE  w[b] = UsageFromObj(protocol,
                          Reported(payloads, Max(ReportingUpTo(payloads, m + 1, b))))[b]
      <3>. DEFINE T == ReportingUpTo(payloads, m + 1, b)
      <3>1. CASE b \in DOMAIN next
        <4>1. m + 1 \in T
          BY <2>1, <3>1 DEF ReportingUpTo
        <4>2. T \subseteq 0 .. m + 1
          BY <1>0, <1>2 DEF ReportingUpTo, ReportsUpTo
        <4>. HIDE DEF T
        <4>3. /\ \A y \in T : m + 1 >= y
              /\ \A x \in T : (\A y \in T : x >= y) => x = m + 1
          BY <1>0, <4>1, <4>2
        <4>4. Max(T) = m + 1
          BY <4>1, <4>3, Zenon DEF Max
        <4>5. w[b] = v[b]
          BY <2>3, <3>1
        <4>. QED BY <4>4, <4>5 DEF T, v
      <3>2. CASE b \notin DOMAIN next
        <4>1. T = ReportingUpTo(payloads, m, b)
          BY <2>1, <3>2 DEF ReportingUpTo
        <4>2. w[b] = usage[b] /\ b \in DOMAIN usage
          BY <2>3, <3>2
        <4>. HIDE DEF T
        <4>. QED BY <4>1, <4>2, Zenon DEF UsageUpTo, T
      <3>. QED BY <3>1, <3>2
    <2>6. UsageUpTo(w, protocol, payloads, m + 1)
      BY <2>4, <2>5 DEF UsageUpTo
    <2>. QED BY <1>4, <2>6, Zenon DEF w, v, Reported
  <1>. QED BY <1>3, <1>4

LEMMA UsageFed ==
    ASSUME NEW C, NEW frames \in Seq(Seq(C)), NEW protocol
    PROVE  UsageUpTo(FeedAll(Accum, protocol, frames).usage, protocol, Payloads(frames),
                     Len(frames))
  <1>. DEFINE n == Len(frames)
              P == Payloads(frames)
  <1>1. n \in Nat /\ DOMAIN P = 1 .. n /\ \A k \in 1 .. n : P[k] = Trim(frames[k])
    BY DEF Payloads
  <1>2. PICK f : Feeding(f, Accum, protocol, frames, n) /\ FeedAll(Accum, protocol, frames) = f[n]
    BY <1>1, FeedSteps
  <1>. HIDE DEF n, P
  <1>. DEFINE Q(k) == DOMAIN f[k] = Fields /\ UsageUpTo(f[k].usage, protocol, P, k)
              S == {k \in Nat : k <= n => Q(k)}
  <1>3. 0 \in S
    <2>1. f[0] = Accum
      BY <1>2 DEF Feeding
    <2>2. DOMAIN Accum = Fields /\ Accum.usage = <<>> /\ DOMAIN <<>> = {}
      BY DEF Accum, Fields
    <2>3. ReportsUpTo(P, 0) = {}
      BY <1>1 DEF ReportsUpTo, EventsOf, EventOf
    <2>4. UsageUpTo(Accum.usage, protocol, P, 0)
      BY <2>2, <2>3 DEF UsageUpTo
    <2>. QED BY <2>1, <2>2, <2>4
  <1>4. ASSUME NEW k \in S PROVE k + 1 \in S
    <2>. SUFFICES ASSUME k + 1 <= n PROVE Q(k + 1)
      <3>. HIDE DEF Q
      <3>. QED OBVIOUS
    <2>1. k \in 0 .. n - 1 /\ k + 1 \in 1 .. n /\ (k + 1) - 1 = k /\ Q(k)
      <3>. HIDE DEF Q
      <3>. QED BY <1>1
    <2>2. f[k + 1] = FeedFrame(f[(k + 1) - 1], protocol, frames[k + 1])
      BY <1>2, <2>1, Zenon DEF Feeding
    <2>3. f[k + 1] = FeedFrame(f[k], protocol, frames[k + 1])
      BY <2>1, <2>2
    <2>4. P[k + 1] = Trim(frames[k + 1])
      BY <1>1, <2>1
    <2>. DEFINE a == f[k]
    <2>5. DOMAIN a = Fields /\ UsageUpTo(a.usage, protocol, P, k)
      BY <2>1
    <2>. HIDE DEF a
    <2>6. /\ DOMAIN f[k + 1] = Fields
          /\ f[k + 1].usage
               = IF EventOf(P[k + 1], "usage")
                   THEN MergeUsage(a.usage, UsageFromObj(protocol, P[k + 1][1][2]))
                   ELSE a.usage
      <3>. DEFINE x == FeedFrame(a, protocol, frames[k + 1])
      <3>1. /\ DOMAIN x = Fields
            /\ x.usage = IF EventOf(Trim(frames[k + 1]), "usage")
                           THEN MergeUsage(a.usage, UsageFromObj(protocol,
                                                      Trim(frames[k + 1])[1][2]))
                           ELSE a.usage
        <4>1. frames[k + 1] \in Seq(C)
          BY <2>1 DEF n
        <4>. QED BY <2>5, <4>1, FeedFrameUsage
      <3>2. f[k + 1] = x
        BY <2>3 DEF a
      <3>. HIDE DEF x
      <3>. QED BY <2>4, <3>1, <3>2
    <2>7. UsageUpTo(IF EventOf(P[k + 1], "usage")
                      THEN MergeUsage(a.usage, UsageFromObj(protocol, P[k + 1][1][2]))
                      ELSE a.usage, protocol, P, k + 1)
      BY <1>1, <2>1, <2>5, UsageStep
    <2>. QED BY <2>6, <2>7, Zenon
  <1>. HIDE DEF S, Q
  <1>5. S = Nat
    BY <1>3, <1>4, SetInduction DEF S
  <1>6. Q(n)
    BY <1>1, <1>5 DEF S
  <1>. QED BY <1>2, <1>6 DEF Q, n, P

\* merge_usage loses nothing: every bucket a stream reported is in its usage with
\* the last count reported, for every stream, however it is cut or broken off.
THEOREM UsageAlwaysComplete == SseSpec => []UsageComplete
  <1>1. DrainInv => UsageComplete
    <2>. SUFFICES ASSUME DrainInv PROVE UsageComplete
      OBVIOUS
    <2>. DEFINE frames == Frames(Received)
                P == Payloads(frames)
                n == Len(frames)
                protocol == stream.protocol
                usage == FeedAll(Accum, protocol, frames).usage
    <2>1. frames \in Seq(Seq(Char(ToSet(stream.body))))
      BY FinishFeedsAll
    <2>2. DrainFinish.usage = usage
      <3>1. FeedAll(acc, protocol, Frames(tail)) = FeedAll(Accum, protocol, frames)
        BY FinishFeedsAll
      <3>2. ASSUME NEW a PROVE FinishAccum(a, protocol).usage = a.usage
        BY DEF FinishAccum
      <3>. QED BY <3>1, <3>2, Zenon DEF DrainFinish
    <2>. HIDE DEF frames
    <2>3. UsageUpTo(usage, protocol, P, n)
      BY <2>1, UsageFed
    <2>4. ReportsUpTo(P, n) = EventsOf(P, "usage")
      <3>1. DOMAIN P = 1 .. n /\ n \in Nat
        BY <2>1 DEF Payloads
      <3>. HIDE DEF P, n
      <3>. QED BY <3>1 DEF ReportsUpTo, EventsOf, EventOf
    <2>. HIDE DEF P, n, usage, protocol
    <2>5. /\ DOMAIN usage = UNION {DOMAIN Reported(P, k) : k \in EventsOf(P, "usage")}
          /\ \A b \in DOMAIN usage :
               usage[b] = UsageFromObj(protocol,
                 Reported(P, Max({k \in EventsOf(P, "usage") : b \in DOMAIN Reported(P, k)})))[b]
      BY <2>3, <2>4, Zenon DEF UsageUpTo, ReportingUpTo
    <2>. QED BY <2>2, <2>5, Zenon DEF UsageComplete, P, protocol, frames
  <1>. QED BY <1>1, DrainInvariant, PTL

-----------------------------------------------------------------------------
(* Tools.                                                                  *)

\* s is the sequence of the members of S, in their order.
Listing(s, S) ==
    /\ s \in Seq(S)
    /\ \A i, j \in 1 .. Len(s) : i < j => s[i] < s[j]
    /\ \A x \in S : \E i \in 1 .. Len(s) : s[i] = x

LEMMA ListingAppend ==
    ASSUME NEW S \in SUBSET Nat, NEW s, Listing(s, S), NEW x \in Nat, \A y \in S : y < x
    PROVE  /\ Listing(Append(s, x), S \cup {x})
           /\ Len(Append(s, x)) = Len(s) + 1
           /\ \A i \in 1 .. Len(s) : Append(s, x)[i] = s[i]
           /\ Append(s, x)[Len(s) + 1] = x
  <1>. DEFINE t == Append(s, x)
              n == Len(s)
              T == S \cup {x}
  <1>1. s \in Seq(S) /\ n \in Nat /\ \A i \in 1 .. n : s[i] \in S
    BY DEF Listing
  <1>2. s \in Seq(T)
    BY <1>1, SeqMonotonic
  <1>3. t \in Seq(T) /\ Len(t) = n + 1 /\ t[n + 1] = x /\ \A i \in 1 .. n : t[i] = s[i]
    BY <1>2, AppendProperties
  <1>. HIDE DEF t, n, T
  <1>4. ASSUME NEW i \in 1 .. n + 1, NEW j \in 1 .. n + 1, i < j PROVE t[i] < t[j]
    <2>1. i \in 1 .. n /\ t[i] = s[i] /\ s[i] \in S
      BY <1>1, <1>3, <1>4
    <2>2. CASE j = n + 1
      BY <1>3, <2>1, <2>2
    <2>3. CASE j # n + 1
      <3>1. j \in 1 .. n /\ t[j] = s[j]
        BY <1>1, <1>3, <2>3
      <3>2. s[i] < s[j]
        BY <1>4, <2>1, <3>1 DEF Listing, n
      <3>. QED BY <2>1, <3>1, <3>2
    <2>. QED BY <2>2, <2>3
  <1>5. ASSUME NEW y \in T PROVE \E i \in 1 .. n + 1 : t[i] = y
    <2>1. CASE y = x
      BY <1>1, <1>3, <2>1
    <2>2. CASE y \in S
      <3>1. PICK i \in 1 .. n : s[i] = y
        BY <2>2 DEF Listing, n
      <3>. QED BY <1>1, <1>3, <3>1
    <2>. QED BY <2>1, <2>2 DEF T
  <1>6. Listing(t, T)
    BY <1>3, <1>4, <1>5 DEF Listing
  <1>. QED BY <1>3, <1>6 DEF t, n, T

LEMMA ListingMembers ==
    ASSUME NEW S, NEW s, Listing(s, S)
    PROVE  s \in Seq(S) /\ Len(s) \in Nat /\ \A i \in 1 .. Len(s) : s[i] \in S
  BY DEF Listing

LEMMA ListingNothing == Listing(<<>>, {}) /\ Len(<<>>) = 0
  BY DEF Listing

LEMMA ListingInOrder ==
    ASSUME NEW S \in SUBSET Nat, NEW s, Listing(s, S)
    PROVE  s \in InOrder(S) /\ DOMAIN s = 1 .. Len(s)
  <1>. DEFINE n == Len(s)
  <1>1. s \in Seq(S) /\ n \in Nat /\ DOMAIN s = 1 .. n /\ s \in [1 .. n -> S]
    BY DEF Listing
  <1>. HIDE DEF n
  <1>2. \A i, j \in 1 .. n : i < j => s[i] < s[j]
    BY DEF Listing, n
  <1>3. IsInjective(s)
    <2>. SUFFICES ASSUME NEW i \in 1 .. n, NEW j \in 1 .. n, s[i] = s[j] PROVE i = j
      BY <1>1 DEF IsInjective
    <2>1. s[i] \in Nat /\ s[j] \in Nat /\ i \in Nat /\ j \in Nat
      <3>1. s[i] \in S /\ s[j] \in S
        BY <1>1, Zenon
      <3>2. i \in Nat /\ j \in Nat
        BY <1>1
      <3>. QED BY <3>1, <3>2
    <2>2. ~(i < j) /\ ~(j < i)
      BY <1>2, <2>1
    <2>. QED BY <2>1, <2>2
  <1>4. s \in Surjection(1 .. n, S)
    <2>1. \A x \in S : \E i \in 1 .. n : s[i] = x
      BY DEF Listing, n
    <2>. QED BY <1>1, <2>1, Zenon DEF Surjection
  <1>5. s \in Injection(1 .. n, S)
    BY <1>1, <1>3, Zenon DEF Injection
  <1>6. ExistsBijection(1 .. n, S)
    BY <1>4, <1>5, Zenon DEF ExistsBijection, Bijection
  <1>7. Cardinality(S) = n
    BY <1>1, <1>6, FS_CountingElements
  <1>. QED BY <1>1, <1>2, <1>7, Zenon DEF InOrder, n

\* The calls of an accumulator, with the one that is still open.
Calls(a) == IF a.pending = NoTool THEN a.tools ELSE Append(a.tools, a.pending.call)

CallOf(C)    == [name : {e[3] : e \in C}, args : Seq({e[3] : e \in C})]
PendingOf(C) == [index : {e[2] : e \in C}, call : CallOf(C)]
ToolsType(a, C) ==
    /\ DOMAIN a = Fields /\ a.tools \in Seq(CallOf(C))
    /\ a.pending = NoTool \/ a.pending \in PendingOf(C)

LEMMA PendingIsTool == ASSUME NEW C, NEW p \in PendingOf(C) PROVE p # NoTool
  <1>1. DOMAIN p = {"index", "call"} /\ DOMAIN NoTool = {}
    BY DEF PendingOf, NoTool
  <1>. QED BY <1>1

LEMMA CallsType ==
    ASSUME NEW C, NEW a, ToolsType(a, C)
    PROVE  /\ Calls(a) \in Seq(CallOf(C))
           /\ a.pending = NoTool => Calls(a) = a.tools
           /\ a.pending # NoTool =>
                /\ a.pending \in PendingOf(C) /\ a.pending.call \in CallOf(C)
                /\ Calls(a) = Append(a.tools, a.pending.call)
                /\ Len(Calls(a)) = Len(a.tools) + 1
                /\ \A i \in 1 .. Len(a.tools) : Calls(a)[i] = a.tools[i]
                /\ Calls(a)[Len(a.tools) + 1] = a.pending.call
  <1>1. a.tools \in Seq(CallOf(C))
    BY DEF ToolsType
  <1>2. CASE a.pending = NoTool
    BY <1>1, <1>2 DEF Calls
  <1>3. CASE a.pending # NoTool
    <2>1. a.pending \in PendingOf(C)
      BY <1>3 DEF ToolsType
    <2>2. a.pending.call \in CallOf(C)
      BY <2>1 DEF PendingOf
    <2>. DEFINE c == a.pending.call
                t == a.tools
    <2>3. c \in CallOf(C) /\ t \in Seq(CallOf(C)) /\ Calls(a) = Append(t, c)
      BY <1>1, <1>3, <2>2 DEF Calls
    <2>. HIDE DEF c, t
    <2>4. /\ Append(t, c) \in Seq(CallOf(C)) /\ Len(Append(t, c)) = Len(t) + 1
          /\ \A i \in 1 .. Len(t) : Append(t, c)[i] = t[i] /\ Append(t, c)[Len(t) + 1] = c
      BY <2>3, AppendProperties
    <2>5. Append(t, c)[Len(t) + 1] = c
      BY <2>3, AppendProperties
    <2>. QED BY <1>3, <2>1, <2>3, <2>4, <2>5 DEF c, t
  <1>. QED BY <1>2, <1>3

\* The event is for the tool that is open.
Matches(a, e) == a.pending # NoTool /\ a.pending.index = e[2]

\* What a frame of an anthropic stream does to the tools.
OpensTool(f, a, e) ==
    f.tools = Calls(a) /\ f.pending = [index |-> e[2], call |-> Call(e[3], <<>>)]
ExtendsTool(f, a, e) ==
    /\ f.tools = a.tools /\ f.pending # NoTool
    /\ f.pending.index = a.pending.index /\ f.pending.call.name = a.pending.call.name
    /\ f.pending.call.args = Append(a.pending.call.args, e[3])
ClosesTool(f, a) == f.tools = Calls(a) /\ f.pending = NoTool

LEMMA FeedFrameTools ==
    ASSUME NEW C, NEW a, ToolsType(a, C), NEW data \in Seq(C)
    PROVE  LET f == FeedFrame(a, "anthropic", data)
               payload == Trim(data)
               e == payload[1]
           IN  /\ ToolsType(f, C)
               /\ EventOf(payload, "open") => OpensTool(f, a, e)
               /\ EventOf(payload, "arg") /\ Matches(a, e) => ExtendsTool(f, a, e)
               /\ EventOf(payload, "close") /\ Matches(a, e) => ClosesTool(f, a)
               /\ \/ EventOf(payload, "open")
                  \/ (EventOf(payload, "arg") \/ EventOf(payload, "close")) /\ Matches(a, e)
                  \/ f.tools = a.tools /\ f.pending = a.pending
  <1>. DEFINE f == FeedFrame(a, "anthropic", data)
              payload == Trim(data)
              e == payload[1]
  <1>1. /\ DOMAIN f = Fields /\ payload \in Seq(C)
        /\ ~IsEvent(payload) => SameTurn(f, a)
        /\ IsEvent(payload) =>
             \E b : /\ DOMAIN b = Fields /\ SameTurn(b, a)
                    /\ f.tools = ApplySseRule(b, "anthropic", e).tools
                    /\ f.pending = ApplySseRule(b, "anthropic", e).pending
    <2>1. DOMAIN a = Fields
      BY DEF ToolsType
    <2>2. /\ DOMAIN f = Fields /\ payload \in Seq(C)
          /\ ~IsEvent(payload) => SameTurn(f, a)
          /\ IsEvent(payload) =>
               \E b : /\ DOMAIN b = Fields /\ SameTurn(b, a)
                      /\ f.tools = ApplySseRule(b, "anthropic", e).tools
                      /\ f.pending = ApplySseRule(b, "anthropic", e).pending
                      /\ f.usage = IF e[1] # "usage" THEN a.usage
                                   ELSE MergeUsage(a.usage, UsageFromObj("anthropic", e[2]))
      BY <2>1, FeedFrameForms
    <2>. HIDE DEF f, payload, e
    <2>. QED BY <2>2, Zenon
  <1>. HIDE DEF f, payload
  <1>2. CASE ~IsEvent(payload)
    <2>1. f.tools = a.tools /\ f.pending = a.pending
      BY <1>1, <1>2 DEF SameTurn
    <2>2. ToolsType(f, C)
      BY <1>1, <2>1, Zenon DEF ToolsType
    <2>. QED BY <1>2, <2>1, <2>2, Zenon DEF EventOf, f, payload
  <1>3. CASE IsEvent(payload)
    <2>1. PICK b : /\ DOMAIN b = Fields /\ SameTurn(b, a)
                   /\ f.tools = ApplySseRule(b, "anthropic", e).tools
                   /\ f.pending = ApplySseRule(b, "anthropic", e).pending
      BY <1>1, <1>3
    <2>2. \A type : EventOf(payload, type) <=> e[1] = type
      BY <1>3, Zenon DEF EventOf
    <2>3. e \in C
      <3>1. Len(payload) = 1
        BY <1>3 DEF IsEvent
      <3>. QED BY <1>1, <3>1
    <2>. HIDE DEF e
    <2>4. b.tools = a.tools /\ b.pending = a.pending
      BY <2>1 DEF SameTurn
    <2>5. "tools" \in DOMAIN b /\ "pending" \in DOMAIN b /\ "tools" # "pending"
      BY <2>1 DEF Fields
    <2>6. a.tools \in Seq(CallOf(C)) /\ Calls(a) \in Seq(CallOf(C))
      BY CallsType DEF ToolsType
    <2>7. CASE e[1] = "open"
      <3>1. ApplySseRule(b, "anthropic", e) = ToolOpen(b, e)
        BY <2>7 DEF ApplySseRule
      <3>2. OpensTool(f, a, e)
        <4>. DEFINE p == [index |-> e[2], call |-> Call(e[3], <<>>)]
                    t == IF b.pending = NoTool THEN b.tools ELSE Append(b.tools, b.pending.call)
        <4>1. ToolOpen(b, e) = [b EXCEPT !.tools = t, !.pending = p]
          BY DEF ToolOpen
        <4>2. t = Calls(a)
          BY <2>4 DEF Calls
        <4>. HIDE DEF p, t
        <4>3. ToolOpen(b, e).tools = t /\ ToolOpen(b, e).pending = p
          BY <2>5, <4>1
        <4>. QED BY <2>1, <3>1, <4>2, <4>3 DEF OpensTool, p
      <3>3. [index |-> e[2], call |-> Call(e[3], <<>>)] \in PendingOf(C)
        <4>1. e[2] \in {x[2] : x \in C} /\ e[3] \in {x[3] : x \in C}
          BY <2>3
        <4>2. Call(e[3], <<>>) \in CallOf(C)
          BY <4>1 DEF Call, CallOf
        <4>. QED BY <4>1, <4>2 DEF PendingOf
      <3>4. ToolsType(f, C)
        BY <1>1, <2>6, <3>2, <3>3, Zenon DEF ToolsType, OpensTool
      <3>5. EventOf(payload, "open") /\ ~EventOf(payload, "arg") /\ ~EventOf(payload, "close")
        BY <2>2, <2>7
      <3>. QED BY <3>2, <3>4, <3>5, Zenon DEF f, payload, e
    <2>8. CASE e[1] = "arg" /\ Matches(a, e)
      <3>1. ApplySseRule(b, "anthropic", e) = ToolArg(b, e)
        BY <2>8 DEF ApplySseRule
      <3>. DEFINE q == a.pending
      <3>2. q \in PendingOf(C) /\ b.pending = q /\ q # NoTool /\ q.index = e[2]
        BY <2>4, <2>8 DEF Matches, ToolsType
      <3>. DEFINE c == q.call
      <3>3. c \in CallOf(C)
        BY <3>2 DEF PendingOf
      <3>. DEFINE x == Append(c.args, e[3])
                  d == [c EXCEPT !.args = x]
                  p == [q EXCEPT !.call = d]
      <3>4. x \in Seq({y[3] : y \in C})
        <4>1. c.args \in Seq({y[3] : y \in C}) /\ e[3] \in {y[3] : y \in C}
          BY <2>3, <3>3 DEF CallOf
        <4>. QED BY <4>1
      <3>5. ToolArg(b, e) = [b EXCEPT !.pending = p]
        BY <3>2 DEF ToolArg
      <3>. HIDE DEF x, c, q
      <3>6. d \in CallOf(C) /\ d.name = c.name /\ d.args = x
        BY <3>3, <3>4 DEF CallOf
      <3>. HIDE DEF d
      <3>7. p \in PendingOf(C) /\ p.index = q.index /\ p.call = d
        BY <3>2, <3>6 DEF PendingOf
      <3>. HIDE DEF p
      <3>8. ToolArg(b, e).tools = b.tools /\ ToolArg(b, e).pending = p
        BY <2>5, <3>5
      <3>9. f.tools = a.tools /\ f.pending = p
        BY <2>1, <2>4, <3>1, <3>8
      <3>10. ToolsType(f, C)
        BY <1>1, <2>6, <3>7, <3>9, Zenon DEF ToolsType
      <3>11. ExtendsTool(f, a, e)
        <4>1. p # NoTool
          BY <3>7, PendingIsTool
        <4>. QED BY <3>6, <3>7, <3>9, <4>1 DEF ExtendsTool, x, c, q
      <3>12. EventOf(payload, "arg") /\ ~EventOf(payload, "open") /\ ~EventOf(payload, "close")
        BY <2>2, <2>8
      <3>. QED BY <2>8, <3>10, <3>11, <3>12, Zenon DEF f, payload, e
    <2>9. CASE e[1] = "close" /\ Matches(a, e)
      <3>1. ApplySseRule(b, "anthropic", e) = ToolClose(b, e)
        BY <2>9 DEF ApplySseRule
      <3>. DEFINE t == Append(b.tools, b.pending.call)
      <3>2. ToolClose(b, e) = [b EXCEPT !.tools = t, !.pending = NoTool]
        BY <2>4, <2>9 DEF ToolClose, Matches
      <3>3. t = Calls(a)
        BY <2>4, <2>9 DEF Calls, Matches
      <3>. HIDE DEF t
      <3>4. ToolClose(b, e).tools = t /\ ToolClose(b, e).pending = NoTool
        BY <2>5, <3>2
      <3>5. ClosesTool(f, a)
        BY <2>1, <3>1, <3>3, <3>4 DEF ClosesTool
      <3>6. ToolsType(f, C)
        BY <1>1, <2>6, <3>5, Zenon DEF ToolsType, ClosesTool
      <3>7. EventOf(payload, "close") /\ ~EventOf(payload, "open") /\ ~EventOf(payload, "arg")
        BY <2>2, <2>9
      <3>. QED BY <2>9, <3>5, <3>6, <3>7, Zenon DEF f, payload, e
    <2>10. CASE e[1] # "open" /\ (e[1] \in {"arg", "close"} => ~Matches(a, e))
      <3>1. ~(b.pending # NoTool /\ b.pending.index = e[2]) \/ e[1] \notin {"arg", "close"}
        BY <2>4, <2>10 DEF Matches
      <3>2. ApplySseRule(b, "anthropic", e) = b
        BY <2>10, <3>1 DEF ApplySseRule, ToolArg, ToolClose
      <3>3. f.tools = a.tools /\ f.pending = a.pending
        BY <2>1, <2>4, <3>2
      <3>4. ToolsType(f, C)
        BY <1>1, <3>3, Zenon DEF ToolsType
      <3>5. /\ ~EventOf(payload, "open")
            /\ EventOf(payload, "arg") \/ EventOf(payload, "close") => ~Matches(a, e)
        BY <2>2, <2>10
      <3>. QED BY <3>3, <3>4, <3>5, Zenon DEF f, payload, e
    <2>. QED BY <2>7, <2>8, <2>9, <2>10
  <1>. QED BY <1>2, <1>3

\* The first n frames: the tools they open, the arguments for the tool that frame
\* k opened, and whether that tool is still open after them.
OpensUpTo(P, n)    == {k \in EventsOf(P, "open") : k <= n}
ArgsUpTo(P, k, n)  == {j \in ArgsOf(P, k) : j <= n}
StillOpen(P, k, n) == \A m \in k + 1 .. n : ~EndsTool(P, k, m)

\* The call c is what the first n frames say of the tool that frame k opened.
Assembled(c, P, k, n) ==
    /\ c.name = P[k][1][3]
    /\ \E args : /\ Listing(args, ArgsUpTo(P, k, n))
                 /\ c.args = [i \in 1 .. Len(args) |-> P[args[i]][1][3]]

LEMMA StillOpenStep ==
    ASSUME NEW P, NEW n \in Nat, NEW k \in 1 .. n
    PROVE  StillOpen(P, k, n + 1) <=> StillOpen(P, k, n) /\ ~EndsTool(P, k, n + 1)
  <1>1. k + 1 .. n + 1 = (k + 1 .. n) \cup {n + 1}
    OBVIOUS
  <1>. QED BY <1>1, Zenon DEF StillOpen

\* The next frame adds to the arguments of a tool when it holds one for it and the
\* tool is still open.
LEMMA ArgsStep ==
    ASSUME NEW P, NEW N \in Nat, DOMAIN P = 1 .. N, NEW n \in Nat, n + 1 \in 1 .. N,
           NEW k \in 1 .. n
    PROVE  ArgsUpTo(P, k, n + 1) =
             IF EventOf(P[n + 1], "arg") /\ P[n + 1][1][2] = P[k][1][2] /\ StillOpen(P, k, n)
               THEN ArgsUpTo(P, k, n) \cup {n + 1} ELSE ArgsUpTo(P, k, n)
  <1>1. ArgsOf(P, k) \subseteq 1 .. N
    BY DEF ArgsOf, EventsOf
  <1>2. ArgsUpTo(P, k, n + 1) = ArgsUpTo(P, k, n) \cup {j \in ArgsOf(P, k) : j = n + 1}
    BY <1>1 DEF ArgsUpTo
  <1>3. EventOf(P[n + 1], "arg") => ~EndsTool(P, k, n + 1)
    BY DEF EndsTool, EventOf
  <1>4. n + 1 \in ArgsOf(P, k) <=>
          /\ EventOf(P[n + 1], "arg") /\ P[n + 1][1][2] = P[k][1][2]
          /\ StillOpen(P, k, n + 1)
    <2>1. n + 1 > k
      OBVIOUS
    <2>2. n + 1 \in EventsOf(P, "arg") <=> EventOf(P[n + 1], "arg")
      BY Zenon DEF EventsOf
    <2>. QED BY <2>1, <2>2, Zenon DEF ArgsOf, StillOpen
  <1>5. n + 1 \in ArgsOf(P, k) <=>
          EventOf(P[n + 1], "arg") /\ P[n + 1][1][2] = P[k][1][2] /\ StillOpen(P, k, n)
    BY <1>3, <1>4, StillOpenStep, Zenon
  <1>6. {j \in ArgsOf(P, k) : j = n + 1} = IF n + 1 \in ArgsOf(P, k) THEN {n + 1} ELSE {}
    BY Zenon
  <1>. QED BY <1>2, <1>5, <1>6, Zenon

LEMMA OpensStep ==
    ASSUME NEW P, NEW N \in Nat, DOMAIN P = 1 .. N, NEW n \in Nat, n + 1 \in 1 .. N
    PROVE  /\ EventOf(P[n + 1], "open") => OpensUpTo(P, n + 1) = OpensUpTo(P, n) \cup {n + 1}
           /\ ~EventOf(P[n + 1], "open") => OpensUpTo(P, n + 1) = OpensUpTo(P, n)
           /\ OpensUpTo(P, n) \subseteq 1 .. n
  <1>1. EventsOf(P, "open") \subseteq 1 .. N
    BY DEF EventsOf
  <1>2. OpensUpTo(P, n + 1) = OpensUpTo(P, n) \cup {j \in EventsOf(P, "open") : j = n + 1}
    BY <1>1 DEF OpensUpTo
  <1>3. n + 1 \in EventsOf(P, "open") <=> EventOf(P[n + 1], "open")
    BY Zenon DEF EventsOf
  <1>4. OpensUpTo(P, n) \subseteq 1 .. n
    BY <1>1 DEF OpensUpTo
  <1>. QED BY <1>2, <1>3, <1>4, Zenon

LEMMA AssembledMore ==
    ASSUME NEW P, NEW N \in Nat, DOMAIN P = 1 .. N, NEW n \in Nat, n + 1 \in 1 .. N,
           NEW k \in 1 .. n, NEW c, NEW d, Assembled(c, P, k, n),
           ArgsUpTo(P, k, n + 1) = ArgsUpTo(P, k, n) \cup {n + 1},
           d.name = c.name, d.args = Append(c.args, P[n + 1][1][3])
    PROVE  Assembled(d, P, k, n + 1)
  <1>1. PICK args : /\ Listing(args, ArgsUpTo(P, k, n))
                    /\ c.args = [i \in 1 .. Len(args) |-> P[args[i]][1][3]]
    BY DEF Assembled
  <1>. DEFINE S == ArgsUpTo(P, k, n)
              x == n + 1
              more == Append(args, x)
              g(i) == P[i][1][3]
  <1>2. S \in SUBSET Nat /\ x \in Nat /\ \A y \in S : y < x
    <2>1. S \subseteq 1 .. N /\ \A y \in S : y <= n
      BY DEF ArgsUpTo, ArgsOf, EventsOf
    <2>. QED BY <2>1
  <1>. HIDE DEF S, x
  <1>3. /\ Listing(more, S \cup {x}) /\ Len(more) = Len(args) + 1
        /\ \A i \in 1 .. Len(args) : more[i] = args[i]
        /\ more[Len(args) + 1] = x
    BY <1>1, <1>2, ListingAppend DEF S
  <1>4. Len(args) \in Nat
    BY <1>1 DEF Listing
  <1>. HIDE DEF more
  <1>5. Append(c.args, g(x)) = [i \in 1 .. Len(more) |-> g(more[i])]
    <2>. DEFINE m == Len(args)
                old == [i \in 1 .. m |-> g(args[i])]
                new == [i \in 1 .. m + 1 |-> g(more[i])]
    <2>1. m \in Nat
      BY <1>4
    <2>. HIDE DEF m, g
    <2>2. old \in Seq({g(args[i]) : i \in 1 .. m}) /\ Len(old) = m
      <3>. DEFINE G == {g(args[i]) : i \in 1 .. m}
      <3>1. old \in [1 .. m -> G]
        OBVIOUS
      <3>. HIDE DEF old, G
      <3>2. old \in Seq(G) /\ Len(old) = m
        BY <2>1, <3>1
      <3>. QED BY <3>2 DEF G
    <2>3. Append(old, g(x)) = [i \in 1 .. m + 1 |-> IF i = m + 1 THEN g(x) ELSE old[i]]
      BY <2>1, <2>2
    <2>4. \A i \in 1 .. m + 1 : (IF i = m + 1 THEN g(x) ELSE old[i]) = g(more[i])
      BY <1>3, <2>1 DEF m
    <2>. HIDE DEF old
    <2>5. Append(old, g(x)) = new
      BY <2>3, <2>4
    <2>. QED BY <1>1, <1>3, <2>5 DEF m, old, g
  <1>6. d.name = P[k][1][3]
    BY DEF Assembled
  <1>7. d.args = [i \in 1 .. Len(more) |-> P[more[i]][1][3]]
    BY <1>5 DEF g, x
  <1>. QED BY <1>3, <1>6, <1>7, Zenon DEF Assembled, S, x

\* The accumulator after n frames: its calls are the tools opened so far, each with
\* its arguments so far, and the pending one is the last, as long as it is open.
ToolsSoFar(a, P, n, opens) ==
    /\ Listing(opens, OpensUpTo(P, n)) /\ Len(Calls(a)) = Len(opens)
    /\ \A i \in 1 .. Len(opens) :
         /\ Assembled(Calls(a)[i], P, opens[i], n)
         /\ StillOpen(P, opens[i], n) <=> a.pending # NoTool /\ i = Len(opens)
    /\ a.pending # NoTool => a.pending.index = P[opens[Len(opens)]][1][2]

\* A frame that opens a tool.
LEMMA OpenSoFar ==
    ASSUME NEW P, NEW N \in Nat, DOMAIN P = 1 .. N, NEW n \in Nat, n + 1 \in 1 .. N,
           NEW C, NEW a, NEW f, ToolsType(a, C), ToolsType(f, C), NEW opens,
           ToolsSoFar(a, P, n, opens),
           EventOf(P[n + 1], "open"), OpensTool(f, a, P[n + 1][1])
    PROVE  ToolsSoFar(f, P, n + 1, Append(opens, n + 1))
  <1>. DEFINE x == n + 1
              e == P[x][1]
              S == OpensUpTo(P, n)
              more == Append(opens, x)
              m == Len(opens)
              c == Call(e[3], <<>>)
  <1>1. S \in SUBSET Nat /\ S \subseteq 1 .. n /\ \A y \in S : y < x
    <2>1. S \subseteq 1 .. n
      BY OpensStep
    <2>. QED BY <2>1
  <1>2. OpensUpTo(P, x) = S \cup {x} /\ x \in Nat
    BY OpensStep
  <1>3. /\ Listing(opens, S) /\ Len(Calls(a)) = m
        /\ opens \in Seq(S) /\ m \in Nat /\ \A i \in 1 .. m : opens[i] \in 1 .. n
    <2>1. Listing(opens, S) /\ Len(Calls(a)) = m
      BY DEF ToolsSoFar
    <2>2. opens \in Seq(S) /\ m \in Nat /\ \A i \in 1 .. m : opens[i] \in S
      BY <2>1, ListingMembers
    <2>. QED BY <1>1, <2>1, <2>2, Zenon
  <1>. HIDE DEF S
  <1>4. /\ Listing(more, S \cup {x}) /\ Len(more) = m + 1
        /\ \A i \in 1 .. m : more[i] = opens[i]
        /\ more[m + 1] = x
    BY <1>1, <1>2, <1>3, ListingAppend
  <1>5. f.pending # NoTool /\ f.pending.index = e[2] /\ f.pending.call = c /\ f.tools = Calls(a)
    <2>1. f.pending = [index |-> e[2], call |-> c] /\ f.tools = Calls(a)
      BY DEF OpensTool
    <2>. HIDE DEF c, e
    <2>2. DOMAIN f.pending = {"index", "call"} /\ DOMAIN NoTool = {}
      BY <2>1 DEF NoTool
    <2>. QED BY <2>1, <2>2
  <1>6. /\ Len(Calls(f)) = m + 1 /\ Calls(f)[m + 1] = c
        /\ \A i \in 1 .. m : Calls(f)[i] = Calls(a)[i]
    BY <1>3, <1>5, CallsType
  <1>. HIDE DEF more, m
  <1>7. ASSUME NEW i \in 1 .. m
        PROVE  Assembled(Calls(f)[i], P, more[i], x) /\ ~StillOpen(P, more[i], x)
    <2>1. opens[i] \in 1 .. n /\ more[i] = opens[i] /\ Calls(f)[i] = Calls(a)[i]
      BY <1>3, <1>4, <1>6
    <2>2. ~EventOf(P[x], "arg") /\ EndsTool(P, opens[i], x)
      BY DEF EventOf, EndsTool
    <2>3. ArgsUpTo(P, opens[i], x) = ArgsUpTo(P, opens[i], n)
      BY <2>1, <2>2, ArgsStep
    <2>4. ~StillOpen(P, opens[i], x)
      BY <2>1, <2>2, StillOpenStep
    <2>5. Assembled(Calls(a)[i], P, opens[i], n)
      BY DEF ToolsSoFar, m
    <2>6. Assembled(Calls(a)[i], P, opens[i], x)
      BY <2>3, <2>5, Zenon DEF Assembled
    <2>. QED BY <2>1, <2>4, <2>6
  <1>8. Assembled(c, P, x, x) /\ StillOpen(P, x, x)
    <2>1. ArgsUpTo(P, x, x) = {}
      BY DEF ArgsUpTo, ArgsOf, EventsOf
    <2>2. c.name = P[x][1][3] /\ c.args = <<>>
      BY DEF Call
    <2>3. <<>> = [i \in 1 .. Len(<<>>) |-> P[<<>>[i]][1][3]]
      OBVIOUS
    <2>4. StillOpen(P, x, x)
      <3>1. x + 1 .. x = {}
        BY <1>2
      <3>. QED BY <3>1, Zenon DEF StillOpen
    <2>5. Listing(<<>>, ArgsUpTo(P, x, x))
      BY <2>1, ListingNothing
    <2>. HIDE DEF c, x
    <2>. QED BY <2>2, <2>3, <2>4, <2>5 DEF Assembled
  <1>. HIDE DEF c, e
  <1>9. ASSUME NEW i \in 1 .. m + 1
        PROVE  /\ Assembled(Calls(f)[i], P, more[i], x)
               /\ StillOpen(P, more[i], x) <=> f.pending # NoTool /\ i = m + 1
    <2>1. CASE i = m + 1
      BY <1>4, <1>5, <1>6, <1>8, <2>1, Zenon
    <2>2. CASE i # m + 1
      <3>1. i \in 1 .. m
        BY <1>3, <2>2
      <3>. QED BY <1>7, <2>2, <3>1, Zenon
    <2>. QED BY <2>1, <2>2
  <1>10. f.pending.index = P[more[m + 1]][1][2]
    BY <1>4, <1>5 DEF e
  <1>. HIDE DEF x
  <1>11. ToolsSoFar(f, P, x, more)
    BY <1>2, <1>4, <1>5, <1>6, <1>9, <1>10, Zenon DEF ToolsSoFar
  <1>. QED BY <1>11 DEF x, more

\* A frame that opens none.
LEMMA OtherSoFar ==
    ASSUME NEW P, NEW N \in Nat, DOMAIN P = 1 .. N, NEW n \in Nat, n + 1 \in 1 .. N,
           NEW C, NEW a, NEW f, ToolsType(a, C), ToolsType(f, C), NEW opens,
           ToolsSoFar(a, P, n, opens), ~EventOf(P[n + 1], "open"),
           \/ EventOf(P[n + 1], "arg") /\ Matches(a, P[n + 1][1])
                /\ ExtendsTool(f, a, P[n + 1][1])
           \/ EventOf(P[n + 1], "close") /\ Matches(a, P[n + 1][1]) /\ ClosesTool(f, a)
           \/ /\ EventOf(P[n + 1], "arg") \/ EventOf(P[n + 1], "close")
                   => ~Matches(a, P[n + 1][1])
              /\ f.tools = a.tools /\ f.pending = a.pending
    PROVE  ToolsSoFar(f, P, n + 1, opens)
  <1>. DEFINE x == n + 1
              e == P[x][1]
              S == OpensUpTo(P, n)
              m == Len(opens)
              arg == EventOf(P[x], "arg")
              close == EventOf(P[x], "close")
  <1>1. S \subseteq 1 .. n /\ OpensUpTo(P, x) = S
    BY OpensStep
  <1>2. /\ Listing(opens, S) /\ Len(Calls(a)) = m
        /\ opens \in Seq(S) /\ m \in Nat /\ \A i \in 1 .. m : opens[i] \in 1 .. n
    <2>1. Listing(opens, S) /\ Len(Calls(a)) = m
      BY DEF ToolsSoFar
    <2>2. opens \in Seq(S) /\ m \in Nat /\ \A i \in 1 .. m : opens[i] \in S
      BY <2>1, ListingMembers
    <2>. QED BY <1>1, <2>1, <2>2, Zenon
  <1>. HIDE DEF S
  <1>3. ASSUME NEW i \in 1 .. m
        PROVE  /\ Assembled(Calls(a)[i], P, opens[i], n)
               /\ StillOpen(P, opens[i], n) <=> a.pending # NoTool /\ i = m
    BY DEF ToolsSoFar
  <1>4. a.pending # NoTool => m \in 1 .. m /\ a.pending.index = P[opens[m]][1][2]
    <2>1. a.pending # NoTool => m = Len(a.tools) + 1
      BY <1>2, CallsType
    <2>2. Len(a.tools) \in Nat
      BY DEF ToolsType
    <2>3. a.pending # NoTool => a.pending.index = P[opens[m]][1][2]
      BY DEF ToolsSoFar
    <2>. QED BY <1>2, <2>1, <2>2, <2>3
  \* The frame is for the last tool when it is still open, and for no other.
  <1>5. ASSUME NEW i \in 1 .. m
        PROVE  /\ StillOpen(P, opens[i], n) /\ e[2] = P[opens[i]][1][2]
                    <=> Matches(a, e) /\ i = m
    <2>1. CASE a.pending # NoTool /\ i = m
      <3>1. a.pending.index = P[opens[i]][1][2] /\ StillOpen(P, opens[i], n)
        BY <1>3, <1>4, <2>1
      <3>2. e[2] = P[opens[i]][1][2] <=> Matches(a, e)
        BY <2>1, <3>1 DEF Matches
      <3>. QED BY <2>1, <3>1, <3>2
    <2>2. CASE ~(a.pending # NoTool /\ i = m)
      BY <1>3, <2>2 DEF Matches
    <2>. QED BY <2>1, <2>2
  <1>6. ASSUME NEW i \in 1 .. m
        PROVE  /\ arg /\ Matches(a, e) /\ i = m =>
                    ArgsUpTo(P, opens[i], x) = ArgsUpTo(P, opens[i], n) \cup {x}
               /\ ~(arg /\ Matches(a, e) /\ i = m) =>
                    /\ ArgsUpTo(P, opens[i], x) = ArgsUpTo(P, opens[i], n)
                    /\ Assembled(Calls(a)[i], P, opens[i], x)
               /\ StillOpen(P, opens[i], x)
                    <=> StillOpen(P, opens[i], n) /\ ~(close /\ Matches(a, e) /\ i = m)
    <2>1. opens[i] \in 1 .. n
      BY <1>2
    <2>. DEFINE k == opens[i]
    <2>2. ArgsUpTo(P, k, x) = IF arg /\ e[2] = P[k][1][2] /\ StillOpen(P, k, n)
                                THEN ArgsUpTo(P, k, n) \cup {x} ELSE ArgsUpTo(P, k, n)
      BY <2>1, ArgsStep
    <2>3. EndsTool(P, k, x) <=> close /\ e[2] = P[k][1][2]
      BY DEF EndsTool
    <2>4. StillOpen(P, k, x) <=> StillOpen(P, k, n) /\ ~EndsTool(P, k, x)
      BY <2>1, StillOpenStep
    <2>5. ArgsUpTo(P, k, x) = ArgsUpTo(P, k, n) => Assembled(Calls(a)[i], P, k, x)
      BY <1>3, Zenon DEF Assembled
    <2>. HIDE DEF k, arg, close, e, x
    <2>6. StillOpen(P, k, n) /\ e[2] = P[k][1][2] <=> Matches(a, e) /\ i = m
      BY <1>5 DEF k
    <2>. QED BY <2>2, <2>3, <2>4, <2>5, <2>6, Zenon DEF k
  <1>7. arg => ~close
    BY DEF EventOf
  <1>8. CASE arg /\ Matches(a, e)
    <2>1. ExtendsTool(f, a, e)
      <3>1. ~close
        BY <1>7, <1>8
      <3>. QED BY <1>8, <3>1, Zenon
    <2>. HIDE DEF e, arg, close
    <2>2. a.pending # NoTool /\ a.pending \in PendingOf(C) /\ m \in 1 .. m
      BY <1>4, <1>8 DEF Matches, ToolsType
    <2>3. /\ f.pending # NoTool /\ f.tools = a.tools /\ f.pending.index = a.pending.index
          /\ f.pending.call.name = a.pending.call.name
          /\ f.pending.call.args = Append(a.pending.call.args, e[3])
      BY <2>1 DEF ExtendsTool
    <2>4. m = Len(a.tools) + 1 /\ Len(a.tools) \in Nat
      <3>1. Len(a.tools) \in Nat
        BY DEF ToolsType
      <3>. QED BY <1>2, <2>2, <3>1, CallsType
    <2>5. /\ Len(Calls(f)) = m /\ Calls(f)[m] = f.pending.call /\ Calls(a)[m] = a.pending.call
          /\ \A i \in 1 .. Len(a.tools) : Calls(f)[i] = Calls(a)[i]
      <3>1. /\ Calls(a)[Len(a.tools) + 1] = a.pending.call
            /\ \A i \in 1 .. Len(a.tools) : Calls(a)[i] = a.tools[i]
        BY <2>2, CallsType
      <3>2. /\ Len(Calls(f)) = Len(f.tools) + 1 /\ Calls(f)[Len(f.tools) + 1] = f.pending.call
            /\ \A i \in 1 .. Len(f.tools) : Calls(f)[i] = f.tools[i]
        BY <2>3, CallsType
      <3>. QED BY <2>3, <2>4, <3>1, <3>2
    <2>6. Assembled(Calls(f)[m], P, opens[m], x)
      <3>1. ArgsUpTo(P, opens[m], x) = ArgsUpTo(P, opens[m], n) \cup {x}
        BY <1>6, <1>8, <2>2
      <3>2. Assembled(a.pending.call, P, opens[m], n) /\ opens[m] \in 1 .. n
        BY <1>2, <1>3, <2>2, <2>5
      <3>3. Assembled(f.pending.call, P, opens[m], x)
        BY <2>3, <3>1, <3>2, AssembledMore DEF e, x
      <3>. QED BY <2>5, <3>3
    <2>7. ASSUME NEW i \in 1 .. m
          PROVE  /\ Assembled(Calls(f)[i], P, opens[i], x)
                 /\ StillOpen(P, opens[i], x) <=> f.pending # NoTool /\ i = m
      <3>1. StillOpen(P, opens[i], x) <=> f.pending # NoTool /\ i = m
        BY <1>3, <1>6, <1>7, <1>8, <2>2, <2>3, Zenon
      <3>2. CASE i = m
        BY <2>6, <3>1, <3>2, Zenon
      <3>3. CASE i # m
        <4>1. i \in 1 .. Len(a.tools)
          BY <2>4, <3>3
        <4>2. Calls(f)[i] = Calls(a)[i]
          BY <2>5, <4>1
        <4>3. Assembled(Calls(a)[i], P, opens[i], x)
          BY <1>6, <3>3, Zenon
        <4>. QED BY <3>1, <4>2, <4>3, Zenon
      <3>. QED BY <3>2, <3>3
    <2>8. f.pending.index = P[opens[m]][1][2]
      BY <1>4, <2>2, <2>3, Zenon
    <2>. HIDE DEF x
    <2>9. ToolsSoFar(f, P, x, opens)
      BY <1>1, <1>2, <2>5, <2>7, <2>8, Zenon DEF ToolsSoFar, m
    <2>. QED BY <2>9 DEF x
  <1>9. CASE close /\ Matches(a, e)
    <2>1. ~arg
      BY <1>7, <1>9
    <2>2. f.tools = Calls(a) /\ f.pending = NoTool
      BY <1>9, <2>1, Zenon DEF ClosesTool
    <2>3. Calls(f) = Calls(a)
      BY <2>2 DEF Calls
    <2>. HIDE DEF x, e, arg, close, m
    <2>4. ASSUME NEW i \in 1 .. m
          PROVE  /\ Assembled(Calls(f)[i], P, opens[i], x)
                 /\ StillOpen(P, opens[i], x) <=> f.pending # NoTool /\ i = m
      BY <1>3, <1>6, <1>9, <2>1, <2>2, <2>3, Zenon
    <2>5. ToolsSoFar(f, P, x, opens)
      BY <1>1, <1>2, <2>2, <2>3, <2>4, Zenon DEF ToolsSoFar, m
    <2>. QED BY <2>5 DEF x
  <1>10. CASE arg \/ close => ~Matches(a, e)
    <2>1. f.tools = a.tools /\ f.pending = a.pending
      BY <1>10, Zenon
    <2>2. Calls(f) = Calls(a)
      BY <2>1 DEF Calls
    <2>. HIDE DEF x, e, arg, close, m
    <2>3. ASSUME NEW i \in 1 .. m
          PROVE  /\ Assembled(Calls(f)[i], P, opens[i], x)
                 /\ StillOpen(P, opens[i], x) <=> f.pending # NoTool /\ i = m
      BY <1>3, <1>6, <1>10, <2>1, <2>2, Zenon
    <2>4. a.pending # NoTool => f.pending.index = P[opens[m]][1][2]
      BY <1>4, <2>1, Zenon
    <2>5. ToolsSoFar(f, P, x, opens)
      BY <1>1, <1>2, <2>1, <2>2, <2>3, <2>4, Zenon DEF ToolsSoFar, m
    <2>. QED BY <2>5 DEF x
  <1>. QED BY <1>8, <1>9, <1>10

LEMMA ToolsFed ==
    ASSUME NEW C, NEW frames \in Seq(Seq(C))
    PROVE  LET a == FeedAll(Accum, "anthropic", frames)
           IN  /\ ToolsType(a, C)
               /\ \E opens : ToolsSoFar(a, Payloads(frames), Len(frames), opens)
  <1>. DEFINE n == Len(frames)
              P == Payloads(frames)
  <1>1. n \in Nat /\ DOMAIN P = 1 .. n /\ \A k \in 1 .. n : P[k] = Trim(frames[k])
    BY DEF Payloads
  <1>2. PICK f : /\ Feeding(f, Accum, "anthropic", frames, n)
                 /\ FeedAll(Accum, "anthropic", frames) = f[n]
    BY <1>1, FeedSteps
  <1>. HIDE DEF n, P
  <1>. DEFINE Q(k) == ToolsType(f[k], C) /\ \E opens : ToolsSoFar(f[k], P, k, opens)
              S == {k \in Nat : k <= n => Q(k)}
  <1>3. 0 \in S
    <2>1. f[0] = Accum
      BY <1>2 DEF Feeding
    <2>2. DOMAIN Accum = Fields /\ Accum.tools = <<>> /\ Accum.pending = NoTool
      BY DEF Accum, Fields
    <2>3. ToolsType(Accum, C)
      BY <2>2 DEF ToolsType
    <2>4. OpensUpTo(P, 0) = {}
      BY <1>1 DEF OpensUpTo, EventsOf
    <2>5. Calls(Accum) = <<>>
      BY <2>2 DEF Calls
    <2>6. Listing(<<>>, OpensUpTo(P, 0)) /\ Len(<<>>) = 0 /\ 1 .. 0 = {}
      <3>1. Listing(<<>>, OpensUpTo(P, 0)) /\ Len(<<>>) = 0
        BY <2>4, ListingNothing, Zenon
      <3>. QED BY <3>1
    <2>7. ToolsSoFar(Accum, P, 0, <<>>)
      BY <2>2, <2>5, <2>6 DEF ToolsSoFar
    <2>. QED BY <2>1, <2>3, <2>7
  <1>4. ASSUME NEW k \in S PROVE k + 1 \in S
    <2>. SUFFICES ASSUME k + 1 <= n PROVE Q(k + 1)
      <3>. HIDE DEF Q
      <3>. QED OBVIOUS
    <2>1. k \in Nat /\ k + 1 \in 1 .. n /\ (k + 1) - 1 = k /\ Q(k)
      <3>. HIDE DEF Q
      <3>. QED BY <1>1
    <2>2. f[k + 1] = FeedFrame(f[(k + 1) - 1], "anthropic", frames[k + 1])
      BY <1>2, <2>1, Zenon DEF Feeding
    <2>3. f[k + 1] = FeedFrame(f[k], "anthropic", frames[k + 1])
      BY <2>1, <2>2
    <2>. DEFINE a == f[k]
                b == f[k + 1]
                e == P[k + 1][1]
    <2>4. ToolsType(a, C) /\ \E opens : ToolsSoFar(a, P, k, opens)
      BY <2>1
    <2>5. PICK opens : ToolsSoFar(a, P, k, opens)
      BY <2>4
    <2>6. P[k + 1] = Trim(frames[k + 1]) /\ frames[k + 1] \in Seq(C)
      BY <1>1, <2>1 DEF n
    <2>. HIDE DEF a
    <2>7. /\ ToolsType(b, C)
          /\ EventOf(P[k + 1], "open") => OpensTool(b, a, e)
          /\ EventOf(P[k + 1], "arg") /\ Matches(a, e) => ExtendsTool(b, a, e)
          /\ EventOf(P[k + 1], "close") /\ Matches(a, e) => ClosesTool(b, a)
          /\ \/ EventOf(P[k + 1], "open")
             \/ (EventOf(P[k + 1], "arg") \/ EventOf(P[k + 1], "close")) /\ Matches(a, e)
             \/ b.tools = a.tools /\ b.pending = a.pending
      <3>1. b = FeedFrame(a, "anthropic", frames[k + 1])
        BY <2>3 DEF a
      <3>. HIDE DEF b
      <3>. QED BY <2>4, <2>6, <3>1, FeedFrameTools
    <2>. HIDE DEF b
    <2>8. CASE EventOf(P[k + 1], "open")
      <3>1. ToolsSoFar(b, P, k + 1, Append(opens, k + 1))
        BY <1>1, <2>1, <2>4, <2>5, <2>7, <2>8, OpenSoFar
      <3>. QED BY <2>7, <3>1 DEF b
    <2>9. CASE ~EventOf(P[k + 1], "open")
      <3>1. \/ EventOf(P[k + 1], "arg") /\ Matches(a, e) /\ ExtendsTool(b, a, e)
            \/ EventOf(P[k + 1], "close") /\ Matches(a, e) /\ ClosesTool(b, a)
            \/ /\ EventOf(P[k + 1], "arg") \/ EventOf(P[k + 1], "close") => ~Matches(a, e)
               /\ b.tools = a.tools /\ b.pending = a.pending
        BY <2>7, <2>9, Zenon
      <3>2. ToolsSoFar(b, P, k + 1, opens)
        BY <1>1, <2>1, <2>4, <2>5, <2>7, <2>9, <3>1, OtherSoFar
      <3>. QED BY <2>7, <3>2 DEF b
    <2>. QED BY <2>8, <2>9
  <1>. HIDE DEF S, Q
  <1>5. S = Nat
    BY <1>3, <1>4, SetInduction DEF S
  <1>6. Q(n)
    BY <1>1, <1>5 DEF S
  <1>. QED BY <1>2, <1>6 DEF Q, n, P

\* Every tool call an anthropic stream opens is reported once, in order and with
\* its own arguments, for every stream, however its body is cut and wherever it
\* breaks off.
THEOREM ToolsAlwaysAssembled == SseSpec => []ToolsAssembled
  <1>1. DrainInv => ToolsAssembled
    <2>. SUFFICES ASSUME DrainInv, stream.protocol = "anthropic" PROVE ToolsAssembled
      BY DEF ToolsAssembled
    <2>. DEFINE frames == Frames(Received)
                P == Payloads(frames)
                n == Len(frames)
                C == Char(ToSet(stream.body))
                a == FeedAll(Accum, "anthropic", frames)
    <2>1. frames \in Seq(Seq(C))
      BY FinishFeedsAll
    <2>. HIDE DEF C
    <2>2. ToolsType(a, C) /\ \E opens : ToolsSoFar(a, P, n, opens)
      BY <2>1, ToolsFed
    <2>3. FeedAll(acc, stream.protocol, Frames(tail)) = a
      BY FinishFeedsAll
    <2>. DEFINE tools == DrainFinish.tools
    <2>4. tools = Calls(a)
      <3>1. DrainFinish = FinishAccum(a, "anthropic")
        BY <2>3 DEF DrainFinish
      <3>. HIDE DEF a
      <3>2. FinishAccum(a, "anthropic").tools
              = a.tools \o (IF a.pending = NoTool THEN <<>> ELSE <<a.pending.call>>) \o <<>>
        BY DEF FinishAccum
      <3>3. a.tools \in Seq(CallOf(C))
        BY <2>2 DEF ToolsType
      <3>4. CASE a.pending = NoTool
        <4>1. a.tools \o <<>> \o <<>> = a.tools
          BY <3>3
        <4>. QED BY <3>1, <3>2, <3>4, <4>1 DEF Calls
      <3>5. CASE a.pending # NoTool
        <4>1. a.pending.call \in CallOf(C)
          BY <2>2, <3>5, CallsType
        <4>2. ASSUME NEW c \in CallOf(C), NEW t \in Seq(CallOf(C))
              PROVE  t \o <<c>> \o <<>> = Append(t, c)
          OBVIOUS
        <4>3. a.tools \o <<a.pending.call>> \o <<>> = Append(a.tools, a.pending.call)
          BY <3>3, <4>1, <4>2
        <4>. QED BY <3>1, <3>2, <3>5, <4>3 DEF Calls
      <3>. QED BY <3>4, <3>5
    <2>5. n \in Nat /\ DOMAIN P = 1 .. n
      BY <2>1 DEF Payloads
    <2>. HIDE DEF a, tools, frames, n, P
    <2>6. PICK opens : ToolsSoFar(a, P, n, opens)
      BY <2>2
    <2>7. EventsOf(P, "open") \in SUBSET Nat /\ OpensUpTo(P, n) = EventsOf(P, "open")
      BY <2>5 DEF OpensUpTo, EventsOf
    <2>8. /\ opens \in InOrder(EventsOf(P, "open")) /\ DOMAIN opens = 1 .. Len(opens)
          /\ Len(tools) = Len(opens)
      <3>1. Listing(opens, OpensUpTo(P, n)) /\ Len(Calls(a)) = Len(opens)
        BY <2>6 DEF ToolsSoFar
      <3>. QED BY <2>4, <2>7, <3>1, ListingInOrder
    <2>9. ASSUME NEW i \in DOMAIN opens
          PROVE  /\ tools[i].name = P[opens[i]][1][3]
                 /\ \E args \in InOrder(ArgsOf(P, opens[i])) :
                      tools[i].args = [j \in DOMAIN args |-> P[args[j]][1][3]]
      <3>. DEFINE k == opens[i]
      <3>1. Assembled(tools[i], P, k, n)
        BY <2>4, <2>6, <2>8 DEF ToolsSoFar
      <3>2. PICK args : /\ Listing(args, ArgsUpTo(P, k, n))
                        /\ tools[i].args = [j \in 1 .. Len(args) |-> P[args[j]][1][3]]
        BY <3>1 DEF Assembled
      <3>3. ArgsOf(P, k) \in SUBSET Nat /\ ArgsUpTo(P, k, n) = ArgsOf(P, k)
        BY <2>5 DEF ArgsUpTo, ArgsOf, EventsOf
      <3>4. args \in InOrder(ArgsOf(P, k)) /\ DOMAIN args = 1 .. Len(args)
        BY <3>2, <3>3, ListingInOrder
      <3>5. tools[i].name = P[k][1][3]
        BY <3>1 DEF Assembled
      <3>. HIDE DEF k
      <3>6. tools[i].args = [j \in DOMAIN args |-> P[args[j]][1][3]]
        BY <3>2, <3>4, Zenon
      <3>. QED BY <3>4, <3>5, <3>6, Zenon DEF k
    <2>. QED BY <2>8, <2>9, Zenon DEF ToolsAssembled, P, frames, tools
  <1>. QED BY <1>1, DrainInvariant, PTL

-----------------------------------------------------------------------------
(* The frame parsers of an upgraded connection.                            *)

Byte(M) == [op : {"text", "binary"}, form : {"7 bits", "16 bits", "64 bits"}, len : Nat,
            masked : BOOLEAN, part : Int, of : Nat, msg : M]

Parsing(M) == [buf : Seq(Byte(M)), out : Seq(Seq(Byte(M))), stop : BOOLEAN]

\* What one parser may retain.
Bounded(b) == Len(b) < 2 \/ Len(b) < PayloadStart(b[2]) + cap

-----------------------------------------------------------------------------
(* One turn of the parser's loop.                                          *)

LEMMA HeaderBounds ==
    ASSUME NEW M, NEW b \in Byte(M)
    PROVE  /\ HeaderLen(b) \in Nat /\ PayloadStart(b) \in Nat /\ b.len \in Nat
           /\ 2 <= HeaderLen(b) /\ HeaderLen(b) <= PayloadStart(b)
  <1>. DEFINE h == HeaderLen(b)
              p == PayloadStart(b)
  <1>1. b.form \in {"7 bits", "16 bits", "64 bits"} /\ b.len \in Nat /\ b.masked \in BOOLEAN
    BY DEF Byte
  <1>2. h \in {2, 4, 10}
    BY <1>1 DEF HeaderLen
  <1>3. p = h + 0 \/ p = h + 4
    BY <1>1, Zenon DEF PayloadStart
  <1>. HIDE DEF h, p
  <1>4. h \in Nat /\ p \in Nat /\ 2 <= h /\ h <= p
    BY <1>2, <1>3
  <1>. QED BY <1>1, <1>4 DEF h, p

\* A turn of the loop stops it, or takes a whole frame off the buffer; where it
\* stops the loop, the buffer is within the bound.
LEMMA ParseFrameStep ==
    ASSUME NEW M, NEW st \in Parsing(M), cap \in Nat
    PROVE  /\ ParseFrame(st) \in Parsing(M)
           /\ st.stop => ParseFrame(st).stop /\ ParseFrame(st).buf = st.buf
           /\ ~ParseFrame(st).stop => Len(ParseFrame(st).buf) + 2 <= Len(st.buf)
           /\ ~st.stop /\ ParseFrame(st).stop /\ cap > 0 => Bounded(ParseFrame(st).buf)
  <1>. DEFINE b == st.buf[2]
              start == PayloadStart(b)
              end == start + b.len
              Wait == [st EXCEPT !.stop = TRUE]
              Clear == [Wait EXCEPT !.buf = <<>>]
              Take == [buf  |-> SubSeq(st.buf, end + 1, Len(st.buf)),
                       out  |-> IF st.buf[1].op = "text"
                                  THEN Append(st.out, SubSeq(st.buf, start + 1, end))
                                  ELSE st.out,
                       stop |-> FALSE]
  <1>1. /\ st.buf \in Seq(Byte(M)) /\ st.out \in Seq(Seq(Byte(M))) /\ st.stop \in BOOLEAN
        /\ Len(st.buf) \in Nat
    BY DEF Parsing
  <1>2. ParseFrame(st) = IF st.stop \/ Len(st.buf) < 2 THEN Wait
                         ELSE IF Len(st.buf) < HeaderLen(b) THEN Wait
                         ELSE IF Refused(b.len) THEN Clear
                         ELSE IF Len(st.buf) < end THEN Wait
                         ELSE Take
    BY DEF ParseFrame
  <1>3. Wait \in Parsing(M) /\ Wait.stop = TRUE /\ Wait.buf = st.buf
    BY <1>1 DEF Parsing
  <1>. HIDE DEF Wait
  <1>4. Clear \in Parsing(M) /\ Clear.stop = TRUE /\ Clear.buf = <<>>
    <2>1. <<>> \in Seq(Byte(M))
      OBVIOUS
    <2>2. Clear \in Parsing(M)
      BY <1>3, <2>1 DEF Parsing
    <2>3. Clear.stop = TRUE
      BY <1>3 DEF Parsing
    <2>4. Clear.buf = <<>>
      BY <1>3 DEF Parsing
    <2>. QED BY <2>2, <2>3, <2>4
  <1>. HIDE DEF Clear
  <1>5. CASE st.stop
    BY <1>2, <1>3, <1>5
  <1>6. CASE ~st.stop /\ Len(st.buf) < 2
    <2>1. ParseFrame(st) = Wait
      BY <1>2, <1>6
    <2>. QED BY <1>3, <1>6, <2>1 DEF Bounded
  <1>7. CASE ~st.stop /\ ~(Len(st.buf) < 2)
    <2>1. b \in Byte(M)
      BY <1>1, <1>7
    <2>2. /\ HeaderLen(b) \in Nat /\ start \in Nat /\ b.len \in Nat
          /\ 2 <= HeaderLen(b) /\ HeaderLen(b) <= start
      BY <2>1, HeaderBounds
    <2>. HIDE DEF b, start, Wait, Clear, Take
    <2>3. CASE Len(st.buf) < HeaderLen(b)
      <3>1. ParseFrame(st) = Wait
        BY <1>2, <1>7, <2>3
      <3>2. cap > 0 => Len(st.buf) < start + cap
        BY <1>1, <2>2, <2>3
      <3>3. cap > 0 => Bounded(st.buf)
        BY <3>2 DEF Bounded, b, start
      <3>. QED BY <1>3, <1>7, <3>1, <3>3
    <2>4. CASE ~(Len(st.buf) < HeaderLen(b)) /\ Refused(b.len)
      <3>1. ParseFrame(st) = Clear
        BY <1>2, <1>7, <2>4
      <3>2. Bounded(<<>>)
        BY DEF Bounded
      <3>. QED BY <1>4, <1>7, <3>1, <3>2
    <2>5. CASE ~(Len(st.buf) < HeaderLen(b)) /\ ~Refused(b.len) /\ Len(st.buf) < end
      <3>1. ParseFrame(st) = Wait
        BY <1>2, <1>7, <2>5
      <3>2. cap > 0 => Len(st.buf) < start + cap
        BY <1>1, <2>2, <2>5 DEF Refused
      <3>3. cap > 0 => Bounded(st.buf)
        BY <3>2 DEF Bounded, b, start
      <3>. QED BY <1>3, <1>7, <3>1, <3>3
    <2>6. CASE ~(Len(st.buf) < HeaderLen(b)) /\ ~Refused(b.len) /\ ~(Len(st.buf) < end)
      <3>1. ParseFrame(st) = Take
        BY <1>2, <1>7, <2>6
      <3>. HIDE DEF end
      <3>2. end \in Nat /\ 2 <= end /\ end <= Len(st.buf)
        BY <1>1, <2>2, <2>6 DEF end
      <3>3. /\ SubSeq(st.buf, end + 1, Len(st.buf)) \in Seq(Byte(M))
            /\ Len(SubSeq(st.buf, end + 1, Len(st.buf))) = Len(st.buf) - end
        BY <1>1, <3>2
      <3>4. SubSeq(st.buf, start + 1, end) \in Seq(Byte(M))
        BY <1>1, <2>2, <3>2
      <3>5. Append(st.out, SubSeq(st.buf, start + 1, end)) \in Seq(Seq(Byte(M)))
        BY <1>1, <3>4
      <3>6. /\ Take \in Parsing(M) /\ Take.stop = FALSE
            /\ Take.buf = SubSeq(st.buf, end + 1, Len(st.buf))
        BY <1>1, <3>3, <3>5 DEF Take, Parsing
      <3>7. Len(Take.buf) + 2 <= Len(st.buf)
        BY <1>1, <3>2, <3>3, <3>6
      <3>. QED BY <1>7, <3>1, <3>6, <3>7
    <2>. QED BY <2>3, <2>4, <2>5, <2>6
  <1>. QED BY <1>1, <1>5, <1>6, <1>7

-----------------------------------------------------------------------------
(* The parser's loop.                                                      *)

Start(bytes) == [buf |-> bytes, out |-> <<>>, stop |-> FALSE]

\* f holds the states of the loop on these bytes up to round n.
Rounds(f, M, bytes, n) ==
    /\ f \in [0 .. n -> Parsing(M)] /\ f[0] = Start(bytes)
    /\ \A i \in 1 .. n : f[i] = ParseFrame(f[i - 1])

LEMMA RoundsExist ==
    ASSUME NEW M, NEW bytes \in Seq(Byte(M)), NEW n \in Nat, cap \in Nat
    PROVE  \E f : Rounds(f, M, bytes, n)
  <1>. DEFINE S == {m \in Nat : \E f : Rounds(f, M, bytes, m)}
  <1>1. 0 \in S
    <2>1. Start(bytes) \in Parsing(M)
      BY DEF Start, Parsing
    <2>2. Rounds([i \in 0 .. 0 |-> Start(bytes)], M, bytes, 0)
      BY <2>1 DEF Rounds
    <2>. QED BY <2>2
  <1>2. ASSUME NEW m \in S PROVE m + 1 \in S
    <2>1. PICK f : Rounds(f, M, bytes, m)
      OBVIOUS
    <2>. DEFINE h == [i \in 0 .. m + 1 |-> IF i = m + 1 THEN ParseFrame(f[m]) ELSE f[i]]
    <2>2. /\ f \in [0 .. m -> Parsing(M)] /\ f[0] = Start(bytes) /\ m \in Nat
          /\ \A i \in 1 .. m : f[i] = ParseFrame(f[i - 1])
      BY <2>1 DEF Rounds
    <2>3. ParseFrame(f[m]) \in Parsing(M)
      <3>1. f[m] \in Parsing(M)
        BY <2>2
      <3>. QED BY <3>1, ParseFrameStep
    <2>4. h \in [0 .. m + 1 -> Parsing(M)] /\ h[0] = Start(bytes)
      BY <2>2, <2>3
    <2>5. ASSUME NEW i \in 1 .. m + 1 PROVE h[i] = ParseFrame(h[i - 1])
      <3>1. h[i - 1] = f[i - 1] /\ i \in 0 .. m + 1
        BY <2>2
      <3>2. CASE i = m + 1
        BY <2>2, <3>1, <3>2
      <3>3. CASE i # m + 1
        <4>1. h[i] = f[i] /\ i \in 1 .. m
          BY <2>2, <3>1, <3>3
        <4>. HIDE DEF h
        <4>. QED BY <2>2, <3>1, <4>1
      <3>. QED BY <3>2, <3>3
    <2>. HIDE DEF h
    <2>6. Rounds(h, M, bytes, m + 1)
      BY <2>4, <2>5 DEF Rounds
    <2>. QED BY <2>2, <2>6
  <1>. HIDE DEF S
  <1>3. S = Nat
    BY <1>1, <1>2, SetInduction DEF S
  <1>4. n \in S
    BY <1>3
  <1>. QED BY <1>4 DEF S

\* What holds after each round: the loop has stopped with a bounded buffer, or it
\* has taken two bytes a round.
RoundInv(st, M, bytes, m) ==
    /\ st \in Parsing(M)
    /\ st.stop \/ Len(st.buf) + 2 * m <= Len(bytes)
    /\ st.stop /\ cap > 0 => Bounded(st.buf)

LEMMA RoundStep ==
    ASSUME NEW M, NEW bytes \in Seq(Byte(M)), NEW st, NEW m \in Nat, cap \in Nat,
           RoundInv(st, M, bytes, m)
    PROVE  RoundInv(ParseFrame(st), M, bytes, m + 1)
  <1>. DEFINE next == ParseFrame(st)
  <1>1. /\ st \in Parsing(M) /\ st.stop \in BOOLEAN /\ Len(st.buf) \in Nat /\ Len(bytes) \in Nat
        /\ st.stop \/ Len(st.buf) + 2 * m <= Len(bytes)
        /\ st.stop /\ cap > 0 => Bounded(st.buf)
    BY DEF RoundInv, Parsing
  <1>2. /\ next \in Parsing(M)
        /\ st.stop => next.stop /\ next.buf = st.buf
        /\ ~next.stop => Len(next.buf) + 2 <= Len(st.buf)
        /\ ~st.stop /\ next.stop /\ cap > 0 => Bounded(next.buf)
    BY <1>1, ParseFrameStep
  <1>. HIDE DEF next
  <1>3. Len(next.buf) \in Nat /\ next.stop \in BOOLEAN
    BY <1>2 DEF Parsing
  <1>4. next.stop /\ cap > 0 => Bounded(next.buf)
    BY <1>1, <1>2
  <1>5. next.stop \/ Len(next.buf) + 2 * (m + 1) <= Len(bytes)
    <2>. SUFFICES ASSUME ~next.stop PROVE Len(next.buf) + 2 * (m + 1) <= Len(bytes)
      OBVIOUS
    <2>1. Len(next.buf) + 2 <= Len(st.buf) /\ Len(st.buf) + 2 * m <= Len(bytes)
      BY <1>1, <1>2
    <2>2. ASSUME NEW x \in Nat, NEW y \in Nat, NEW z \in Nat, x + 2 <= y, y + 2 * m <= z
          PROVE  x + 2 * (m + 1) <= z
      BY <2>2
    <2>. QED BY <1>1, <1>3, <2>1, <2>2
  <1>. QED BY <1>2, <1>4, <1>5 DEF RoundInv, next

\* Parse leaves a sequence of bytes that is within the bound.
LEMMA ParseLeaves ==
    ASSUME NEW M, NEW bytes \in Seq(Byte(M)), cap \in Nat
    PROVE  /\ Parse(bytes).buf \in Seq(Byte(M))
           /\ cap > 0 => Bounded(Parse(bytes).buf)
  <1>. DEFINE n == 1 + Len(bytes) \div 2
              E(a) == a = [i \in 0 .. n |-> IF i = 0 THEN Start(bytes)
                                            ELSE ParseFrame(a[i - 1])]
              st == CHOOSE a : E(a)
  <1>1. Len(bytes) \in Nat /\ n \in Nat /\ 2 * n > Len(bytes)
    OBVIOUS
  <1>2. Parse(bytes) = st[n]
    BY Zenon DEF Parse, Start
  <1>. HIDE DEF n
  <1>3. PICK f : Rounds(f, M, bytes, n)
    BY <1>1, RoundsExist
  <1>4. E(f)
    BY <1>1, <1>3 DEF Rounds
  <1>5. E(st)
    BY <1>4, Zenon
  <1>. HIDE DEF st
  <1>6. st[0] = Start(bytes) /\ \A i \in 1 .. n : st[i] = ParseFrame(st[i - 1])
    BY <1>1, <1>5
  <1>. DEFINE S == {m \in Nat : m <= n => RoundInv(st[m], M, bytes, m)}
  <1>7. 0 \in S
    <2>1. Start(bytes) \in Parsing(M) /\ Start(bytes).stop = FALSE /\ Start(bytes).buf = bytes
      BY DEF Start, Parsing
    <2>2. RoundInv(Start(bytes), M, bytes, 0)
      BY <1>1, <2>1 DEF RoundInv
    <2>. QED BY <1>6, <2>2
  <1>8. ASSUME NEW m \in S PROVE m + 1 \in S
    <2>. SUFFICES ASSUME m + 1 <= n PROVE RoundInv(st[m + 1], M, bytes, m + 1)
      OBVIOUS
    <2>1. m \in Nat /\ m + 1 \in 1 .. n /\ (m + 1) - 1 = m /\ RoundInv(st[m], M, bytes, m)
      BY <1>1
    <2>2. st[m + 1] = ParseFrame(st[m])
      BY <1>6, <2>1
    <2>. QED BY <2>1, <2>2, RoundStep
  <1>. HIDE DEF S
  <1>9. S = Nat
    BY <1>7, <1>8, SetInduction DEF S
  <1>10. RoundInv(st[n], M, bytes, n)
    BY <1>1, <1>9 DEF S
  <1>11. st[n].buf \in Seq(Byte(M)) /\ Len(st[n].buf) \in Nat /\ st[n].stop \in BOOLEAN
    BY <1>10 DEF RoundInv, Parsing
  <1>12. st[n].stop
    <2>1. st[n].stop \/ Len(st[n].buf) + 2 * n <= Len(bytes)
      BY <1>10 DEF RoundInv
    <2>2. ASSUME NEW x \in Nat PROVE ~(x + 2 * n <= Len(bytes))
      BY <1>1
    <2>. QED BY <1>11, <2>1, <2>2
  <1>. QED BY <1>2, <1>10, <1>11, <1>12 DEF RoundInv

-----------------------------------------------------------------------------
(* The wires and the buffers.                                              *)

\* Both carry bytes of some set of messages.
BytesInv ==
    /\ cap \in Nat
    /\ \E M : wire \in [Direction -> Seq(Byte(M))] /\ buf \in [Direction -> Seq(Byte(M))]

ParserInv == BytesInv /\ BufferBounded

LEMMA SeqMono ==
    ASSUME NEW M, NEW N, M \subseteq N
    PROVE  [Direction -> Seq(Byte(M))] \subseteq [Direction -> Seq(Byte(N))]
  <1>1. Byte(M) \subseteq Byte(N)
    BY DEF Byte
  <1>2. Seq(Byte(M)) \subseteq Seq(Byte(N))
    BY <1>1
  <1>. QED BY <1>2

LEMMA EncodeType ==
    ASSUME NEW d \in Direction, NEW M, NEW m \in M, NEW len \in PayloadLen[d]
    PROVE  Encode(d, m, len) \in Seq(Byte(M))
  <1>. DEFINE b2 == LengthByte(d, len)
              start == PayloadStart(b2)
              at(i) == [op |-> IF i = 1 THEN "text" ELSE "binary",
                        form |-> IF i = 2 THEN b2.form ELSE "7 bits",
                        len |-> IF i = 2 THEN len ELSE 1,
                        masked |-> i = 2 /\ b2.masked,
                        part |-> i - start, of |-> len, msg |-> m]
  <1>1. len \in Nat
    BY WsAssumption DEF Direction
  <1>2. b2.form \in {"7 bits", "16 bits", "64 bits"} /\ b2.masked \in BOOLEAN
    BY DEF LengthByte
  <1>3. start \in Nat
    <2>. DEFINE h == HeaderLen(b2)
    <2>1. h \in {2, 4, 10}
      BY <1>2 DEF HeaderLen
    <2>2. start = h + 0 \/ start = h + 4
      BY <1>2, Zenon DEF PayloadStart
    <2>. HIDE DEF h, start
    <2>. QED BY <2>1, <2>2
  <1>. HIDE DEF b2, start
  <1>4. ASSUME NEW i \in 1 .. start + len PROVE at(i) \in Byte(M)
    <2>1. ASSUME NEW o \in {"text", "binary"}, NEW f \in {"7 bits", "16 bits", "64 bits"},
                 NEW l \in Nat, NEW k \in BOOLEAN, NEW p \in Int
          PROVE  [op |-> o, form |-> f, len |-> l, masked |-> k, part |-> p, of |-> len,
                  msg |-> m] \in Byte(M)
      BY <1>1 DEF Byte
    <2>2. /\ (IF i = 1 THEN "text" ELSE "binary") \in {"text", "binary"}
          /\ (IF i = 2 THEN b2.form ELSE "7 bits") \in {"7 bits", "16 bits", "64 bits"}
          /\ (i = 2 /\ b2.masked) \in BOOLEAN
      BY <1>2, Zenon
    <2>3. (IF i = 2 THEN len ELSE 1) \in Nat /\ i - start \in Int
      BY <1>1, <1>3
    <2>. QED BY <2>1, <2>2, <2>3
  <1>5. Encode(d, m, len) = [i \in 1 .. start + len |-> at(i)]
    BY DEF Encode, b2, start
  <1>. HIDE DEF at
  <1>6. [i \in 1 .. start + len |-> at(i)] \in Seq(Byte(M))
    BY <1>1, <1>3, <1>4
  <1>. QED BY <1>5, <1>6

LEMMA InitParser == Init => ParserInv
  <1>. SUFFICES ASSUME Init PROVE ParserInv
    OBVIOUS
  <1>1. cap \in Nat
    BY WsAssumption DEF Init
  <1>2. wire \in [Direction -> Seq(Byte({}))] /\ buf \in [Direction -> Seq(Byte({}))]
    BY DEF Init
  <1>3. \A d \in Direction : Len(buf[d]) = 0
    BY DEF Init
  <1>4. BytesInv
    BY <1>1, <1>2 DEF BytesInv
  <1>5. BufferBounded
    BY <1>3 DEF BufferBounded
  <1>. QED BY <1>4, <1>5 DEF ParserInv

\* Sending adds the bytes of one more message.
LEMMA SendParser ==
    ASSUME ParserInv, NEW d \in Direction, NEW m, Send(d, m), UNCHANGED <<cap, buf>>
    PROVE  ParserInv'
  <1>1. PICK M : wire \in [Direction -> Seq(Byte(M))] /\ buf \in [Direction -> Seq(Byte(M))]
    BY DEF ParserInv, BytesInv
  <1>. DEFINE N == M \cup {m}
  <1>2. wire \in [Direction -> Seq(Byte(N))] /\ buf \in [Direction -> Seq(Byte(N))]
    BY <1>1, SeqMono
  <1>3. m \in N
    OBVIOUS
  <1>. HIDE DEF N
  <1>4. PICK len \in PayloadLen[d] : wire' = [wire EXCEPT ![d] = @ \o Encode(d, m, len)]
    BY DEF Send
  <1>5. Encode(d, m, len) \in Seq(Byte(N))
    BY <1>3, EncodeType
  <1>6. wire[d] \o Encode(d, m, len) \in Seq(Byte(N))
    BY <1>2, <1>5
  <1>7. wire' \in [Direction -> Seq(Byte(N))]
    BY <1>2, <1>4, <1>6
  <1>8. BytesInv'
    BY <1>2, <1>7 DEF ParserInv, BytesInv
  <1>9. BufferBounded'
    BY DEF ParserInv, BufferBounded, PayloadStart, HeaderLen
  <1>. QED BY <1>8, <1>9 DEF ParserInv

\* Bytes that pass go through the parser of their direction.
LEMMA PassParser ==
    ASSUME ParserInv, NEW d \in Direction, NEW n \in 1 .. Len(wire[d]),
           wire' = [wire EXCEPT ![d] = SubSeq(@, n + 1, Len(@))],
           buf' = [buf EXCEPT ![d] = Parse(buf[d] \o SubSeq(wire[d], 1, n)).buf],
           UNCHANGED cap
    PROVE  ParserInv'
  <1>1. PICK M : wire \in [Direction -> Seq(Byte(M))] /\ buf \in [Direction -> Seq(Byte(M))]
    BY DEF ParserInv, BytesInv
  <1>. DEFINE all == buf[d] \o SubSeq(wire[d], 1, n)
              left == Parse(all).buf
  <1>2. cap \in Nat
    BY DEF ParserInv, BytesInv
  <1>3. /\ wire[d] \in Seq(Byte(M)) /\ buf[d] \in Seq(Byte(M)) /\ n \in Nat
        /\ n <= Len(wire[d]) /\ Len(wire[d]) \in Nat
    BY <1>1
  <1>4. SubSeq(wire[d], 1, n) \in Seq(Byte(M)) /\ SubSeq(wire[d], n + 1, Len(wire[d])) \in Seq(Byte(M))
    BY <1>3
  <1>5. all \in Seq(Byte(M))
    BY <1>3, <1>4
  <1>. HIDE DEF all
  <1>6. left \in Seq(Byte(M)) /\ (cap > 0 => Bounded(left))
    BY <1>2, <1>5, ParseLeaves
  <1>7. buf' = [buf EXCEPT ![d] = left]
    BY DEF all
  <1>. HIDE DEF left
  <1>8. wire' \in [Direction -> Seq(Byte(M))] /\ buf' \in [Direction -> Seq(Byte(M))]
    BY <1>1, <1>4, <1>6, <1>7
  <1>9. BytesInv'
    BY <1>2, <1>8 DEF BytesInv
  <1>10. ASSUME cap > 0, NEW e \in Direction PROVE Bounded(buf'[e])
    <2>1. CASE e = d
      BY <1>1, <1>6, <1>7, <1>10, <2>1
    <2>2. CASE e # d
      <3>1. buf'[e] = buf[e]
        BY <1>1, <1>7, <2>2
      <3>2. Bounded(buf[e])
        BY <1>10 DEF ParserInv, BufferBounded, Bounded
      <3>. QED BY <3>1, <3>2
    <2>. QED BY <2>1, <2>2
  <1>11. BufferBounded'
    BY <1>10 DEF BufferBounded, Bounded, PayloadStart, HeaderLen
  <1>. QED BY <1>9, <1>11 DEF ParserInv

LEMMA StepParser ==
    ASSUME ParserInv, [Next]_vars
    PROVE  ParserInv'
  <1>1. ASSUME NEW d \in Direction, NEW m, Send(d, m), UNCHANGED <<cap, buf>> PROVE ParserInv'
    BY <1>1, SendParser
  <1>2. CASE ClientCreates
    <2>1. Send("client", Msg("create", asked + 1, 0)) /\ UNCHANGED <<cap, buf>>
      BY <1>2 DEF ClientCreates
    <2>. QED BY <1>1, <2>1 DEF Direction
  <1>3. CASE ServerOther
    <2>1. Send("server", Msg("other", None, others + 1)) /\ UNCHANGED <<cap, buf>>
      BY <1>3 DEF ServerOther
    <2>. QED BY <1>1, <2>1 DEF Direction
  <1>4. ASSUME NEW kind \in {"delta", "item", "done"}, ServerResponds(kind) PROVE ParserInv'
    <2>1. Send("server", Msg(kind, known, Len(said[known]) + 1)) /\ UNCHANGED <<cap, buf>>
      BY <1>4 DEF ServerResponds
    <2>. QED BY <1>1, <2>1 DEF Direction
  <1>5. ASSUME NEW n \in 1 .. Len(wire["client"]), RequestBodyFilter(n) PROVE ParserInv'
    <2>1. /\ wire' = [wire EXCEPT !["client"] = SubSeq(@, n + 1, Len(@))]
          /\ buf' = [buf EXCEPT !["client"] =
                       Parse(buf["client"] \o SubSeq(wire["client"], 1, n)).buf]
          /\ UNCHANGED cap
      BY <1>5, Zenon DEF RequestBodyFilter
    <2>. QED BY <2>1, PassParser DEF Direction
  <1>6. ASSUME NEW n \in 1 .. Len(wire["server"]), ResponseBodyFilter(n) PROVE ParserInv'
    <2>1. /\ wire' = [wire EXCEPT !["server"] = SubSeq(@, n + 1, Len(@))]
          /\ buf' = [buf EXCEPT !["server"] =
                       Parse(buf["server"] \o SubSeq(wire["server"], 1, n)).buf]
          /\ UNCHANGED cap
      BY <1>6, Zenon DEF ResponseBodyFilter
    <2>. QED BY <2>1, PassParser DEF Direction
  <1>7. CASE UNCHANGED vars
    BY <1>7 DEF vars, ParserInv, BytesInv, BufferBounded, PayloadStart, HeaderLen
  <1>. QED BY <1>2, <1>3, <1>4, <1>5, <1>6, <1>7 DEF Next

\* WsFrameParser with server.max_ws_frame_payload retains less than one header and
\* one payload within the cap in each direction, for every cap, whatever lengths
\* frames declare, however the bytes are cut and wherever parsing resumes after a
\* refused frame.
THEOREM BuffersAlwaysBounded == Spec => []BufferBounded
  <1>1. ParserInv /\ [Next]_vars => ParserInv'
    BY StepParser
  <1>2. ParserInv => BufferBounded
    BY DEF ParserInv
  <1>. QED BY <1>1, <1>2, InitParser, PTL DEF Spec

-----------------------------------------------------------------------------
(* The events of some kinds.                                               *)

\* f keeps those of the first n, one by one.
Keep(m, K) == IF m.kind \in K THEN <<m>> ELSE <<>>
Sifting(f, e, n, K) ==
    /\ f = [i \in 0 .. n |-> f[i]] /\ f[0] = <<>>
    /\ \A i \in 1 .. n : f[i] = f[i - 1] \o Keep(e[i], K)

LEMMA KeepType ==
    ASSUME NEW M, NEW m \in M, NEW K
    PROVE  Keep(m, K) \in Seq(M)
  <1>1. <<>> \in Seq(M) /\ <<m>> \in Seq(M)
    OBVIOUS
  <1>. QED BY <1>1, Zenon DEF Keep

LEMMA SiftingExists ==
    ASSUME NEW e, NEW n \in Nat, NEW K
    PROVE  \E f : Sifting(f, e, n, K)
  <1>. DEFINE S == {m \in Nat : \E f : Sifting(f, e, m, K)}
  <1>1. 0 \in S
    <2>1. Sifting([i \in 0 .. 0 |-> <<>>], e, 0, K)
      BY DEF Sifting
    <2>. QED BY <2>1
  <1>2. ASSUME NEW m \in S PROVE m + 1 \in S
    <2>1. PICK f : Sifting(f, e, m, K)
      OBVIOUS
    <2>. DEFINE x == f[m] \o Keep(e[m + 1], K)
                h == [i \in 0 .. m + 1 |-> IF i = m + 1 THEN x ELSE f[i]]
    <2>2. m \in Nat /\ f[0] = <<>> /\ \A i \in 1 .. m : f[i] = f[i - 1] \o Keep(e[i], K)
      BY <2>1 DEF Sifting
    <2>. HIDE DEF x
    <2>3. h[0] = <<>> /\ h[m + 1] = x /\ \A i \in 0 .. m : h[i] = f[i]
      BY <2>2
    <2>4. h = [i \in 0 .. m + 1 |-> h[i]]
      OBVIOUS
    <2>. HIDE DEF h
    <2>5. ASSUME NEW i \in 1 .. m + 1 PROVE h[i] = h[i - 1] \o Keep(e[i], K)
      <3>1. CASE i = m + 1
        <4>1. i - 1 = m /\ m \in 0 .. m
          BY <2>2, <3>1
        <4>. QED BY <2>3, <3>1, <4>1, Zenon DEF x
      <3>2. CASE i # m + 1
        <4>1. i \in 1 .. m /\ i \in 0 .. m /\ i - 1 \in 0 .. m
          BY <2>2, <3>2
        <4>. QED BY <2>2, <2>3, <4>1, Zenon
      <3>. QED BY <3>1, <3>2
    <2>6. Sifting(h, e, m + 1, K)
      BY <2>3, <2>4, <2>5, Zenon DEF Sifting
    <2>. QED BY <2>2, <2>6
  <1>. HIDE DEF S
  <1>3. S = Nat
    BY <1>1, <1>2, SetInduction DEF S
  <1>. QED BY <1>3 DEF S

LEMMA OfKindSteps ==
    ASSUME NEW e, NEW K, Len(e) \in Nat
    PROVE  \E f : Sifting(f, e, Len(e), K) /\ OfKind(e, K) = f[Len(e)]
  <1>. DEFINE n == Len(e)
              E(a) == a = [i \in 0 .. n |-> IF i = 0 THEN <<>> ELSE a[i - 1] \o Keep(e[i], K)]
              st == CHOOSE a : E(a)
  <1>1. OfKind(e, K) = st[n]
    BY Zenon DEF OfKind, Keep
  <1>. HIDE DEF n
  <1>2. PICK f : Sifting(f, e, n, K)
    BY SiftingExists DEF n
  <1>3. E(f)
    <2>1. /\ f = [i \in 0 .. n |-> f[i]] /\ f[0] = <<>>
          /\ \A i \in 1 .. n : f[i] = f[i - 1] \o Keep(e[i], K)
      BY <1>2, Zenon DEF Sifting
    <2>2. \A i \in 0 .. n : i # 0 => i \in 1 .. n
      BY DEF n
    <2>3. \A i \in 0 .. n : f[i] = IF i = 0 THEN <<>> ELSE f[i - 1] \o Keep(e[i], K)
      BY <2>1, <2>2, Zenon
    <2>. QED BY <2>1, <2>3, Zenon
  <1>4. E(st)
    BY <1>3, Zenon
  <1>. HIDE DEF st
  <1>5. n \in Nat
    BY DEF n
  <1>6. st = [i \in 0 .. n |-> st[i]] /\ st[0] = <<>>
    BY <1>4, <1>5
  <1>7. ASSUME NEW i \in 1 .. n PROVE st[i] = st[i - 1] \o Keep(e[i], K)
    <2>1. i \in 0 .. n /\ i # 0
      BY <1>5
    <2>. QED BY <1>4, <2>1
  <1>. QED BY <1>1, <1>6, <1>7, Zenon DEF Sifting, n

LEMMA SiftingType ==
    ASSUME NEW M, NEW n \in Nat, NEW e, \A i \in 1 .. n : e[i] \in M, NEW K,
           NEW f, Sifting(f, e, n, K)
    PROVE  \A k \in 0 .. n : f[k] \in Seq(M)
  <1>. DEFINE S == {k \in Nat : k <= n => f[k] \in Seq(M)}
  <1>1. 0 \in S
    BY DEF Sifting
  <1>2. ASSUME NEW k \in S PROVE k + 1 \in S
    <2>. SUFFICES ASSUME k + 1 <= n PROVE f[k + 1] \in Seq(M)
      OBVIOUS
    <2>1. k + 1 \in 1 .. n /\ (k + 1) - 1 = k /\ f[k] \in Seq(M)
      BY <1>1
    <2>2. f[k + 1] = f[(k + 1) - 1] \o Keep(e[k + 1], K)
      BY <2>1, Zenon DEF Sifting
    <2>3. Keep(e[k + 1], K) \in Seq(M)
      BY <2>1, KeepType
    <2>. QED BY <2>1, <2>2, <2>3, ConcatProperties
  <1>. HIDE DEF S
  <1>3. S = Nat
    BY <1>1, <1>2, SetInduction DEF S
  <1>. QED BY <1>3 DEF S

LEMMA OfKindType ==
    ASSUME NEW M, NEW e \in Seq(M), NEW K
    PROVE  OfKind(e, K) \in Seq(M)
  <1>1. Len(e) \in Nat /\ Len(e) \in 0 .. Len(e) /\ \A i \in 1 .. Len(e) : e[i] \in M
    OBVIOUS
  <1>2. PICK f : Sifting(f, e, Len(e), K) /\ OfKind(e, K) = f[Len(e)]
    BY <1>1, OfKindSteps
  <1>. QED BY <1>1, <1>2, SiftingType

LEMMA OfKindNothing ==
    ASSUME NEW K
    PROVE  OfKind(<<>>, K) = <<>>
  <1>1. Len(<<>>) = 0
    OBVIOUS
  <1>2. PICK f : Sifting(f, <<>>, 0, K) /\ OfKind(<<>>, K) = f[0]
    BY <1>1, OfKindSteps
  <1>. QED BY <1>2 DEF Sifting

LEMMA OfKindConcat ==
    ASSUME NEW M, NEW a \in Seq(M), NEW b \in Seq(M), NEW K
    PROVE  OfKind(a \o b, K) = OfKind(a, K) \o OfKind(b, K)
  <1>. DEFINE r == a \o b
              m == Len(a)
              n == Len(b)
  <1>1. /\ m \in Nat /\ n \in Nat /\ r \in Seq(M) /\ Len(r) = m + n
        /\ \A i \in 1 .. m : r[i] = a[i] /\ a[i] \in M
    OBVIOUS
  <1>2. ASSUME NEW i \in 1 .. n PROVE r[m + i] = b[i] /\ b[i] \in M
    OBVIOUS
  <1>. HIDE DEF r, m, n
  <1>3. PICK f : Sifting(f, r, m + n, K) /\ OfKind(r, K) = f[m + n]
    BY <1>1, OfKindSteps
  <1>4. PICK g : Sifting(g, a, m, K) /\ OfKind(a, K) = g[m]
    BY <1>1, OfKindSteps DEF m
  <1>5. PICK h : Sifting(h, b, n, K) /\ OfKind(b, K) = h[n]
    BY <1>1, OfKindSteps DEF n
  <1>6. f[m] = g[m]
    <2>. DEFINE S == {k \in Nat : k <= m => f[k] = g[k]}
    <2>1. 0 \in S
      BY <1>3, <1>4 DEF Sifting
    <2>2. ASSUME NEW k \in S PROVE k + 1 \in S
      <3>. SUFFICES ASSUME k + 1 <= m PROVE f[k + 1] = g[k + 1]
        OBVIOUS
      <3>1. k + 1 \in 1 .. m /\ k + 1 \in 1 .. m + n /\ (k + 1) - 1 = k /\ f[k] = g[k]
        BY <1>1
      <3>2. f[k + 1] = f[(k + 1) - 1] \o Keep(r[k + 1], K)
        BY <1>3, <3>1, Zenon DEF Sifting
      <3>3. g[k + 1] = g[(k + 1) - 1] \o Keep(a[k + 1], K)
        BY <1>4, <3>1, Zenon DEF Sifting
      <3>. QED BY <1>1, <3>1, <3>2, <3>3, Zenon
    <2>. HIDE DEF S
    <2>3. S = Nat
      BY <2>1, <2>2, SetInduction DEF S
    <2>. QED BY <1>1, <2>3 DEF S
  <1>7. g[m] \in Seq(M) /\ \A k \in 0 .. n : h[k] \in Seq(M)
    <2>1. m \in 0 .. m
      BY <1>1
    <2>2. \A k \in 0 .. m : g[k] \in Seq(M)
      BY <1>1, <1>4, SiftingType
    <2>3. \A k \in 0 .. n : h[k] \in Seq(M)
      BY <1>1, <1>2, <1>5, SiftingType
    <2>. QED BY <2>1, <2>2, <2>3
  <1>8. f[m + n] = g[m] \o h[n]
    <2>. DEFINE P(k) == f[m + k] = g[m] \o h[k]
                S == {k \in Nat : k <= n => P(k)}
    <2>1. 0 \in S
      <3>1. h[0] = <<>> /\ m + 0 = m
        BY <1>1, <1>5 DEF Sifting
      <3>2. P(0)
        BY <1>6, <1>7, <3>1
      <3>. HIDE DEF P
      <3>. QED BY <3>2
    <2>2. ASSUME NEW k \in S PROVE k + 1 \in S
      <3>. HIDE DEF P
      <3>. SUFFICES ASSUME k + 1 <= n PROVE P(k + 1)
        OBVIOUS
      <3>0. k \in Nat /\ P(k)
        BY <1>1
      <3>1. /\ k + 1 \in 1 .. n /\ m + (k + 1) \in 1 .. m + n /\ (k + 1) - 1 = k
            /\ (m + (k + 1)) - 1 = m + k /\ k \in 0 .. n
        BY <1>1, <3>0
      <3>2. f[m + (k + 1)] = f[(m + (k + 1)) - 1] \o Keep(r[m + (k + 1)], K)
        BY <1>3, <3>1, Zenon DEF Sifting
      <3>3. h[k + 1] = h[(k + 1) - 1] \o Keep(b[k + 1], K)
        BY <1>5, <3>1, Zenon DEF Sifting
      <3>4. r[m + (k + 1)] = b[k + 1] /\ Keep(b[k + 1], K) \in Seq(M)
        BY <1>2, <3>1, KeepType
      <3>5. f[m + (k + 1)] = (g[m] \o h[k]) \o Keep(b[k + 1], K)
        BY <3>0, <3>1, <3>2, <3>4, Zenon DEF P
      <3>6. h[k + 1] = h[k] \o Keep(b[k + 1], K)
        BY <3>1, <3>3, Zenon
      <3>7. ASSUME NEW x \in Seq(M), NEW y \in Seq(M), NEW z \in Seq(M)
            PROVE  (x \o y) \o z = x \o (y \o z)
        BY ConcatAssociative
      <3>8. (g[m] \o h[k]) \o Keep(b[k + 1], K) = g[m] \o (h[k] \o Keep(b[k + 1], K))
        BY <1>7, <3>1, <3>4, <3>7
      <3>. QED BY <3>5, <3>6, <3>8, Zenon DEF P
    <2>. HIDE DEF S, P
    <2>3. S = Nat
      BY <2>1, <2>2, SetInduction DEF S
    <2>4. P(n)
      BY <1>1, <2>3 DEF S
    <2>. QED BY <2>4 DEF P
  <1>. QED BY <1>3, <1>4, <1>5, <1>8 DEF r

\* One event.
LEMMA OfKindOne ==
    ASSUME NEW M, NEW m \in M, NEW K
    PROVE  OfKind(<<m>>, K) = Keep(m, K)
  <1>. DEFINE e == <<m>>
  <1>1. Len(e) = 1 /\ e[1] = m /\ 1 - 1 = 0 /\ 1 \in 1 .. 1
    OBVIOUS
  <1>. HIDE DEF e
  <1>9. Len(e) \in Nat
    BY <1>1
  <1>0. \E f : Sifting(f, e, Len(e), K) /\ OfKind(e, K) = f[Len(e)]
    BY <1>9, OfKindSteps, Zenon
  <1>2. PICK f : Sifting(f, e, 1, K) /\ OfKind(e, K) = f[1]
    BY <1>0, <1>1, Zenon
  <1>3. f[0] = <<>> /\ f[1] = f[1 - 1] \o Keep(e[1], K)
    BY <1>1, <1>2, Zenon DEF Sifting
  <1>4. f[1] = <<>> \o Keep(m, K)
    BY <1>1, <1>3, Zenon
  <1>5. Keep(m, K) \in Seq(M)
    BY KeepType
  <1>6. ASSUME NEW x \in Seq(M) PROVE <<>> \o x = x
    BY ConcatEmptySeq
  <1>7. <<>> \o Keep(m, K) = Keep(m, K)
    BY <1>5, <1>6, Zenon
  <1>. QED BY <1>2, <1>4, <1>7, Zenon DEF e

\* One event more, at the end or in front.
LEMMA OfKindAppend ==
    ASSUME NEW M, NEW e \in Seq(M), NEW m \in M, NEW K
    PROVE  OfKind(Append(e, m), K) = OfKind(e, K) \o Keep(m, K)
  <1>1. Append(e, m) = e \o <<m>> /\ <<m>> \in Seq(M)
    OBVIOUS
  <1>. DEFINE one == <<m>>
  <1>2. OfKind(one, K) = Keep(m, K) /\ one \in Seq(M)
    BY OfKindOne
  <1>. HIDE DEF one
  <1>3. OfKind(e \o one, K) = OfKind(e, K) \o OfKind(one, K)
    BY <1>2, OfKindConcat
  <1>. QED BY <1>1, <1>2, <1>3, Zenon DEF one

LEMMA OfKindFront ==
    ASSUME NEW M, NEW e \in Seq(M), NEW m \in M, NEW K
    PROVE  OfKind(<<m>> \o e, K) = Keep(m, K) \o OfKind(e, K)
  <1>. DEFINE one == <<m>>
  <1>1. one \in Seq(M)
    OBVIOUS
  <1>2. OfKind(one, K) = Keep(m, K)
    BY OfKindOne
  <1>. HIDE DEF one
  <1>3. OfKind(one \o e, K) = OfKind(one, K) \o OfKind(e, K)
    BY <1>1, OfKindConcat
  <1>. QED BY <1>2, <1>3, Zenon DEF one

\* A sequence that is not empty has a last element, and one before which it stands.
LEMMA LastApart ==
    ASSUME NEW M, NEW n \in Nat, NEW e \in Seq(M), Len(e) = n + 1
    PROVE  /\ SubSeq(e, 1, n) \in Seq(M) /\ Len(SubSeq(e, 1, n)) = n /\ e[n + 1] \in M
           /\ e = Append(SubSeq(e, 1, n), e[n + 1])
  <1>. DEFINE f == SubSeq(e, 1, n)
              m == e[n + 1]
  <1>1. f \in Seq(M) /\ Len(f) = n /\ m \in M /\ \A i \in 1 .. n : f[i] = e[i]
    OBVIOUS
  <1>. HIDE DEF f
  <1>2. e = Append(f, m)
    <2>1. /\ Append(f, m) \in Seq(M) /\ Len(Append(f, m)) = n + 1
          /\ \A i \in 1 .. n + 1 : Append(f, m)[i] = IF i = n + 1 THEN m ELSE f[i]
      BY <1>1
    <2>2. \A i \in 1 .. n + 1 : Append(f, m)[i] = e[i]
      BY <1>1, <2>1
    <2>. HIDE DEF m
    <2>. QED BY <2>1, <2>2, SeqEqual
  <1>. QED BY <1>1, <1>2 DEF f

\* Choosing twice.
LEMMA OfKindTwice ==
    ASSUME NEW M, NEW e \in Seq(M), NEW J, NEW K, K \subseteq J
    PROVE  OfKind(OfKind(e, J), K) = OfKind(e, K)
  <1>. DEFINE P(s) == OfKind(OfKind(s, J), K) = OfKind(s, K)
              S == {n \in Nat : \A s \in Seq(M) : Len(s) = n => P(s)}
  <1>1. 0 \in S
    <2>1. P(<<>>)
      BY OfKindNothing
    <2>2. \A s \in Seq(M) : Len(s) = 0 => s = <<>>
      OBVIOUS
    <2>. HIDE DEF P
    <2>. QED BY <2>1, <2>2
  <1>2. ASSUME NEW n \in S PROVE n + 1 \in S
    <2>. HIDE DEF P
    <2>. SUFFICES ASSUME NEW s \in Seq(M), Len(s) = n + 1 PROVE P(s)
      OBVIOUS
    <2>1. n \in Nat
      OBVIOUS
    <2>. DEFINE f == SubSeq(s, 1, n)
                m == s[n + 1]
    <2>2. f \in Seq(M) /\ Len(f) = n /\ m \in M /\ s = Append(f, m)
      BY <2>1, LastApart
    <2>. HIDE DEF f, m
    <2>3. P(f)
      BY <2>2
    <2>4. OfKind(s, J) = OfKind(f, J) \o Keep(m, J) /\ OfKind(s, K) = OfKind(f, K) \o Keep(m, K)
      BY <2>2, OfKindAppend
    <2>5. OfKind(f, J) \in Seq(M) /\ OfKind(f, K) \in Seq(M)
      BY <2>2, OfKindType
    <2>6. ASSUME NEW x \in Seq(M) PROVE x \o <<>> = x
      BY ConcatEmptySeq
    <2>7. CASE m.kind \in J
      <3>1. OfKind(s, J) = OfKind(f, J) \o <<m>>
        BY <2>4, <2>7, Zenon DEF Keep
      <3>2. ASSUME NEW x \in Seq(M) PROVE OfKind(x \o <<m>>, K) = OfKind(x, K) \o Keep(m, K)
        <4>1. x \o <<m>> = Append(x, m)
          BY <2>2
        <4>2. OfKind(Append(x, m), K) = OfKind(x, K) \o Keep(m, K)
          BY <2>2, OfKindAppend
        <4>. QED BY <4>1, <4>2, Zenon
      <3>3. OfKind(OfKind(s, J), K) = OfKind(OfKind(f, J), K) \o Keep(m, K)
        BY <2>5, <3>1, <3>2, Zenon
      <3>. QED BY <2>3, <2>4, <3>3, Zenon DEF P
    <2>8. CASE m.kind \notin J
      <3>1. Keep(m, J) = <<>> /\ Keep(m, K) = <<>>
        BY <2>8 DEF Keep
      <3>2. OfKind(s, J) = OfKind(f, J) /\ OfKind(s, K) = OfKind(f, K)
        BY <2>4, <2>5, <2>6, <3>1, Zenon
      <3>. QED BY <2>3, <3>2, Zenon DEF P
    <2>. QED BY <2>7, <2>8, Zenon
  <1>. HIDE DEF S, P
  <1>3. S = Nat
    BY <1>1, <1>2, SetInduction DEF S
  <1>4. P(e)
    <2>1. Len(e) \in Nat
      OBVIOUS
    <2>. QED BY <1>3, <2>1 DEF S
  <1>. QED BY <1>4 DEF P

\* The numbers of events, with one event more.
LEMMA NumbersAppend ==
    ASSUME NEW M, NEW e \in Seq(M), NEW m \in M
    PROVE  Numbers(Append(e, m)) = Append(Numbers(e), m.n)
  <1>. DEFINE N == {x.n : x \in M}
              a == Numbers(Append(e, m))
              b == Append(Numbers(e), m.n)
              l == Len(e)
  <1>1. /\ l \in Nat /\ Append(e, m) \in Seq(M) /\ Len(Append(e, m)) = l + 1
        /\ \A i \in 1 .. l + 1 : Append(e, m)[i] = IF i = l + 1 THEN m ELSE e[i]
    OBVIOUS
  <1>2. ASSUME NEW s \in Seq(M)
        PROVE  /\ Numbers(s) \in Seq(N) /\ Len(Numbers(s)) = Len(s)
               /\ \A i \in 1 .. Len(s) : Numbers(s)[i] = s[i].n
    <2>1. Len(s) \in Nat /\ DOMAIN s = 1 .. Len(s) /\ \A i \in 1 .. Len(s) : s[i].n \in N
      OBVIOUS
    <2>. HIDE DEF N
    <2>2. Numbers(s) = [i \in 1 .. Len(s) |-> s[i].n]
      BY <2>1 DEF Numbers
    <2>. QED BY <2>1, <2>2
  <1>3. m.n \in N
    OBVIOUS
  <1>. HIDE DEF N
  <1>4. a \in Seq(N) /\ Len(a) = l + 1 /\ \A i \in 1 .. l + 1 : a[i] = Append(e, m)[i].n
    BY <1>1, <1>2
  <1>5. Numbers(e) \in Seq(N) /\ Len(Numbers(e)) = l /\ \A i \in 1 .. l : Numbers(e)[i] = e[i].n
    BY <1>2
  <1>6. /\ b \in Seq(N) /\ Len(b) = l + 1
        /\ \A i \in 1 .. l + 1 : b[i] = IF i = l + 1 THEN m.n ELSE e[i].n
    BY <1>1, <1>3, <1>5
  <1>7. \A i \in 1 .. l + 1 : a[i] = b[i]
    BY <1>1, <1>4, <1>6, Zenon
  <1>. HIDE DEF a, b
  <1>8. a = b
    BY <1>4, <1>6, <1>7, SeqEqual
  <1>. QED BY <1>8 DEF a, b

LEMMA NumbersOfNothing == Numbers(<<>>) = <<>>
  BY DEF Numbers

\* The numbers of the events of some kinds, with one event more.
LEMMA NumbersOfMore ==
    ASSUME NEW M, NEW e \in Seq(M), NEW m \in M, NEW K
    PROVE  Numbers(OfKind(Append(e, m), K)) =
             IF m.kind \in K THEN Append(Numbers(OfKind(e, K)), m.n) ELSE Numbers(OfKind(e, K))
  <1>1. OfKind(e, K) \in Seq(M) /\ OfKind(Append(e, m), K) = OfKind(e, K) \o Keep(m, K)
    BY OfKindType, OfKindAppend
  <1>2. CASE m.kind \in K
    <2>1. ASSUME NEW x \in Seq(M) PROVE Numbers(x \o <<m>>) = Append(Numbers(x), m.n)
      <3>1. x \o <<m>> = Append(x, m)
        OBVIOUS
      <3>. QED BY <3>1, NumbersAppend, Zenon
    <2>2. Keep(m, K) = <<m>>
      BY <1>2, Zenon DEF Keep
    <2>. QED BY <1>1, <1>2, <2>1, <2>2, Zenon
  <1>3. CASE m.kind \notin K
    <2>1. ASSUME NEW x \in Seq(M) PROVE x \o <<>> = x
      BY ConcatEmptySeq
    <2>2. Keep(m, K) = <<>>
      BY <1>3, Zenon DEF Keep
    <2>. QED BY <1>1, <1>3, <2>1, <2>2, Zenon
  <1>. QED BY <1>2, <1>3, Zenon

-----------------------------------------------------------------------------
(* The frames the endpoints send.                                          *)

FrameStart(d, len) == PayloadStart(LengthByte(d, len))
FrameLen(d, len) == FrameStart(d, len) + len

LEMMA FrameSizes ==
    ASSUME NEW d \in Direction, NEW len \in PayloadLen[d]
    PROVE  /\ len \in Nat \ {0} /\ FrameStart(d, len) \in Nat /\ 2 <= FrameStart(d, len)
           /\ HeaderLen(LengthByte(d, len)) \in Nat
           /\ HeaderLen(LengthByte(d, len)) <= FrameStart(d, len)
           /\ FrameLen(d, len) \in Nat /\ FrameLen(d, len) = FrameStart(d, len) + len
  <1>. DEFINE b == LengthByte(d, len)
              h == HeaderLen(b)
              p == PayloadStart(b)
  <1>1. len \in Nat \ {0}
    BY WsAssumption DEF Direction
  <1>2. b.form \in {"7 bits", "16 bits", "64 bits"} /\ b.masked \in BOOLEAN
    BY DEF LengthByte
  <1>3. h \in {2, 4, 10}
    BY <1>2 DEF HeaderLen
  <1>4. p = h + 0 \/ p = h + 4
    BY <1>2, Zenon DEF PayloadStart
  <1>. HIDE DEF h, p
  <1>5. h \in Nat /\ p \in Nat /\ 2 <= h /\ h <= p
    BY <1>3, <1>4
  <1>6. p + len \in Nat /\ 2 <= p
    BY <1>1, <1>5
  <1>. QED BY <1>1, <1>5, <1>6, Zenon DEF h, p, FrameStart, FrameLen

\* What a frame says of itself, and what its bytes are of.
LEMMA EncodeShape ==
    ASSUME NEW d \in Direction, NEW M, NEW m \in M, NEW len \in PayloadLen[d]
    PROVE  LET e == Encode(d, m, len)
           IN  /\ e \in Seq(Byte(M)) /\ Len(e) = FrameLen(d, len)
               /\ e[1].op = "text" /\ e[2].len = len
               /\ HeaderLen(e[2]) = HeaderLen(LengthByte(d, len))
               /\ PayloadStart(e[2]) = FrameStart(d, len)
               /\ \A i \in 1 .. FrameLen(d, len) :
                    e[i].part = i - FrameStart(d, len) /\ e[i].of = len /\ e[i].msg = m
  <1>. DEFINE e == Encode(d, m, len)
              b2 == LengthByte(d, len)
              start == FrameStart(d, len)
              n == FrameLen(d, len)
              at(i) == [op |-> IF i = 1 THEN "text" ELSE "binary",
                        form |-> IF i = 2 THEN b2.form ELSE "7 bits",
                        len |-> IF i = 2 THEN len ELSE 1,
                        masked |-> i = 2 /\ b2.masked,
                        part |-> i - start, of |-> len, msg |-> m]
  <1>1. /\ len \in Nat \ {0} /\ start \in Nat /\ 2 <= start
        /\ n \in Nat /\ n = start + len
    BY FrameSizes
  <1>2. e \in Seq(Byte(M))
    BY EncodeType
  <1>3. e = [i \in 1 .. n |-> at(i)]
    BY DEF Encode, FrameStart, FrameLen
  <1>4. b2.masked \in BOOLEAN
    BY DEF LengthByte
  <1>. HIDE DEF n, start, b2
  <1>5. 1 \in 1 .. n /\ 2 \in 1 .. n
    BY <1>1
  <1>6. e[1] = at(1) /\ e[2] = at(2) /\ \A i \in 1 .. n : e[i] = at(i)
    <2>. HIDE DEF at, e
    <2>. QED BY <1>3, <1>5
  <1>7. Len(e) = n
    <2>. HIDE DEF at
    <2>1. DOMAIN e = 1 .. n
      BY <1>3
    <2>2. DOMAIN e = 1 .. Len(e) /\ Len(e) \in Nat
      BY <1>2
    <2>. HIDE DEF e
    <2>. QED BY <1>1, <2>1, <2>2
  <1>8. /\ at(1).op = "text" /\ at(2).len = len /\ at(2).form = b2.form
        /\ \A i \in 1 .. n : at(i).part = i - start /\ at(i).of = len /\ at(i).msg = m
    OBVIOUS
  <1>9. at(2).masked = b2.masked
    BY <1>4
  <1>. HIDE DEF at, e
  <1>10. HeaderLen(e[2]) = HeaderLen(b2)
    BY <1>6, <1>8, Zenon DEF HeaderLen
  <1>11. PayloadStart(e[2]) = PayloadStart(b2)
    BY <1>6, <1>9, <1>10, Zenon DEF PayloadStart
  <1>12. PayloadStart(b2) = start
    BY DEF b2, start, FrameStart
  <1>. QED BY <1>2, <1>6, <1>7, <1>8, <1>10, <1>11, <1>12, Zenon DEF e, n, start, b2

\* The payload of a frame parses to the message it was made of.
LEMMA MessageOf ==
    ASSUME NEW M, NEW m \in M, NEW len \in Nat \ {0}, NEW payload \in Seq(Byte(M)),
           Len(payload) = len,
           \A i \in 1 .. len : payload[i].part = i /\ payload[i].of = len /\ payload[i].msg = m
    PROVE  Message(payload) = m
  <1>1. 1 \in 1 .. len /\ DOMAIN payload = 1 .. len /\ payload # <<>>
    OBVIOUS
  <1>2. payload[1].of = len /\ payload[1].msg = m
    BY <1>1
  <1>3. \A i \in DOMAIN payload : payload[i].part = i /\ payload[i].msg = payload[1].msg
    BY <1>1, <1>2
  <1>. QED BY <1>1, <1>2, <1>3, Zenon DEF Message

-----------------------------------------------------------------------------
(* One turn of the parser's loop on them.                                  *)

\* The bytes behind the i-th up to the j-th.
Cut(s, i, j) == SubSeq(s, i + 1, j)

LEMMA CutIs ==
    ASSUME NEW B, NEW s \in Seq(B), NEW j \in 0 .. Len(s), NEW i \in 0 .. j
    PROVE  /\ Cut(s, i, j) \in Seq(B) /\ Len(Cut(s, i, j)) = j - i
           /\ \A x \in 1 .. j - i : Cut(s, i, j)[x] = s[i + x]
  BY Part, Zenon DEF Cut

LEMMA CutOfCut ==
    ASSUME NEW B, NEW s \in Seq(B), NEW j \in 0 .. Len(s), NEW i \in 0 .. j,
           NEW y \in 0 .. j - i, NEW x \in 0 .. y
    PROVE  Cut(Cut(s, i, j), x, y) = Cut(s, i + x, i + y)
  BY PartOfPart, Zenon DEF Cut

At(b, o, s) == [buf |-> b, out |-> o, stop |-> s]

LEMMA StopAt ==
    ASSUME NEW b, NEW o, NEW s \in BOOLEAN
    PROVE  [At(b, o, s) EXCEPT !.stop = TRUE] = At(b, o, TRUE)
  <1>. DEFINE R == [buf : {b}, out : {o}, stop : BOOLEAN]
              r == At(b, o, s)
  <1>1. r \in R /\ r.buf = b /\ r.out = o /\ At(b, o, TRUE) \in R
    BY DEF At
  <1>2. At(b, o, TRUE).buf = b /\ At(b, o, TRUE).out = o /\ At(b, o, TRUE).stop = TRUE
    BY DEF At
  <1>. HIDE DEF r
  <1>3. /\ [r EXCEPT !.stop = TRUE] \in R /\ [r EXCEPT !.stop = TRUE].stop = TRUE
        /\ [r EXCEPT !.stop = TRUE].buf = b /\ [r EXCEPT !.stop = TRUE].out = o
    BY <1>1
  <1>4. ASSUME NEW x \in R, NEW y \in R, x.buf = y.buf, x.out = y.out, x.stop = y.stop
        PROVE  x = y
    BY <1>4
  <1>5. [r EXCEPT !.stop = TRUE] = At(b, o, TRUE)
    <2>. HIDE DEF R
    <2>. QED BY <1>1, <1>2, <1>3, <1>4, Zenon
  <1>. QED BY <1>5 DEF r

\* The bytes b begin with a frame, and one turn of the loop takes it.
Begins(b, d, m, len) ==
    /\ FrameLen(d, len) <= Len(b)
    /\ \A x \in 1 .. FrameLen(d, len) : b[x] = Encode(d, m, len)[x]
Payload(b, d, len) == Cut(b, FrameStart(d, len), FrameLen(d, len))
Taking(b, o, d, len) ==
    ParseFrame(At(b, o, FALSE)) =
      At(Cut(b, FrameLen(d, len), Len(b)), Append(o, Payload(b, d, len)), FALSE)

LEMMA TakeFrame ==
    ASSUME cap = 0, NEW M, NEW b \in Seq(Byte(M)), NEW o,
           NEW d \in Direction, NEW m \in M, NEW len \in PayloadLen[d],
           Begins(b, d, m, len)
    PROVE  Taking(b, o, d, len) /\ Message(Payload(b, d, len)) = m
  <1>. DEFINE e == Encode(d, m, len)
              start == FrameStart(d, len)
              end == FrameLen(d, len)
              payload == SubSeq(b, start + 1, end)
  <1>1. /\ len \in Nat \ {0} /\ start \in Nat /\ 2 <= start /\ end \in Nat /\ end = start + len
        /\ HeaderLen(LengthByte(d, len)) \in Nat /\ HeaderLen(LengthByte(d, len)) <= start
    BY FrameSizes
  <1>2. /\ e[1].op = "text" /\ e[2].len = len
        /\ HeaderLen(e[2]) = HeaderLen(LengthByte(d, len)) /\ PayloadStart(e[2]) = start
        /\ \A i \in 1 .. end : e[i].part = i - start /\ e[i].of = len /\ e[i].msg = m
    <2>. HIDE DEF e, start, end, payload
    <2>1. /\ Encode(d, m, len)[1].op = "text" /\ Encode(d, m, len)[2].len = len
          /\ HeaderLen(Encode(d, m, len)[2]) = HeaderLen(LengthByte(d, len))
          /\ PayloadStart(Encode(d, m, len)[2]) = FrameStart(d, len)
      BY EncodeShape, SMTT(30)
    <2>2. ASSUME NEW i \in 1 .. FrameLen(d, len)
          PROVE  /\ Encode(d, m, len)[i].part = i - FrameStart(d, len)
                 /\ Encode(d, m, len)[i].of = len /\ Encode(d, m, len)[i].msg = m
      BY EncodeShape, SMTT(30)
    <2>. QED BY <2>1, <2>2, Zenon DEF e, start, end
  <1>. HIDE DEF start, end, e
  <1>3. \A x \in 1 .. end : b[x] = e[x]
    BY Zenon DEF e, end, Begins
  <1>4. Len(b) \in Nat /\ end <= Len(b)
    BY DEF end, Begins
  <1>5. b[1] = e[1] /\ b[2] = e[2]
    <2>1. 1 \in 1 .. end /\ 2 \in 1 .. end
      BY <1>1
    <2>. QED BY <1>3, <2>1
  <1>6. PayloadStart(b[2]) = start /\ b[2].len = len /\ b[1].op = "text"
    BY <1>2, <1>5, Zenon
  <1>7. HeaderLen(b[2]) \in Nat /\ HeaderLen(b[2]) <= start
    BY <1>1, <1>2, <1>5
  <1>8. ~Refused(len)
    BY DEF Refused
  <1>9. ParseFrame(At(b, o, FALSE)) =
          [buf |-> SubSeq(b, end + 1, Len(b)), out |-> Append(o, payload), stop |-> FALSE]
    <2>1. /\ ~(Len(b) < 2) /\ ~(Len(b) < HeaderLen(b[2])) /\ ~(Len(b) < start + len)
      BY <1>1, <1>4, <1>7
    <2>2. At(b, o, FALSE).buf = b /\ At(b, o, FALSE).out = o /\ At(b, o, FALSE).stop = FALSE
      BY DEF At
    <2>3. PayloadStart(b[2]) + b[2].len = start + len /\ ~Refused(b[2].len)
      BY <1>6, <1>8
    <2>. HIDE DEF payload
    <2>4. ParseFrame(At(b, o, FALSE)) =
            [buf |-> SubSeq(b, (start + len) + 1, Len(b)),
             out |-> Append(o, SubSeq(b, start + 1, start + len)), stop |-> FALSE]
      BY <1>6, <2>1, <2>2, <2>3, Zenon DEF ParseFrame
    <2>. QED BY <1>1, <2>4, Zenon DEF payload
  <1>10. Message(payload) = m
    <2>1. payload \in Seq(Byte(M)) /\ Len(payload) = len
      BY <1>1, <1>4
    <2>2. ASSUME NEW i \in 1 .. len
          PROVE  payload[i].part = i /\ payload[i].of = len /\ payload[i].msg = m
      <3>1. payload[i] = b[start + i]
        BY <1>1, <1>4
      <3>2. start + i \in 1 .. end /\ (start + i) - start = i
        BY <1>1
      <3>. HIDE DEF payload
      <3>3. payload[i] = e[start + i]
        BY <1>3, <3>1, <3>2, Zenon
      <3>. QED BY <1>2, <3>2, <3>3, Zenon
    <2>. HIDE DEF payload
    <2>. QED BY <1>1, <2>1, <2>2, MessageOf
  <1>. QED BY <1>9, <1>10, Zenon DEF At, start, end, Cut, Payload, Taking

LEMMA WaitFrame ==
    ASSUME cap = 0, NEW M, NEW b \in Seq(Byte(M)), NEW o,
           NEW d \in Direction, NEW m \in M, NEW len \in PayloadLen[d],
           Len(b) < FrameLen(d, len),
           \A x \in 1 .. Len(b) : b[x] = Encode(d, m, len)[x]
    PROVE  ParseFrame(At(b, o, FALSE)) = At(b, o, TRUE)
  <1>. DEFINE e == Encode(d, m, len)
              start == FrameStart(d, len)
              end == FrameLen(d, len)
  <1>1. len \in Nat \ {0} /\ start \in Nat /\ end \in Nat /\ end = start + len
    BY FrameSizes
  <1>2. e[2].len = len /\ PayloadStart(e[2]) = start
    BY EncodeShape
  <1>3. [At(b, o, FALSE) EXCEPT !.stop = TRUE] = At(b, o, TRUE)
    BY StopAt
  <1>4. At(b, o, FALSE).buf = b /\ At(b, o, FALSE).stop = FALSE
    BY DEF At
  <1>. HIDE DEF start, end, e
  <1>5. CASE Len(b) < 2
    BY <1>3, <1>4, <1>5, Zenon DEF ParseFrame
  <1>6. CASE ~(Len(b) < 2)
    <2>1. b[2] = e[2]
      <3>1. 2 \in 1 .. Len(b)
        BY <1>6
      <3>. QED BY <3>1 DEF e
    <2>2. PayloadStart(b[2]) + b[2].len = start + len
      BY <1>2, <2>1, Zenon
    <2>3. Len(b) < start + len
      BY <1>1 DEF end
    <2>4. ~Refused(b[2].len)
      BY DEF Refused
    <2>. QED BY <1>3, <1>4, <1>6, <2>2, <2>3, <2>4, Zenon DEF ParseFrame
  <1>. QED BY <1>5, <1>6

LEMMA WaitNothing ==
    ASSUME NEW o
    PROVE  ParseFrame(At(<<>>, o, FALSE)) = At(<<>>, o, TRUE)
  <1>1. [At(<<>>, o, FALSE) EXCEPT !.stop = TRUE] = At(<<>>, o, TRUE)
    BY StopAt
  <1>2. At(<<>>, o, FALSE).buf = <<>> /\ Len(<<>>) < 2
    BY DEF At
  <1>. QED BY <1>1, <1>2, Zenon DEF ParseFrame

LEMMA Stopped ==
    ASSUME NEW b, NEW o
    PROVE  ParseFrame(At(b, o, TRUE)) = At(b, o, TRUE)
  <1>1. [At(b, o, TRUE) EXCEPT !.stop = TRUE] = At(b, o, TRUE)
    BY StopAt
  <1>2. At(b, o, TRUE).stop = TRUE
    BY DEF At
  <1>. QED BY <1>1, <1>2, Zenon DEF ParseFrame

-----------------------------------------------------------------------------
(* A sequence of frames, and the loop on any part of it.                   *)

\* The bytes s are the frames of the messages ms, with payloads of the lengths ls,
\* and the i-th of them ends at off[i].
Framed(d, M, s, ms, ls, off) ==
    /\ s \in Seq(Byte(M)) /\ ms \in Seq(M)
    /\ ls \in [1 .. Len(ms) -> PayloadLen[d]]
    /\ off \in [0 .. Len(ms) -> Nat] /\ off[0] = 0 /\ off[Len(ms)] = Len(s)
    /\ \A i \in 1 .. Len(ms) : off[i] = off[i - 1] + FrameLen(d, ls[i])
    /\ \A i \in 1 .. Len(ms) : \A x \in 1 .. FrameLen(d, ls[i]) :
         s[off[i - 1] + x] = Encode(d, ms[i], ls[i])[x]

\* Each frame has two bytes at least.
LEMMA OffsetsGrow ==
    ASSUME NEW d \in Direction, NEW M, NEW s, NEW ms, NEW ls, NEW off,
           Framed(d, M, s, ms, ls, off), NEW i \in 0 .. Len(ms)
    PROVE  \A k \in Nat : i + k <= Len(ms) => off[i] + 2 * k <= off[i + k]
  <1>. DEFINE n == Len(ms)
              S == {k \in Nat : i + k <= n => off[i] + 2 * k <= off[i + k]}
  <1>1. n \in Nat /\ ls \in [1 .. n -> PayloadLen[d]] /\ off \in [0 .. n -> Nat]
    BY DEF Framed
  <1>2. \A x \in 1 .. n : off[x] = off[x - 1] + FrameLen(d, ls[x])
    BY DEF Framed
  <1>. HIDE DEF n
  <1>3. ASSUME NEW x \in 1 .. n PROVE FrameLen(d, ls[x]) \in Nat /\ 2 <= FrameLen(d, ls[x])
    <2>1. ls[x] \in PayloadLen[d]
      BY <1>1
    <2>2. /\ ls[x] \in Nat /\ FrameStart(d, ls[x]) \in Nat /\ 2 <= FrameStart(d, ls[x])
          /\ FrameLen(d, ls[x]) \in Nat /\ FrameLen(d, ls[x]) = FrameStart(d, ls[x]) + ls[x]
      BY <2>1, FrameSizes
    <2>. QED BY <2>2
  <1>4. i \in 0 .. n
    BY DEF n
  <1>5. 0 \in S
    <2>1. off[i] \in Nat /\ i + 0 = i
      BY <1>1, <1>4
    <2>. QED BY <2>1
  <1>6. ASSUME NEW k \in S PROVE k + 1 \in S
    <2>. SUFFICES ASSUME i + (k + 1) <= n PROVE off[i] + 2 * (k + 1) <= off[i + (k + 1)]
      OBVIOUS
    <2>1. /\ k \in Nat /\ i + (k + 1) \in 1 .. n /\ (i + (k + 1)) - 1 = i + k
          /\ i + k \in 0 .. n /\ off[i] + 2 * k <= off[i + k]
      BY <1>1, <1>4
    <2>2. off[i + (k + 1)] = off[(i + (k + 1)) - 1] + FrameLen(d, ls[i + (k + 1)])
      BY <1>2, <2>1, Zenon
    <2>3. off[i + (k + 1)] = off[i + k] + FrameLen(d, ls[i + (k + 1)])
      BY <2>1, <2>2, Zenon
    <2>4. off[i] \in Nat /\ off[i + k] \in Nat
      BY <1>1, <1>4, <2>1
    <2>5. ASSUME NEW x \in Nat, NEW y \in Nat, NEW z \in Nat, x + 2 * k <= y, 2 <= z
          PROVE  x + 2 * (k + 1) <= y + z
      BY <2>1, <2>5
    <2>. QED BY <1>3, <2>1, <2>3, <2>4, <2>5
  <1>. HIDE DEF S
  <1>7. S = Nat
    BY <1>5, <1>6, SetInduction DEF S
  <1>. QED BY <1>7 DEF S, n

LEMMA OffsetsOrder ==
    ASSUME NEW d \in Direction, NEW M, NEW s, NEW ms, NEW ls, NEW off,
           Framed(d, M, s, ms, ls, off),
           NEW i \in 0 .. Len(ms), NEW j \in 0 .. Len(ms), i <= j
    PROVE  /\ off[i] \in Nat /\ off[j] \in Nat /\ off[i] <= off[j]
           /\ (i < j => off[i] < off[j]) /\ 2 * i <= off[i] /\ off[i] <= Len(s)
  <1>. DEFINE n == Len(ms)
  <1>1. n \in Nat /\ off \in [0 .. n -> Nat] /\ off[0] = 0 /\ off[n] = Len(s)
    BY DEF Framed
  <1>2. ASSUME NEW a \in 0 .. n, NEW k \in Nat, a + k <= n
        PROVE  off[a] + 2 * k <= off[a + k]
    BY <1>2, OffsetsGrow
  <1>. HIDE DEF n
  <1>3. i \in 0 .. n /\ j \in 0 .. n
    BY DEF n
  <1>4. off[i] + 2 * (j - i) <= off[j]
    <2>1. j - i \in Nat /\ i + (j - i) = j /\ i + (j - i) <= n
      BY <1>1, <1>3
    <2>. QED BY <1>2, <1>3, <2>1
  <1>5. off[0] + 2 * i <= off[i]
    <2>1. i \in Nat /\ 0 + i = i /\ 0 + i <= n /\ 0 \in 0 .. n
      BY <1>1, <1>3
    <2>. QED BY <1>2, <2>1
  <1>6. off[i] + 2 * (n - i) <= off[n]
    <2>1. n - i \in Nat /\ i + (n - i) = n /\ i + (n - i) <= n
      BY <1>1, <1>3
    <2>. QED BY <1>2, <1>3, <2>1
  <1>7. off[i] \in Nat /\ off[j] \in Nat /\ off[n] \in Nat
    BY <1>1, <1>3
  <1>8. ASSUME NEW x \in Nat, NEW y \in Nat, NEW z \in Nat,
               x + 2 * (j - i) <= y, 2 * i <= x, x + 2 * (n - i) <= z
        PROVE  x <= y /\ (i < j => x < y) /\ 2 * i <= x /\ x <= z
    BY <1>1, <1>3, <1>8
  <1>9. 2 * i <= off[i]
    <2>1. ASSUME NEW x \in Nat, 0 + 2 * i <= x PROVE 2 * i <= x
      BY <1>3, <2>1
    <2>. QED BY <1>1, <1>5, <1>7, <2>1
  <1>10. off[i] <= off[j] /\ (i < j => off[i] < off[j]) /\ off[i] <= off[n]
    <2>. QED BY <1>4, <1>6, <1>7, <1>8, <1>9, Zenon
  <1>. QED BY <1>1, <1>7, <1>9, <1>10, Zenon

LEMMA ParseSteps ==
    ASSUME NEW M, NEW bytes \in Seq(Byte(M)), cap \in Nat
    PROVE  \E st : /\ Parse(bytes) = st[1 + Len(bytes) \div 2] /\ st[0] = Start(bytes)
                   /\ \A i \in 1 .. 1 + Len(bytes) \div 2 : st[i] = ParseFrame(st[i - 1])
  <1>. DEFINE n == 1 + Len(bytes) \div 2
              E(a) == a = [i \in 0 .. n |-> IF i = 0 THEN Start(bytes)
                                            ELSE ParseFrame(a[i - 1])]
              st == CHOOSE a : E(a)
  <1>1. Len(bytes) \in Nat /\ n \in Nat
    OBVIOUS
  <1>2. Parse(bytes) = st[n]
    BY Zenon DEF Parse, Start
  <1>. HIDE DEF n
  <1>3. PICK f : Rounds(f, M, bytes, n)
    BY <1>1, RoundsExist
  <1>4. E(f)
    BY <1>1, <1>3 DEF Rounds
  <1>5. E(st)
    BY <1>4, Zenon
  <1>. HIDE DEF st
  <1>6. st[0] = Start(bytes) /\ \A i \in 1 .. n : st[i] = ParseFrame(st[i - 1])
    BY <1>1, <1>5
  <1>. QED BY <1>2, <1>6, Zenon DEF n

\* How many frames end within the first L bytes.
Within(off, ms, L, j) ==
    /\ j \in 0 .. Len(ms) /\ off[j] <= L
    /\ j < Len(ms) => L < off[j + 1]

LEMMA WithinExists ==
    ASSUME NEW d \in Direction, NEW M, NEW s, NEW ms, NEW ls, NEW off,
           Framed(d, M, s, ms, ls, off), NEW L \in 0 .. Len(s)
    PROVE  \E j \in 0 .. Len(ms) : Within(off, ms, L, j)
  <1>. DEFINE n == Len(ms)
              T == {i \in 0 .. n : off[i] <= L}
  <1>1. n \in Nat /\ off \in [0 .. n -> Nat] /\ off[0] = 0 /\ Len(s) \in Nat
    BY DEF Framed
  <1>. HIDE DEF n
  <1>2. 0 \in T
    BY <1>1
  <1>3. T \in SUBSET Nat /\ T # {} /\ \A x \in T : x <= n
    BY <1>1, <1>2
  <1>4. PICK j \in T : \A y \in T : y <= j
    <2>. HIDE DEF T
    <2>. QED BY <1>1, <1>3, GreatestNat
  <1>5. j < n => L < off[j + 1]
    <2>. SUFFICES ASSUME j < n, ~(L < off[j + 1]) PROVE FALSE
      OBVIOUS
    <2>1. j + 1 \in 0 .. n
      BY <1>1
    <2>2. off[j + 1] \in Nat /\ off[j + 1] <= L
      BY <1>1, <2>1
    <2>3. j + 1 \in T
      BY <2>1, <2>2
    <2>4. j + 1 <= j
      BY <1>4, <2>3
    <2>. QED BY <2>4
  <1>. QED BY <1>4, <1>5 DEF Within, n

\* The bytes from behind frame i up to L begin with frame i + 1.
LEMMA NextFrame ==
    ASSUME NEW d \in Direction, NEW M, NEW s, NEW ms, NEW ls, NEW off,
           Framed(d, M, s, ms, ls, off), NEW L \in 0 .. Len(s),
           NEW i \in 0 .. Len(ms), i < Len(ms), off[i] <= L
    PROVE  LET b == Cut(s, off[i], L)
               len == ls[i + 1]
           IN  /\ b \in Seq(Byte(M)) /\ Len(b) = L - off[i] /\ off[i] \in Nat
               /\ ms[i + 1] \in M /\ len \in PayloadLen[d]
               /\ off[i + 1] = off[i] + FrameLen(d, len) /\ FrameLen(d, len) \in Nat
               /\ \A x \in 1 .. Len(b) : x <= FrameLen(d, len) =>
                    b[x] = Encode(d, ms[i + 1], len)[x]
  <1>. DEFINE n == Len(ms)
              b == Cut(s, off[i], L)
              len == ls[i + 1]
              l == FrameLen(d, len)
  <1>1. /\ n \in Nat /\ ls \in [1 .. n -> PayloadLen[d]] /\ off \in [0 .. n -> Nat]
        /\ s \in Seq(Byte(M)) /\ \A x \in 1 .. n : ms[x] \in M
    BY DEF Framed
  <1>2. i + 1 \in 1 .. n /\ (i + 1) - 1 = i /\ i \in 0 .. n
    BY <1>1
  <1>3. off[i + 1] = off[(i + 1) - 1] + l /\ \A x \in 1 .. l :
          s[off[(i + 1) - 1] + x] = Encode(d, ms[i + 1], ls[i + 1])[x]
    BY <1>2, Zenon DEF Framed, n
  <1>. HIDE DEF n
  <1>4. off[i + 1] = off[i] + l /\ \A x \in 1 .. l : s[off[i] + x] = Encode(d, ms[i + 1], len)[x]
    BY <1>2, <1>3, Zenon
  <1>5. off[i] \in Nat /\ ms[i + 1] \in M /\ len \in PayloadLen[d]
    BY <1>1, <1>2
  <1>6. l \in Nat
    BY <1>5, FrameSizes
  <1>7. off[i] \in 0 .. L
    BY <1>5
  <1>8. b \in Seq(Byte(M)) /\ Len(b) = L - off[i] /\ \A x \in 1 .. L - off[i] : b[x] = s[off[i] + x]
    BY <1>1, <1>7, CutIs
  <1>. HIDE DEF b, l, len
  <1>9. ASSUME NEW x \in 1 .. Len(b), x <= l PROVE b[x] = Encode(d, ms[i + 1], len)[x]
    <2>1. x \in 1 .. l /\ x \in 1 .. L - off[i]
      BY <1>6, <1>8, <1>9
    <2>. QED BY <1>4, <1>8, <2>1, Zenon
  <1>. QED BY <1>4, <1>5, <1>6, <1>8, <1>9, Zenon DEF b, l, len

\* What the loop has taken after the first k frames.
Taken(o, M, ms, k) ==
    /\ o \in Seq(Seq(Byte(M))) /\ Len(o) = k
    /\ \A i \in 1 .. k : Message(o[i]) = ms[i]

\* One turn of the loop leads on to more taken and fewer bytes.
Leads(b, o, c, p) == ParseFrame(At(b, o, FALSE)) = At(c, p, FALSE)

LEMMA TakeNext ==
    ASSUME cap = 0, NEW d \in Direction, NEW M, NEW s, NEW ms, NEW ls, NEW off,
           Framed(d, M, s, ms, ls, off), NEW L \in 0 .. Len(s),
           NEW i \in 0 .. Len(ms), i < Len(ms), off[i + 1] <= L,
           NEW o, Taken(o, M, ms, i)
    PROVE  \E p : /\ Taken(p, M, ms, i + 1)
                  /\ Leads(Cut(s, off[i], L), o, Cut(s, off[i + 1], L), p)
  <1>. DEFINE b == Cut(s, off[i], L)
              len == ls[i + 1]
              l == FrameLen(d, len)
              m == ms[i + 1]
              payload == Cut(b, FrameStart(d, len), l)
  <1>1. s \in Seq(Byte(M)) /\ L \in Nat /\ i + 1 \in 0 .. Len(ms) /\ i \in Nat
    BY DEF Framed
  <1>2. off[i] \in Nat /\ off[i + 1] \in Nat /\ off[i] <= off[i + 1]
    <2>1. i <= i + 1
      BY <1>1
    <2>. QED BY <1>1, <2>1, OffsetsOrder
  <1>3. off[i] <= L
    BY <1>1, <1>2
  <1>4. /\ b \in Seq(Byte(M)) /\ Len(b) = L - off[i] /\ m \in M /\ len \in PayloadLen[d]
        /\ off[i + 1] = off[i] + l /\ l \in Nat
        /\ \A x \in 1 .. Len(b) : x <= l => b[x] = Encode(d, m, len)[x]
    BY <1>3, NextFrame
  <1>5. l <= Len(b) /\ FrameStart(d, len) \in 0 .. l /\ l \in 0 .. Len(b)
    <2>1. FrameStart(d, len) \in Nat /\ l = FrameStart(d, len) + len /\ len \in Nat
      BY <1>4, FrameSizes
    <2>. HIDE DEF b, l, len
    <2>2. l <= L - off[i]
      BY <1>1, <1>2, <1>4
    <2>. QED BY <1>4, <2>1, <2>2
  <1>6. /\ ParseFrame(At(b, o, FALSE)) = At(Cut(b, l, Len(b)), Append(o, payload), FALSE)
        /\ Message(payload) = m
    <2>1. \A x \in 1 .. l : b[x] = Encode(d, m, len)[x]
      <3>. HIDE DEF b, l, len, m
      <3>. QED BY <1>4, <1>5
    <2>. HIDE DEF b, m, len
    <2>2. FrameLen(d, len) <= Len(b) /\ \A x \in 1 .. FrameLen(d, len) : b[x] = Encode(d, m, len)[x]
      BY <1>5, <2>1
    <2>3. b \in Seq(Byte(M)) /\ m \in M /\ len \in PayloadLen[d]
      BY <1>4
    <2>. HIDE DEF l, payload
    <2>4. Begins(b, d, m, len)
      BY <2>2, Zenon DEF Begins
    <2>5. Taking(b, o, d, len) /\ Message(Payload(b, d, len)) = m
      BY <2>3, <2>4, TakeFrame
    <2>. QED BY <2>5, Zenon DEF l, payload, Taking, Payload
  <1>7. Cut(b, l, Len(b)) = Cut(s, off[i + 1], L)
    <2>. HIDE DEF b, l
    <2>1. off[i] \in 0 .. L /\ L - off[i] \in 0 .. L - off[i] /\ l \in 0 .. L - off[i]
      BY <1>1, <1>2, <1>3, <1>4, <1>5
    <2>2. Cut(b, l, L - off[i]) = Cut(s, off[i] + l, off[i] + (L - off[i]))
      <3>1. Cut(Cut(s, off[i], L), l, L - off[i]) = Cut(s, off[i] + l, off[i] + (L - off[i]))
        BY <1>1, <2>1, CutOfCut
      <3>. QED BY <3>1, Zenon DEF b
    <2>3. off[i] + (L - off[i]) = L
      BY <1>1, <1>2
    <2>. QED BY <1>4, <2>2, <2>3, Zenon
  <1>8. Taken(Append(o, payload), M, ms, i + 1)
    <2>1. payload \in Seq(Byte(M))
      <3>. HIDE DEF b, l, len
      <3>. QED BY <1>4, <1>5, CutIs
    <2>. HIDE DEF payload, b, l, len, m
    <2>2. o \in Seq(Seq(Byte(M))) /\ Len(o) = i /\ \A x \in 1 .. i : Message(o[x]) = ms[x]
      BY DEF Taken
    <2>. DEFINE p == Append(o, payload)
    <2>3. /\ p \in Seq(Seq(Byte(M))) /\ Len(p) = i + 1 /\ p[i + 1] = payload
          /\ \A x \in 1 .. i : p[x] = o[x]
      BY <1>1, <2>1, <2>2
    <2>. HIDE DEF p
    <2>4. ASSUME NEW x \in 1 .. i + 1 PROVE Message(p[x]) = ms[x]
      <3>1. CASE x = i + 1
        BY <1>6, <2>3, <3>1, Zenon DEF m
      <3>2. CASE x # i + 1
        <4>1. x \in 1 .. i
          BY <1>1, <3>2
        <4>. QED BY <2>2, <2>3, <4>1, Zenon
      <3>. QED BY <3>1, <3>2
    <2>. QED BY <2>3, <2>4 DEF Taken, p
  <1>. QED BY <1>6, <1>7, <1>8, Zenon DEF b, Leads

\* The rounds of the loop on the first L bytes: a frame a round, and then it waits.
LEMMA ParseFrames ==
    ASSUME cap = 0, NEW d \in Direction, NEW M, NEW s, NEW ms, NEW ls, NEW off,
           Framed(d, M, s, ms, ls, off), NEW L \in 0 .. Len(s),
           NEW j \in 0 .. Len(ms), Within(off, ms, L, j)
    PROVE  LET parsed == Parse(Cut(s, 0, L))
           IN  /\ parsed.buf = Cut(s, off[j], L)
               /\ Taken(parsed.out, M, ms, j)
  <1>. DEFINE b == Cut(s, 0, L)
              n == 1 + Len(b) \div 2
              rest == Cut(s, off[j], L)
  <1>1. /\ s \in Seq(Byte(M)) /\ Len(s) \in Nat /\ L \in Nat /\ Len(ms) \in Nat /\ off[0] = 0
        /\ j \in Nat /\ off[Len(ms)] = Len(s)
    BY DEF Framed
  <1>2. b \in Seq(Byte(M)) /\ Len(b) = L
    <2>1. 0 \in 0 .. L /\ 0 + 1 = 1 /\ L - 0 = L
      BY <1>1
    <2>. QED BY <1>1, <2>1, CutIs
  <1>3. off[j] \in Nat /\ off[j] <= L /\ 2 * j <= off[j]
    BY OffsetsOrder DEF Within
  <1>4. n \in Nat /\ j + 1 <= n
    <2>1. ASSUME NEW x \in Nat, NEW y \in Nat, x <= y, 2 * j <= x PROVE j + 1 <= 1 + y \div 2
      BY <1>1, <2>1
    <2>. QED BY <1>1, <1>2, <1>3, <2>1
  <1>5. PICK st : /\ Parse(b) = st[n] /\ st[0] = Start(b)
                  /\ \A i \in 1 .. n : st[i] = ParseFrame(st[i - 1])
    BY <1>2, ParseSteps
  <1>. HIDE DEF n, b
  <1>. DEFINE P(i) == \E o : /\ Taken(o, M, ms, i)
                             /\ st[i] = At(Cut(s, off[i], L), o, FALSE)
              S == {i \in Nat : i <= j => P(i)}
  <1>6. 0 \in S
    <2>1. st[0] = At(b, <<>>, FALSE) /\ b = Cut(s, off[0], L)
      <3>1. 0 + 1 = 1
        OBVIOUS
      <3>. QED BY <1>1, <1>5, <3>1 DEF Start, At, b
    <2>2. Taken(<<>>, M, ms, 0)
      BY DEF Taken
    <2>3. P(0)
      BY <2>1, <2>2, Zenon
    <2>. HIDE DEF P
    <2>. QED BY <2>3
  <1>7. ASSUME NEW i \in S PROVE i + 1 \in S
    <2>. HIDE DEF P
    <2>. SUFFICES ASSUME i + 1 <= j PROVE P(i + 1)
      OBVIOUS
    <2>1. /\ i \in Nat /\ i \in 0 .. Len(ms) /\ i < Len(ms) /\ i + 1 \in 0 .. Len(ms)
          /\ i + 1 \in 1 .. n /\ (i + 1) - 1 = i /\ i <= j
      BY <1>1, <1>4
    <2>2. P(i)
      BY <2>1
    <2>. HIDE DEF S
    <2>3. PICK o : Taken(o, M, ms, i) /\ st[i] = At(Cut(s, off[i], L), o, FALSE)
      BY <2>2, Zenon DEF P
    <2>4. off[i + 1] <= L
      <3>1. off[i + 1] \in Nat /\ off[i + 1] <= off[j]
        BY <2>1, OffsetsOrder
      <3>. QED BY <1>1, <1>3, <3>1
    <2>5. PICK p : /\ Taken(p, M, ms, i + 1)
                   /\ Leads(Cut(s, off[i], L), o, Cut(s, off[i + 1], L), p)
      BY <2>1, <2>3, <2>4, TakeNext
    <2>6. st[i + 1] = ParseFrame(st[i])
      BY <1>5, <2>1, Zenon
    <2>. QED BY <2>3, <2>5, <2>6, Zenon DEF P, Leads
  <1>8. P(j)
    <2>. HIDE DEF P
    <2>1. S = Nat
      <3>1. S \in SUBSET Nat
        OBVIOUS
      <3>. HIDE DEF S
      <3>. QED BY <1>6, <1>7, <3>1, SetInduction
    <2>. QED BY <1>1, <2>1
  <1>9. PICK o : Taken(o, M, ms, j) /\ st[j] = At(rest, o, FALSE)
    BY <1>8, Zenon DEF P
  <1>10. ParseFrame(At(rest, o, FALSE)) = At(rest, o, TRUE)
    <2>1. CASE j < Len(ms)
      <3>. DEFINE len == ls[j + 1]
                  l == FrameLen(d, len)
                  m == ms[j + 1]
      <3>1. /\ rest \in Seq(Byte(M)) /\ Len(rest) = L - off[j] /\ m \in M /\ len \in PayloadLen[d]
            /\ off[j + 1] = off[j] + l /\ l \in Nat
            /\ \A x \in 1 .. Len(rest) : x <= l => rest[x] = Encode(d, m, len)[x]
        BY <1>3, <2>1, NextFrame
      <3>2. L < off[j + 1]
        BY <2>1 DEF Within
      <3>. HIDE DEF rest, len, l, m
      <3>3. Len(rest) < l
        BY <1>1, <1>3, <3>1, <3>2
      <3>4. \A x \in 1 .. Len(rest) : rest[x] = Encode(d, m, len)[x]
        <4>1. Len(rest) \in Nat
          BY <3>1
        <4>. QED BY <3>1, <3>3, <4>1
      <3>. QED BY <3>1, <3>3, <3>4, WaitFrame DEF l
    <2>2. CASE ~(j < Len(ms))
      <3>1. off[j] = L
        BY <1>1, <1>3, <2>2
      <3>2. off[j] \in 0 .. L /\ L - off[j] = 0
        BY <1>1, <1>3, <3>1
      <3>3. rest \in Seq(Byte(M)) /\ Len(rest) = 0
        <4>1. ASSUME NEW x \in 0 .. L PROVE Cut(s, x, L) \in Seq(Byte(M)) /\ Len(Cut(s, x, L)) = L - x
          <5>1. s \in Seq(Byte(M)) /\ L \in 0 .. Len(s)
            BY <1>1
          <5>. QED BY <5>1, CutIs
        <4>. QED BY <3>2, <4>1, Zenon
      <3>4. rest = <<>>
        <4>. HIDE DEF rest
        <4>. QED BY <3>3
      <3>. QED BY <3>4, WaitNothing, Zenon
    <2>. QED BY <2>1, <2>2
  <1>. HIDE DEF rest, P, S
  <1>. DEFINE Q(k) == (j + 1) + k <= n => st[(j + 1) + k] = At(rest, o, TRUE)
              T == {k \in Nat : Q(k)}
  <1>11. 0 \in T
    <2>1. (j + 1) + 0 = j + 1 /\ j + 1 \in 1 .. n /\ (j + 1) - 1 = j
      BY <1>1, <1>4
    <2>2. st[j + 1] = ParseFrame(st[j])
      BY <1>5, <2>1, Zenon
    <2>3. st[j + 1] = At(rest, o, TRUE)
      BY <1>9, <1>10, <2>2, Zenon
    <2>. QED BY <2>1, <2>3
  <1>12. ASSUME NEW k \in T PROVE k + 1 \in T
    <2>. HIDE DEF Q
    <2>0. k \in Nat /\ k + 1 \in Nat /\ Q(k)
      OBVIOUS
    <2>. SUFFICES ASSUME (j + 1) + (k + 1) <= n
                  PROVE  st[(j + 1) + (k + 1)] = At(rest, o, TRUE)
      BY <2>0, Zenon DEF Q
    <2>1. /\ (j + 1) + (k + 1) \in 1 .. n /\ ((j + 1) + (k + 1)) - 1 = (j + 1) + k
          /\ (j + 1) + k <= n
      BY <1>1, <1>4, <2>0
    <2>2. st[(j + 1) + k] = At(rest, o, TRUE)
      BY <2>0, <2>1 DEF Q
    <2>3. st[(j + 1) + (k + 1)] = ParseFrame(st[(j + 1) + k])
      BY <1>5, <2>1, Zenon
    <2>. QED BY <2>2, <2>3, Stopped, Zenon
  <1>13. T = Nat
    <2>1. T \in SUBSET Nat
      OBVIOUS
    <2>. HIDE DEF T
    <2>. QED BY <1>11, <1>12, <2>1, SetInduction
  <1>14. st[n] = At(rest, o, TRUE)
    <2>1. n - (j + 1) \in Nat /\ (j + 1) + (n - (j + 1)) = n
      BY <1>1, <1>4
    <2>. HIDE DEF T
    <2>2. n - (j + 1) \in T
      BY <1>13, <2>1
    <2>3. (j + 1) + (n - (j + 1)) <= n => st[(j + 1) + (n - (j + 1))] = At(rest, o, TRUE)
      BY <2>2 DEF T
    <2>4. n <= n
      BY <1>4
    <2>. QED BY <2>1, <2>3, <2>4
  <1>15. Parse(b).buf = rest /\ Parse(b).out = o
    BY <1>5, <1>14 DEF At
  <1>. QED BY <1>9, <1>15, Zenon DEF b, rest

-----------------------------------------------------------------------------
(* Frames sent, and frames taken.                                          *)

\* The bytes behind the first k are a frame of m.
Holds(d, s, k, m, len) ==
    \A x \in 1 .. FrameLen(d, len) : s[k + x] = Encode(d, m, len)[x]

LEMMA FramedIs ==
    ASSUME NEW d \in Direction, NEW M, NEW s, NEW ms, NEW ls, NEW off,
           Framed(d, M, s, ms, ls, off)
    PROVE  /\ s \in Seq(Byte(M)) /\ ms \in Seq(M) /\ Len(ms) \in Nat /\ Len(s) \in Nat
           /\ ls \in [1 .. Len(ms) -> PayloadLen[d]]
           /\ off \in [0 .. Len(ms) -> Nat] /\ off[0] = 0 /\ off[Len(ms)] = Len(s)
           /\ \A i \in 1 .. Len(ms) : /\ off[i] = off[i - 1] + FrameLen(d, ls[i])
                                      /\ Holds(d, s, off[i - 1], ms[i], ls[i])
                                      /\ FrameLen(d, ls[i]) \in Nat
  <1>1. /\ s \in Seq(Byte(M)) /\ ms \in Seq(M) /\ Len(ms) \in Nat /\ Len(s) \in Nat
        /\ ls \in [1 .. Len(ms) -> PayloadLen[d]]
        /\ off \in [0 .. Len(ms) -> Nat] /\ off[0] = 0 /\ off[Len(ms)] = Len(s)
    BY DEF Framed
  <1>2. ASSUME NEW i \in 1 .. Len(ms)
        PROVE  /\ off[i] = off[i - 1] + FrameLen(d, ls[i])
               /\ Holds(d, s, off[i - 1], ms[i], ls[i])
               /\ FrameLen(d, ls[i]) \in Nat
    <2>1. off[i] = off[i - 1] + FrameLen(d, ls[i]) /\ Holds(d, s, off[i - 1], ms[i], ls[i])
      BY Zenon DEF Framed, Holds
    <2>2. ls[i] \in PayloadLen[d]
      BY <1>1
    <2>3. FrameLen(d, ls[i]) \in Nat
      BY <2>2, FrameSizes
    <2>. QED BY <2>1, <2>3
  <1>. QED BY <1>1, <1>2, Zenon

\* The first of the frames ends at first.
Starts(d, M, s, ms, first) == \E ls, off : Framed(d, M, s, ms, ls, off) /\ off[1] = first

\* A frame more.
LEMMA FramedMore ==
    ASSUME NEW d \in Direction, NEW M, NEW s, NEW ms, NEW ls, NEW off,
           Framed(d, M, s, ms, ls, off), NEW m \in M, NEW len \in PayloadLen[d]
    PROVE  Starts(d, M, s \o Encode(d, m, len), Append(ms, m),
                  IF Len(ms) > 0 THEN off[1] ELSE FrameLen(d, len))
  <1>. DEFINE e == Encode(d, m, len)
              l == FrameLen(d, len)
              n == Len(ms)
              s2 == s \o e
              m2 == Append(ms, m)
              l2 == [i \in 1 .. n + 1 |-> IF i = n + 1 THEN len ELSE ls[i]]
              o2 == [i \in 0 .. n + 1 |-> IF i = n + 1 THEN Len(s) + l ELSE off[i]]
  <1>1. /\ s \in Seq(Byte(M)) /\ ms \in Seq(M) /\ n \in Nat /\ Len(s) \in Nat
        /\ ls \in [1 .. n -> PayloadLen[d]]
        /\ off \in [0 .. n -> Nat] /\ off[0] = 0 /\ off[n] = Len(s)
        /\ \A i \in 1 .. n : /\ off[i] = off[i - 1] + FrameLen(d, ls[i])
                             /\ Holds(d, s, off[i - 1], ms[i], ls[i])
                             /\ FrameLen(d, ls[i]) \in Nat
    BY FramedIs
  <1>2. e \in Seq(Byte(M)) /\ Len(e) = l /\ l \in Nat
    BY EncodeShape, FrameSizes
  <1>3. \A i \in 0 .. n : off[i] \in Nat /\ off[i] <= Len(s)
    BY <1>1, OffsetsOrder
  <1>4. m2 \in Seq(M) /\ Len(m2) = n + 1 /\ m2[n + 1] = m /\ \A i \in 1 .. n : m2[i] = ms[i]
    BY <1>1
  <1>. HIDE DEF e, l, n, m2
  <1>5. /\ s2 \in Seq(Byte(M)) /\ Len(s2) = Len(s) + l
        /\ \A x \in 1 .. Len(s) : s2[x] = s[x]
        /\ \A x \in 1 .. l : s2[Len(s) + x] = e[x]
    BY <1>1, <1>2
  <1>. HIDE DEF s2
  <1>6. l2 \in [1 .. n + 1 -> PayloadLen[d]] /\ l2[n + 1] = len /\ \A i \in 1 .. n : l2[i] = ls[i]
    BY <1>1
  <1>7. /\ o2 \in [0 .. n + 1 -> Nat] /\ o2[n + 1] = Len(s) + l /\ \A i \in 0 .. n : o2[i] = off[i]
    BY <1>1, <1>2
  <1>. HIDE DEF l2, o2
  <1>8. ASSUME NEW i \in 1 .. n + 1
        PROVE  o2[i] = o2[i - 1] + FrameLen(d, l2[i]) /\ Holds(d, s2, o2[i - 1], m2[i], l2[i])
    <2>1. CASE i = n + 1
      <3>1. (n + 1) - 1 = n /\ n \in 0 .. n
        BY <1>1
      <3>2. o2[i - 1] = Len(s) /\ m2[i] = m /\ l2[i] = len /\ o2[i] = Len(s) + l
        BY <1>1, <1>4, <1>6, <1>7, <2>1, <3>1
      <3>3. Holds(d, s2, Len(s), m, len)
        BY <1>5, Zenon DEF Holds, l, e
      <3>. QED BY <3>2, <3>3, Zenon DEF l
    <2>2. CASE i # n + 1
      <3>1. i \in 1 .. n /\ i \in 0 .. n /\ i - 1 \in 0 .. n
        BY <1>1, <2>2
      <3>2. o2[i - 1] = off[i - 1] /\ m2[i] = ms[i] /\ l2[i] = ls[i] /\ o2[i] = off[i]
        BY <1>4, <1>6, <1>7, <3>1
      <3>3. /\ off[i] = off[i - 1] + FrameLen(d, ls[i]) /\ Holds(d, s, off[i - 1], ms[i], ls[i])
            /\ FrameLen(d, ls[i]) \in Nat /\ off[i - 1] \in Nat /\ off[i] <= Len(s)
        BY <1>1, <1>3, <3>1
      <3>4. ASSUME NEW x \in 1 .. FrameLen(d, ls[i])
            PROVE  s2[off[i - 1] + x] = Encode(d, ms[i], ls[i])[x]
        <4>1. off[i - 1] + x \in 1 .. Len(s)
          <5>1. ASSUME NEW a \in Nat, NEW b \in Nat, NEW c, c = a + b, c <= Len(s), NEW y \in 1 .. b
                PROVE  a + y \in 1 .. Len(s)
            BY <1>1, <5>1
          <5>. QED BY <3>3, <5>1
        <4>2. s[off[i - 1] + x] = Encode(d, ms[i], ls[i])[x]
          BY <3>3, Zenon DEF Holds
        <4>. QED BY <1>5, <4>1, <4>2, Zenon
      <3>5. Holds(d, s2, off[i - 1], ms[i], ls[i])
        BY <3>4, Zenon DEF Holds
      <3>. QED BY <3>2, <3>3, <3>5, Zenon
    <2>. QED BY <2>1, <2>2
  <1>9. Framed(d, M, s2, m2, l2, o2)
    <2>1. o2[0] = 0 /\ o2[Len(m2)] = Len(s2)
      BY <1>1, <1>4, <1>5, <1>7
    <2>2. \A i \in 1 .. Len(m2) : o2[i] = o2[i - 1] + FrameLen(d, l2[i])
      BY <1>4, <1>8, Zenon
    <2>3. \A i \in 1 .. Len(m2) : \A x \in 1 .. FrameLen(d, l2[i]) :
            s2[o2[i - 1] + x] = Encode(d, m2[i], l2[i])[x]
      BY <1>4, <1>8, Zenon DEF Holds
    <2>. QED BY <1>4, <1>5, <1>6, <1>7, <2>1, <2>2, <2>3, Zenon DEF Framed
  <1>10. o2[1] = IF n > 0 THEN off[1] ELSE l
    <2>1. CASE n > 0
      <3>1. 1 \in 0 .. n
        BY <1>1, <2>1
      <3>. QED BY <1>7, <2>1, <3>1
    <2>2. CASE n = 0
      BY <1>1, <1>2, <1>7, <2>2
    <2>. QED BY <1>1, <2>1, <2>2
  <1>. QED BY <1>9, <1>10, Zenon DEF s2, m2, e, n, l, Starts

\* The first j frames taken away.
LessFramed(d, M, s, ms, off, j, l2, o2) ==
    /\ Framed(d, M, Cut(s, off[j], Len(s)), Cut(ms, j, Len(ms)), l2, o2)
    /\ j < Len(ms) => o2[1] = off[j + 1] - off[j]

LEMMA FramedLess ==
    ASSUME NEW d \in Direction, NEW M, NEW s, NEW ms, NEW ls, NEW off,
           Framed(d, M, s, ms, ls, off), NEW j \in 0 .. Len(ms)
    PROVE  \E l2, o2 : LessFramed(d, M, s, ms, off, j, l2, o2)
  <1>. DEFINE n == Len(ms)
              k == off[j]
              s2 == Cut(s, k, Len(s))
              m2 == Cut(ms, j, n)
              l2 == [i \in 1 .. n - j |-> ls[j + i]]
              o2 == [i \in 0 .. n - j |-> off[j + i] - k]
  <1>1. /\ s \in Seq(Byte(M)) /\ ms \in Seq(M) /\ n \in Nat /\ Len(s) \in Nat
        /\ ls \in [1 .. n -> PayloadLen[d]]
        /\ off \in [0 .. n -> Nat] /\ off[0] = 0 /\ off[n] = Len(s)
        /\ \A i \in 1 .. n : /\ off[i] = off[i - 1] + FrameLen(d, ls[i])
                             /\ Holds(d, s, off[i - 1], ms[i], ls[i])
                             /\ FrameLen(d, ls[i]) \in Nat
    BY FramedIs
  <1>2. \A i \in 0 .. n : j <= i => off[i] \in Nat /\ k <= off[i] /\ off[i] <= Len(s)
    BY <1>1, OffsetsOrder
  <1>3. j \in Nat /\ j <= n /\ k \in Nat /\ k <= Len(s) /\ n - j \in Nat /\ k \in 0 .. Len(s)
    BY <1>1, <1>2
  <1>4. /\ m2 \in Seq(M) /\ Len(m2) = n - j /\ \A i \in 1 .. n - j : m2[i] = ms[j + i]
    <2>1. ms \in Seq(M) /\ n \in 0 .. Len(ms) /\ j \in 0 .. n
      BY <1>1, <1>3
    <2>. HIDE DEF n
    <2>. QED BY <2>1, CutIs
  <1>5. /\ s2 \in Seq(Byte(M)) /\ Len(s2) = Len(s) - k
        /\ \A x \in 1 .. Len(s) - k : s2[x] = s[k + x]
    <2>1. Len(s) \in 0 .. Len(s)
      BY <1>1
    <2>. HIDE DEF k
    <2>. QED BY <1>1, <1>3, <2>1, CutIs
  <1>. HIDE DEF n, k, m2, s2
  <1>6. l2 \in [1 .. n - j -> PayloadLen[d]] /\ \A i \in 1 .. n - j : l2[i] = ls[j + i]
    <2>1. \A i \in 1 .. n - j : j + i \in 1 .. n
      BY <1>1, <1>3
    <2>. QED BY <1>1, <2>1
  <1>7. o2 \in [0 .. n - j -> Nat] /\ \A i \in 0 .. n - j : o2[i] = off[j + i] - k
    <2>1. ASSUME NEW i \in 0 .. n - j PROVE off[j + i] - k \in Nat
      <3>1. j + i \in 0 .. n /\ j <= j + i
        BY <1>1, <1>3
      <3>2. off[j + i] \in Nat /\ k <= off[j + i]
        BY <1>2, <3>1
      <3>. QED BY <1>3, <3>2
    <2>. QED BY <2>1
  <1>. HIDE DEF l2, o2
  <1>8. ASSUME NEW i \in 1 .. n - j
        PROVE  o2[i] = o2[i - 1] + FrameLen(d, l2[i]) /\ Holds(d, s2, o2[i - 1], m2[i], l2[i])
    <2>1. /\ j + i \in 1 .. n /\ (j + i) - 1 = j + (i - 1) /\ i - 1 \in 0 .. n - j
          /\ i \in 0 .. n - j /\ j + i \in 0 .. n /\ (j + i) - 1 \in 0 .. n
          /\ j <= (j + i) - 1 /\ j <= j + i
      BY <1>1, <1>3
    <2>2. /\ o2[i] = off[j + i] - k /\ o2[i - 1] = off[(j + i) - 1] - k /\ l2[i] = ls[j + i]
          /\ m2[i] = ms[j + i]
      BY <1>4, <1>6, <1>7, <2>1
    <2>3. /\ off[j + i] = off[(j + i) - 1] + FrameLen(d, ls[j + i])
          /\ Holds(d, s, off[(j + i) - 1], ms[j + i], ls[j + i])
          /\ FrameLen(d, ls[j + i]) \in Nat
      BY <1>1, <2>1, Zenon
    <2>4. /\ off[(j + i) - 1] \in Nat /\ off[j + i] \in Nat /\ k <= off[(j + i) - 1]
          /\ off[j + i] <= Len(s)
      BY <1>2, <2>1
    <2>5. ASSUME NEW a \in Nat, NEW b \in Nat, NEW c \in Nat, c = a + b PROVE c - k = (a - k) + b
      BY <1>3, <2>5
    <2>6. off[j + i] - k = (off[(j + i) - 1] - k) + FrameLen(d, ls[j + i])
      BY <2>3, <2>4, <2>5
    <2>7. ASSUME NEW x \in 1 .. FrameLen(d, ls[j + i])
          PROVE  s2[(off[(j + i) - 1] - k) + x] = Encode(d, ms[j + i], ls[j + i])[x]
      <3>1. /\ (off[(j + i) - 1] - k) + x \in 1 .. Len(s) - k
            /\ k + ((off[(j + i) - 1] - k) + x) = off[(j + i) - 1] + x
        <4>1. ASSUME NEW a \in Nat, NEW b \in Nat, NEW c \in Nat, c = a + b, c <= Len(s), k <= a,
                     NEW y \in 1 .. b
              PROVE  (a - k) + y \in 1 .. Len(s) - k /\ k + ((a - k) + y) = a + y
          <5>1. Len(s) \in Nat /\ k \in Nat
            BY <1>1, <1>3
          <5>2. ASSUME NEW z \in Nat, c <= z, NEW q \in Nat, q <= a
                PROVE  (a - q) + y \in 1 .. z - q /\ q + ((a - q) + y) = a + y
            BY <4>1, <5>2
          <5>. QED BY <4>1, <5>1, <5>2, Zenon
        <4>. QED BY <2>3, <2>4, <4>1
      <3>2. s[off[(j + i) - 1] + x] = Encode(d, ms[j + i], ls[j + i])[x]
        BY <2>3, Zenon DEF Holds
      <3>. QED BY <1>5, <3>1, <3>2, Zenon
    <2>8. Holds(d, s2, off[(j + i) - 1] - k, ms[j + i], ls[j + i])
      BY <2>7, Zenon DEF Holds
    <2>. QED BY <2>2, <2>6, <2>8, Zenon
  <1>9. Framed(d, M, s2, m2, l2, o2)
    <2>1. o2[0] = 0 /\ o2[Len(m2)] = Len(s2)
      <3>1. j + 0 = j /\ j + (n - j) = n /\ 0 \in 0 .. n - j /\ n - j \in 0 .. n - j
        BY <1>1, <1>3
      <3>2. o2[0] = off[j] - k /\ o2[n - j] = off[n] - k
        BY <1>7, <3>1
      <3>. QED BY <1>1, <1>3, <1>4, <1>5, <3>2 DEF k
    <2>2. \A i \in 1 .. Len(m2) : o2[i] = o2[i - 1] + FrameLen(d, l2[i])
      BY <1>4, <1>8, Zenon
    <2>3. \A i \in 1 .. Len(m2) : \A x \in 1 .. FrameLen(d, l2[i]) :
            s2[o2[i - 1] + x] = Encode(d, m2[i], l2[i])[x]
      BY <1>4, <1>8, Zenon DEF Holds
    <2>. QED BY <1>4, <1>5, <1>6, <1>7, <2>1, <2>2, <2>3, Zenon DEF Framed
  <1>10. j < n => o2[1] = off[j + 1] - k
    <2>. SUFFICES ASSUME j < n PROVE o2[1] = off[j + 1] - k
      OBVIOUS
    <2>1. 1 \in 0 .. n - j
      BY <1>1, <1>3
    <2>. QED BY <1>7, <2>1
  <1>. QED BY <1>9, <1>10, Zenon DEF s2, m2, k, n, LessFramed

-----------------------------------------------------------------------------
(* A parser's buffer and the wire behind it.                               *)

\* Together they are the frames of ms, and the buffer has less than the first.
Carries(d, M, b, w, ms) ==
    /\ b \in Seq(Byte(M)) /\ w \in Seq(Byte(M))
    /\ \E ls, off : Framed(d, M, b \o w, ms, ls, off) /\ (Len(ms) > 0 => Len(b) < off[1])

LEMMA CarriesNothing ==
    ASSUME NEW d \in Direction, NEW M
    PROVE  Carries(d, M, <<>>, <<>>, <<>>)
  <1>. DEFINE ls == [i \in 1 .. 0 |-> 0]
              off == [i \in 0 .. 0 |-> 0]
  <1>1. <<>> \o <<>> = <<>> /\ <<>> \in Seq(Byte(M)) /\ <<>> \in Seq(M) /\ Len(<<>>) = 0
    OBVIOUS
  <1>2. ls \in [1 .. 0 -> PayloadLen[d]] /\ off \in [0 .. 0 -> Nat] /\ off[0] = 0
    OBVIOUS
  <1>3. 1 .. 0 = {}
    OBVIOUS
  <1>. HIDE DEF ls, off
  <1>4. Framed(d, M, <<>>, <<>>, ls, off)
    BY <1>1, <1>2, <1>3 DEF Framed
  <1>5. ~(Len(<<>>) > 0)
    BY <1>1
  <1>. QED BY <1>1, <1>4, <1>5, Zenon DEF Carries

LEMMA CarriesSent ==
    ASSUME NEW d \in Direction, NEW M, NEW b, NEW w, NEW ms, Carries(d, M, b, w, ms),
           NEW m \in M, NEW len \in PayloadLen[d]
    PROVE  Carries(d, M, b, w \o Encode(d, m, len), Append(ms, m))
  <1>. DEFINE e == Encode(d, m, len)
              s == b \o w
              m2 == Append(ms, m)
  <1>1. b \in Seq(Byte(M)) /\ w \in Seq(Byte(M))
    BY Zenon DEF Carries
  <1>2. PICK ls, off : Framed(d, M, s, ms, ls, off) /\ (Len(ms) > 0 => Len(b) < off[1])
    BY Zenon DEF Carries
  <1>3. e \in Seq(Byte(M))
    BY EncodeShape
  <1>4. s \o e = b \o (w \o e) /\ w \o e \in Seq(Byte(M)) /\ Len(s) = Len(b) + Len(w)
    <2>. HIDE DEF e
    <2>. QED BY <1>1, <1>3
  <1>. DEFINE first == IF Len(ms) > 0 THEN off[1] ELSE FrameLen(d, len)
  <1>5. PICK l2, o2 : Framed(d, M, s \o e, m2, l2, o2) /\ o2[1] = first
    <2>1. Starts(d, M, s \o e, m2, first)
      <3>. HIDE DEF s
      <3>. QED BY <1>2, FramedMore
    <2>. QED BY <2>1, Zenon DEF Starts
  <1>6. Len(b) < o2[1]
    <2>. HIDE DEF e, m2
    <2>1. Len(ms) \in Nat /\ off[0] = 0 /\ off[Len(ms)] = Len(s)
      BY <1>2, FramedIs
    <2>2. FrameLen(d, len) \in Nat /\ FrameStart(d, len) \in Nat /\ len \in Nat
          /\ 2 <= FrameStart(d, len) /\ FrameLen(d, len) = FrameStart(d, len) + len
      BY FrameSizes
    <2>3. CASE Len(ms) > 0
      BY <1>2, <1>5, <2>3, Zenon
    <2>4. CASE Len(ms) = 0
      <3>1. Len(s) = 0 /\ o2[1] = FrameLen(d, len)
        BY <1>5, <2>1, <2>4
      <3>. HIDE DEF s
      <3>2. Len(b) = 0
        <4>1. Len(b) \in Nat /\ Len(w) \in Nat
          BY <1>1
        <4>. QED BY <1>4, <3>1, <4>1
      <3>. QED BY <2>2, <3>1, <3>2
    <2>. QED BY <2>1, <2>3, <2>4
  <1>7. Framed(d, M, b \o (w \o e), m2, l2, o2)
    BY <1>4, <1>5, Zenon
  <1>. QED BY <1>1, <1>4, <1>6, <1>7, Zenon DEF Carries

-----------------------------------------------------------------------------
(* The messages that pass.                                                 *)

Count(ms, kind, j) == Cardinality({i \in 1 .. j : ms[i].kind = kind})

\* What the x-th byte of a frame of m says.
Says(d, b, x, len, m) == b.part = x - FrameStart(d, len) /\ b.of = len /\ b.msg = m

LEMMA ByteOf ==
    ASSUME NEW d \in Direction, NEW M, NEW s, NEW ms, NEW ls, NEW off,
           Framed(d, M, s, ms, ls, off), NEW i \in 1 .. Len(ms),
           NEW x \in 1 .. FrameLen(d, ls[i])
    PROVE  Says(d, s[off[i - 1] + x], x, ls[i], ms[i])
  <1>1. /\ ms \in Seq(M) /\ Len(ms) \in Nat /\ ls \in [1 .. Len(ms) -> PayloadLen[d]]
        /\ Holds(d, s, off[i - 1], ms[i], ls[i])
    BY FramedIs
  <1>2. ls[i] \in PayloadLen[d] /\ ms[i] \in M
    BY <1>1
  <1>3. s[off[i - 1] + x] = Encode(d, ms[i], ls[i])[x]
    BY <1>1, Zenon DEF Holds
  <1>. DEFINE m == ms[i]
              len == ls[i]
  <1>4. Says(d, Encode(d, m, len)[x], x, len, m)
    <2>1. len \in PayloadLen[d] /\ m \in M /\ x \in 1 .. FrameLen(d, len)
      BY <1>2
    <2>. HIDE DEF m, len
    <2>2. /\ Encode(d, m, len)[x].part = x - FrameStart(d, len)
          /\ Encode(d, m, len)[x].of = len /\ Encode(d, m, len)[x].msg = m
      BY <2>1, EncodeShape
    <2>. QED BY <2>2, Zenon DEF Says
  <1>. QED BY <1>3, <1>4, Zenon

\* The last byte of a frame.
LEMMA LastByte ==
    ASSUME NEW d \in Direction, NEW M, NEW s, NEW ms, NEW ls, NEW off,
           Framed(d, M, s, ms, ls, off), NEW i \in 1 .. Len(ms)
    PROVE  s[off[i]].part = s[off[i]].of /\ s[off[i]].msg = ms[i]
  <1>. DEFINE l == FrameLen(d, ls[i])
              st == FrameStart(d, ls[i])
  <1>1. ls[i] \in PayloadLen[d] /\ off[i] = off[i - 1] + l
    <2>1. Len(ms) \in Nat /\ ls \in [1 .. Len(ms) -> PayloadLen[d]] /\ off[i] = off[i - 1] + l
      BY FramedIs
    <2>. QED BY <2>1
  <1>2. l \in Nat /\ st \in Nat /\ 2 <= st /\ l = st + ls[i] /\ ls[i] \in Nat
    BY <1>1, FrameSizes
  <1>3. l \in 1 .. l /\ l - st = ls[i]
    <2>. HIDE DEF l, st
    <2>. QED BY <1>2
  <1>4. /\ s[off[i - 1] + l].part = l - st
        /\ s[off[i - 1] + l].of = ls[i] /\ s[off[i - 1] + l].msg = ms[i]
    <2>1. Says(d, s[off[i - 1] + l], l, ls[i], ms[i])
      BY <1>3, ByteOf, Zenon
    <2>. QED BY <2>1, Zenon DEF Says
  <1>. QED BY <1>1, <1>3, <1>4, Zenon

\* A byte that is the last of its message ends a frame.
LEMMA EndsFrame ==
    ASSUME NEW d \in Direction, NEW M, NEW s, NEW ms, NEW ls, NEW off,
           Framed(d, M, s, ms, ls, off), NEW p \in 1 .. Len(s), s[p].part = s[p].of
    PROVE  \E i \in 1 .. Len(ms) : off[i] = p
  <1>1. /\ Len(ms) \in Nat /\ Len(s) \in Nat /\ off \in [0 .. Len(ms) -> Nat]
        /\ off[Len(ms)] = Len(s)
        /\ \A k \in 1 .. Len(ms) : /\ off[k] = off[k - 1] + FrameLen(d, ls[k])
                                   /\ FrameLen(d, ls[k]) \in Nat
    BY FramedIs
  <1>2. p - 1 \in 0 .. Len(s)
    BY <1>1
  <1>3. PICK j \in 0 .. Len(ms) : Within(off, ms, p - 1, j)
    BY <1>2, WithinExists
  <1>4. off[j] \in Nat /\ off[j] <= p - 1
    BY <1>1, <1>3 DEF Within
  <1>5. j < Len(ms)
    <2>. SUFFICES ASSUME j = Len(ms) PROVE FALSE
      BY <1>1
    <2>. QED BY <1>1, <1>4
  <1>6. j + 1 \in 1 .. Len(ms) /\ (j + 1) - 1 = j
    BY <1>1, <1>5
  <1>. DEFINE l == FrameLen(d, ls[j + 1])
              x == p - off[j]
  <1>7. off[j + 1] = off[j] + l /\ l \in Nat /\ p - 1 < off[j + 1]
    BY <1>1, <1>3, <1>5, <1>6 DEF Within
  <1>. HIDE DEF l
  <1>8. x \in 1 .. l /\ off[j] + x = p
    BY <1>1, <1>4, <1>7
  <1>. HIDE DEF x
  <1>9. /\ s[off[j] + x].part = x - FrameStart(d, ls[j + 1])
        /\ s[off[j] + x].of = ls[j + 1] /\ l = FrameStart(d, ls[j + 1]) + ls[j + 1]
        /\ FrameStart(d, ls[j + 1]) \in Nat /\ ls[j + 1] \in Nat
    <2>. DEFINE i == j + 1
    <2>1. i \in 1 .. Len(ms) /\ x \in 1 .. FrameLen(d, ls[i]) /\ i - 1 = j
      BY <1>6, <1>8 DEF l
    <2>. HIDE DEF i
    <2>2. Says(d, s[off[i - 1] + x], x, ls[i], ms[i])
      BY <2>1, ByteOf, Zenon
    <2>3. ls[i] \in PayloadLen[d]
      <3>1. ls \in [1 .. Len(ms) -> PayloadLen[d]]
        BY FramedIs
      <3>. QED BY <2>1, <3>1
    <2>4. /\ FrameLen(d, ls[i]) = FrameStart(d, ls[i]) + ls[i]
          /\ FrameStart(d, ls[i]) \in Nat /\ ls[i] \in Nat
      BY <2>3, FrameSizes
    <2>. QED BY <2>1, <2>2, <2>4, Zenon DEF i, l, Says
  <1>10. x - FrameStart(d, ls[j + 1]) = ls[j + 1]
    BY <1>8, <1>9, Zenon
  <1>11. x = l
    <2>1. ASSUME NEW a \in Nat, NEW f \in Nat, NEW c, c - f = a, c \in 1 .. l, l = f + a PROVE c = l
      BY <1>7, <2>1
    <2>. QED BY <1>8, <1>9, <1>10, <2>1
  <1>. QED BY <1>6, <1>7, <1>8, <1>11

\* The last bytes among the first n of the wire, and the frames they end.
LEMMA PassedCount ==
    ASSUME NEW d \in Direction, NEW M, NEW b \in Seq(Byte(M)), NEW w \in Seq(Byte(M)),
           NEW ms, NEW ls, NEW off, Framed(d, M, b \o w, ms, ls, off),
           Len(ms) > 0 => Len(b) < off[1],
           NEW n \in 0 .. Len(w), NEW j \in 0 .. Len(ms), Within(off, ms, Len(b) + n, j),
           NEW kind
    PROVE  Passed(SubSeq(w, 1, n), kind) = Count(ms, kind, j)
  <1>. DEFINE s == b \o w
              lb == Len(b)
              bytes == SubSeq(w, 1, n)
              S == {i \in 1 .. j : ms[i].kind = kind}
              Z == {y \in DOMAIN bytes : bytes[y].part = bytes[y].of /\ bytes[y].msg.kind = kind}
              g == [i \in S |-> off[i] - lb]
  <1>1. /\ Len(ms) \in Nat /\ Len(s) \in Nat /\ off \in [0 .. Len(ms) -> Nat] /\ j \in Nat
        /\ j <= Len(ms)
    BY FramedIs
  <1>2. /\ lb \in Nat /\ n \in Nat /\ Len(s) = lb + Len(w) /\ n <= Len(w) /\ Len(w) \in Nat
        /\ \A y \in 1 .. Len(w) : s[lb + y] = w[y]
    OBVIOUS
  <1>3. DOMAIN bytes = 1 .. n /\ \A y \in 1 .. n : bytes[y] = s[lb + y]
    OBVIOUS
  <1>4. off[j] <= lb + n /\ (j < Len(ms) => lb + n < off[j + 1])
    BY DEF Within
  <1>5. Framed(d, M, s, ms, ls, off)
    OBVIOUS
  <1>. HIDE DEF s, lb, bytes
  <1>6. ASSUME NEW i \in 1 .. j
        PROVE  /\ i \in 1 .. Len(ms) /\ off[i] \in Nat /\ lb < off[i] /\ off[i] <= lb + n
               /\ off[i] - lb \in 1 .. n /\ lb + (off[i] - lb) = off[i]
    <2>1. i \in 1 .. Len(ms) /\ i \in 0 .. Len(ms) /\ 1 \in 0 .. Len(ms) /\ 1 <= i /\ i <= j
          /\ Len(ms) > 0
      BY <1>1
    <2>2. off[1] \in Nat /\ off[i] \in Nat /\ off[1] <= off[i]
      BY <1>5, <2>1, OffsetsOrder
    <2>3. off[i] <= off[j] /\ off[j] \in Nat
      BY <1>5, <2>1, OffsetsOrder
    <2>4. lb < off[1]
      BY <2>1 DEF lb
    <2>5. ASSUME NEW x \in Nat, NEW y \in Nat, NEW z \in Nat, lb < x, x <= y, y <= z, z <= lb + n
          PROVE  lb < y /\ y <= lb + n /\ y - lb \in 1 .. n /\ lb + (y - lb) = y
      BY <1>2, <2>5
    <2>6. lb < off[i] /\ off[i] <= lb + n /\ off[i] - lb \in 1 .. n /\ lb + (off[i] - lb) = off[i]
      BY <1>4, <2>2, <2>3, <2>4, <2>5
    <2>. QED BY <2>1, <2>2, <2>6
  <1>7. ASSUME NEW i \in S PROVE g[i] \in Z
    <2>1. i \in 1 .. j /\ ms[i].kind = kind
      OBVIOUS
    <2>2. s[off[i]].part = s[off[i]].of /\ s[off[i]].msg = ms[i]
      BY <1>5, <1>6, <2>1, LastByte
    <2>3. off[i] - lb \in 1 .. n /\ bytes[off[i] - lb] = s[off[i]]
      BY <1>3, <1>6, <2>1
    <2>. QED BY <1>3, <2>1, <2>2, <2>3
  <1>8. ASSUME NEW x \in S, NEW y \in S, g[x] = g[y] PROVE x = y
    <2>1. x \in 1 .. j /\ y \in 1 .. j /\ off[x] - lb = off[y] - lb
      BY <1>8
    <2>2. off[x] = off[y] /\ x \in 0 .. Len(ms) /\ y \in 0 .. Len(ms)
      BY <1>1, <1>2, <1>6, <2>1
    <2>3. x <= y => (x < y => off[x] < off[y])
      BY <1>5, <2>2, OffsetsOrder
    <2>4. y <= x => (y < x => off[y] < off[x])
      BY <1>5, <2>2, OffsetsOrder
    <2>5. ~(x < y) /\ ~(y < x)
      BY <1>1, <1>6, <2>1, <2>2, <2>3, <2>4
    <2>. QED BY <2>1, <2>5
  <1>9. ASSUME NEW y \in Z PROVE \E i \in S : g[i] = y
    <2>1. y \in 1 .. n /\ bytes[y].part = bytes[y].of /\ bytes[y].msg.kind = kind
      BY <1>3
    <2>2. lb + y \in 1 .. Len(s) /\ s[lb + y] = bytes[y]
      BY <1>2, <1>3, <2>1
    <2>3. PICK i \in 1 .. Len(ms) : off[i] = lb + y
      BY <1>5, <2>1, <2>2, EndsFrame
    <2>4. s[off[i]].msg = ms[i]
      BY <1>5, LastByte
    <2>5. i \in 1 .. j
      <3>. SUFFICES ASSUME j < i PROVE FALSE
        BY <1>1
      <3>1. j + 1 \in 0 .. Len(ms) /\ i \in 0 .. Len(ms) /\ j + 1 <= i /\ j < Len(ms)
        BY <1>1
      <3>2. off[j + 1] <= off[i] /\ off[i] \in Nat /\ off[j + 1] \in Nat
        BY <1>5, <3>1, OffsetsOrder
      <3>. QED BY <1>2, <1>4, <2>1, <2>3, <3>1, <3>2
    <2>6. ms[i].kind = kind
      BY <2>1, <2>2, <2>3, <2>4
    <2>7. i \in S /\ g[i] = y
      BY <1>2, <2>1, <2>3, <2>5, <2>6
    <2>. QED BY <2>7
  <1>. HIDE DEF Z
  <1>10. g \in [S -> Z]
    BY <1>7
  <1>11. IsFiniteSet(S)
    <2>1. S \subseteq 1 .. j /\ IsFiniteSet(1 .. j)
      BY <1>1, FS_Interval
    <2>. QED BY <2>1, FS_Subset
  <1>. HIDE DEF S, g
  <1>12. g \in Bijection(S, Z)
    BY <1>8, <1>9, <1>10, Zenon DEF Bijection, Injection, Surjection, IsInjective
  <1>13. Cardinality(Z) = Cardinality(S)
    <2>1. ExistsBijection(S, Z)
      BY <1>12, Zenon DEF ExistsBijection
    <2>. QED BY <1>11, <2>1, FS_Bijection, Zenon
  <1>. QED BY <1>13, Zenon DEF Z, S, bytes, Passed, Count

\* n bytes pass: the parser takes the messages that end among them, and their kinds
\* are counted.
Passes(d, M, b, w, ms, n, j) ==
    LET bytes  == SubSeq(w, 1, n)
        parsed == Parse(b \o bytes)
    IN  /\ Carries(d, M, parsed.buf, SubSeq(w, n + 1, Len(w)), Cut(ms, j, Len(ms)))
        /\ Taken(parsed.out, M, ms, j)
        /\ \A kind : Passed(bytes, kind) = Count(ms, kind, j)

LEMMA Passing ==
    ASSUME cap = 0, NEW d \in Direction, NEW M, NEW b, NEW w, NEW ms, Carries(d, M, b, w, ms),
           NEW n \in 1 .. Len(w)
    PROVE  \E j \in 0 .. Len(ms) : Passes(d, M, b, w, ms, n, j)
  <1>. DEFINE s == b \o w
              lb == Len(b)
              L == lb + n
              bytes == SubSeq(w, 1, n)
              left == SubSeq(w, n + 1, Len(w))
              parsed == Parse(b \o bytes)
  <1>1. b \in Seq(Byte(M)) /\ w \in Seq(Byte(M))
    BY Zenon DEF Carries
  <1>2. PICK ls, off : Framed(d, M, s, ms, ls, off) /\ (Len(ms) > 0 => lb < off[1])
    BY Zenon DEF Carries
  <1>3. /\ s \in Seq(Byte(M)) /\ Len(s) = lb + Len(w) /\ lb \in Nat /\ Len(w) \in Nat
        /\ n \in 0 .. Len(w) /\ L \in 0 .. Len(s) /\ Len(s) \in Nat /\ L \in Nat
    BY <1>1
  <1>4. b \o bytes = Cut(s, 0, L) /\ left = Cut(s, L, Len(s))
    <2>1. 0 \in 0 .. n /\ 0 + 1 = 1 /\ n - 0 = n /\ \A x \in 1 .. n : 0 + x = x
      BY <1>3
    <2>2. bytes \in Seq(Byte(M)) /\ Len(bytes) = n /\ \A x \in 1 .. n : bytes[x] = w[x]
      BY <1>1, <1>3, <2>1, Part
    <2>3. /\ left \in Seq(Byte(M)) /\ Len(left) = Len(w) - n
          /\ \A x \in 1 .. Len(w) - n : left[x] = w[n + x]
      <3>1. Len(w) \in 0 .. Len(w)
        BY <1>3
      <3>. QED BY <1>1, <1>3, <3>1, Part
    <2>4. /\ \A x \in 1 .. lb : s[x] = b[x]
          /\ \A x \in 1 .. Len(w) : s[lb + x] = w[x]
      BY <1>1
    <2>. HIDE DEF s, bytes, left
    <2>5. /\ b \o bytes \in Seq(Byte(M)) /\ Len(b \o bytes) = L
          /\ \A x \in 1 .. lb : (b \o bytes)[x] = b[x]
          /\ \A x \in 1 .. n : (b \o bytes)[lb + x] = bytes[x]
      <3>1. ASSUME NEW q \in Seq(Byte(M))
            PROVE  /\ b \o q \in Seq(Byte(M)) /\ Len(b \o q) = Len(b) + Len(q)
                   /\ \A x \in 1 .. Len(b) : (b \o q)[x] = b[x]
                   /\ \A x \in 1 .. Len(q) : (b \o q)[Len(b) + x] = q[x]
        BY <1>1
      <3>. QED BY <2>2, <3>1, Zenon
    <2>. HIDE DEF lb, L
    <2>6. /\ Cut(s, 0, L) \in Seq(Byte(M)) /\ Len(Cut(s, 0, L)) = L
          /\ \A x \in 1 .. L : Cut(s, 0, L)[x] = s[x]
      <3>1. 0 \in 0 .. L /\ L - 0 = L /\ \A x \in 1 .. L : 0 + x = x
        BY <1>3
      <3>2. /\ Cut(s, 0, L) \in Seq(Byte(M)) /\ Len(Cut(s, 0, L)) = L - 0
            /\ \A x \in 1 .. L - 0 : Cut(s, 0, L)[x] = s[0 + x]
        BY <1>3, <3>1, CutIs
      <3>. QED BY <3>1, <3>2
    <2>7. /\ Cut(s, L, Len(s)) \in Seq(Byte(M)) /\ Len(Cut(s, L, Len(s))) = Len(s) - L
          /\ \A x \in 1 .. Len(s) - L : Cut(s, L, Len(s))[x] = s[L + x]
      <3>1. Len(s) \in 0 .. Len(s)
        BY <1>3
      <3>. QED BY <1>3, <3>1, CutIs
    <2>8. \A x \in 1 .. L : (b \o bytes)[x] = Cut(s, 0, L)[x]
      <3>. SUFFICES ASSUME NEW x \in 1 .. L PROVE (b \o bytes)[x] = s[x]
        BY <2>6
      <3>1. CASE x \in 1 .. lb
        BY <2>4, <2>5, <3>1
      <3>2. CASE x \notin 1 .. lb
        <4>. DEFINE y == x - lb
        <4>1. y \in 1 .. n /\ y \in 1 .. Len(w) /\ lb + y = x
          BY <1>3, <3>2 DEF L
        <4>. HIDE DEF y
        <4>2. (b \o bytes)[lb + y] = w[y] /\ s[lb + y] = w[y]
          BY <2>2, <2>4, <2>5, <4>1
        <4>. QED BY <4>1, <4>2
      <3>. QED BY <3>1, <3>2
    <2>9. \A x \in 1 .. Len(w) - n : left[x] = Cut(s, L, Len(s))[x]
      <3>. SUFFICES ASSUME NEW x \in 1 .. Len(w) - n PROVE left[x] = Cut(s, L, Len(s))[x]
        OBVIOUS
      <3>1. n + x \in 1 .. Len(w) /\ lb + (n + x) = L + x /\ x \in 1 .. Len(s) - L
        BY <1>3 DEF L
      <3>2. s[lb + (n + x)] = w[n + x]
        BY <2>4, <3>1
      <3>. QED BY <2>3, <2>7, <3>1, <3>2
    <2>10. Len(w) - n = Len(s) - L
      BY <1>3 DEF L
    <2>11. b \o bytes = Cut(s, 0, L)
      <3>. DEFINE u == b \o bytes
      <3>. HIDE DEF u
      <3>. QED BY <2>5, <2>6, <2>8, SeqEqual DEF u
    <2>. QED BY <2>3, <2>7, <2>9, <2>10, <2>11, SeqEqual
  <1>5. PICK j \in 0 .. Len(ms) : Within(off, ms, L, j)
    BY <1>2, <1>3, WithinExists
  <1>6. parsed.buf = Cut(s, off[j], L) /\ Taken(parsed.out, M, ms, j)
    <2>. HIDE DEF s, L
    <2>1. Parse(Cut(s, 0, L)).buf = Cut(s, off[j], L) /\ Taken(Parse(Cut(s, 0, L)).out, M, ms, j)
      BY <1>2, <1>3, <1>5, ParseFrames
    <2>. QED BY <1>4, <2>1, Zenon
  <1>7. ASSUME NEW kind PROVE Passed(bytes, kind) = Count(ms, kind, j)
    BY <1>1, <1>2, <1>3, <1>5, PassedCount
  <1>. HIDE DEF s, lb, L, bytes, left, parsed
  <1>8. off[j] \in Nat /\ off[j] <= L /\ (j < Len(ms) => L < off[j + 1])
    BY <1>2, <1>5, OffsetsOrder DEF Within
  <1>9. /\ Cut(s, off[j], L) \in Seq(Byte(M)) /\ Len(Cut(s, off[j], L)) = L - off[j]
        /\ Cut(s, L, Len(s)) \in Seq(Byte(M))
        /\ Cut(s, off[j], L) \o Cut(s, L, Len(s)) = Cut(s, off[j], Len(s))
    <2>1. off[j] \in 0 .. L /\ L \in 0 .. Len(s) /\ Len(s) \in 0 .. Len(s)
      BY <1>3, <1>8
    <2>2. Cut(s, off[j], L) \in Seq(Byte(M)) /\ Len(Cut(s, off[j], L)) = L - off[j]
      BY <1>3, <2>1, CutIs
    <2>3. Cut(s, L, Len(s)) \in Seq(Byte(M))
      BY <1>3, <2>1, CutIs
    <2>4. Cut(s, off[j], L) \o Cut(s, L, Len(s)) = Cut(s, off[j], Len(s))
      BY <1>3, <2>1, PartsJoin, Zenon DEF Cut
    <2>. QED BY <2>2, <2>3, <2>4
  <1>10. PICK l2, o2 : LessFramed(d, M, s, ms, off, j, l2, o2)
    BY <1>2, FramedLess
  <1>11. Len(Cut(ms, j, Len(ms))) > 0 => Len(parsed.buf) < o2[1]
    <2>1. ms \in Seq(M) /\ Len(ms) \in Nat /\ off \in [0 .. Len(ms) -> Nat]
      BY <1>2, FramedIs
    <2>2. Len(Cut(ms, j, Len(ms))) = Len(ms) - j
      <3>1. Len(ms) \in 0 .. Len(ms)
        BY <2>1
      <3>. QED BY <2>1, <3>1, CutIs
    <2>. SUFFICES ASSUME j < Len(ms) PROVE Len(parsed.buf) < o2[1]
      BY <2>1, <2>2
    <2>3. o2[1] = off[j + 1] - off[j] /\ L < off[j + 1]
      BY <1>8, <1>10, Zenon DEF LessFramed
    <2>4. off[j + 1] \in Nat
      BY <2>1
    <2>5. Len(parsed.buf) = L - off[j]
      BY <1>6, <1>9
    <2>. QED BY <1>3, <1>8, <2>3, <2>4, <2>5
  <1>12. Framed(d, M, parsed.buf \o left, Cut(ms, j, Len(ms)), l2, o2)
    BY <1>4, <1>6, <1>9, <1>10, Zenon DEF LessFramed
  <1>13. Carries(d, M, parsed.buf, left, Cut(ms, j, Len(ms)))
    BY <1>4, <1>6, <1>9, <1>11, <1>12, Zenon DEF Carries
  <1>. QED BY <1>6, <1>7, <1>13, Zenon DEF Passes, bytes, left, parsed

-----------------------------------------------------------------------------
(* The turn state and the server's messages.                               *)

TurnKinds == {"delta", "item", "done"}
ServerEvent == [kind : {"delta", "item", "done", "other"}, turn : Nat, n : Nat]
ClientEvent == [kind : {"create"}, turn : Nat, n : Nat]
TurnRecord == [input : Nat, output : Seq(Nat), tools : Seq(Nat),
               rawResponse : Seq(ServerEvent), first : Nat]

\* The output and the tools are those of the raw response.
Sorted(output, tools, raw) ==
    /\ output = Numbers(OfKind(raw, {"delta"})) /\ tools = Numbers(OfKind(raw, {"item"}))
\* The other events of a raw response passed after the first o.
Later(raw, o) == \A i \in DOMAIN raw : raw[i].kind = "other" => raw[i].n > o
\* A record answers request k.
Answers(r, k) ==
    /\ r.input = k /\ r.first = k /\ Sorted(r.output, r.tools, r.rawResponse)
    /\ OfKind(r.rawResponse, TurnKinds) = said[k] /\ Later(r.rawResponse, opened[k])
\* A response that has ended.
Closed(e) == e # <<>> /\ e[Len(e)].kind = "done"

\* The other events on their way, when se have passed.
OthersLeft(ms, se) ==
    LET left == OfKind(ms, {"other"})
    IN  /\ se + Len(left) = others
        /\ \A i \in 1 .. Len(left) : left[i].n = se + i

\* No turn is open, or that of the last request the server received.
Between(t, ms) ==
    /\ t.input = None /\ t.first = None
    /\ OfKind(t.rawResponse, TurnKinds) = <<>> /\ OfKind(ms, TurnKinds) = <<>>
During(t, se, ms) ==
    /\ t.input = known /\ t.first \in {None, known}
    /\ OfKind(t.rawResponse, TurnKinds) \o OfKind(ms, TurnKinds) = said[known]
    /\ Later(t.rawResponse, opened[known]) /\ opened[known] <= se

\* The turn and the records when the messages ms are on their way, en responses have
\* ended and se other events have passed.
Flow(t, recs, en, se, ms) ==
    /\ t \in TurnRecord /\ recs \in Seq(TurnRecord) /\ en \in Nat /\ se \in Nat
    /\ ms \in Seq(ServerEvent)
    /\ Len(recs) = en /\ \A k \in 1 .. en : Answers(recs[k], k) /\ Closed(said[k])
    /\ OthersLeft(ms, se) /\ Sorted(t.output, t.tools, t.rawResponse)
    /\ \/ known = en /\ Between(t, ms)
       \/ known = en + 1 /\ During(t, se, ms)

\* What the server received and said.
Sayings ==
    /\ said \in [1 .. Turns -> Seq(ServerEvent)] /\ opened \in [1 .. Turns -> Nat]
    /\ known \in 0 .. Turns /\ others \in Nat
    /\ \A k \in 1 .. Turns : \A i \in 1 .. Len(said[k]) :
         said[k][i].kind = "done" => i = Len(said[k])
    /\ \A k \in known + 1 .. Turns : said[k] = <<>>

-----------------------------------------------------------------------------
(* One message.                                                            *)

\* What a message adds to a turn.
FirstOf(t) == IF t.input # None /\ t.first = None THEN t.input ELSE t.first
Adds(t, m, u) ==
    /\ u \in TurnRecord /\ u.input = t.input /\ u.first = FirstOf(t)
    /\ u.rawResponse = Append(t.rawResponse, m)
    /\ u.output = (IF m.kind = "delta" THEN Append(t.output, m.n) ELSE t.output)
    /\ u.tools = (IF m.kind = "item" THEN Append(t.tools, m.n) ELSE t.tools)

LEMMA EventKinds4 ==
    ASSUME NEW m \in ServerEvent
    PROVE  /\ m.kind \in {"delta", "item", "done", "other"} /\ m.n \in Nat
           /\ m.kind = "delta" \/ m.kind = "item" \/ m.kind = "done" \/ m.kind = "other"
  BY DEF ServerEvent

Applies(t, recs, m, payload, u) ==
    /\ Adds(t, m, u)
    /\ ApplyServerFrame([turn |-> t, records |-> recs], payload) =
         IF m.kind = "done" THEN [turn |-> NoTurn, records |-> Append(recs, u)]
         ELSE [turn |-> u, records |-> recs]

LEMMA ServerFrame ==
    ASSUME NEW t \in TurnRecord, NEW recs \in Seq(TurnRecord), NEW m \in ServerEvent,
           NEW payload, Message(payload) = m
    PROVE  \E u : Applies(t, recs, m, payload, u)
  <1>. DEFINE st == [turn |-> t, records |-> recs]
              v == [st.turn EXCEPT
                      !.first = IF st.turn.input # None /\ @ = None THEN st.turn.input ELSE @,
                      !.rawResponse = Append(@, m)]
              u == CASE m.kind = "item"  -> [v EXCEPT !.tools = Append(@, m.n)]
                     [] m.kind = "delta" -> [v EXCEPT !.output = Append(@, m.n)]
                     [] OTHER            -> v
  <1>1. /\ t.input \in Nat /\ t.first \in Nat /\ t.rawResponse \in Seq(ServerEvent)
        /\ t.output \in Seq(Nat) /\ t.tools \in Seq(Nat) /\ m.n \in Nat
    BY DEF TurnRecord, ServerEvent
  <1>2. /\ Append(t.rawResponse, m) \in Seq(ServerEvent) /\ FirstOf(t) \in Nat
        /\ Append(t.output, m.n) \in Seq(Nat) /\ Append(t.tools, m.n) \in Seq(Nat)
    BY <1>1 DEF FirstOf
  <1>3. v = [t EXCEPT !.first = FirstOf(t), !.rawResponse = Append(t.rawResponse, m)]
    BY DEF FirstOf
  <1>4. /\ v \in TurnRecord /\ v.input = t.input /\ v.first = FirstOf(t)
        /\ v.rawResponse = Append(t.rawResponse, m) /\ v.output = t.output /\ v.tools = t.tools
    <2>1. ASSUME NEW f \in Nat, NEW r \in Seq(ServerEvent)
          PROVE  LET w == [t EXCEPT !.first = f, !.rawResponse = r]
                 IN  /\ w \in TurnRecord /\ w.input = t.input /\ w.first = f
                     /\ w.rawResponse = r /\ w.output = t.output /\ w.tools = t.tools
      BY DEF TurnRecord
    <2>. DEFINE f == FirstOf(t)
                raw == Append(t.rawResponse, m)
    <2>2. f \in Nat /\ raw \in Seq(ServerEvent) /\ v = [t EXCEPT !.first = f, !.rawResponse = raw]
      BY <1>2, <1>3
    <2>. HIDE DEF v, f, raw
    <2>3. /\ v \in TurnRecord /\ v.input = t.input /\ v.first = f
          /\ v.rawResponse = raw /\ v.output = t.output /\ v.tools = t.tools
      BY <2>1, <2>2
    <2>. QED BY <2>3 DEF f, raw
  <1>. HIDE DEF v
  <1>5. ASSUME NEW x \in Seq(Nat)
        PROVE  LET w == [v EXCEPT !.tools = x]
               IN  /\ w \in TurnRecord /\ w.input = v.input /\ w.first = v.first
                   /\ w.rawResponse = v.rawResponse /\ w.output = v.output /\ w.tools = x
    BY <1>4 DEF TurnRecord
  <1>6. ASSUME NEW x \in Seq(Nat)
        PROVE  LET w == [v EXCEPT !.output = x]
               IN  /\ w \in TurnRecord /\ w.input = v.input /\ w.first = v.first
                   /\ w.rawResponse = v.rawResponse /\ w.tools = v.tools /\ w.output = x
    BY <1>4 DEF TurnRecord
  <1>7. Adds(t, m, u)
    <2>1. CASE m.kind = "item"
      <3>1. u = [v EXCEPT !.tools = Append(t.tools, m.n)] /\ m.kind # "delta"
        BY <1>4, <2>1
      <3>. HIDE DEF u
      <3>. QED BY <1>2, <1>4, <1>5, <2>1, <3>1, Zenon DEF Adds
    <2>2. CASE m.kind = "delta"
      <3>1. u = [v EXCEPT !.output = Append(t.output, m.n)] /\ m.kind # "item"
        BY <1>4, <2>2
      <3>. HIDE DEF u
      <3>. QED BY <1>2, <1>4, <1>6, <2>2, <3>1, Zenon DEF Adds
    <2>3. CASE m.kind # "item" /\ m.kind # "delta"
      <3>1. u = v
        BY <2>3
      <3>. HIDE DEF u
      <3>. QED BY <1>4, <2>3, <3>1, Zenon DEF Adds
    <2>. QED BY <2>1, <2>2, <2>3, Zenon
  <1>8. ApplyServerFrame(st, payload) =
          IF m.kind = "done" THEN [turn |-> NoTurn, records |-> Append(recs, u)]
          ELSE [turn |-> u, records |-> recs]
    <2>. DEFINE S == [turn : {t}, records : {recs}]
    <2>1. st.turn = t /\ st.records = recs
      OBVIOUS
    <2>2. ASSUME NEW x PROVE [st EXCEPT !.turn = x] = [turn |-> x, records |-> recs]
      OBVIOUS
    <2>. HIDE DEF st
    <2>3. ApplyServerFrame(st, payload) =
            CASE m.kind = "item"  -> [st EXCEPT !.turn = [v EXCEPT !.tools = Append(@, m.n)]]
              [] m.kind = "delta" -> [st EXCEPT !.turn = [v EXCEPT !.output = Append(@, m.n)]]
              [] m.kind = "done"  -> [turn |-> NoTurn, records |-> Append(st.records, v)]
              [] OTHER            -> [st EXCEPT !.turn = v]
      BY Zenon DEF ApplyServerFrame, v
    <2>4. CASE m.kind = "item"
      <3>1. m.kind # "done" /\ u = [v EXCEPT !.tools = Append(@, m.n)]
        BY <2>4
      <3>. HIDE DEF u
      <3>2. ApplyServerFrame(st, payload) = [st EXCEPT !.turn = u]
        BY <2>3, <2>4, <3>1
      <3>. QED BY <2>2, <3>1, <3>2
    <2>5. CASE m.kind = "delta"
      <3>1. m.kind # "done" /\ u = [v EXCEPT !.output = Append(@, m.n)]
        BY <2>5
      <3>. HIDE DEF u
      <3>2. ApplyServerFrame(st, payload) = [st EXCEPT !.turn = u]
        BY <2>3, <2>5, <3>1
      <3>. QED BY <2>2, <3>1, <3>2
    <2>6. CASE m.kind = "done"
      <3>1. u = v
        BY <2>6
      <3>. HIDE DEF u
      <3>. QED BY <2>1, <2>3, <2>6, <3>1
    <2>7. CASE m.kind = "other"
      <3>1. m.kind # "done" /\ u = v
        BY <2>7
      <3>. HIDE DEF u
      <3>2. ApplyServerFrame(st, payload) = [st EXCEPT !.turn = u]
        BY <2>3, <2>7, <3>1
      <3>. QED BY <2>2, <3>1, <3>2
    <2>. QED BY <2>4, <2>5, <2>6, <2>7, EventKinds4, Zenon
  <1>. HIDE DEF u
  <1>. QED BY <1>7, <1>8, Zenon DEF Applies

LEMMA SortedMore ==
    ASSUME NEW t \in TurnRecord, NEW m \in ServerEvent, NEW u, Adds(t, m, u),
           Sorted(t.output, t.tools, t.rawResponse)
    PROVE  Sorted(u.output, u.tools, u.rawResponse)
  <1>. DEFINE raw == t.rawResponse
  <1>1. raw \in Seq(ServerEvent)
    BY DEF TurnRecord
  <1>2. /\ t.output = Numbers(OfKind(raw, {"delta"})) /\ t.tools = Numbers(OfKind(raw, {"item"}))
        /\ u.rawResponse = Append(raw, m)
        /\ u.output = (IF m.kind = "delta" THEN Append(t.output, m.n) ELSE t.output)
        /\ u.tools = (IF m.kind = "item" THEN Append(t.tools, m.n) ELSE t.tools)
    BY Zenon DEF Sorted, Adds
  <1>. HIDE DEF raw
  <1>3. ASSUME NEW K
        PROVE  Numbers(OfKind(Append(raw, m), K)) =
                 IF m.kind \in K THEN Append(Numbers(OfKind(raw, K)), m.n) ELSE Numbers(OfKind(raw, K))
    BY <1>1, NumbersOfMore
  <1>4. ASSUME NEW k PROVE m.kind \in {k} <=> m.kind = k
    OBVIOUS
  <1>5. u.output = Numbers(OfKind(Append(raw, m), {"delta"}))
    BY <1>2, <1>3, <1>4, Zenon
  <1>6. u.tools = Numbers(OfKind(Append(raw, m), {"item"}))
    BY <1>2, <1>3, <1>4, Zenon
  <1>. QED BY <1>2, <1>5, <1>6, Zenon DEF Sorted

LEMMA OthersStep ==
    ASSUME NEW m \in ServerEvent, NEW rest \in Seq(ServerEvent), NEW se \in Nat, others \in Nat,
           OthersLeft(<<m>> \o rest, se)
    PROVE  /\ m.kind = "other" => m.n = se + 1 /\ OthersLeft(rest, se + 1)
           /\ m.kind # "other" => OthersLeft(rest, se)
  <1>. DEFINE K == {"other"}
              left == OfKind(<<m>> \o rest, K)
              r == OfKind(rest, K)
  <1>1. left = Keep(m, K) \o r /\ r \in Seq(ServerEvent)
    BY OfKindFront, OfKindType
  <1>2. se + Len(left) = others /\ \A i \in 1 .. Len(left) : left[i].n = se + i
    BY Zenon DEF OthersLeft
  <1>3. CASE m.kind = "other"
    <2>1. Keep(m, K) = <<m>>
      BY <1>3 DEF Keep
    <2>. HIDE DEF left, r
    <2>2. left = <<m>> \o r
      BY <1>1, <2>1, Zenon
    <2>3. ASSUME NEW q, q = <<m>> \o r
          PROVE  Len(q) = 1 + Len(r) /\ q[1] = m /\ \A i \in 1 .. Len(r) : q[1 + i] = r[i]
      BY <1>1, <2>3
    <2>4. Len(left) = 1 + Len(r) /\ left[1] = m /\ \A i \in 1 .. Len(r) : left[1 + i] = r[i]
      BY <2>2, <2>3, Zenon
    <2>5. Len(r) \in Nat
      BY <1>1
    <2>6. m.n = se + 1
      <3>1. 1 \in 1 .. Len(left)
        BY <2>4, <2>5
      <3>. QED BY <1>2, <2>4, <3>1
    <2>7. (se + 1) + Len(r) = others
      BY <1>2, <2>4, <2>5
    <2>8. ASSUME NEW i \in 1 .. Len(r) PROVE r[i].n = (se + 1) + i
      <3>1. 1 + i \in 1 .. Len(left) /\ se + (1 + i) = (se + 1) + i
        BY <2>4, <2>5
      <3>2. left[1 + i].n = se + (1 + i) /\ left[1 + i] = r[i]
        BY <1>2, <2>4, <3>1, Zenon
      <3>. QED BY <3>1, <3>2, Zenon
    <2>. QED BY <1>3, <2>6, <2>7, <2>8, Zenon DEF OthersLeft, r
  <1>4. CASE m.kind # "other"
    <2>1. Keep(m, K) = <<>>
      BY <1>4 DEF Keep
    <2>. HIDE DEF left, r
    <2>2. left = r
      <3>1. ASSUME NEW q \in Seq(ServerEvent) PROVE <<>> \o q = q
        BY ConcatEmptySeq
      <3>. QED BY <1>1, <2>1, <3>1, Zenon
    <2>. QED BY <1>2, <1>4, <2>2, Zenon DEF OthersLeft, r
  <1>. QED BY <1>3, <1>4, Zenon

LEMMA LaterMore ==
    ASSUME NEW raw \in Seq(ServerEvent), NEW m \in ServerEvent, NEW o, Later(raw, o),
           m.kind = "other" => m.n > o
    PROVE  Later(Append(raw, m), o)
  <1>. DEFINE r == Append(raw, m)
              n == Len(raw)
  <1>1. /\ DOMAIN r = 1 .. n + 1 /\ DOMAIN raw = 1 .. n /\ r[n + 1] = m /\ n \in Nat
        /\ \A i \in 1 .. n : r[i] = raw[i]
    OBVIOUS
  <1>. HIDE DEF r, n
  <1>2. ASSUME NEW i \in DOMAIN r, r[i].kind = "other" PROVE r[i].n > o
    <2>1. CASE i = n + 1
      BY <1>1, <1>2, <2>1, Zenon
    <2>2. CASE i # n + 1
      <3>1. i \in 1 .. n
        BY <1>1, <2>2
      <3>. QED BY <1>1, <1>2, <3>1, Zenon DEF Later
    <2>. QED BY <2>1, <2>2
  <1>. QED BY <1>2, Zenon DEF Later, r

\* The events of a response, before and after one of them passes.
Split(raw, m, rest) ==
    /\ OfKind(raw, TurnKinds) \in Seq(ServerEvent) /\ OfKind(rest, TurnKinds) \in Seq(ServerEvent)
    /\ m.kind = "other" =>
         /\ OfKind(Append(raw, m), TurnKinds) = OfKind(raw, TurnKinds)
         /\ OfKind(<<m>> \o rest, TurnKinds) = OfKind(rest, TurnKinds)
    /\ m.kind # "other" =>
         /\ OfKind(Append(raw, m), TurnKinds) = Append(OfKind(raw, TurnKinds), m)
         /\ OfKind(<<m>> \o rest, TurnKinds) = <<m>> \o OfKind(rest, TurnKinds)

LEMMA TurnSplit ==
    ASSUME NEW raw \in Seq(ServerEvent), NEW m \in ServerEvent, NEW rest \in Seq(ServerEvent)
    PROVE  Split(raw, m, rest)
  <1>. DEFINE a == OfKind(raw, TurnKinds)
              b == OfKind(rest, TurnKinds)
  <1>1. /\ OfKind(Append(raw, m), TurnKinds) = a \o Keep(m, TurnKinds)
        /\ OfKind(<<m>> \o rest, TurnKinds) = Keep(m, TurnKinds) \o b
        /\ a \in Seq(ServerEvent) /\ b \in Seq(ServerEvent)
    BY OfKindAppend, OfKindFront, OfKindType
  <1>. HIDE DEF a, b
  <1>2. CASE m.kind = "other"
    <2>1. Keep(m, TurnKinds) = <<>>
      BY <1>2 DEF Keep, TurnKinds
    <2>2. a \o <<>> = a /\ <<>> \o b = b
      BY <1>1, ConcatEmptySeq
    <2>. QED BY <1>1, <1>2, <2>1, <2>2, Zenon DEF a, b, Split
  <1>3. CASE m.kind # "other"
    <2>1. Keep(m, TurnKinds) = <<m>>
      BY <1>3, EventKinds4 DEF Keep, TurnKinds
    <2>2. a \o <<m>> = Append(a, m)
      BY <1>1
    <2>. QED BY <1>1, <1>3, <2>1, <2>2, Zenon DEF a, b, Split
  <1>. QED BY <1>2, <1>3, Zenon

\* The first record of an open turn, and of none.
LEMMA NoTurnFlows ==
    /\ NoTurn \in TurnRecord /\ NoTurn.input = None /\ NoTurn.first = None
    /\ NoTurn.rawResponse = <<>> /\ OfKind(NoTurn.rawResponse, TurnKinds) = <<>>
    /\ Sorted(NoTurn.output, NoTurn.tools, NoTurn.rawResponse)
  <1>1. /\ NoTurn \in TurnRecord /\ NoTurn.input = None /\ NoTurn.first = None
        /\ NoTurn.rawResponse = <<>> /\ NoTurn.output = <<>> /\ NoTurn.tools = <<>>
    BY DEF NoTurn, TurnRecord, None
  <1>. QED BY <1>1, OfKindNothing, NumbersOfNothing, Zenon DEF Sorted

\* An event that does not end a response.
LEMMA FlowMore ==
    ASSUME Sayings, NEW t, NEW recs, NEW en, NEW se, NEW m \in ServerEvent,
           NEW rest \in Seq(ServerEvent), Flow(t, recs, en, se, <<m>> \o rest),
           m.kind # "done", NEW u, Adds(t, m, u)
    PROVE  Flow(u, recs, en, se + (IF m.kind = "other" THEN 1 ELSE 0), rest)
  <1>. DEFINE ms == <<m>> \o rest
              a == OfKind(t.rawResponse, TurnKinds)
              b == OfKind(rest, TurnKinds)
              se2 == se + (IF m.kind = "other" THEN 1 ELSE 0)
  <1>1. /\ t \in TurnRecord /\ recs \in Seq(TurnRecord) /\ en \in Nat /\ se \in Nat
        /\ Len(recs) = en /\ \A k \in 1 .. en : Answers(recs[k], k) /\ Closed(said[k])
        /\ OthersLeft(ms, se) /\ Sorted(t.output, t.tools, t.rawResponse)
        /\ \/ known = en /\ Between(t, ms)
           \/ known = en + 1 /\ During(t, se, ms)
    BY Zenon DEF Flow
  <1>2. /\ others \in Nat /\ known \in Nat /\ known <= Turns /\ opened \in [1 .. Turns -> Nat]
        /\ Turns \in Nat
    BY WsAssumption DEF Sayings
  <1>3. t.rawResponse \in Seq(ServerEvent) /\ t.first \in Nat /\ t.input \in Nat
    BY <1>1 DEF TurnRecord
  <1>4. /\ u \in TurnRecord /\ u.input = t.input /\ u.first = FirstOf(t)
        /\ u.rawResponse = Append(t.rawResponse, m)
    BY Zenon DEF Adds
  <1>5. Sorted(u.output, u.tools, u.rawResponse)
    BY <1>1, SortedMore
  <1>6. /\ m.kind = "other" => m.n = se + 1 /\ OthersLeft(rest, se + 1)
        /\ m.kind # "other" => OthersLeft(rest, se)
    BY <1>1, <1>2, OthersStep
  <1>7. /\ a \in Seq(ServerEvent) /\ b \in Seq(ServerEvent)
        /\ m.kind = "other" =>
             OfKind(u.rawResponse, TurnKinds) = a /\ OfKind(ms, TurnKinds) = b
        /\ m.kind # "other" =>
             /\ OfKind(u.rawResponse, TurnKinds) = Append(a, m)
             /\ OfKind(ms, TurnKinds) = <<m>> \o b
    <2>1. Split(t.rawResponse, m, rest)
      BY <1>3, TurnSplit, Zenon
    <2>. QED BY <1>4, <2>1, Zenon DEF Split
  <1>. HIDE DEF ms, a, b
  <1>8. se2 \in Nat /\ se <= se2 /\ OthersLeft(rest, se2)
    <2>1. CASE m.kind = "other"
      <3>1. se2 = se + 1
        BY <2>1
      <3>. HIDE DEF se2
      <3>. QED BY <1>1, <1>6, <2>1, <3>1
    <2>2. CASE m.kind # "other"
      <3>1. se2 = se
        BY <1>1, <2>2
      <3>. HIDE DEF se2
      <3>. QED BY <1>1, <1>6, <2>2, <3>1
    <2>. QED BY <2>1, <2>2
  <1>. HIDE DEF se2
  <1>9. ~(<<m>> \o b = <<>>)
    <2>1. Len(<<m>> \o b) = 1 + Len(b) /\ Len(b) \in Nat
      BY <1>7
    <2>. QED BY <2>1
  <1>10. CASE known = en /\ Between(t, ms)
    <2>1. t.input = None /\ t.first = None /\ a = <<>> /\ OfKind(ms, TurnKinds) = <<>>
      BY <1>10, Zenon DEF Between, a
    <2>2. m.kind = "other"
      BY <1>7, <1>9, <2>1, Zenon
    <2>3. u.input = None /\ u.first = None
      BY <1>4, <2>1, Zenon DEF FirstOf
    <2>4. OfKind(u.rawResponse, TurnKinds) = <<>> /\ OfKind(rest, TurnKinds) = <<>>
      BY <1>7, <2>1, <2>2, Zenon DEF b
    <2>5. Between(u, rest)
      BY <2>3, <2>4, Zenon DEF Between
    <2>. QED BY <1>1, <1>4, <1>5, <1>8, <1>10, <2>5, Zenon DEF Flow, se2
  <1>11. CASE known = en + 1 /\ During(t, se, ms)
    <2>1. /\ t.input = known /\ t.first \in {None, known} /\ a \o OfKind(ms, TurnKinds) = said[known]
          /\ Later(t.rawResponse, opened[known]) /\ opened[known] <= se
      BY <1>11, Zenon DEF During, a
    <2>2. opened[known] \in Nat
      <3>1. known \in 1 .. Turns
        BY <1>1, <1>2, <1>11
      <3>. QED BY <1>2, <3>1
    <2>3. u.input = known /\ u.first \in {None, known}
      BY <1>4, <2>1, Zenon DEF FirstOf
    <2>4. OfKind(u.rawResponse, TurnKinds) \o OfKind(rest, TurnKinds) = said[known]
      <3>1. CASE m.kind = "other"
        BY <1>7, <2>1, <3>1, Zenon DEF b
      <3>2. CASE m.kind # "other"
        <4>1. Append(a, m) \o b = a \o (<<m>> \o b)
          BY <1>7
        <4>. QED BY <1>7, <2>1, <3>2, <4>1, Zenon DEF b
      <3>. QED BY <3>1, <3>2
    <2>5. m.kind = "other" => m.n > opened[known]
      BY <1>1, <1>6, <2>1, <2>2
    <2>6. Later(u.rawResponse, opened[known])
      BY <1>3, <1>4, <2>1, <2>5, LaterMore
    <2>7. opened[known] <= se2
      BY <1>1, <1>8, <2>1, <2>2
    <2>8. During(u, se2, rest)
      BY <2>3, <2>4, <2>6, <2>7, Zenon DEF During
    <2>. QED BY <1>1, <1>4, <1>5, <1>8, <1>11, <2>8, Zenon DEF Flow, se2
  <1>. QED BY <1>1, <1>10, <1>11, Zenon

\* response.done: the record is taken.
LEMMA FlowDone ==
    ASSUME Sayings, NEW t, NEW recs, NEW en, NEW se, NEW m \in ServerEvent,
           NEW rest \in Seq(ServerEvent), Flow(t, recs, en, se, <<m>> \o rest),
           m.kind = "done", NEW u, Adds(t, m, u)
    PROVE  Flow(NoTurn, Append(recs, u), en + 1, se, rest)
  <1>. DEFINE ms == <<m>> \o rest
              a == OfKind(t.rawResponse, TurnKinds)
              b == OfKind(rest, TurnKinds)
              e == said[known]
              more == Append(recs, u)
  <1>1. /\ t \in TurnRecord /\ recs \in Seq(TurnRecord) /\ en \in Nat /\ se \in Nat
        /\ Len(recs) = en /\ \A k \in 1 .. en : Answers(recs[k], k) /\ Closed(said[k])
        /\ OthersLeft(ms, se) /\ Sorted(t.output, t.tools, t.rawResponse)
        /\ \/ known = en /\ Between(t, ms)
           \/ known = en + 1 /\ During(t, se, ms)
    BY Zenon DEF Flow
  <1>2. /\ others \in Nat /\ known \in Nat /\ known <= Turns /\ opened \in [1 .. Turns -> Nat]
        /\ Turns \in Nat /\ said \in [1 .. Turns -> Seq(ServerEvent)]
        /\ \A k \in 1 .. Turns : \A i \in 1 .. Len(said[k]) :
             said[k][i].kind = "done" => i = Len(said[k])
    BY WsAssumption DEF Sayings
  <1>3. t.rawResponse \in Seq(ServerEvent) /\ t.first \in Nat /\ t.input \in Nat
    BY <1>1 DEF TurnRecord
  <1>4. /\ u \in TurnRecord /\ u.input = t.input /\ u.first = FirstOf(t)
        /\ u.rawResponse = Append(t.rawResponse, m)
    BY Zenon DEF Adds
  <1>5. Sorted(u.output, u.tools, u.rawResponse)
    BY <1>1, SortedMore
  <1>0. m.kind # "other"
    OBVIOUS
  <1>6. OthersLeft(rest, se)
    BY <1>0, <1>1, <1>2, OthersStep
  <1>7. /\ a \in Seq(ServerEvent) /\ b \in Seq(ServerEvent)
        /\ OfKind(u.rawResponse, TurnKinds) = Append(a, m)
        /\ OfKind(ms, TurnKinds) = <<m>> \o b
    <2>1. Split(t.rawResponse, m, rest)
      BY <1>3, TurnSplit, Zenon
    <2>. QED BY <1>0, <1>4, <2>1, Zenon DEF Split
  <1>. HIDE DEF ms, a, b
  <1>8. ~(<<m>> \o b = <<>>)
    <2>1. Len(<<m>> \o b) = 1 + Len(b) /\ Len(b) \in Nat
      BY <1>7
    <2>. QED BY <2>1
  <1>9. known = en + 1 /\ During(t, se, ms)
    <2>1. CASE known = en /\ Between(t, ms)
      BY <1>7, <1>8, <2>1, Zenon DEF Between
    <2>. QED BY <1>1, <2>1, Zenon
  <1>10. /\ t.input = known /\ t.first \in {None, known} /\ a \o OfKind(ms, TurnKinds) = e
         /\ Later(t.rawResponse, opened[known])
    BY <1>9, Zenon DEF During, a
  <1>11. known \in 1 .. Turns /\ known # None
    BY <1>1, <1>2, <1>9 DEF None
  <1>. HIDE DEF e
  <1>12. b = <<>> /\ e = Append(a, m)
    <2>1. e = a \o (<<m>> \o b)
      BY <1>7, <1>10, Zenon
    <2>2. /\ Len(a) \in Nat /\ Len(b) \in Nat /\ Len(e) = Len(a) + 1 + Len(b)
          /\ e[Len(a) + 1] = m
      BY <1>7, <2>1
    <2>3. \A i \in 1 .. Len(e) : e[i].kind = "done" => i = Len(e)
      BY <1>2, <1>11, Zenon DEF e
    <2>4. Len(a) + 1 \in 1 .. Len(e)
      BY <2>2
    <2>5. Len(a) + 1 = Len(e)
      BY <2>2, <2>3, <2>4
    <2>6. Len(b) = 0
      BY <2>2, <2>5
    <2>7. b = <<>>
      BY <1>7, <2>6
    <2>8. a \o (<<m>> \o <<>>) = Append(a, m)
      BY <1>7
    <2>. QED BY <2>1, <2>7, <2>8, Zenon
  <1>13. Closed(e)
    <2>1. Len(e) = Len(a) + 1 /\ e[Len(a) + 1] = m
      BY <1>7, <1>12
    <2>2. e # <<>>
      <3>1. Len(a) \in Nat
        BY <1>7
      <3>. QED BY <2>1, <3>1
    <2>. QED BY <2>1, <2>2, Zenon DEF Closed
  <1>14. Answers(u, known)
    <2>1. u.input = known /\ u.first = known
      BY <1>4, <1>10, <1>11, Zenon DEF FirstOf
    <2>2. Later(u.rawResponse, opened[known])
      BY <1>0, <1>3, <1>4, <1>10, LaterMore
    <2>. QED BY <1>5, <1>7, <1>12, <2>1, <2>2, Zenon DEF Answers, e
  <1>15. /\ more \in Seq(TurnRecord) /\ Len(more) = en + 1 /\ more[en + 1] = u
         /\ \A k \in 1 .. en : more[k] = recs[k]
    BY <1>1, <1>4
  <1>. HIDE DEF more
  <1>16. ASSUME NEW k \in 1 .. en + 1 PROVE Answers(more[k], k) /\ Closed(said[k])
    <2>1. CASE k = en + 1
      BY <1>9, <1>13, <1>14, <1>15, <2>1, Zenon DEF e
    <2>2. CASE k # en + 1
      <3>1. k \in 1 .. en
        BY <1>1, <2>2
      <3>. QED BY <1>1, <1>15, <3>1, Zenon
    <2>. QED BY <2>1, <2>2
  <1>17. Between(NoTurn, rest)
    BY <1>12, NoTurnFlows, Zenon DEF Between, b
  <1>18. en + 1 \in Nat
    BY <1>1
  <1>. QED BY <1>1, <1>6, <1>9, <1>15, <1>16, <1>17, <1>18, NoTurnFlows, Zenon DEF Flow, more

-----------------------------------------------------------------------------
(* The messages of one call.                                               *)

LEMMA CutFront ==
    ASSUME NEW M, NEW ms \in Seq(M), NEW k \in 0 .. Len(ms), k < Len(ms)
    PROVE  /\ Cut(ms, k + 1, Len(ms)) \in Seq(M) /\ ms[k + 1] \in M
           /\ Cut(ms, k, Len(ms)) = <<ms[k + 1]>> \o Cut(ms, k + 1, Len(ms))
  <1>. DEFINE n == Len(ms)
              a == Cut(ms, k, n)
              b == Cut(ms, k + 1, n)
              m == ms[k + 1]
              c == <<m>> \o b
  <1>1. n \in Nat /\ k \in Nat /\ n \in 0 .. n /\ k \in 0 .. n /\ k + 1 \in 0 .. n /\ m \in M
    OBVIOUS
  <1>2. a \in Seq(M) /\ Len(a) = n - k /\ \A x \in 1 .. n - k : a[x] = ms[k + x]
    <2>. HIDE DEF n
    <2>. QED BY <1>1, CutIs DEF n
  <1>3. /\ b \in Seq(M) /\ Len(b) = n - (k + 1)
        /\ \A x \in 1 .. n - (k + 1) : b[x] = ms[(k + 1) + x]
    <2>1. ASSUME NEW z \in 0 .. n
          PROVE  /\ Cut(ms, z, n) \in Seq(M) /\ Len(Cut(ms, z, n)) = n - z
                 /\ \A x \in 1 .. n - z : Cut(ms, z, n)[x] = ms[z + x]
      <3>. HIDE DEF n
      <3>. QED BY <1>1, CutIs DEF n
    <2>. HIDE DEF n
    <2>. QED BY <1>1, <2>1, Zenon
  <1>. HIDE DEF a, b, m, n
  <1>4. /\ c \in Seq(M) /\ Len(c) = 1 + Len(b) /\ c[1] = m
        /\ \A x \in 1 .. Len(b) : c[1 + x] = b[x]
    BY <1>1, <1>3
  <1>. HIDE DEF c
  <1>5. Len(a) = Len(c)
    BY <1>1, <1>2, <1>3, <1>4
  <1>6. ASSUME NEW x \in 1 .. Len(c) PROVE a[x] = c[x]
    <2>1. CASE x = 1
      <3>1. a[x] = ms[k + 1]
        BY <1>1, <1>2, <1>5, <2>1
      <3>. QED BY <1>4, <2>1, <3>1 DEF m
    <2>2. CASE x # 1
      <3>. DEFINE y == x - 1
      <3>1. /\ y \in 1 .. Len(b) /\ 1 + y = x /\ (k + 1) + y = k + x /\ x \in 1 .. n - k
            /\ y \in 1 .. n - (k + 1)
        BY <1>1, <1>3, <1>4, <2>2
      <3>. HIDE DEF y
      <3>2. c[1 + y] = b[y] /\ b[y] = ms[(k + 1) + y] /\ a[x] = ms[k + x]
        BY <1>2, <1>3, <1>4, <3>1
      <3>. QED BY <3>1, <3>2, Zenon
    <2>. QED BY <2>1, <2>2
  <1>7. a = c
    BY <1>2, <1>4, <1>5, <1>6, SeqEqual
  <1>. QED BY <1>1, <1>3, <1>7, Zenon DEF a, b, c, m, n

Counting(ms, kind, k) ==
    /\ Count(ms, kind, k) \in Nat
    /\ Count(ms, kind, k + 1) = Count(ms, kind, k) + (IF ms[k + 1].kind = kind THEN 1 ELSE 0)

LEMMA CountStep ==
    ASSUME NEW ms, NEW kind, NEW k \in Nat
    PROVE  Count(ms, kind, 0) = 0 /\ Counting(ms, kind, k)
  <1>. DEFINE S(j) == {i \in 1 .. j : ms[i].kind = kind}
  <1>1. S(0) = {}
    OBVIOUS
  <1>2. IsFiniteSet(S(k))
    <2>1. S(k) \subseteq 1 .. k /\ IsFiniteSet(1 .. k)
      BY FS_Interval
    <2>. QED BY <2>1, FS_Subset
  <1>3. S(k + 1) = IF ms[k + 1].kind = kind THEN S(k) \cup {k + 1} ELSE S(k)
    <2>1. \A i : i \in 1 .. k + 1 <=> i \in 1 .. k \/ i = k + 1
      OBVIOUS
    <2>. QED BY <2>1
  <1>4. k + 1 \notin S(k)
    OBVIOUS
  <1>. HIDE DEF S
  <1>5. Cardinality(S(k)) \in Nat
    BY <1>2, FS_CardinalityType
  <1>6. Cardinality(S(k) \cup {k + 1}) = Cardinality(S(k)) + 1
    BY <1>2, <1>4, FS_AddElement
  <1>7. Cardinality(S(k + 1)) = Cardinality(S(k)) + (IF ms[k + 1].kind = kind THEN 1 ELSE 0)
    BY <1>3, <1>5, <1>6
  <1>8. Cardinality(S(0)) = 0
    BY <1>1, FS_EmptySet
  <1>. QED BY <1>5, <1>7, <1>8, Zenon DEF S, Count, Counting

\* f holds the states after the first n of the payloads o, one by one.
Applying(f, before, o, n) ==
    /\ f = [i \in 0 .. n |-> f[i]] /\ f[0] = before
    /\ \A i \in 1 .. n : f[i] = ApplyServerFrame(f[i - 1], o[i])

LEMMA ApplyingExists ==
    ASSUME NEW before, NEW o, NEW n \in Nat
    PROVE  \E f : Applying(f, before, o, n)
  <1>. DEFINE S == {m \in Nat : \E f : Applying(f, before, o, m)}
  <1>1. 0 \in S
    <2>1. Applying([i \in 0 .. 0 |-> before], before, o, 0)
      BY DEF Applying
    <2>. QED BY <2>1
  <1>2. ASSUME NEW m \in S PROVE m + 1 \in S
    <2>1. PICK f : Applying(f, before, o, m)
      OBVIOUS
    <2>. DEFINE x == ApplyServerFrame(f[m], o[m + 1])
                h == [i \in 0 .. m + 1 |-> IF i = m + 1 THEN x ELSE f[i]]
    <2>2. m \in Nat /\ f[0] = before /\ \A i \in 1 .. m : f[i] = ApplyServerFrame(f[i - 1], o[i])
      BY <2>1 DEF Applying
    <2>. HIDE DEF x
    <2>3. h[0] = before /\ h[m + 1] = x /\ \A i \in 0 .. m : h[i] = f[i]
      BY <2>2
    <2>4. h = [i \in 0 .. m + 1 |-> h[i]]
      OBVIOUS
    <2>. HIDE DEF h
    <2>5. ASSUME NEW i \in 1 .. m + 1 PROVE h[i] = ApplyServerFrame(h[i - 1], o[i])
      <3>1. CASE i = m + 1
        <4>1. i - 1 = m /\ m \in 0 .. m
          BY <2>2, <3>1
        <4>. QED BY <2>3, <3>1, <4>1, Zenon DEF x
      <3>2. CASE i # m + 1
        <4>1. i \in 1 .. m /\ i \in 0 .. m /\ i - 1 \in 0 .. m
          BY <2>2, <3>2
        <4>. QED BY <2>2, <2>3, <4>1, Zenon
      <3>. QED BY <3>1, <3>2
    <2>6. Applying(h, before, o, m + 1)
      BY <2>3, <2>4, <2>5, Zenon DEF Applying
    <2>. QED BY <2>2, <2>6
  <1>. HIDE DEF S
  <1>3. S = Nat
    BY <1>1, <1>2, SetInduction DEF S
  <1>. QED BY <1>3 DEF S

LEMMA ApplySteps ==
    ASSUME NEW before, NEW o, Len(o) \in Nat
    PROVE  \E f : Applying(f, before, o, Len(o)) /\ ApplyServerFrames(before, o) = f[Len(o)]
  <1>. DEFINE n == Len(o)
              E(a) == a = [i \in 0 .. n |-> IF i = 0 THEN before
                                            ELSE ApplyServerFrame(a[i - 1], o[i])]
              st == CHOOSE a : E(a)
  <1>1. ApplyServerFrames(before, o) = st[n]
    BY Zenon DEF ApplyServerFrames
  <1>. HIDE DEF n
  <1>2. PICK f : Applying(f, before, o, n)
    BY ApplyingExists DEF n
  <1>3. E(f)
    <2>1. /\ f = [i \in 0 .. n |-> f[i]] /\ f[0] = before
          /\ \A i \in 1 .. n : f[i] = ApplyServerFrame(f[i - 1], o[i])
      BY <1>2, Zenon DEF Applying
    <2>2. \A i \in 0 .. n : i # 0 => i \in 1 .. n
      BY DEF n
    <2>3. \A i \in 0 .. n : f[i] = IF i = 0 THEN before ELSE ApplyServerFrame(f[i - 1], o[i])
      BY <2>1, <2>2, Zenon
    <2>. QED BY <2>1, <2>3, Zenon
  <1>4. E(st)
    BY <1>3, Zenon
  <1>. HIDE DEF st
  <1>5. n \in Nat
    BY DEF n
  <1>6. st = [i \in 0 .. n |-> st[i]] /\ st[0] = before
    BY <1>4, <1>5
  <1>7. ASSUME NEW i \in 1 .. n PROVE st[i] = ApplyServerFrame(st[i - 1], o[i])
    <2>1. i \in 0 .. n /\ i # 0
      BY <1>5
    <2>. QED BY <1>4, <2>1
  <1>. QED BY <1>1, <1>6, <1>7, Zenon DEF Applying, n

\* The flow of a turn state, which is a record of the two.
Flowing(st, en, se, ms) ==
    st = [turn |-> st.turn, records |-> st.records] /\ Flow(st.turn, st.records, en, se, ms)

LEMMA FlowStep ==
    ASSUME Sayings, NEW st, NEW en, NEW se, NEW m \in ServerEvent, NEW rest \in Seq(ServerEvent),
           Flowing(st, en, se, <<m>> \o rest), NEW payload, Message(payload) = m
    PROVE  Flowing(ApplyServerFrame(st, payload), en + (IF m.kind = "done" THEN 1 ELSE 0),
                   se + (IF m.kind = "other" THEN 1 ELSE 0), rest)
  <1>. DEFINE t == st.turn
              recs == st.records
              r == ApplyServerFrame(st, payload)
  <1>1. /\ st = [turn |-> t, records |-> recs] /\ Flow(t, recs, en, se, <<m>> \o rest)
        /\ t \in TurnRecord /\ recs \in Seq(TurnRecord) /\ en \in Nat /\ se \in Nat
    BY Zenon DEF Flowing, Flow
  <1>. HIDE DEF t, recs
  <1>. HIDE DEF r
  <1>2. PICK u : /\ Adds(t, m, u)
                 /\ ApplyServerFrame([turn |-> t, records |-> recs], payload) =
                      IF m.kind = "done" THEN [turn |-> NoTurn, records |-> Append(recs, u)]
                      ELSE [turn |-> u, records |-> recs]
    <2>1. PICK u : Applies(t, recs, m, payload, u)
      BY <1>1, ServerFrame
    <2>. QED BY <2>1, Zenon DEF Applies
  <1>3. ASSUME NEW x, NEW y PROVE [turn |-> x, records |-> y].turn = x /\ [turn |-> x, records |-> y].records = y
    OBVIOUS
  <1>4. CASE m.kind = "done"
    <2>1. r = [turn |-> NoTurn, records |-> Append(recs, u)]
      BY <1>1, <1>2, <1>4, Zenon DEF r
    <2>2. r.turn = NoTurn /\ r.records = Append(recs, u)
      BY <1>3, <2>1, Zenon
    <2>3. Flow(NoTurn, Append(recs, u), en + 1, se, rest)
      BY <1>1, <1>2, <1>4, FlowDone
    <2>4. m.kind # "other" /\ se + 0 = se
      BY <1>1, <1>4
    <2>5. /\ en + (IF m.kind = "done" THEN 1 ELSE 0) = en + 1
          /\ se + (IF m.kind = "other" THEN 1 ELSE 0) = se
      BY <1>4, <2>4, Zenon
    <2>. QED BY <2>1, <2>2, <2>3, <2>5, Zenon DEF Flowing, r
  <1>5. CASE m.kind # "done"
    <2>1. r = [turn |-> u, records |-> recs]
      BY <1>1, <1>2, <1>5, Zenon DEF r
    <2>2. r.turn = u /\ r.records = recs
      BY <1>3, <2>1, Zenon
    <2>3. Flow(u, recs, en, se + (IF m.kind = "other" THEN 1 ELSE 0), rest)
      BY <1>1, <1>2, <1>5, FlowMore
    <2>4. en + (IF m.kind = "done" THEN 1 ELSE 0) = en
      BY <1>1, <1>5
    <2>. QED BY <2>1, <2>2, <2>3, <2>4, Zenon DEF Flowing, r
  <1>. QED BY <1>4, <1>5

LEMMA FlowFrames ==
    ASSUME Sayings, NEW st, NEW en \in Nat, NEW se \in Nat, NEW ms \in Seq(ServerEvent),
           Flowing(st, en, se, ms), NEW j \in 0 .. Len(ms), NEW o, Taken(o, ServerEvent, ms, j)
    PROVE  Flowing(ApplyServerFrames(st, o), en + Count(ms, "done", j),
                   se + Count(ms, "other", j), Cut(ms, j, Len(ms)))
  <1>. DEFINE n == Len(ms)
  <1>1. Len(o) = j /\ j \in Nat /\ n \in Nat /\ j <= n /\ \A i \in 1 .. j : Message(o[i]) = ms[i]
    BY DEF Taken
  <1>2. PICK f : Applying(f, st, o, j) /\ ApplyServerFrames(st, o) = f[j]
    BY <1>1, ApplySteps
  <1>. DEFINE P(i) == Flowing(f[i], en + Count(ms, "done", i), se + Count(ms, "other", i),
                              Cut(ms, i, n))
              S == {i \in Nat : i <= j => P(i)}
  <1>3. 0 \in S
    <2>1. en + Count(ms, "done", 0) = en /\ se + Count(ms, "other", 0) = se
      <3>1. Count(ms, "done", 0) = 0 /\ Count(ms, "other", 0) = 0
        BY CountStep
      <3>. QED BY <3>1
    <2>2. Cut(ms, 0, n) = ms
      <3>1. 0 \in 0 .. n /\ n - 0 = n /\ n \in 0 .. Len(ms) /\ \A x \in 1 .. n : 0 + x = x
        BY <1>1
      <3>2. /\ Cut(ms, 0, n) \in Seq(ServerEvent) /\ Len(Cut(ms, 0, n)) = n - 0
            /\ \A x \in 1 .. n - 0 : Cut(ms, 0, n)[x] = ms[0 + x]
        <4>. HIDE DEF n
        <4>. QED BY <3>1, CutIs
      <3>. QED BY <3>1, <3>2, SeqEqual
    <2>3. f[0] = st
      BY <1>2, Zenon DEF Applying
    <2>4. P(0)
      BY <2>1, <2>2, <2>3, Zenon
    <2>. HIDE DEF P
    <2>. QED BY <2>4
  <1>4. ASSUME NEW i \in S PROVE i + 1 \in S
    <2>. HIDE DEF P
    <2>0. i \in Nat /\ i + 1 \in Nat
      OBVIOUS
    <2>. SUFFICES ASSUME i + 1 <= j PROVE P(i + 1)
      BY <2>0
    <2>1. i + 1 \in 1 .. j /\ i <= j /\ (i + 1) - 1 = i /\ i \in 0 .. n /\ i < n
      BY <1>1, <2>0
    <2>2. P(i)
      BY <2>1
    <2>. HIDE DEF S
    <2>. DEFINE m == ms[i + 1]
                rest == Cut(ms, i + 1, n)
                e1 == en + Count(ms, "done", i)
                s1 == se + Count(ms, "other", i)
    <2>3. rest \in Seq(ServerEvent) /\ m \in ServerEvent /\ Cut(ms, i, n) = <<m>> \o rest
      BY <2>1, CutFront
    <2>4. f[i + 1] = ApplyServerFrame(f[i], o[i + 1]) /\ Message(o[i + 1]) = m
      BY <1>1, <1>2, <2>1, Zenon DEF Applying
    <2>5. Flowing(f[i], e1, s1, <<m>> \o rest)
      BY <2>2, <2>3, Zenon DEF P
    <2>6. /\ en + Count(ms, "done", i + 1) = e1 + (IF m.kind = "done" THEN 1 ELSE 0)
          /\ se + Count(ms, "other", i + 1) = s1 + (IF m.kind = "other" THEN 1 ELSE 0)
      <3>1. Counting(ms, "done", i) /\ Counting(ms, "other", i)
        BY <2>0, CountStep
      <3>. DEFINE x == IF m.kind = "done" THEN 1 ELSE 0
                  y == IF m.kind = "other" THEN 1 ELSE 0
                  a == Count(ms, "done", i)
                  b == Count(ms, "other", i)
      <3>2. a \in Nat /\ b \in Nat /\ Count(ms, "done", i + 1) = a + x /\ Count(ms, "other", i + 1) = b + y
        BY <3>1, Zenon DEF Counting
      <3>3. x \in Nat /\ y \in Nat
        OBVIOUS
      <3>. HIDE DEF x, y, a, b
      <3>4. en + Count(ms, "done", i + 1) = (en + a) + x /\ se + Count(ms, "other", i + 1) = (se + b) + y
        BY <3>2, <3>3
      <3>. QED BY <3>4 DEF x, y, a, b
    <2>. HIDE DEF m, rest, e1, s1
    <2>7. Flowing(ApplyServerFrame(f[i], o[i + 1]), e1 + (IF m.kind = "done" THEN 1 ELSE 0),
                  s1 + (IF m.kind = "other" THEN 1 ELSE 0), rest)
      BY <2>3, <2>4, <2>5, FlowStep
    <2>. QED BY <2>4, <2>6, <2>7, Zenon DEF P, rest
  <1>5. P(j)
    <2>. HIDE DEF P
    <2>1. S = Nat
      <3>1. S \in SUBSET Nat
        OBVIOUS
      <3>. HIDE DEF S
      <3>. QED BY <1>3, <1>4, <3>1, SetInduction
    <2>. QED BY <1>1, <2>1
  <1>. QED BY <1>2, <1>5, Zenon

-----------------------------------------------------------------------------
(* The connection.                                                         *)

\* The client has asked for what the server received, or its request is on its way
\* and no response is.
Asking(cm) ==
    /\ asked \in Nat /\ asked <= Turns
    /\ \/ asked = known /\ cm = <<>>
       \/ asked = known + 1 /\ known = ended /\ cm = <<Msg("create", known + 1, 0)>>

\* cm and sm are the messages the gateway has not taken yet.
Coupled(cm, sm) ==
    /\ Carries("client", ClientEvent, buf["client"], wire["client"], cm)
    /\ Carries("server", ServerEvent, buf["server"], wire["server"], sm)
    /\ Sayings /\ Asking(cm) /\ Flow(turn, records, ended, seen, sm)

PairInv == ParserInv /\ (cap = 0 => \E cm, sm : Coupled(cm, sm))

LEMMA InitPair == Init => PairInv
  <1>. SUFFICES ASSUME Init PROVE PairInv
    OBVIOUS
  <1>1. /\ wire = [d \in Direction |-> <<>>] /\ buf = [d \in Direction |-> <<>>]
        /\ turn = NoTurn /\ records = <<>>
        /\ asked = 0 /\ ended = 0 /\ known = 0 /\ others = 0 /\ seen = 0
        /\ said = [k \in 1 .. Turns |-> <<>>] /\ opened = [k \in 1 .. Turns |-> 0]
    BY DEF Init
  <1>2. Turns \in Nat
    BY WsAssumption
  <1>3. /\ wire["client"] = <<>> /\ wire["server"] = <<>>
        /\ buf["client"] = <<>> /\ buf["server"] = <<>>
        /\ "client" \in Direction /\ "server" \in Direction
    BY <1>1 DEF Direction
  <1>4. /\ Carries("client", ClientEvent, buf["client"], wire["client"], <<>>)
        /\ Carries("server", ServerEvent, buf["server"], wire["server"], <<>>)
    BY <1>3, CarriesNothing, Zenon
  <1>5. Sayings
    <2>1. said \in [1 .. Turns -> Seq(ServerEvent)] /\ opened \in [1 .. Turns -> Nat]
      BY <1>1
    <2>2. \A k \in 1 .. Turns : said[k] = <<>> /\ Len(said[k]) = 0
      BY <1>1
    <2>3. known \in 0 .. Turns /\ others \in Nat /\ \A k \in known + 1 .. Turns : k \in 1 .. Turns
      BY <1>1, <1>2
    <2>4. 1 .. 0 = {}
      OBVIOUS
    <2>. QED BY <2>1, <2>2, <2>3, <2>4, Zenon DEF Sayings
  <1>6. Asking(<<>>)
    BY <1>1, <1>2 DEF Asking
  <1>7. Flow(turn, records, ended, seen, <<>>)
    <2>1. OthersLeft(<<>>, 0)
      <3>1. Len(<<>>) = 0 /\ 1 .. 0 = {} /\ 0 + 0 = 0
        OBVIOUS
      <3>. QED BY <1>1, <3>1, OfKindNothing, Zenon DEF OthersLeft
    <2>2. Between(NoTurn, <<>>)
      BY NoTurnFlows, OfKindNothing, Zenon DEF Between
    <2>3. <<>> \in Seq(TurnRecord) /\ <<>> \in Seq(ServerEvent) /\ Len(<<>>) = 0 /\ 0 \in Nat /\ 1 .. 0 = {}
      OBVIOUS
    <2>4. Flow(NoTurn, <<>>, 0, 0, <<>>)
      BY <1>1, <2>1, <2>2, <2>3, NoTurnFlows, Zenon DEF Flow
    <2>. QED BY <1>1, <2>4, Zenon
  <1>8. Coupled(<<>>, <<>>)
    BY <1>4, <1>5, <1>6, <1>7, Zenon DEF Coupled
  <1>. QED BY <1>8, InitParser, Zenon DEF PairInv

LEMMA DirectionUpdate ==
    ASSUME NEW S, NEW f \in [Direction -> S], NEW d \in Direction, NEW x
    PROVE  /\ [f EXCEPT ![d] = x][d] = x
           /\ \A e \in Direction : e # d => [f EXCEPT ![d] = x][e] = f[e]
  OBVIOUS

LEMMA SendCarries ==
    ASSUME BytesInv, NEW d \in Direction, NEW M, NEW ms, NEW m \in M,
           Carries(d, M, buf[d], wire[d], ms), Send(d, m), UNCHANGED buf
    PROVE  /\ Carries(d, M, buf'[d], wire'[d], Append(ms, m))
           /\ \A e \in Direction : e # d => wire'[e] = wire[e] /\ buf'[e] = buf[e]
  <1>1. PICK N : wire \in [Direction -> Seq(Byte(N))] /\ buf \in [Direction -> Seq(Byte(N))]
    BY DEF BytesInv
  <1>2. PICK len \in PayloadLen[d] : wire' = [wire EXCEPT ![d] = @ \o Encode(d, m, len)]
    BY DEF Send
  <1>3. /\ wire'[d] = wire[d] \o Encode(d, m, len)
        /\ \A e \in Direction : e # d => wire'[e] = wire[e]
    BY <1>1, <1>2, DirectionUpdate
  <1>4. Carries(d, M, buf[d], wire[d] \o Encode(d, m, len), Append(ms, m))
    BY CarriesSent
  <1>. QED BY <1>3, <1>4, Zenon

LEMMA CoupledParts ==
    ASSUME NEW cm, NEW sm, Coupled(cm, sm)
    PROVE  /\ Carries("client", ClientEvent, buf["client"], wire["client"], cm)
           /\ Carries("server", ServerEvent, buf["server"], wire["server"], sm)
           /\ Sayings /\ Asking(cm) /\ Flow(turn, records, ended, seen, sm)
           /\ ended \in Nat /\ known \in Nat /\ known <= Turns /\ Turns \in Nat
           /\ others \in Nat /\ seen \in Nat /\ sm \in Seq(ServerEvent)
           /\ known = ended \/ known = ended + 1
  <1>1. /\ Carries("client", ClientEvent, buf["client"], wire["client"], cm)
        /\ Carries("server", ServerEvent, buf["server"], wire["server"], sm)
        /\ Sayings /\ Asking(cm) /\ Flow(turn, records, ended, seen, sm)
    BY Zenon DEF Coupled
  <1>2. known \in 0 .. Turns /\ others \in Nat
    BY <1>1, Zenon DEF Sayings
  <1>3. /\ ended \in Nat /\ seen \in Nat /\ sm \in Seq(ServerEvent)
        /\ known = ended \/ known = ended + 1
    BY <1>1, Zenon DEF Flow
  <1>. QED BY <1>1, <1>2, <1>3, WsAssumption

LEMMA CreatesPair ==
    ASSUME BytesInv, NEW cm, NEW sm, Coupled(cm, sm), ClientCreates
    PROVE  \E c2, s2 : Coupled(c2, s2)'
  <1>1. /\ Carries("client", ClientEvent, buf["client"], wire["client"], cm)
        /\ Carries("server", ServerEvent, buf["server"], wire["server"], sm)
        /\ Sayings /\ Asking(cm) /\ Flow(turn, records, ended, seen, sm)
        /\ ended \in Nat /\ known \in Nat /\ Turns \in Nat
        /\ known = ended \/ known = ended + 1
    BY CoupledParts
  <1>2. PICK m : m = Msg("create", asked + 1, 0)
    OBVIOUS
  <1>3. /\ asked < Turns /\ asked = ended /\ asked' = asked + 1 /\ Send("client", m)
        /\ UNCHANGED <<cap, buf, turn, records, ended, known, said, others, seen, opened>>
    BY <1>2 DEF ClientCreates, historyVars
  <1>4. asked \in Nat /\ asked = known /\ known = ended /\ cm = <<>>
    BY <1>1, <1>3 DEF Asking
  <1>5. m \in ClientEvent
    BY <1>2, <1>4 DEF Msg, ClientEvent
  <1>6. /\ Carries("client", ClientEvent, buf'["client"], wire'["client"], <<m>>)
        /\ Carries("server", ServerEvent, buf'["server"], wire'["server"], sm)
    <2>0. "client" \in Direction /\ "server" \in Direction /\ "server" # "client"
      BY DEF Direction
    <2>1. /\ Carries("client", ClientEvent, buf'["client"], wire'["client"], Append(cm, m))
          /\ \A e \in Direction : e # "client" => wire'[e] = wire[e] /\ buf'[e] = buf[e]
      BY <1>1, <1>3, <1>5, <2>0, SendCarries
    <2>2. Append(cm, m) = <<m>>
      BY <1>4
    <2>. QED BY <1>1, <2>0, <2>1, <2>2, Zenon
  <1>7. Asking(<<m>>)'
    <2>1. asked' \in Nat /\ asked' <= Turns /\ asked' = known' + 1 /\ known' = ended'
      BY <1>1, <1>3, <1>4
    <2>2. m = Msg("create", known' + 1, 0)
      BY <1>2, <1>3, <1>4, Zenon
    <2>. QED BY <2>1, <2>2, Zenon DEF Asking
  <1>8. Sayings'
    BY <1>1, <1>3 DEF Sayings
  <1>9. Flow(turn, records, ended, seen, sm)'
    BY <1>1, <1>3, Zenon DEF Flow, Answers, OthersLeft, During
  <1>10. Coupled(<<m>>, sm)'
    BY <1>6, <1>7, <1>8, <1>9, Zenon DEF Coupled
  <1>. QED BY <1>10, Zenon

\* The server sends a message.
LEMMA ServerSends ==
    ASSUME BytesInv, NEW cm, NEW sm, Coupled(cm, sm), NEW m \in ServerEvent, Send("server", m),
           UNCHANGED <<buf, asked, known, ended>>
    PROVE  /\ Carries("client", ClientEvent, buf'["client"], wire'["client"], cm)
           /\ Carries("server", ServerEvent, buf'["server"], wire'["server"], Append(sm, m))
           /\ Asking(cm)' /\ Append(sm, m) \in Seq(ServerEvent)
  <1>1. /\ Carries("client", ClientEvent, buf["client"], wire["client"], cm)
        /\ Carries("server", ServerEvent, buf["server"], wire["server"], sm)
        /\ Asking(cm) /\ sm \in Seq(ServerEvent)
    BY CoupledParts
  <1>2. "client" \in Direction /\ "server" \in Direction /\ "server" # "client"
    BY DEF Direction
  <1>3. /\ Carries("server", ServerEvent, buf'["server"], wire'["server"], Append(sm, m))
        /\ \A e \in Direction : e # "server" => wire'[e] = wire[e] /\ buf'[e] = buf[e]
    BY <1>1, <1>2, SendCarries
  <1>4. Asking(cm)'
    BY <1>1, Zenon DEF Asking
  <1>5. Append(sm, m) \in Seq(ServerEvent)
    BY <1>1
  <1>. QED BY <1>1, <1>2, <1>3, <1>4, <1>5, Zenon

LEMMA OtherPair ==
    ASSUME BytesInv, NEW cm, NEW sm, Coupled(cm, sm), ServerOther
    PROVE  \E c2, s2 : Coupled(c2, s2)'
  <1>1. /\ Sayings /\ Flow(turn, records, ended, seen, sm)
        /\ ended \in Nat /\ known \in Nat /\ others \in Nat /\ seen \in Nat /\ sm \in Seq(ServerEvent)
    BY CoupledParts
  <1>2. PICK m : m = Msg("other", None, others + 1)
    OBVIOUS
  <1>3. /\ others' = others + 1 /\ Send("server", m)
        /\ UNCHANGED <<buf, turn, records, asked, ended, known, said, seen, opened>>
    BY <1>2 DEF ServerOther, historyVars
  <1>4. m \in ServerEvent /\ m.kind = "other" /\ m.n = others + 1
    BY <1>1, <1>2 DEF Msg, ServerEvent, None
  <1>5. PICK s2 : s2 = Append(sm, m)
    OBVIOUS
  <1>6. /\ Carries("client", ClientEvent, buf'["client"], wire'["client"], cm)
        /\ Carries("server", ServerEvent, buf'["server"], wire'["server"], s2)
        /\ Asking(cm)' /\ s2 \in Seq(ServerEvent)
    BY <1>3, <1>4, <1>5, ServerSends
  <1>7. Sayings'
    BY <1>1, <1>3 DEF Sayings
  <1>8. OfKind(s2, TurnKinds) = OfKind(sm, TurnKinds)
    <2>1. OfKind(s2, TurnKinds) = OfKind(sm, TurnKinds) \o Keep(m, TurnKinds)
      BY <1>1, <1>4, <1>5, OfKindAppend
    <2>2. Keep(m, TurnKinds) = <<>>
      BY <1>4 DEF Keep, TurnKinds
    <2>3. OfKind(sm, TurnKinds) \in Seq(ServerEvent)
      BY <1>1, OfKindType
    <2>4. ASSUME NEW x \in Seq(ServerEvent) PROVE x \o <<>> = x
      BY ConcatEmptySeq
    <2>. QED BY <2>1, <2>2, <2>3, <2>4, Zenon
  <1>9. OthersLeft(s2, seen)'
    <2>. DEFINE K == {"other"}
                left == OfKind(sm, K)
                l2 == OfKind(s2, K)
    <2>1. l2 = left \o Keep(m, K) /\ left \in Seq(ServerEvent)
      BY <1>1, <1>4, <1>5, OfKindAppend, OfKindType
    <2>2. Keep(m, K) = <<m>>
      BY <1>4 DEF Keep
    <2>3. seen + Len(left) = others /\ \A i \in 1 .. Len(left) : left[i].n = seen + i
      BY <1>1, Zenon DEF Flow, OthersLeft
    <2>. HIDE DEF left, l2, K
    <2>4. ASSUME NEW q, q = left \o <<m>>
          PROVE  /\ Len(q) = Len(left) + 1 /\ Len(left) \in Nat /\ q[Len(left) + 1] = m
                 /\ \A i \in 1 .. Len(left) : q[i] = left[i]
      BY <2>1, <2>4
    <2>5. /\ Len(l2) = Len(left) + 1 /\ Len(left) \in Nat /\ l2[Len(left) + 1] = m
          /\ \A i \in 1 .. Len(left) : l2[i] = left[i]
      BY <2>1, <2>2, <2>4, Zenon
    <2>6. seen + Len(l2) = others + 1
      BY <1>1, <2>3, <2>5
    <2>7. ASSUME NEW i \in 1 .. Len(l2) PROVE l2[i].n = seen + i
      <3>1. CASE i = Len(left) + 1
        <4>1. others + 1 = seen + i
          BY <1>1, <2>3, <2>5, <3>1
        <4>. QED BY <1>4, <2>5, <3>1, <4>1, Zenon
      <3>2. CASE i # Len(left) + 1
        <4>1. i \in 1 .. Len(left)
          BY <2>5, <3>2
        <4>. QED BY <2>3, <2>5, <4>1, Zenon
      <3>. QED BY <3>1, <3>2
    <2>. QED BY <1>3, <2>6, <2>7, Zenon DEF OthersLeft, l2, K
  <1>10. Flow(turn, records, ended, seen, s2)'
    BY <1>1, <1>3, <1>6, <1>8, <1>9, Zenon DEF Flow, Answers, Between, During
  <1>11. Coupled(cm, s2)'
    BY <1>6, <1>7, <1>10, Zenon DEF Coupled
  <1>. QED BY <1>11, Zenon

LEMMA RespondPair ==
    ASSUME BytesInv, NEW cm, NEW sm, Coupled(cm, sm), NEW kind \in {"delta", "item", "done"},
           ServerResponds(kind)
    PROVE  \E c2, s2 : Coupled(c2, s2)'
  <1>1. /\ Sayings /\ Flow(turn, records, ended, seen, sm)
        /\ ended \in Nat /\ known \in Nat /\ known <= Turns /\ seen \in Nat
        /\ sm \in Seq(ServerEvent) /\ (known = ended \/ known = ended + 1) /\ Turns \in Nat
    BY CoupledParts
  <1>2. PICK m : m = Msg(kind, known, Len(said[known]) + 1)
    OBVIOUS
  <1>3. PICK e : e = said[known]
    OBVIOUS
  <1>4. /\ known > 0 /\ \A i \in DOMAIN e : e[i].kind # "done"
        /\ said' = [said EXCEPT ![known] = Append(e, m)] /\ Send("server", m)
        /\ UNCHANGED <<buf, turn, records, asked, ended, known, others, seen, opened>>
    BY <1>2, <1>3 DEF ServerResponds, historyVars
  <1>5. known \in 1 .. Turns
    BY <1>1, <1>4
  <1>6. said \in [1 .. Turns -> Seq(ServerEvent)] /\ e \in Seq(ServerEvent)
    BY <1>1, <1>3, <1>5 DEF Sayings
  <1>7. m \in ServerEvent /\ m.kind = kind /\ m.kind # "other"
    BY <1>1, <1>2, <1>3, <1>6 DEF Msg, ServerEvent
  <1>8. PICK e2 : e2 = Append(e, m)
    OBVIOUS
  <1>9. /\ e2 \in Seq(ServerEvent) /\ Len(e2) = Len(e) + 1 /\ Len(e) \in Nat
        /\ \A i \in 1 .. Len(e) : e2[i] = e[i]
    BY <1>6, <1>7, <1>8
  <1>10. /\ said' \in [1 .. Turns -> Seq(ServerEvent)] /\ said'[known] = e2
         /\ \A k \in 1 .. Turns : k # known => said'[k] = said[k]
    BY <1>4, <1>5, <1>6, <1>8, <1>9
  <1>11. known = ended + 1
    <2>. SUFFICES ASSUME known = ended PROVE FALSE
      BY <1>1
    <2>1. known \in 1 .. ended
      BY <1>1, <1>4
    <2>2. e # <<>> /\ e[Len(e)].kind = "done"
      BY <1>1, <1>3, <2>1, Zenon DEF Flow, Closed
    <2>3. Len(e) \in DOMAIN e
      BY <1>6, <2>2
    <2>. QED BY <1>4, <2>2, <2>3
  <1>12. During(turn, seen, sm)
    <2>1. known # ended
      BY <1>1, <1>11
    <2>. QED BY <1>1, <2>1, Zenon DEF Flow
  <1>13. PICK s2 : s2 = Append(sm, m)
    OBVIOUS
  <1>14. /\ Carries("client", ClientEvent, buf'["client"], wire'["client"], cm)
         /\ Carries("server", ServerEvent, buf'["server"], wire'["server"], s2)
         /\ Asking(cm)' /\ s2 \in Seq(ServerEvent)
    BY <1>4, <1>7, <1>13, ServerSends
  <1>15. Sayings'
    <2>1. ASSUME NEW k \in 1 .. Turns, NEW i \in 1 .. Len(said'[k]), said'[k][i].kind = "done"
          PROVE  i = Len(said'[k])
      <3>1. CASE k = known
        <4>. SUFFICES ASSUME i # Len(e2) PROVE FALSE
          BY <1>10, <3>1
        <4>1. i \in 1 .. Len(e)
          BY <1>9, <1>10, <2>1, <3>1
        <4>2. i \in DOMAIN e
          BY <1>6, <4>1
        <4>. QED BY <1>4, <1>9, <1>10, <2>1, <3>1, <4>1, <4>2, Zenon
      <3>2. CASE k # known
        <4>1. said'[k] = said[k]
          BY <1>10, <3>2
        <4>. QED BY <1>1, <2>1, <4>1, Zenon DEF Sayings
      <3>. QED BY <3>1, <3>2
    <2>2. ASSUME NEW k \in known + 1 .. Turns PROVE said'[k] = <<>>
      <3>1. k \in 1 .. Turns /\ k # known
        BY <1>1
      <3>. QED BY <1>1, <1>10, <3>1, Zenon DEF Sayings
    <2>3. known \in 0 .. Turns
      BY <1>1
    <2>. QED BY <1>1, <1>4, <1>10, <2>1, <2>2, <2>3, Zenon DEF Sayings
  <1>16. OfKind(s2, TurnKinds) = OfKind(sm, TurnKinds) \o <<m>>
    <2>1. OfKind(s2, TurnKinds) = OfKind(sm, TurnKinds) \o Keep(m, TurnKinds)
      BY <1>1, <1>7, <1>13, OfKindAppend
    <2>2. Keep(m, TurnKinds) = <<m>>
      BY <1>7 DEF Keep, TurnKinds
    <2>. QED BY <2>1, <2>2, Zenon
  <1>17. OthersLeft(s2, seen)'
    <2>. DEFINE K == {"other"}
    <2>1. OfKind(s2, K) = OfKind(sm, K) \o Keep(m, K) /\ OfKind(sm, K) \in Seq(ServerEvent)
      BY <1>1, <1>7, <1>13, OfKindAppend, OfKindType
    <2>2. Keep(m, K) = <<>>
      BY <1>7 DEF Keep
    <2>3. ASSUME NEW x \in Seq(ServerEvent) PROVE x \o <<>> = x
      BY ConcatEmptySeq
    <2>4. OfKind(s2, K) = OfKind(sm, K)
      BY <2>1, <2>2, <2>3, Zenon
    <2>5. OthersLeft(sm, seen)
      BY <1>1, Zenon DEF Flow
    <2>. QED BY <1>4, <2>4, <2>5, Zenon DEF OthersLeft
  <1>18. During(turn, seen, s2)'
    <2>1. /\ turn.input = known /\ turn.first \in {None, known}
          /\ Later(turn.rawResponse, opened[known]) /\ opened[known] <= seen
          /\ OfKind(turn.rawResponse, TurnKinds) \o OfKind(sm, TurnKinds) = e
      BY <1>3, <1>12, Zenon DEF During
    <2>2. turn.rawResponse \in Seq(ServerEvent)
      BY <1>1 DEF Flow, TurnRecord
    <2>3. /\ OfKind(turn.rawResponse, TurnKinds) \in Seq(ServerEvent)
          /\ OfKind(sm, TurnKinds) \in Seq(ServerEvent)
      BY <1>1, <2>2, OfKindType
    <2>4. ASSUME NEW x \in Seq(ServerEvent), NEW y \in Seq(ServerEvent), x \o y = e
          PROVE  x \o (y \o <<m>>) = Append(e, m)
      <3>1. <<m>> \in Seq(ServerEvent) /\ Append(e, m) = e \o <<m>>
        BY <1>6, <1>7
      <3>2. ASSUME NEW z \in Seq(ServerEvent) PROVE x \o (y \o z) = (x \o y) \o z
        BY ConcatAssociative
      <3>3. x \o (y \o <<m>>) = (x \o y) \o <<m>>
        BY <3>1, <3>2, Zenon
      <3>. QED BY <2>4, <3>1, <3>3, Zenon
    <2>5. OfKind(turn.rawResponse, TurnKinds) \o OfKind(s2, TurnKinds) = e2
      BY <1>8, <1>16, <2>1, <2>3, <2>4, Zenon
    <2>. QED BY <1>4, <1>10, <2>1, <2>5, Zenon DEF During
  <1>19. \A k \in 1 .. ended : (Answers(records[k], k) /\ Closed(said[k]))'
    <2>. TAKE k \in 1 .. ended
    <2>1. k \in 1 .. Turns /\ k # known
      BY <1>1, <1>11
    <2>2. Answers(records[k], k) /\ Closed(said[k])
      BY <1>1, Zenon DEF Flow
    <2>3. said'[k] = said[k]
      BY <1>10, <2>1
    <2>. QED BY <1>4, <2>2, <2>3, Zenon DEF Answers
  <1>20. Flow(turn, records, ended, seen, s2)'
    BY <1>1, <1>4, <1>11, <1>14, <1>17, <1>18, <1>19, Zenon DEF Flow
  <1>21. Coupled(cm, s2)'
    BY <1>14, <1>15, <1>20, Zenon DEF Coupled
  <1>. QED BY <1>21, Zenon

-----------------------------------------------------------------------------
(* Bytes that pass.                                                        *)

\* A request alone.
LEMMA OneRequest ==
    ASSUME NEW t, NEW o
    PROVE  /\ Len(o) = 0 => ApplyClientFrames(t, o) = t
           /\ Len(o) = 1 => ApplyClientFrames(t, o) = ApplyClientFrame(t, o[1])
  <1>1. CASE Len(o) = 0
    <2>. DEFINE E(a) == a = [i \in 0 .. 0 |-> IF i = 0 THEN t ELSE ApplyClientFrame(a[i - 1], o[i])]
                st == CHOOSE a : E(a)
                f == [i \in 0 .. 0 |-> t]
    <2>1. ApplyClientFrames(t, o) = st[0]
      BY <1>1, Zenon DEF ApplyClientFrames
    <2>2. E(f)
      OBVIOUS
    <2>. HIDE DEF f
    <2>3. E(st)
      BY <2>2, Zenon
    <2>. HIDE DEF st
    <2>4. st[0] = t
      BY <2>3
    <2>. QED BY <1>1, <2>1, <2>4
  <1>2. CASE Len(o) = 1
    <2>. DEFINE E(a) == a = [i \in 0 .. 1 |-> IF i = 0 THEN t ELSE ApplyClientFrame(a[i - 1], o[i])]
                st == CHOOSE a : E(a)
                x == ApplyClientFrame(t, o[1])
                f == [i \in 0 .. 1 |-> IF i = 0 THEN t ELSE x]
    <2>1. ApplyClientFrames(t, o) = st[1]
      BY <1>2, Zenon DEF ApplyClientFrames
    <2>2. E(f)
      <3>. HIDE DEF x
      <3>1. f[0] = t /\ 1 - 1 = 0 /\ \A i \in 0 .. 1 : i # 0 => i = 1
        OBVIOUS
      <3>2. \A i \in 0 .. 1 : i # 0 => ApplyClientFrame(f[i - 1], o[i]) = x
        BY <3>1, Zenon DEF x
      <3>3. f = [i \in 0 .. 1 |-> IF i = 0 THEN t ELSE x]
        OBVIOUS
      <3>. HIDE DEF f
      <3>. QED BY <3>2, <3>3, Zenon
    <2>. HIDE DEF f, x
    <2>3. E(st)
      BY <2>2, Zenon
    <2>. HIDE DEF st
    <2>4. st[0] = t /\ st[1] = ApplyClientFrame(st[1 - 1], o[1])
      BY <2>3
    <2>5. 1 - 1 = 0
      OBVIOUS
    <2>. QED BY <1>2, <2>1, <2>4, <2>5, Zenon
  <1>. QED BY <1>1, <1>2

\* What a call of a body filter leaves of one direction, where j messages ended.
Leaves(d, M, ms, n, j) ==
    LET bytes == SubSeq(wire[d], 1, n)
    IN  /\ Carries(d, M, buf'[d], wire'[d], Cut(ms, j, Len(ms)))
        /\ \A e \in Direction : e # d => wire'[e] = wire[e] /\ buf'[e] = buf[e]
        /\ Taken(Parse(buf[d] \o bytes).out, M, ms, j)
        /\ \A kind : Passed(bytes, kind) = Count(ms, kind, j)

LEMMA PassCarries ==
    ASSUME BytesInv, cap = 0, NEW d \in Direction, NEW M, NEW ms,
           Carries(d, M, buf[d], wire[d], ms), NEW n \in 1 .. Len(wire[d]),
           wire' = [wire EXCEPT ![d] = SubSeq(@, n + 1, Len(@))],
           buf' = [buf EXCEPT ![d] = Parse(buf[d] \o SubSeq(wire[d], 1, n)).buf]
    PROVE  \E j \in 0 .. Len(ms) : Leaves(d, M, ms, n, j)
  <1>1. PICK N : wire \in [Direction -> Seq(Byte(N))] /\ buf \in [Direction -> Seq(Byte(N))]
    BY DEF BytesInv
  <1>2. PICK j \in 0 .. Len(ms) : Passes(d, M, buf[d], wire[d], ms, n, j)
    BY Passing
  <1>. DEFINE left == SubSeq(wire[d], n + 1, Len(wire[d]))
              kept == Parse(buf[d] \o SubSeq(wire[d], 1, n)).buf
  <1>3. /\ Carries(d, M, kept, left, Cut(ms, j, Len(ms)))
        /\ Taken(Parse(buf[d] \o SubSeq(wire[d], 1, n)).out, M, ms, j)
        /\ \A kind : Passed(SubSeq(wire[d], 1, n), kind) = Count(ms, kind, j)
    BY <1>2, Zenon DEF Passes
  <1>4. wire' = [wire EXCEPT ![d] = left] /\ buf' = [buf EXCEPT ![d] = kept]
    OBVIOUS
  <1>. HIDE DEF left, kept
  <1>5. /\ wire'[d] = left /\ buf'[d] = kept
        /\ \A e \in Direction : e # d => wire'[e] = wire[e] /\ buf'[e] = buf[e]
    BY <1>1, <1>4, DirectionUpdate
  <1>. QED BY <1>3, <1>5, Zenon DEF Leaves

LEMMA CutAll ==
    ASSUME NEW M, NEW ms \in Seq(M)
    PROVE  Cut(ms, 0, Len(ms)) = ms /\ Cut(ms, Len(ms), Len(ms)) = <<>>
  <1>. DEFINE n == Len(ms)
  <1>1. /\ n \in Nat /\ 0 \in 0 .. n /\ n - 0 = n /\ n \in 0 .. Len(ms) /\ n \in 0 .. n
        /\ n - n = 0 /\ \A x \in 1 .. n : 0 + x = x
    OBVIOUS
  <1>2. ASSUME NEW z \in 0 .. n
        PROVE  /\ Cut(ms, z, n) \in Seq(M) /\ Len(Cut(ms, z, n)) = n - z
               /\ \A x \in 1 .. n - z : Cut(ms, z, n)[x] = ms[z + x]
    <2>1. ASSUME NEW q \in 0 .. Len(ms), NEW y \in 0 .. q
          PROVE  /\ Cut(ms, y, q) \in Seq(M) /\ Len(Cut(ms, y, q)) = q - y
                 /\ \A x \in 1 .. q - y : Cut(ms, y, q)[x] = ms[y + x]
      BY CutIs
    <2>. HIDE DEF n
    <2>. QED BY <1>1, <2>1, Zenon
  <1>3. Cut(ms, 0, n) = ms
    <2>1. /\ Cut(ms, 0, n) \in Seq(M) /\ Len(Cut(ms, 0, n)) = n
          /\ \A x \in 1 .. n : Cut(ms, 0, n)[x] = ms[x]
      <3>1. /\ Cut(ms, 0, n) \in Seq(M) /\ Len(Cut(ms, 0, n)) = n - 0
            /\ \A x \in 1 .. n - 0 : Cut(ms, 0, n)[x] = ms[0 + x]
        BY <1>1, <1>2, Zenon
      <3>. HIDE DEF n
      <3>. QED BY <1>1, <3>1, Zenon
    <2>. QED BY <2>1, SeqEqual
  <1>4. Cut(ms, n, n) = <<>>
    <2>1. Cut(ms, n, n) \in Seq(M) /\ Len(Cut(ms, n, n)) = 0
      BY <1>1, <1>2
    <2>2. ASSUME NEW q \in Seq(M), Len(q) = 0 PROVE q = <<>>
      BY <2>2
    <2>. HIDE DEF n
    <2>. QED BY <2>1, <2>2
  <1>. QED BY <1>3, <1>4

OpensAs(t, k, u) ==
    /\ u \in TurnRecord /\ u.input = k /\ u.first = t.first
    /\ u.output = <<>> /\ u.tools = <<>> /\ u.rawResponse = <<>>

LEMMA OpenTurnIs ==
    ASSUME NEW t \in TurnRecord, NEW k \in Nat
    PROVE  OpensAs(t, k, OpenTurn(t, k))
  <1>. DEFINE w(x, y, r) ==
                [t EXCEPT !.input = k, !.output = x, !.tools = y, !.rawResponse = r]
              u == w(<<>>, <<>>, <<>>)
  <1>1. ASSUME NEW x \in Seq(Nat), NEW y \in Seq(Nat), NEW r \in Seq(ServerEvent)
        PROVE  /\ w(x, y, r) \in TurnRecord /\ w(x, y, r).input = k
               /\ w(x, y, r).first = t.first /\ w(x, y, r).output = x
               /\ w(x, y, r).tools = y /\ w(x, y, r).rawResponse = r
    BY DEF TurnRecord
  <1>2. PICK e : e = <<>>
    OBVIOUS
  <1>3. OpenTurn(t, k) = u
    BY Zenon DEF OpenTurn
  <1>. HIDE DEF w
  <1>4. u = w(e, e, e)
    BY <1>2, Zenon
  <1>5. e \in Seq(Nat) /\ e \in Seq(ServerEvent)
    BY <1>2
  <1>. HIDE DEF u
  <1>6. /\ u \in TurnRecord /\ u.input = k /\ u.first = t.first
        /\ u.output = e /\ u.tools = e /\ u.rawResponse = e
    <2>1. /\ w(e, e, e) \in TurnRecord /\ w(e, e, e).input = k
          /\ w(e, e, e).first = t.first /\ w(e, e, e).output = e
          /\ w(e, e, e).tools = e /\ w(e, e, e).rawResponse = e
      BY <1>1, <1>5
    <2>. QED BY <1>4, <2>1
  <1>7. OpensAs(t, k, u)
    BY <1>2, <1>6, Zenon DEF OpensAs
  <1>. QED BY <1>3, <1>7, Zenon

LEMMA RequestPair ==
    ASSUME BytesInv, cap = 0, NEW cm, NEW sm, Coupled(cm, sm), NEW n \in 1 .. Len(wire["client"]),
           RequestBodyFilter(n)
    PROVE  \E c2, s2 : Coupled(c2, s2)'
  <1>1. /\ Carries("client", ClientEvent, buf["client"], wire["client"], cm)
        /\ Carries("server", ServerEvent, buf["server"], wire["server"], sm)
        /\ Sayings /\ Asking(cm) /\ Flow(turn, records, ended, seen, sm)
        /\ ended \in Nat /\ known \in Nat /\ Turns \in Nat /\ seen \in Nat
        /\ known = ended \/ known = ended + 1
    BY CoupledParts
  <1>. DEFINE bytes == SubSeq(wire["client"], 1, n)
              o == Parse(buf["client"] \o bytes).out
  <1>2. /\ wire' = [wire EXCEPT !["client"] = SubSeq(@, n + 1, Len(@))]
        /\ buf' = [buf EXCEPT !["client"] = Parse(buf["client"] \o bytes).buf]
        /\ turn' = ApplyClientFrames(turn, o)
        /\ known' = known + Passed(bytes, "create")
        /\ opened' = (IF known' = known THEN opened ELSE [opened EXCEPT ![known'] = seen])
        /\ UNCHANGED <<records, asked, ended, said, others, seen>>
    BY Zenon DEF RequestBodyFilter
  <1>3. "client" \in Direction /\ "server" \in Direction /\ "server" # "client"
    BY DEF Direction
  <1>4. PICK j \in 0 .. Len(cm) : Leaves("client", ClientEvent, cm, n, j)
    BY <1>1, <1>2, <1>3, PassCarries
  <1>5. PICK c2 : c2 = Cut(cm, j, Len(cm))
    OBVIOUS
  <1>6. /\ Carries("client", ClientEvent, buf'["client"], wire'["client"], c2)
        /\ Carries("server", ServerEvent, buf'["server"], wire'["server"], sm)
    BY <1>1, <1>3, <1>4, <1>5, Zenon DEF Leaves
  <1>7. Taken(o, ClientEvent, cm, j) /\ known' = known + Count(cm, "create", j)
    BY <1>2, <1>4, Zenon DEF Leaves
  <1>. HIDE DEF bytes, o
  <1>8. Len(o) = j /\ \A i \in 1 .. j : Message(o[i]) = cm[i]
    BY <1>7, Zenon DEF Taken
  <1>9. asked \in Nat /\ asked <= Turns
    BY <1>1, Zenon DEF Asking
  <1>10. CASE j = 0
    <2>1. known' = known
      <3>1. Count(cm, "create", 0) = 0
        BY CountStep
      <3>. QED BY <1>1, <1>7, <1>10, <3>1
    <2>2. turn' = turn /\ opened' = opened
      BY <1>2, <1>8, <1>10, <2>1, OneRequest, Zenon
    <2>3. c2 = cm
      <3>1. PICK m : m = Msg("create", known + 1, 0)
        OBVIOUS
      <3>2. cm = <<>> \/ cm = <<m>>
        BY <1>1, <3>1, Zenon DEF Asking
      <3>3. cm \in Seq({m})
        <4>1. <<>> \in Seq({m}) /\ <<m>> \in Seq({m})
          OBVIOUS
        <4>. QED BY <3>2, <4>1, Zenon
      <3>. QED BY <1>5, <1>10, <3>3, CutAll, Zenon
    <2>4. Asking(c2)'
      BY <1>1, <1>2, <2>1, <2>3, Zenon DEF Asking
    <2>5. Sayings'
      BY <1>1, <1>2, <2>1, <2>2, Zenon DEF Sayings
    <2>6. Flow(turn, records, ended, seen, sm)'
      BY <1>1, <1>2, <2>1, <2>2, Zenon DEF Flow, Answers, OthersLeft, During
    <2>. QED BY <1>6, <2>4, <2>5, <2>6, Zenon DEF Coupled
  <1>11. CASE j # 0
    <2>1. PICK m : m = Msg("create", known + 1, 0)
      OBVIOUS
    <2>2. asked = known + 1 /\ known = ended /\ cm = <<m>>
      <3>1. Len(cm) # 0
        BY <1>11
      <3>2. cm # <<>>
        BY <3>1
      <3>. QED BY <1>1, <2>1, <3>2, Zenon DEF Asking
    <2>3. Len(cm) = 1 /\ j = 1 /\ cm[1] = m
      BY <1>11, <2>2
    <2>4. m.kind = "create" /\ m.turn = known + 1
      BY <2>1 DEF Msg
    <2>5. known' = known + 1
      <3>1. Count(cm, "create", 0) = 0 /\ Counting(cm, "create", 0)
        BY CountStep
      <3>2. 0 + 1 = 1
        OBVIOUS
      <3>3. Count(cm, "create", 1) = 0 + 1
        BY <2>3, <2>4, <3>1, <3>2, Zenon DEF Counting
      <3>. QED BY <1>1, <1>7, <2>3, <3>3
    <2>6. turn' = OpenTurn(turn, known + 1)
      <3>1. turn' = ApplyClientFrame(turn, o[1])
        BY <1>2, <1>8, <2>3, OneRequest, Zenon
      <3>2. Message(o[1]) = m
        <4>1. 1 \in 1 .. j
          BY <2>3
        <4>. QED BY <1>8, <2>3, <4>1, Zenon
      <3>. QED BY <2>4, <3>1, <3>2, Zenon DEF ApplyClientFrame
    <2>7. /\ turn' \in TurnRecord /\ turn'.input = known + 1 /\ turn'.first = turn.first
          /\ turn'.output = <<>> /\ turn'.tools = <<>> /\ turn'.rawResponse = <<>>
      <3>1. turn \in TurnRecord
        BY <1>1, Zenon DEF Flow
      <3>2. known + 1 \in Nat
        BY <1>1
      <3>. QED BY <2>6, <3>1, <3>2, OpenTurnIs, Zenon DEF OpensAs
    <2>8. Between(turn, sm)
      <3>1. known # ended + 1
        BY <1>1, <2>2
      <3>. QED BY <1>1, <3>1, Zenon DEF Flow
    <2>9. known + 1 \in 1 .. Turns /\ known' # known /\ known' \in 0 .. Turns
      BY <1>1, <1>9, <2>2, <2>5
    <2>10. /\ opened' \in [1 .. Turns -> Nat] /\ opened'[known'] = seen
           /\ \A k \in 1 .. Turns : k # known + 1 => opened'[k] = opened[k]
      <3>1. opened \in [1 .. Turns -> Nat]
        BY <1>1, Zenon DEF Sayings
      <3>2. opened' = [opened EXCEPT ![known + 1] = seen]
        BY <1>2, <2>5, <2>9, Zenon
      <3>. QED BY <1>1, <2>5, <2>9, <3>1, <3>2
    <2>11. said'[known'] = <<>> /\ \A k \in known' + 1 .. Turns : said'[k] = <<>>
      <3>1. \A k \in known + 1 .. Turns : said[k] = <<>>
        BY <1>1, Zenon DEF Sayings
      <3>2. known + 1 \in known + 1 .. Turns /\ \A k \in (known + 1) + 1 .. Turns : k \in known + 1 .. Turns
        BY <1>1, <2>9
      <3>. QED BY <1>2, <2>5, <3>1, <3>2, Zenon
    <2>12. c2 = <<>>
      <3>1. cm \in Seq({m})
        BY <2>2
      <3>. QED BY <1>5, <2>3, <3>1, CutAll, Zenon
    <2>13. Asking(c2)'
      BY <1>2, <1>9, <2>2, <2>5, <2>12, Zenon DEF Asking
    <2>14. Sayings'
      BY <1>1, <1>2, <2>9, <2>10, <2>11, Zenon DEF Sayings
    <2>15. During(turn, seen, sm)'
      <3>1. turn'.input = known' /\ turn'.first \in {None, known'}
        BY <2>5, <2>7, <2>8, Zenon DEF Between
      <3>2. OfKind(turn'.rawResponse, TurnKinds) = <<>> /\ OfKind(sm, TurnKinds) = <<>>
        BY <2>7, <2>8, OfKindNothing, Zenon DEF Between
      <3>3. <<>> \o <<>> = <<>> /\ DOMAIN <<>> = {}
        OBVIOUS
      <3>4. Later(turn'.rawResponse, opened'[known'])
        BY <2>7, <3>3, Zenon DEF Later
      <3>5. opened'[known'] <= seen'
        BY <1>1, <1>2, <2>10
      <3>. QED BY <2>11, <3>1, <3>2, <3>3, <3>4, <3>5, Zenon DEF During
    <2>16. \A k \in 1 .. ended : (Answers(records[k], k) /\ Closed(said[k]))'
      <3>. TAKE k \in 1 .. ended
      <3>1. k \in 1 .. Turns /\ k # known + 1
        BY <1>1, <2>2, <2>9
      <3>2. Answers(records[k], k) /\ Closed(said[k])
        BY <1>1, Zenon DEF Flow
      <3>3. opened'[k] = opened[k]
        BY <2>10, <3>1
      <3>. QED BY <1>2, <3>2, <3>3, Zenon DEF Answers
    <2>17. Sorted(turn'.output, turn'.tools, turn'.rawResponse)
      BY <2>7, OfKindNothing, NumbersOfNothing, Zenon DEF Sorted
    <2>18. known' = ended' + 1
      BY <1>2, <2>2, <2>5, Zenon
    <2>19. OthersLeft(sm, seen)'
      BY <1>1, <1>2, Zenon DEF Flow, OthersLeft
    <2>20. Flow(turn, records, ended, seen, sm)'
      BY <1>1, <1>2, <2>7, <2>15, <2>16, <2>17, <2>18, <2>19, Zenon DEF Flow
    <2>. QED BY <1>6, <2>13, <2>14, <2>20, Zenon DEF Coupled
  <1>. QED BY <1>10, <1>11

LEMMA ResponsePair ==
    ASSUME BytesInv, cap = 0, NEW cm, NEW sm, Coupled(cm, sm), NEW n \in 1 .. Len(wire["server"]),
           ResponseBodyFilter(n)
    PROVE  \E c2, s2 : Coupled(c2, s2)'
  <1>1. /\ Carries("client", ClientEvent, buf["client"], wire["client"], cm)
        /\ Carries("server", ServerEvent, buf["server"], wire["server"], sm)
        /\ Sayings /\ Asking(cm) /\ Flow(turn, records, ended, seen, sm)
        /\ ended \in Nat /\ known \in Nat /\ Turns \in Nat /\ seen \in Nat
        /\ sm \in Seq(ServerEvent)
    BY CoupledParts
  <1>. DEFINE bytes == SubSeq(wire["server"], 1, n)
              o == Parse(buf["server"] \o bytes).out
              st == [turn |-> turn, records |-> records]
              r == ApplyServerFrames(st, o)
  <1>2. /\ wire' = [wire EXCEPT !["server"] = SubSeq(@, n + 1, Len(@))]
        /\ buf' = [buf EXCEPT !["server"] = Parse(buf["server"] \o bytes).buf]
        /\ turn' = r.turn /\ records' = r.records
        /\ ended' = ended + Passed(bytes, "done") /\ seen' = seen + Passed(bytes, "other")
        /\ UNCHANGED <<asked, known, said, others, opened>>
    BY Zenon DEF ResponseBodyFilter
  <1>3. "client" \in Direction /\ "server" \in Direction /\ "server" # "client"
    BY DEF Direction
  <1>4. PICK j \in 0 .. Len(sm) : Leaves("server", ServerEvent, sm, n, j)
    BY <1>1, <1>2, <1>3, PassCarries
  <1>5. PICK s2 : s2 = Cut(sm, j, Len(sm))
    OBVIOUS
  <1>6. /\ Carries("client", ClientEvent, buf'["client"], wire'["client"], cm)
        /\ Carries("server", ServerEvent, buf'["server"], wire'["server"], s2)
    BY <1>1, <1>3, <1>4, <1>5, Zenon DEF Leaves
  <1>7. /\ Taken(o, ServerEvent, sm, j) /\ ended' = ended + Count(sm, "done", j)
        /\ seen' = seen + Count(sm, "other", j)
    BY <1>2, <1>4, Zenon DEF Leaves
  <1>8. Flowing(st, ended, seen, sm)
    <2>1. st.turn = turn /\ st.records = records
      OBVIOUS
    <2>. QED BY <1>1, <2>1, Zenon DEF Flowing
  <1>. HIDE DEF bytes, o, st
  <1>9. Flowing(r, ended + Count(sm, "done", j), seen + Count(sm, "other", j), s2)
    BY <1>1, <1>5, <1>7, <1>8, FlowFrames
  <1>. HIDE DEF r
  <1>10. Flow(turn', records', ended', seen', s2)
    BY <1>2, <1>7, <1>9, Zenon DEF Flowing
  <1>11. Flow(turn, records, ended, seen, s2)'
    BY <1>2, <1>10, Zenon DEF Flow, Answers, OthersLeft, During
  <1>12. Sayings'
    BY <1>1, <1>2, Zenon DEF Sayings
  <1>13. Asking(cm)'
    <2>1. CASE asked = known /\ cm = <<>>
      BY <1>1, <1>2, <2>1, Zenon DEF Asking
    <2>2. CASE asked = known + 1 /\ known = ended /\ cm = <<Msg("create", known + 1, 0)>>
      <3>1. Count(sm, "done", j) \in Nat
        BY CountStep DEF Counting
      <3>2. known = ended' \/ known = ended' + 1
        BY <1>10, Zenon DEF Flow
      <3>3. ended' = ended
        BY <1>1, <1>7, <2>2, <3>1, <3>2
      <3>. QED BY <1>1, <1>2, <2>2, <3>3, Zenon DEF Asking
    <2>. QED BY <1>1, <2>1, <2>2, Zenon DEF Asking
  <1>14. Coupled(cm, s2)'
    BY <1>6, <1>11, <1>12, <1>13, Zenon DEF Coupled
  <1>. QED BY <1>14, Zenon

LEMMA StepPair ==
    ASSUME PairInv, [Next]_vars
    PROVE  PairInv'
  <1>1. ParserInv /\ ParserInv'
    BY StepParser, Zenon DEF PairInv
  <1>2. BytesInv
    BY <1>1, Zenon DEF ParserInv
  <1>3. cap' = cap
    BY Zenon DEF Next, vars, ClientCreates, ServerOther, ServerResponds, RequestBodyFilter,
                 ResponseBodyFilter
  <1>. SUFFICES ASSUME cap = 0 PROVE \E c2, s2 : Coupled(c2, s2)'
    BY <1>1, <1>3, Zenon DEF PairInv
  <1>4. PICK cm, sm : Coupled(cm, sm)
    BY Zenon DEF PairInv
  <1>5. CASE ClientCreates
    BY <1>2, <1>4, <1>5, CreatesPair
  <1>6. CASE ServerOther
    BY <1>2, <1>4, <1>6, OtherPair
  <1>7. ASSUME NEW kind \in {"delta", "item", "done"}, ServerResponds(kind)
        PROVE  \E c2, s2 : Coupled(c2, s2)'
    BY <1>2, <1>4, <1>7, RespondPair
  <1>8. ASSUME NEW n \in 1 .. Len(wire["client"]), RequestBodyFilter(n)
        PROVE  \E c2, s2 : Coupled(c2, s2)'
    BY <1>2, <1>4, <1>8, RequestPair
  <1>9. ASSUME NEW n \in 1 .. Len(wire["server"]), ResponseBodyFilter(n)
        PROVE  \E c2, s2 : Coupled(c2, s2)'
    BY <1>2, <1>4, <1>9, ResponsePair
  <1>10. CASE UNCHANGED vars
    <2>1. /\ buf' = buf /\ wire' = wire /\ turn' = turn /\ records' = records
          /\ asked' = asked /\ ended' = ended /\ known' = known /\ said' = said
          /\ others' = others /\ seen' = seen /\ opened' = opened
      BY <1>10 DEF vars, historyVars
    <2>2. Coupled(cm, sm)'
      BY <1>4, <2>1, Zenon DEF Coupled, Asking, Sayings, Flow, Answers, OthersLeft, During
    <2>. QED BY <2>2, Zenon
  <1>. QED BY <1>5, <1>6, <1>7, <1>8, <1>9, <1>10, Zenon DEF Next

LEMMA CoupledTurns ==
    ASSUME PairInv
    PROVE  TurnsPaired
  <1>. SUFFICES ASSUME cap = 0 PROVE TurnsPaired
    BY Zenon DEF TurnsPaired
  <1>1. PICK cm, sm : Coupled(cm, sm)
    BY Zenon DEF PairInv
  <1>2. /\ Flow(turn, records, ended, seen, sm) /\ ended \in Nat
    BY <1>1, CoupledParts
  <1>3. /\ records \in Seq(TurnRecord) /\ Len(records) = ended
        /\ \A k \in 1 .. ended : Answers(records[k], k)
    BY <1>2, Zenon DEF Flow
  <1>4. DOMAIN records = 1 .. ended
    BY <1>3
  <1>5. ASSUME NEW k \in DOMAIN records
        PROVE  /\ records[k].input = k /\ records[k].first = k
               /\ records[k].output = Numbers(OfKind(said[k], {"delta"}))
               /\ records[k].tools = Numbers(OfKind(said[k], {"item"}))
               /\ OfKind(records[k].rawResponse, TurnKinds) = said[k]
               /\ Later(records[k].rawResponse, opened[k])
    <2>. DEFINE r == records[k]
    <2>1. /\ r.input = k /\ r.first = k /\ OfKind(r.rawResponse, TurnKinds) = said[k]
          /\ Later(r.rawResponse, opened[k])
          /\ r.output = Numbers(OfKind(r.rawResponse, {"delta"}))
          /\ r.tools = Numbers(OfKind(r.rawResponse, {"item"}))
      BY <1>3, <1>4, Zenon DEF Answers, Sorted
    <2>2. r.rawResponse \in Seq(ServerEvent)
      <3>1. r \in TurnRecord
        BY <1>3, <1>4
      <3>. HIDE DEF r
      <3>. QED BY <3>1 DEF TurnRecord
    <2>. HIDE DEF r
    <2>3. {"delta"} \subseteq TurnKinds /\ {"item"} \subseteq TurnKinds
      BY DEF TurnKinds
    <2>4. /\ OfKind(OfKind(r.rawResponse, TurnKinds), {"delta"}) = OfKind(r.rawResponse, {"delta"})
          /\ OfKind(OfKind(r.rawResponse, TurnKinds), {"item"}) = OfKind(r.rawResponse, {"item"})
      BY <2>2, <2>3, OfKindTwice
    <2>. QED BY <2>1, <2>4, Zenon DEF r
  <1>. QED BY <1>3, <1>5, Zenon DEF TurnsPaired, TurnKinds, Later

\* WsTurnState and the two body filters without server.max_ws_frame_payload: for any
\* number of responses, of events and of other events, for every set of payload
\* lengths, and however both directions are cut into chunks, each response the client
\* saw end left one record: it answers that response's own request, it has its output
\* and its tools in order, and the other events in it passed after that request.
THEOREM TurnsAlwaysPaired == Spec => []TurnsPaired
  <1>1. Init => PairInv
    BY InitPair
  <1>2. PairInv /\ [Next]_vars => PairInv'
    BY StepPair
  <1>3. PairInv => TurnsPaired
    BY CoupledTurns
  <1>. QED BY <1>1, <1>2, <1>3, PTL DEF Spec
=============================================================================
