---------------------------- MODULE DataInduction ----------------------------
(***************************************************************************)
(* Induction in a first-order form: a property of numbers is the set of    *)
(* the numbers that have it.  The well-foundedness of < gives every        *)
(* nonempty set of naturals its least member, and from that follow         *)
(* induction over the naturals, the greatest member of a bounded set, and  *)
(* with them what recursive functions compute.                             *)
(***************************************************************************)
EXTENDS Integers, WellFoundedInduction, TLAPS

\* A nonempty set of naturals has a least member.
LEMMA LeastNat ==
    ASSUME NEW T \in SUBSET Nat, T # {}
    PROVE  \E x \in T : \A y \in T : x <= y
  <1>. DEFINE R == {ss \in Nat \X Nat : ss[1] < ss[2]}
  <1>1. IsWellFoundedOn(R, Nat)
    BY NatLessThanWellFounded DEF OpToRel
  <1>2. PICK x \in T : \A y \in T : ~(<<y, x>> \in R)
    BY <1>1, WFMin, Zenon
  <1>3. ASSUME NEW y \in T PROVE x <= y
    <2>1. x \in Nat /\ y \in Nat /\ ~(<<y, x>> \in R)
      BY <1>2
    <2>. QED BY <2>1
  <1>. QED BY <1>2, <1>3

\* A nonempty set of naturals that has a bound has a greatest member.
LEMMA GreatestNat ==
    ASSUME NEW T \in SUBSET Nat, T # {}, NEW n \in Nat, \A x \in T : x <= n
    PROVE  \E x \in T : \A y \in T : y <= x
  <1>. DEFINE D == {d \in 0 .. n : n - d \in T}
  <1>1. PICK d \in D : \A e \in D : d <= e
    <2>1. PICK x \in T : TRUE
      OBVIOUS
    <2>2. n - x \in D
      OBVIOUS
    <2>3. D \in SUBSET Nat
      OBVIOUS
    <2>. HIDE DEF D
    <2>. QED BY <2>2, <2>3, LeastNat
  <1>2. ASSUME NEW y \in T PROVE y <= n - d
    <2>1. n - y \in D
      OBVIOUS
    <2>. QED BY <1>1, <2>1
  <1>. QED BY <1>1, <1>2

\* A set of naturals that holds zero and the successors of its members is all of
\* them.
LEMMA SetInduction ==
    ASSUME NEW S \in SUBSET Nat, 0 \in S, \A n \in S : n + 1 \in S
    PROVE  S = Nat
  <1>. SUFFICES ASSUME S # Nat PROVE FALSE
    OBVIOUS
  <1>1. PICK x \in Nat \ S : \A y \in Nat \ S : x <= y
    <2>1. (Nat \ S) # {}
      OBVIOUS
    <2>. QED BY <2>1, LeastNat
  <1>2. x = 0 \/ x - 1 \in S
    BY <1>1
  <1>. QED BY <1>1, <1>2

-----------------------------------------------------------------------------
(* Sums of a finite sequence of numbers, as a recursive function defines   *)
(* them: the function exists, has the partial sums for its values, and is  *)
(* the only one.                                                           *)

\* f holds the partial sums of g up to n.
PartialSums(f, g, n) ==
    /\ f \in [0 .. n -> Nat] /\ f[0] = 0
    /\ \A i \in 1 .. n : f[i] = f[i - 1] + g[i]

LEMMA SumsExist ==
    ASSUME NEW n \in Nat, NEW g \in [1 .. n -> Nat]
    PROVE  \E f : PartialSums(f, g, n)
  <1>. DEFINE S == {m \in Nat : m <= n => \E f : PartialSums(f, g, m)}
  <1>1. 0 \in S
    <2>1. PartialSums([i \in 0 .. 0 |-> 0], g, 0)
      BY DEF PartialSums
    <2>. QED BY <2>1
  <1>2. ASSUME NEW m \in S PROVE m + 1 \in S
    <2>. SUFFICES ASSUME m + 1 <= n PROVE \E f : PartialSums(f, g, m + 1)
      OBVIOUS
    <2>1. PICK f : PartialSums(f, g, m)
      OBVIOUS
    <2>. DEFINE h == [i \in 0 .. m + 1 |-> IF i = m + 1 THEN f[m] + g[m + 1] ELSE f[i]]
    <2>2. f \in [0 .. m -> Nat] /\ f[0] = 0 /\ \A i \in 1 .. m : f[i] = f[i - 1] + g[i]
      BY <2>1 DEF PartialSums
    <2>3. h \in [0 .. m + 1 -> Nat] /\ h[0] = 0
      BY <2>2
    <2>4. ASSUME NEW i \in 1 .. m + 1 PROVE h[i] = h[i - 1] + g[i]
      <3>1. h[i - 1] = f[i - 1]
        OBVIOUS
      <3>2. CASE i = m + 1
        BY <3>1, <3>2
      <3>3. CASE i # m + 1
        BY <2>2, <3>1, <3>3
      <3>. QED BY <3>2, <3>3
    <2>. HIDE DEF h
    <2>. QED BY <2>3, <2>4 DEF PartialSums
  <1>. HIDE DEF S
  <1>3. S = Nat
    BY <1>1, <1>2, SetInduction DEF S
  <1>4. n \in S
    BY <1>3
  <1>. QED BY <1>4 DEF S

LEMMA SumsAgree ==
    ASSUME NEW n \in Nat, NEW c \in Nat, NEW g \in [1 .. n -> Nat],
           NEW a \in [0 .. n -> Nat], NEW b \in [0 .. n -> Nat], a[0] = b[0] + c,
           \A i \in 1 .. n : a[i] = a[i - 1] + g[i],
           \A i \in 1 .. n : b[i] = b[i - 1] + g[i]
    PROVE  a[n] = b[n] + c
  <1>. DEFINE S == {m \in Nat : m <= n => a[m] = b[m] + c}
  <1>1. 0 \in S
    OBVIOUS
  <1>2. ASSUME NEW m \in S PROVE m + 1 \in S
    <2>. SUFFICES ASSUME m + 1 <= n PROVE a[m + 1] = b[m + 1] + c
      OBVIOUS
    <2>1. m + 1 \in 1 .. n /\ m \in 0 .. n /\ (m + 1) - 1 = m
      OBVIOUS
    <2>2. /\ a[m + 1] = a[m] + g[m + 1] /\ b[m + 1] = b[m] + g[m + 1]
          /\ g[m + 1] \in Nat /\ a[m] \in Nat /\ b[m] \in Nat
      BY <2>1
    <2>3. a[m] = b[m] + c
      BY <2>1
    <2>. QED BY <2>2, <2>3
  <1>. HIDE DEF S
  <1>3. S = Nat
    BY <1>1, <1>2, SetInduction DEF S
  <1>4. n \in S
    BY <1>3
  <1>. QED BY <1>4 DEF S

LEMMA SumsUnique ==
    ASSUME NEW n \in Nat, NEW g, NEW f, PartialSums(f, g, n), NEW a, a[0] = 0,
           \A i \in 1 .. n : a[i] = a[i - 1] + g[i]
    PROVE  a[n] = f[n]
  <1>. DEFINE S == {m \in Nat : m <= n => a[m] = f[m]}
  <1>1. 0 \in S
    BY DEF PartialSums
  <1>2. ASSUME NEW m \in S PROVE m + 1 \in S
    <2>. SUFFICES ASSUME m + 1 <= n PROVE a[m + 1] = f[m + 1]
      OBVIOUS
    <2>1. m + 1 \in 1 .. n /\ (m + 1) - 1 = m /\ a[m] = f[m]
      OBVIOUS
    <2>. QED BY <2>1 DEF PartialSums
  <1>. HIDE DEF S
  <1>3. S = Nat
    BY <1>1, <1>2, SetInduction DEF S
  <1>4. n \in S
    BY <1>3
  <1>. QED BY <1>4 DEF S
=============================================================================
