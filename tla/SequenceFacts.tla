--------------------------- MODULE SequenceFacts ---------------------------
(***************************************************************************)
(* Facts about numbers and sequences that the other proofs rest on and     *)
(* that the library does not state: induction over the natural numbers for *)
(* a set of them (WFMin needs no operator to be instantiated, as the       *)
(* library's induction theorems do), remainders, and what the recursive    *)
(* FlattenSeq of SequencesExt computes for sequences of any length.        *)
(***************************************************************************)
EXTENDS Integers, SequencesExt, SequenceTheorems, WellFoundedInduction, TLAPS

LEMMA LeastOfSet ==
  ASSUME NEW T \in SUBSET Nat, T # {}
  PROVE  \E x \in T : \A y \in T : x <= y
<1> DEFINE R == OpToRel(<, Nat)
<1>1. IsWellFoundedOn(R, Nat)
  BY NatLessThanWellFounded
<1>2. \A x, y \in Nat : x < y => <<x, y>> \in R
  BY DEF OpToRel
<1> HIDE DEF R
<1>3. PICK x \in T : \A y \in T : <<y, x>> \notin R
  BY <1>1, WFMin
<1>4. \A y \in T : x <= y
  <2> TAKE y \in T
  <2>1. x \in Nat /\ y \in Nat
    OBVIOUS
  <2>2. ~(y < x)
    BY <1>2, <1>3, <2>1
  <2> QED
    BY <2>1, <2>2
<1> QED
  BY <1>4

(* A set that holds 0 and the successor of each of its numbers holds all.  *)
LEMMA NatSetInduction ==
  ASSUME NEW S, 0 \in S, \A n \in Nat : n \in S => n + 1 \in S
  PROVE  \A n \in Nat : n \in S
<1> SUFFICES ASSUME Nat \ S # {} PROVE FALSE
  OBVIOUS
<1>1. PICK x \in Nat \ S : \A y \in Nat \ S : x <= y
  BY LeastOfSet
<1>2. x # 0 /\ x - 1 \in Nat
  BY <1>1
<1>3. x - 1 \in S
  BY <1>1, <1>2
<1> QED
  BY <1>1, <1>2, <1>3

(***************************************************************************)
(* Remainders.                                                             *)
(***************************************************************************)
LEMMA ModSmall ==
  ASSUME NEW m \in Nat, NEW n \in Nat \ {0}, m < n
  PROVE  m % n = m
OBVIOUS

LEMMA ModNegative ==
  ASSUME NEW k \in Nat \ {0}, NEW n \in Nat \ {0}, k < n
  PROVE  (-k) % n = n - k
OBVIOUS

LEMMA ModRange ==
  ASSUME NEW m \in Nat, NEW n \in Nat \ {0}
  PROVE  m % n \in 0..(n - 1) /\ m % n <= m
OBVIOUS

LEMMA ModOffset ==
  ASSUME NEW m \in Nat, NEW n \in Nat \ {0}, m % n = 0, NEW k \in 0..(n - 1)
  PROVE  (m + k) % n = k
OBVIOUS

LEMMA ModStep ==
  ASSUME NEW m \in Nat, NEW n \in Nat \ {0}
  PROVE  (m + n) % n = m % n /\ (m + n) \div n = m \div n + 1
<1> DEFINE q == m \div n
           r == m % n
           p == (m + n) \div n
           t == (m + n) % n
           d == q + 1 - p
<1>1. q \in Nat /\ r \in 0..(n - 1) /\ m = n * q + r
  OBVIOUS
<1>2. p \in Nat /\ t \in 0..(n - 1) /\ m + n = n * p + t
  OBVIOUS
<1> HIDE DEF p, q, r, t
<1>3. t - r = n * d
  BY <1>1, <1>2
<1>4. d \in Int /\ n * d < n /\ n * d > -n
  BY <1>1, <1>2, <1>3
<1>5. d = 0
  <2> HIDE DEF d
  <2>1. d < 1
    BY <1>4
  <2>2. d > -1
    BY <1>4
  <2> QED
    BY <1>4, <2>1, <2>2
<1>6. t = r /\ p = q + 1
  BY <1>1, <1>2, <1>3, <1>5 DEF d
<1> QED
  BY <1>6 DEF p, q, t, r

LEMMA ModIsProduct ==
  ASSUME NEW m \in Nat, NEW n \in Nat \ {0}
  PROVE  (m * n) % n = 0
<1> DEFINE q == (m * n) \div n
           r == (m * n) % n
           d == m - q
<1>1. m * n \in Nat
  OBVIOUS
<1>2. q \in Nat /\ r \in 0..(n - 1) /\ m * n = n * q + r
  BY <1>1
<1> HIDE DEF q, r
<1>3. d \in Int /\ n * d = r
  BY <1>2
<1> HIDE DEF d
<1>4. d < 1
  BY <1>2, <1>3
<1>5. d > -1
  BY <1>2, <1>3
<1>6. d = 0
  BY <1>3, <1>4, <1>5
<1> QED
  BY <1>2, <1>3, <1>6 DEF r

LEMMA WholeQuotient ==
  ASSUME NEW m \in Nat, NEW n \in Nat \ {0}, m % n = 0
  PROVE  m \div n \in Nat /\ m = (m \div n) * n
OBVIOUS

LEMMA ProductOrder ==
  ASSUME NEW k \in Nat, NEW m \in Nat, NEW n \in Nat, k < m
  PROVE  k * n \in Nat /\ k * n + n <= m * n
<1> DEFINE d == m - k
<1>1. d \in Nat \ {0} /\ m = k + d
  OBVIOUS
<1> HIDE DEF d
<1>2. d * n >= n /\ k * n \in Nat
  BY <1>1
<1> QED
  BY <1>1, <1>2

(* Two multiples of n that differ are at least n apart.                    *)
LEMMA ModGap ==
  ASSUME NEW a \in Nat, NEW b \in Nat, NEW n \in Nat \ {0},
         a % n = 0, b % n = 0, a < b
  PROVE  a + n <= b
<1> DEFINE p == a \div n
           q == b \div n
           d == q - p
<1>1. p \in Nat /\ q \in Nat /\ a = n * p /\ b = n * q
  OBVIOUS
<1> HIDE DEF p, q
<1>2. d \in Int /\ n * d = b - a
  BY <1>1
<1> HIDE DEF d
<1>3. d >= 1
  BY <1>2
<1>4. n * d >= n
  BY <1>2, <1>3
<1> QED
  BY <1>2, <1>4

(***************************************************************************)
(* Concatenation, element by element.                                      *)
(***************************************************************************)
LEMMA SameSequence ==
  ASSUME NEW Elem, NEW s \in Seq(Elem), NEW t \in Seq(Elem), Len(s) = Len(t),
         \A i \in 1..Len(s) : s[i] = t[i]
  PROVE  s = t
OBVIOUS

LEMMA ConcatParts ==
  ASSUME NEW Elem, NEW s \in Seq(Elem), NEW t \in Seq(Elem)
  PROVE  /\ s \o t \in Seq(Elem)
         /\ Len(s) \in Nat /\ Len(t) \in Nat /\ Len(s \o t) = Len(s) + Len(t)
         /\ \A i \in 1..Len(s) : (s \o t)[i] = s[i]
         /\ \A i \in 1..Len(t) : (s \o t)[Len(s) + i] = t[i]
OBVIOUS

LEMMA ConcatIs ==
  ASSUME NEW Elem, NEW s \in Seq(Elem), NEW t \in Seq(Elem), NEW u \in Seq(Elem),
         Len(u) = Len(s) + Len(t),
         \A i \in 1..Len(s) : u[i] = s[i],
         \A i \in 1..Len(t) : u[Len(s) + i] = t[i]
  PROVE  u = s \o t
<1> DEFINE both == s \o t
<1>1. /\ both \in Seq(Elem)
      /\ Len(s) \in Nat /\ Len(t) \in Nat /\ Len(both) = Len(s) + Len(t)
      /\ \A i \in 1..Len(s) : both[i] = s[i]
      /\ \A i \in 1..Len(t) : both[Len(s) + i] = t[i]
  BY ConcatParts
<1> HIDE DEF both
<1>2. ASSUME NEW i \in 1..Len(u) PROVE u[i] = both[i]
  <2>1. CASE i <= Len(s)
    BY <1>1, <2>1
  <2>2. CASE i > Len(s)
    <3> DEFINE k == i - Len(s)
    <3>1. k \in 1..Len(t) /\ i = Len(s) + k
      BY <1>1, <2>2
    <3> HIDE DEF k
    <3> QED
      BY <1>1, <3>1
  <2> QED
    BY <1>1, <2>1, <2>2
<1>3. u = both
  BY <1>1, <1>2, SeqEqual
<1> QED
  BY <1>3 DEF both

LEMMA ConcatGroups ==
  ASSUME NEW Elem, NEW s \in Seq(Elem), NEW t \in Seq(Elem), NEW u \in Seq(Elem)
  PROVE  s \o (t \o u) = (s \o t) \o u
OBVIOUS

(* A sequence cut in two, after n elements.                                *)
LEMMA CutParts ==
  ASSUME NEW Elem, NEW s \in Seq(Elem), NEW n \in Nat, n <= Len(s)
  PROVE  /\ SubSeq(s, 1, n) \in Seq(Elem) /\ Len(SubSeq(s, 1, n)) = n
         /\ SubSeq(s, n + 1, Len(s)) \in Seq(Elem)
         /\ Len(SubSeq(s, n + 1, Len(s))) = Len(s) - n
         /\ \A i \in 1..n : SubSeq(s, 1, n)[i] = s[i]
         /\ \A i \in 1..Len(s) - n : SubSeq(s, n + 1, Len(s))[i] = s[n + i]
         /\ s = SubSeq(s, 1, n) \o SubSeq(s, n + 1, Len(s))
<1> DEFINE front == SubSeq(s, 1, n)
           back == SubSeq(s, n + 1, Len(s))
<1>0. Len(s) \in Nat /\ \A i \in 1..Len(s) : s[i] \in Elem
  BY LenProperties
<1>1. /\ front \in Seq(Elem) /\ Len(front) = n /\ \A i \in 1..n : front[i] = s[i]
  <2>1. \A i \in 1..n : s[i] \in Elem
    BY <1>0
  <2>2. /\ front \in Seq(Elem) /\ Len(front) = IF 1 <= n THEN n - 1 + 1 ELSE 0
        /\ \A i \in 1..n - 1 + 1 : front[i] = s[1 + i - 1]
    BY <2>1, SubSeqProperties
  <2> QED
    BY <2>2
<1>2. /\ back \in Seq(Elem) /\ Len(back) = Len(s) - n
      /\ \A i \in 1..Len(s) - n : back[i] = s[n + i]
  <2>1. \A i \in n + 1..Len(s) : s[i] \in Elem
    BY <1>0
  <2>2. /\ back \in Seq(Elem)
        /\ Len(back) = IF n + 1 <= Len(s) THEN Len(s) - (n + 1) + 1 ELSE 0
        /\ \A i \in 1..Len(s) - (n + 1) + 1 : back[i] = s[(n + 1) + i - 1]
    BY <1>0, <2>1, SubSeqProperties
  <2> HIDE DEF back
  <2> QED
    BY <1>0, <2>2
<1> HIDE DEF front, back
<1>3. s = front \o back
  <2>1. /\ Len(s) = Len(front) + Len(back)
        /\ \A i \in 1..Len(front) : s[i] = front[i]
        /\ \A i \in 1..Len(back) : s[Len(front) + i] = back[i]
    <3>1. Len(s) = Len(front) + Len(back)
      BY <1>0, <1>1, <1>2
    <3>2. \A i \in 1..Len(front) : s[i] = front[i]
      BY <1>1
    <3>3. \A i \in 1..Len(back) : s[Len(front) + i] = back[i]
      BY <1>1, <1>2
    <3> QED
      BY <3>1, <3>2, <3>3
  <2> QED
    BY <1>1, <1>2, <2>1, ConcatIs
<1> QED
  BY <1>1, <1>2, <1>3 DEF front, back

LEMMA SplitConcat ==
  ASSUME NEW Elem, NEW s \in Seq(Elem), NEW t \in Seq(Elem), NEW u, u = s \o t,
         NEW n, n = Len(s)
  PROVE  n <= Len(u) /\ SubSeq(u, 1, n) = s /\ SubSeq(u, n + 1, Len(u)) = t
OBVIOUS

LEMMA TailOfConcat ==
  ASSUME NEW Elem, NEW s \in Seq(Elem), NEW t \in Seq(Elem), NEW u, u = s \o t,
         NEW n, n = Len(t)
  PROVE  n <= Len(u) /\ SubSeq(u, Len(u) - n + 1, Len(u)) = t
OBVIOUS

(***************************************************************************)
(* FlattenSeq.                                                             *)
(***************************************************************************)
(* g is the table FlattenSeq builds of the first n sequences of s.         *)
Flattens(g, s, n) ==
  g = [i \in 1..n |-> IF i = 1 THEN s[i] ELSE g[i - 1] \o s[i]]

LEMMA FlattensSteps ==
  ASSUME NEW g, NEW s, NEW n \in Nat, Flattens(g, s, n)
  PROVE  /\ n # 0 => g[1] = s[1]
         /\ \A i \in Nat \ {0} : i + 1 \in 1..n => g[i + 1] = g[i] \o s[i + 1]
<1> DEFINE Entry(i) == IF i = 1 THEN s[i] ELSE g[i - 1] \o s[i]
<1>1. \A i \in 1..n : g[i] = Entry(i)
  <2>1. g = [i \in 1..n |-> Entry(i)]
    BY DEF Flattens
  <2> HIDE DEF Entry
  <2> QED
    BY <2>1
<1>2. n # 0 => g[1] = s[1]
  <2>1. Entry(1) = s[1]
    OBVIOUS
  <2> HIDE DEF Entry
  <2> QED
    BY <1>1, <2>1
<1>3. ASSUME NEW i \in Nat \ {0}, i + 1 \in 1..n
      PROVE  g[i + 1] = g[i] \o s[i + 1]
  <2>1. Entry(i + 1) = g[i] \o s[i + 1]
    <3>1. (i + 1) - 1 = i /\ i + 1 # 1
      OBVIOUS
    <3> QED
      BY <3>1
  <2> HIDE DEF Entry
  <2> QED
    BY <1>1, <1>3, <2>1
<1> QED
  BY <1>2, <1>3

LEMMA FlattensLast ==
  ASSUME NEW g, NEW s, NEW n \in Nat \ {0}, Flattens(g, s, n + 1)
  PROVE  g[n + 1] = g[n] \o s[n + 1]
<1>1. n + 1 \in Nat /\ n + 1 \in 1..(n + 1)
  OBVIOUS
<1> QED
  BY <1>1, FlattensSteps

LEMMA FlattensExists ==
  ASSUME NEW s, NEW n \in Nat
  PROVE  \E g : Flattens(g, s, n)
<1> DEFINE P(m) == \E g : Flattens(g, s, m)
           S == {m \in Nat : P(m)}
<1>1. P(0)
  <2>1. Flattens([i \in 1..0 |-> i], s, 0)
    BY DEF Flattens
  <2> QED
    BY <2>1
<1>2. ASSUME NEW m \in Nat, P(m) PROVE P(m + 1)
  <2>1. PICK g : Flattens(g, s, m)
    BY <1>2
  <2> DEFINE last == IF m = 0 THEN s[1] ELSE g[m] \o s[m + 1]
             h == [i \in 1..(m + 1) |-> IF i <= m THEN g[i] ELSE last]
             Entry(i) == IF i = 1 THEN s[i] ELSE h[i - 1] \o s[i]
  <2>2. ASSUME NEW i \in 1..(m + 1)
        PROVE  h[i] = Entry(i)
    <3>1. h[m + 1] = last /\ \A j \in 1..m : h[j] = g[j]
      <4> HIDE DEF last
      <4> QED
        OBVIOUS
    <3> HIDE DEF h
    <3>2. CASE i = 1
      <4>1. m # 0 => g[1] = s[1]
        BY <2>1, FlattensSteps
      <4>2. h[1] = s[1]
        BY <3>1, <4>1
      <4> QED
        BY <3>2, <4>2
    <3>3. CASE i # 1 /\ i <= m
      <4> DEFINE j == i - 1
      <4>1. j \in Nat \ {0} /\ j + 1 = i /\ j + 1 \in 1..m
        BY <3>3
      <4>2. g[j + 1] = g[j] \o s[j + 1]
        <5> HIDE DEF j
        <5> QED
          BY <2>1, <4>1, FlattensSteps
      <4>3. h[i] = g[i] /\ h[j] = g[j]
        BY <3>1, <4>1
      <4> QED
        BY <3>3, <4>1, <4>2, <4>3
    <3>4. CASE i # 1 /\ i = m + 1
      <4>1. m # 0 /\ i - 1 = m /\ m \in 1..m
        BY <3>4
      <4>2. h[i] = g[m] \o s[i] /\ h[m] = g[m]
        BY <3>1, <3>4, <4>1
      <4> QED
        BY <3>4, <4>1, <4>2
    <3> QED
      BY <3>2, <3>3, <3>4
  <2>3. h = [i \in 1..(m + 1) |-> Entry(i)]
    <3>1. h = [i \in 1..(m + 1) |-> h[i]]
      OBVIOUS
    <3> HIDE DEF h, Entry
    <3> QED
      BY <2>2, <3>1
  <2>4. Flattens(h, s, m + 1)
    <3> HIDE DEF h
    <3> QED
      BY <2>3 DEF Flattens
  <2> HIDE DEF h
  <2> QED
    BY <2>4
<1> HIDE DEF P
<1>3. \A m \in Nat : m \in S
  <2>1. 0 \in S /\ \A m \in Nat : m \in S => m + 1 \in S
    BY <1>1, <1>2
  <2> HIDE DEF S
  <2> QED
    BY <2>1, NatSetInduction
<1>4. P(n)
  BY <1>3
<1> QED
  BY <1>4 DEF P

LEMMA FlattenIsTable ==
  ASSUME NEW s, Len(s) \in Nat \ {0}
  PROVE  \E g : Flattens(g, s, Len(s)) /\ FlattenSeq(s) = g[Len(s)]
<1> DEFINE g == CHOOSE h : Flattens(h, s, Len(s))
<1>1. Flattens(g, s, Len(s))
  BY FlattensExists, Zenon
<1>2. FlattenSeq(s) = g[Len(s)]
  BY DEF FlattenSeq, Flattens
<1> HIDE DEF g
<1> QED
  BY <1>1, <1>2

(* The table of a longer sequence extends that of its prefix.              *)
LEMMA FlattensAgree ==
  ASSUME NEW g, NEW h, NEW s, NEW t, NEW n \in Nat,
         Flattens(g, s, n), Flattens(h, t, n + 1),
         \A i \in 1..n : s[i] = t[i]
  PROVE  \A i \in 1..n : g[i] = h[i]
<1>0. n + 1 \in Nat
  OBVIOUS
<1> DEFINE P(j) == j \in 1..n => g[j] = h[j]
           S == {j \in Nat : P(j)}
<1>1. P(0)
  OBVIOUS
<1>2. ASSUME NEW j \in Nat, P(j), j + 1 \in 1..n
      PROVE  g[j + 1] = h[j + 1]
  <2>1. s[j + 1] = t[j + 1]
    BY <1>0, <1>2
  <2>2. CASE j = 0
    <3>1. g[1] = s[1] /\ h[1] = t[1]
      <4>1. n # 0 /\ n + 1 # 0 /\ n + 1 \in Nat
        BY <1>0, <1>2
      <4>2. g[1] = s[1]
        BY <1>0, <4>1, FlattensSteps, ZenonT(60)
      <4>3. h[1] = t[1]
        BY <1>0, <4>1, FlattensSteps, ZenonT(60)
      <4> QED
        BY <4>2, <4>3
    <3> QED
      BY <2>1, <2>2, <3>1
  <2>3. CASE j # 0
    <3>1. j \in Nat \ {0} /\ j + 1 \in 1..n /\ j + 1 \in 1..(n + 1) /\ n + 1 \in Nat /\ j \in 1..n
      BY <1>0, <1>2, <2>3
    <3>2. g[j + 1] = g[j] \o s[j + 1] /\ h[j + 1] = h[j] \o t[j + 1]
      BY <1>0, <3>1, FlattensSteps, ZenonT(60)
    <3> QED
      BY <1>2, <2>1, <3>1, <3>2
  <2> QED
    BY <2>2, <2>3
<1> HIDE DEF P
<1>3. ASSUME NEW j \in Nat, P(j) PROVE P(j + 1)
  BY <1>0, <1>2, <1>3 DEF P
<1>4. \A j \in Nat : j \in S
  <2>1. 0 \in S /\ \A j \in Nat : j \in S => j + 1 \in S
    BY <1>1, <1>3
  <2> HIDE DEF S
  <2> QED
    BY <2>1, NatSetInduction
<1>5. \A j \in Nat : P(j)
  BY <1>4
<1> QED
  BY <1>0, <1>5 DEF P

LEMMA FlattensType ==
  ASSUME NEW Elem, NEW s \in Seq(Seq(Elem)), NEW g, Flattens(g, s, Len(s))
  PROVE  \A i \in 1..Len(s) : g[i] \in Seq(Elem)
<1> DEFINE P(j) == j \in 1..Len(s) => g[j] \in Seq(Elem)
           S == {j \in Nat : P(j)}
<1>1. P(0)
  OBVIOUS
<1>2. ASSUME NEW j \in Nat, P(j), j + 1 \in 1..Len(s)
      PROVE  g[j + 1] \in Seq(Elem)
  <2>1. s[j + 1] \in Seq(Elem) /\ Len(s) \in Nat
    BY <1>2
  <2>2. CASE j = 0
    <3>1. g[1] = s[1]
      <4>1. Len(s) # 0
        BY <1>2, <2>1
      <4> QED
        BY <2>1, <4>1, FlattensSteps
    <3> QED
      BY <2>1, <2>2, <3>1
  <2>3. CASE j # 0
    <3>1. j \in Nat \ {0} /\ j \in 1..Len(s)
      BY <1>2, <2>3
    <3>2. g[j + 1] = g[j] \o s[j + 1]
      BY <1>2, <2>1, <3>1, FlattensSteps
    <3> QED
      BY <1>2, <2>1, <3>1, <3>2
  <2> QED
    BY <2>2, <2>3
<1> HIDE DEF P
<1>3. ASSUME NEW j \in Nat, P(j) PROVE P(j + 1)
  BY <1>2, <1>3 DEF P
<1>4. \A j \in Nat : j \in S
  <2>1. 0 \in S /\ \A j \in Nat : j \in S => j + 1 \in S
    BY <1>1, <1>3
  <2> HIDE DEF S
  <2> QED
    BY <2>1, NatSetInduction
<1>5. \A j \in Nat : P(j)
  BY <1>4
<1> QED
  BY <1>5 DEF P

LEMMA FlattenEmpty == FlattenSeq(<<>>) = <<>>
BY DEF FlattenSeq

LEMMA FlattenType ==
  ASSUME NEW Elem, NEW s \in Seq(Seq(Elem))
  PROVE  FlattenSeq(s) \in Seq(Elem)
<1>1. CASE Len(s) = 0
  <2>1. s = <<>>
    BY <1>1
  <2>2. <<>> \in Seq(Elem)
    OBVIOUS
  <2> QED
    BY <2>1, <2>2, FlattenEmpty
<1>2. CASE Len(s) # 0
  <2>1. PICK g : Flattens(g, s, Len(s)) /\ FlattenSeq(s) = g[Len(s)]
    BY <1>2, FlattenIsTable
  <2> QED
    BY <1>2, <2>1, FlattensType
<1> QED
  BY <1>1, <1>2

LEMMA FlattenLonger ==
  ASSUME NEW s, NEW t, NEW n \in Nat,
         Len(s) = n, Len(t) = n + 1, \A i \in 1..n : s[i] = t[i]
  PROVE  /\ n = 0 => FlattenSeq(t) = t[1]
         /\ n # 0 => FlattenSeq(t) = FlattenSeq(s) \o t[n + 1]
<1>1. n + 1 \in Nat /\ n + 1 # 0
  OBVIOUS
<1>2. PICK h : Flattens(h, t, n + 1) /\ FlattenSeq(t) = h[n + 1]
  BY <1>1, FlattenIsTable
<1>3. CASE n = 0
  <2>1. h[1] = t[1]
    BY <1>1, <1>2, FlattensSteps
  <2> QED
    BY <1>2, <1>3, <2>1
<1>4. CASE n # 0
  <2>1. PICK g : Flattens(g, s, n) /\ FlattenSeq(s) = g[n]
    BY <1>4, FlattenIsTable
  <2>2. h[n + 1] = h[n] \o t[n + 1]
    <3>1. n \in Nat \ {0}
      BY <1>4
    <3> QED
      BY <1>2, <3>1, FlattensLast
  <2>3. \A i \in 1..n : g[i] = h[i]
    BY <1>2, <2>1, FlattensAgree
  <2>4. h[n] = g[n]
    BY <1>4, <2>3
  <2> QED
    BY <1>2, <1>4, <2>1, <2>2, <2>4
<1> QED
  BY <1>3, <1>4

LEMMA FlattenAppend ==
  ASSUME NEW Elem, NEW s \in Seq(Seq(Elem)), NEW x \in Seq(Elem)
  PROVE  FlattenSeq(Append(s, x)) = FlattenSeq(s) \o x
<1> DEFINE n == Len(s)
           t == Append(s, x)
<1>1. /\ n \in Nat
      /\ Len(t) = n + 1
      /\ t[n + 1] = x
      /\ \A i \in 1..n : s[i] = t[i]
  OBVIOUS
<1>2. /\ n = 0 => FlattenSeq(t) = t[1]
      /\ n # 0 => FlattenSeq(t) = FlattenSeq(s) \o t[n + 1]
  <2>1. n = Len(s)
    OBVIOUS
  <2> HIDE DEF n, t
  <2> QED
    BY <1>1, <2>1, FlattenLonger, ZenonT(60)
<1>3. CASE n = 0
  <2>1. s = <<>>
    BY <1>3
  <2>2. <<>> \o x = x
    OBVIOUS
  <2>3. FlattenSeq(t) = x
    BY <1>1, <1>2, <1>3
  <2> HIDE DEF t
  <2>4. FlattenSeq(t) = FlattenSeq(s) \o x
    BY <2>1, <2>2, <2>3, FlattenEmpty
  <2> QED
    BY <2>4 DEF t
<1>4. CASE n # 0
  BY <1>1, <1>2, <1>4
<1> QED
  BY <1>3, <1>4

LEMMA FlattenOne ==
  ASSUME NEW Elem, NEW x \in Seq(Elem)
  PROVE  FlattenSeq(<<x>>) = x
<1>1. Append(<<>>, x) = <<x>> /\ <<>> \in Seq(Seq(Elem)) /\ <<>> \o x = x
  OBVIOUS
<1> QED
  BY <1>1, FlattenAppend, FlattenEmpty

(* FlattenSeq turns concatenation into concatenation.                      *)
LEMMA FlattenConcat ==
  ASSUME NEW Elem, NEW s \in Seq(Seq(Elem)), NEW t \in Seq(Seq(Elem))
  PROVE  FlattenSeq(s \o t) = FlattenSeq(s) \o FlattenSeq(t)
<1> DEFINE P(u) == FlattenSeq(s \o u) = FlattenSeq(s) \o FlattenSeq(u)
           S == {n \in Nat : \A u \in Seq(Seq(Elem)) : Len(u) = n => P(u)}
<1>1. 0 \in S
  <2> SUFFICES ASSUME NEW u \in Seq(Seq(Elem)), Len(u) = 0 PROVE P(u)
    OBVIOUS
  <2>1. u = <<>> /\ s \o u = s
    OBVIOUS
  <2>2. FlattenSeq(s) \o <<>> = FlattenSeq(s)
    BY FlattenType
  <2> QED
    BY <2>1, <2>2, FlattenEmpty
<1>2. ASSUME NEW n \in S PROVE n + 1 \in S
  <2> SUFFICES ASSUME NEW u \in Seq(Seq(Elem)), Len(u) = n + 1 PROVE P(u)
    OBVIOUS
  <2> DEFINE v == SubSeq(u, 1, n)
             x == u[n + 1]
  <2>1. v \in Seq(Seq(Elem)) /\ Len(v) = n /\ x \in Seq(Elem) /\ u = Append(v, x)
    OBVIOUS
  <2> HIDE DEF v, x
  <2>2. P(v)
    BY <2>1
  <2>3. s \o u = Append(s \o v, x) /\ s \o v \in Seq(Seq(Elem))
    BY <2>1
  <2>4. FlattenSeq(s \o u) = FlattenSeq(s \o v) \o x
    BY <2>1, <2>3, FlattenAppend
  <2>5. FlattenSeq(u) = FlattenSeq(v) \o x
    BY <2>1, FlattenAppend
  <2>6. /\ FlattenSeq(s) \in Seq(Elem)
        /\ FlattenSeq(v) \in Seq(Elem)
    BY <2>1, FlattenType
  <2>7. (FlattenSeq(s) \o FlattenSeq(v)) \o x = FlattenSeq(s) \o (FlattenSeq(v) \o x)
    BY <2>1, <2>6, SMTT(30)
  <2> QED
    BY <2>2, <2>4, <2>5, <2>7
<1> HIDE DEF P
<1>3. S = Nat
  <2>1. S \in SUBSET Nat
    OBVIOUS
  <2> HIDE DEF S
  <2> QED
    BY <1>1, <1>2, <2>1, NatSetInduction
<1>4. P(t)
  BY <1>3
<1> QED
  BY <1>4 DEF P

LEMMA FlattenHead ==
  ASSUME NEW Elem, NEW x \in Seq(Elem), NEW t \in Seq(Seq(Elem))
  PROVE  FlattenSeq(<<x>> \o t) = x \o FlattenSeq(t)
<1>1. <<x>> \in Seq(Seq(Elem))
  OBVIOUS
<1>2. FlattenSeq(<<x>> \o t) = FlattenSeq(<<x>>) \o FlattenSeq(t)
  BY <1>1, FlattenConcat
<1> QED
  BY <1>2, FlattenOne
=============================================================================
