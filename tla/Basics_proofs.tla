---------------------------- MODULE Basics_proofs ----------------------------
(***************************************************************************)
(* Facts about sequences and numbers that the proofs about the components  *)
(* share.                                                                  *)
(***************************************************************************)
EXTENDS Integers, Sequences, TLAPS, WellFoundedInduction

LEMMA SeqElements ==
    ASSUME NEW S, NEW s \in Seq(S)
    PROVE  DOMAIN s \subseteq Nat /\ \A n \in DOMAIN s : s[n] \in S
OBVIOUS

LEMMA SeqDomain ==
    ASSUME NEW S, NEW s \in Seq(S)
    PROVE  /\ DOMAIN s = 1 .. Len(s) /\ Len(s) \in Nat
           /\ \A n \in DOMAIN s : s[n] \in S
OBVIOUS

\* What is put behind a sequence becomes its last element.
LEMMA AppendTo ==
    ASSUME NEW n \in Nat, NEW s, s = [i \in 1 .. n |-> s[i]], NEW e
    PROVE  Append(s, e) = [i \in 1 .. n + 1 |-> IF i <= n THEN s[i] ELSE e]
<1> DEFINE S == {s[i] : i \in 1 .. n} \cup {e}
<1>1. s \in [1 .. n -> S]
  OBVIOUS
<1>2. e \in S
  OBVIOUS
<1> HIDE DEF S
<1>3. s \in Seq(S) /\ Len(s) = n
  BY <1>1
<1> QED
  BY <1>1, <1>2, <1>3

\* A set of numbers that is not empty has a least one.
LEMMA LeastNat ==
    ASSUME NEW T, T \subseteq Nat, T # {}
    PROVE  \E x \in T : \A y \in T : x <= y
<1> DEFINE R == OpToRel(<, Nat)
<1>1. PICK x \in T : \A y \in T : ~ (<<y, x>> \in R)
  BY WFMin, NatLessThanWellFounded
<1>2. ASSUME NEW y \in T PROVE ~ (y < x)
  <2>1. ASSUME y < x PROVE <<y, x>> \in R
    BY <2>1 DEF OpToRel
  <2> HIDE DEF R
  <2> QED
    BY <1>1, <2>1
<1>3. \A y \in T : x <= y
  BY <1>2
<1> QED
  BY <1>3

\* One that is bounded has a greatest one.
LEMMA GreatestInt ==
    ASSUME NEW T, T \subseteq Int, T # {}, NEW top \in Int, \A y \in T : y <= top
    PROVE  \E x \in T : \A y \in T : y <= x
<1> DEFINE below == {top - y : y \in T}
<1>1. below \subseteq Nat /\ below # {}
  OBVIOUS
<1>2. PICK d \in below : \A e \in below : d <= e
  <2> HIDE DEF below
  <2> QED
    BY <1>1, LeastNat
<1>3. PICK x \in T : d = top - x
  OBVIOUS
<1>4. ASSUME NEW y \in T PROVE y <= x
  <2>1. d <= top - y
    BY <1>2
  <2> QED
    BY <1>3, <2>1
<1> QED
  BY <1>4

LEMMA NextMultiple ==
    ASSUME NEW a \in Int, NEW b \in Int, NEW n \in Int
    PROVE  (a + 1 - b) * n = (a - b) * n + n
OBVIOUS

\* Dividing what was put together gives the parts back.
LEMMA DivMod ==
    ASSUME NEW q \in Nat, NEW r \in Nat, NEW n \in Nat \ {0}, r < n
    PROVE  (q * n + r) \div n = q /\ (q * n + r) % n = r
OBVIOUS

LEMMA SmallMod ==
    ASSUME NEW n \in Nat \ {0}, NEW a \in 0 .. n - 1
    PROVE  a % n = a
OBVIOUS

\* The multiples of a number lie that number apart.
LEMMA MultiplesApart ==
    ASSUME NEW n \in Nat \ {0}, NEW a \in Nat, NEW b \in Nat, n * a < n * b
    PROVE  n * a + n <= n * b
<1>1. a < b
  <2>1. CASE b <= a
    <3>1. PICK d \in Nat : a = b + d
      BY <2>1, a - b \in Nat
    <3>2. n * a = n * b + n * d /\ n * d >= 0
      BY <3>1
    <3> QED
      BY <3>2
  <2> QED
    BY <2>1
<1>2. PICK d \in Nat : b = a + 1 + d
  BY <1>1, b - a - 1 \in Nat
<1>3. n * b = n * a + n + n * d /\ n * d \in Nat /\ n * a \in Nat /\ n * b \in Nat
  BY <1>2
<1> QED
  BY <1>3

\* Every number lies in one step of the multiples of another.
LEMMA MultipleBelow ==
    ASSUME NEW n \in Nat \ {0}, NEW s \in Nat
    PROVE  \E q \in Nat : n * q <= s /\ s < n * q + n
<1> DEFINE T == {q \in Nat : n * q <= s}
<1>1. 0 \in T
  OBVIOUS
<1>2. \A q \in T : q <= s
  <2> SUFFICES ASSUME NEW q \in Nat, n * q <= s PROVE q <= s
    OBVIOUS
  <2>1. PICK m \in Nat : n = m + 1
    BY n - 1 \in Nat
  <2>2. n * q = m * q + q /\ m * q \in Nat
    BY <2>1
  <2> QED
    BY <2>2
<1>3. PICK q \in T : \A p \in T : p <= q
  <2> HIDE DEF T
  <2>1. T \subseteq Int
    BY DEF T
  <2>2. T # {} /\ s \in Int
    BY <1>1
  <2> QED
    BY <1>1, <1>2, <2>1, <2>2, GreatestInt
<1>4. q \in Nat /\ n * q <= s /\ n * q \in Nat
  OBVIOUS
<1>5. s < n * q + n
  <2>1. n * (q + 1) = n * q + n
    BY <1>4
  <2>2. q + 1 \notin T
    BY <1>3, <1>4
  <2> QED
    BY <1>4, <2>1, <2>2
<1> QED
  BY <1>4, <1>5

LEMMA WholeMultiple ==
    ASSUME NEW n \in Nat \ {0}, NEW s \in Nat, s % n = 0
    PROVE  \E q \in Nat : s = n * q
<1>1. PICK q \in Nat : n * q <= s /\ s < n * q + n
  BY MultipleBelow
<1>2. PICK r \in Nat : s = n * q + r /\ r < n
  <2>1. n * q \in Nat
    OBVIOUS
  <2> QED
    BY <1>1, <2>1, s - n * q \in Nat
<1>3. (q * n + r) % n = r
  BY <1>2, DivMod
<1>4. s = q * n + r /\ n * q = q * n
  BY <1>2
<1>5. r = 0
  BY <1>3, <1>4
<1> QED
  BY <1>2, <1>5

\* Induction up to a number, over a set.
LEMMA InductionUpTo ==
    ASSUME NEW n \in Nat, NEW S, 0 \in S, \A k \in 1 .. n : k - 1 \in S => k \in S
    PROVE  0 .. n \subseteq S
<1> DEFINE Missing == {k \in 0 .. n : k \notin S}
<1>1. Missing = {}
  <2> SUFFICES ASSUME Missing # {} PROVE FALSE
    OBVIOUS
  <2>1. PICK m \in Missing : \A y \in Missing : m <= y
    <3>1. Missing \subseteq Nat /\ Missing # {}
      OBVIOUS
    <3> HIDE DEF Missing
    <3> QED
      BY <3>1, LeastNat
  <2>2. m \in 1 .. n /\ m - 1 \in 0 .. n
    BY <2>1
  <2> QED
    BY <2>1, <2>2
<1> QED
  BY <1>1

\* A function can be defined by recursion on its argument.
LEMMA Recursion ==
    ASSUME NEW n \in Nat, NEW step \in [1 .. n -> [Nat -> Nat]]
    PROVE  \E f \in [0 .. n -> Nat] :
             f[0] = 0 /\ \A k \in 1 .. n : f[k] = step[k][f[k - 1]]
<1> DEFINE Starts(f, m) ==
             /\ f \in [0 .. m -> Nat]
             /\ f[0] = 0
             /\ \A k \in 1 .. m : f[k] = step[k][f[k - 1]]
           Reached == {m \in 0 .. n : \E f : Starts(f, m)}
<1>1. 0 .. n \subseteq Reached
  <2>1. 0 \in Reached
    <3>1. PICK f : f = [k \in 0 .. 0 |-> 0]
      OBVIOUS
    <3>2. f \in [0 .. 0 -> Nat] /\ f[0] = 0 /\ 1 .. 0 = {}
      BY <3>1
    <3>3. Starts(f, 0)
      BY <3>2
    <3>4. 0 \in 0 .. n
      OBVIOUS
    <3> QED
      BY <3>3, <3>4
  <2>2. ASSUME NEW m \in 1 .. n, m - 1 \in Reached PROVE m \in Reached
    <3>1. PICK f : Starts(f, m - 1)
      BY <2>2
    <3>2. PICK x : x = step[m][f[m - 1]]
      OBVIOUS
    <3>3. f[m - 1] \in Nat /\ m \in Nat
      BY <2>2, <3>1
    <3>4. x \in Nat
      <4>1. step[m] \in [Nat -> Nat]
        OBVIOUS
      <4> QED
        BY <3>2, <3>3, <4>1
    <3>5. PICK g : g = [k \in 0 .. m |-> IF k < m THEN f[k] ELSE x]
      OBVIOUS
    <3>6. \A k \in 0 .. m : g[k] \in Nat
      <4>1. \A k \in 0 .. m : k < m => k \in 0 .. m - 1
        BY <3>3
      <4>2. \A k \in 0 .. m : k < m => f[k] \in Nat
        BY <3>1, <4>1
      <4> QED
        BY <3>4, <3>5, <4>2
    <3>7. g[0] = 0
      BY <2>2, <3>1, <3>5
    <3>8. ASSUME NEW k \in 1 .. m PROVE g[k] = step[k][g[k - 1]]
      <4>1. g[k - 1] = f[k - 1]
        BY <3>3, <3>5, <3>8
      <4>2. CASE k = m
        BY <3>2, <3>3, <3>5, <4>1, <4>2
      <4>3. CASE k # m
        <5>1. k \in 1 .. m - 1 /\ k < m /\ k \in 0 .. m
          BY <3>3, <3>8, <4>3
        <5>2. f[k] = step[k][f[k - 1]]
          BY <3>1, <5>1
        <5> QED
          BY <3>5, <4>1, <5>1, <5>2
      <4> QED
        BY <4>2, <4>3
    <3>9. Starts(g, m)
      BY <3>5, <3>6, <3>7, <3>8
    <3>10. m \in 0 .. n
      OBVIOUS
    <3> HIDE DEF Starts
    <3> QED
      BY <3>9, <3>10
  <2> HIDE DEF Reached
  <2> QED
    BY <2>1, <2>2, InductionUpTo
<1>2. n \in Reached
  <2> HIDE DEF Reached
  <2> QED
    BY <1>1
<1> QED
  BY <1>2

=============================================================================
