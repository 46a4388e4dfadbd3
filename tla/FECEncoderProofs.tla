-------------------------- MODULE FECEncoderProofs --------------------------
(***************************************************************************)
(* What the encoder sends of a frame, for every block size, overhead and    *)
(* number of fragments: nothing of the frame is lost, the blocks are as few *)
(* and as equal as they can be, and their headers are the ones the decoder  *)
(* relies on.                                                               *)
(*                                                                         *)
(* Both ways to split, the frame into blocks and the bytes into fragments,  *)
(* deal equal shares with the remainder to the first ones; the first        *)
(* sections prove that of the two loops.  The rest is about the sequence    *)
(* sent: where the fragments of a block are in it.                          *)
(***************************************************************************)
EXTENDS FECEncoder, FiniteSetTheorems, WellFoundedInduction, TLAPS

-----------------------------------------------------------------------------
(* Arithmetic *)

\* Induction over the natural numbers, by least counterexample.
LEMMA LeastNatural ==
  ASSUME NEW T, T \subseteq Nat, T # {}
  PROVE  \E m \in T : \A n \in T : m <= n
<1>1. PICK m \in T : \A n \in T : ~(<<n, m>> \in OpToRel(<, Nat))
  BY WFMin, NatLessThanWellFounded
<1>2. \A n \in T : ~(n < m)
  BY <1>1 DEF OpToRel
<1> QED
  BY <1>2

\* Quotient and remainder of a division.
LEMMA Division ==
  ASSUME NEW m \in Nat \ {0}, NEW x \in Int
  PROVE  /\ x % m \in 0..(m - 1)
         /\ x = m * (x \div m) + (x % m)
         /\ x \div m \in Int
OBVIOUS

\* No multiple of m but zero is a difference of remainders.
LEMMA RemaindersClose ==
  ASSUME NEW m \in Nat \ {0}, NEW q \in Int, NEW a \in 0..(m - 1), NEW b \in 0..(m - 1),
         m * q = a - b
  PROVE  q = 0 /\ a = b
<1>1. ASSUME q >= 1 PROVE FALSE
  <2>1. m * q >= m
    BY <1>1
  <2> QED
    BY <2>1
<1>2. ASSUME q <= -1 PROVE FALSE
  <2>1. m * q <= -m
    BY <1>2
  <2> QED
    BY <2>1
<1>3. q = 0
  BY <1>1, <1>2
<1>4. m * q = 0
  BY <1>3
<1> QED
  BY <1>3, <1>4

\* There is only one quotient and one remainder.
LEMMA DivisionUnique ==
  ASSUME NEW m \in Nat \ {0}, NEW q \in Int, NEW r \in 0..(m - 1)
  PROVE  (m * q + r) % m = r /\ (m * q + r) \div m = q
<1> DEFINE x == m * q + r
           w == x % m
           d == x \div m
           z == q - d
<1>1. x \in Int
  OBVIOUS
<1> HIDE DEF x
<1>2. w \in 0..(m - 1) /\ x = m * d + w /\ d \in Int
  BY <1>1, Division
<1> HIDE DEF w, d
<1>3. z \in Int /\ m * z = w - r
  <2>1. m * (q - d) = w - r
    BY <1>2 DEF x
  <2> QED
    BY <1>2, <2>1
<1>4. z = 0 /\ w = r
  <2> HIDE DEF z
  <2> QED
    BY <1>2, <1>3, RemaindersClose
<1>5. d = q
  BY <1>2, <1>4
<1> QED
  BY <1>4, <1>5 DEF w, d, x

\* div_ceil (BlockSizeHelper.hpp:15-18) rounds up.
LEMMA DivCeilBounds ==
  ASSUME NEW a \in Nat \ {0}, NEW b \in Nat \ {0}
  PROVE  /\ DivCeil(a, b) \in Nat \ {0}
         /\ a <= b * DivCeil(a, b)
         /\ (DivCeil(a, b) - 1) * b < a
         /\ DivCeil(a, b) <= a
<1> DEFINE q == a \div b
           r == a % b
           c == DivCeil(a, b)
<1>1. r \in 0..(b - 1) /\ a = b * q + r /\ q \in Int
  BY Division
<1>2. c = IF r = 0 THEN q ELSE q + 1
  BY DEF DivCeil
<1> HIDE DEF q, r, c
<1>3. q >= 0
  <2>1. ASSUME q <= -1 PROVE FALSE
    <3>1. b * q <= -b
      BY <1>1, <2>1
    <3> QED
      BY <1>1, <3>1
  <2> QED
    BY <1>1, <2>1
<1>4. CASE r = 0
  <2>1. c = q /\ a = b * q
    BY <1>1, <1>2, <1>4
  <2>2. q # 0
    BY <2>1, <1>1
  <2>3. (q - 1) * b = b * q - b
    BY <1>1
  <2>4. q <= b * q
    BY <1>1, <1>3
  <2> QED
    BY <1>1, <1>3, <2>1, <2>2, <2>3, <2>4 DEF c
<1>5. CASE r # 0
  <2>1. c = q + 1
    BY <1>2, <1>5
  <2>2. b * (q + 1) = b * q + b /\ ((q + 1) - 1) * b = b * q
    BY <1>1
  <2>3. q <= b * q
    BY <1>1, <1>3
  <2> QED
    BY <1>1, <1>3, <1>5, <2>1, <2>2, <2>3 DEF c
<1> QED
  BY <1>4, <1>5

\* The smaller of two numbers.
LEMMA PairMin ==
  ASSUME NEW a \in Int, NEW b \in Int, b <= a
  PROVE  Min({a, b}) = b
<1>1. Min({a, b}) \in {a, b} /\ \A y \in {a, b} : Min({a, b}) <= y
  <2>1. \E x \in {a, b} : \A y \in {a, b} : x <= y
    OBVIOUS
  <2> QED
    BY <2>1 DEF Min
<1> QED
  BY <1>1

-----------------------------------------------------------------------------
(* Dealing q and a remainder of r: the first r shares are one larger *)

Hand(q, r, i) == q + (IF i <= r THEN 1 ELSE 0)

Dealt(q, r, i) == i * q + (IF i <= r THEN i ELSE r)

DealtOut(n, q, r) == [i \in 1..n |-> (Dealt(q, r, i - 1) + 1)..Dealt(q, r, i)]

\* What has been dealt after the i-th share.
LEMMA DealtStep ==
  ASSUME NEW q \in Nat, NEW r \in Nat, NEW i \in Nat \ {0}
  PROVE  /\ Dealt(q, r, i) \in Nat /\ Dealt(q, r, i - 1) \in Nat /\ Hand(q, r, i) \in Nat
         /\ Dealt(q, r, i) = Dealt(q, r, i - 1) + Hand(q, r, i)
         /\ Dealt(q, r, 0) = 0
<1>1. i * q = (i - 1) * q + q /\ i * q \in Nat /\ (i - 1) * q \in Nat /\ 0 * q = 0
  OBVIOUS
<1>2. CASE i <= r
  BY <1>1, <1>2 DEF Dealt, Hand
<1>3. CASE ~(i <= r) /\ i - 1 <= r
  <2>1. i - 1 = r
    BY <1>3
  <2> QED
    BY <1>1, <1>3, <2>1 DEF Dealt, Hand
<1>4. CASE ~(i - 1 <= r)
  BY <1>1, <1>4 DEF Dealt, Hand
<1> QED
  BY <1>2, <1>3, <1>4

\* All of it is dealt in the end.
LEMMA DealtAll ==
  ASSUME NEW q \in Nat, NEW n \in Nat \ {0}, NEW r \in 0..(n - 1)
  PROVE  Dealt(q, r, n) = n * q + r
BY DEF Dealt

\* The next share, rounded up, of what remains for the shares that are left
\* (FECEncoder.cpp:44-49).
LEMMA ShareDealt ==
  ASSUME NEW q \in Nat \ {0}, NEW n \in Nat \ {0}, NEW r \in 0..(n - 1), NEW i \in 1..n,
         NEW size, size = n * q + r
  PROVE  Share(size - Dealt(q, r, i - 1), n - i + 1) = Hand(q, r, i)
<1> DEFINE l == n - i + 1
           z == IF i - 1 <= r THEN r - (i - 1) ELSE 0
           rest == l * q + z
           c == DivCeil(rest, l)
<1>1. l \in Nat \ {0} /\ z \in 0..(l - 1)
  <2>1. l \in Nat \ {0}
    OBVIOUS
  <2>2. CASE i - 1 <= r
    BY <2>1, <2>2
  <2>3. CASE ~(i - 1 <= r)
    BY <2>1, <2>3
  <2> QED
    BY <2>1, <2>2, <2>3
<1>2. size - Dealt(q, r, i - 1) = rest
  <2>1. n * q - (i - 1) * q = l * q /\ n * q \in Nat /\ (i - 1) * q \in Nat
    OBVIOUS
  <2>2. CASE i - 1 <= r
    BY <2>1, <2>2 DEF Dealt
  <2>3. CASE ~(i - 1 <= r)
    BY <2>1, <2>3 DEF Dealt
  <2> QED
    BY <2>2, <2>3
<1>3. z # 0 <=> i <= r
  OBVIOUS
<1> HIDE DEF l, z
<1>4. rest % l = z /\ rest \div l = q
  BY <1>1, DivisionUnique
<1>5. c = Hand(q, r, i)
  BY <1>3, <1>4 DEF DivCeil, Hand
<1>6. c \in Nat /\ rest \in Nat /\ c <= rest
  <2>1. l * q \in Nat /\ q <= l * q /\ z \in Nat
    BY <1>1
  <2>2. CASE z = 0
    BY <1>3, <1>5, <2>1, <2>2 DEF Hand
  <2>3. CASE z # 0
    BY <1>3, <1>5, <2>1, <2>3 DEF Hand
  <2> QED
    BY <2>2, <2>3
<1> HIDE DEF rest, c
<1>7. Min({rest, c}) = c
  BY <1>6, PairMin
<1> QED
  BY <1>2, <1>5, <1>7 DEF Share, c, l

LEMMA NextDealt ==
  ASSUME NEW q \in Nat \ {0}, NEW n \in Nat \ {0}, NEW r \in 0..(n - 1), NEW i \in 1..n,
         NEW size, size = n * q + r, NEW c, c = Dealt(q, r, i - 1)
  PROVE  c + Share(size - c, n - i + 1) = Dealt(q, r, i)
<1>1. i \in Nat \ {0} /\ r \in Nat /\ q \in Nat
  OBVIOUS
<1>2. Dealt(q, r, i) = Dealt(q, r, i - 1) + Hand(q, r, i)
  BY <1>1, DealtStep
<1>3. Share(size - Dealt(q, r, i - 1), n - i + 1) = Hand(q, r, i)
  BY ShareDealt
<1> QED
  BY <1>2, <1>3

\* The loop that distributes a frame deals: no fragment is left empty and the
\* last one is not too large (FECEncoder.cpp:41-61).
ConsumedTo(size, n, f) ==
  f = [i \in 0..n |-> IF i = 0 THEN 0 ELSE f[i - 1] + Share(size - f[i - 1], n - i + 1)]

LEMMA ConsumedDealt ==
  ASSUME NEW q \in Nat \ {0}, NEW n \in Nat \ {0}, NEW r \in 0..(n - 1),
         NEW size, size = n * q + r, NEW f, ConsumedTo(size, n, f), NEW k \in 0..n
  PROVE  f[k] = Dealt(q, r, k)
<1> DEFINE Bad == {i \in 0..n : f[i] # Dealt(q, r, i)}
<1>1. SUFFICES ASSUME Bad # {} PROVE FALSE
  BY <1>1
<1>2. PICK i \in Bad : \A x \in Bad : i <= x
  <2>1. Bad \subseteq Nat
    OBVIOUS
  <2> HIDE DEF Bad
  <2> QED
    BY <2>1, <1>1, LeastNatural
<1>3. i \in 0..n /\ f[i] # Dealt(q, r, i)
  BY <1>2
<1>4. f[i] = IF i = 0 THEN 0 ELSE f[i - 1] + Share(size - f[i - 1], n - i + 1)
  BY <1>3 DEF ConsumedTo
<1>5. i # 0
  BY <1>3, <1>4, DealtStep, 1 \in Nat \ {0}, r \in Nat, q \in Nat
<1>6. i \in 1..n /\ i - 1 \in 0..n /\ ~(i <= i - 1) /\ i \in Nat \ {0} /\ r \in Nat /\ q \in Nat
  BY <1>3, <1>5
<1>7. f[i - 1] = Dealt(q, r, i - 1)
  BY <1>2, <1>6
<1> HIDE DEF Bad
<1>8. f[i - 1] + Share(size - f[i - 1], n - i + 1) = Dealt(q, r, i)
  <2> DEFINE c == f[i - 1]
  <2>1. i \in 1..n /\ c = Dealt(q, r, i - 1)
    BY <1>6, <1>7
  <2> HIDE DEF c
  <2>2. c + Share(size - c, n - i + 1) = Dealt(q, r, i)
    BY <2>1, NextDealt, SMTT(20)
  <2> QED
    BY <2>2 DEF c
<1> QED
  BY <1>3, <1>4, <1>5, <1>8

LEMMA DealtConsumes ==
  ASSUME NEW q \in Nat \ {0}, NEW n \in Nat \ {0}, NEW r \in 0..(n - 1),
         NEW size, size = n * q + r
  PROVE  ConsumedTo(size, n, [i \in 0..n |-> Dealt(q, r, i)])
<1> DEFINE F == [i \in 0..n |-> Dealt(q, r, i)]
<1>1. ASSUME NEW i \in 0..n
      PROVE  Dealt(q, r, i) = IF i = 0 THEN 0 ELSE F[i - 1] + Share(size - F[i - 1], n - i + 1)
  <2>1. q \in Nat /\ r \in Nat /\ 1 \in Nat \ {0}
    OBVIOUS
  <2>2. CASE i = 0
    BY <2>1, <2>2, DealtStep
  <2>3. CASE i # 0
    <3>1. i \in 1..n /\ i - 1 \in 0..n /\ i \in Nat \ {0}
      BY <2>3
    <3>2. F[i - 1] = Dealt(q, r, i - 1)
      BY <3>1
    <3> HIDE DEF F
    <3>3. F[i - 1] + Share(size - F[i - 1], n - i + 1) = Dealt(q, r, i)
      <4> DEFINE c == F[i - 1]
      <4>1. i \in 1..n /\ c = Dealt(q, r, i - 1)
        BY <3>1, <3>2
      <4> HIDE DEF c
      <4>2. c + Share(size - c, n - i + 1) = Dealt(q, r, i)
        BY <4>1, NextDealt
      <4> QED
        BY <4>2 DEF c
    <3> QED
      BY <2>3, <3>3
  <2> QED
    BY <2>2, <2>3
<1>2. F = [i \in 0..n |-> IF i = 0 THEN 0 ELSE F[i - 1] + Share(size - F[i - 1], n - i + 1)]
  <2>1. F = [i \in 0..n |-> Dealt(q, r, i)]
    OBVIOUS
  <2> HIDE DEF F
  <2> QED
    BY <1>1, <2>1
<1> HIDE DEF F
<1>3. ConsumedTo(size, n, F)
  BY <1>2 DEF ConsumedTo
<1> QED
  BY <1>3 DEF F

LEMMA DistributedDealt ==
  ASSUME NEW q \in Nat \ {0}, NEW n \in Nat \ {0}, NEW r \in 0..(n - 1),
         NEW size, size = n * q + r
  PROVE  Distributed(size, n) = DealtOut(n, q, r)
<1> DEFINE f == CHOOSE g : ConsumedTo(size, n, g)
           last == Min({i \in 0..n : f[i] = size \/ i = n})
<1>1. ConsumedTo(size, n, f)
  BY DealtConsumes
<1>2. Distributed(size, n) = [i \in 1..last |-> (f[i - 1] + 1)..f[i]]
  BY DEF Distributed, ConsumedTo, Consume
<1> HIDE DEF f
<1>3. \A k \in 0..n : f[k] = Dealt(q, r, k)
  BY <1>1, ConsumedDealt
<1>4. last = n
  <2>1. ASSUME NEW i \in 0..n, i # n PROVE Dealt(q, r, i) # size
    <3>1. i + 1 \in Nat /\ n - i \in Nat \ {0} /\ i \in Nat /\ r \in Nat
      BY <2>1
    <3>2. n * q = i * q + (n - i) * q /\ i * q \in Nat
      BY <3>1
    <3>3. (n - i) * q >= n - i
      BY <3>1
    <3>4. n * q >= i * q + (n - i) /\ n * q \in Nat
      BY <3>1, <3>2, <3>3
    <3>5. CASE i <= r
      BY <3>1, <3>4, <3>5 DEF Dealt
    <3>6. CASE ~(i <= r)
      BY <3>1, <3>4, <3>6 DEF Dealt
    <3> QED
      BY <3>5, <3>6
  <2>2. {i \in 0..n : f[i] = size \/ i = n} = {n, n}
    BY <1>3, <2>1
  <2>3. Min({n, n}) = n
    BY PairMin
  <2> QED
    BY <2>2, <2>3
<1> HIDE DEF last
<1>5. \A i \in 1..n : i \in 0..n /\ i - 1 \in 0..n
  OBVIOUS
<1> QED
  BY <1>2, <1>3, <1>4, <1>5 DEF DealtOut

-----------------------------------------------------------------------------
(* The sizes of the blocks of a frame *)

\* Numbers below n with the same remainder, counted by their quotients.
LEMMA ResidueCount ==
  ASSUME NEW q \in Nat, NEW m \in Nat \ {0}, NEW r \in 0..(m - 1), NEW i \in 1..m
  PROVE  Cardinality({f \in 0..(m * q + r) - 1 : f % m = i - 1}) = Hand(q, r, i)
<1> DEFINE n == m * q + r
           c == Hand(q, r, i)
           S == {f \in 0..n - 1 : f % m = i - 1}
           g == [k \in 0..(c - 1) |-> m * k + (i - 1)]
<1>1. n \in Nat /\ c \in Nat /\ i - 1 \in 0..(m - 1)
  BY DEF Hand
<1>2. \A k \in Nat : m * k + (i - 1) < n <=> k < c
  <2> SUFFICES ASSUME NEW k \in Nat PROVE m * k + (i - 1) < n <=> k < c
    OBVIOUS
  <2>1. m * k \in Nat /\ m * q \in Nat
    OBVIOUS
  <2>2. CASE k < q
    <3>1. q - k >= 1 /\ q - k \in Int
      BY <2>2
    <3>2. m * (q - k) >= m /\ m * (q - k) = m * q - m * k
      BY <3>1
    <3> QED
      BY <2>1, <2>2, <3>2 DEF Hand
  <2>3. CASE k = q
    BY <2>1, <2>3 DEF Hand
  <2>4. CASE k > q
    <3>1. k - q >= 1 /\ k - q \in Int
      BY <2>4
    <3>2. m * (k - q) >= m /\ m * (k - q) = m * k - m * q
      BY <3>1
    <3> QED
      BY <2>1, <2>4, <3>2 DEF Hand
  <2> QED
    BY <2>2, <2>3, <2>4
<1> HIDE DEF n, c
<1>3. \A k \in 0..(c - 1) : m * k + (i - 1) \in S
  <2> SUFFICES ASSUME NEW k \in 0..(c - 1) PROVE m * k + (i - 1) \in S
    OBVIOUS
  <2>1. k \in Nat /\ k < c /\ m * k \in Nat
    BY <1>1
  <2>2. m * k + (i - 1) < n
    BY <1>2, <2>1
  <2>3. (m * k + (i - 1)) % m = i - 1
    BY <1>1, <2>1, DivisionUnique
  <2> QED
    BY <1>1, <2>1, <2>2, <2>3
<1>4. ASSUME NEW f \in S PROVE \E k \in 0..(c - 1) : m * k + (i - 1) = f
  <2> DEFINE k == f \div m
  <2>1. f \in Nat /\ f < n /\ f % m = i - 1
    BY <1>1
  <2>2. f = m * k + (i - 1) /\ k \in Int
    BY <2>1, Division
  <2> HIDE DEF k
  <2>3. k >= 0
    <3>1. ASSUME k <= -1 PROVE FALSE
      <4>1. m * k <= -m
        BY <2>2, <3>1
      <4> QED
        BY <2>1, <2>2, <4>1
    <3> QED
      BY <2>2, <3>1
  <2>4. k < c
    BY <1>2, <2>1, <2>2, <2>3
  <2> QED
    BY <1>1, <2>2, <2>3, <2>4
<1>5. ASSUME NEW k \in 0..(c - 1), NEW j \in 0..(c - 1), m * k + (i - 1) = m * j + (i - 1)
      PROVE  k = j
  <2>1. k \in Int /\ j \in Int /\ k - j \in Int /\ 0 \in 0..(m - 1)
    BY <1>1
  <2>2. m * (k - j) = 0 - 0
    BY <1>5, <2>1
  <2>3. k - j = 0
    BY <2>1, <2>2, RemaindersClose
  <2> QED
    BY <2>1, <2>3
<1> HIDE DEF S
<1>6. g \in Bijection(0..(c - 1), S)
  BY <1>3, <1>4, <1>5 DEF Bijection, Injection, Surjection, IsInjective
<1>7. ExistsBijection(0..(c - 1), S)
  BY <1>6 DEF ExistsBijection
<1>8. IsFiniteSet(0..(c - 1)) /\ Cardinality(0..(c - 1)) = c
  <2>1. 0 \in Int /\ c - 1 \in Int
    BY <1>1
  <2>2. /\ IsFiniteSet(0..(c - 1))
        /\ Cardinality(0..(c - 1)) = IF 0 > c - 1 THEN 0 ELSE (c - 1) - 0 + 1
    BY <2>1, FS_Interval
  <2> QED
    BY <1>1, <2>2
<1>9. Cardinality(S) = c
  BY <1>7, <1>8, FS_Bijection
<1> QED
  BY <1>9 DEF S, n, c

\* A share is not larger than the shares would be if all were full.
LEMMA HandBounded ==
  ASSUME NEW q \in Nat \ {0}, NEW n \in Nat \ {0}, NEW r \in 0..(n - 1), NEW i \in 1..n,
         NEW max \in Nat, NEW size, size = n * q + r, size <= n * max
  PROVE  Hand(q, r, i) \in Nat \ {0} /\ Hand(q, r, i) <= max
<1>1. ASSUME q >= max + 1 PROVE FALSE
  <2>1. n * (q - max) >= n /\ n * (q - max) = n * q - n * max
    BY <1>1
  <2>2. n * q \in Nat /\ n * max \in Nat
    OBVIOUS
  <2> QED
    BY <2>1, <2>2
<1>2. ASSUME q = max, r # 0 PROVE FALSE
  <2>1. n * q = n * max /\ n * q \in Nat
    BY <1>2
  <2> QED
    BY <1>2, <2>1
<1>3. q < max \/ (q = max /\ r = 0)
  BY <1>1, <1>2
<1> QED
  BY <1>3 DEF Hand

\* The blocks of a frame: m of them, as few as the size allows, dealt evenly.
SplitInto(n, max, sizes, m, q, r) ==
  /\ m \in Nat \ {0} /\ q \in Nat \ {0} /\ r \in 0..(m - 1)
  /\ n = m * q + r
  /\ sizes = [i \in 1..m |-> Hand(q, r, i)]
  /\ \A i \in 1..m : Hand(q, r, i) \in Nat \ {0} /\ Hand(q, r, i) <= max
  /\ (m - 1) * max < n

\* calculate_best_fit_block_sizes (BlockSizeHelper.hpp:51-76).
LEMMA BlockSizesSplit ==
  ASSUME NEW n \in Nat \ {0}, NEW max \in Nat \ {0}
  PROVE  \E m, q, r : SplitInto(n, max, BlockSizes(n, max), m, q, r)
<1>1. CASE n <= max
  <2>1. BlockSizes(n, max) = [i \in 1..1 |-> n]
    BY <1>1 DEF BlockSizes
  <2>2. \A i \in 1..1 : Hand(n, 0, i) = n
    BY DEF Hand
  <2>3. BlockSizes(n, max) = [i \in 1..1 |-> Hand(n, 0, i)]
    BY <2>1, <2>2
  <2>4. SplitInto(n, max, BlockSizes(n, max), 1, n, 0)
    BY <1>1, <2>2, <2>3 DEF SplitInto
  <2> QED
    BY <2>4
<1>2. CASE ~(n <= max)
  <2> DEFINE m == DivCeil(n, max)
             q == n \div m
             r == n % m
  <2>1. m \in Nat \ {0} /\ n <= max * m /\ (m - 1) * max < n /\ m <= n
    BY DivCeilBounds
  <2>2. BlockSizes(n, max) = [i \in 1..m |-> Cardinality({f \in 0..n - 1 : f % m = i - 1})]
    BY <1>2 DEF BlockSizes, NBlocks
  <2> HIDE DEF m
  <2>3. r \in 0..(m - 1) /\ n = m * q + r /\ q \in Int
    BY <2>1, Division
  <2> HIDE DEF q, r
  <2>4. q >= 1
    <3>1. ASSUME q <= 0 PROVE FALSE
      <4>1. m * q <= 0
        BY <2>1, <2>3, <3>1
      <4> QED
        BY <2>1, <2>3, <4>1
    <3> QED
      BY <2>3, <3>1
  <2>5. q \in Nat \ {0} /\ q \in Nat
    BY <2>3, <2>4
  <2>6. n <= m * max
    BY <2>1
  <2>7. \A i \in 1..m : Hand(q, r, i) \in Nat \ {0} /\ Hand(q, r, i) <= max
    BY <2>1, <2>3, <2>5, <2>6, HandBounded
  <2>8. \A i \in 1..m : Cardinality({f \in 0..n - 1 : f % m = i - 1}) = Hand(q, r, i)
    BY <2>1, <2>3, <2>5, ResidueCount
  <2>9. SplitInto(n, max, BlockSizes(n, max), m, q, r)
    BY <2>1, <2>2, <2>3, <2>5, <2>7, <2>8 DEF SplitInto
  <2> QED
    BY <2>9
<1> QED
  BY <1>1, <1>2

-----------------------------------------------------------------------------
(* Parts of given lengths laid out one after another *)

\* off[i] is where part i ends: after it comes part i + 1.
AddsUp(off, n, len) ==
  /\ DOMAIN off = 0..n
  /\ \A i \in 0..n : off[i] \in Nat
  /\ off[0] = 0
  /\ \A i \in 1..n : len[i] \in Nat /\ off[i] = off[i - 1] + len[i]

LEMMA OffsetsGrow ==
  ASSUME NEW n \in Nat, NEW off, NEW len, AddsUp(off, n, len),
         NEW i \in 0..n, NEW k \in 0..n, i <= k
  PROVE  off[i] <= off[k]
<1> DEFINE Bad == {x \in i..n : ~(off[i] <= off[x])}
<1>1. SUFFICES ASSUME Bad # {} PROVE FALSE
  <2>1. k \in i..n
    OBVIOUS
  <2> QED
    BY <1>1, <2>1
<1>2. PICK x \in Bad : \A y \in Bad : x <= y
  <2>1. Bad \subseteq Nat
    OBVIOUS
  <2> HIDE DEF Bad
  <2> QED
    BY <2>1, <1>1, LeastNatural
<1>3. x \in i..n /\ ~(off[i] <= off[x])
  BY <1>2
<1>4. off[i] \in Nat
  BY DEF AddsUp
<1>5. x # i
  BY <1>3, <1>4
<1>6. x \in 1..n /\ x - 1 \in i..n /\ x - 1 \in 0..n /\ ~(x <= x - 1)
  BY <1>3, <1>5
<1>7. off[i] <= off[x - 1]
  BY <1>2, <1>6
<1>8. off[x - 1] \in Nat /\ len[x] \in Nat /\ off[x] = off[x - 1] + len[x]
  BY <1>6 DEF AddsUp
<1> QED
  BY <1>3, <1>4, <1>7, <1>8

\* Every place is in a part.
LEMMA OffsetsCover ==
  ASSUME NEW n \in Nat, NEW off, NEW len, AddsUp(off, n, len), NEW p \in 1..off[n]
  PROVE  \E i \in 1..n : \E j \in 1..len[i] : p = off[i - 1] + j
<1> DEFINE T == {x \in 0..n : p <= off[x]}
<1>1. PICK i \in T : \A y \in T : i <= y
  <2>1. off[n] \in Nat /\ n \in 0..n
    BY DEF AddsUp
  <2>2. T \subseteq Nat /\ n \in T
    BY <2>1
  <2> HIDE DEF T
  <2> QED
    BY <2>2, LeastNatural
<1>2. i \in 0..n /\ p <= off[i] /\ off[n] \in Nat /\ p \in Nat /\ p >= 1
  BY <1>1 DEF AddsUp
<1>3. i # 0
  BY <1>2 DEF AddsUp
<1>4. i \in 1..n /\ i - 1 \in 0..n /\ ~(i <= i - 1)
  BY <1>2, <1>3
<1>5. ~(p <= off[i - 1])
  BY <1>1, <1>4
<1>6. off[i - 1] \in Nat /\ len[i] \in Nat /\ off[i] = off[i - 1] + len[i]
  BY <1>4 DEF AddsUp
<1> DEFINE j == p - off[i - 1]
<1>7. j \in 1..len[i] /\ p = off[i - 1] + j
  BY <1>2, <1>5, <1>6
<1> QED
  BY <1>4, <1>7

SumTo(s, f) == f = [j \in 0..Len(s) |-> IF j = 0 THEN 0 ELSE f[j - 1] + s[j]]

\* Sums are known as soon as one function adds up.
LEMMA SumKnown ==
  ASSUME NEW s, NEW n \in Nat, Len(s) = n,
         NEW off, AddsUp(off, n, s), NEW k \in 0..n
  PROVE  SumFirst(s, k) = off[k]
<1> DEFINE f == CHOOSE g : SumTo(s, g)
           F == [j \in 0..n |-> off[j]]
<1>1. SumTo(s, F)
  <2>1. F[0] = 0 /\ \A j \in 1..n : F[j] = F[j - 1] + s[j]
    <3>1. \A j \in 1..n : j \in 0..n /\ j - 1 \in 0..n
      OBVIOUS
    <3> QED
      BY <3>1 DEF AddsUp
  <2>2. F = [j \in 0..n |-> F[j]]
    OBVIOUS
  <2> HIDE DEF F
  <2>3. \A j \in 0..n : F[j] = IF j = 0 THEN 0 ELSE F[j - 1] + s[j]
    <3> TAKE j \in 0..n
    <3>1. j # 0 => j \in 1..n
      OBVIOUS
    <3> QED
      BY <2>1, <3>1
  <2> QED
    BY <2>2, <2>3 DEF SumTo
<1>2. SumTo(s, f)
  BY <1>1
<1>3. SumFirst(s, k) = f[k]
  BY DEF SumFirst, SumTo
<1> HIDE DEF f
<1> DEFINE Bad == {i \in 0..n : f[i] # off[i]}
<1>4. ASSUME Bad # {} PROVE FALSE
  <2>1. PICK i \in Bad : \A x \in Bad : i <= x
    <3>1. Bad \subseteq Nat
      OBVIOUS
    <3> HIDE DEF Bad
    <3> QED
      BY <3>1, <1>4, LeastNatural
  <2>2. i \in 0..n /\ f[i] # off[i]
    BY <2>1
  <2>3. f[i] = IF i = 0 THEN 0 ELSE f[i - 1] + s[i]
    BY <1>2, <2>2 DEF SumTo
  <2>4. i # 0
    BY <2>2, <2>3 DEF AddsUp
  <2>5. i \in 1..n /\ i - 1 \in 0..n /\ ~(i <= i - 1)
    BY <2>2, <2>4
  <2>6. f[i - 1] = off[i - 1]
    BY <2>1, <2>5
  <2>7. off[i] = off[i - 1] + s[i]
    BY <2>5 DEF AddsUp
  <2> QED
    BY <2>2, <2>3, <2>4, <2>6, <2>7
<1> QED
  BY <1>3, <1>4

\* f flattens the first m sequences of s.
FlatTo(s, m, f) == f = [i \in 1..m |-> IF i = 1 THEN s[i] ELSE f[i - 1] \o s[i]]

\* Such a function exists, although FlattenSeq only chooses one.
LEMMA FlatExists ==
  ASSUME NEW s, NEW n \in Nat \ {0}
  PROVE  \E f : FlatTo(s, n, f)
<1> DEFINE Bad == {m \in Nat \ {0} : ~\E f : FlatTo(s, m, f)}
<1>1. SUFFICES ASSUME Bad # {} PROVE FALSE
  BY <1>1
<1>2. PICK m \in Bad : \A x \in Bad : m <= x
  <2>1. Bad \subseteq Nat
    OBVIOUS
  <2> HIDE DEF Bad
  <2> QED
    BY <2>1, <1>1, LeastNatural
<1>3. m \in Nat \ {0} /\ ~\E f : FlatTo(s, m, f)
  BY <1>2
<1>4. CASE m = 1
  <2> DEFINE f == [i \in 1..1 |-> s[i]]
  <2>1. f = [i \in 1..1 |-> IF i = 1 THEN s[i] ELSE f[i - 1] \o s[i]]
    OBVIOUS
  <2> QED
    BY <2>1, <1>3, <1>4 DEF FlatTo
<1>5. CASE m # 1
  <2>1. m - 1 \in Nat \ {0} /\ ~(m <= m - 1)
    BY <1>3, <1>5
  <2>2. m - 1 \notin Bad
    BY <1>2, <2>1
  <2>3. PICK f : FlatTo(s, m - 1, f)
    BY <2>1, <2>2
  <2> DEFINE g == [i \in 1..m |-> IF i = m THEN f[m - 1] \o s[m] ELSE f[i]]
  <2>4. ASSUME NEW i \in 1..m
        PROVE  g[i] = IF i = 1 THEN s[i] ELSE g[i - 1] \o s[i]
    <3>1. i - 1 \in 0..(m - 1) /\ m \in 1..m /\ m - 1 \in 1..m /\ m - 1 # m
      BY <1>3, <2>1
    <3>2. CASE i = m
      BY <3>1, <3>2, <1>5
    <3>3. CASE i # m
      <4>1. i \in 1..(m - 1)
        BY <3>3, <1>3
      <4>2. f[i] = IF i = 1 THEN s[i] ELSE f[i - 1] \o s[i]
        BY <4>1, <2>3 DEF FlatTo
      <4>3. i # 1 => i - 1 \in 1..m /\ i - 1 # m
        BY <4>1, <1>3
      <4>4. g[i] = f[i] /\ (i # 1 => g[i - 1] = f[i - 1])
        BY <3>3, <4>3
      <4> QED
        BY <4>2, <4>4
    <3> QED
      BY <3>2, <3>3
  <2>5. g = [i \in 1..m |-> IF i = 1 THEN s[i] ELSE g[i - 1] \o s[i]]
    <3>1. g = [i \in 1..m |-> g[i]]
      OBVIOUS
    <3> HIDE DEF g
    <3> QED
      BY <2>4, <3>1
  <2> HIDE DEF g
  <2> QED
    BY <2>5, <1>3 DEF FlatTo
<1> QED
  BY <1>4, <1>5

\* FlattenSeq takes the value of such a function.
LEMMA FlattenValue ==
  ASSUME NEW s, Len(s) \in Nat \ {0}
  PROVE  \E f : FlatTo(s, Len(s), f) /\ FlattenSeq(s) = f[Len(s)]
<1>1. FlattenSeq(s) = (CHOOSE f : FlatTo(s, Len(s), f))[Len(s)]
  BY DEF FlattenSeq, FlatTo
<1>2. \E f : FlatTo(s, Len(s), f)
  BY FlatExists
<1> QED
  BY <1>1, <1>2

\* The sequences ss, one after another.
LaidOut(flat, ss, n, base, S) ==
  /\ AddsUp(base, n, [i \in 1..n |-> Len(ss[i])])
  /\ flat \in Seq(S) /\ Len(flat) = base[n]
  /\ \A i \in 1..n : \A j \in 1..Len(ss[i]) : flat[base[i - 1] + j] = ss[i][j]

LEMMA LaidOutMore ==
  ASSUME NEW S, NEW ss, NEW n \in Nat, NEW base, NEW flat, LaidOut(flat, ss, n, base, S),
         ss[n + 1] \in Seq(S)
  PROVE  \E next : LaidOut(flat \o ss[n + 1], ss, n + 1, next, S)
<1> DEFINE t == ss[n + 1]
           next == [i \in 0..(n + 1) |-> IF i <= n THEN base[i] ELSE base[n] + Len(t)]
           len == [i \in 1..(n + 1) |-> Len(ss[i])]
<1>1. /\ DOMAIN base = 0..n /\ base[0] = 0 /\ \A i \in 0..n : base[i] \in Nat
      /\ \A i \in 1..n : Len(ss[i]) \in Nat /\ base[i] = base[i - 1] + Len(ss[i])
      /\ flat \in Seq(S) /\ Len(flat) = base[n]
      /\ \A i \in 1..n : \A j \in 1..Len(ss[i]) : flat[base[i - 1] + j] = ss[i][j]
  BY DEF LaidOut, AddsUp
<1>2. t \in Seq(S) /\ Len(t) \in Nat
  OBVIOUS
<1>3. /\ flat \o t \in Seq(S) /\ Len(flat \o t) = base[n] + Len(t)
      /\ \A p \in 1..(base[n] + Len(t)) :
           (flat \o t)[p] = IF p <= base[n] THEN flat[p] ELSE t[p - base[n]]
  <2> HIDE DEF t
  <2> QED
    BY <1>1, <1>2
<1>4. n + 1 \in 1..(n + 1) /\ \A i \in 1..(n + 1) : i = n + 1 \/ (i \in 1..n /\ i <= n)
  OBVIOUS
<1>5. AddsUp(next, n + 1, len)
  <2>1. \A i \in 0..(n + 1) : next[i] \in Nat
    <3> TAKE i \in 0..(n + 1)
    <3>1. base[n] + Len(t) \in Nat
      BY <1>1, <1>2
    <3>2. i <= n => i \in 0..n
      OBVIOUS
    <3> HIDE DEF t
    <3> QED
      BY <1>1, <3>1, <3>2
  <2>2. next[0] = 0
    BY <1>1
  <2>3. ASSUME NEW i \in 1..(n + 1)
        PROVE  len[i] \in Nat /\ next[i] = next[i - 1] + len[i]
    <3>1. CASE i = n + 1
      BY <1>2, <3>1
    <3>2. CASE i \in 1..n
      <4>1. i <= n /\ i - 1 <= n /\ i - 1 \in 0..(n + 1) /\ i \in 0..(n + 1)
        BY <3>2
      <4>2. len[i] = Len(ss[i]) /\ next[i] = base[i] /\ next[i - 1] = base[i - 1]
        BY <4>1
      <4> HIDE DEF next, len
      <4> QED
        BY <1>1, <3>2, <4>2
    <3> QED
      BY <1>4, <3>1, <3>2
  <2>4. DOMAIN next = 0..(n + 1)
    OBVIOUS
  <2> HIDE DEF next, len
  <2> QED
    BY <2>1, <2>2, <2>3, <2>4 DEF AddsUp
<1>6. ASSUME NEW i \in 1..(n + 1), NEW j \in 1..Len(ss[i])
      PROVE  (flat \o t)[next[i - 1] + j] = ss[i][j]
  <2>1. CASE i = n + 1
    <3>1. next[i - 1] = base[n] /\ j \in 1..Len(t) /\ ss[i] = t
      BY <2>1
    <3>2. base[n] \in Nat
      BY <1>1
    <3> HIDE DEF next, t
    <3>3. base[n] + j \in 1..(base[n] + Len(t)) /\ ~(base[n] + j <= base[n])
          /\ (base[n] + j) - base[n] = j
      BY <3>1, <3>2, <1>2
    <3> QED
      BY <3>1, <3>3, <1>3
  <2>2. CASE i \in 1..n
    <3>1. i <= n /\ i - 1 <= n /\ i - 1 \in 0..(n + 1) /\ i - 1 \in 0..n /\ n \in 0..n /\ i \in 0..n
      BY <2>2
    <3>2. next[i - 1] = base[i - 1]
      BY <3>1
    <3> HIDE DEF next, t
    <3>3. base[i] <= base[n]
      BY <3>1, OffsetsGrow DEF LaidOut
    <3>4. base[i - 1] \in Nat /\ base[n] \in Nat /\ Len(ss[i]) \in Nat /\ base[i] = base[i - 1] + Len(ss[i])
      BY <1>1, <2>2, <3>1
    <3>5. base[i - 1] + j \in 1..(base[n] + Len(t)) /\ base[i - 1] + j <= base[n]
      <4> DEFINE u == base[i - 1]
                 v == base[n]
                 w == Len(ss[i])
                 x == Len(t)
      <4>1. u \in Nat /\ v \in Nat /\ w \in Nat /\ x \in Nat /\ u + w <= v
        BY <1>2, <3>3, <3>4
      <4>2. j \in 1..w
        OBVIOUS
      <4> HIDE DEF u, v, w, x
      <4>3. u + j \in 1..(v + x) /\ u + j <= v
        BY <4>1, <4>2
      <4> QED
        BY <4>3 DEF u, v, x
    <3>6. flat[base[i - 1] + j] = ss[i][j]
      BY <1>1, <2>2
    <3> QED
      BY <1>3, <3>2, <3>5, <3>6
  <2> QED
    BY <1>4, <2>1, <2>2
<1>7. next[n + 1] = base[n] + Len(t)
  BY <1>4
<1> HIDE DEF next, t
<1>8. LaidOut(flat \o t, ss, n + 1, next, S)
  BY <1>3, <1>5, <1>6, <1>7 DEF LaidOut
<1> QED
  BY <1>8 DEF t

\* FlattenSeq lays the sequences out.
LEMMA FlattenLaysOut ==
  ASSUME NEW S, NEW ss, NEW n \in Nat \ {0}, Len(ss) = n, \A i \in 1..n : ss[i] \in Seq(S)
  PROVE  \E base : LaidOut(FlattenSeq(ss), ss, n, base, S)
<1>1. PICK f : FlatTo(ss, n, f) /\ FlattenSeq(ss) = f[n]
  BY FlattenValue
<1> DEFINE Bad == {k \in 1..n : ~\E base : LaidOut(f[k], ss, k, base, S)}
<1>2. ASSUME Bad # {} PROVE FALSE
  <2>1. PICK k \in Bad : \A x \in Bad : k <= x
    <3>1. Bad \subseteq Nat
      OBVIOUS
    <3> HIDE DEF Bad
    <3> QED
      BY <3>1, <1>2, LeastNatural
  <2>2. k \in 1..n /\ ~\E base : LaidOut(f[k], ss, k, base, S)
    BY <2>1
  <2>3. f[k] = IF k = 1 THEN ss[k] ELSE f[k - 1] \o ss[k]
    BY <1>1, <2>2 DEF FlatTo
  <2>4. CASE k = 1
    <3> DEFINE none == [i \in 0..0 |-> 0]
    <3>1. LaidOut(<<>>, ss, 0, none, S)
      BY DEF LaidOut, AddsUp
    <3> HIDE DEF none
    <3>2. ss[1] \in Seq(S) /\ 0 + 1 = 1 /\ 0 \in Nat
      BY <2>2, <2>4
    <3>3. \E base : LaidOut(<<>> \o ss[0 + 1], ss, 0 + 1, base, S)
      BY <3>1, <3>2, LaidOutMore
    <3>4. <<>> \o ss[1] = ss[1]
      BY <3>2
    <3> QED
      BY <2>2, <2>3, <2>4, <3>2, <3>3, <3>4
  <2>5. CASE k # 1
    <3>1. k - 1 \in 1..n /\ ~(k <= k - 1) /\ k - 1 \in Nat /\ (k - 1) + 1 = k
      BY <2>2, <2>5
    <3>2. PICK base : LaidOut(f[k - 1], ss, k - 1, base, S)
      BY <2>1, <3>1
    <3>3. \E next : LaidOut(f[k - 1] \o ss[(k - 1) + 1], ss, (k - 1) + 1, next, S)
      <4>1. ss[(k - 1) + 1] \in Seq(S)
        BY <2>2, <3>1
      <4> HIDE DEF Bad
      <4> QED
        BY <3>1, <3>2, <4>1, LaidOutMore
    <3> QED
      BY <2>2, <2>3, <2>5, <3>1, <3>3
  <2> QED
    BY <2>4, <2>5
<1>3. n \in 1..n
  OBVIOUS
<1> QED
  BY <1>1, <1>2, <1>3

-----------------------------------------------------------------------------
(* What is sent of a frame cut into pieces *)

FragmentType ==
  [block_idx : Nat, fragment_idx : Nat, n_primary_fragments : Nat, data : SUBSET Nat]

\* The primary fragments D are the data, in order, in nearly equal pieces that fit.
Pieces(D, data) ==
  /\ Len(D) \in Nat \ {0}
  /\ \A x \in 1..Len(D) :
       /\ D[x] \subseteq Nat /\ D[x] # {}
       /\ Cardinality(D[x]) <= FEC_PACKET_MAX_PAYLOAD_SIZE
  /\ \A x, y \in 1..Len(D) : Cardinality(D[x]) <= Cardinality(D[y]) + 1
  /\ \A x, y \in 1..Len(D) : x < y => \A u \in D[x], v \in D[y] : u < v
  /\ UNION {D[x] : x \in 1..Len(D)} = data

\* They make n blocks, block i of c[i] pieces, ending with piece off[i], and with
\* t[i] secondary fragments.
Cut(n, c, t, D, off, max) ==
  /\ n \in 1..IdxMod
  /\ AddsUp(off, n, c) /\ off[n] = Len(D)
  /\ \A i \in 1..n : c[i] \in Nat \ {0} /\ c[i] <= max /\ t[i] \in Nat
  /\ \A i, k \in 1..n : c[i] <= c[k] + 1
  /\ max \in Nat /\ (n - 1) * max < Len(D)

BlockOf(c, t, D, off, i) ==
  [primary |-> [j \in 1..c[i] |-> D[off[i - 1] + j]], n_primary |-> c[i], n_secondary |-> t[i]]

Made(blocks, n, c, t, D, off) ==
  Len(blocks) = n /\ \A i \in 1..n : blocks[i] = BlockOf(c, t, D, off, i)

\* One byte is enough for fewer than 256 primary fragments.
LEMMA HeaderCounts ==
  ASSUME NEW k \in Nat
  PROVE  Header(k) \in Nat /\ (k < HdrMod => Header(k) = k)
<1>1. HdrMod \in Nat /\ HdrMod # 0
  BY FECEncoderAssumption DEF MAX_TOTAL_FRAGMENTS_PER_BLOCK
<1>2. k % HdrMod \in Nat /\ (k < HdrMod => k % HdrMod = k)
  BY <1>1
<1> QED
  BY <1>2 DEF Header

\* Fragment j of block i on the air, first being the index of block 1.
FragmentOf(first, c, D, off, i, j) ==
  [block_idx |-> (first + (i - 1)) % IdxMod, fragment_idx |-> j - 1,
   n_primary_fragments |-> Header(c[i]),
   data |-> IF j <= c[i] THEN D[off[i - 1] + j] ELSE {}]

\* All fragments of all blocks in s; the next block has the index last.
Placed(s, last, first, n, c, t, D, off, base) ==
  /\ AddsUp(base, n, [i \in 1..n |-> c[i] + t[i]])
  /\ s \in Seq(FragmentType) /\ Len(s) = base[n]
  /\ \A i \in 1..n : \A j \in 1..(c[i] + t[i]) :
       s[base[i - 1] + j] = FragmentOf(first, c, D, off, i, j)
  /\ last = (first + n) % IdxMod

\* A piece of a block is a piece of the frame.
LEMMA PieceOfBlock ==
  ASSUME NEW n, NEW c, NEW t, NEW D, NEW off, NEW max, Cut(n, c, t, D, off, max),
         NEW i \in 1..n, NEW j \in 1..c[i]
  PROVE  /\ off[i - 1] \in Nat /\ off[i - 1] + j \in 1..Len(D)
         /\ off[i - 1] + j <= off[i]
<1>1. n \in Nat /\ AddsUp(off, n, c) /\ c[i] \in Nat /\ off[n] = Len(D)
  BY FECEncoderAssumption DEF Cut
<1>2. i \in 0..n /\ n \in 0..n /\ i <= n /\ i - 1 \in 0..n
  BY <1>1
<1>3. off[i] <= off[n]
  BY <1>1, <1>2, OffsetsGrow
<1>4. off[i - 1] \in Nat /\ off[i] \in Nat /\ off[n] \in Nat /\ off[i] = off[i - 1] + c[i]
  BY <1>1, <1>2 DEF AddsUp
<1> QED
  BY <1>1, <1>3, <1>4

\* m_curr_block_idx goes up by one for every block, with or without secondary
\* fragments (FECEncoder.cpp:96, 132).
LEMMA BlockIdxCounts ==
  ASSUME NEW blocks, NEW n \in Nat, Len(blocks) = n, NEW i \in 1..(n + 1)
  PROVE  BlockIdx(blocks, i) = (m_curr_block_idx + (i - 1)) % IdxMod
<1> DEFINE s == [j \in 1..Len(blocks) |-> Step(blocks[j])]
           F == [j \in 0..n |-> j]
<1>1. Len(s) = n
  OBVIOUS
<1>2. AddsUp(F, n, s)
  BY DEF AddsUp, Step
<1>3. i - 1 \in 0..n /\ F[i - 1] = i - 1
  OBVIOUS
<1> HIDE DEF s, F
<1>4. SumFirst(s, i - 1) = i - 1
  <2> DEFINE k == i - 1
  <2>1. k \in 0..n /\ F[k] = k
    BY <1>3
  <2> HIDE DEF k
  <2>2. SumFirst(s, k) = F[k]
    BY <1>1, <1>2, <2>1, SumKnown
  <2>3. SumFirst(s, k) = k
    BY <2>1, <2>2
  <2> QED
    BY <2>3 DEF k
<1> QED
  BY <1>4 DEF BlockIdx, s

\* encode_block and fragment_and_encode send the blocks one after another.
LEMMA SendPlaces ==
  ASSUME m_curr_block_idx \in Nat, NEW n, NEW c, NEW t, NEW D, NEW off, NEW max, NEW data,
         Pieces(D, data), Cut(n, c, t, D, off, max),
         NEW blocks, Made(blocks, n, c, t, D, off),
         NEW d, NEW m, Send(blocks, d, m)
  PROVE  \E base : Placed(sent', m_curr_block_idx', m_curr_block_idx, n, c, t, D, off, base)
<1> DEFINE ss == [i \in 1..Len(blocks) |-> EncodeBlock(blocks[i], BlockIdx(blocks, i))]
           first == m_curr_block_idx
<1>. Len(blocks) = n /\ \A i \in 1..n : blocks[i] = BlockOf(c, t, D, off, i)
  BY DEF Made
<1>1. n \in Nat \ {0} /\ IdxMod \in Nat \ {0}
  BY FECEncoderAssumption DEF Cut
<1>2. sent' = FlattenSeq(ss) /\ m_curr_block_idx' = BlockIdx(blocks, Len(blocks) + 1)
  BY DEF Send
<1>3. Len(ss) = n
  BY <1>1
<1>4. m_curr_block_idx' = (first + n) % IdxMod
  <2>1. n + 1 \in 1..(n + 1) /\ (n + 1) - 1 = n /\ n \in Nat
    BY <1>1
  <2> QED
    BY <1>2, <2>1, BlockIdxCounts
<1>5. ASSUME NEW i \in 1..n
      PROVE  /\ c[i] \in Nat \ {0} /\ t[i] \in Nat /\ c[i] + t[i] \in Nat
             /\ ss[i] = [j \in 1..(c[i] + t[i]) |-> FragmentOf(first, c, D, off, i, j)]
             /\ ss[i] \in Seq(FragmentType) /\ Len(ss[i]) = c[i] + t[i]
  <2>1. c[i] \in Nat \ {0} /\ t[i] \in Nat /\ c[i] + t[i] \in Nat
    BY DEF Cut
  <2>2. BlockIdx(blocks, i) = (first + (i - 1)) % IdxMod
    <3>1. i \in 1..(n + 1) /\ n \in Nat
      BY <1>1
    <3> QED
      BY <3>1, BlockIdxCounts
  <2> DEFINE b == blocks[i]
             idx == (first + (i - 1)) % IdxMod
  <2>3. b.primary = [j \in 1..c[i] |-> D[off[i - 1] + j]] /\ b.n_primary = c[i] /\ b.n_secondary = t[i]
    <3>1. b = BlockOf(c, t, D, off, i)
      OBVIOUS
    <3> HIDE DEF b
    <3> QED
      BY <3>1 DEF BlockOf
  <2>4. Len(b.primary) = c[i] /\ \A j \in 1..c[i] : b.primary[j] = D[off[i - 1] + j]
    BY <2>1, <2>3
  <2>5. ss[i] = EncodeBlock(b, idx)
    BY <2>2
  <2> HIDE DEF b, idx, ss
  <2>6. ss[i] = [j \in 1..(c[i] + t[i]) |->
                   [block_idx |-> idx, fragment_idx |-> j - 1, n_primary_fragments |-> Header(c[i]),
                    data |-> IF j <= c[i] THEN b.primary[j] ELSE {}]]
    BY <2>3, <2>4, <2>5 DEF EncodeBlock
  <2>7. \A j \in 1..(c[i] + t[i]) :
          [block_idx |-> idx, fragment_idx |-> j - 1, n_primary_fragments |-> Header(c[i]),
           data |-> IF j <= c[i] THEN b.primary[j] ELSE {}]
            = FragmentOf(first, c, D, off, i, j)
    <3> TAKE j \in 1..(c[i] + t[i])
    <3>1. CASE j <= c[i]
      <4>1. j \in 1..c[i]
        BY <2>1, <3>1
      <4> QED
        BY <2>4, <3>1, <4>1 DEF FragmentOf, idx
    <3>2. CASE ~(j <= c[i])
      BY <3>2 DEF FragmentOf, idx
    <3> QED
      BY <3>1, <3>2
  <2>8. ss[i] = [j \in 1..(c[i] + t[i]) |-> FragmentOf(first, c, D, off, i, j)]
    BY <2>6, <2>7
  <2>9. \A j \in 1..(c[i] + t[i]) : FragmentOf(first, c, D, off, i, j) \in FragmentType
    <3> TAKE j \in 1..(c[i] + t[i])
    <3>1. (first + (i - 1)) % IdxMod \in Nat
      <4>1. first + (i - 1) \in Int
        BY <1>1
      <4> QED
        BY <1>1, <4>1, Division
    <3>2. j - 1 \in Nat /\ Header(c[i]) \in Nat
      <4>1. j - 1 \in Nat /\ c[i] \in Nat
        BY <2>1
      <4> QED
        BY <4>1, HeaderCounts
    <3>3. (IF j <= c[i] THEN D[off[i - 1] + j] ELSE {}) \in SUBSET Nat
      <4>1. CASE j <= c[i]
        <5>1. j \in 1..c[i]
          BY <2>1, <4>1
        <5>2. off[i - 1] + j \in 1..Len(D)
          BY <5>1, PieceOfBlock
        <5> QED
          BY <4>1, <5>2 DEF Pieces
      <4>2. CASE ~(j <= c[i])
        BY <4>2
      <4> QED
        BY <4>1, <4>2
    <3> QED
      BY <3>1, <3>2, <3>3 DEF FragmentOf, FragmentType
  <2>10. ss[i] \in Seq(FragmentType) /\ Len(ss[i]) = c[i] + t[i]
    BY <2>1, <2>8, <2>9
  <2> QED
    BY <2>1, <2>8, <2>10
<1> HIDE DEF ss
<1>6. PICK base : LaidOut(FlattenSeq(ss), ss, n, base, FragmentType)
  BY <1>1, <1>3, <1>5, FlattenLaysOut
<1>7. [i \in 1..n |-> Len(ss[i])] = [i \in 1..n |-> c[i] + t[i]]
  BY <1>5
<1>8. AddsUp(base, n, [i \in 1..n |-> c[i] + t[i]])
  BY <1>6, <1>7 DEF LaidOut
<1>9. \A i \in 1..n : \A j \in 1..(c[i] + t[i]) :
        sent'[base[i - 1] + j] = FragmentOf(first, c, D, off, i, j)
  <2> TAKE i \in 1..n
  <2> TAKE j \in 1..(c[i] + t[i])
  <2>1. Len(ss[i]) = c[i] + t[i] /\ ss[i][j] = FragmentOf(first, c, D, off, i, j)
    BY <1>5
  <2>2. FlattenSeq(ss)[base[i - 1] + j] = ss[i][j]
    BY <1>6, <2>1 DEF LaidOut
  <2> QED
    BY <1>2, <2>1, <2>2
<1>10. sent' \in Seq(FragmentType) /\ Len(sent') = base[n]
  BY <1>2, <1>6 DEF LaidOut
<1> QED
  BY <1>4, <1>8, <1>9, <1>10 DEF Placed

-----------------------------------------------------------------------------
(* Where the fragments of a block are *)

\* The fragments in sent are those of data, cut.
Sending(data, max, first, n, c, t, D, off, base) ==
  /\ first \in Nat
  /\ Pieces(D, data)
  /\ Cut(n, c, t, D, off, max)
  /\ Placed(sent, m_curr_block_idx, first, n, c, t, D, off, base)

Idx(first, i) == (first + (i - 1)) % IdxMod

\* Every fragment is in its block.
LEMMA FragmentAt ==
  ASSUME NEW data, NEW max, NEW first, NEW n, NEW c, NEW t, NEW D, NEW off, NEW base,
         Sending(data, max, first, n, c, t, D, off, base), NEW p \in 1..Len(sent)
  PROVE  \E i \in 1..n : \E j \in 1..(c[i] + t[i]) :
           p = base[i - 1] + j /\ sent[p] = FragmentOf(first, c, D, off, i, j)
<1> DEFINE len == [i \in 1..n |-> c[i] + t[i]]
<1>1. AddsUp(base, n, len) /\ Len(sent) = base[n] /\ n \in Nat
  BY FECEncoderAssumption DEF Sending, Placed, Cut
<1>2. \A i \in 1..n : len[i] = c[i] + t[i]
  OBVIOUS
<1> HIDE DEF len
<1>3. PICK i \in 1..n : \E j \in 1..len[i] : p = base[i - 1] + j
  BY <1>1, OffsetsCover
<1>4. PICK j \in 1..(c[i] + t[i]) : p = base[i - 1] + j
  BY <1>2, <1>3
<1>5. sent[p] = FragmentOf(first, c, D, off, i, j)
  BY <1>4 DEF Sending, Placed
<1> QED
  BY <1>4, <1>5

\* A fragment of a block has its place, before those of later blocks.
LEMMA PlaceOf ==
  ASSUME NEW data, NEW max, NEW first, NEW n, NEW c, NEW t, NEW D, NEW off, NEW base,
         Sending(data, max, first, n, c, t, D, off, base), NEW i \in 1..n
  PROVE  /\ base[i - 1] \in Nat /\ base[i] \in Nat /\ c[i] \in Nat \ {0} /\ t[i] \in Nat
         /\ base[i] = base[i - 1] + (c[i] + t[i])
         /\ base[i] <= Len(sent) /\ Len(sent) \in Nat
         /\ \A k \in 1..n : i < k => base[i] <= base[k - 1]
<1> DEFINE len == [x \in 1..n |-> c[x] + t[x]]
<1>1. AddsUp(base, n, len) /\ Len(sent) = base[n] /\ n \in Nat
  BY FECEncoderAssumption DEF Sending, Placed, Cut
<1>2. len[i] = c[i] + t[i] /\ c[i] \in Nat \ {0} /\ t[i] \in Nat
  BY DEF Sending, Cut
<1> HIDE DEF len
<1>3. i \in 0..n /\ i - 1 \in 0..n /\ n \in 0..n /\ i <= n
  BY <1>1
<1>4. base[i - 1] \in Nat /\ base[i] \in Nat /\ base[n] \in Nat /\ base[i] = base[i - 1] + len[i]
  BY <1>1, <1>3 DEF AddsUp
<1>5. base[i] <= base[n]
  BY <1>1, <1>3, OffsetsGrow
<1>6. ASSUME NEW k \in 1..n, i < k PROVE base[i] <= base[k - 1]
  <2>1. k - 1 \in 0..n /\ i <= k - 1
    BY <1>1, <1>6
  <2> QED
    BY <1>1, <1>3, <2>1, OffsetsGrow
<1> QED
  BY <1>1, <1>2, <1>4, <1>5, <1>6

\* Blocks of one frame have different indices.
LEMMA IndicesDiffer ==
  ASSUME NEW first \in Nat, NEW n \in 1..IdxMod, NEW i \in 1..n, NEW k \in 1..n,
         Idx(first, i) = Idx(first, k)
  PROVE  i = k
<1> DEFINE x == first + (i - 1)
           y == first + (k - 1)
           a == x \div IdxMod
           b == y \div IdxMod
           w == x % IdxMod
<1>1. IdxMod \in Nat \ {0} /\ x \in Int /\ y \in Int /\ x - y = i - k
      /\ i \in Nat /\ k \in Nat /\ i - k < IdxMod /\ k - i < IdxMod
  BY FECEncoderAssumption
<1>2. w = y % IdxMod
  BY DEF Idx
<1> HIDE DEF x, y
<1>3. x = IdxMod * a + w /\ y = IdxMod * b + w /\ a \in Int /\ b \in Int /\ w \in Int
  BY <1>1, <1>2, Division
<1> HIDE DEF a, b, w
<1>4. a - b \in Int /\ IdxMod * (a - b) = i - k
  BY <1>1, <1>3
<1>5. CASE i >= k
  <2>1. i - k \in 0..(IdxMod - 1) /\ 0 \in 0..(IdxMod - 1) /\ IdxMod * (a - b) = (i - k) - 0
    BY <1>1, <1>4, <1>5
  <2>2. i - k = 0
    BY <1>1, <1>4, <2>1, RemaindersClose
  <2> QED
    BY <1>1, <2>2
<1>6. CASE k >= i
  <2>1. k - i \in 0..(IdxMod - 1) /\ 0 \in 0..(IdxMod - 1) /\ b - a \in Int
        /\ IdxMod * (b - a) = (k - i) - 0
    BY <1>1, <1>3, <1>6
  <2>2. k - i = 0
    BY <1>1, <2>1, RemaindersClose
  <2> QED
    BY <1>1, <2>2
<1> QED
  BY <1>1, <1>5, <1>6

\* A fragment carries data if and only if it is a primary one.
LEMMA PrimaryCarries ==
  ASSUME NEW data, NEW max, NEW first, NEW n, NEW c, NEW t, NEW D, NEW off, NEW base,
         Sending(data, max, first, n, c, t, D, off, base),
         NEW i \in 1..n, NEW j \in 1..(c[i] + t[i])
  PROVE  /\ base[i - 1] + j \in 1..Len(sent)
         /\ sent[base[i - 1] + j] = FragmentOf(first, c, D, off, i, j)
         /\ sent[base[i - 1] + j].block_idx = Idx(first, i)
         /\ sent[base[i - 1] + j].fragment_idx = j - 1
         /\ sent[base[i - 1] + j].n_primary_fragments = Header(c[i])
         /\ j <= c[i] => /\ off[i - 1] + j \in 1..Len(D)
                         /\ sent[base[i - 1] + j].data = D[off[i - 1] + j]
         /\ ~(j <= c[i]) => sent[base[i - 1] + j].data = {}
         /\ sent[base[i - 1] + j].data # {} <=> j <= c[i]
<1>1. /\ base[i - 1] \in Nat /\ base[i] \in Nat /\ c[i] \in Nat \ {0} /\ t[i] \in Nat
      /\ base[i] = base[i - 1] + (c[i] + t[i]) /\ base[i] <= Len(sent) /\ Len(sent) \in Nat
  BY PlaceOf
<1>2. base[i - 1] + j \in 1..Len(sent)
  <2> DEFINE u == base[i - 1]
             v == base[i]
             w == c[i] + t[i]
             z == Len(sent)
  <2>1. u \in Nat /\ v \in Nat /\ w \in Nat /\ z \in Nat /\ v = u + w /\ v <= z /\ j \in 1..w
    BY <1>1
  <2> HIDE DEF u, v, w, z
  <2>2. u + j \in 1..z
    BY <2>1
  <2> QED
    BY <2>2 DEF u, z
<1>3. sent[base[i - 1] + j] = FragmentOf(first, c, D, off, i, j)
  BY DEF Sending, Placed
<1> DEFINE f == sent[base[i - 1] + j]
<1>4. /\ f.block_idx = Idx(first, i) /\ f.fragment_idx = j - 1
      /\ f.n_primary_fragments = Header(c[i])
      /\ f.data = IF j <= c[i] THEN D[off[i - 1] + j] ELSE {}
  <2> HIDE DEF f
  <2>1. f = FragmentOf(first, c, D, off, i, j)
    BY <1>3 DEF f
  <2> QED
    BY <2>1 DEF FragmentOf, Idx
<1>5. ASSUME j <= c[i] PROVE off[i - 1] + j \in 1..Len(D) /\ D[off[i - 1] + j] # {}
  <2>1. j \in 1..c[i]
    BY <1>1, <1>5
  <2>2. off[i - 1] + j \in 1..Len(D)
    BY <2>1, PieceOfBlock DEF Sending
  <2> QED
    BY <2>2 DEF Sending, Pieces
<1> HIDE DEF f
<1>6. f.data # {} <=> j <= c[i]
  BY <1>4, <1>5
<1> QED
  BY <1>2, <1>3, <1>4, <1>5, <1>6 DEF f

LEMMA HeaderAt ==
  ASSUME NEW data, NEW max, NEW first, NEW n, NEW c, NEW t, NEW D, NEW off, NEW base,
         Sending(data, max, first, n, c, t, D, off, base),
         NEW i \in 1..n, NEW j \in 1..(c[i] + t[i])
  PROVE  /\ base[i - 1] + j \in 1..Len(sent)
         /\ sent[base[i - 1] + j].block_idx = Idx(first, i)
         /\ sent[base[i - 1] + j].fragment_idx = j - 1
BY PrimaryCarries

\* The fragments of a block are next to each other, the primary ones first.
LEMMA BlockPlaces ==
  ASSUME NEW data, NEW max, NEW first, NEW n, NEW c, NEW t, NEW D, NEW off, NEW base,
         Sending(data, max, first, n, c, t, D, off, base), NEW i \in 1..n
  PROVE  /\ OfBlock(Idx(first, i)) = (base[i - 1] + 1)..base[i]
         /\ Primary(Idx(first, i)) = (base[i - 1] + 1)..(base[i - 1] + c[i])
<1> DEFINE u == base[i - 1]
           v == base[i]
           z == Len(sent)
           b == Idx(first, i)
<1>1. /\ u \in Nat /\ v \in Nat /\ c[i] \in Nat \ {0} /\ t[i] \in Nat
      /\ v = u + (c[i] + t[i]) /\ v <= z /\ z \in Nat
  BY PlaceOf
<1>2. first \in Nat /\ n \in 1..IdxMod
  BY DEF Sending, Cut
<1>3. ASSUME NEW p \in (u + 1)..v
      PROVE  /\ p \in 1..z /\ sent[p].block_idx = b
             /\ sent[p].data # {} <=> p \in (u + 1)..(u + c[i])
  <2> DEFINE j == p - u
  <2>1. j \in 1..(c[i] + t[i]) /\ p = u + j
    <3> DEFINE w == c[i] + t[i]
    <3>1. w \in Nat /\ v = u + w
      BY <1>1
    <3> HIDE DEF u, v, w
    <3>2. j \in 1..w /\ p = u + j
      BY <1>1, <3>1
    <3> QED
      BY <3>2 DEF w
  <2> HIDE DEF j
  <2>2. /\ u + j \in 1..z /\ sent[u + j].block_idx = b
        /\ sent[u + j].data # {} <=> j <= c[i]
    BY <2>1, PrimaryCarries
  <2> HIDE DEF u, v, z, b
  <2>3. p \in (u + 1)..(u + c[i]) <=> j <= c[i]
    BY <1>1, <2>1
  <2> QED
    BY <2>1, <2>2, <2>3
<1>4. ASSUME NEW p \in 1..z, sent[p].block_idx = b PROVE p \in (u + 1)..v
  <2>1. PICK k \in 1..n : \E j \in 1..(c[k] + t[k]) :
                 p = base[k - 1] + j /\ sent[p] = FragmentOf(first, c, D, off, k, j)
    BY FragmentAt
  <2>2. PICK j \in 1..(c[k] + t[k]) : p = base[k - 1] + j
    BY <2>1
  <2>3. sent[p].block_idx = Idx(first, k)
    BY <2>2, PrimaryCarries
  <2>4. k = i
    BY <1>2, <1>4, <2>3, IndicesDiffer
  <2>5. p = u + j /\ j \in 1..(c[i] + t[i])
    BY <2>2, <2>4
  <2> DEFINE w == c[i] + t[i]
  <2>6. w \in Nat /\ v = u + w /\ j \in 1..w
    <3>1. w \in Nat /\ v = u + w
      BY <1>1
    <3> QED
      BY <2>5, <3>1
  <2> HIDE DEF u, v, w
  <2> QED
    BY <1>1, <2>5, <2>6
<1> HIDE DEF u, v, z, b
<1>5. OfBlock(b) = (u + 1)..v
  BY <1>3, <1>4 DEF OfBlock, z
<1>6. \A p : p \in (u + 1)..(u + c[i]) => p \in (u + 1)..v
  BY <1>1
<1>7. Primary(b) = (u + 1)..(u + c[i])
  BY <1>3, <1>5, <1>6 DEF Primary
<1> QED
  BY <1>5, <1>7 DEF u, v, b

\* The indices sent are those of the blocks.
LEMMA IndicesSent ==
  ASSUME NEW data, NEW max, NEW first, NEW n, NEW c, NEW t, NEW D, NEW off, NEW base,
         Sending(data, max, first, n, c, t, D, off, base)
  PROVE  IdxSent = {Idx(first, i) : i \in 1..n}
<1>1. ASSUME NEW b \in IdxSent PROVE \E i \in 1..n : b = Idx(first, i)
  <2>1. PICK p \in 1..Len(sent) : b = sent[p].block_idx
    BY DEF IdxSent
  <2>2. PICK i \in 1..n : \E j \in 1..(c[i] + t[i]) :
          p = base[i - 1] + j /\ sent[p] = FragmentOf(first, c, D, off, i, j)
    BY FragmentAt
  <2>3. PICK j \in 1..(c[i] + t[i]) : p = base[i - 1] + j
    BY <2>2
  <2>4. sent[p].block_idx = Idx(first, i)
    BY <2>3, PrimaryCarries
  <2> QED
    BY <2>1, <2>4
<1>2. ASSUME NEW i \in 1..n PROVE Idx(first, i) \in IdxSent
  <2>1. c[i] \in Nat \ {0} /\ t[i] \in Nat
    BY PlaceOf
  <2>2. 1 \in 1..(c[i] + t[i])
    BY <2>1
  <2>3. base[i - 1] + 1 \in 1..Len(sent) /\ sent[base[i - 1] + 1].block_idx = Idx(first, i)
    BY <2>2, PrimaryCarries
  <2> DEFINE p == base[i - 1] + 1
  <2> HIDE DEF p
  <2>4. p \in 1..Len(sent) /\ sent[p].block_idx = Idx(first, i)
    BY <2>3 DEF p
  <2> QED
    BY <2>4 DEF IdxSent
<1> QED
  BY <1>1, <1>2

-----------------------------------------------------------------------------
(* What that says of the frame *)

LEMMA IntervalCount ==
  ASSUME NEW a \in Nat, NEW b \in Nat, a <= b
  PROVE  IsFiniteSet((a + 1)..b) /\ Cardinality((a + 1)..b) = b - a
<1>1. a + 1 \in Int /\ b \in Int
  OBVIOUS
<1>2. /\ IsFiniteSet((a + 1)..b)
      /\ Cardinality((a + 1)..b) = IF a + 1 > b THEN 0 ELSE b - (a + 1) + 1
  BY <1>1, FS_Interval
<1> QED
  BY <1>2

\* Every piece is somewhere in sent.
LEMMA PieceSent ==
  ASSUME NEW data, NEW max, NEW first, NEW n, NEW c, NEW t, NEW D, NEW off, NEW base,
         Sending(data, max, first, n, c, t, D, off, base), NEW y \in 1..Len(D)
  PROVE  \E p \in 1..Len(sent) : sent[p].data = D[y]
<1>1. AddsUp(off, n, c) /\ n \in Nat /\ y \in 1..off[n]
  BY FECEncoderAssumption DEF Sending, Cut
<1>2. PICK i \in 1..n : \E j \in 1..c[i] : y = off[i - 1] + j
  BY <1>1, OffsetsCover
<1>3. PICK j \in 1..c[i] : y = off[i - 1] + j
  BY <1>2
<1>4. j \in 1..(c[i] + t[i]) /\ j <= c[i]
  <2>1. c[i] \in Nat \ {0} /\ t[i] \in Nat
    BY PlaceOf
  <2> QED
    BY <2>1
<1> DEFINE p == base[i - 1] + j
           u == off[i - 1] + j
<1>5. p \in 1..Len(sent) /\ sent[p].data = D[u]
  BY <1>4, PrimaryCarries
<1>6. y = u
  BY <1>3
<1> HIDE DEF p, u
<1> QED
  BY <1>5, <1>6

\* Whatever is sent with data is a piece, later in the frame when sent later.
LEMMA SentPiece ==
  ASSUME NEW data, NEW max, NEW first, NEW n, NEW c, NEW t, NEW D, NEW off, NEW base,
         Sending(data, max, first, n, c, t, D, off, base),
         NEW p \in 1..Len(sent), sent[p].data # {}
  PROVE  \E i \in 1..n : \E j \in 1..c[i] :
           /\ p = base[i - 1] + j
           /\ off[i - 1] + j \in 1..Len(D) /\ sent[p].data = D[off[i - 1] + j]
<1>1. PICK i \in 1..n : \E j \in 1..(c[i] + t[i]) :
        p = base[i - 1] + j /\ sent[p] = FragmentOf(first, c, D, off, i, j)
  BY FragmentAt
<1>2. PICK j \in 1..(c[i] + t[i]) : p = base[i - 1] + j
  BY <1>1
<1>3. c[i] \in Nat \ {0} /\ t[i] \in Nat
  BY PlaceOf
<1>4. j <= c[i]
  BY <1>2, PrimaryCarries
<1>5. j \in 1..c[i]
  BY <1>3, <1>4
<1>6. off[i - 1] + j \in 1..Len(D) /\ sent[p].data = D[off[i - 1] + j]
  BY <1>2, <1>4, PrimaryCarries
<1> QED
  BY <1>2, <1>5, <1>6

LEMMA SentInOrder ==
  ASSUME NEW data, NEW max, NEW first, NEW n, NEW c, NEW t, NEW D, NEW off, NEW base,
         Sending(data, max, first, n, c, t, D, off, base),
         NEW p \in 1..Len(sent), NEW q \in 1..Len(sent), p < q
  PROVE  \A x \in sent[p].data, y \in sent[q].data : x < y
<1> SUFFICES ASSUME sent[p].data # {}, sent[q].data # {}
             PROVE  \A x \in sent[p].data, y \in sent[q].data : x < y
  OBVIOUS
<1>1. PICK i \in 1..n : \E j \in 1..c[i] :
        /\ p = base[i - 1] + j
        /\ off[i - 1] + j \in 1..Len(D) /\ sent[p].data = D[off[i - 1] + j]
  BY SentPiece
<1>2. PICK j \in 1..c[i] :
        /\ p = base[i - 1] + j
        /\ off[i - 1] + j \in 1..Len(D) /\ sent[p].data = D[off[i - 1] + j]
  BY <1>1
<1>3. PICK k \in 1..n : \E l \in 1..c[k] :
        /\ q = base[k - 1] + l
        /\ off[k - 1] + l \in 1..Len(D) /\ sent[q].data = D[off[k - 1] + l]
  BY SentPiece
<1>4. PICK l \in 1..c[k] :
        /\ q = base[k - 1] + l
        /\ off[k - 1] + l \in 1..Len(D) /\ sent[q].data = D[off[k - 1] + l]
  BY <1>3
<1> DEFINE x == off[i - 1] + j
           y == off[k - 1] + l
<1>5. x \in 1..Len(D) /\ y \in 1..Len(D) /\ sent[p].data = D[x] /\ sent[q].data = D[y]
  BY <1>2, <1>4
<1>7. n \in Nat /\ AddsUp(off, n, c) /\ Cut(n, c, t, D, off, max)
  <2>1. Cut(n, c, t, D, off, max)
    BY DEF Sending
  <2>2. n \in 1..IdxMod /\ AddsUp(off, n, c)
    BY <2>1, Zenon DEF Cut
  <2> QED
    BY <2>1, <2>2
<1>8. /\ c[i] \in Nat /\ base[i - 1] \in Nat /\ base[i] \in Nat
      /\ base[i] = base[i - 1] + (c[i] + t[i]) /\ t[i] \in Nat
      /\ i < k => base[i] <= base[k - 1]
  BY PlaceOf
<1>9. /\ c[k] \in Nat /\ base[k - 1] \in Nat /\ base[k] \in Nat
      /\ base[k] = base[k - 1] + (c[k] + t[k]) /\ t[k] \in Nat
      /\ k < i => base[k] <= base[i - 1]
  BY PlaceOf
<1>10. off[i - 1] \in Nat /\ off[k - 1] \in Nat /\ off[i - 1] + j <= off[i] /\ off[i] \in Nat
  <2>1. off[i - 1] \in Nat /\ off[k - 1] \in Nat /\ off[i - 1] + j <= off[i]
    BY <1>7, PieceOfBlock
  <2>2. i \in 0..n
    BY <1>7
  <2> QED
    BY <1>7, <2>1, <2>2 DEF AddsUp
<1>11. ~(k < i)
  <2>1. ASSUME k < i PROVE FALSE
    <3> DEFINE u == base[i - 1]
               v == base[k - 1]
               w == base[k]
               a == c[k]
               b == t[k]
    <3>1. u \in Nat /\ v \in Nat /\ w \in Nat /\ a \in Nat /\ b \in Nat
          /\ w <= u /\ w = v + (a + b)
      BY <1>8, <1>9, <2>1
    <3>2. p = u + j /\ q = v + l /\ l \in 1..a /\ j \in Nat
      BY <1>2, <1>4, <1>8
    <3> HIDE DEF u, v, w, a, b
    <3>3. q <= u
      BY <3>1, <3>2
    <3> QED
      BY <3>1, <3>2, <3>3
  <2> QED
    BY <2>1
<1>12. j \in Nat /\ l \in Nat /\ l >= 1
  <2> DEFINE a == c[i]
             b == c[k]
  <2>1. a \in Nat /\ b \in Nat /\ j \in 1..a /\ l \in 1..b
    BY <1>8, <1>9
  <2> HIDE DEF a, b
  <2> QED
    BY <2>1
<1>13. x < y
  <2>1. CASE i = k
    <3> DEFINE u == base[i - 1]
               v == off[i - 1]
    <3>1. u \in Nat /\ v \in Nat /\ p = u + j /\ q = u + l /\ x = v + j /\ y = v + l
      BY <1>2, <1>4, <1>8, <1>10, <2>1
    <3> HIDE DEF u, v
    <3> QED
      BY <1>12, <3>1
  <2>2. CASE i < k
    <3>1. i \in 0..n /\ k - 1 \in 0..n /\ i <= k - 1
      BY <1>7, <2>2
    <3>2. off[i] <= off[k - 1]
      BY <1>7, <3>1, OffsetsGrow
    <3> DEFINE u == off[i - 1]
               v == off[i]
               w == off[k - 1]
    <3>3. u \in Nat /\ v \in Nat /\ w \in Nat /\ u + j <= v /\ v <= w /\ x = u + j /\ y = w + l
      BY <1>10, <3>2
    <3> HIDE DEF u, v, w
    <3> QED
      BY <1>12, <3>3
  <2> QED
    BY <1>7, <1>11, <2>1, <2>2
<1> HIDE DEF x, y
<1>14. \A u \in D[x], v \in D[y] : u < v
  BY <1>5, <1>13 DEF Sending, Pieces
<1> QED
  BY <1>5, <1>14

LEMMA SendingCarries ==
  ASSUME NEW data, NEW max, NEW first, NEW n, NEW c, NEW t, NEW D, NEW off, NEW base,
         Sending(data, max, first, n, c, t, D, off, base), data = frame.data
  PROVE  FrameCarried
<1>1. Pieces(D, data)
  BY DEF Sending
<1>2. ASSUME NEW p \in 1..Len(sent)
      PROVE  /\ sent[p].data \subseteq data
             /\ Cardinality(sent[p].data) <= FEC_PACKET_MAX_PAYLOAD_SIZE
  <2>1. CASE sent[p].data = {}
    <3>1. 0 <= FEC_PACKET_MAX_PAYLOAD_SIZE
      BY FECEncoderAssumption
    <3> QED
      BY <2>1, <3>1, FS_EmptySet
  <2>2. CASE sent[p].data # {}
    <3>1. PICK x \in 1..Len(D) : sent[p].data = D[x]
      BY <2>2, SentPiece
    <3> QED
      BY <1>1, <3>1 DEF Pieces
  <2> QED
    BY <2>1, <2>2
<1>3. ASSUME NEW u \in data PROVE \E p \in 1..Len(sent) : u \in sent[p].data
  <2>1. PICK y \in 1..Len(D) : u \in D[y]
    BY <1>1 DEF Pieces
  <2> QED
    BY <2>1, PieceSent
<1>4. UNION {sent[i].data : i \in 1..Len(sent)} = frame.data
  BY <1>2, <1>3
<1>5. ASSUME NEW i \in 1..Len(sent), NEW j \in (i + 1)..Len(sent)
      PROVE  \A x \in sent[i].data, y \in sent[j].data : x < y
  <2>1. Len(sent) \in Nat
    BY DEF Sending, Placed
  <2>2. j \in 1..Len(sent) /\ i < j
    BY <2>1
  <2> QED
    BY <2>2, SentInOrder
<1> QED
  BY <1>2, <1>4, <1>5 DEF FrameCarried

\* One block further is one index further, also over the wrap.
LEMMA IndexStep ==
  ASSUME NEW x \in Int
  PROVE  /\ (((x + 1) % IdxMod) - (x % IdxMod)) % IdxMod = 1
         /\ ((x % IdxMod) - (x % IdxMod)) % IdxMod = 0
<1> DEFINE a == (x + 1) \div IdxMod
           b == x \div IdxMod
           u == (x + 1) % IdxMod
           v == x % IdxMod
<1>1. IdxMod \in Nat \ {0} /\ 0 \in 0..(IdxMod - 1) /\ 1 \in 0..(IdxMod - 1) /\ x + 1 \in Int
  BY FECEncoderAssumption
<1>2. x + 1 = IdxMod * a + u /\ a \in Int /\ u \in 0..(IdxMod - 1)
  BY <1>1, Division
<1>3. x = IdxMod * b + v /\ b \in Int /\ v \in 0..(IdxMod - 1)
  BY <1>1, Division
<1> HIDE DEF a, b, u, v
<1>4. b - a \in Int /\ u - v = IdxMod * (b - a) + 1 /\ v - v = IdxMod * 0 + 0
  BY <1>1, <1>2, <1>3
<1> DEFINE d == b - a
<1>5. d \in Int /\ u - v = IdxMod * d + 1
  BY <1>4
<1> HIDE DEF d
<1>6. (IdxMod * d + 1) % IdxMod = 1
  BY <1>1, <1>5, DivisionUnique
<1>7. (IdxMod * 0 + 0) % IdxMod = 0
  BY <1>1, DivisionUnique
<1>8. (u - v) % IdxMod = 1 /\ (v - v) % IdxMod = 0
  BY <1>4, <1>5, <1>6, <1>7
<1> QED
  BY <1>8 DEF u, v

\* The index that follows a fragment: the same in its block, one more behind it.
NextIdx(p) == IF p = Len(sent) THEN m_curr_block_idx ELSE sent[p + 1].block_idx

LEMMA NextIdxSteps ==
  ASSUME NEW data, NEW max, NEW first, NEW n, NEW c, NEW t, NEW D, NEW off, NEW base,
         Sending(data, max, first, n, c, t, D, off, base), NEW p \in 1..Len(sent)
  PROVE  (NextIdx(p) - sent[p].block_idx) % IdxMod
           = IF p = Len(sent) \/ sent[p + 1].fragment_idx = 0 THEN 1 ELSE 0
<1>1. PICK i \in 1..n : \E j \in 1..(c[i] + t[i]) :
        p = base[i - 1] + j /\ sent[p] = FragmentOf(first, c, D, off, i, j)
  BY FragmentAt
<1>2. PICK j \in 1..(c[i] + t[i]) : p = base[i - 1] + j
  BY <1>1
<1> DEFINE u == base[i - 1]
           v == base[i]
           w == c[i] + t[i]
           z == Len(sent)
           x == first + (i - 1)
<1>3. /\ u \in Nat /\ v \in Nat /\ w \in Nat \ {0} /\ z \in Nat /\ v = u + w /\ v <= z
      /\ p = u + j /\ j \in 1..w
  <2>1. c[i] \in Nat \ {0} /\ t[i] \in Nat
    BY PlaceOf
  <2>2. w \in Nat \ {0}
    BY <2>1
  <2> QED
    BY <1>2, <2>2, PlaceOf
<1>4. n \in Nat /\ first \in Nat /\ base[n] = z /\ m_curr_block_idx = (first + n) % IdxMod
  BY FECEncoderAssumption DEF Sending, Cut, Placed
<1>5. sent[p].block_idx = x % IdxMod /\ x \in Int
  <2>1. sent[p].block_idx = Idx(first, i)
    BY <1>2, PrimaryCarries
  <2> QED
    BY <1>4, <2>1 DEF Idx
<1>6. CASE j < w
  <2> DEFINE l == j + 1
  <2>1. l \in 1..(c[i] + t[i])
    BY <1>3, <1>6
  <2> HIDE DEF l
  <2>2. /\ u + l \in 1..z
        /\ sent[u + l].block_idx = Idx(first, i) /\ sent[u + l].fragment_idx = l - 1
    BY <2>1, HeaderAt
  <2>3. u + l = p + 1 /\ p # z /\ l - 1 # 0
    <3> HIDE DEF u, v, w, z
    <3> QED
      BY <1>3, <1>6 DEF l
  <2>4. NextIdx(p) = x % IdxMod /\ sent[p + 1].fragment_idx # 0
    BY <2>2, <2>3 DEF NextIdx, Idx
  <2> HIDE DEF u, v, w, z, x
  <2> QED
    BY <1>5, <2>3, <2>4, IndexStep DEF z
<1>7. CASE j = w
  <2>1. p = v
    BY <1>3, <1>7
  <2>2. CASE i = n
    <3>1. p = z /\ (first + n) = x + 1
      BY <1>4, <2>1, <2>2
    <3>2. NextIdx(p) = (x + 1) % IdxMod
      BY <1>4, <3>1 DEF NextIdx
    <3> HIDE DEF x, u, v, w
    <3> QED
      BY <1>5, <3>1, <3>2, IndexStep
  <2>3. CASE i # n
    <3> DEFINE k == i + 1
    <3>1. k \in 1..n /\ k - 1 = i /\ first + (k - 1) = x + 1
      BY <1>4, <2>3
    <3> DEFINE l == 1
    <3>2. l \in 1..(c[k] + t[k])
      <4>1. c[k] \in Nat \ {0} /\ t[k] \in Nat
        BY <3>1, PlaceOf
      <4> QED
        BY <4>1
    <3> HIDE DEF k, l
    <3>3. /\ base[k - 1] + l \in 1..Len(sent)
          /\ sent[base[k - 1] + l].block_idx = Idx(first, k)
          /\ sent[base[k - 1] + l].fragment_idx = l - 1
      BY <3>1, <3>2, HeaderAt
    <3>4. base[k - 1] + l = p + 1 /\ l - 1 = 0
      BY <2>1, <3>1 DEF l
    <3>5. p # z
      <4>1. v + 1 \in 1..z
        BY <2>1, <3>3, <3>4
      <4> HIDE DEF u, v, w, z
      <4> QED
        BY <1>3, <2>1, <4>1
    <3>6. NextIdx(p) = (x + 1) % IdxMod /\ sent[p + 1].fragment_idx = 0
      BY <3>1, <3>3, <3>4, <3>5 DEF NextIdx, Idx
    <3> HIDE DEF x, u, v, w, z
    <3> QED
      BY <1>5, <3>6, IndexStep
  <2> QED
    BY <2>2, <2>3
<1>8. j < w \/ j = w
  <2> HIDE DEF u, v, w, z
  <2> QED
    BY <1>3
<1> QED
  BY <1>6, <1>7, <1>8

\* How many fragments of a block were sent before one of them.
LEMMA SentBefore ==
  ASSUME NEW data, NEW max, NEW first, NEW n, NEW c, NEW t, NEW D, NEW off, NEW base,
         Sending(data, max, first, n, c, t, D, off, base),
         NEW i \in 1..n, NEW j \in 1..(c[i] + t[i])
  PROVE  Cardinality({p \in OfBlock(Idx(first, i)) : p < base[i - 1] + j}) = j - 1
<1> DEFINE u == base[i - 1]
           v == base[i]
           w == c[i] + t[i]
<1>1. u \in Nat /\ v \in Nat /\ w \in Nat /\ v = u + w
  <2>1. c[i] \in Nat \ {0} /\ t[i] \in Nat
    BY PlaceOf
  <2>2. w \in Nat
    BY <2>1
  <2> QED
    BY <2>2, PlaceOf
<1>2. OfBlock(Idx(first, i)) = (u + 1)..v
  BY BlockPlaces
<1>3. j \in 1..w
  OBVIOUS
<1> HIDE DEF u, v, w
<1>4. {p \in (u + 1)..v : p < u + j} = (u + 1)..(u + (j - 1))
  BY <1>1, <1>3
<1>5. Cardinality((u + 1)..(u + (j - 1))) = j - 1
  <2> DEFINE y == u + (j - 1)
  <2>1. y \in Nat /\ u <= y /\ y - u = j - 1
    BY <1>1, <1>3
  <2> HIDE DEF y
  <2>2. Cardinality((u + 1)..y) = y - u
    BY <1>1, <2>1, IntervalCount
  <2>3. Cardinality((u + 1)..y) = j - 1
    BY <2>1, <2>2
  <2> QED
    BY <2>3 DEF y
<1> QED
  BY <1>2, <1>4, <1>5 DEF u

LEMMA PrimaryCount ==
  ASSUME NEW data, NEW max, NEW first, NEW n, NEW c, NEW t, NEW D, NEW off, NEW base,
         Sending(data, max, first, n, c, t, D, off, base), NEW i \in 1..n
  PROVE  Cardinality(Primary(Idx(first, i))) = c[i]
<1> DEFINE u == base[i - 1]
           w == c[i]
           y == u + w
<1>1. u \in Nat /\ w \in Nat
  BY PlaceOf
<1>2. Primary(Idx(first, i)) = (u + 1)..y
  BY BlockPlaces
<1> HIDE DEF u, w
<1>3. y \in Nat /\ u <= y /\ y - u = w
  BY <1>1
<1> HIDE DEF y
<1>4. Cardinality((u + 1)..y) = y - u
  BY <1>1, <1>3, IntervalCount
<1>5. Cardinality(Primary(Idx(first, i))) = w
  BY <1>2, <1>3, <1>4
<1> QED
  BY <1>5 DEF w

LEMMA SendingDecodable ==
  ASSUME NEW data, NEW max, NEW first, NEW n, NEW c, NEW t, NEW D, NEW off, NEW base,
         Sending(data, max, first, n, c, t, D, off, base)
  PROVE  BlocksDecodable
<1>1. ASSUME NEW b \in IdxSent, NEW p \in OfBlock(b)
      PROVE  /\ sent[p].fragment_idx = Cardinality({q \in OfBlock(b) : q < p})
             /\ sent[p].data # {} <=> sent[p].fragment_idx < Cardinality(Primary(b))
             /\ Cardinality(Primary(b)) < HdrMod =>
                  sent[p].n_primary_fragments = Cardinality(Primary(b))
  <2>1. p \in 1..Len(sent) /\ sent[p].block_idx = b
    BY DEF OfBlock
  <2>2. PICK i \in 1..n : \E j \in 1..(c[i] + t[i]) :
          p = base[i - 1] + j /\ sent[p] = FragmentOf(first, c, D, off, i, j)
    BY <2>1, FragmentAt
  <2>3. PICK j \in 1..(c[i] + t[i]) : p = base[i - 1] + j
    BY <2>2
  <2>4. /\ sent[p].block_idx = Idx(first, i) /\ sent[p].fragment_idx = j - 1
        /\ sent[p].n_primary_fragments = Header(c[i])
        /\ sent[p].data # {} <=> j <= c[i]
    BY <2>3, PrimaryCarries
  <2>5. b = Idx(first, i)
    BY <2>1, <2>4
  <2>6. Cardinality({q \in OfBlock(b) : q < p}) = j - 1
    BY <2>3, <2>5, SentBefore
  <2>7. Cardinality(Primary(b)) = c[i]
    BY <2>5, PrimaryCount
  <2>8. (j <= c[i] <=> j - 1 < c[i]) /\ (c[i] < HdrMod => Header(c[i]) = c[i])
    <3>1. c[i] \in Nat \ {0} /\ t[i] \in Nat
      BY PlaceOf
    <3> QED
      BY <3>1, HeaderCounts
  <2> QED
    BY <2>4, <2>6, <2>7, <2>8
<1>2. \A p \in 1..Len(sent) :
        (NextIdx(p) - sent[p].block_idx) % IdxMod
          = IF p = Len(sent) \/ sent[p + 1].fragment_idx = 0 THEN 1 ELSE 0
  BY NextIdxSteps
<1> QED
  BY <1>1, <1>2 DEF BlocksDecodable, NextIdx

\* There are not more indices than blocks.
LEMMA IndexCount ==
  ASSUME NEW data, NEW max, NEW first, NEW n, NEW c, NEW t, NEW D, NEW off, NEW base,
         Sending(data, max, first, n, c, t, D, off, base)
  PROVE  n \in Nat /\ Cardinality(IdxSent) \in Nat /\ Cardinality(IdxSent) <= n
<1> DEFINE f == [i \in 1..n |-> Idx(first, i)]
<1>1. IdxSent = {Idx(first, i) : i \in 1..n}
  BY IndicesSent
<1>2. f \in Surjection(1..n, IdxSent)
  BY <1>1 DEF Surjection
<1>3. n \in Nat
  BY FECEncoderAssumption DEF Sending, Cut
<1>4. IsFiniteSet(1..n) /\ Cardinality(1..n) = n
  <2>1. 1 \in Int /\ n \in Int
    BY <1>3
  <2>2. IsFiniteSet(1..n) /\ Cardinality(1..n) = IF 1 > n THEN 0 ELSE n - 1 + 1
    BY <2>1, FS_Interval
  <2> QED
    BY <1>3, <2>2
<1> HIDE DEF f
<1>5. IsFiniteSet(IdxSent) /\ Cardinality(IdxSent) <= n
  BY <1>2, <1>4, FS_Surjection
<1> QED
  BY <1>3, <1>5, FS_CardinalityType

\* All pieces are sent, each in a fragment of its own.
LEMMA PiecesCounted ==
  ASSUME NEW data, NEW max, NEW first, NEW n, NEW c, NEW t, NEW D, NEW off, NEW base,
         Sending(data, max, first, n, c, t, D, off, base)
  PROVE  /\ Cardinality({p \in 1..Len(sent) : sent[p].data # {}}) \in Nat
         /\ Len(D) <= Cardinality({p \in 1..Len(sent) : sent[p].data # {}})
<1> DEFINE S == {p \in 1..Len(sent) : sent[p].data # {}}
           T == 1..Len(D)
           g == [y \in T |-> CHOOSE p \in S : sent[p].data = D[y]]
<1>1. Pieces(D, data) /\ Len(sent) \in Nat /\ Len(D) \in Nat
  BY DEF Sending, Placed, Pieces
<1>2. IsFiniteSet(S)
  <2>1. 1 \in Int /\ Len(sent) \in Int
    BY <1>1
  <2>2. IsFiniteSet(1..Len(sent))
    BY <2>1, FS_Interval
  <2>3. S \in SUBSET (1..Len(sent))
    OBVIOUS
  <2> HIDE DEF S
  <2> QED
    BY <2>2, <2>3, FS_Subset
<1>3. IsFiniteSet(T) /\ Cardinality(T) = Len(D)
  <2>1. 1 \in Int /\ Len(D) \in Int
    BY <1>1
  <2>2. IsFiniteSet(1..Len(D)) /\ Cardinality(1..Len(D)) = IF 1 > Len(D) THEN 0 ELSE Len(D) - 1 + 1
    BY <2>1, FS_Interval
  <2> QED
    BY <1>1, <2>2
<1>4. ASSUME NEW y \in T PROVE g[y] \in S /\ sent[g[y]].data = D[y]
  <2>1. D[y] # {}
    BY <1>1 DEF Pieces
  <2>2. \E p \in S : sent[p].data = D[y]
    BY <2>1, PieceSent
  <2> HIDE DEF S
  <2> QED
    BY <2>2
<1>5. ASSUME NEW x \in T, NEW y \in T, D[x] = D[y] PROVE x = y
  <2>1. D[x] \subseteq Nat /\ D[x] # {}
    BY <1>1 DEF Pieces
  <2>2. PICK u \in D[x] : u \in Nat
    BY <2>1
  <2>3. ~(x < y)
    BY <1>1, <1>5, <2>2 DEF Pieces
  <2>4. ~(y < x)
    BY <1>1, <1>5, <2>2 DEF Pieces
  <2> QED
    BY <2>3, <2>4
<1>6. g \in [T -> S]
  <2> HIDE DEF S, T
  <2>1. g = [y \in T |-> g[y]]
    OBVIOUS
  <2> HIDE DEF g
  <2> QED
    BY <1>4, <2>1
<1> HIDE DEF g, S, T
<1>7. \A x, y \in T : g[x] = g[y] => x = y
  BY <1>4, <1>5
<1>8. g \in Injection(T, S)
  BY <1>6, <1>7 DEF Injection, IsInjective
<1>9. Cardinality(T) <= Cardinality(S)
  BY <1>2, <1>8, FS_Injection
<1>10. Cardinality(S) \in Nat
  BY <1>2, FS_CardinalityType
<1> QED
  BY <1>3, <1>9, <1>10 DEF S

LEMMA SendingSplitsEvenly ==
  ASSUME NEW data, NEW max, NEW first, NEW n, NEW c, NEW t, NEW D, NEW off, NEW base,
         Sending(data, max, first, n, c, t, D, off, base), max = frame.max_block_size
  PROVE  EvenlySplit
<1>1. Cut(n, c, t, D, off, max) /\ Pieces(D, data)
  BY DEF Sending
<1>2. ASSUME NEW m \in PrimaryCounts PROVE \E i \in 1..n : m = c[i]
  <2>1. PICK b \in IdxSent : m = Cardinality(Primary(b))
    BY DEF PrimaryCounts
  <2>2. PICK i \in 1..n : b = Idx(first, i)
    BY <2>1, IndicesSent
  <2> QED
    BY <2>1, <2>2, PrimaryCount
<1>3. \A m \in PrimaryCounts : m <= frame.max_block_size
  BY <1>1, <1>2 DEF Cut
<1>4. \A m, k \in PrimaryCounts : m <= k + 1
  BY <1>1, <1>2 DEF Cut
<1>5. (Cardinality(IdxSent) - 1) * frame.max_block_size
        < Cardinality({i \in 1..Len(sent) : sent[i].data # {}})
  <2> DEFINE a == Cardinality(IdxSent)
             s == Cardinality({i \in 1..Len(sent) : sent[i].data # {}})
             l == Len(D)
  <2>1. a \in Nat /\ n \in Nat /\ a <= n
    BY IndexCount
  <2>2. s \in Nat /\ l <= s
    BY PiecesCounted
  <2>3. max \in Nat /\ (n - 1) * max < l /\ l \in Nat
    BY <1>1 DEF Cut, Pieces
  <2> HIDE DEF a, s, l
  <2> DEFINE d == n - a
             e == a - 1
  <2>4. d \in Nat /\ e \in Int /\ n - 1 = e + d
    BY <2>1
  <2> HIDE DEF d, e
  <2>5. (e + d) * max = e * max + d * max /\ d * max \in Nat /\ e * max \in Int
    BY <2>3, <2>4
  <2>6. (e + d) * max < l
    BY <2>3, <2>4
  <2>7. e * max < s
    BY <2>2, <2>3, <2>5, <2>6
  <2> QED
    BY <2>7 DEF a, s, e
<1>6. ASSUME NEW b \in IdxSent, NEW p \in Primary(b), NEW q \in Primary(b)
      PROVE  Cardinality(sent[p].data) <= Cardinality(sent[q].data) + 1
  <2>1. /\ p \in 1..Len(sent) /\ sent[p].data # {}
        /\ q \in 1..Len(sent) /\ sent[q].data # {}
    BY DEF Primary, OfBlock
  <2>2. PICK x \in 1..Len(D) : sent[p].data = D[x]
    BY <2>1, SentPiece
  <2>3. PICK y \in 1..Len(D) : sent[q].data = D[y]
    BY <2>1, SentPiece
  <2> QED
    BY <1>1, <2>2, <2>3 DEF Pieces
<1> QED
  BY <1>3, <1>4, <1>5, <1>6 DEF EvenlySplit

-----------------------------------------------------------------------------
(* The actions *)

\* The inductive invariant: what was sent last is a frame cut into blocks, and
\* only a call beyond the limits ends the program.
IInv ==
  /\ m_curr_block_idx \in Nat
  /\ EncoderAsserts
  /\ \/ sent = <<>> /\ frame.data = {}
     \/ \E first, n, c, t, D, off, base :
          Sending(frame.data, frame.max_block_size, first, n, c, t, D, off, base)

LEMMA SecondaryCounts ==
  ASSUME NEW k \in Nat, NEW perc \in Nat
  PROVE  NSecondary(k, perc) \in Nat
<1> DEFINE a == k * perc
<1>1. a \in Nat /\ 2 * k * perc = 2 * a
  OBVIOUS
<1>2. NSecondary(k, perc) = IF perc = 0 THEN 0 ELSE IF a <= 100 THEN 1 ELSE (2 * a + 100) \div 200
  BY <1>1 DEF NSecondary
<1> HIDE DEF a
<1>3. (2 * a + 100) \div 200 \in Nat
  BY <1>1
<1> QED
  BY <1>2, <1>3

\* Up to 100 %, the secondary fragments of a block fit the encoder's buffer
\* (FEC.cpp:14-24, FECEncoder.cpp:20).
LEMMA SecondaryFit ==
  ASSUME NEW k \in 1..MAX_N_P_FRAGMENTS_PER_BLOCK, NEW perc \in Nat,
         MAX_N_P_FRAGMENTS_PER_BLOCK * perc <= 100 * MAX_N_S_FRAGMENTS_PER_BLOCK
  PROVE  NSecondary(k, perc) \in Nat /\ NSecondary(k, perc) <= MAX_N_S_FRAGMENTS_PER_BLOCK
<1> DEFINE P == MAX_N_P_FRAGMENTS_PER_BLOCK
           M == MAX_N_S_FRAGMENTS_PER_BLOCK
           a == k * perc
<1>1. /\ P \in Nat \ {0} /\ M \in Nat /\ perc \in Nat /\ P * perc <= 100 * M
  BY FECEncoderAssumption
<1>2. k \in Nat \ {0} /\ k <= P
  BY <1>1
<1> HIDE DEF P, M
<1>3. a \in Nat /\ a <= 100 * M
  <2>1. P - k \in Nat /\ P * perc = k * perc + (P - k) * perc
    BY <1>1, <1>2
  <2>2. (P - k) * perc \in Nat /\ k * perc \in Nat
    BY <1>1, <1>2, <2>1
  <2> QED
    BY <1>1, <2>1, <2>2
<1>4. perc # 0 => a >= 1
  <2>1. ASSUME perc # 0 PROVE a >= 1
    <3>1. perc >= 1 /\ k >= 1
      BY <1>1, <1>2, <2>1
    <3> QED
      BY <1>1, <1>2, <3>1
  <2> QED
    BY <2>1
<1>5. 2 * k * perc = 2 * a
  BY <1>1, <1>2
<1>6. NSecondary(k, perc) = IF perc = 0 THEN 0 ELSE IF a <= 100 THEN 1 ELSE (2 * a + 100) \div 200
  BY <1>5 DEF NSecondary
<1> HIDE DEF a
<1> DEFINE s == NSecondary(k, perc)
<1>7. s \in Nat /\ s <= M
  <2> HIDE DEF s
  <2>1. s = IF perc = 0 THEN 0 ELSE IF a <= 100 THEN 1 ELSE (2 * a + 100) \div 200
    BY <1>6 DEF s
  <2>2. (2 * a + 100) \div 200 \in Nat /\ (2 * a + 100) \div 200 <= M
    BY <1>1, <1>3
  <2> QED
    BY <1>1, <1>3, <1>4, <2>1, <2>2
<1> QED
  BY <1>7 DEF s, M

\* Any frame cut into blocks is a step of the invariant.
LEMMA SendKeeps ==
  ASSUME m_curr_block_idx \in Nat, NEW n, NEW c, NEW t, NEW D, NEW off, NEW max, NEW data,
         Pieces(D, data), Cut(n, c, t, D, off, max),
         NEW blocks, Made(blocks, n, c, t, D, off),
         Send(blocks, data, max)
  PROVE  IInv'
<1>1. PICK base : Placed(sent', m_curr_block_idx', m_curr_block_idx, n, c, t, D, off, base)
  BY SendPlaces
<1>2. frame'.data = data /\ frame'.max_block_size = max
  BY DEF Send
<1>3. m_curr_block_idx' \in Nat
  <2>1. m_curr_block_idx + n \in Int /\ IdxMod \in Nat \ {0}
    BY FECEncoderAssumption DEF Cut
  <2>2. (m_curr_block_idx + n) % IdxMod \in Nat
    BY <2>1, Division
  <2> QED
    BY <1>1, <2>2 DEF Placed
<1>4. \E first, x, c1, t1, D1, off1, base1 :
        Sending(frame.data, frame.max_block_size, first, x, c1, t1, D1, off1, base1)'
  <2> DEFINE first == m_curr_block_idx
  <2>1. first \in Nat
    OBVIOUS
  <2> HIDE DEF first
  <2>2. Placed(sent', m_curr_block_idx', first, n, c, t, D, off, base)
    BY <1>1 DEF first
  <2> QED
    BY <1>2, <2>1, <2>2 DEF Sending
<1>5. failed' = {}
  BY DEF Send
<1> QED
  BY <1>3, <1>4, <1>5 DEF IInv, EncoderAsserts

\* So is a call that fails beyond the limits.
LEMMA FailKeeps ==
  ASSUME NEW call, BeyondLimits(call), Fail(call)
  PROVE  IInv'
BY DEF Fail, IInv, EncoderAsserts, NoFrame

\* WBStreamTx::process_enqueued_block: the user's fragments, one block or more.
LEMMA BlockKeeps ==
  ASSUME IInv, NEW nf \in FragmentCounts, NEW max \in MaxBlockSizes, NEW perc \in Overheads,
         ProcessEnqueuedBlock(nf, max, perc)
  PROVE  IInv'
<1> DEFINE sizes == BlockSizes(nf, max)
           blocks == [i \in 1..Len(sizes) |->
             [primary |-> [f \in 1..sizes[i] |-> {Before(sizes, i) + f}],
              n_primary |-> sizes[i], n_secondary |-> NSecondary(sizes[i], perc)]]
<1>1. \/ Send(blocks, 1..nf, max)
      \/ /\ ~(\A i \in 1..Len(blocks) : BlockFits(blocks[i]))
         /\ Fail(Call("block", nf, max, perc))
  BY DEF ProcessEnqueuedBlock
<1>2. /\ nf \in Nat \ {0} /\ max \in Nat \ {0} /\ perc \in Nat
      /\ nf <= max * IdxMod /\ IdxMod \in Nat \ {0}
      /\ FEC_PACKET_MAX_PAYLOAD_SIZE \in Nat \ {0}
      /\ MAX_N_P_FRAGMENTS_PER_BLOCK \in Nat
  BY FECEncoderAssumption
<1>3. PICK n, q, r : SplitInto(nf, max, sizes, n, q, r)
  BY <1>2, BlockSizesSplit
<1> HIDE DEF sizes
<1>4. /\ n \in Nat \ {0} /\ q \in Nat \ {0} /\ r \in 0..(n - 1) /\ nf = n * q + r
      /\ sizes = [i \in 1..n |-> Hand(q, r, i)]
      /\ \A i \in 1..n : Hand(q, r, i) \in Nat \ {0} /\ Hand(q, r, i) <= max
      /\ (n - 1) * max < nf
  BY <1>3 DEF SplitInto
<1> DEFINE t == [i \in 1..n |-> NSecondary(sizes[i], perc)]
           D == [x \in 1..nf |-> {x}]
           off == [i \in 0..n |-> Dealt(q, r, i)]
<1>5. Len(sizes) = n /\ \A i \in 1..n : sizes[i] = Hand(q, r, i)
  BY <1>4
<1>6. AddsUp(off, n, sizes) /\ off[n] = nf
  <2>1. \A i \in 0..n : off[i] \in Nat
    <3> TAKE i \in 0..n
    <3>1. i * q \in Nat /\ i \in Nat /\ r \in Nat
      BY <1>4
    <3> QED
      BY <3>1 DEF Dealt
  <2>2. off[0] = 0
    BY <1>4 DEF Dealt
  <2>3. ASSUME NEW i \in 1..n PROVE sizes[i] \in Nat /\ off[i] = off[i - 1] + sizes[i]
    <3>1. i \in Nat \ {0} /\ i \in 0..n /\ i - 1 \in 0..n /\ q \in Nat /\ r \in Nat
      BY <1>4
    <3>2. Dealt(q, r, i) = Dealt(q, r, i - 1) + Hand(q, r, i)
      BY <3>1, DealtStep
    <3> QED
      BY <1>4, <1>5, <3>1, <3>2
  <2>4. n \in 0..n /\ Dealt(q, r, n) = nf
    BY <1>4, DealtAll
  <2> QED
    BY <2>1, <2>2, <2>3, <2>4 DEF AddsUp
<1>7. Pieces(D, 1..nf)
  <2>1. Len(D) = nf
    BY <1>2
  <2>2. \A x \in 1..nf : D[x] = {x} /\ Cardinality(D[x]) = 1
    BY FS_Singleton
  <2> HIDE DEF D
  <2>3. \A x \in 1..nf : D[x] \subseteq Nat /\ D[x] # {} /\ Cardinality(D[x]) <= FEC_PACKET_MAX_PAYLOAD_SIZE
    BY <1>2, <2>2
  <2>4. \A x, y \in 1..nf : Cardinality(D[x]) <= Cardinality(D[y]) + 1
    BY <2>2
  <2>5. \A x, y \in 1..nf : x < y => \A u \in D[x], v \in D[y] : u < v
    BY <2>2
  <2>6. UNION {D[x] : x \in 1..nf} = 1..nf
    BY <2>2
  <2> QED
    BY <1>2, <2>1, <2>3, <2>4, <2>5, <2>6 DEF Pieces
<1>8. \A i \in 1..n : t[i] \in Nat
  <2> TAKE i \in 1..n
  <2>1. sizes[i] \in Nat
    BY <1>4, <1>5
  <2> QED
    BY <1>2, <2>1, SecondaryCounts
<1>9. Cut(n, sizes, t, D, off, max)
  <2>1. n \in 1..IdxMod
    <3>1. ASSUME n >= IdxMod + 1 PROVE FALSE
      <4> DEFINE d == (n - 1) - IdxMod
      <4>1. d \in Nat /\ n - 1 = IdxMod + d
        BY <1>2, <1>4, <3>1
      <4> HIDE DEF d
      <4>2. (IdxMod + d) * max = max * IdxMod + d * max /\ d * max \in Nat /\ max * IdxMod \in Nat
        BY <1>2, <4>1
      <4>3. (IdxMod + d) * max < nf
        BY <1>4, <4>1
      <4> QED
        BY <1>2, <4>2, <4>3
    <3> QED
      BY <1>2, <1>4, <3>1
  <2>2. Len(D) = nf
    BY <1>2
  <2>3. \A i, k \in 1..n : sizes[i] <= sizes[k] + 1
    <3>1. \A i \in 1..n : sizes[i] = q \/ sizes[i] = q + 1
      BY <1>4, <1>5 DEF Hand
    <3> TAKE i, k \in 1..n
    <3> DEFINE a == sizes[i]
               b == sizes[k]
    <3>2. (a = q \/ a = q + 1) /\ (b = q \/ b = q + 1)
      BY <3>1
    <3> HIDE DEF a, b
    <3>3. a <= b + 1
      BY <1>4, <3>2
    <3> QED
      BY <3>3 DEF a, b
  <2> HIDE DEF t, D, off
  <2> QED
    BY <1>2, <1>4, <1>5, <1>6, <1>8, <2>1, <2>2, <2>3 DEF Cut
<1>10. ASSUME NEW i \in 1..n PROVE blocks[i] = BlockOf(sizes, t, D, off, i)
  <2>1. blocks[i] = [primary |-> [f \in 1..sizes[i] |-> {Before(sizes, i) + f}],
                     n_primary |-> sizes[i], n_secondary |-> t[i]]
    BY <1>5
  <2>2. Before(sizes, i) = off[i - 1]
    <3> DEFINE k == i - 1
    <3>1. k \in 0..n
      BY <1>4
    <3> HIDE DEF k, off
    <3>2. SumFirst(sizes, k) = off[k]
      BY <1>4, <1>5, <1>6, <3>1, SumKnown
    <3> QED
      BY <3>2 DEF Before, k
  <2>3. \A f \in 1..sizes[i] : D[off[i - 1] + f] = {off[i - 1] + f}
    <3> TAKE f \in 1..sizes[i]
    <3>1. off[i - 1] + f \in 1..Len(D)
      <4> HIDE DEF t, D, off
      <4> QED
        BY <1>9, PieceOfBlock
    <3>2. Len(D) = nf
      BY <1>2
    <3> HIDE DEF off
    <3> QED
      BY <3>1, <3>2
  <2> HIDE DEF blocks, D, off, t
  <2> QED
    BY <2>1, <2>2, <2>3 DEF BlockOf
<1>11. Len(blocks) = n
  BY <1>4, <1>5
<1>12. ASSUME ~BeyondLimits(Call("block", nf, max, perc)), NEW i \in 1..n
       PROVE  BlockFits(blocks[i])
  <2> DEFINE P == MAX_N_P_FRAGMENTS_PER_BLOCK
  <2>1. blocks[i].n_primary = sizes[i] /\ blocks[i].n_secondary = t[i]
    BY <1>5, <1>11
  <2>2. (nf <= P \/ max <= P) /\ P * perc <= 100 * MAX_N_S_FRAGMENTS_PER_BLOCK
    <3>1. P * perc \in Nat /\ 100 * MAX_N_S_FRAGMENTS_PER_BLOCK \in Nat /\ P \in Nat
      BY <1>2, FECEncoderAssumption
    <3> QED
      BY <1>2, <1>12, <3>1 DEF BeyondLimits, Call
  <2>3. sizes[i] \in Nat \ {0} /\ sizes[i] <= max
    BY <1>4, <1>5
  <2>4. sizes[i] <= nf
    <3> HIDE DEF off
    <3> DEFINE u == off[i - 1]
               v == off[i]
    <3>1. i \in 0..n /\ n \in 0..n /\ i <= n /\ i - 1 \in 0..n
      BY <1>4
    <3>2. off[i] <= off[n]
      BY <1>4, <1>6, <3>1, OffsetsGrow
    <3>3. u \in Nat /\ v \in Nat /\ v = u + sizes[i] /\ v <= nf
      BY <1>6, <3>1, <3>2 DEF AddsUp
    <3> HIDE DEF u, v
    <3> QED
      BY <1>2, <2>3, <3>3
  <2>5. sizes[i] \in 1..P
    BY <1>2, <2>2, <2>3, <2>4
  <2>6. NSecondary(sizes[i], perc) <= MAX_N_S_FRAGMENTS_PER_BLOCK
    BY <1>2, <2>2, <2>5, SecondaryFit
  <2>7. t[i] = NSecondary(sizes[i], perc)
    OBVIOUS
  <2> HIDE DEF blocks, t
  <2> QED
    BY <1>2, <2>1, <2>5, <2>6, <2>7 DEF BlockFits
<1>13. m_curr_block_idx \in Nat
  BY DEF IInv
<1>14. Made(blocks, n, sizes, t, D, off)
  <2> HIDE DEF blocks, t, D, off
  <2> QED
    BY <1>10, <1>11 DEF Made
<1> HIDE DEF blocks, t, D, off
<1>15. CASE Send(blocks, 1..nf, max)
  BY <1>7, <1>9, <1>13, <1>14, <1>15, SendKeeps
<1>16. CASE /\ ~(\A i \in 1..Len(blocks) : BlockFits(blocks[i]))
            /\ Fail(Call("block", nf, max, perc))
  <2>1. BeyondLimits(Call("block", nf, max, perc))
    BY <1>11, <1>12, <1>16
  <2> QED
    BY <1>16, <2>1, FailKeeps
<1> QED
  BY <1>1, <1>15, <1>16

\* The pieces the bytes of a frame are distributed into.
LEMMA BytesInPieces ==
  ASSUME NEW size \in Nat \ {0}, NEW n \in Nat \ {0}, n <= size,
         size <= n * FEC_PACKET_MAX_PAYLOAD_SIZE
  PROVE  /\ Pieces(Distributed(size, n), 1..size)
         /\ Distributed(size, n) = [i \in 1..n |-> Distributed(size, n)[i]]
         /\ Len(Distributed(size, n)) = n
<1>1. PICK q, r : q \in Nat \ {0} /\ r \in 0..(n - 1) /\ size = n * q + r
  <2> DEFINE q == size \div n
             r == size % n
  <2>1. r \in 0..(n - 1) /\ size = n * q + r /\ q \in Int
    BY Division
  <2> HIDE DEF q, r
  <2>2. ASSUME q <= 0 PROVE FALSE
    <3>1. n * q <= 0
      BY <2>1, <2>2
    <3> QED
      BY <2>1, <3>1
  <2>3. q \in Nat \ {0}
    BY <2>1, <2>2
  <2> QED
    BY <2>1, <2>3
<1>2. q \in Nat \ {0}
  BY <1>1
<1> DEFINE off == [i \in 0..n |-> Dealt(q, r, i)]
           len == [i \in 1..n |-> Hand(q, r, i)]
           D == Distributed(size, n)
           F == FEC_PACKET_MAX_PAYLOAD_SIZE
<1>3. r \in Nat /\ q \in Nat /\ F \in Nat
  BY <1>1, FECEncoderAssumption
<1>4. D = [i \in 1..n |-> (Dealt(q, r, i - 1) + 1)..Dealt(q, r, i)]
  <2> HIDE DEF off, len, F
  <2>1. r \in 0..(n - 1) /\ size = n * q + r
    BY <1>1
  <2>2. Distributed(size, n) = DealtOut(n, q, r)
    BY <1>2, <2>1, DistributedDealt
  <2> QED
    BY <2>2 DEF DealtOut
<1> HIDE DEF D
<1>5. \A i \in 1..n : Hand(q, r, i) \in Nat \ {0} /\ Hand(q, r, i) <= F
  <2> HIDE DEF F
  <2> QED
    BY <1>1, <1>2, <1>3, HandBounded DEF F
<1>6. \A i \in 0..n : Dealt(q, r, i) \in Nat
  <2> TAKE i \in 0..n
  <2>1. i * q \in Nat /\ i \in Nat
    BY <1>3
  <2> QED
    BY <1>3, <2>1 DEF Dealt
<1>7. \A i \in 1..n : Dealt(q, r, i) = Dealt(q, r, i - 1) + Hand(q, r, i)
  <2> TAKE i \in 1..n
  <2>1. i \in Nat \ {0}
    OBVIOUS
  <2> QED
    BY <1>3, <2>1, DealtStep
<1>8. AddsUp(off, n, len) /\ off[n] = size
  <2>1. off[0] = 0
    BY <1>3 DEF Dealt
  <2>2. \A i \in 1..n : i \in 0..n /\ i - 1 \in 0..n
    OBVIOUS
  <2>3. \A i \in 1..n : len[i] \in Nat /\ off[i] = off[i - 1] + len[i]
    BY <1>5, <1>7, <2>2
  <2>4. n \in 0..n /\ Dealt(q, r, n) = size
    BY <1>1, <1>2, <1>3, DealtAll
  <2> QED
    BY <1>6, <2>1, <2>3, <2>4 DEF AddsUp
<1>9. \A i \in 1..n : D[i] = (off[i - 1] + 1)..off[i] /\ off[i] = off[i - 1] + len[i]
                     /\ off[i - 1] \in Nat /\ off[i] \in Nat
                     /\ len[i] \in Nat \ {0} /\ len[i] <= F /\ (len[i] = q \/ len[i] = q + 1)
  <2> TAKE i \in 1..n
  <2>1. i \in 0..n /\ i - 1 \in 0..n
    OBVIOUS
  <2>2. len[i] = q \/ len[i] = q + 1
    BY <1>1, <1>2 DEF Hand
  <2> QED
    BY <1>4, <1>5, <1>6, <1>7, <2>1, <2>2
<1>10. Len(D) = n /\ D = [i \in 1..n |-> D[i]]
  BY <1>4
<1> HIDE DEF off, len, F
<1>11. \A i \in 1..n : Cardinality(D[i]) = len[i]
  <2> TAKE i \in 1..n
  <2> DEFINE u == off[i - 1]
             v == off[i]
             w == len[i]
  <2>1. D[i] = (u + 1)..v /\ v = u + w /\ u \in Nat /\ v \in Nat /\ w \in Nat
    BY <1>9
  <2> HIDE DEF u, v, w
  <2>2. u <= v /\ v - u = w
    BY <2>1
  <2>3. Cardinality((u + 1)..v) = v - u
    BY <2>1, <2>2, IntervalCount
  <2>4. Cardinality(D[i]) = w
    BY <2>1, <2>2, <2>3
  <2> QED
    BY <2>4 DEF w
<1>12. \A x \in 1..n : D[x] \subseteq Nat /\ D[x] # {} /\ Cardinality(D[x]) <= F
  <2> TAKE x \in 1..n
  <2> DEFINE u == off[x - 1]
             v == off[x]
  <2>1. /\ D[x] = (u + 1)..v /\ v = u + len[x] /\ u \in Nat /\ v \in Nat
        /\ len[x] \in Nat \ {0} /\ len[x] <= F
    BY <1>9
  <2> HIDE DEF u, v
  <2>2. u + 1 \in D[x] /\ D[x] \subseteq Nat
    BY <2>1
  <2> QED
    BY <1>11, <2>1, <2>2
<1>13. \A x, y \in 1..n : Cardinality(D[x]) <= Cardinality(D[y]) + 1
  <2> TAKE x, y \in 1..n
  <2> DEFINE a == len[x]
             b == len[y]
  <2>1. (a = q \/ a = q + 1) /\ (b = q \/ b = q + 1)
    BY <1>9
  <2>2. Cardinality(D[x]) = a /\ Cardinality(D[y]) = b
    BY <1>11
  <2> HIDE DEF a, b
  <2> QED
    BY <1>3, <2>1, <2>2
<1>14. \A x, y \in 1..n : x < y => \A u \in D[x], v \in D[y] : u < v
  <2> SUFFICES ASSUME NEW x \in 1..n, NEW y \in 1..n, x < y, NEW u \in D[x], NEW v \in D[y]
               PROVE  u < v
    OBVIOUS
  <2>1. x \in 0..n /\ y - 1 \in 0..n /\ x <= y - 1
    OBVIOUS
  <2>2. off[x] <= off[y - 1]
    BY <1>8, <2>1, OffsetsGrow
  <2> DEFINE a == off[x - 1]
             b == off[x]
             d == off[y - 1]
             e == off[y]
  <2>3. /\ D[x] = (a + 1)..b /\ D[y] = (d + 1)..e /\ b <= d
        /\ a \in Nat /\ b \in Nat /\ d \in Nat /\ e \in Nat
    BY <1>9, <2>2
  <2> HIDE DEF a, b, d, e
  <2> QED
    BY <2>3
<1>15. UNION {D[x] : x \in 1..n} = 1..size
  <2>1. ASSUME NEW p \in 1..size PROVE \E x \in 1..n : p \in D[x]
    <3>1. PICK i \in 1..n : \E j \in 1..len[i] : p = off[i - 1] + j
      BY <1>8, OffsetsCover
    <3>2. PICK j \in 1..len[i] : p = off[i - 1] + j
      BY <3>1
    <3> DEFINE u == off[i - 1]
               v == off[i]
               w == len[i]
    <3>3. D[i] = (u + 1)..v /\ v = u + w /\ u \in Nat /\ v \in Nat /\ w \in Nat /\ p = u + j /\ j \in 1..w
      BY <1>9, <3>2
    <3> HIDE DEF u, v, w
    <3>4. p \in D[i]
      BY <3>3
    <3> QED
      BY <3>4
  <2>2. ASSUME NEW x \in 1..n, NEW p \in D[x] PROVE p \in 1..size
    <3>1. x \in 0..n /\ n \in 0..n /\ x <= n
      OBVIOUS
    <3>2. off[x] <= size
      BY <1>8, <3>1, OffsetsGrow
    <3> DEFINE u == off[x - 1]
               v == off[x]
    <3>3. D[x] = (u + 1)..v /\ u \in Nat /\ v \in Nat /\ v <= size
      BY <1>9, <3>2
    <3> HIDE DEF u, v
    <3> QED
      BY <3>3
  <2> QED
    BY <2>1, <2>2
<1>16. Pieces(D, 1..size)
  BY <1>10, <1>12, <1>13, <1>14, <1>15 DEF Pieces, F
<1> QED
  BY <1>10, <1>16 DEF D

\* A frame within the limits fits: the loop uses up its bytes
\* (FECEncoder.cpp:38-62).
LEMMA FrameFits ==
  ASSUME NEW size \in Nat \ {0}, NEW nP \in 1..MAX_N_P_FRAGMENTS_PER_BLOCK,
         NEW nS \in Nat, nS <= MAX_N_S_FRAGMENTS_PER_BLOCK,
         nP <= size, size <= nP * FEC_PACKET_MAX_PAYLOAD_SIZE,
         NEW b, b = [primary |-> Distributed(size, nP), n_primary |-> nP, n_secondary |-> nS]
  PROVE  FragmentsFit(b, size)
<1> DEFINE D == Distributed(size, nP)
           P == MAX_N_P_FRAGMENTS_PER_BLOCK
           M == MAX_N_S_FRAGMENTS_PER_BLOCK
<1>1. /\ nP \in Nat \ {0} /\ nP <= P /\ P \in Nat /\ M \in Nat /\ nS <= M
      /\ FEC_PACKET_MAX_PAYLOAD_SIZE \in Nat
  BY FECEncoderAssumption
<1>2. Pieces(D, 1..size) /\ D = [i \in 1..nP |-> D[i]]
  BY <1>1, BytesInPieces
<1>3. b.n_primary = nP /\ b.n_secondary = nS /\ b.primary = D
  OBVIOUS
<1> HIDE DEF D, P, M
<1>4. UNION Range(D) = 1..size
  <2>1. DOMAIN D = 1..nP /\ Len(D) = nP
    BY <1>1, <1>2
  <2>2. UNION {D[x] : x \in 1..nP} = 1..size
    BY <1>2, <2>1 DEF Pieces
  <2> QED
    BY <2>1, <2>2 DEF Range
<1>5. size <= FEC_PACKET_MAX_PAYLOAD_SIZE * nP /\ nP + nS <= P + M
  BY <1>1
<1> QED
  BY <1>1, <1>3, <1>4, <1>5
     DEF FragmentsFit, BlockFits, MAX_TOTAL_FRAGMENTS_PER_BLOCK, P, M

\* The frame that the encoder distributes itself is one block
\* (FECEncoder.cpp:16-68).
LEMMA FragmentKeeps ==
  ASSUME IInv, NEW size \in Nat \ {0}, NEW nP \in Nat \ {0}, NEW nS \in Nat,
         NEW call, nP <= size, size <= nP * FEC_PACKET_MAX_PAYLOAD_SIZE \/ BeyondLimits(call),
         ~BeyondLimits(call) =>
           nP <= MAX_N_P_FRAGMENTS_PER_BLOCK /\ nS <= MAX_N_S_FRAGMENTS_PER_BLOCK,
         FragmentAndEncode(call, size, nP, nS)
  PROVE  IInv'
<1> DEFINE D == Distributed(size, nP)
           P == MAX_TOTAL_FRAGMENTS_PER_BLOCK
           b == [primary |-> D, n_primary |-> nP, n_secondary |-> nS]
           blocks == <<b>>
           c == [i \in 1..1 |-> nP]
           t == [i \in 1..1 |-> nS]
           off == [i \in 0..1 |-> IF i = 0 THEN 0 ELSE nP]
<1>1. \/ FragmentsFit(b, size) /\ Send(blocks, 1..size, P)
      \/ ~FragmentsFit(b, size) /\ Fail(call)
  BY DEF FragmentAndEncode
<1>a. CASE ~FragmentsFit(b, size) /\ Fail(call)
  <2>1. ASSUME ~BeyondLimits(call) PROVE FALSE
    <3>1. nP \in 1..MAX_N_P_FRAGMENTS_PER_BLOCK /\ nS <= MAX_N_S_FRAGMENTS_PER_BLOCK
      BY <2>1, FECEncoderAssumption
    <3>2. size <= nP * FEC_PACKET_MAX_PAYLOAD_SIZE
      BY <2>1
    <3> HIDE DEF b
    <3>3. b = [primary |-> D, n_primary |-> nP, n_secondary |-> nS]
      BY DEF b
    <3> QED
      BY <1>a, <3>1, <3>2, <3>3, FrameFits
  <2> QED
    BY <1>a, <2>1, FailKeeps
<1> SUFFICES ASSUME FragmentsFit(b, size), Send(blocks, 1..size, P) PROVE IInv'
  BY <1>1, <1>a
<1>2. /\ nP <= P /\ P \in Nat \ {0} /\ size <= nP * FEC_PACKET_MAX_PAYLOAD_SIZE
      /\ FEC_PACKET_MAX_PAYLOAD_SIZE \in Nat
  <2>1. b.n_primary = nP /\ b.n_secondary = nS
    OBVIOUS
  <2>2. P \in Nat /\ FEC_PACKET_MAX_PAYLOAD_SIZE \in Nat
    BY FECEncoderAssumption DEF MAX_TOTAL_FRAGMENTS_PER_BLOCK
  <2> HIDE DEF b, P
  <2>3. size <= FEC_PACKET_MAX_PAYLOAD_SIZE * nP /\ nP + nS <= P
    BY <2>1 DEF FragmentsFit, P
  <2> QED
    BY <2>2, <2>3
<1>3. Pieces(D, 1..size) /\ D = [i \in 1..nP |-> D[i]] /\ Len(D) = nP
  BY <1>2, BytesInPieces
<1> HIDE DEF D, P
<1>5. Cut(1, c, t, D, off, P)
  <2>1. AddsUp(off, 1, c)
    BY <1>2 DEF AddsUp
  <2>2. off[1] = Len(D) /\ 1 \in 1..IdxMod
    BY <1>3, FECEncoderAssumption
  <2>3. \A i \in 1..1 : c[i] = nP /\ t[i] = nS
    OBVIOUS
  <2>4. (1 - 1) * P < Len(D)
    BY <1>2, <1>3
  <2> HIDE DEF c, t, off
  <2> QED
    BY <1>2, <2>1, <2>2, <2>3, <2>4 DEF Cut
<1>6. Len(blocks) = 1 /\ \A i \in 1..1 : blocks[i] = BlockOf(c, t, D, off, i)
  <2>1. [j \in 1..nP |-> D[off[1 - 1] + j]] = D
    <3>1. off[1 - 1] = 0
      OBVIOUS
    <3> HIDE DEF off
    <3>2. \A j \in 1..nP : off[1 - 1] + j = j
      BY <1>2, <3>1
    <3> QED
      BY <1>3, <3>2
  <2>2. c[1] = nP /\ t[1] = nS
    OBVIOUS
  <2>3. BlockOf(c, t, D, off, 1) = b
    <3> HIDE DEF c, t, off
    <3> QED
      BY <2>1, <2>2 DEF BlockOf
  <2> HIDE DEF b
  <2>4. Len(blocks) = 1 /\ blocks[1] = b
    OBVIOUS
  <2> HIDE DEF blocks
  <2> QED
    BY <2>3, <2>4
<1>7. m_curr_block_idx \in Nat
  BY DEF IInv
<1>8. Made(blocks, 1, c, t, D, off)
  <2> HIDE DEF blocks, c, t, off
  <2> QED
    BY <1>6 DEF Made
<1> HIDE DEF blocks, c, t, off
<1> QED
  BY <1>3, <1>5, <1>7, <1>8, SendKeeps

\* The number of payloads of at most width bytes that a frame fills
\* (WBStreamTx.cpp:368, WBVideoStreamTx.cpp:95).
LEMMA PayloadsOfFrame ==
  ASSUME NEW size \in FrameSizes, NEW width \in Nat \ {0},
         width <= FEC_PACKET_MAX_PAYLOAD_SIZE
  PROVE  /\ size \in Nat \ {0}
         /\ DivCeil(size, width) \in Nat \ {0}
         /\ DivCeil(size, width) <= size
         /\ size <= DivCeil(size, width) * FEC_PACKET_MAX_PAYLOAD_SIZE
         /\ size <= width * MAX_N_P_FRAGMENTS_PER_BLOCK
              => DivCeil(size, width) <= MAX_N_P_FRAGMENTS_PER_BLOCK
<1> DEFINE P == MAX_N_P_FRAGMENTS_PER_BLOCK
           F == FEC_PACKET_MAX_PAYLOAD_SIZE
           c == DivCeil(size, width)
<1>1. P \in Nat \ {0} /\ F \in Nat /\ size \in Nat \ {0}
  BY FECEncoderAssumption
<1>2. c \in Nat \ {0} /\ size <= width * c /\ (c - 1) * width < size /\ c <= size
  BY <1>1, DivCeilBounds
<1> HIDE DEF P, F, c
<1>3. width <= F
  BY DEF F
<1>4. size <= c * F
  <2>1. F - width \in Nat /\ c * F = width * c + (F - width) * c
    BY <1>1, <1>2, <1>3
  <2>2. (F - width) * c \in Nat
    BY <1>2, <2>1
  <2> QED
    BY <1>1, <1>2, <2>1, <2>2
<1>5. ASSUME size <= width * P, c >= P + 1 PROVE FALSE
  <2>1. c - 1 - P \in Nat /\ (c - 1) * width = P * width + (c - 1 - P) * width
    BY <1>1, <1>2, <1>5
  <2>2. (c - 1 - P) * width \in Nat /\ P * width \in Nat /\ width * P = P * width
    BY <1>1, <2>1
  <2> QED
    BY <1>1, <1>2, <1>5, <2>1, <2>2
<1>6. size <= width * P => c <= P
  BY <1>1, <1>2, <1>5
<1> QED
  BY <1>1, <1>2, <1>4, <1>6 DEF P, F, c

\* A frame cut into payloads of width bytes: within the limits it fits.
LEMMA CutKeeps ==
  ASSUME IInv, NEW size \in FrameSizes, NEW perc \in Overheads,
         NEW width \in Nat \ {0}, width <= FEC_PACKET_MAX_PAYLOAD_SIZE,
         NEW n, n = DivCeil(size, width), NEW call, call = Call("frame", size, width, perc),
         FragmentAndEncode(call, size, n, NSecondary(n, perc))
  PROVE  IInv'
<1> DEFINE P == MAX_N_P_FRAGMENTS_PER_BLOCK
           M == MAX_N_S_FRAGMENTS_PER_BLOCK
           s == NSecondary(n, perc)
<1>1. /\ size \in Nat \ {0} /\ n \in Nat \ {0} /\ n <= size
      /\ size <= n * FEC_PACKET_MAX_PAYLOAD_SIZE
      /\ size <= width * P => n <= P
  BY PayloadsOfFrame
<1>2. perc \in Nat /\ P \in Nat \ {0} /\ M \in Nat
  BY FECEncoderAssumption
<1>3. s \in Nat
  BY <1>1, <1>2, SecondaryCounts
<1>4. ASSUME ~BeyondLimits(call) PROVE n <= P /\ s <= M
  <2>1. size <= width * P /\ P * perc <= 100 * M
    <3>1. width * P \in Nat /\ P * perc \in Nat /\ 100 * M \in Nat
      BY <1>2
    <3>2. call.op = "frame" /\ call.amount = size /\ call.unit = width /\ call.perc = perc
      BY DEF Call
    <3> QED
      BY <1>1, <1>4, <3>1, <3>2 DEF BeyondLimits
  <2>2. n \in 1..P
    BY <1>1, <1>2, <2>1
  <2> QED
    BY <1>2, <2>1, <2>2, SecondaryFit
<1> HIDE DEF s, P, M
<1>5. FragmentAndEncode(call, size, n, s)
  BY DEF s
<1> QED
  BY <1>1, <1>3, <1>4, <1>5, FragmentKeeps DEF P, M

LEMMA DirtyKeeps ==
  ASSUME IInv, NEW size \in FrameSizes, NEW perc \in Overheads,
         DirtyProcessEnqueuedFrame(size, perc)
  PROVE  IInv'
<1> DEFINE n == DivCeil(size, MTU)
           call == Call("frame", size, MTU, perc)
<1>1. MTU \in Nat \ {0} /\ MTU <= FEC_PACKET_MAX_PAYLOAD_SIZE
  BY FECEncoderAssumption
<1>2. FragmentAndEncode(call, size, n, NSecondary(n, perc))
  BY DEF DirtyProcessEnqueuedFrame
<1> QED
  BY <1>1, <1>2, CutKeeps

LEMMA FrameKeeps ==
  ASSUME IInv, NEW size \in FrameSizes, NEW perc \in Overheads,
         ProcessEnqueuedFrame(size, perc)
  PROVE  IInv'
<1> DEFINE F == FEC_PACKET_MAX_PAYLOAD_SIZE
           n == DivCeil(size, F)
           call == Call("frame", size, F, perc)
<1>1. F \in Nat \ {0} /\ F <= F
  BY FECEncoderAssumption
<1>2. FragmentAndEncode(call, size, n, NSecondary(n, perc))
  BY DEF ProcessEnqueuedFrame
<1> QED
  BY <1>1, <1>2, CutKeeps

\* A config is sent in one fragment, or it is beyond its limit and the program
\* ends: by this assert or by the one of the encoder.
LEMMA ConfigKeeps ==
  ASSUME IInv, NEW size \in FrameSizes \cup {0}, SendVideoConfig(size)
  PROVE  IInv'
<1> DEFINE n == 1
           s == 0
           F == FEC_PACKET_MAX_PAYLOAD_SIZE
           call == Call("config", size, F, 0)
<1>1. /\ F \in Nat /\ size \in Nat /\ n \in Nat \ {0} /\ s \in Nat
      /\ n <= MAX_N_P_FRAGMENTS_PER_BLOCK /\ s <= MAX_N_S_FRAGMENTS_PER_BLOCK
      /\ MAX_PAYLOAD_BEFORE_FEC \in Nat /\ F < MAX_PAYLOAD_BEFORE_FEC
  BY FECEncoderAssumption
<1>2. size \notin 1..F => BeyondLimits(call)
  BY DEF BeyondLimits, Call
<1>3. \/ size # 0 /\ FragmentAndEncode(call, size, n, s)
      \/ ~(size # 0 /\ size < MAX_PAYLOAD_BEFORE_FEC) /\ Fail(call)
  BY DEF SendVideoConfig
<1> HIDE DEF n, s, call
<1>4. CASE size # 0 /\ FragmentAndEncode(call, size, n, s)
  <2>1. size \in Nat \ {0} /\ n <= size
    BY <1>1, <1>4 DEF n
  <2>2. size <= n * F \/ BeyondLimits(call)
    BY <1>1, <1>2, <2>1 DEF n
  <2> QED
    BY <1>1, <1>4, <2>1, <2>2, FragmentKeeps
<1>5. CASE ~(size # 0 /\ size < MAX_PAYLOAD_BEFORE_FEC) /\ Fail(call)
  <2>1. BeyondLimits(call)
    BY <1>1, <1>2, <1>5
  <2> QED
    BY <1>5, <2>1, FailKeeps
<1> QED
  BY <1>3, <1>4, <1>5

-----------------------------------------------------------------------------
(* The theorems *)

LEMMA InitIInv == Init => IInv
BY DEF Init, IInv, EncoderAsserts, NoFrame

LEMMA NextIInv == IInv /\ [Next]_vars => IInv'
<1> SUFFICES ASSUME IInv, [Next]_vars PROVE IInv'
  OBVIOUS
<1>1. CASE \E n \in FragmentCounts, m \in MaxBlockSizes, perc \in Overheads :
             ProcessEnqueuedBlock(n, m, perc)
  BY <1>1, BlockKeeps
<1>2. CASE \E size \in FrameSizes, perc \in Overheads : DirtyProcessEnqueuedFrame(size, perc)
  BY <1>2, DirtyKeeps
<1>3. CASE \E size \in FrameSizes, perc \in Overheads : ProcessEnqueuedFrame(size, perc)
  BY <1>3, FrameKeeps
<1>4. CASE \E size \in FrameSizes \cup {0} : SendVideoConfig(size)
  BY <1>4, ConfigKeeps
<1>5. CASE UNCHANGED vars
  BY <1>5 DEF vars, IInv, EncoderAsserts, Sending
<1> QED
  BY <1>1, <1>2, <1>3, <1>4, <1>5 DEF Next

LEMMA IInvAsserts == IInv => EncoderAsserts
BY DEF IInv

LEMMA IInvCarried == IInv => FrameCarried
<1> SUFFICES ASSUME IInv PROVE FrameCarried
  OBVIOUS
<1>1. CASE sent = <<>> /\ frame.data = {}
  <2>1. 1..Len(sent) = {}
    BY <1>1
  <2> QED
    BY <1>1, <2>1 DEF FrameCarried
<1>2. CASE \E first, n, c, t, D, off, base :
             Sending(frame.data, frame.max_block_size, first, n, c, t, D, off, base)
  BY <1>2, SendingCarries
<1> QED
  BY <1>1, <1>2 DEF IInv

LEMMA IInvDecodable == IInv => BlocksDecodable
<1> SUFFICES ASSUME IInv PROVE BlocksDecodable
  OBVIOUS
<1>1. CASE sent = <<>> /\ frame.data = {}
  <2>1. 1..Len(sent) = {}
    BY <1>1
  <2> QED
    BY <2>1 DEF BlocksDecodable, IdxSent
<1>2. CASE \E first, n, c, t, D, off, base :
             Sending(frame.data, frame.max_block_size, first, n, c, t, D, off, base)
  BY <1>2, SendingDecodable
<1> QED
  BY <1>1, <1>2 DEF IInv

LEMMA IInvSplit == IInv => EvenlySplit
<1> SUFFICES ASSUME IInv PROVE EvenlySplit
  OBVIOUS
<1>1. CASE sent = <<>> /\ frame.data = {}
  <2>1. 1..Len(sent) = {}
    BY <1>1
  <2>2. IdxSent = {} /\ PrimaryCounts = {}
    BY <2>1 DEF IdxSent, PrimaryCounts
  <2> QED
    BY <1>1, <2>2 DEF EvenlySplit
<1>2. CASE \E first, n, c, t, D, off, base :
             Sending(frame.data, frame.max_block_size, first, n, c, t, D, off, base)
  BY <1>2, SendingSplitsEvenly
<1> QED
  BY <1>1, <1>2 DEF IInv

\* FECEncoder.cpp:19-20, 38, 62, 79, fec_base.cpp:338-339, WBVideoStreamTx.cpp:114:
\* of all calls, with any size, block size and overhead, only those beyond the
\* limits a caller would have to know run into an assert or over the buffer.
THEOREM EncoderAssertsAlways == Spec => []EncoderAsserts
<1> QED
  BY InitIInv, NextIInv, IInvAsserts, PTL DEF Spec

\* FECEncoder.cpp:40-61 and BlockSizeHelper.hpp:87-96: what is sent of a frame is
\* the whole frame, in order and without overlap, in payloads that fit a packet.
THEOREM FrameCarriedAlways == Spec => []FrameCarried
<1> QED
  BY InitIInv, NextIInv, IInvCarried, PTL DEF Spec

\* FECEncoder.cpp:65-133: the fragments of a block are numbered from 0 without a
\* gap, the primary ones first and as many as every header says, and blocks are
\* numbered one after the other, over the wrap of the 32 bit index too.
THEOREM BlocksDecodableAlways == Spec => []BlocksDecodable
<1> QED
  BY InitIInv, NextIInv, IInvDecodable, PTL DEF Spec

\* BlockSizeHelper.hpp:57-75 and FECEncoder.cpp:44-49: a frame gets the fewest
\* blocks that respect the maximum, and blocks of one frame, and fragments of one
\* block, differ by at most one in size.
THEOREM EvenlySplitAlways == Spec => []EvenlySplit
<1> QED
  BY InitIInv, NextIInv, IInvSplit, PTL DEF Spec

=============================================================================
