-------------------------- MODULE FECDecoderProofs --------------------------
(***************************************************************************)
(* Safety of the FEC receive queue for every queue depth, block layout and  *)
(* sequence of packets.  The invariants of FECDecoder are not inductive one *)
(* by one: that no assert fails rests on every queued block being           *)
(* undecodable, which rests on the counters describing the fragment map,    *)
(* which rests on all fragments of a block carrying the same k.             *)
(***************************************************************************)
EXTENDS FECDecoder, FiniteSetTheorems, WellFoundedInduction, SequenceTheorems, TLAPS

-----------------------------------------------------------------------------
(* A single block (RxBlock): its counters count its fragment map, forwarding *)
(* moves a position over a contiguous prefix, reconstruction fills exactly   *)
(* the missing primary fragments, and what a pull emits is what it pulled,   *)
(* in ascending order.                                                       *)

Primaries(r) == r.map \cap 0..(r.k - 1)

\* The counters and the forward position of a block describe its fragment map.
BlockOK(r) ==
  /\ r \in RxBlockType
  /\ IsFiniteSet(r.map)
  /\ r.k = Unknown => r.map = {} /\ r.nP = 0 /\ r.nS = 0 /\ r.fwd = 0
  /\ r.k # Unknown =>
       /\ r.nP = Cardinality(Primaries(r))
       /\ r.nS = Cardinality(Secondary(r))
       /\ r.fwd <= r.nP
       /\ 0..(r.fwd - 1) \subseteq r.map

\* Fewer fragments than the block needs.
Incomplete(r) == r.k # Unknown => r.nP + r.nS < r.k

HeaderType == [block_idx : Nat, fragment_idx : Nat, n_primary_fragments : Nat \ {0}]

\* The constructor's block holds nothing (RxBlock.cpp:5-14).
LEMMA NewRxBlockOK ==
  ASSUME NEW b \in Nat
  PROVE  BlockOK(NewRxBlock(b)) /\ Incomplete(NewRxBlock(b)) /\ NewRxBlock(b).blockIdx = b
BY FS_EmptySet DEF BlockOK, Incomplete, NewRxBlock, RxBlockType, Unknown

\* The number of fragment indices from m up to n, without n.
LEMMA IndexRange ==
  ASSUME NEW m \in Nat, NEW n \in Nat, m <= n
  PROVE  IsFiniteSet(m..(n - 1)) /\ Cardinality(m..(n - 1)) = n - m
<1>1. n - 1 \in Int /\ m \in Int
  OBVIOUS
<1>2. /\ IsFiniteSet(m..(n - 1))
      /\ Cardinality(m..(n - 1)) = IF m > n - 1 THEN 0 ELSE (n - 1) - m + 1
  BY <1>1, FS_Interval
<1> QED
  BY <1>2

\* A block never holds more primary fragments than it has, so the counter is a
\* safe bound of the pull loop (RxBlock.cpp:98-99).
LEMMA PrimariesBounded ==
  ASSUME NEW r, BlockOK(r), r.k # Unknown
  PROVE  /\ IsFiniteSet(Primaries(r)) /\ IsFiniteSet(Secondary(r))
         /\ r.nP <= r.k
         /\ r.nP = r.k => 0..(r.k - 1) \subseteq r.map
<1>1. r.k \in Nat \ {0}
  BY DEF BlockOK, RxBlockType
<1>2. IsFiniteSet(0..(r.k - 1)) /\ Cardinality(0..(r.k - 1)) = r.k
  <2>1. r.k \in Nat /\ 0 <= r.k /\ r.k - 0 = r.k
    BY <1>1
  <2> QED
    BY <2>1, IndexRange
<1>3. Primaries(r) \in SUBSET (0..(r.k - 1))
  BY DEF Primaries
<1>4. Cardinality(Primaries(r)) <= r.k
      /\ (Cardinality(Primaries(r)) = r.k => Primaries(r) = 0..(r.k - 1))
  BY <1>2, <1>3, FS_Subset
<1>5. IsFiniteSet(Secondary(r))
  BY FS_Subset, Secondary(r) \in SUBSET r.map DEF BlockOK, Secondary
<1>6. IsFiniteSet(Primaries(r))
  BY <1>2, <1>3, FS_Subset
<1> QED
  BY <1>4, <1>5, <1>6 DEF BlockOK, Primaries

\* addFragment keeps the counters right and adds one fragment (RxBlock.cpp:43-78).
LEMMA AddFragmentOK ==
  ASSUME NEW r, BlockOK(r), NEW h \in HeaderType,
         h.fragment_idx \notin r.map, r.k \in {Unknown, h.n_primary_fragments}
  PROVE  LET a == AddFragment(r, h) IN
         /\ BlockOK(a)
         /\ a.k = h.n_primary_fragments /\ a.k # Unknown
         /\ a.blockIdx = r.blockIdx
         /\ a.nP + a.nS = r.nP + r.nS + 1
         /\ a.fwd = r.fwd
<1> DEFINE a == AddFragment(r, h)
           f == h.fragment_idx
           k == h.n_primary_fragments
<1>1. k \in Nat \ {0} /\ f \in Nat
  BY DEF HeaderType
<1>2. /\ a \in RxBlockType /\ a.k = k /\ k # Unknown
      /\ a.blockIdx = r.blockIdx /\ a.fwd = r.fwd /\ a.map = r.map \cup {f}
      /\ a.nP = IF f < k THEN r.nP + 1 ELSE r.nP
      /\ a.nS = IF f < k THEN r.nS ELSE r.nS + 1
  <2>1. r \in RxBlockType /\ r.k \in {Unknown, k}
    BY DEF BlockOK
  <2>2. r.nP \in Nat /\ r.nS \in Nat /\ r.map \in SUBSET Nat
    BY <2>1 DEF RxBlockType
  <2>3. (IF r.k = Unknown THEN k ELSE r.k) = k
    BY <2>1
  <2>4. a = [r EXCEPT !.map = r.map \cup {f}, !.k = k,
                      !.nP = IF f < k THEN r.nP + 1 ELSE r.nP,
                      !.nS = IF f < k THEN r.nS ELSE r.nS + 1]
    BY <2>3 DEF AddFragment, IsPrimary
  <2>5. k # Unknown
    BY <1>1 DEF Unknown
  <2> DEFINE P0 == IF f < k THEN r.nP + 1 ELSE r.nP
             S0 == IF f < k THEN r.nS ELSE r.nS + 1
  <2>6. P0 \in Nat /\ S0 \in Nat
    BY <2>2
  <2>7. a = [r EXCEPT !.map = r.map \cup {f}, !.k = k, !.nP = P0, !.nS = S0]
    BY <2>4
  <2>8. r.map \cup {f} \in SUBSET Nat
    BY <2>2, <1>1
  <2> HIDE DEF a, P0, S0, f, k
  <2>9. a \in RxBlockType
    BY <2>1, <2>6, <2>7, <2>8, <1>1 DEF RxBlockType
  <2>10. /\ a.k = k /\ a.map = r.map \cup {f} /\ a.nP = P0 /\ a.nS = S0
         /\ a.blockIdx = r.blockIdx /\ a.fwd = r.fwd
    BY <2>1, <2>7 DEF RxBlockType
  <2> QED
    BY <2>5, <2>9, <2>10 DEF P0, S0
<1>3. IsFiniteSet(a.map)
  BY <1>2, FS_AddElement DEF BlockOK
<1> DEFINE P == {i \in r.map : i < k}
           Q == {i \in r.map : i >= k}
<1>4. r.map \subseteq Nat
  BY DEF BlockOK, RxBlockType
<1>5. IsFiniteSet(P) /\ IsFiniteSet(Q)
  BY FS_Subset, P \in SUBSET r.map, Q \in SUBSET r.map DEF BlockOK
<1>6. r.nP = Cardinality(P) /\ r.nS = Cardinality(Q)
  <2>1. CASE r.k = Unknown
    BY <2>1, FS_EmptySet DEF BlockOK
  <2>2. CASE r.k = k
    <3>1. P = Primaries(r) /\ Q = Secondary(r)
      BY <2>2, <1>1, <1>4 DEF Primaries, Secondary
    <3> QED
      BY <3>1, <2>2, <1>2 DEF BlockOK
  <2> QED
    BY <2>1, <2>2
<1>7. a.nP = Cardinality(Primaries(a)) /\ a.nS = Cardinality(Secondary(a))
  <2>1. CASE f < k
    <3>1. Primaries(a) = P \cup {f} /\ Secondary(a) = Q
      BY <2>1, <1>1, <1>2, <1>4 DEF Primaries, Secondary
    <3>2. Cardinality(P \cup {f}) = Cardinality(P) + 1
      BY <1>5, FS_AddElement
    <3> QED
      BY <3>1, <3>2, <2>1, <1>2, <1>6
  <2>2. CASE ~(f < k)
    <3>1. Primaries(a) = P /\ Secondary(a) = Q \cup {f}
      BY <2>2, <1>1, <1>2, <1>4 DEF Primaries, Secondary
    <3>2. Cardinality(Q \cup {f}) = Cardinality(Q) + 1
      BY <1>5, FS_AddElement
    <3> QED
      BY <3>1, <3>2, <2>2, <1>2, <1>6
  <2> QED
    BY <2>1, <2>2
<1>8. a.fwd <= a.nP /\ 0..(a.fwd - 1) \subseteq a.map
  <2>1. r.fwd <= r.nP /\ 0..(r.fwd - 1) \subseteq r.map
    BY DEF BlockOK
  <2> QED
    BY <2>1, <1>2 DEF BlockOK, RxBlockType
<1>9. a.nP + a.nS = r.nP + r.nS + 1
  BY <1>2 DEF BlockOK, RxBlockType
<1> QED
  BY <1>2, <1>3, <1>7, <1>8, <1>9 DEF BlockOK

\* Whatever is pulled from a block is available and inside the block: the
\* asserts of get_primary_fragment_data_p hold (RxBlock.cpp:114-128).
LEMMA PullAssertsHold ==
  ASSUME NEW r, BlockOK(r), NEW discard
  PROVE  PullAsserts(r, discard)
<1> SUFFICES ASSUME NEW i \in Pulled(r, discard)
             PROVE  i \in r.map /\ r.k # Unknown /\ i < r.k
  BY DEF PullAsserts
<1>1. r.fwd \in Nat /\ r.nP \in Nat
  BY DEF BlockOK, RxBlockType
<1>2. i \in r.fwd..(r.nP - 1) /\ i \in r.map
  BY <1>1 DEF Pulled
<1>3. r.k # Unknown
  BY <1>1, <1>2 DEF BlockOK
<1>4. r.nP <= r.k /\ r.k \in Nat
  BY <1>3, PrimariesBounded DEF BlockOK, RxBlockType
<1> QED
  BY <1>1, <1>2, <1>3, <1>4

\* Pulling never counts more fragments than it was given room for, with or
\* without gaps: the position stays a number of fragments (RxBlock.cpp:110).
LEMMA ForwardedType ==
  ASSUME NEW r, BlockOK(r), NEW discard
  PROVE  /\ IsFiniteSet(Pulled(r, discard))
         /\ Cardinality(Pulled(r, discard)) \in Nat
         /\ r.fwd + Cardinality(Pulled(r, discard)) <= r.nP
         /\ Forwarded(r, discard) \in RxBlockType
         /\ Forwarded(r, discard).fwd = r.fwd + Cardinality(Pulled(r, discard))
         /\ Forwarded(r, discard).map = r.map
         /\ Forwarded(r, discard).k = r.k
         /\ Forwarded(r, discard).nP = r.nP
         /\ Forwarded(r, discard).nS = r.nS
         /\ Forwarded(r, discard).blockIdx = r.blockIdx
<1>1. r.fwd \in Nat /\ r.nP \in Nat /\ r.fwd <= r.nP
  BY DEF BlockOK, RxBlockType
<1>2. IsFiniteSet(r.fwd..(r.nP - 1)) /\ Cardinality(r.fwd..(r.nP - 1)) = r.nP - r.fwd
  <2> DEFINE a == r.fwd
             b == r.nP
  <2>1. a \in Nat /\ b \in Nat /\ a <= b
    BY <1>1
  <2> HIDE DEF a, b
  <2>2. IsFiniteSet(a..(b - 1)) /\ Cardinality(a..(b - 1)) = b - a
    BY <2>1, IndexRange
  <2> QED
    BY <2>2 DEF a, b
<1>3. Pulled(r, discard) \in SUBSET (r.fwd..(r.nP - 1))
  BY DEF Pulled
<1>4. /\ IsFiniteSet(Pulled(r, discard))
      /\ Cardinality(Pulled(r, discard)) <= r.nP - r.fwd
  <2> DEFINE S == r.fwd..(r.nP - 1)
             T == Pulled(r, discard)
  <2>1. IsFiniteSet(S) /\ Cardinality(S) = r.nP - r.fwd /\ T \in SUBSET S
    BY <1>2, <1>3
  <2> HIDE DEF S, T
  <2>2. IsFiniteSet(T) /\ Cardinality(T) <= Cardinality(S)
    BY <2>1, FS_Subset
  <2> QED
    BY <2>1, <2>2 DEF T
<1>5. Cardinality(Pulled(r, discard)) \in Nat
  BY <1>4, FS_CardinalityType
<1> QED
  BY <1>1, <1>4, <1>5 DEF Forwarded, BlockOK, RxBlockType

\* Forwarding up to the first gap keeps the forwarded fragments a prefix of the
\* available ones (RxBlock.cpp:93-112 without discarding).
LEMMA ForwardedOK ==
  ASSUME NEW r, BlockOK(r)
  PROVE  BlockOK(Forwarded(r, FALSE))
<1> DEFINE c == Cardinality(Pulled(r, FALSE))
           g == Forwarded(r, FALSE)
<1>1. /\ c \in Nat /\ r.fwd + c <= r.nP /\ g \in RxBlockType
      /\ g.fwd = r.fwd + c /\ g.map = r.map /\ g.k = r.k /\ g.nP = r.nP /\ g.nS = r.nS
      /\ IsFiniteSet(Pulled(r, FALSE))
  BY ForwardedType
<1>2. r.fwd \in Nat /\ r.nP \in Nat /\ 0..(r.fwd - 1) \subseteq r.map
  BY DEF BlockOK, RxBlockType
<1> HIDE DEF c, g
<1>3. 0..(r.fwd + c - 1) \subseteq r.map
  <2> SUFFICES ASSUME NEW j \in 0..(r.fwd + c - 1), j \notin r.map
               PROVE  FALSE
    OBVIOUS
  <2>1. j >= r.fwd /\ j \in Int
    BY <1>1, <1>2
  <2>2. \A i \in Pulled(r, FALSE) : i \in r.fwd..(j - 1)
    BY <2>1, <1>2 DEF Pulled
  <2>3. IsFiniteSet(r.fwd..(j - 1)) /\ Cardinality(r.fwd..(j - 1)) = j - r.fwd
    BY <2>1, <1>2, IndexRange, j \in Nat
  <2>4. Pulled(r, FALSE) \in SUBSET (r.fwd..(j - 1))
    BY <2>2
  <2> DEFINE J == r.fwd..(j - 1)
  <2>7. IsFiniteSet(J) /\ Pulled(r, FALSE) \in SUBSET J /\ Cardinality(J) = j - r.fwd
    BY <2>3, <2>4
  <2> HIDE DEF J
  <2>8. Cardinality(Pulled(r, FALSE)) <= Cardinality(J)
    BY <2>7, FS_Subset
  <2>5. c <= j - r.fwd
    BY <2>7, <2>8 DEF c
  <2>6. j < r.fwd + c
    BY <1>1, <1>2
  <2> QED
    BY <2>1, <2>5, <2>6, <1>1, <1>2
<1>4. r.k = Unknown => r.nP = 0 /\ r.fwd = 0
  BY DEF BlockOK
<1>5. r.k = Unknown => g.fwd = 0
  BY <1>1, <1>2, <1>4
<1>6. Primaries(g) = Primaries(r) /\ Secondary(g) = Secondary(r)
  BY <1>1 DEF Primaries, Secondary
<1>7. g \in RxBlockType /\ IsFiniteSet(g.map)
  BY <1>1 DEF BlockOK
<1>8. r.k # Unknown => r.nP = Cardinality(Primaries(r)) /\ r.nS = Cardinality(Secondary(r))
  BY DEF BlockOK
<1>9. g.k = Unknown => g.map = {} /\ g.nP = 0 /\ g.nS = 0 /\ g.fwd = 0
  BY <1>1, <1>5 DEF BlockOK
<1>10. g.fwd <= g.nP /\ 0..(g.fwd - 1) \subseteq g.map
  <2>1. g.fwd - 1 = r.fwd + c - 1
    BY <1>1, <1>2
  <2> QED
    BY <2>1, <1>1, <1>3
<1>11. g.k # Unknown => g.nP = Cardinality(Primaries(g)) /\ g.nS = Cardinality(Secondary(g))
  BY <1>1, <1>6, <1>8
<1>12. BlockOK(g)
  BY <1>7, <1>9, <1>10, <1>11 DEF BlockOK
<1> QED
  BY <1>12 DEF g

\* Once every primary fragment is available, forwarding reaches the end of the
\* block: the asserts after a flush and after FEC hold (FECDecoder.cpp:210-243).
LEMMA AllForwardedAtEnd ==
  ASSUME NEW r, BlockOK(r), AllAvailable(r)
  PROVE  AllForwarded(Forwarded(r, FALSE))
<1>1. r.k # Unknown /\ r.nP = r.k /\ r.k \in Nat /\ r.fwd \in Nat /\ r.fwd <= r.nP
  BY DEF BlockOK, RxBlockType, AllAvailable
<1>2. 0..(r.k - 1) \subseteq r.map
  BY <1>1, PrimariesBounded
<1>3. Pulled(r, FALSE) = r.fwd..(r.k - 1)
  BY <1>1, <1>2 DEF Pulled
<1>4. Cardinality(Pulled(r, FALSE)) = r.k - r.fwd
  BY <1>1, <1>3, IndexRange
<1>5. /\ Forwarded(r, FALSE).fwd = r.fwd + Cardinality(Pulled(r, FALSE))
      /\ Forwarded(r, FALSE).k = r.k
  BY ForwardedType
<1>6. r.fwd + (r.k - r.fwd) = r.k
  BY <1>1
<1>7. Forwarded(r, FALSE).fwd = r.k
  BY <1>4, <1>5, <1>6
<1> QED
  BY <1>1, <1>5, <1>7 DEF AllForwarded

\* With exactly k fragments, some of them secondary, fecDecode has as many
\* secondary fragments as primary ones are missing (FEC.h:104-108), and fills
\* the block (RxBlock.cpp:130-151).
LEMMA ReconstructedOK ==
  ASSUME NEW r, BlockOK(r), r.k # Unknown, r.nP + r.nS = r.k, r.nP # r.k
  PROVE  /\ ReconstructAsserts(r)
         /\ BlockOK(Reconstructed(r))
         /\ AllAvailable(Reconstructed(r))
         /\ Reconstructed(r).blockIdx = r.blockIdx
         /\ Reconstructed(r).k = r.k
         /\ Cardinality(MissingPrimary(r)) \in Nat \ {0}
<1> DEFINE M == MissingPrimary(r)
           c == Reconstructed(r)
           I == 0..(r.k - 1)
<1>1. r.k \in Nat \ {0} /\ r.nP \in Nat /\ r.nS \in Nat /\ r.map \subseteq Nat /\ IsFiniteSet(r.map)
  BY DEF BlockOK, RxBlockType
<1>2. IsFiniteSet(I) /\ Cardinality(I) = r.k
  <2>1. r.k \in Nat /\ 0 <= r.k /\ r.k - 0 = r.k
    BY <1>1
  <2> QED
    BY <2>1, IndexRange
<1>3. IsFiniteSet(M) /\ Cardinality(M) = r.k - r.nP
  <2>1. Cardinality(I \ r.map) = Cardinality(I) - Cardinality(I \cap r.map)
    BY <1>2, FS_Difference
  <2>2. I \cap r.map = Primaries(r)
    BY DEF Primaries
  <2>3. Cardinality(Primaries(r)) = r.nP
    BY DEF BlockOK
  <2>4. Cardinality(M) \in Nat /\ IsFiniteSet(M)
    BY <1>2, FS_Subset, FS_CardinalityType, M \in SUBSET I DEF MissingPrimary
  <2>5. M = I \ r.map
    BY DEF MissingPrimary
  <2> QED
    BY <2>1, <2>2, <2>3, <2>4, <2>5, <1>1, <1>2
<1>4. /\ c.map = r.map \cup M /\ c.nP = r.k /\ c.k = r.k /\ c.nS = r.nS
      /\ c.fwd = r.fwd /\ c.blockIdx = r.blockIdx /\ c \in RxBlockType
  <2>1. M \subseteq Nat
    BY <1>1 DEF MissingPrimary
  <2>2. r.nP + Cardinality(M) = r.k
    BY <1>1, <1>3
  <2>3. c = [r EXCEPT !.map = r.map \cup M, !.nP = r.k]
    BY <2>2 DEF Reconstructed
  <2>4. r \in RxBlockType /\ r.map \cup M \in SUBSET Nat
    BY <1>1, <2>1 DEF BlockOK
  <2> HIDE DEF c, M
  <2> QED
    BY <2>3, <2>4, <1>1 DEF RxBlockType
<1>5. IsFiniteSet(c.map)
  <2> HIDE DEF M
  <2>1. IsFiniteSet(r.map \cup M)
    BY <1>1, <1>3, FS_Union
  <2> QED
    BY <2>1, <1>4
<1>6. Primaries(c) = I
  <2>1. Primaries(c) = c.map \cap I
    BY <1>4 DEF Primaries
  <2>2. M = I \ r.map
    BY DEF MissingPrimary
  <2>3. c.map = r.map \cup M
    BY <1>4
  <2> HIDE DEF c, M, I
  <2> QED
    BY <2>1, <2>2, <2>3
<1>7. Secondary(c) = Secondary(r)
  BY <1>1, <1>4 DEF Secondary, MissingPrimary
<1>8. BlockOK(c)
  BY <1>1, <1>2, <1>4, <1>5, <1>6, <1>7 DEF BlockOK, RxBlockType
<1>9. ReconstructAsserts(r)
  BY <1>1, <1>3, PrimariesBounded DEF ReconstructAsserts, BlockOK
<1> QED
  BY <1>1, <1>3, <1>4, <1>8, <1>9, PrimariesBounded DEF AllAvailable

-----------------------------------------------------------------------------
(* The fragments a pull emits *)

\* Induction over the natural numbers, by least counterexample.
LEMMA LeastNatural ==
  ASSUME NEW T, T \subseteq Nat, T # {}
  PROVE  \E m \in T : \A n \in T : m <= n
<1>1. PICK m \in T : \A n \in T : ~(<<n, m>> \in OpToRel(<, Nat))
  BY WFMin, NatLessThanWellFounded
<1>2. \A n \in T : ~(n < m)
  BY <1>1 DEF OpToRel
<1> QED
  BY <1>2

Below(S, f) == {g \in S : g < f}

\* Below a larger element of a set there are more elements of it.
LEMMA BelowLess ==
  ASSUME NEW S, S \subseteq Nat, IsFiniteSet(S), NEW e \in S, NEW f \in Nat, e < f
  PROVE  /\ Cardinality(Below(S, e)) \in Nat /\ Cardinality(Below(S, f)) \in Nat
         /\ Cardinality(Below(S, e)) + 1 <= Cardinality(Below(S, f))
<1>1. e \in Nat /\ e \notin Below(S, e)
  BY DEF Below
<1>2. IsFiniteSet(Below(S, e)) /\ IsFiniteSet(Below(S, f))
  BY FS_Subset DEF Below
<1>3. IsFiniteSet(Below(S, e) \cup {e}) /\ Cardinality(Below(S, e) \cup {e}) = Cardinality(Below(S, e)) + 1
  BY <1>1, <1>2, FS_AddElement
<1>4. Below(S, e) \cup {e} \subseteq Below(S, f)
  <2> SUFFICES ASSUME NEW x \in Below(S, e) \cup {e} PROVE x \in Below(S, f)
    OBVIOUS
  <2>1. x \in S /\ x \in Nat /\ x <= e
    BY <1>1 DEF Below
  <2> QED
    BY <1>1, <2>1 DEF Below
<1>5. Cardinality(Below(S, e) \cup {e}) <= Cardinality(Below(S, f))
  BY <1>2, <1>4, FS_Subset
<1> QED
  BY <1>2, <1>3, <1>5, FS_CardinalityType

\* A finite set of numbers has an element of every rank.
LEMMA RankExists ==
  ASSUME NEW S, S \subseteq Nat, IsFiniteSet(S), NEW n \in Nat, n < Cardinality(S)
  PROVE  \E f \in S : Cardinality(Below(S, f)) = n
<1> DEFINE Bad == {m \in Nat : m < Cardinality(S) /\ \A f \in S : Cardinality(Below(S, f)) # m}
<1>0. Cardinality(S) \in Nat
  BY FS_CardinalityType
<1>1. SUFFICES Bad = {}
  BY <1>1
<1>2. SUFFICES ASSUME Bad # {} PROVE FALSE
  BY <1>2
<1>3. PICK m \in Bad : \A x \in Bad : m <= x
  <2>1. Bad \subseteq Nat
    OBVIOUS
  <2> HIDE DEF Bad
  <2> QED
    BY <2>1, <1>2, LeastNatural
<1>4. m \in Nat /\ m < Cardinality(S) /\ \A f \in S : Cardinality(Below(S, f)) # m
  BY <1>3
<1>5. CASE m = 0
  <2>1. S # {}
    BY <1>4, <1>5, FS_EmptySet
  <2>2. PICK f \in S : \A x \in S : f <= x
    BY <2>1, LeastNatural
  <2>3. f \in Nat /\ \A x \in S : x \in Nat /\ ~(x < f)
    BY <2>2
  <2>4. Below(S, f) = {}
    BY <2>3 DEF Below
  <2>5. Cardinality(Below(S, f)) = 0
    BY <2>4, FS_EmptySet
  <2> QED
    BY <1>4, <1>5, <2>5
<1>6. CASE m # 0
  <2>1. m - 1 \in Nat /\ m - 1 < Cardinality(S) /\ ~(m <= m - 1)
    BY <1>0, <1>4, <1>6
  <2>2. m - 1 \notin Bad
    BY <1>3, <2>1
  <2>3. PICK e \in S : Cardinality(Below(S, e)) = m - 1
    BY <2>1, <2>2
  <2>4. e \in Nat
    BY <2>3
  <2> DEFINE L == Below(S, e) \cup {e}
             R == S \ L
  <2>5. IsFiniteSet(Below(S, e)) /\ e \notin Below(S, e)
    BY <2>4, FS_Subset DEF Below
  <2>6. IsFiniteSet(L) /\ Cardinality(L) = m
    <3>1. Cardinality(L) = (m - 1) + 1 /\ IsFiniteSet(L)
      BY <2>3, <2>5, FS_AddElement
    <3> QED
      BY <3>1, <1>4
  <2>7. L # S
    BY <2>6, <1>0, <1>4
  <2>8. L \subseteq S
    BY DEF Below
  <2>9. R # {} /\ R \subseteq Nat
    BY <2>7, <2>8
  <2> HIDE DEF R
  <2>10. PICK f \in R : \A x \in R : f <= x
    BY <2>9, LeastNatural
  <2> USE DEF R
  <2>11. f \in S /\ f \in Nat /\ f \notin L
    BY <2>10
  <2>12. e < f
    BY <2>4, <2>11 DEF Below
  <2>13. Below(S, f) = L
    <3>1. ASSUME NEW x \in Below(S, f) PROVE x \in L
      <4>1. x \in S /\ x \in Nat /\ x < f
        BY DEF Below
      <4>2. x \notin R
        BY <4>1, <2>10, <2>11
      <4> QED
        BY <4>1, <4>2
    <3>2. ASSUME NEW x \in L PROVE x \in Below(S, f)
      <4>1. x \in S /\ x \in Nat /\ x <= e
        BY <2>4 DEF Below
      <4> QED
        BY <4>1, <2>4, <2>11, <2>12 DEF Below
    <3> QED
      BY <3>1, <3>2
  <2> QED
    BY <1>4, <2>6, <2>11, <2>13
<1> QED
  BY <1>5, <1>6

\* What a pull emits: the pulled fragments of the block, in ascending order.
LEMMA EmittedOK ==
  ASSUME NEW r, BlockOK(r), NEW discard
  PROVE  LET e == Emitted(r, discard) IN
         /\ e \in Seq(Nat \X Nat)
         /\ Len(e) = Cardinality(Pulled(r, discard))
         /\ \A j \in 1..Len(e) : e[j][1] = r.blockIdx /\ e[j][2] \in Pulled(r, discard)
         /\ \A i, j \in 1..Len(e) : i < j => e[i][2] < e[j][2]
<1> DEFINE S == Pulled(r, discard)
           order(j) == CHOOSE f \in S : Cardinality(Below(S, f)) = j - 1
           e == Emitted(r, discard)
           c == Cardinality(S)
<1>1. IsFiniteSet(S) /\ c \in Nat /\ r.blockIdx \in Nat
  BY ForwardedType DEF BlockOK, RxBlockType
<1>2. S \subseteq Nat
  BY DEF Pulled, BlockOK, RxBlockType
<1>3. e = [j \in 1..c |-> <<r.blockIdx, order(j)>>]
  BY DEF Emitted, Below
<1> HIDE DEF S, e, c
<1>4. ASSUME NEW j \in 1..c
      PROVE  order(j) \in S /\ Cardinality(Below(S, order(j))) = j - 1
  <2>1. j - 1 \in Nat /\ j - 1 < c
    BY <1>1
  <2>2. \E f \in S : Cardinality(Below(S, f)) = j - 1
    BY <1>1, <1>2, <2>1, RankExists DEF c
  <2> QED
    BY <2>2
<1> HIDE DEF order
<1>5. \A j \in 1..c : <<r.blockIdx, order(j)>> \in Nat \X Nat
  BY <1>1, <1>2, <1>4
<1>6. e \in Seq(Nat \X Nat) /\ Len(e) = c /\ \A j \in 1..c : e[j] = <<r.blockIdx, order(j)>>
  BY <1>1, <1>3, <1>5
<1>7. ASSUME NEW i \in 1..c, NEW j \in 1..c, i < j
      PROVE  order(i) < order(j)
  <2>1. order(i) \in S /\ order(j) \in S /\ order(i) \in Nat /\ order(j) \in Nat
    BY <1>2, <1>4
  <2>2. Cardinality(Below(S, order(i))) = i - 1 /\ Cardinality(Below(S, order(j))) = j - 1
    BY <1>4
  <2>3. CASE order(i) = order(j)
    BY <2>2, <2>3, <1>7
  <2>4. CASE order(j) < order(i)
    <3>1. Cardinality(Below(S, order(j))) + 1 <= Cardinality(Below(S, order(i)))
      BY <1>1, <1>2, <2>1, <2>4, BelowLess
    <3> QED
      BY <3>1, <2>2, <1>7
  <2> QED
    BY <2>1, <2>3, <2>4
<1> QED
  BY <1>6, <1>7, <1>4 DEF S, c, e

-----------------------------------------------------------------------------
(* The queue *)

\* A block learns k from the stream (RxBlock.cpp:54-59).
KMatches(r) == r.k # Unknown => r.blockIdx \in Block /\ r.k = NPrimary[r.blockIdx]

QueuedOK(r) == BlockOK(r) /\ Incomplete(r) /\ KMatches(r)

\* A queue of consecutive blocks up to last, none of them decodable.
QueueOK(q, last) ==
  /\ q \in Seq(RxBlockType)
  /\ Len(q) <= RX_QUEUE_MAX_SIZE
  /\ \A i \in 1..Len(q) : QueuedOK(q[i]) /\ q[i].blockIdx = last - Len(q) + i

StatsType == [{"total", "lost", "recovered", "fragments_recovered"} -> Nat]

\* The inductive invariant.
IInv ==
  /\ QueueOK(rx_queue, last_known_block)
  /\ last_known_block \in Block \cup {NoBlock}
  /\ stats \in StatsType
  /\ aborted = FALSE
  /\ resets \in 0..MaxResets

StreamPacket(h) == \E b \in Block, f \in Nat : h = StreamHeader(b, f)

-----------------------------------------------------------------------------
(* Queues *)

\* Replacing a block by one with the same index keeps the queue's shape.
LEMMA ReplaceInQueue ==
  ASSUME NEW q, NEW last, QueueOK(q, last), NEW p \in 1..Len(q), NEW x,
         QueuedOK(x), x.blockIdx = q[p].blockIdx
  PROVE  QueueOK([q EXCEPT ![p] = x], last)
<1> DEFINE s == [q EXCEPT ![p] = x]
<1>1. q \in Seq(RxBlockType) /\ x \in RxBlockType
  BY DEF QueueOK, QueuedOK, BlockOK
<1>2. /\ s \in Seq(RxBlockType) /\ Len(s) = Len(q)
      /\ \A j \in 1..Len(q) : s[j] = IF j = p THEN x ELSE q[j]
  BY <1>1, ExceptSeq
<1> QED
  BY <1>2 DEF QueueOK

\* Removing the oldest blocks keeps the queue's shape.
LEMMA SuffixOfQueue ==
  ASSUME NEW q, NEW last \in Int, QueueOK(q, last), NEW p \in 0..Len(q)
  PROVE  QueueOK(SubSeq(q, p + 1, Len(q)), last)
<1> DEFINE n == Len(q)
           s == SubSeq(q, p + 1, n)
<1>1. q \in Seq(RxBlockType) /\ n \in Nat /\ n <= RX_QUEUE_MAX_SIZE /\ p \in Nat /\ p <= n
  BY LenProperties DEF QueueOK
<1>2. \A i \in (p + 1)..n : q[i] \in RxBlockType
  BY <1>1, ElementOfSeq
<1>3. /\ s \in Seq(RxBlockType)
      /\ Len(s) = IF p + 1 <= n THEN n - (p + 1) + 1 ELSE 0
      /\ \A i \in 1..(n - (p + 1) + 1) : s[i] = q[(p + 1) + i - 1]
  BY <1>1, <1>2, SubSeqProperties
<1> HIDE DEF s
<1>4. Len(s) = n - p
  BY <1>1, <1>3
<1>5. \A i \in 1..Len(s) : s[i] = q[p + i] /\ p + i \in 1..n
  BY <1>1, <1>3, <1>4
<1>6. \A i \in 1..Len(s) : QueuedOK(s[i]) /\ s[i].blockIdx = last - Len(s) + i
  <2> SUFFICES ASSUME NEW i \in 1..Len(s)
               PROVE  QueuedOK(s[i]) /\ s[i].blockIdx = last - Len(s) + i
    OBVIOUS
  <2>1. s[i] = q[p + i] /\ p + i \in 1..n
    BY <1>5
  <2>2. QueuedOK(q[p + i]) /\ q[p + i].blockIdx = last - n + (p + i)
    BY <2>1 DEF QueueOK
  <2>3. last - n + (p + i) = last - Len(s) + i
    BY <1>1, <1>4
  <2> QED
    BY <2>1, <2>2, <2>3
<1>7. RX_QUEUE_MAX_SIZE \in Nat
  BY FECDecoderAssumption
<1>8. Len(s) <= RX_QUEUE_MAX_SIZE
  BY <1>1, <1>4, <1>7
<1>9. QueueOK(s, last)
  BY <1>3, <1>6, <1>8 DEF QueueOK
<1> QED
  BY <1>9 DEF s

-----------------------------------------------------------------------------
(* rxRingFindCreateBlockByIdx *)

\* How many blocks are created, skipped and evicted.
LEMMA CreationCounts ==
  ASSUME IInv, NEW b \in Block, ~AlreadyProcessed(b)
  PROVE  /\ NewBlocks(b) \in 0..RX_QUEUE_MAX_SIZE
         /\ Skipped(b) \in Nat
         /\ InQueue(b) => NewBlocks(b) = 0
         /\ ~InQueue(b) => NewBlocks(b) >= 1
         /\ b - NewBlocks(b) >= -1
         /\ ~InQueue(b) /\ last_known_block # NoBlock =>
              \/ NewBlocks(b) = b - last_known_block
              \/ NewBlocks(b) = RX_QUEUE_MAX_SIZE
<1>1. b \in Nat /\ RX_QUEUE_MAX_SIZE \in Nat \ {0}
      /\ last_known_block \in Nat \cup {-1}
  BY FECDecoderAssumption DEF IInv, NoBlock
<1>2. CASE InQueue(b)
  BY <1>1, <1>2 DEF NewBlocks, NeededBlocks, Skipped
<1>3. CASE ~InQueue(b) /\ last_known_block = NoBlock
  BY <1>1, <1>3 DEF NewBlocks, NeededBlocks, Skipped, NoBlock
<1>4. CASE ~InQueue(b) /\ last_known_block # NoBlock
  <2>1. b > last_known_block /\ last_known_block \in Nat
    BY <1>1, <1>4 DEF AlreadyProcessed, NoBlock
  <2>2. NeededBlocks(b) = b - last_known_block
    BY <1>4 DEF NeededBlocks
  <2> QED
    BY <1>1, <1>4, <2>1, <2>2 DEF NewBlocks, Skipped
<1> QED
  BY <1>2, <1>3, <1>4

\* The queue with the created blocks behind it.
LEMMA PushedBlocks ==
  ASSUME IInv, NEW b \in Block, ~AlreadyProcessed(b)
  PROVE  /\ Pushed(b) \in Seq(RxBlockType)
         /\ Len(Pushed(b)) = Len(rx_queue) + NewBlocks(b)
         /\ \A i \in 1..Len(rx_queue) : Pushed(b)[i] = rx_queue[i]
         /\ \A i \in (Len(rx_queue) + 1)..(Len(rx_queue) + NewBlocks(b)) :
              /\ QueuedOK(Pushed(b)[i]) /\ Pushed(b)[i].fwd = 0
              /\ Pushed(b)[i].blockIdx = b - (Len(rx_queue) + NewBlocks(b)) + i
<1> DEFINE n == NewBlocks(b)
           L == Len(rx_queue)
           p == [i \in 1..n |-> NewRxBlock(b - n + i)]
<1>1. b \in Nat /\ n \in Nat /\ b - n >= -1
  BY FECDecoderAssumption, CreationCounts
<1>2. rx_queue \in Seq(RxBlockType) /\ L \in Nat
  BY LenProperties DEF IInv, QueueOK
<1> HIDE DEF n, L
<1>3. \A i \in 1..n : b - n + i \in Nat
  BY <1>1
<1>4. \A i \in 1..n : /\ QueuedOK(NewRxBlock(b - n + i))
                      /\ NewRxBlock(b - n + i) \in RxBlockType
                      /\ NewRxBlock(b - n + i).blockIdx = b - n + i
                      /\ NewRxBlock(b - n + i).fwd = 0
  <2> SUFFICES ASSUME NEW j \in Nat
               PROVE  /\ QueuedOK(NewRxBlock(j)) /\ NewRxBlock(j) \in RxBlockType
                      /\ NewRxBlock(j).blockIdx = j /\ NewRxBlock(j).fwd = 0
    BY <1>3
  <2>1. BlockOK(NewRxBlock(j)) /\ Incomplete(NewRxBlock(j)) /\ NewRxBlock(j).blockIdx = j
    BY NewRxBlockOK
  <2>2. NewRxBlock(j).k = Unknown /\ NewRxBlock(j).fwd = 0
    BY DEF NewRxBlock
  <2> QED
    BY <2>1, <2>2 DEF QueuedOK, KMatches, BlockOK
<1>5. p \in Seq(RxBlockType) /\ Len(p) = n
  BY <1>1, <1>4
<1>6. /\ rx_queue \o p \in Seq(RxBlockType)
      /\ Len(rx_queue \o p) = L + n
      /\ \A i \in 1..(L + n) : (rx_queue \o p)[i] = IF i <= L THEN rx_queue[i] ELSE p[i - L]
  <2> HIDE DEF p
  <2> QED
    BY <1>2, <1>5, ConcatProperties DEF L
<1>7. Pushed(b) = rx_queue \o p
  BY DEF Pushed, n
<1>8. \A i \in 1..L : Pushed(b)[i] = rx_queue[i]
  BY <1>1, <1>2, <1>6, <1>7
<1>9. ASSUME NEW i \in (L + 1)..(L + n)
      PROVE  /\ QueuedOK(Pushed(b)[i]) /\ Pushed(b)[i].fwd = 0
             /\ Pushed(b)[i].blockIdx = b - (L + n) + i
  <2>1. i - L \in 1..n /\ i \in 1..(L + n) /\ ~(i <= L)
    BY <1>1, <1>2, <1>9
  <2>2. Pushed(b)[i] = p[i - L]
    BY <2>1, <1>6, <1>7
  <2>3. p[i - L] = NewRxBlock(b - n + (i - L))
    BY <2>1
  <2>4. b - n + (i - L) = b - (L + n) + i
    BY <2>1, <1>1, <1>2
  <2>5. /\ QueuedOK(NewRxBlock(b - n + (i - L)))
        /\ NewRxBlock(b - n + (i - L)).blockIdx = b - n + (i - L)
        /\ NewRxBlock(b - n + (i - L)).fwd = 0
    BY <1>4, <2>1
  <2> QED
    BY <2>2, <2>3, <2>4, <2>5
<1> QED
  BY <1>6, <1>7, <1>8, <1>9 DEF n, L

\* The queue a packet's fragment is stored in has the right shape and ends with
\* the newest block (the assert of FECDecoder.cpp:168).
LEMMA QueueForOK ==
  ASSUME IInv, NEW b \in Block, ~AlreadyProcessed(b)
  PROVE  /\ LastKnown(b) \in Block
         /\ QueueOK(QueueFor(b), LastKnown(b))
         /\ ~InQueue(b) => Len(QueueFor(b)) >= 1
         /\ Overflow(b) \in 0..Len(rx_queue)
         /\ InQueue(b) => QueueFor(b) = rx_queue
<1> DEFINE n == NewBlocks(b)
           L == Len(rx_queue)
           o == Overflow(b)
           q == Pushed(b)
           s == QueueFor(b)
<1>1. /\ b \in Nat /\ RX_QUEUE_MAX_SIZE \in Nat \ {0}
      /\ last_known_block \in Block \cup {-1}
  BY FECDecoderAssumption DEF IInv, NoBlock
<1>2. /\ n \in 0..RX_QUEUE_MAX_SIZE
      /\ InQueue(b) => n = 0
      /\ ~InQueue(b) => n >= 1
      /\ ~InQueue(b) /\ last_known_block # NoBlock =>
            n = b - last_known_block \/ n = RX_QUEUE_MAX_SIZE
  BY CreationCounts
<1>3. /\ rx_queue \in Seq(RxBlockType) /\ L \in Nat /\ L <= RX_QUEUE_MAX_SIZE
      /\ \A i \in 1..L : QueuedOK(rx_queue[i]) /\ rx_queue[i].blockIdx = last_known_block - L + i
  BY LenProperties DEF IInv, QueueOK
<1>4. /\ q \in Seq(RxBlockType) /\ Len(q) = L + n
      /\ \A i \in 1..L : q[i] = rx_queue[i]
      /\ \A i \in (L + 1)..(L + n) : QueuedOK(q[i]) /\ q[i].blockIdx = b - (L + n) + i
  BY PushedBlocks
<1>5. o = IF L + n > RX_QUEUE_MAX_SIZE THEN L + n - RX_QUEUE_MAX_SIZE ELSE 0
  <2>1. Len(q) > RX_QUEUE_MAX_SIZE => o = Len(q) - RX_QUEUE_MAX_SIZE
    BY DEF Overflow
  <2>2. ~(Len(q) > RX_QUEUE_MAX_SIZE) => o = 0
    BY DEF Overflow
  <2>3. Len(q) = L + n /\ L \in Nat /\ n \in Nat /\ RX_QUEUE_MAX_SIZE \in Nat
    BY <1>1, <1>2, <1>3, <1>4
  <2> HIDE DEF n, L, o, q
  <2>4. L + n > RX_QUEUE_MAX_SIZE => o = L + n - RX_QUEUE_MAX_SIZE
    BY <2>1, <2>3
  <2>5. ~(L + n > RX_QUEUE_MAX_SIZE) => o = 0
    BY <2>2, <2>3
  <2> QED
    BY <2>4, <2>5
<1>6. s = SubSeq(q, o + 1, L + n)
  BY <1>4 DEF QueueFor
<1>7. last_known_block = NoBlock => L = 0
  <2> SUFFICES ASSUME last_known_block = -1, L # 0
               PROVE  FALSE
    BY DEF NoBlock
  <2>1. L \in 1..L /\ rx_queue[L] \in RxBlockType
    BY <1>3, ElementOfSeq
  <2>2. rx_queue[L].blockIdx \in Nat
    BY <2>1 DEF RxBlockType
  <2> QED
    BY <1>3, <2>1, <2>2
<1>8. LastKnown(b) = (IF InQueue(b) THEN last_known_block ELSE b)
  BY DEF LastKnown
<1>9. InQueue(b) => L >= 1
  BY <1>3 DEF InQueue
<1>10. LastKnown(b) \in Block
  BY <1>1, <1>7, <1>8, <1>9 DEF NoBlock
<1>11. LastKnown(b) \in Nat
  BY <1>10, FECDecoderAssumption
<1> HIDE DEF n, L, o, q, s
<1>12. o \in 0..L
  BY <1>1, <1>2, <1>3, <1>5
<1>13. \A i \in (o + 1)..(L + n) :
         QueuedOK(q[i]) /\ q[i].blockIdx = LastKnown(b) - (L + n) + i
  <2> SUFFICES ASSUME NEW i \in (o + 1)..(L + n)
               PROVE  QueuedOK(q[i]) /\ q[i].blockIdx = LastKnown(b) - (L + n) + i
    OBVIOUS
  <2>0. i \in 1..(L + n) /\ o \in Nat /\ n \in Nat
    BY <1>1, <1>2, <1>3, <1>12
  <2>1. CASE i <= L
    <3>1. q[i] = rx_queue[i] /\ QueuedOK(rx_queue[i])
          /\ rx_queue[i].blockIdx = last_known_block - L + i
      BY <1>3, <1>4, <2>0, <2>1
    <3>2. last_known_block # NoBlock
      BY <1>3, <1>7, <2>0, <2>1
    <3>3. last_known_block \in Nat
      BY <3>2, <1>1, FECDecoderAssumption DEF NoBlock
    <3>4. o < L
      BY <2>0, <2>1, <1>3
    <3>5. n # RX_QUEUE_MAX_SIZE
      BY <3>4, <1>1, <1>3, <1>5
    <3>6. LastKnown(b) - n = last_known_block
      BY <1>1, <1>2, <1>8, <3>2, <3>3, <3>5
    <3>7. last_known_block - L + i = LastKnown(b) - (L + n) + i
      BY <3>6, <3>3, <1>3, <1>11, <2>0
    <3> QED
      BY <3>1, <3>7
  <2>2. CASE ~(i <= L)
    <3>1. i \in (L + 1)..(L + n) /\ n # 0
      BY <2>0, <2>2, <1>3
    <3>2. LastKnown(b) = b
      BY <3>1, <1>2, <1>8
    <3> QED
      BY <3>1, <3>2, <1>4
  <2> QED
    BY <2>1, <2>2
<1>14. QueueOK(s, LastKnown(b)) /\ Len(s) = L + n - o
  <2>1. L \in Nat /\ n \in Nat /\ o \in Nat /\ L + n \in Nat /\ o <= L + n /\ o <= L
    BY <1>2, <1>3, <1>12
  <2>2. \A i \in (o + 1)..(L + n) : q[i] \in RxBlockType
    BY <1>13 DEF QueuedOK, BlockOK
  <2>3. /\ s \in Seq(RxBlockType)
        /\ Len(s) = IF o + 1 <= L + n THEN (L + n) - (o + 1) + 1 ELSE 0
        /\ \A i \in 1..((L + n) - (o + 1) + 1) : s[i] = q[(o + 1) + i - 1]
    <3>1. o + 1 \in Int /\ L + n \in Int
      BY <2>1
    <3> QED
      BY <3>1, <2>2, <1>6, SubSeqProperties
  <2>4. Len(s) = L + n - o
    <3>1. CASE o + 1 <= L + n
      <4>1. (L + n) - (o + 1) + 1 = L + n - o
        BY <2>1
      <4> QED
        BY <3>1, <4>1, <2>3
    <3>2. CASE ~(o + 1 <= L + n)
      <4>1. L + n - o = 0
        BY <2>1, <3>2
      <4> QED
        BY <3>2, <4>1, <2>3
    <3> QED
      BY <3>1, <3>2
  <2>5. ASSUME NEW i \in 1..Len(s)
        PROVE  QueuedOK(s[i]) /\ s[i].blockIdx = LastKnown(b) - Len(s) + i
    <3>1. o + i \in (o + 1)..(L + n) /\ i \in 1..((L + n) - (o + 1) + 1)
          /\ (o + 1) + i - 1 = o + i
      BY <2>1, <2>4
    <3>2. s[i] = q[o + i]
      BY <3>1, <2>3
    <3>3. LastKnown(b) - (L + n) + (o + i) = LastKnown(b) - Len(s) + i
      BY <2>1, <2>4, <1>11
    <3> QED
      BY <3>1, <3>2, <3>3, <1>13
  <2>6. Len(s) <= RX_QUEUE_MAX_SIZE
    BY <2>1, <2>4, <1>1, <1>2, <1>3, <1>5
  <2> QED
    BY <2>3, <2>4, <2>5, <2>6 DEF QueueOK
<1>15. ~InQueue(b) => Len(s) >= 1
  BY <1>1, <1>2, <1>3, <1>5, <1>14
<1>16. InQueue(b) => s = rx_queue
  <2> SUFFICES ASSUME InQueue(b)
               PROVE  s = rx_queue
    OBVIOUS
  <2>1. n = 0 /\ o = 0 /\ Len(s) = L
    BY <1>1, <1>2, <1>3, <1>5, <1>14
  <2>2. s \in Seq(RxBlockType)
    BY <1>14 DEF QueueOK
  <2>3. \A i \in 1..L : s[i] = rx_queue[i]
    <3>1. q \in Seq(RxBlockType) /\ Len(q) = L
      BY <1>4, <2>1, <1>3
    <3>2. s = SubSeq(q, 1, L)
      BY <1>6, <2>1, <1>3
    <3>3. s = q
      BY <3>1, <3>2, SubSeqFull
    <3> QED
      BY <3>3, <1>4
  <2> QED
    BY <2>1, <2>2, <2>3, <1>3, SeqEqual DEF L
<1> QED
  BY <1>10, <1>12, <1>14, <1>15, <1>16 DEF n, L, o, q, s

\* The block of an accepted packet is in that queue, so the front and the
\* not-front branch of process_with_rx_queue both work on the right block.
LEMMA PositionOK ==
  ASSUME IInv, NEW b \in Block, ~AlreadyProcessed(b)
  PROVE  /\ Position(b) \in 1..Len(QueueFor(b))
         /\ QueueFor(b)[Position(b)].blockIdx = b
         /\ FindAsserts(b)
<1> DEFINE s == QueueFor(b)
<1>1. /\ QueueOK(s, LastKnown(b)) /\ LastKnown(b) \in Block
      /\ ~InQueue(b) => Len(s) >= 1
      /\ InQueue(b) => s = rx_queue
  BY QueueForOK
<1>2. Len(s) \in Nat
  BY <1>1, LenProperties DEF QueueOK
<1>3. b \in Nat
  BY FECDecoderAssumption
<1>4. CASE InQueue(b)
  <2>1. \E i \in 1..Len(s) : s[i].blockIdx = b
    BY <1>1, <1>4 DEF InQueue
  <2> QED
    BY <2>1, <1>4 DEF Position, FindAsserts
<1>5. CASE ~InQueue(b)
  <2>1. Len(s) \in 1..Len(s) /\ LastKnown(b) = b
    BY <1>1, <1>2, <1>5 DEF LastKnown
  <2> HIDE DEF s
  <2>2. s[Len(s)].blockIdx = b - Len(s) + Len(s)
    BY <1>1, <2>1 DEF QueueOK
  <2>3. s[Len(s)].blockIdx = b
    BY <2>2, <1>2, <1>3
  <2> USE DEF s
  <2>4. FindAsserts(b)
    BY <2>3 DEF FindAsserts, Last
  <2>5. \E i \in 1..Len(s) : s[i].blockIdx = b
    BY <2>1, <2>3
  <2> QED
    BY <2>4, <2>5 DEF Position
<1> QED
  BY <1>4, <1>5

-----------------------------------------------------------------------------
(* Popping blocks *)

\* Blocks of a queue, oldest first: all are in a legal state, so forwarding
\* them fails no assert.
LEMMA PrefixOfQueue ==
  ASSUME NEW q, NEW last, QueueOK(q, last), NEW n \in 0..Len(q), NEW discard
  PROVE  /\ ForwardEach(SubSeq(q, 1, n), discard) \in Seq(RxBlockType)
         /\ PullEachAsserts(SubSeq(q, 1, n), discard)
<1> DEFINE s == SubSeq(q, 1, n)
<1>1. q \in Seq(RxBlockType) /\ n \in Nat /\ Len(q) \in Nat /\ n <= Len(q)
  BY LenProperties DEF QueueOK
<1>2. \A i \in 1..n : q[i] \in RxBlockType
  BY <1>1, ElementOfSeq
<1>3. /\ s \in Seq(RxBlockType)
      /\ Len(s) = IF 1 <= n THEN n - 1 + 1 ELSE 0
      /\ \A i \in 1..(n - 1 + 1) : s[i] = q[1 + i - 1]
  BY <1>1, <1>2, SubSeqProperties
<1> HIDE DEF s
<1>4. Len(s) = n
  BY <1>1, <1>3
<1>5. \A i \in 1..Len(s) : BlockOK(s[i])
  <2> SUFFICES ASSUME NEW i \in 1..Len(s) PROVE BlockOK(s[i])
    OBVIOUS
  <2>1. i \in 1..(n - 1 + 1) /\ i \in 1..Len(q) /\ 1 + i - 1 = i
    BY <1>1, <1>4
  <2>2. s[i] = q[i]
    BY <2>1, <1>3
  <2> QED
    BY <2>1, <2>2 DEF QueueOK, QueuedOK
<1>6. \A i \in 1..Len(s) : Forwarded(s[i], discard) \in RxBlockType /\ PullAsserts(s[i], discard)
  BY <1>5, ForwardedType, PullAssertsHold
<1>7. ForwardEach(s, discard) \in Seq(RxBlockType)
  BY <1>1, <1>4, <1>6 DEF ForwardEach
<1>8. PullEachAsserts(s, discard)
  BY <1>6 DEF PullEachAsserts
<1> QED
  BY <1>7, <1>8 DEF s

\* The lost blocks among the popped ones are counted by a natural number.
LEMMA LostAmongNat ==
  ASSUME NEW p \in Seq(RxBlockType)
  PROVE  LostAmong(p) \in Nat
<1>1. Len(p) \in Nat
  BY LenProperties
<1>2. IsFiniteSet(1..Len(p))
  BY <1>1, FS_Interval
<1>3. IsFiniteSet({i \in 1..Len(p) : ~AllForwarded(p[i])})
  BY <1>2, FS_Subset
<1> QED
  BY <1>3, FS_CardinalityType DEF LostAmong

-----------------------------------------------------------------------------
(* process_with_rx_queue *)

\* A packet that is not ignored adds a fragment its block can take, and the
\* block then has at most k fragments: never more, since it would have left.
LEMMA FilledOK ==
  ASSUME IInv, NEW h, StreamPacket(h), IsNewFragment(h)
  PROVE  /\ h.block_idx \in Block /\ ~AlreadyProcessed(h.block_idx)
         /\ AddFragmentAsserts(QueueFor(h.block_idx)[Position(h.block_idx)], h)
         /\ BlockOK(Filled(h)) /\ KMatches(Filled(h))
         /\ Filled(h).k # Unknown /\ Filled(h).nP + Filled(h).nS <= Filled(h).k
         /\ Filled(h).blockIdx = h.block_idx
<1> DEFINE b == h.block_idx
           r == QueueFor(b)[Position(b)]
           a == Filled(h)
<1>1. PICK f \in Nat : b \in Block /\ h = StreamHeader(b, f)
  BY DEF StreamPacket, StreamHeader
<1>2. h.fragment_idx = f /\ h.n_primary_fragments = NPrimary[b]
  BY <1>1 DEF StreamHeader
<1>3. b \in Nat /\ NPrimary[b] \in Nat \ {0}
  BY <1>1, FECDecoderAssumption
<1>4. h \in HeaderType
  BY <1>1, <1>3 DEF HeaderType, StreamHeader
<1>5. ~AlreadyProcessed(b) /\ h.fragment_idx \notin r.map
  BY DEF IsNewFragment
<1>6. QueuedOK(r) /\ r.blockIdx = b
  BY <1>1, <1>5, QueueForOK, PositionOK DEF QueueOK
<1>7. r.k \in {Unknown, h.n_primary_fragments}
  BY <1>2, <1>6 DEF QueuedOK, KMatches
<1>8. a = AddFragment(r, h)
  BY DEF Filled
<1> HIDE DEF r, a
<1>9. /\ BlockOK(a) /\ a.k = NPrimary[b] /\ a.k # Unknown /\ a.blockIdx = b
      /\ a.nP + a.nS = r.nP + r.nS + 1
  BY <1>2, <1>4, <1>5, <1>6, <1>7, <1>8, AddFragmentOK DEF QueuedOK
<1>10. a.nP + a.nS <= a.k
  <2>1. r.nP \in Nat /\ r.nS \in Nat /\ a.nP \in Nat /\ a.nS \in Nat /\ a.k \in Nat \ {0}
    BY <1>3, <1>6, <1>9 DEF QueuedOK, BlockOK, RxBlockType
  <2>2. CASE r.k = Unknown
    BY <2>1, <2>2, <1>6, <1>9 DEF QueuedOK, BlockOK
  <2>3. CASE r.k # Unknown
    <3>1. r.k = a.k
      BY <2>3, <1>2, <1>7, <1>9
    <3> QED
      BY <2>1, <2>3, <3>1, <1>6, <1>9 DEF QueuedOK, Incomplete
  <2> QED
    BY <2>2, <2>3
<1>11. KMatches(a)
  BY <1>1, <1>9 DEF KMatches
<1>12. AddFragmentAsserts(r, h)
  BY <1>5, <1>6, <1>7 DEF AddFragmentAsserts
<1> QED
  BY <1>1, <1>5, <1>9, <1>10, <1>11, <1>12 DEF r, a

\* A record of four naturals is a value of the counters.
LEMMA StatsRecord ==
  ASSUME NEW t \in Nat, NEW l \in Nat, NEW r \in Nat, NEW f \in Nat
  PROVE  [total |-> t, lost |-> l, recovered |-> r, fragments_recovered |-> f] \in StatsType
BY DEF StatsType

\* The parts of a step that all accepted packets share.
LEMMA CommitOK ==
  ASSUME IInv, NEW h, StreamPacket(h), IsNewFragment(h),
         NEW queue, QueueOK(queue, LastKnown(h.block_idx)),
         NEW popped \in Seq(RxBlockType), NEW emitted, NEW recovered \in Nat,
         NEW asserts, asserts,
         Commit(h, queue, popped, emitted, recovered, asserts)
  PROVE  IInv'
<1> DEFINE b == h.block_idx
           gone == ForwardEach(Evicted(b), TRUE) \o popped
           n == NewBlocks(b)
           lost == Skipped(b)
           among == LostAmong(gone)
<1>1. b \in Block /\ ~AlreadyProcessed(b)
      /\ AddFragmentAsserts(QueueFor(b)[Position(b)], h)
  BY FilledOK
<1>2. LastKnown(b) \in Block /\ Overflow(b) \in 0..Len(rx_queue) /\ FindAsserts(b)
  BY <1>1, QueueForOK, PositionOK
<1>3. ForwardEach(Evicted(b), TRUE) \in Seq(RxBlockType) /\ PullEachAsserts(Evicted(b), TRUE)
  BY <1>2, PrefixOfQueue DEF Evicted, IInv
<1>4. gone \in Seq(RxBlockType)
  BY <1>3, ConcatProperties
<1>5. among \in Nat
  BY <1>4, LostAmongNat
<1>6. n \in Nat /\ lost \in Nat
  BY <1>1, CreationCounts
<1>7. stats.total \in Nat /\ stats.lost \in Nat /\ stats.recovered \in Nat
      /\ stats.fragments_recovered \in Nat
  BY DEF IInv, StatsType
<1>8. stats' = [total |-> stats.total + n, lost |-> stats.lost + lost + among,
                recovered |-> stats.recovered + (IF recovered > 0 THEN 1 ELSE 0),
                fragments_recovered |-> stats.fragments_recovered + recovered]
  BY DEF Commit
<1>9. aborted' = FALSE
  BY <1>1, <1>2, <1>3 DEF Commit
<1>10. rx_queue' = queue /\ last_known_block' = LastKnown(b) /\ resets' = resets
  BY DEF Commit
<1> HIDE DEF n, lost, among
<1>11. stats' \in StatsType
  <2>1. /\ stats.total + n \in Nat /\ stats.lost + lost + among \in Nat
        /\ stats.recovered + (IF recovered > 0 THEN 1 ELSE 0) \in Nat
        /\ stats.fragments_recovered + recovered \in Nat
    <3>1. \A x, y, z \in Nat : x + y \in Nat /\ x + y + z \in Nat
      OBVIOUS
    <3>2. (IF recovered > 0 THEN 1 ELSE 0) \in Nat
      OBVIOUS
    <3> QED
      BY <3>1, <3>2, <1>5, <1>6, <1>7, Zenon
  <2> QED
    BY <2>1, <1>8, StatsRecord
<1> QED
  BY <1>2, <1>9, <1>10, <1>11 DEF IInv, QueueOK

\* Forwarding without gaps changes nothing but the forward position.
LEMMA ForwardedInPlace ==
  ASSUME NEW r, BlockOK(r), KMatches(r)
  PROVE  /\ BlockOK(Forwarded(r, FALSE)) /\ KMatches(Forwarded(r, FALSE))
         /\ PullAsserts(r, FALSE)
         /\ Forwarded(r, FALSE).k = r.k /\ Forwarded(r, FALSE).nP = r.nP
         /\ Forwarded(r, FALSE).nS = r.nS /\ Forwarded(r, FALSE).blockIdx = r.blockIdx
BY ForwardedOK, ForwardedType, PullAssertsHold DEF KMatches

\* A block that cannot be recovered yet may wait in the queue.
LEMMA WaitingOK ==
  ASSUME NEW r, BlockOK(r), KMatches(r), ~CanBeRecovered(r)
  PROVE  QueuedOK(r)
<1>1. r.k # Unknown => r.nP \in Nat /\ r.nS \in Nat /\ r.k \in Nat
  BY DEF BlockOK, RxBlockType
<1>2. r.k # Unknown => r.nP + r.nS < r.k
  BY <1>1 DEF CanBeRecovered
<1> QED
  BY <1>2 DEF QueuedOK, Incomplete

\* A block with k fragments, some of them secondary, is recovered by FEC and
\* then forwarded to its end: fecDecode is called neither too early nor too late.
LEMMA RecoverOK ==
  ASSUME NEW r, BlockOK(r), r.k # Unknown, r.nP + r.nS <= r.k,
         CanBeRecovered(r), ~AllAvailable(r)
  PROVE  /\ ReconstructAsserts(r)
         /\ BlockOK(Reconstructed(r))
         /\ PullAsserts(Reconstructed(r), FALSE)
         /\ AllForwarded(Forwarded(Reconstructed(r), FALSE))
         /\ Forwarded(Reconstructed(r), FALSE) \in RxBlockType
         /\ Cardinality(MissingPrimary(r)) \in Nat
<1>1. r.nP \in Nat /\ r.nS \in Nat /\ r.k \in Nat
  BY DEF BlockOK, RxBlockType
<1>2. r.nP + r.nS = r.k /\ r.nP # r.k
  BY <1>1 DEF CanBeRecovered, AllAvailable
<1>3. /\ ReconstructAsserts(r) /\ BlockOK(Reconstructed(r)) /\ AllAvailable(Reconstructed(r))
      /\ Cardinality(MissingPrimary(r)) \in Nat
  BY <1>2, ReconstructedOK
<1> QED
  BY <1>3, PullAssertsHold, AllForwardedAtEnd, ForwardedType

\* Removing the front block.
LEMMA TailOfQueue ==
  ASSUME NEW q, NEW last \in Int, QueueOK(q, last), 1 \in 1..Len(q)
  PROVE  QueueOK(Tail(q), last)
<1>1. q \in Seq(RxBlockType) /\ Len(q) \in Nat /\ Len(q) >= 1
  BY LenProperties DEF QueueOK
<1>2. Tail(q) = SubSeq(q, 1 + 1, Len(q))
  BY <1>1 DEF Tail
<1>3. 1 \in 0..Len(q)
  BY <1>1
<1>4. QueueOK(SubSeq(q, 1 + 1, Len(q)), last)
  BY <1>3, SuffixOfQueue
<1> QED
  BY <1>2, <1>4, Zenon

\* The front block with its fragment, before and after forwarding.
LEMMA FrontOK ==
  ASSUME IInv, NEW h, StreamPacket(h), IsNewFragment(h), Position(h.block_idx) = 1
  PROVE  /\ QueueOK(QueueFor(h.block_idx), LastKnown(h.block_idx))
         /\ LastKnown(h.block_idx) \in Int
         /\ 1 \in 1..Len(QueueFor(h.block_idx))
         /\ QueueFor(h.block_idx)[1].blockIdx = h.block_idx
         /\ PullAsserts(Filled(h), FALSE)
         /\ BlockOK(FrontForwarded(h)) /\ KMatches(FrontForwarded(h))
         /\ FrontForwarded(h).k # Unknown
         /\ FrontForwarded(h).nP + FrontForwarded(h).nS <= FrontForwarded(h).k
         /\ FrontForwarded(h).blockIdx = h.block_idx
         /\ AllAvailable(FrontForwarded(h)) => AllForwarded(FrontForwarded(h))
<1> DEFINE b == h.block_idx
<1>1. /\ b \in Block /\ ~AlreadyProcessed(b)
      /\ BlockOK(Filled(h)) /\ KMatches(Filled(h))
      /\ Filled(h).k # Unknown /\ Filled(h).nP + Filled(h).nS <= Filled(h).k
      /\ Filled(h).blockIdx = b
  BY FilledOK
<1>2. QueueOK(QueueFor(b), LastKnown(b)) /\ LastKnown(b) \in Int
  <2>1. QueueOK(QueueFor(b), LastKnown(b)) /\ LastKnown(b) \in Block
    BY <1>1, QueueForOK
  <2>2. LastKnown(b) \in Nat
    BY <2>1, FECDecoderAssumption
  <2> QED
    BY <2>1, <2>2
<1>3. 1 \in 1..Len(QueueFor(b)) /\ QueueFor(b)[1].blockIdx = b
  BY <1>1, PositionOK
<1>4. /\ BlockOK(FrontForwarded(h)) /\ KMatches(FrontForwarded(h))
      /\ PullAsserts(Filled(h), FALSE)
      /\ FrontForwarded(h).k = Filled(h).k /\ FrontForwarded(h).nP = Filled(h).nP
      /\ FrontForwarded(h).nS = Filled(h).nS /\ FrontForwarded(h).blockIdx = b
  BY <1>1, ForwardedInPlace DEF FrontForwarded
<1>5. AllAvailable(FrontForwarded(h)) => AllForwarded(FrontForwarded(h))
  BY <1>1, <1>4, AllForwardedAtEnd DEF AllAvailable, FrontForwarded
<1> QED
  BY <1>1, <1>2, <1>3, <1>4, <1>5

\* The handlers keep the invariant: the front block stays, incomplete;
LEMMA FrontPendingStep ==
  ASSUME IInv, NEW h, StreamPacket(h), FrontPending(h)
  PROVE  IInv'
<1> DEFINE b == h.block_idx
           q == [QueueFor(b) EXCEPT ![1] = FrontForwarded(h)]
<1>1. /\ IsNewFragment(h) /\ Position(b) = 1 /\ ~CanBeRecovered(FrontForwarded(h))
      /\ Commit(h, q, <<>>, Emitted(Filled(h), FALSE), 0, PullAsserts(Filled(h), FALSE))
  BY DEF FrontPending
<1>2. QueuedOK(FrontForwarded(h))
  BY <1>1, FrontOK, WaitingOK
<1>3. QueueOK(q, LastKnown(b))
  BY <1>1, <1>2, FrontOK, ReplaceInQueue
<1>4. PullAsserts(Filled(h), FALSE)
  BY <1>1, FrontOK
<1>5. <<>> \in Seq(RxBlockType) /\ 0 \in Nat
  OBVIOUS
<1> HIDE DEF q
<1> QED
  BY <1>1, <1>3, <1>4, <1>5, CommitOK

\* the front block is complete and removed;
LEMMA FrontDoneStep ==
  ASSUME IInv, NEW h, StreamPacket(h), FrontDone(h)
  PROVE  IInv'
<1> DEFINE b == h.block_idx
           q == Tail(QueueFor(b))
           popped == <<FrontForwarded(h)>>
<1>1. /\ IsNewFragment(h) /\ Position(b) = 1
      /\ Commit(h, q, popped, Emitted(Filled(h), FALSE), 0, PullAsserts(Filled(h), FALSE))
  BY DEF FrontDone
<1>2. QueueOK(q, LastKnown(b))
  BY <1>1, FrontOK, TailOfQueue
<1>3. PullAsserts(Filled(h), FALSE) /\ FrontForwarded(h) \in RxBlockType
  BY <1>1, FrontOK DEF BlockOK
<1>4. popped \in Seq(RxBlockType) /\ 0 \in Nat
  BY <1>3
<1> HIDE DEF q, popped
<1> QED
  BY <1>1, <1>2, <1>3, <1>4, CommitOK

\* the front block is recovered by FEC and removed;
LEMMA FrontRecoverStep ==
  ASSUME IInv, NEW h, StreamPacket(h), FrontRecover(h)
  PROVE  IInv'
<1> DEFINE b == h.block_idx
           q == Tail(QueueFor(b))
           fixed == Reconstructed(FrontForwarded(h))
           popped == <<Forwarded(fixed, FALSE)>>
           emitted == Emitted(Filled(h), FALSE) \o Emitted(fixed, FALSE)
           recovered == Cardinality(MissingPrimary(FrontForwarded(h)))
           asserts == /\ PullAsserts(Filled(h), FALSE)
                      /\ ReconstructAsserts(FrontForwarded(h))
                      /\ PullAsserts(fixed, FALSE)
                      /\ AllForwarded(Forwarded(fixed, FALSE))
<1>1. /\ IsNewFragment(h) /\ Position(b) = 1
      /\ ~AllForwarded(FrontForwarded(h)) /\ CanBeRecovered(FrontForwarded(h))
      /\ Commit(h, q, popped, emitted, recovered, asserts)
  BY DEF FrontRecover
<1>2. QueueOK(q, LastKnown(b))
  BY <1>1, FrontOK, TailOfQueue
<1>3. /\ PullAsserts(Filled(h), FALSE)
      /\ BlockOK(FrontForwarded(h)) /\ FrontForwarded(h).k # Unknown
      /\ FrontForwarded(h).nP + FrontForwarded(h).nS <= FrontForwarded(h).k
      /\ ~AllAvailable(FrontForwarded(h))
  BY <1>1, FrontOK
<1>4. /\ ReconstructAsserts(FrontForwarded(h)) /\ PullAsserts(fixed, FALSE)
      /\ AllForwarded(Forwarded(fixed, FALSE)) /\ Forwarded(fixed, FALSE) \in RxBlockType
      /\ recovered \in Nat
  BY <1>1, <1>3, RecoverOK
<1>5. asserts
  BY <1>3, <1>4
<1>6. popped \in Seq(RxBlockType)
  <2>1. \A x \in RxBlockType : <<x>> \in Seq(RxBlockType)
    OBVIOUS
  <2> HIDE DEF fixed
  <2> QED
    BY <1>4, <2>1
<1> HIDE DEF q, popped, emitted, recovered, asserts
<1> QED
  BY <1>1, <1>2, <1>4, <1>5, <1>6, CommitOK

\* a newer block keeps a fragment;
LEMMA StoreFragmentStep ==
  ASSUME IInv, NEW h, StreamPacket(h), StoreFragment(h)
  PROVE  IInv'
<1> DEFINE b == h.block_idx
           p == Position(b)
           q == [QueueFor(b) EXCEPT ![p] = Filled(h)]
<1>1. /\ IsNewFragment(h) /\ ~CanBeRecovered(Filled(h))
      /\ Commit(h, q, <<>>, <<>>, 0, TRUE)
  BY DEF StoreFragment
<1>2. b \in Block /\ ~AlreadyProcessed(b) /\ QueuedOK(Filled(h)) /\ Filled(h).blockIdx = b
  BY <1>1, FilledOK, WaitingOK
<1>3. /\ QueueOK(QueueFor(b), LastKnown(b))
      /\ p \in 1..Len(QueueFor(b)) /\ QueueFor(b)[p].blockIdx = b
  BY <1>2, QueueForOK, PositionOK
<1>4. QueueOK(q, LastKnown(b))
  BY <1>2, <1>3, ReplaceInQueue
<1>5. <<>> \in Seq(RxBlockType) /\ 0 \in Nat
  OBVIOUS
<1> HIDE DEF q
<1> QED
  BY <1>1, <1>4, <1>5, CommitOK

\* The flush loop, for a block that is complete with or without FEC.
LEMMA FlushUpToStep ==
  ASSUME IInv, NEW h, StreamPacket(h), IsNewFragment(h),
         NEW fixed, BlockOK(fixed), AllAvailable(fixed),
         NEW recovered \in Nat, NEW asserts, asserts,
         FlushUpTo(h, fixed, recovered, asserts)
  PROVE  IInv'
<1> DEFINE b == h.block_idx
           p == Position(b)
           n == Len(QueueFor(b))
           q == SubSeq(QueueFor(b), p + 1, n)
           older == SubSeq(QueueFor(b), 1, p - 1)
           discard == m_forward_gapped_fragments
           popped == Append(ForwardEach(older, discard), Forwarded(fixed, FALSE))
           emitted == EmitEach(older, discard) \o Emitted(fixed, FALSE)
           all == /\ PullEachAsserts(older, discard)
                  /\ asserts
                  /\ PullAsserts(fixed, FALSE)
                  /\ AllForwarded(Forwarded(fixed, FALSE))
<1>1. Commit(h, q, popped, emitted, recovered, all)
  BY DEF FlushUpTo
<1>2. b \in Block /\ ~AlreadyProcessed(b)
  BY FilledOK
<1>3. QueueOK(QueueFor(b), LastKnown(b)) /\ LastKnown(b) \in Block /\ p \in 1..n
  BY <1>2, QueueForOK, PositionOK
<1>4. n \in Nat /\ p \in 0..n /\ p - 1 \in 0..n
  <2>1. n \in Nat
    BY <1>3, LenProperties DEF QueueOK
  <2> QED
    BY <1>3, <2>1
<1>5. LastKnown(b) \in Nat
  BY <1>3, FECDecoderAssumption
<1>6. QueueOK(q, LastKnown(b))
  <2>1. LastKnown(b) \in Int
    BY <1>5
  <2> QED
    BY <1>3, <1>4, <2>1, SuffixOfQueue
<1>7. ForwardEach(older, discard) \in Seq(RxBlockType) /\ PullEachAsserts(older, discard)
  BY <1>3, <1>4, PrefixOfQueue
<1>8. /\ Forwarded(fixed, FALSE) \in RxBlockType /\ PullAsserts(fixed, FALSE)
      /\ AllForwarded(Forwarded(fixed, FALSE))
  BY ForwardedType, PullAssertsHold, AllForwardedAtEnd
<1>9. popped \in Seq(RxBlockType)
  BY <1>7, <1>8, AppendProperties
<1>10. all
  BY <1>7, <1>8
<1> HIDE DEF q, popped, emitted, all
<1> QED
  BY <1>1, <1>6, <1>9, <1>10, CommitOK

\* a newer block became complete without FEC,
LEMMA FlushCompleteStep ==
  ASSUME IInv, NEW h, StreamPacket(h), FlushComplete(h)
  PROVE  IInv'
<1>1. /\ IsNewFragment(h) /\ AllAvailable(Filled(h))
      /\ FlushUpTo(h, Filled(h), 0, TRUE)
  BY DEF FlushComplete
<1>2. BlockOK(Filled(h)) /\ 0 \in Nat
  BY <1>1, FilledOK
<1> QED
  BY <1>1, <1>2, FlushUpToStep

\* or with FEC.
LEMMA FlushRecoverStep ==
  ASSUME IInv, NEW h, StreamPacket(h), FlushRecover(h)
  PROVE  IInv'
<1> DEFINE fixed == Reconstructed(Filled(h))
           recovered == Cardinality(MissingPrimary(Filled(h)))
<1>1. /\ IsNewFragment(h) /\ ~AllAvailable(Filled(h)) /\ CanBeRecovered(Filled(h))
      /\ FlushUpTo(h, fixed, recovered, ReconstructAsserts(Filled(h)))
  BY DEF FlushRecover
<1>2. /\ BlockOK(Filled(h)) /\ Filled(h).k # Unknown
      /\ Filled(h).nP + Filled(h).nS <= Filled(h).k
  BY <1>1, FilledOK
<1>3. ReconstructAsserts(Filled(h)) /\ recovered \in Nat
  BY <1>1, <1>2, RecoverOK
<1>4. /\ Filled(h).nP \in Nat /\ Filled(h).nS \in Nat /\ Filled(h).k \in Nat
      /\ Filled(h).nP + Filled(h).nS = Filled(h).k /\ Filled(h).nP # Filled(h).k
  <2>1. Filled(h).nP \in Nat /\ Filled(h).nS \in Nat /\ Filled(h).k \in Nat
    BY <1>2 DEF BlockOK, RxBlockType
  <2> QED
    BY <1>1, <1>2, <2>1 DEF CanBeRecovered, AllAvailable
<1>5. BlockOK(fixed) /\ AllAvailable(fixed)
  BY <1>2, <1>4, ReconstructedOK
<1> HIDE DEF fixed, recovered
<1> QED
  BY <1>1, <1>3, <1>5, FlushUpToStep

-----------------------------------------------------------------------------
(* The invariant *)

\* The invariant holds when the receiver starts.
LEMMA InitIInv == Init => IInv
<1> SUFFICES ASSUME Init PROVE IInv
  OBVIOUS
<1>1. QueueOK(rx_queue, last_known_block)
  <2>1. rx_queue = <<>> /\ RX_QUEUE_MAX_SIZE \in 1..19
    BY FECDecoderAssumption DEF Init
  <2>2. rx_queue \in Seq(RxBlockType) /\ Len(rx_queue) = 0
    BY <2>1
  <2> QED
    BY <2>1, <2>2 DEF QueueOK
<1>2. stats \in StatsType
  BY StatsRecord DEF Init, ZeroStats
<1>3. resets \in 0..MaxResets
  BY FECDecoderAssumption DEF Init
<1> QED
  BY <1>1, <1>2, <1>3 DEF Init, IInv

\* Every step keeps the invariant.
LEMMA NextIInv == IInv /\ [Next]_vars => IInv'
<1> SUFFICES ASSUME IInv, [Next]_vars
             PROVE  IInv'
  OBVIOUS
<1>1. CASE UNCHANGED vars
  BY <1>1 DEF IInv, QueueOK, vars
<1>2. CASE ResetRxQueue
  <2>1. rx_queue' = <<>> /\ last_known_block' = NoBlock /\ resets' = resets + 1
        /\ resets < MaxResets /\ UNCHANGED <<stats, aborted>>
    BY <1>2 DEF ResetRxQueue
  <2>2. QueueOK(<<>>, NoBlock)
    <3>1. RX_QUEUE_MAX_SIZE \in 1..19
      BY FECDecoderAssumption
    <3>2. <<>> \in Seq(RxBlockType) /\ Len(<<>>) = 0
      OBVIOUS
    <3> QED
      BY <3>1, <3>2 DEF QueueOK
  <2>3. resets + 1 \in 0..MaxResets
    BY <2>1, FECDecoderAssumption DEF IInv
  <2> QED
    BY <2>1, <2>2, <2>3 DEF IInv, QueueOK
<1>3. ASSUME NEW b \in Block, NEW f \in 0..(NPrimary[b] + NSecondary[b] - 1),
             ProcessPacket(StreamHeader(b, f))
      PROVE  IInv'
  <2> DEFINE h == StreamHeader(b, f)
  <2>1. StreamPacket(h)
    BY DEF StreamPacket
  <2>2. \/ IgnorePacket(h) \/ FrontPending(h) \/ FrontDone(h) \/ FrontRecover(h)
        \/ StoreFragment(h) \/ FlushComplete(h) \/ FlushRecover(h)
    BY <1>3 DEF ProcessPacket
  <2> HIDE DEF h
  <2>3. CASE IgnorePacket(h)
    BY <2>3 DEF IgnorePacket, IInv, QueueOK, vars
  <2>4. CASE FrontPending(h)
    BY <2>1, <2>4, FrontPendingStep
  <2>5. CASE FrontDone(h)
    BY <2>1, <2>5, FrontDoneStep
  <2>6. CASE FrontRecover(h)
    BY <2>1, <2>6, FrontRecoverStep
  <2>7. CASE StoreFragment(h)
    BY <2>1, <2>7, StoreFragmentStep
  <2>8. CASE FlushComplete(h)
    BY <2>1, <2>8, FlushCompleteStep
  <2>9. CASE FlushRecover(h)
    BY <2>1, <2>9, FlushRecoverStep
  <2> QED
    BY <2>2, <2>3, <2>4, <2>5, <2>6, <2>7, <2>8, <2>9
<1> QED
  BY <1>1, <1>2, <1>3 DEF Next

\* IInv is an invariant of the decoder.
LEMMA Invariance == Spec => []IInv
BY InitIInv, NextIInv, PTL DEF Spec

-----------------------------------------------------------------------------
(* The results *)

\* The decoder state keeps its types, whatever comes in: no counter of
\* FECRxStats and none of RxBlock ever leaves the naturals.
THEOREM TypeCorrect == Spec => []TypeOK
<1>1. IInv => TypeOK
  BY DEF IInv, TypeOK, QueueOK, StatsType
<1> QED
  BY <1>1, Invariance, PTL

\* No packet makes an assert of RxBlock, fecDecode or FECDecoder fail, for every
\* queue depth, block layout, loss, duplication and reordering.
THEOREM NoAssertFailsAlways == Spec => []NoAssertFails
<1>1. IInv => NoAssertFails
  BY DEF IInv, NoAssertFails
<1> QED
  BY <1>1, Invariance, PTL

\* The queue never exceeds its depth and holds consecutive block indices up to
\* last_known_block.
THEOREM QueueShapeAlways == Spec => []QueueShape
<1>1. IInv => QueueShape
  BY DEF IInv, QueueShape, QueueOK
<1> QED
  BY <1>1, Invariance, PTL

\* A queued block is never decodable: it leaves the queue with its k-th fragment.
THEOREM QueuedIncompleteAlways == Spec => []QueuedIncomplete
<1>1. IInv => QueuedIncomplete
  BY DEF IInv, QueuedIncomplete, QueueOK, QueuedOK, BlockOK, Incomplete
<1> QED
  BY <1>1, Invariance, PTL

\* The counters of every queued block describe its fragment map.
THEOREM CountersMatchMapAlways == Spec => []CountersMatchMap
<1>1. IInv => CountersMatchMap
  BY DEF IInv, CountersMatchMap, QueueOK, QueuedOK, BlockOK, Primaries
<1> QED
  BY <1>1, Invariance, PTL
=============================================================================
