------------------------- MODULE FECDecoderDelivery -------------------------
(***************************************************************************)
(* What the FEC receive queue does to the outside, for every queue depth,   *)
(* block layout and sequence of packets: what the data callback gets, what  *)
(* m_block_done_cb is told and what FECRxStats counts.  A packet evicts,    *)
(* creates, forwards and pops blocks; every one of these elementary steps   *)
(* keeps one relation between what came out and what is still queued, and   *)
(* the handlers are sequences of them.                                      *)
(***************************************************************************)
EXTENDS FECDecoderProofs

\* The oldest index that may still be delivered: the front of the queue, or the
\* next block to come.
Frontier(q, last) == last - Len(q) + 1

DoneType == [blockIdx : Nat, total : {Unknown} \cup (Nat \ {0}), forwarded : Nat]

\* The positions of the fragments of block b in what came out.
Of(o, b) == {j \in 1..Len(o) : o[j][1] = b}

\* Queued blocks up to last; only the front may have been forwarded.
Waiting(q, last) ==
  /\ q \in Seq(RxBlockType)
  /\ \A i \in 1..Len(q) : BlockOK(q[i]) /\ KMatches(q[i]) /\ q[i].blockIdx = last - Len(q) + i
  /\ \A i \in 2..Len(q) : q[i].fwd = 0
  /\ last \in Nat \cup {NoBlock}

\* What came out is in order and lies before the fragment to come next.
OutOK(o, q, last) ==
  /\ o \in Seq(Nat \X Nat)
  /\ Promise!InOrder(o)
  /\ \A j \in 1..Len(o) :
       /\ Promise!OfStream(o[j])
       /\ \/ o[j][1] < Frontier(q, last)
          \/ q # <<>> /\ o[j][1] = q[1].blockIdx /\ o[j][2] < q[1].fwd
  /\ q # <<>> => Cardinality(Of(o, q[1].blockIdx)) = q[1].fwd

\* Blocks are done in order, before the front, and reported truthfully.
DoneOK(o, d, q, last) ==
  /\ d \in Seq(DoneType)
  /\ \A i, j \in 1..Len(d) : i < j => d[i].blockIdx < d[j].blockIdx
  /\ \A i \in 1..Len(d) :
       /\ d[i].blockIdx < Frontier(q, last)
       /\ Cardinality(Of(o, d[i].blockIdx)) = d[i].forwarded

\* The relation of what came out, what was reported done and what is queued.
DeliveryOK(o, d, q, last) ==
  /\ Waiting(q, last)
  /\ OutOK(o, q, last)
  /\ DoneOK(o, d, q, last)

DInv == IInv /\ DeliveryOK(out, done, rx_queue, last_known_block)

-----------------------------------------------------------------------------
(* The counters *)

CompleteAmong(d) == {i \in 1..Len(d) : Complete(d[i])}

\* Every block from the first one of the session on is counted exactly once.
CountOK ==
  /\ done \in Seq(DoneType)
  /\ statsAtReset.lost \in Nat
  /\ last_known_block = NoBlock =>
       rx_queue = <<>> /\ done = <<>> /\ stats.lost = statsAtReset.lost
  /\ last_known_block # NoBlock => rx_queue # <<>> \/ done # <<>>
  /\ BlocksAccountedFor

CInv == IInv /\ CountOK

-----------------------------------------------------------------------------
(* Emitting several blocks: what FlattenSeq computes *)

\* f flattens the first m sequences of s.
FlatTo(s, m, f) == f = [i \in 1..m |-> IF i = 1 THEN s[i] ELSE f[i - 1] \o s[i]]

\* Such a function exists, although FlattenSeq only chooses one.
LEMMA FlatExists ==
  ASSUME NEW s, NEW n \in Nat \ {0}
  PROVE  \E f : FlatTo(s, n, f)
<1> DEFINE Bad == {m \in Nat \ {0} : ~\E f : FlatTo(s, m, f)}
<1>1. SUFFICES ASSUME Bad # {} PROVE FALSE
  BY <1>1
<1>2. PICK m \in Bad : \A x \in Bad : m <= x
  <2>1. Bad \subseteq Nat
    OBVIOUS
  <2> HIDE DEF Bad
  <2> QED
    BY <2>1, <1>1, LeastNatural
<1>3. m \in Nat \ {0} /\ ~\E f : FlatTo(s, m, f)
  BY <1>2
<1>4. CASE m = 1
  <2> DEFINE f == [i \in 1..1 |-> s[i]]
  <2>1. f = [i \in 1..1 |-> IF i = 1 THEN s[i] ELSE f[i - 1] \o s[i]]
    OBVIOUS
  <2> QED
    BY <2>1, <1>3, <1>4 DEF FlatTo
<1>5. CASE m # 1
  <2>1. m - 1 \in Nat \ {0} /\ ~(m <= m - 1)
    BY <1>3, <1>5
  <2>2. m - 1 \notin Bad
    BY <1>2, <2>1
  <2>3. PICK f : FlatTo(s, m - 1, f)
    BY <2>1, <2>2
  <2> DEFINE g == [i \in 1..m |-> IF i = m THEN f[m - 1] \o s[m] ELSE f[i]]
  <2>4. ASSUME NEW i \in 1..m
        PROVE  g[i] = IF i = 1 THEN s[i] ELSE g[i - 1] \o s[i]
    <3>1. i - 1 \in 0..(m - 1) /\ m \in 1..m /\ m - 1 \in 1..m /\ m - 1 # m
      BY <1>3, <2>1
    <3>2. CASE i = m
      BY <3>1, <3>2, <1>5
    <3>3. CASE i # m
      <4>1. i \in 1..(m - 1)
        BY <3>3, <1>3
      <4>2. f[i] = IF i = 1 THEN s[i] ELSE f[i - 1] \o s[i]
        BY <4>1, <2>3 DEF FlatTo
      <4>3. i # 1 => i - 1 \in 1..m /\ i - 1 # m
        BY <4>1, <1>3
      <4>4. g[i] = f[i] /\ (i # 1 => g[i - 1] = f[i - 1])
        BY <3>3, <4>3
      <4> QED
        BY <4>2, <4>4
    <3> QED
      BY <3>2, <3>3
  <2>5. g = [i \in 1..m |-> IF i = 1 THEN s[i] ELSE g[i - 1] \o s[i]]
    <3>1. g = [i \in 1..m |-> g[i]]
      OBVIOUS
    <3> HIDE DEF g
    <3> QED
      BY <2>4, <3>1
  <2> HIDE DEF g
  <2> QED
    BY <2>5, <1>3 DEF FlatTo
<1> QED
  BY <1>4, <1>5

\* Two such functions agree as far as both go.
LEMMA FlatUnique ==
  ASSUME NEW s, NEW n \in Nat, NEW m \in Nat, n <= m,
         NEW f, FlatTo(s, n, f), NEW g, FlatTo(s, m, g)
  PROVE  \A i \in 1..n : f[i] = g[i]
<1> DEFINE Bad == {i \in 1..n : f[i] # g[i]}
<1>1. SUFFICES ASSUME Bad # {} PROVE FALSE
  BY <1>1
<1>2. PICK i \in Bad : \A x \in Bad : i <= x
  <2>1. Bad \subseteq Nat
    OBVIOUS
  <2> HIDE DEF Bad
  <2> QED
    BY <2>1, <1>1, LeastNatural
<1>3. i \in 1..n /\ i \in 1..m /\ f[i] # g[i]
  BY <1>2
<1>4. /\ f[i] = IF i = 1 THEN s[i] ELSE f[i - 1] \o s[i]
      /\ g[i] = IF i = 1 THEN s[i] ELSE g[i - 1] \o s[i]
  BY <1>3 DEF FlatTo
<1>5. i # 1
  BY <1>3, <1>4
<1>6. i - 1 \in 1..n /\ ~(i <= i - 1)
  BY <1>3, <1>5
<1>7. i - 1 \notin Bad
  BY <1>2, <1>6
<1>8. f[i - 1] = g[i - 1]
  BY <1>6, <1>7
<1> QED
  BY <1>3, <1>4, <1>5, <1>8

\* FlattenSeq takes the value of such a function.
LEMMA FlattenValue ==
  ASSUME NEW s, Len(s) \in Nat \ {0}
  PROVE  \E f : FlatTo(s, Len(s), f) /\ FlattenSeq(s) = f[Len(s)]
<1>1. FlattenSeq(s) = (CHOOSE f : FlatTo(s, Len(s), f))[Len(s)]
  BY DEF FlattenSeq, FlatTo
<1>2. \E f : FlatTo(s, Len(s), f)
  BY FlatExists
<1> QED
  BY <1>1, <1>2

\* FlattenSeq, one sequence more.
LEMMA FlattenStep ==
  ASSUME NEW s, NEW t, NEW n \in Nat \ {0}, Len(t) = n, Len(s) = n + 1,
         \A i \in 1..n : t[i] = s[i]
  PROVE  FlattenSeq(s) = FlattenSeq(t) \o s[n + 1]
<1>1. PICK f : FlatTo(s, n + 1, f) /\ FlattenSeq(s) = f[n + 1]
  BY FlattenValue
<1>2. PICK g : FlatTo(t, n, g) /\ FlattenSeq(t) = g[n]
  BY FlattenValue
<1>3. FlatTo(s, n, g)
  <2>1. g = [i \in 1..n |-> IF i = 1 THEN t[i] ELSE g[i - 1] \o t[i]]
    BY <1>2 DEF FlatTo
  <2>2. g = [i \in 1..n |-> IF i = 1 THEN s[i] ELSE g[i - 1] \o s[i]]
    BY <2>1
  <2> QED
    BY <2>2 DEF FlatTo
<1>4. n \in 1..n /\ n + 1 \in 1..(n + 1) /\ n + 1 # 1 /\ (n + 1) - 1 = n /\ n <= n + 1
  OBVIOUS
<1>5. g[n] = f[n]
  BY <1>1, <1>3, <1>4, FlatUnique
<1>6. f[n + 1] = f[n] \o s[n + 1]
  BY <1>1, <1>4 DEF FlatTo
<1> QED
  BY <1>1, <1>2, <1>5, <1>6

-----------------------------------------------------------------------------
(* Counting in a sequence that grows *)

Shift(m, B) == {m + j : j \in B}

AddUp(S, A, B) ==
  /\ Cardinality(A) \in Nat /\ Cardinality(B) \in Nat
  /\ Cardinality(S) = Cardinality(A) + Cardinality(B)

\* Positions in a concatenation: those in the first part, and those in the
\* second part behind it.
LEMMA ShiftCount ==
  ASSUME NEW m \in Nat, NEW n \in Nat, NEW A \in SUBSET (1..m), NEW B \in SUBSET (1..n)
  PROVE  AddUp(A \cup Shift(m, B), A, B)
<1> DEFINE T == Shift(m, B)
           f == [j \in B |-> m + j]
<1>1. m \in Int /\ n \in Int /\ 1 \in Int
  OBVIOUS
<1>2. IsFiniteSet(1..m) /\ IsFiniteSet(1..n)
  BY <1>1, FS_Interval
<1>3. IsFiniteSet(A) /\ IsFiniteSet(B)
  BY <1>2, FS_Subset
<1>4. ExistsBijection(B, T)
  <2>1. f \in [B -> T] /\ \A t \in T : \E j \in B : f[j] = t
    BY DEF Shift
  <2>2. \A i, j \in B : f[i] = f[j] => i = j
    OBVIOUS
  <2>3. f \in Bijection(B, T)
    BY <2>1, <2>2 DEF Bijection, Injection, Surjection, IsInjective
  <2> QED
    BY <2>3 DEF ExistsBijection
<1>5. IsFiniteSet(T) /\ Cardinality(T) = Cardinality(B)
  BY <1>3, <1>4, FS_Bijection
<1>6. A \cap T = {}
  BY DEF Shift
<1> HIDE DEF T
<1>7. Cardinality(A \cup T) = Cardinality(A) + Cardinality(B) - Cardinality(A \cap T)
  BY <1>3, <1>5, FS_Union
<1>8. Cardinality(A \cap T) = 0 /\ Cardinality(A) \in Nat /\ Cardinality(B) \in Nat
  BY <1>3, <1>6, FS_EmptySet, FS_CardinalityType
<1>9. Cardinality(A \cup T) = Cardinality(A) + Cardinality(B)
  BY <1>7, <1>8
<1> QED
  BY <1>8, <1>9 DEF T, AddUp

\* Complete blocks among the done ones.
LEMMA CompleteConcat ==
  ASSUME NEW d \in Seq(DoneType), NEW e \in Seq(DoneType)
  PROVE  /\ Cardinality(CompleteAmong(d)) \in Nat /\ Cardinality(CompleteAmong(e)) \in Nat
         /\ Cardinality(CompleteAmong(d \o e)) =
              Cardinality(CompleteAmong(d)) + Cardinality(CompleteAmong(e))
<1> DEFINE m == Len(d)
           n == Len(e)
<1>1. m \in Nat /\ n \in Nat
  BY LenProperties
<1>2. /\ Len(d \o e) = m + n
      /\ \A i \in 1..(m + n) : (d \o e)[i] = IF i <= m THEN d[i] ELSE e[i - m]
  BY ConcatProperties
<1> DEFINE A == CompleteAmong(d)
           B == CompleteAmong(e)
<1>3. A \in SUBSET (1..m) /\ B \in SUBSET (1..n)
  BY DEF CompleteAmong
<1>4. CompleteAmong(d \o e) = A \cup Shift(m, B)
  <2> HIDE DEF m, n
  <2>1. ASSUME NEW i \in CompleteAmong(d \o e)
        PROVE  i \in A \cup Shift(m, B)
    <3>1. i \in 1..(m + n) /\ Complete((d \o e)[i])
      BY <1>2 DEF CompleteAmong
    <3>2. CASE i <= m
      BY <1>1, <1>2, <3>1, <3>2 DEF CompleteAmong, m
    <3>3. CASE ~(i <= m)
      <4>1. i - m \in 1..n /\ i = m + (i - m)
        BY <1>1, <3>1, <3>3
      <4>2. Complete(e[i - m])
        BY <1>2, <3>1, <3>3
      <4>3. i - m \in B
        BY <4>1, <4>2 DEF CompleteAmong, n
      <4> HIDE DEF B
      <4> QED
        BY <4>1, <4>3 DEF Shift
    <3> QED
      BY <3>2, <3>3
  <2>2. ASSUME NEW i \in A PROVE i \in CompleteAmong(d \o e)
    <3>1. i \in 1..m /\ i \in 1..(m + n) /\ i <= m /\ Complete(d[i])
      BY <1>1 DEF CompleteAmong, m
    <3> QED
      BY <1>2, <3>1 DEF CompleteAmong
  <2>3. ASSUME NEW j \in B PROVE m + j \in CompleteAmong(d \o e)
    <3>1. j \in 1..n /\ Complete(e[j])
      BY DEF CompleteAmong, n
    <3>2. m + j \in 1..(m + n) /\ ~(m + j <= m) /\ (m + j) - m = j
      BY <1>1, <3>1
    <3> QED
      BY <1>2, <3>1, <3>2 DEF CompleteAmong
  <2> QED
    BY <2>1, <2>2, <2>3 DEF Shift
<1> DEFINE C == CompleteAmong(d \o e)
<1> HIDE DEF A, B, C, m, n
<1>5. /\ Cardinality(C) = Cardinality(A) + Cardinality(B)
      /\ Cardinality(A) \in Nat /\ Cardinality(B) \in Nat
  <2>1. C = A \cup Shift(m, B)
    BY <1>4 DEF C
  <2>2. AddUp(A \cup Shift(m, B), A, B)
    BY <1>1, <1>3, ShiftCount
  <2> QED
    BY <2>1, <2>2 DEF AddUp
<1> QED
  BY <1>5 DEF A, B, C

\* What the done callback is told of several blocks.
Dones(s) == [i \in 1..Len(s) |-> BlockDone(s[i])]

\* Every popped block is either reported complete or counted as lost.
LEMMA DonesOK ==
  ASSUME NEW s \in Seq(RxBlockType)
  PROVE  /\ Dones(s) \in Seq(DoneType) /\ Len(Dones(s)) = Len(s) /\ Len(s) \in Nat
         /\ \A i \in 1..Len(s) : Dones(s)[i] = BlockDone(s[i])
         /\ LostAmong(s) \in Nat
         /\ Cardinality(CompleteAmong(Dones(s))) + LostAmong(s) = Len(s)
<1> DEFINE n == Len(s)
           L == {i \in 1..n : ~AllForwarded(s[i])}
<1>1. n \in Nat /\ n \in Int /\ 1 \in Int /\ \A i \in 1..n : s[i] \in RxBlockType
  BY LenProperties, ElementOfSeq
<1>2. \A i \in 1..n : BlockDone(s[i]) \in DoneType
  BY <1>1 DEF BlockDone, DoneType, RxBlockType
<1>3. Dones(s) \in Seq(DoneType) /\ Len(Dones(s)) = n /\ \A i \in 1..n : Dones(s)[i] = BlockDone(s[i])
  BY <1>1, <1>2 DEF Dones
<1>4. ASSUME NEW i \in 1..n
      PROVE  Complete(Dones(s)[i]) <=> AllForwarded(s[i])
  <2>1. Dones(s)[i].total = s[i].k /\ Dones(s)[i].forwarded = s[i].fwd
    <3>1. Dones(s)[i] = BlockDone(s[i])
      BY <1>3
    <3> QED
      BY <3>1 DEF BlockDone
  <2> QED
    BY <2>1 DEF Complete, AllForwarded
<1>5. CompleteAmong(Dones(s)) = (1..n) \ L
  BY <1>3, <1>4 DEF CompleteAmong
<1>6. IsFiniteSet(1..n) /\ Cardinality(1..n) = n
  <2> HIDE DEF n
  <2>1. IsFiniteSet(1..n) /\ Cardinality(1..n) = IF 1 > n THEN 0 ELSE n - 1 + 1
    BY <1>1, FS_Interval
  <2> QED
    BY <1>1, <2>1
<1>7. IsFiniteSet(L) /\ (1..n) \cap L = L
  BY <1>6, FS_Subset
<1> HIDE DEF L
<1>8. Cardinality((1..n) \ L) = Cardinality(1..n) - Cardinality((1..n) \cap L)
  BY <1>6, FS_Difference
<1>9. Cardinality(L) \in Nat /\ LostAmong(s) = Cardinality(L)
  BY <1>7, FS_CardinalityType DEF LostAmong, L
<1>10. Cardinality(CompleteAmong(Dones(s))) = n - Cardinality(L)
  BY <1>5, <1>6, <1>7, <1>8
<1>11. Cardinality(CompleteAmong(Dones(s))) + LostAmong(s) = n
  <2> HIDE DEF n
  <2> QED
    BY <1>1, <1>9, <1>10
<1> QED
  BY <1>1, <1>3, <1>9, <1>11

\* The queue a fragment is stored in: what is left of the old blocks, then the
\* new ones, of which nothing was forwarded yet.
LEMMA QueueForElements ==
  ASSUME IInv, NEW b \in Block, ~AlreadyProcessed(b)
  PROVE  /\ Overflow(b) \in 0..Len(rx_queue) /\ Len(rx_queue) \in Nat
         /\ Len(QueueFor(b)) = Len(rx_queue) + NewBlocks(b) - Overflow(b)
         /\ \A i \in 1..Len(QueueFor(b)) :
              /\ i + Overflow(b) <= Len(rx_queue) => QueueFor(b)[i] = rx_queue[i + Overflow(b)]
              /\ ~(i + Overflow(b) <= Len(rx_queue)) => QueueFor(b)[i].fwd = 0
<1> DEFINE n == NewBlocks(b)
           L == Len(rx_queue)
           o == Overflow(b)
           q == Pushed(b)
           s == QueueFor(b)
<1>1. n \in Nat /\ L \in Nat /\ o \in 0..L
  <2>1. n \in 0..RX_QUEUE_MAX_SIZE /\ RX_QUEUE_MAX_SIZE \in Nat
    BY CreationCounts, FECDecoderAssumption
  <2>2. rx_queue \in Seq(RxBlockType)
    BY DEF IInv, QueueOK
  <2>3. o \in 0..L
    BY QueueForOK
  <2> QED
    BY <2>1, <2>2, <2>3, LenProperties
<1>2. /\ q \in Seq(RxBlockType) /\ Len(q) = L + n
      /\ \A i \in 1..L : q[i] = rx_queue[i]
      /\ \A i \in (L + 1)..(L + n) : q[i].fwd = 0
  BY PushedBlocks
<1>3. s = SubSeq(q, o + 1, L + n)
  BY <1>2 DEF QueueFor
<1> HIDE DEF n, L, o, q, s
<1>4. \A i \in (o + 1)..(L + n) : q[i] \in RxBlockType
  <2> SUFFICES ASSUME NEW i \in (o + 1)..(L + n) PROVE q[i] \in RxBlockType
    OBVIOUS
  <2>1. i \in 1..Len(q)
    BY <1>1, <1>2
  <2> QED
    BY <1>2, <2>1, ElementOfSeq
<1>5. /\ Len(s) = IF o + 1 <= L + n THEN (L + n) - (o + 1) + 1 ELSE 0
      /\ \A i \in 1..((L + n) - (o + 1) + 1) : s[i] = q[(o + 1) + i - 1]
  <2>1. o + 1 \in Int /\ L + n \in Int
    BY <1>1
  <2> QED
    BY <1>3, <1>4, <2>1, SubSeqProperties
<1>6. Len(s) = L + n - o
  BY <1>1, <1>5
<1>7. ASSUME NEW i \in 1..Len(s)
      PROVE  /\ i + o <= L => s[i] = rx_queue[i + o]
             /\ ~(i + o <= L) => s[i].fwd = 0
  <2>1. i \in 1..((L + n) - (o + 1) + 1) /\ (o + 1) + i - 1 = i + o /\ i + o \in 1..(L + n)
    BY <1>1, <1>6
  <2>2. s[i] = q[i + o]
    BY <1>5, <2>1
  <2>3. i + o <= L => i + o \in 1..L
    BY <1>1, <2>1
  <2>4. ~(i + o <= L) => i + o \in (L + 1)..(L + n)
    BY <1>1, <2>1
  <2> QED
    BY <1>2, <2>2, <2>3, <2>4
<1> QED
  BY <1>1, <1>6, <1>7 DEF n, L, o, s

\* The oldest blocks of a queue, forwarded.
LEMMA ForwardPrefix ==
  ASSUME NEW q \in Seq(RxBlockType), NEW n \in 0..Len(q), NEW discard
  PROVE  /\ SubSeq(q, 1, n) \in Seq(RxBlockType)
         /\ Len(SubSeq(q, 1, n)) = n
         /\ \A i \in 1..n : SubSeq(q, 1, n)[i] = q[i]
         /\ Len(ForwardEach(SubSeq(q, 1, n), discard)) = n
         /\ \A i \in 1..n : ForwardEach(SubSeq(q, 1, n), discard)[i] = Forwarded(q[i], discard)
<1> DEFINE s == SubSeq(q, 1, n)
<1>1. n \in Nat /\ Len(q) \in Nat /\ n <= Len(q)
  BY LenProperties
<1>2. \A i \in 1..n : q[i] \in RxBlockType
  BY <1>1, ElementOfSeq
<1>3. /\ s \in Seq(RxBlockType)
      /\ Len(s) = IF 1 <= n THEN n - 1 + 1 ELSE 0
      /\ \A i \in 1..(n - 1 + 1) : s[i] = q[1 + i - 1]
  BY <1>1, <1>2, SubSeqProperties
<1> HIDE DEF s
<1>4. Len(s) = n
  BY <1>1, <1>3
<1>5. ASSUME NEW i \in 1..n PROVE s[i] = q[i]
  <2>1. i \in 1..(n - 1 + 1) /\ 1 + i - 1 = i
    BY <1>1
  <2> QED
    BY <1>3, <2>1
<1>6. ForwardEach(s, discard) = [i \in 1..n |-> Forwarded(s[i], discard)]
  BY <1>4 DEF ForwardEach
<1>7. Len(ForwardEach(s, discard)) = n /\ \A i \in 1..n : ForwardEach(s, discard)[i] = Forwarded(s[i], discard)
  BY <1>1, <1>6
<1>8. \A i \in 1..n : ForwardEach(s, discard)[i] = Forwarded(q[i], discard)
  BY <1>5, <1>7
<1> QED
  BY <1>3, <1>4, <1>5, <1>7, <1>8 DEF s

\* The first of the blocks that were popped or are still queued.
StartsAt(popped, queue, x) ==
  IF popped # <<>> THEN popped[1].blockIdx = x ELSE queue # <<>> /\ queue[1].blockIdx = x

\* The blocks a packet pops: evicted by new ones, then removed by the handler.
Gone(b, popped) == ForwardEach(Evicted(b), TRUE) \o popped

\* The blocks a packet pops, those it evicts first.
LEMMA GoneOK ==
  ASSUME IInv, NEW b \in Block, ~AlreadyProcessed(b), NEW popped \in Seq(RxBlockType)
  PROVE  /\ Gone(b, popped) \in Seq(RxBlockType)
         /\ Len(Gone(b, popped)) = Overflow(b) + Len(popped)
         /\ Overflow(b) > 0 => Gone(b, popped)[1].blockIdx = rx_queue[1].blockIdx
         /\ Overflow(b) = 0 => Gone(b, popped) = popped
<1> DEFINE o == Overflow(b)
           g == ForwardEach(Evicted(b), TRUE)
<1>1. o \in 0..Len(rx_queue) /\ Len(rx_queue) \in Nat
  BY QueueForElements
<1>2. rx_queue \in Seq(RxBlockType) /\ g \in Seq(RxBlockType)
  BY <1>1, PrefixOfQueue DEF Evicted, IInv, QueueOK
<1>3. Len(g) = o /\ \A i \in 1..o : g[i] = Forwarded(rx_queue[i], TRUE)
  BY <1>1, <1>2, ForwardPrefix DEF Evicted
<1>4. /\ Gone(b, popped) \in Seq(RxBlockType)
      /\ Len(Gone(b, popped)) = Len(g) + Len(popped)
      /\ \A i \in 1..(Len(g) + Len(popped)) :
           Gone(b, popped)[i] = IF i <= Len(g) THEN g[i] ELSE popped[i - Len(g)]
  BY <1>2, ConcatProperties DEF Gone
<1>5. Len(popped) \in Nat
  BY LenProperties
<1> HIDE DEF o, g
<1>6. ASSUME o > 0 PROVE Gone(b, popped)[1].blockIdx = rx_queue[1].blockIdx
  <2>1. 1 \in 1..o /\ 1 \in 1..Len(rx_queue) /\ 1 \in 1..(Len(g) + Len(popped)) /\ 1 <= Len(g)
    BY <1>1, <1>3, <1>5, <1>6
  <2>2. Gone(b, popped)[1] = Forwarded(rx_queue[1], TRUE)
    BY <1>3, <1>4, <2>1
  <2>3. BlockOK(rx_queue[1])
    BY <2>1 DEF IInv, QueueOK, QueuedOK
  <2>4. \A r : BlockOK(r) => Forwarded(r, TRUE).blockIdx = r.blockIdx
    BY ForwardedType
  <2> QED
    BY <2>2, <2>3, <2>4
<1>7. ASSUME o = 0 PROVE Gone(b, popped) = popped
  <2>1. Len(g) = 0
    BY <1>3, <1>7
  <2>2. g = <<>>
    BY <1>2, <2>1, EmptySeq DEF g
  <2> QED
    BY <2>2, ConcatEmptySeq DEF Gone, g
<1> QED
  BY <1>3, <1>4, <1>6, <1>7 DEF o

\* How the numbers of blocks change when a packet creates blocks.
LEMMA NewestBlock ==
  ASSUME IInv, NEW b \in Block, ~AlreadyProcessed(b)
  PROVE  /\ last_known_block # NoBlock =>
              LastKnown(b) = last_known_block + NewBlocks(b) + Skipped(b)
         /\ last_known_block = NoBlock =>
              NewBlocks(b) = 1 /\ Skipped(b) = 0 /\ LastKnown(b) = b /\ rx_queue = <<>>
<1>1. /\ b \in Nat /\ RX_QUEUE_MAX_SIZE \in Nat \ {0}
      /\ last_known_block \in Nat \cup {-1}
  BY FECDecoderAssumption DEF IInv, NoBlock
<1>2. CASE InQueue(b)
  <2>1. last_known_block # NoBlock
    <3>1. PICK i \in 1..Len(rx_queue) : rx_queue[i].blockIdx = b
      BY <1>2 DEF InQueue
    <3>2. rx_queue[i].blockIdx = last_known_block - Len(rx_queue) + i /\ Len(rx_queue) \in Nat
      BY LenProperties DEF IInv, QueueOK
    <3> QED
      BY <1>1, <3>1, <3>2 DEF NoBlock
  <2> QED
    BY <1>1, <1>2, <2>1 DEF NewBlocks, NeededBlocks, Skipped, LastKnown, NoBlock
<1>3. CASE ~InQueue(b) /\ last_known_block # NoBlock
  <2>1. b > last_known_block /\ last_known_block \in Nat
    BY <1>1, <1>3 DEF AlreadyProcessed, NoBlock
  <2>2. NeededBlocks(b) = b - last_known_block /\ LastKnown(b) = b
    BY <1>3 DEF NeededBlocks, LastKnown
  <2>3. NewBlocks(b) \in 0..RX_QUEUE_MAX_SIZE /\ Skipped(b) = NeededBlocks(b) - NewBlocks(b)
    BY CreationCounts DEF Skipped
  <2> QED
    BY <1>1, <1>3, <2>1, <2>2, <2>3
<1>4. CASE ~InQueue(b) /\ last_known_block = NoBlock
  <2>1. NeededBlocks(b) = 1 /\ LastKnown(b) = b
    BY <1>4 DEF NeededBlocks, LastKnown
  <2>2. NewBlocks(b) = 1 /\ Skipped(b) = 0
    BY <1>1, <2>1 DEF NewBlocks, Skipped
  <2>3. rx_queue = <<>>
    <3> SUFFICES ASSUME rx_queue # <<>> PROVE FALSE
      OBVIOUS
    <3>1. rx_queue \in Seq(RxBlockType)
      BY DEF IInv, QueueOK
    <3>2. Len(rx_queue) \in Nat \ {0}
      BY <3>1, EmptySeq
    <3>3. 1 \in 1..Len(rx_queue) /\ rx_queue[1] \in RxBlockType
      BY <3>1, <3>2, ElementOfSeq
    <3>4. rx_queue[1].blockIdx = last_known_block - Len(rx_queue) + 1 /\ rx_queue[1].blockIdx \in Nat
      BY <3>3 DEF IInv, QueueOK, RxBlockType
    <3> QED
      BY <1>4, <3>2, <3>4 DEF NoBlock
  <2> QED
    BY <1>4, <2>1, <2>2, <2>3
<1> QED
  BY <1>2, <1>3, <1>4

\* What every accepted packet does to the counters: the blocks it creates are
\* queued or popped, those it skips are lost.
LEMMA CountCommit ==
  ASSUME CInv, NEW h, StreamPacket(h), IsNewFragment(h),
         NEW queue \in Seq(RxBlockType), NEW popped \in Seq(RxBlockType),
         NEW emitted, NEW recovered, NEW asserts,
         Commit(h, queue, popped, emitted, recovered, asserts),
         Len(popped) + Len(queue) = Len(QueueFor(h.block_idx)),
         StartsAt(popped, queue, QueueFor(h.block_idx)[1].blockIdx)
  PROVE  CountOK'
<1> DEFINE b == h.block_idx
           gone == Gone(b, popped)
           o == Overflow(b)
           n == NewBlocks(b)
           k == Skipped(b)
           L == Len(rx_queue)
           g == Len(gone)
           a == LostAmong(gone)
           c == Cardinality(CompleteAmong(done))
           e == Cardinality(CompleteAmong(Dones(gone)))
<1>1. b \in Block /\ ~AlreadyProcessed(b) /\ IInv
  BY FilledOK DEF CInv
<1>2. /\ o \in 0..L /\ L \in Nat
      /\ Len(QueueFor(b)) = L + n - o
      /\ \A i \in 1..Len(QueueFor(b)) : i + o <= L => QueueFor(b)[i] = rx_queue[i + o]
  BY <1>1, QueueForElements
<1>3. n \in Nat /\ k \in Nat
  <2>1. n \in 0..RX_QUEUE_MAX_SIZE /\ k \in Nat
    BY <1>1, CreationCounts
  <2> QED
    BY <2>1, FECDecoderAssumption
<1>4. /\ gone \in Seq(RxBlockType) /\ g = o + Len(popped)
      /\ o > 0 => gone[1].blockIdx = rx_queue[1].blockIdx
      /\ o = 0 => gone = popped
  BY <1>1, GoneOK
<1>5. Len(popped) \in Nat /\ Len(queue) \in Nat
  BY LenProperties
<1>6. /\ Dones(gone) \in Seq(DoneType) /\ Len(Dones(gone)) = g /\ a \in Nat /\ e + a = g
      /\ \A i \in 1..g : Dones(gone)[i] = BlockDone(gone[i])
  BY <1>4, DonesOK
<1>7. done \in Seq(DoneType) /\ statsAtReset.lost \in Nat /\ stats.lost \in Nat
  BY DEF CInv, CountOK, IInv, StatsType
<1>8. /\ done' = done \o Dones(gone) /\ rx_queue' = queue
      /\ last_known_block' = LastKnown(b)
      /\ stats'.lost = stats.lost + k + a
      /\ statsAtReset' = statsAtReset
  BY DEF Commit, Gone, Dones
<1>9. done' \in Seq(DoneType) /\ Len(done') = Len(done) + g
      /\ \A i \in 1..(Len(done) + g) :
           done'[i] = IF i <= Len(done) THEN done[i] ELSE Dones(gone)[i - Len(done)]
  <2> DEFINE x == Dones(gone)
  <2>1. x \in Seq(DoneType) /\ Len(x) = g
    BY <1>6
  <2> HIDE DEF x, g, gone
  <2>0. /\ done \o x \in Seq(DoneType) /\ Len(done \o x) = Len(done) + Len(x)
        /\ \A i \in 1..(Len(done) + Len(x)) :
             (done \o x)[i] = IF i <= Len(done) THEN done[i] ELSE x[i - Len(done)]
    BY <2>1, <1>7, ConcatProperties
  <2>2. /\ done \o x \in Seq(DoneType) /\ Len(done \o x) = Len(done) + g
        /\ \A i \in 1..(Len(done) + g) :
             (done \o x)[i] = IF i <= Len(done) THEN done[i] ELSE x[i - Len(done)]
    BY <2>0, <2>1
  <2>3. done' = done \o x
    BY <1>8 DEF x
  <2> QED
    BY <2>2, <2>3 DEF x
<1>10. /\ Cardinality(CompleteAmong(done)') = c + e
       /\ c \in Nat /\ e \in Nat
  BY <1>6, <1>7, <1>8, CompleteConcat DEF CompleteAmong
<1>11. LastKnown(b) \in Nat /\ b \in Nat
  BY <1>1, QueueForOK, FECDecoderAssumption
<1>12. QueueFor(b) # <<>> /\ Len(QueueFor(b)) >= 1
  <2>1. Position(b) \in 1..Len(QueueFor(b)) /\ QueueFor(b) \in Seq(RxBlockType)
    BY <1>1, PositionOK, QueueForOK DEF QueueOK
  <2> QED
    BY <2>1, EmptySeq
<1>13. rx_queue \in Seq(RxBlockType) /\ Len(done) \in Nat /\ g \in Nat
  BY <1>1, <1>4, <1>7, LenProperties DEF IInv, QueueOK
<1>14. done' # <<>> <=> done # <<>> \/ gone # <<>>
  <2>1. done' # <<>> <=> Len(done') # 0
    BY <1>9, EmptySeq
  <2>2. (done # <<>> <=> Len(done) # 0) /\ (gone # <<>> <=> g # 0)
    BY <1>4, <1>7, EmptySeq
  <2> QED
    BY <2>1, <2>2, <1>9, <1>13
<1>15. done # <<>> => done'[1] = done[1]
  <2> SUFFICES ASSUME done # <<>> PROVE done'[1] = done[1]
    OBVIOUS
  <2>1. 1 \in 1..(Len(done) + g) /\ 1 <= Len(done)
    BY <1>7, <1>13, EmptySeq
  <2> QED
    BY <1>9, <2>1
<1>16. done = <<>> /\ gone # <<>> => done'[1].blockIdx = gone[1].blockIdx
  <2> SUFFICES ASSUME done = <<>>, gone # <<>> PROVE done'[1].blockIdx = gone[1].blockIdx
    OBVIOUS
  <2>1. g # 0 /\ Len(done) = 0
    BY <1>4, EmptySeq
  <2>2. 1 \in 1..g /\ 1 \in 1..(Len(done) + g) /\ ~(1 <= Len(done)) /\ 1 - Len(done) = 1
    BY <1>13, <2>1
  <2>3. done'[1] = BlockDone(gone[1])
    BY <1>6, <1>9, <2>2
  <2> QED
    BY <2>3 DEF BlockDone
<1>17. gone = <<>> => o = 0 /\ popped = <<>>
  <2>1. gone = <<>> => g = 0
    OBVIOUS
  <2>2. Len(popped) = 0 => popped = <<>>
    BY EmptySeq
  <2> QED
    BY <2>1, <2>2, <1>2, <1>4, <1>5
<1>18. rx_queue' # <<>> \/ done' # <<>>
  BY <1>8, <1>14, <1>17 DEF StartsAt
<1>19. CASE last_known_block = NoBlock
  <2>1. n = 1 /\ k = 0 /\ LastKnown(b) = b /\ rx_queue = <<>>
    BY <1>1, <1>19, NewestBlock
  <2>2. L = 0 /\ o = 0 /\ Len(QueueFor(b)) = 1 /\ gone = popped
    <3>1. L = 0
      BY <2>1
    <3> QED
      BY <3>1, <2>1, <1>2, <1>4
  <2>3. done = <<>> /\ stats.lost = statsAtReset.lost
    BY <1>19 DEF CInv, CountOK
  <2>4. QueueFor(b)[1].blockIdx = b
    <3>1. QueueOK(QueueFor(b), LastKnown(b))
      BY <1>1, QueueForOK
    <3>2. QueueFor(b)[1].blockIdx = LastKnown(b) - 1 + 1
      BY <3>1, <2>2 DEF QueueOK
    <3> QED
      BY <3>2, <2>1, <1>11
  <2>5. FirstBlock' = b
    <3>1. CASE popped # <<>>
      BY <3>1, <2>2, <2>3, <2>4, <1>14, <1>16 DEF FirstBlock, StartsAt
    <3>2. CASE popped = <<>>
      <4>1. done' = <<>>
        BY <3>2, <2>2, <2>3, <1>14
      <4> QED
        BY <3>2, <4>1, <2>4, <1>8 DEF FirstBlock, StartsAt
    <3> QED
      BY <3>1, <3>2
  <2>6. c = 0
    <3>1. CompleteAmong(done) = {}
      BY <2>3 DEF CompleteAmong
    <3> QED
      BY <3>1, FS_EmptySet
  <2>7. b - b + 1 = (c + e) + ((stats.lost + k + a) - statsAtReset.lost) + Len(queue)
    <3>1. g = Len(popped) /\ Len(popped) + Len(queue) = 1
      BY <2>2
    <3> HIDE DEF b, gone, g, a, c, e, k
    <3> QED
      BY <3>1, <2>1, <2>3, <2>6, <1>5, <1>6, <1>7, <1>10, <1>11
  <2>8. BlocksAccountedFor'
    BY <2>1, <2>5, <2>7, <1>8, <1>10 DEF BlocksAccountedFor, CompleteAmong
  <2>9. LastKnown(b) # NoBlock
    BY <1>11 DEF NoBlock
  <2> QED
    BY <2>8, <2>9, <1>7, <1>8, <1>9, <1>18 DEF CountOK
<1>20. CASE last_known_block # NoBlock
  <2>1. last_known_block \in Nat /\ LastKnown(b) = last_known_block + n + k
    BY <1>1, <1>20, NewestBlock, FECDecoderAssumption DEF IInv
  <2>2. rx_queue # <<>> \/ done # <<>>
    BY <1>20 DEF CInv, CountOK
  <2>3. FirstBlock' = FirstBlock
    <3>1. CASE done # <<>>
      BY <3>1, <1>14, <1>15 DEF FirstBlock
    <3>2. CASE done = <<>>
      <4>1. rx_queue # <<>> /\ L >= 1
        BY <3>2, <2>2, <1>13, EmptySeq
      <4>2. CASE o > 0
        <5>1. gone # <<>>
          BY <4>2, <1>17
        <5> QED
          BY <3>2, <4>2, <5>1, <1>4, <1>14, <1>16 DEF FirstBlock
      <4>3. CASE ~(o > 0)
        <5>1. o = 0 /\ gone = popped
          BY <4>3, <1>2, <1>4
        <5>2. QueueFor(b)[1] = rx_queue[1]
          <6>1. 1 \in 1..Len(QueueFor(b)) /\ 1 + o <= L /\ 1 + o = 1
            BY <4>1, <5>1, <1>2, <1>3
          <6> QED
            BY <6>1, <1>2
        <5>3. CASE popped # <<>>
          BY <3>2, <5>1, <5>2, <5>3, <1>14, <1>16 DEF FirstBlock, StartsAt
        <5>4. CASE popped = <<>>
          <6>1. done' = <<>>
            BY <3>2, <5>1, <5>4, <1>14
          <6> QED
            BY <3>2, <5>2, <5>4, <6>1, <1>8 DEF FirstBlock, StartsAt
        <5> QED
          BY <5>3, <5>4
      <4> QED
        BY <4>2, <4>3
    <3> QED
      BY <3>1, <3>2
  <2> DEFINE f == FirstBlock
  <2>4. f \in Nat
    <3>1. CASE done # <<>>
      <4>1. 1 \in 1..Len(done) /\ done[1] \in DoneType
        BY <3>1, <1>7, EmptySeq, ElementOfSeq
      <4> QED
        BY <3>1, <4>1 DEF FirstBlock, DoneType
    <3>2. CASE done = <<>>
      <4>1. 1 \in 1..Len(rx_queue) /\ rx_queue[1] \in RxBlockType
        BY <3>2, <2>2, <1>13, EmptySeq, ElementOfSeq
      <4> QED
        BY <3>2, <4>1 DEF FirstBlock, RxBlockType
    <3> QED
      BY <3>1, <3>2
  <2>5. last_known_block - f + 1 = c + (stats.lost - statsAtReset.lost) + L
    BY <1>20 DEF CInv, CountOK, BlocksAccountedFor, CompleteAmong
  <2>6. LastKnown(b) - f + 1 = (c + e) + ((stats.lost + k + a) - statsAtReset.lost) + Len(queue)
    <3>1. g = o + Len(popped) /\ Len(popped) + Len(queue) = L + n - o
      BY <1>2, <1>4
    <3>2. o \in Nat /\ e + a = o + Len(popped)
      BY <1>2, <1>4, <1>6
    <3>3. Len(popped) + Len(queue) = L + n - o
      BY <3>1
    <3> DEFINE last == last_known_block
               lost == stats.lost
               base == statsAtReset.lost
               p == Len(popped)
               q == Len(queue)
    <3>4. /\ last \in Nat /\ lost \in Nat /\ base \in Nat /\ p \in Nat /\ q \in Nat
          /\ last - f + 1 = c + (lost - base) + L
          /\ e + a = o + p /\ p + q = L + n - o
      BY <3>2, <3>3, <2>1, <2>5, <1>5, <1>7
    <3>5. /\ f \in Nat /\ c \in Nat /\ e \in Nat /\ a \in Nat /\ n \in Nat
          /\ k \in Nat /\ L \in Nat /\ o \in Nat
      BY <3>2, <2>4, <1>2, <1>3, <1>6, <1>10
    <3> HIDE DEF gone, g, a, c, e, k, n, L, o, f, last, lost, base, p, q
    <3>6. (last + n + k) - f + 1 = (c + e) + ((lost + k + a) - base) + q
      BY <3>4, <3>5
    <3> QED
      BY <3>6, <2>1 DEF last, lost, base, q
  <2>7. BlocksAccountedFor'
    BY <2>3, <2>6, <1>8, <1>10 DEF BlocksAccountedFor, CompleteAmong
  <2>8. LastKnown(b) # NoBlock
    BY <1>11 DEF NoBlock
  <2> QED
    BY <2>7, <2>8, <1>7, <1>8, <1>9, <1>18 DEF CountOK
<1> QED
  BY <1>19, <1>20

\* The front block stays or leaves.
LEMMA CountFront ==
  ASSUME CInv, NEW h, StreamPacket(h), IsNewFragment(h), Position(h.block_idx) = 1
  PROVE  /\ \A x \in RxBlockType : \A emitted, recovered, asserts :
              /\ x.blockIdx = h.block_idx
              /\ Commit(h, [QueueFor(h.block_idx) EXCEPT ![1] = x], <<>>, emitted, recovered, asserts)
              => CountOK'
         /\ \A x \in RxBlockType : \A emitted, recovered, asserts :
              /\ x.blockIdx = h.block_idx
              /\ Commit(h, Tail(QueueFor(h.block_idx)), <<x>>, emitted, recovered, asserts)
              => CountOK'
<1> DEFINE q == QueueFor(h.block_idx)
<1>1. /\ QueueOK(q, LastKnown(h.block_idx)) /\ LastKnown(h.block_idx) \in Int
      /\ 1 \in 1..Len(q) /\ q[1].blockIdx = h.block_idx
  BY FrontOK DEF CInv
<1>2. q \in Seq(RxBlockType) /\ Len(q) \in Nat /\ q # <<>>
  BY <1>1, LenProperties, EmptySeq DEF QueueOK
<1> HIDE DEF q
<1>3. ASSUME NEW x \in RxBlockType, NEW emitted, NEW recovered, NEW asserts,
             x.blockIdx = h.block_idx,
             Commit(h, [q EXCEPT ![1] = x], <<>>, emitted, recovered, asserts)
      PROVE  CountOK'
  <2> DEFINE queue == [q EXCEPT ![1] = x]
  <2>1. queue \in Seq(RxBlockType) /\ Len(queue) = Len(q) /\ queue[1] = x
    BY <1>1, <1>2, ExceptSeq
  <2>2. queue # <<>>
    BY <1>1, <1>2, <2>1
  <2> HIDE DEF queue
  <2>3. <<>> \in Seq(RxBlockType) /\ Len(<<>>) + Len(queue) = Len(q)
    BY <1>2, <2>1
  <2>4. StartsAt(<<>>, queue, q[1].blockIdx)
    BY <1>1, <1>3, <2>1, <2>2 DEF StartsAt
  <2>5. Commit(h, queue, <<>>, emitted, recovered, asserts)
    BY <1>3 DEF queue
  <2> QED
    BY <2>1, <2>3, <2>4, <2>5, CountCommit DEF q
<1>4. ASSUME NEW x \in RxBlockType, NEW emitted, NEW recovered, NEW asserts,
             x.blockIdx = h.block_idx,
             Commit(h, Tail(q), <<x>>, emitted, recovered, asserts)
      PROVE  CountOK'
  <2> DEFINE popped == <<x>>
             queue == Tail(q)
  <2>1. queue \in Seq(RxBlockType) /\ Len(queue) = Len(q) - 1
    BY <1>2, HeadTailProperties
  <2>2. popped \in Seq(RxBlockType) /\ Len(popped) = 1 /\ popped # <<>> /\ popped[1] = x
    OBVIOUS
  <2> HIDE DEF popped, queue
  <2>3. Len(popped) + Len(queue) = Len(q)
    BY <1>2, <2>1, <2>2
  <2>4. StartsAt(popped, queue, q[1].blockIdx)
    BY <1>1, <1>4, <2>2 DEF StartsAt
  <2>5. Commit(h, queue, popped, emitted, recovered, asserts)
    BY <1>4 DEF queue, popped
  <2> QED
    BY <2>1, <2>2, <2>3, <2>4, <2>5, CountCommit DEF q
<1> QED
  BY <1>3, <1>4 DEF q

\* The handlers keep the account: the front block stays,
LEMMA CountFrontPending ==
  ASSUME CInv, NEW h, StreamPacket(h), FrontPending(h)
  PROVE  CountOK'
<1>1. IsNewFragment(h) /\ Position(h.block_idx) = 1
  BY DEF FrontPending
<1>2. FrontForwarded(h) \in RxBlockType /\ FrontForwarded(h).blockIdx = h.block_idx
  BY <1>1, FrontOK DEF CInv, BlockOK
<1> QED
  BY <1>1, <1>2, CountFront DEF FrontPending

\* it leaves complete,
LEMMA CountFrontDone ==
  ASSUME CInv, NEW h, StreamPacket(h), FrontDone(h)
  PROVE  CountOK'
<1>1. IsNewFragment(h) /\ Position(h.block_idx) = 1
  BY DEF FrontDone
<1>2. FrontForwarded(h) \in RxBlockType /\ FrontForwarded(h).blockIdx = h.block_idx
  BY <1>1, FrontOK DEF CInv, BlockOK
<1> QED
  BY <1>1, <1>2, CountFront DEF FrontDone

\* it leaves recovered by FEC,
LEMMA CountFrontRecover ==
  ASSUME CInv, NEW h, StreamPacket(h), FrontRecover(h)
  PROVE  CountOK'
<1> DEFINE fixed == Reconstructed(FrontForwarded(h))
           x == Forwarded(fixed, FALSE)
           emitted == Emitted(Filled(h), FALSE) \o Emitted(fixed, FALSE)
           recovered == Cardinality(MissingPrimary(FrontForwarded(h)))
           asserts == /\ PullAsserts(Filled(h), FALSE)
                      /\ ReconstructAsserts(FrontForwarded(h))
                      /\ PullAsserts(fixed, FALSE)
                      /\ AllForwarded(Forwarded(fixed, FALSE))
<1>1. /\ IsNewFragment(h) /\ Position(h.block_idx) = 1
      /\ ~AllForwarded(FrontForwarded(h)) /\ CanBeRecovered(FrontForwarded(h))
      /\ Commit(h, Tail(QueueFor(h.block_idx)), <<x>>, emitted, recovered, asserts)
  BY DEF FrontRecover
<1>2. /\ BlockOK(FrontForwarded(h)) /\ FrontForwarded(h).k # Unknown
      /\ FrontForwarded(h).nP + FrontForwarded(h).nS <= FrontForwarded(h).k
      /\ FrontForwarded(h).blockIdx = h.block_idx
      /\ ~AllAvailable(FrontForwarded(h))
  BY <1>1, FrontOK DEF CInv
<1>3. BlockOK(fixed) /\ x \in RxBlockType
  BY <1>1, <1>2, RecoverOK
<1>4. x.blockIdx = h.block_idx
  <2>1. fixed.blockIdx = h.block_idx
    BY <1>2 DEF Reconstructed, BlockOK, RxBlockType
  <2> HIDE DEF fixed
  <2>2. \A r : BlockOK(r) => Forwarded(r, FALSE).blockIdx = r.blockIdx
    BY ForwardedType
  <2> QED
    BY <1>3, <2>1, <2>2
<1> HIDE DEF x, emitted, recovered, asserts
<1> QED
  BY <1>1, <1>3, <1>4, CountFront

\* a newer block keeps a fragment,
LEMMA CountStoreFragment ==
  ASSUME CInv, NEW h, StreamPacket(h), StoreFragment(h)
  PROVE  CountOK'
<1> DEFINE b == h.block_idx
           p == Position(b)
           q == QueueFor(b)
           queue == [q EXCEPT ![p] = Filled(h)]
<1>1. IsNewFragment(h) /\ p > 1 /\ Commit(h, queue, <<>>, <<>>, 0, TRUE)
  BY DEF StoreFragment
<1>2. b \in Block /\ ~AlreadyProcessed(b) /\ Filled(h) \in RxBlockType
  BY <1>1, FilledOK DEF CInv, BlockOK
<1>3. q \in Seq(RxBlockType) /\ p \in 1..Len(q) /\ Len(q) \in Nat
  BY <1>2, QueueForOK, PositionOK, LenProperties DEF CInv, QueueOK
<1> HIDE DEF q, p
<1>4. /\ queue \in Seq(RxBlockType) /\ Len(queue) = Len(q)
      /\ \A j \in 1..Len(q) : queue[j] = IF j = p THEN Filled(h) ELSE q[j]
  BY <1>2, <1>3, ExceptSeq
<1> HIDE DEF queue
<1>5. 1 \in 1..Len(q) /\ 1 # p
  BY <1>1, <1>3
<1>6. queue[1] = q[1] /\ queue # <<>>
  BY <1>3, <1>4, <1>5
<1>7. StartsAt(<<>>, queue, q[1].blockIdx)
  BY <1>6 DEF StartsAt
<1>8. <<>> \in Seq(RxBlockType) /\ Len(<<>>) + Len(queue) = Len(q)
  BY <1>3, <1>4
<1> QED
  BY <1>1, <1>4, <1>7, <1>8, CountCommit DEF q

\* or a newer block became complete and leaves with all before it,
LEMMA CountFlushUpTo ==
  ASSUME CInv, NEW h, StreamPacket(h), IsNewFragment(h), Position(h.block_idx) > 1,
         NEW fixed, BlockOK(fixed), NEW recovered, NEW asserts,
         FlushUpTo(h, fixed, recovered, asserts)
  PROVE  CountOK'
<1> DEFINE b == h.block_idx
           p == Position(b)
           q == QueueFor(b)
           n == Len(q)
           queue == SubSeq(q, p + 1, n)
           older == SubSeq(q, 1, p - 1)
           discard == m_forward_gapped_fragments
           each == ForwardEach(older, discard)
           popped == Append(each, Forwarded(fixed, FALSE))
           emitted == EmitEach(older, discard) \o Emitted(fixed, FALSE)
           all == /\ PullEachAsserts(older, discard)
                  /\ asserts
                  /\ PullAsserts(fixed, FALSE)
                  /\ AllForwarded(Forwarded(fixed, FALSE))
<1>1. Commit(h, queue, popped, emitted, recovered, all)
  BY DEF FlushUpTo
<1>2. b \in Block /\ ~AlreadyProcessed(b)
  BY FilledOK DEF CInv
<1>3. QueueOK(q, LastKnown(b)) /\ LastKnown(b) \in Int /\ p \in 1..n /\ n \in Nat
  <2>1. QueueOK(q, LastKnown(b)) /\ LastKnown(b) \in Block /\ p \in 1..n
    BY <1>2, QueueForOK, PositionOK DEF CInv
  <2>2. LastKnown(b) \in Nat
    BY <2>1, FECDecoderAssumption
  <2>3. n \in Nat
    BY <2>1, LenProperties DEF QueueOK
  <2> QED
    BY <2>1, <2>2, <2>3
<1>4. q \in Seq(RxBlockType) /\ p \in 0..n /\ p - 1 \in 0..n /\ p > 1 /\ p \in Nat
  BY <1>3 DEF QueueOK
<1>5. queue \in Seq(RxBlockType) /\ Len(queue) = n - p
  <2> HIDE DEF p
  <2>1. QueueOK(queue, LastKnown(b))
    BY <1>3, <1>4, SuffixOfQueue
  <2>2. \A i \in (p + 1)..n : q[i] \in RxBlockType
    <3> SUFFICES ASSUME NEW i \in (p + 1)..n PROVE q[i] \in RxBlockType
      OBVIOUS
    <3>1. i \in 1..n
      BY <1>3
    <3> QED
      BY <3>1, <1>4, ElementOfSeq
  <2>3. Len(queue) = IF p + 1 <= n THEN n - (p + 1) + 1 ELSE 0
    <3>1. p + 1 \in Int /\ n \in Int
      BY <1>3
    <3> QED
      BY <2>2, <3>1, SubSeqProperties
  <2> HIDE DEF queue, n
  <2> QED
    BY <1>3, <1>4, <2>1, <2>3 DEF QueueOK
<1>6. /\ each \in Seq(RxBlockType) /\ Len(each) = p - 1
      /\ \A i \in 1..(p - 1) : each[i] = Forwarded(q[i], discard)
  BY <1>3, <1>4, PrefixOfQueue, ForwardPrefix
<1>7. Forwarded(fixed, FALSE) \in RxBlockType
  BY ForwardedType
<1>8. /\ popped \in Seq(RxBlockType) /\ popped # <<>> /\ Len(popped) = Len(each) + 1
      /\ \A i \in 1..Len(each) : popped[i] = each[i]
  <2> DEFINE last == Forwarded(fixed, FALSE)
  <2>1. each \in Seq(RxBlockType) /\ last \in RxBlockType
    BY <1>6, <1>7
  <2> HIDE DEF each, last
  <2>2. /\ Append(each, last) \in Seq(RxBlockType) /\ Append(each, last) # <<>>
        /\ Len(Append(each, last)) = Len(each) + 1
        /\ \A i \in 1..Len(each) : Append(each, last)[i] = each[i]
    BY <2>1, AppendProperties
  <2> QED
    BY <2>2 DEF last
<1> HIDE DEF popped, each, p
<1>9. Len(popped) + Len(queue) = n
  <2> HIDE DEF n, queue
  <2> QED
    BY <1>3, <1>4, <1>5, <1>6, <1>8
<1>10. StartsAt(popped, queue, q[1].blockIdx)
  <2>1. 1 \in 1..(p - 1) /\ 1 \in 1..Len(each) /\ 1 \in 1..n
    BY <1>3, <1>4, <1>6
  <2>2. popped[1] = Forwarded(q[1], discard)
    BY <2>1, <1>6, <1>8
  <2>3. BlockOK(q[1])
    BY <2>1, <1>3 DEF QueueOK, QueuedOK
  <2>4. \A r : BlockOK(r) => Forwarded(r, discard).blockIdx = r.blockIdx
    BY ForwardedType
  <2> QED
    BY <2>2, <2>3, <2>4, <1>8 DEF StartsAt
<1> HIDE DEF queue, emitted, all
<1> QED
  BY <1>1, <1>5, <1>8, <1>9, <1>10, CountCommit

\* without FEC or with it.
LEMMA CountFlush ==
  ASSUME CInv, NEW h, StreamPacket(h), FlushComplete(h) \/ FlushRecover(h)
  PROVE  CountOK'
<1>1. CASE FlushComplete(h)
  <2>1. /\ IsNewFragment(h) /\ Position(h.block_idx) > 1
        /\ FlushUpTo(h, Filled(h), 0, TRUE)
    BY <1>1 DEF FlushComplete
  <2>2. BlockOK(Filled(h))
    BY <2>1, FilledOK DEF CInv
  <2> QED
    BY <2>1, <2>2, CountFlushUpTo
<1>2. CASE FlushRecover(h)
  <2>1. /\ IsNewFragment(h) /\ Position(h.block_idx) > 1
        /\ ~AllAvailable(Filled(h)) /\ CanBeRecovered(Filled(h))
        /\ FlushUpTo(h, Reconstructed(Filled(h)), Cardinality(MissingPrimary(Filled(h))),
                     ReconstructAsserts(Filled(h)))
    BY <1>2 DEF FlushRecover
  <2>2. BlockOK(Reconstructed(Filled(h)))
    BY <2>1, FilledOK, RecoverOK DEF CInv
  <2> QED
    BY <2>1, <2>2, CountFlushUpTo
<1> QED
  BY <1>1, <1>2

\* The account is right when a session starts, and every step keeps it.
LEMMA InitCInv == Init => CInv
<1> SUFFICES ASSUME Init PROVE CInv
  OBVIOUS
<1>1. <<>> \in Seq(DoneType)
  OBVIOUS
<1> QED
  BY <1>1, InitIInv DEF Init, CInv, CountOK, ZeroStats, BlocksAccountedFor

\* Every step keeps the account.
LEMMA NextCInv == CInv /\ [Next]_vars => CInv'
<1> SUFFICES ASSUME CInv, [Next]_vars PROVE CInv'
  OBVIOUS
<1>1. IInv'
  BY NextIInv DEF CInv
<1>2. CASE UNCHANGED vars
  BY <1>1, <1>2 DEF CInv, CountOK, BlocksAccountedFor, FirstBlock, vars
<1>3. CASE ResetRxQueue
  <2>1. /\ rx_queue' = <<>> /\ done' = <<>> /\ last_known_block' = NoBlock
        /\ statsAtReset' = stats /\ stats' = stats
    BY <1>3 DEF ResetRxQueue
  <2>2. stats.lost \in Nat /\ <<>> \in Seq(DoneType)
    BY DEF CInv, IInv, StatsType
  <2> QED
    BY <1>1, <2>1, <2>2 DEF CInv, CountOK, BlocksAccountedFor
<1>4. ASSUME NEW b \in Block, NEW f \in 0..(NPrimary[b] + NSecondary[b] - 1),
             ProcessPacket(StreamHeader(b, f))
      PROVE  CInv'
  <2> DEFINE h == StreamHeader(b, f)
  <2>1. StreamPacket(h)
    BY DEF StreamPacket
  <2>2. \/ IgnorePacket(h) \/ FrontPending(h) \/ FrontDone(h) \/ FrontRecover(h)
        \/ StoreFragment(h) \/ FlushComplete(h) \/ FlushRecover(h)
    BY <1>4 DEF ProcessPacket
  <2> HIDE DEF h
  <2>3. CASE IgnorePacket(h)
    BY <1>1, <2>3 DEF IgnorePacket, CInv, CountOK, BlocksAccountedFor, FirstBlock, vars
  <2>4. CountOK' \/ IgnorePacket(h)
    BY <2>1, <2>2, CountFrontPending, CountFrontDone, CountFrontRecover,
       CountStoreFragment, CountFlush
  <2> QED
    BY <1>1, <2>3, <2>4 DEF CInv
<1> QED
  BY <1>2, <1>3, <1>4 DEF Next

\* FECRxStats accounts for every block from the first to the newest one of a
\* session exactly once: removed complete, counted as lost, or still queued.
THEOREM BlocksAccountedForAlways == Spec => []BlocksAccountedFor
<1>1. CInv => BlocksAccountedFor
  BY DEF CInv, CountOK
<1> QED
  BY <1>1, InitCInv, NextCInv, PTL DEF Spec

-----------------------------------------------------------------------------
(* The elementary steps: what came out and what is still queued *)

\* What came out since position m belongs to blocks from f on.
Since(o, m, f) == m \in 0..Len(o) /\ \A j \in (m + 1)..Len(o) : o[j][1] >= f

\* A state on the way from one packet to the next.
Reached(o, d, q, last, m, f) ==
  /\ DeliveryOK(o, d, q, last)
  /\ Since(o, m, f)
  /\ f \in Int /\ f <= Frontier(q, last)

\* The shape of a waiting queue, as the steps use it.
LEMMA WaitingFacts ==
  ASSUME NEW q, NEW last, Waiting(q, last)
  PROVE  /\ q \in Seq(RxBlockType) /\ Len(q) \in Nat /\ last \in Int
         /\ Frontier(q, last) \in Int
         /\ \A i \in 1..Len(q) : q[i].blockIdx = Frontier(q, last) + i - 1 /\ q[i].blockIdx \in Nat
         /\ q # <<>> => 1 \in 1..Len(q)
<1>1. q \in Seq(RxBlockType) /\ last \in Int
  BY DEF Waiting, NoBlock
<1>2. Len(q) \in Nat
  BY <1>1, LenProperties
<1>3. ASSUME NEW i \in 1..Len(q)
      PROVE  q[i].blockIdx = Frontier(q, last) + i - 1 /\ q[i].blockIdx \in Nat
  <2>1. q[i].blockIdx = last - Len(q) + i
    BY DEF Waiting
  <2>2. q[i] \in RxBlockType
    BY <1>1, ElementOfSeq
  <2>3. q[i].blockIdx \in Nat
    BY <2>2 DEF RxBlockType
  <2>4. Frontier(q, last) = last - Len(q) + 1
    BY DEF Frontier
  <2> DEFINE x == q[i].blockIdx
             y == Frontier(q, last)
             n == Len(q)
  <2>5. x \in Nat /\ n \in Nat /\ last \in Int /\ i \in Int /\ x = last - n + i /\ y = last - n + 1
    BY <1>1, <1>2, <2>1, <2>3, <2>4
  <2> HIDE DEF x, y, n
  <2>6. x = y + i - 1
    BY <2>5
  <2> QED
    BY <2>3, <2>6 DEF x, y
<1>4. q # <<>> => 1 \in 1..Len(q)
  BY <1>1, <1>2, EmptySeq
<1> QED
  BY <1>1, <1>2, <1>3, <1>4 DEF Frontier

\* Positions of a block's fragments when more fragments come out.
LEMMA OfConcat ==
  ASSUME NEW o \in Seq(Nat \X Nat), NEW e \in Seq(Nat \X Nat), NEW b
  PROVE  AddUp(Of(o \o e, b), Of(o, b), Of(e, b))
<1> DEFINE m == Len(o)
           n == Len(e)
           A == Of(o, b)
           B == Of(e, b)
<1>1. m \in Nat /\ n \in Nat
  BY LenProperties
<1>2. /\ Len(o \o e) = m + n
      /\ \A i \in 1..(m + n) : (o \o e)[i] = IF i <= m THEN o[i] ELSE e[i - m]
  BY ConcatProperties
<1>3. A \in SUBSET (1..m) /\ B \in SUBSET (1..n)
  BY DEF Of
<1>4. Of(o \o e, b) = A \cup Shift(m, B)
  <2> HIDE DEF m, n
  <2>1. ASSUME NEW i \in Of(o \o e, b)
        PROVE  i \in A \cup Shift(m, B)
    <3>1. i \in 1..(m + n) /\ (o \o e)[i][1] = b
      BY <1>2 DEF Of
    <3>2. CASE i <= m
      BY <1>1, <1>2, <3>1, <3>2 DEF Of, m
    <3>3. CASE ~(i <= m)
      <4>1. i - m \in 1..n /\ i = m + (i - m)
        BY <1>1, <3>1, <3>3
      <4>2. e[i - m][1] = b
        BY <1>2, <3>1, <3>3
      <4>3. i - m \in B
        BY <4>1, <4>2 DEF Of, n
      <4> HIDE DEF B
      <4> QED
        BY <4>1, <4>3 DEF Shift
    <3> QED
      BY <3>2, <3>3
  <2>2. ASSUME NEW i \in A PROVE i \in Of(o \o e, b)
    <3>1. i \in 1..m /\ i \in 1..(m + n) /\ i <= m /\ o[i][1] = b
      BY <1>1 DEF Of, m
    <3> QED
      BY <1>2, <3>1 DEF Of
  <2>3. ASSUME NEW j \in B PROVE m + j \in Of(o \o e, b)
    <3>1. j \in 1..n /\ e[j][1] = b
      BY DEF Of, n
    <3>2. m + j \in 1..(m + n) /\ ~(m + j <= m) /\ (m + j) - m = j
      BY <1>1, <3>1
    <3> QED
      BY <1>2, <3>1, <3>2 DEF Of
  <2> QED
    BY <2>1, <2>2, <2>3 DEF Shift
<1> HIDE DEF A, B, m, n
<1>5. AddUp(A \cup Shift(m, B), A, B)
  BY <1>1, <1>3, ShiftCount
<1> QED
  BY <1>4, <1>5 DEF A, B

\* Without gaps, what is pulled lies below the new forward position.
LEMMA PulledBelow ==
  ASSUME NEW r, BlockOK(r), NEW f \in Pulled(r, FALSE)
  PROVE  f < Forwarded(r, FALSE).fwd
<1>1. r.fwd \in Nat /\ r.nP \in Nat
  BY DEF BlockOK, RxBlockType
<1>2. f \in r.fwd..(r.nP - 1) /\ r.fwd..f \subseteq r.map
  BY DEF Pulled
<1>3. r.fwd..((f + 1) - 1) \subseteq Pulled(r, FALSE)
  <2> SUFFICES ASSUME NEW i \in r.fwd..((f + 1) - 1) PROVE i \in Pulled(r, FALSE)
    OBVIOUS
  <2>1. i \in r.fwd..(r.nP - 1) /\ r.fwd..i \subseteq r.fwd..f
    BY <1>1, <1>2
  <2> QED
    BY <1>2, <2>1 DEF Pulled
<1>4. /\ IsFiniteSet(Pulled(r, FALSE)) /\ Cardinality(Pulled(r, FALSE)) \in Nat
      /\ Forwarded(r, FALSE).fwd = r.fwd + Cardinality(Pulled(r, FALSE))
  BY ForwardedType
<1>5. Cardinality(r.fwd..((f + 1) - 1)) = (f + 1) - r.fwd
  <2>1. f + 1 \in Nat /\ r.fwd <= f + 1
    BY <1>1, <1>2
  <2> QED
    BY <1>1, <2>1, IndexRange
<1>6. Cardinality(r.fwd..((f + 1) - 1)) <= Cardinality(Pulled(r, FALSE))
  BY <1>3, <1>4, FS_Subset
<1> DEFINE c == Cardinality(Pulled(r, FALSE))
           a == r.fwd
<1>7. /\ f \in Nat /\ a \in Nat /\ c \in Nat /\ (f + 1) - a <= c
      /\ Forwarded(r, FALSE).fwd = a + c
  <2>1. f \in Nat
    BY <1>1, <1>2
  <2> QED
    BY <2>1, <1>1, <1>4, <1>5, <1>6
<1> HIDE DEF a, c
<1>8. f < a + c
  BY <1>7
<1> QED
  BY <1>7, <1>8

\* o2 is o and what the front block r emits.
EmitFacts(o, o2, r, discard) ==
  /\ o2 \in Seq(Nat \X Nat) /\ Len(o2) >= Len(o) /\ Len(o) \in Nat /\ Len(o2) \in Nat
  /\ Promise!InOrder(o2)
  /\ \A j \in 1..Len(o2) : Promise!OfStream(o2[j]) /\ o2[j][1] <= r.blockIdx
  /\ \A j \in 1..Len(o) : o2[j] = o[j]
  /\ \A j \in (Len(o) + 1)..Len(o2) :
       o2[j][1] = r.blockIdx /\ o2[j][2] \in Pulled(r, discard)
  /\ Cardinality(Of(o2, r.blockIdx)) = Forwarded(r, discard).fwd
  /\ \A b \in Nat : b # r.blockIdx => Cardinality(Of(o2, b)) = Cardinality(Of(o, b))

\* The fragments the front block emits continue what came out: in order, of the
\* stream, and as many as its forward position advances.
LEMMA OutEmit ==
  ASSUME NEW o, NEW q, NEW last, Waiting(q, last), OutOK(o, q, last), q # <<>>,
         NEW discard
  PROVE  EmitFacts(o, o \o Emitted(q[1], discard), q[1], discard)
<1> DEFINE r == q[1]
           e == Emitted(r, discard)
           o2 == o \o e
           m == Len(o)
           n == Len(e)
           F == Frontier(q, last)
<1>1. /\ 1 \in 1..Len(q) /\ F \in Int /\ r.blockIdx \in Nat
      /\ r.blockIdx = F
  <2>1. 1 \in 1..Len(q) /\ F \in Int
    BY WaitingFacts
  <2>2. r.blockIdx = F + 1 - 1 /\ r.blockIdx \in Nat
    BY <2>1, WaitingFacts
  <2> QED
    BY <2>1, <2>2
<1>2. BlockOK(r) /\ KMatches(r) /\ r \in RxBlockType
  BY <1>1 DEF Waiting, BlockOK
<1>3. /\ e \in Seq(Nat \X Nat) /\ n = Cardinality(Pulled(r, discard))
      /\ \A j \in 1..n : e[j][1] = r.blockIdx /\ e[j][2] \in Pulled(r, discard)
      /\ \A i, j \in 1..n : i < j => e[i][2] < e[j][2]
  BY <1>2, EmittedOK
<1>4. /\ o \in Seq(Nat \X Nat)
      /\ \A i, j \in 1..m : i < j => Promise!Before(o[i], o[j])
      /\ \A j \in 1..m : /\ Promise!OfStream(o[j])
                         /\ o[j][1] < F \/ (o[j][1] = r.blockIdx /\ o[j][2] < r.fwd)
  <2>1. o \in Seq(Nat \X Nat) /\ Promise!InOrder(o)
    BY DEF OutOK
  <2>2. DOMAIN o = 1..m
    BY <2>1, LenProperties
  <2> QED
    BY <2>1, <2>2 DEF OutOK, Promise!InOrder
<1>5. m \in Nat /\ n \in Nat
  BY <1>3, <1>4, LenProperties
<1>6. /\ o2 \in Seq(Nat \X Nat) /\ Len(o2) = m + n
      /\ \A i \in 1..(m + n) : o2[i] = IF i <= m THEN o[i] ELSE e[i - m]
  BY <1>3, <1>4, ConcatProperties
<1>7. ASSUME NEW f \in Pulled(r, discard)
      PROVE  f \in Nat /\ f >= r.fwd /\ Promise!OfStream(<<r.blockIdx, f>>)
  <2>1. r.fwd \in Nat /\ r.nP \in Nat /\ f \in r.fwd..(r.nP - 1)
    BY <1>2 DEF BlockOK, RxBlockType, Pulled
  <2>2. r.k # Unknown /\ f < r.k
    BY <1>2, PullAssertsHold DEF PullAsserts
  <2>3. r.blockIdx \in Block /\ r.k = NPrimary[r.blockIdx] /\ r.k \in Nat
    BY <1>2, <2>2 DEF KMatches, RxBlockType
  <2>4. f \in 0..(NPrimary[r.blockIdx] - 1)
    BY <2>1, <2>2, <2>3
  <2> QED
    BY <2>1, <2>3, <2>4 DEF Promise!OfStream
<1> HIDE DEF r, e, o2, m, n, F
<1>8. ASSUME NEW j \in (m + 1)..(m + n)
      PROVE  /\ o2[j] = e[j - m] /\ j - m \in 1..n
             /\ o2[j][1] = r.blockIdx /\ o2[j][2] \in Pulled(r, discard)
  <2>1. j \in 1..(m + n) /\ ~(j <= m) /\ j - m \in 1..n
    BY <1>5
  <2> QED
    BY <2>1, <1>3, <1>6
<1>9. ASSUME NEW j \in 1..m PROVE o2[j] = o[j]
  <2>1. j \in 1..(m + n) /\ j <= m
    BY <1>5
  <2> QED
    BY <2>1, <1>6
<1>10. ASSUME NEW j \in 1..(m + n)
       PROVE  /\ o2[j] \in Nat \X Nat /\ Promise!OfStream(o2[j])
              /\ o2[j][1] <= r.blockIdx
  <2>1. o2[j] \in Nat \X Nat
    BY <1>6, ElementOfSeq
  <2>2. CASE j <= m
    <3>1. j \in 1..m /\ o2[j] = o[j]
      BY <2>2, <1>5, <1>9
    <3>2. o[j][1] \in Nat /\ o[j][1] <= r.blockIdx
      <4>1. o[j][1] \in Nat
        BY <2>1, <3>1
      <4>2. o[j][1] < F \/ o[j][1] = r.blockIdx
        BY <3>1, <1>4
      <4> QED
        BY <4>1, <4>2, <1>1
    <3>3. Promise!OfStream(o[j])
      BY <3>1, <1>4
    <3> QED
      BY <2>1, <3>1, <3>2, <3>3
  <2>3. CASE ~(j <= m)
    <3>1. j \in (m + 1)..(m + n)
      BY <2>3, <1>5
    <3>2. o2[j][1] = r.blockIdx /\ o2[j][2] \in Pulled(r, discard)
      BY <3>1, <1>8
    <3>3. Promise!OfStream(<<r.blockIdx, o2[j][2]>>)
      BY <3>2, <1>7
    <3>4. o2[j] = <<o2[j][1], o2[j][2]>>
      BY <2>1
    <3> QED
      BY <2>1, <3>2, <3>3, <3>4, <1>1
  <2> QED
    BY <2>2, <2>3
<1>11. ASSUME NEW i \in 1..(m + n), NEW j \in 1..(m + n), i < j
       PROVE  Promise!Before(o2[i], o2[j])
  <2>1. CASE j <= m
    <3>1. i \in 1..m /\ j \in 1..m
      BY <2>1, <1>5, <1>11
    <3> QED
      BY <3>1, <1>4, <1>9, <1>11
  <2>2. CASE i <= m /\ ~(j <= m)
    <3>1. i \in 1..m /\ j \in (m + 1)..(m + n)
      BY <2>2, <1>5
    <3>2. o2[j][1] = r.blockIdx /\ o2[j][2] \in Pulled(r, discard)
      BY <3>1, <1>8
    <3>3. o2[j][2] >= r.fwd /\ o2[j][2] \in Nat /\ r.fwd \in Nat
      BY <3>2, <1>2, <1>7 DEF RxBlockType
    <3>4. o2[i] = o[i] /\ o2[i] \in Nat \X Nat
      BY <3>1, <1>9, <1>10
    <3>5. o[i][1] < F \/ (o[i][1] = r.blockIdx /\ o[i][2] < r.fwd)
      BY <3>1, <1>4
    <3>6. o2[i][1] \in Nat /\ o2[i][2] \in Nat
      BY <3>4
    <3> QED
      BY <3>2, <3>3, <3>4, <3>5, <3>6, <1>1 DEF Promise!Before
  <2>3. CASE ~(i <= m) /\ ~(j <= m)
    <3>1. i \in (m + 1)..(m + n) /\ j \in (m + 1)..(m + n) /\ i - m < j - m
      BY <2>3, <1>5, <1>11
    <3>2. /\ o2[i] = e[i - m] /\ o2[j] = e[j - m] /\ i - m \in 1..n /\ j - m \in 1..n
          /\ o2[i][1] = r.blockIdx /\ o2[j][1] = r.blockIdx
      BY <3>1, <1>8
    <3>3. e[i - m][2] < e[j - m][2]
      BY <3>1, <3>2, <1>3
    <3> QED
      BY <3>2, <3>3 DEF Promise!Before
  <2> QED
    BY <2>1, <2>2, <2>3, <1>5, <1>11
<1>12. Promise!InOrder(o2)
  <2>1. DOMAIN o2 = 1..(m + n)
    BY <1>6, LenProperties
  <2> QED
    BY <2>1, <1>11 DEF Promise!InOrder
<1>13. Cardinality(Of(o2, r.blockIdx)) = Forwarded(r, discard).fwd
  <2>1. AddUp(Of(o2, r.blockIdx), Of(o, r.blockIdx), Of(e, r.blockIdx))
    BY <1>3, <1>4, OfConcat DEF o2
  <2>2. Of(e, r.blockIdx) = 1..n
    BY <1>3 DEF Of, n
  <2>3. Cardinality(1..n) = n
    <3>1. Cardinality(1..n) = IF 1 > n THEN 0 ELSE n - 1 + 1
      BY <1>5, FS_Interval
    <3> QED
      BY <3>1, <1>5
  <2>4. Cardinality(Of(o, r.blockIdx)) = r.fwd
    BY DEF OutOK, r
  <2>5. Forwarded(r, discard).fwd = r.fwd + n
    BY <1>2, <1>3, ForwardedType
  <2> QED
    BY <2>1, <2>2, <2>3, <2>4, <2>5 DEF AddUp
<1>14. ASSUME NEW b \in Nat, b # r.blockIdx
       PROVE  Cardinality(Of(o2, b)) = Cardinality(Of(o, b))
  <2>1. AddUp(Of(o2, b), Of(o, b), Of(e, b))
    BY <1>3, <1>4, OfConcat DEF o2
  <2>2. Of(e, b) = {}
    BY <1>3, <1>14 DEF Of, n
  <2>3. Cardinality(Of(e, b)) = 0
    BY <2>2, FS_EmptySet
  <2> QED
    BY <2>1, <2>3 DEF AddUp
<1> QED
  <2>1. EmitFacts(o, o2, r, discard)
    <3>1. Len(o2) >= Len(o) /\ Len(o) \in Nat /\ Len(o2) \in Nat
      BY <1>5, <1>6 DEF m
    <3>2. \A j \in 1..Len(o2) : Promise!OfStream(o2[j]) /\ o2[j][1] <= r.blockIdx
      BY <1>6, <1>10
    <3>3. \A j \in 1..Len(o) : o2[j] = o[j]
      BY <1>9 DEF m
    <3>4. \A j \in (Len(o) + 1)..Len(o2) :
            o2[j][1] = r.blockIdx /\ o2[j][2] \in Pulled(r, discard)
      BY <1>6, <1>8 DEF m
    <3> QED
      BY <1>6, <1>12, <1>13, <1>14, <3>1, <3>2, <3>3, <3>4 DEF EmitFacts
  <2> QED
    BY <2>1 DEF r, e, o2

\* A fragment is added to a block of the queue, or the missing ones are
\* reconstructed: nothing comes out.
LEMMA ReplaceStep ==
  ASSUME NEW o, NEW d, NEW q, NEW last, NEW m, NEW f, Reached(o, d, q, last, m, f),
         NEW p \in 1..Len(q), NEW x, BlockOK(x), KMatches(x),
         x.blockIdx = q[p].blockIdx, x.fwd = q[p].fwd
  PROVE  Reached(o, d, [q EXCEPT ![p] = x], last, m, f)
<1> DEFINE s == [q EXCEPT ![p] = x]
<1>1. Waiting(q, last) /\ OutOK(o, q, last) /\ DoneOK(o, d, q, last)
  BY DEF Reached, DeliveryOK
<1>2. q \in Seq(RxBlockType) /\ Len(q) \in Nat /\ x \in RxBlockType
  BY <1>1, WaitingFacts DEF BlockOK
<1>3. /\ s \in Seq(RxBlockType) /\ Len(s) = Len(q)
      /\ \A j \in 1..Len(q) : s[j] = IF j = p THEN x ELSE q[j]
  BY <1>2, ExceptSeq
<1> HIDE DEF s
<1>4. \A j \in 1..Len(q) : s[j].blockIdx = q[j].blockIdx /\ s[j].fwd = q[j].fwd
  BY <1>3
<1>5. Waiting(s, last)
  <2>1. \A j \in 2..Len(q) : j \in 1..Len(q)
    BY <1>2
  <2>2. \A j \in 2..Len(s) : s[j].fwd = 0
    BY <2>1, <1>1, <1>3, <1>4 DEF Waiting
  <2>3. \A j \in 1..Len(s) : BlockOK(s[j]) /\ KMatches(s[j]) /\ s[j].blockIdx = last - Len(s) + j
    BY <1>1, <1>3, <1>4 DEF Waiting
  <2> QED
    BY <2>2, <2>3, <1>1, <1>3 DEF Waiting
<1>6. Frontier(s, last) = Frontier(q, last)
  BY <1>3 DEF Frontier
<1>7. 1 \in 1..Len(q)
  BY <1>2
<1>8. s # <<>> /\ q # <<>> /\ s[1].blockIdx = q[1].blockIdx /\ s[1].fwd = q[1].fwd
  BY <1>2, <1>3, <1>4, <1>7, EmptySeq
<1>9. OutOK(o, s, last)
  BY <1>1, <1>6, <1>8 DEF OutOK
<1>10. DoneOK(o, d, s, last)
  BY <1>1, <1>6 DEF DoneOK
<1>11. Reached(o, d, s, last, m, f)
  BY <1>5, <1>6, <1>9, <1>10 DEF Reached, DeliveryOK
<1> QED
  BY <1>11 DEF s

\* What comes out of the front block belongs to it.
LEMMA SinceEmit ==
  ASSUME NEW o, NEW d, NEW q, NEW last, NEW m, NEW f, Reached(o, d, q, last, m, f),
         q # <<>>, NEW discard
  PROVE  Since(o \o Emitted(q[1], discard), m, f)
<1> DEFINE o2 == o \o Emitted(q[1], discard)
<1>1. Waiting(q, last) /\ OutOK(o, q, last)
  BY DEF Reached, DeliveryOK
<1>2. /\ Len(o2) >= Len(o) /\ Len(o) \in Nat /\ Len(o2) \in Nat
      /\ \A j \in 1..Len(o) : o2[j] = o[j]
      /\ \A j \in (Len(o) + 1)..Len(o2) : o2[j][1] = q[1].blockIdx
  <2>1. EmitFacts(o, o2, q[1], discard)
    BY <1>1, OutEmit
  <2> HIDE DEF o2
  <2> QED
    BY <2>1 DEF EmitFacts
<1>3. Frontier(q, last) \in Int /\ q[1].blockIdx = Frontier(q, last)
  <2>1. Frontier(q, last) \in Int /\ q[1].blockIdx = Frontier(q, last) + 1 - 1
    BY <1>1, WaitingFacts
  <2> QED
    BY <2>1
<1>4. m \in 0..Len(o) /\ f \in Int /\ f <= Frontier(q, last)
      /\ \A j \in (m + 1)..Len(o) : o[j][1] >= f
  BY DEF Reached, Since
<1> HIDE DEF o2
<1>5. ASSUME NEW j \in (m + 1)..Len(o2) PROVE o2[j][1] >= f
  <2>1. CASE j <= Len(o)
    <3>1. j \in 1..Len(o) /\ j \in (m + 1)..Len(o)
      BY <2>1, <1>2, <1>4
    <3> QED
      BY <3>1, <1>2, <1>4
  <2>2. CASE ~(j <= Len(o))
    <3>1. j \in (Len(o) + 1)..Len(o2)
      BY <2>2, <1>2, <1>4
    <3> QED
      BY <3>1, <1>2, <1>3, <1>4
  <2> QED
    BY <2>1, <2>2
<1>6. m \in 0..Len(o2)
  BY <1>2, <1>4
<1>7. Since(o2, m, f)
  BY <1>5, <1>6 DEF Since
<1> QED
  BY <1>7 DEF o2

\* The front block is forwarded up to its first gap and stays.
LEMMA ForwardStep ==
  ASSUME NEW o, NEW d, NEW q, NEW last, NEW m, NEW f, Reached(o, d, q, last, m, f), q # <<>>
  PROVE  Reached(o \o Emitted(q[1], FALSE), d, [q EXCEPT ![1] = Forwarded(q[1], FALSE)], last, m, f)
<1> DEFINE r == q[1]
           x == Forwarded(r, FALSE)
           o2 == o \o Emitted(r, FALSE)
           s == [q EXCEPT ![1] = x]
<1>1. Waiting(q, last) /\ OutOK(o, q, last) /\ DoneOK(o, d, q, last)
  BY DEF Reached, DeliveryOK
<1>2. /\ q \in Seq(RxBlockType) /\ Len(q) \in Nat /\ 1 \in 1..Len(q)
      /\ Frontier(q, last) \in Int /\ r.blockIdx = Frontier(q, last) /\ r.blockIdx \in Nat
  <2>1. /\ q \in Seq(RxBlockType) /\ Len(q) \in Nat /\ 1 \in 1..Len(q)
        /\ Frontier(q, last) \in Int /\ r.blockIdx \in Nat
        /\ r.blockIdx = Frontier(q, last) + 1 - 1
    BY <1>1, WaitingFacts
  <2> QED
    BY <2>1
<1>3. BlockOK(r) /\ KMatches(r)
  BY <1>1, <1>2 DEF Waiting
<1>4. /\ BlockOK(x) /\ KMatches(x) /\ x.blockIdx = r.blockIdx /\ x \in RxBlockType
  <2>1. BlockOK(x) /\ KMatches(x) /\ x.blockIdx = r.blockIdx
    BY <1>3, ForwardedInPlace
  <2> QED
    BY <2>1 DEF BlockOK
<1>5. /\ s \in Seq(RxBlockType) /\ Len(s) = Len(q)
      /\ \A j \in 1..Len(q) : s[j] = IF j = 1 THEN x ELSE q[j]
  <2> HIDE DEF x
  <2> QED
    BY <1>2, <1>4, ExceptSeq
<1>6. /\ o2 \in Seq(Nat \X Nat) /\ Len(o2) >= Len(o) /\ Len(o) \in Nat /\ Len(o2) \in Nat
      /\ Promise!InOrder(o2)
      /\ \A j \in 1..Len(o2) : Promise!OfStream(o2[j])
      /\ \A j \in 1..Len(o) : o2[j] = o[j]
      /\ \A j \in (Len(o) + 1)..Len(o2) : o2[j][1] = r.blockIdx /\ o2[j][2] \in Pulled(r, FALSE)
      /\ Cardinality(Of(o2, r.blockIdx)) = x.fwd
      /\ \A b \in Nat : b # r.blockIdx => Cardinality(Of(o2, b)) = Cardinality(Of(o, b))
  <2>1. EmitFacts(o, o2, r, FALSE)
    BY <1>1, OutEmit
  <2> HIDE DEF o2, r
  <2> QED
    BY <2>1 DEF EmitFacts, x
<1>7. Since(o2, m, f)
  BY SinceEmit
<1>8. r.fwd \in Nat /\ x.fwd \in Nat /\ r.fwd <= x.fwd
  <2>1. x.fwd = r.fwd + Cardinality(Pulled(r, FALSE)) /\ Cardinality(Pulled(r, FALSE)) \in Nat
    BY <1>3, ForwardedType
  <2>2. r.fwd \in Nat
    BY <1>3 DEF BlockOK, RxBlockType
  <2> DEFINE a == r.fwd
             c == Cardinality(Pulled(r, FALSE))
             z == x.fwd
  <2>3. z = a + c /\ c \in Nat /\ a \in Nat
    BY <2>1, <2>2
  <2> HIDE DEF a, c, z
  <2>4. a \in Nat /\ z \in Nat /\ a <= z
    BY <2>3
  <2> QED
    BY <2>4 DEF a, z
<1>9. \A g \in Pulled(r, FALSE) : g < x.fwd
  BY <1>3, PulledBelow
<1> HIDE DEF r, x, o2, s
<1>10. Waiting(s, last)
  <2>1. \A j \in 2..Len(q) : j \in 1..Len(q) /\ j # 1
    BY <1>2
  <2>2. \A j \in 2..Len(s) : s[j].fwd = 0
    BY <2>1, <1>1, <1>5 DEF Waiting
  <2>3. \A j \in 1..Len(s) : BlockOK(s[j]) /\ KMatches(s[j]) /\ s[j].blockIdx = last - Len(s) + j
    BY <1>1, <1>4, <1>5 DEF Waiting, r
  <2> QED
    BY <2>2, <2>3, <1>1, <1>5 DEF Waiting
<1>11. Frontier(s, last) = Frontier(q, last) /\ s # <<>> /\ s[1] = x
  BY <1>2, <1>5 DEF Frontier
<1>12. ASSUME NEW j \in 1..Len(o2)
       PROVE  o2[j][1] < Frontier(q, last) \/ (o2[j][1] = x.blockIdx /\ o2[j][2] < x.fwd)
  <2>0. o2[j] \in Nat \X Nat
    BY <1>6, ElementOfSeq
  <2>1. CASE j <= Len(o)
    <3>1. j \in 1..Len(o) /\ o2[j] = o[j]
      BY <2>1, <1>6
    <3>2. o[j][1] < Frontier(q, last) \/ (o[j][1] = r.blockIdx /\ o[j][2] < r.fwd)
      BY <3>1, <1>1 DEF OutOK, r
    <3>3. o[j][2] \in Nat
      BY <2>0, <3>1
    <3> QED
      BY <3>1, <3>2, <3>3, <1>4, <1>8
  <2>2. CASE ~(j <= Len(o))
    <3>1. j \in (Len(o) + 1)..Len(o2)
      BY <2>2, <1>6
    <3> QED
      BY <3>1, <1>4, <1>6, <1>9
  <2> QED
    BY <2>1, <2>2
<1>13. OutOK(o2, s, last)
  BY <1>4, <1>6, <1>11, <1>12 DEF OutOK
<1>14. DoneOK(o2, d, s, last)
  <2>1. ASSUME NEW i \in 1..Len(d)
        PROVE  Cardinality(Of(o2, d[i].blockIdx)) = d[i].forwarded
    <3>1. d[i].blockIdx < Frontier(q, last) /\ Cardinality(Of(o, d[i].blockIdx)) = d[i].forwarded
      BY <1>1 DEF DoneOK
    <3>2. d[i] \in DoneType
      BY <1>1, ElementOfSeq DEF DoneOK
    <3>3. d[i].blockIdx \in Nat /\ d[i].blockIdx # r.blockIdx
      BY <3>1, <3>2, <1>2 DEF DoneType
    <3> QED
      BY <3>1, <3>3, <1>6
  <2> QED
    BY <2>1, <1>1, <1>11 DEF DoneOK
<1>15. Reached(o2, d, s, last, m, f)
  BY <1>7, <1>10, <1>11, <1>13, <1>14 DEF Reached, DeliveryOK
<1> QED
  BY <1>15 DEF o2, s, x, r

\* The front block is forwarded, as far as configured, and leaves the queue.
LEMMA PopStep ==
  ASSUME NEW o, NEW d, NEW q, NEW last, NEW m, NEW f, Reached(o, d, q, last, m, f), q # <<>>,
         NEW discard
  PROVE  Reached(o \o Emitted(q[1], discard), Append(d, BlockDone(Forwarded(q[1], discard))),
                 Tail(q), last, m, f)
<1> DEFINE r == q[1]
           x == Forwarded(r, discard)
           o2 == o \o Emitted(r, discard)
           y == BlockDone(x)
           e == Append(d, y)
           s == Tail(q)
           F == Frontier(q, last)
           n == Len(q)
<1>1. Waiting(q, last) /\ OutOK(o, q, last) /\ DoneOK(o, d, q, last)
  BY DEF Reached, DeliveryOK
<1>2. /\ q \in Seq(RxBlockType) /\ n \in Nat /\ 1 \in 1..n /\ last \in Int
      /\ F \in Int /\ r.blockIdx = F /\ r.blockIdx \in Nat
  <2>1. /\ q \in Seq(RxBlockType) /\ n \in Nat /\ 1 \in 1..n /\ last \in Int
        /\ F \in Int /\ r.blockIdx \in Nat /\ r.blockIdx = F + 1 - 1
    BY <1>1, WaitingFacts
  <2> QED
    BY <2>1
<1>3. BlockOK(r)
  BY <1>1, <1>2 DEF Waiting
<1>4. x.blockIdx = r.blockIdx /\ x \in RxBlockType
  BY <1>3, ForwardedType
<1>5. y \in DoneType /\ y.blockIdx = r.blockIdx /\ y.forwarded = x.fwd
  <2> HIDE DEF x
  <2> QED
    BY <1>4 DEF DoneType, RxBlockType, BlockDone
<1>6. /\ s \in Seq(RxBlockType) /\ Len(s) = n - 1
      /\ \A j \in 1..Len(s) : s[j] = q[j + 1]
  BY <1>2, HeadTailProperties
<1>7. /\ o2 \in Seq(Nat \X Nat) /\ Len(o2) \in Nat
      /\ Promise!InOrder(o2)
      /\ \A j \in 1..Len(o2) : Promise!OfStream(o2[j]) /\ o2[j][1] <= r.blockIdx
      /\ Cardinality(Of(o2, r.blockIdx)) = x.fwd
      /\ \A b \in Nat : b # r.blockIdx => Cardinality(Of(o2, b)) = Cardinality(Of(o, b))
  <2>1. EmitFacts(o, o2, r, discard)
    BY <1>1, OutEmit
  <2> HIDE DEF o2, r
  <2> QED
    BY <2>1 DEF EmitFacts, x
<1>8. Since(o2, m, f)
  BY SinceEmit
<1>9. f \in Int /\ f <= F
  BY DEF Reached
<1>10. Frontier(s, last) = F + 1
  <2>1. F = last - n + 1 /\ Frontier(s, last) = last - Len(s) + 1
    BY DEF Frontier
  <2> HIDE DEF F, n, s
  <2> QED
    BY <2>1, <1>2, <1>6
<1> HIDE DEF r, x, o2, y, e, s, F, n
<1>11. Waiting(s, last)
  <2>1. ASSUME NEW j \in 1..Len(s)
        PROVE  /\ j + 1 \in 1..n /\ j + 1 \in 2..n /\ s[j] = q[j + 1]
               /\ s[j].blockIdx = last - Len(s) + j
               /\ BlockOK(s[j]) /\ KMatches(s[j]) /\ s[j].fwd = 0
    <3>1. j + 1 \in 1..n /\ j + 1 \in 2..n /\ s[j] = q[j + 1]
      BY <1>2, <1>6
    <3>2. /\ q[j + 1].blockIdx = last - n + (j + 1)
          /\ BlockOK(q[j + 1]) /\ KMatches(q[j + 1]) /\ q[j + 1].fwd = 0
      BY <3>1, <1>1 DEF Waiting, n
    <3>3. last - n + (j + 1) = last - Len(s) + j
      BY <1>2, <1>6
    <3> QED
      BY <3>1, <3>2, <3>3
  <2>2. \A j \in 2..Len(s) : j \in 1..Len(s)
    BY <1>2, <1>6
  <2> QED
    BY <2>1, <2>2, <1>1, <1>6 DEF Waiting
<1>12. \A j \in 1..Len(o2) : o2[j][1] \in Nat /\ o2[j][1] < F + 1
  <2> SUFFICES ASSUME NEW j \in 1..Len(o2) PROVE o2[j][1] \in Nat /\ o2[j][1] < F + 1
    OBVIOUS
  <2>1. o2[j] \in Nat \X Nat
    BY <1>7, ElementOfSeq
  <2>2. o2[j][1] \in Nat /\ o2[j][1] <= F
    BY <2>1, <1>2, <1>7
  <2> QED
    BY <2>2, <1>2
<1>13. s # <<>> => Cardinality(Of(o2, s[1].blockIdx)) = s[1].fwd
  <2> SUFFICES ASSUME s # <<>> PROVE Cardinality(Of(o2, s[1].blockIdx)) = s[1].fwd
    OBVIOUS
  <2>1. 1 \in 1..Len(s)
    BY <1>11, WaitingFacts
  <2>2. s[1] = q[2] /\ 2 \in 2..n
    BY <2>1, <1>2, <1>6
  <2>3. s[1].fwd = 0
    BY <2>2, <1>1 DEF Waiting, n
  <2>4. s[1].blockIdx = (F + 1) + 1 - 1
    BY <2>1, <1>10, <1>11, WaitingFacts
  <2>5. s[1].blockIdx = F + 1
    BY <2>4, <1>2
  <2>6. Of(o2, s[1].blockIdx) = {}
    <3> SUFFICES ASSUME NEW j \in 1..Len(o2), o2[j][1] = F + 1 PROVE FALSE
      BY <2>5 DEF Of
    <3> QED
      BY <1>2, <1>12
  <2> QED
    BY <2>3, <2>6, FS_EmptySet
<1>14. OutOK(o2, s, last)
  BY <1>7, <1>10, <1>12, <1>13 DEF OutOK
<1>15. /\ d \in Seq(DoneType) /\ Len(d) \in Nat
       /\ e \in Seq(DoneType) /\ Len(e) = Len(d) + 1
       /\ \A i \in 1..Len(d) : e[i] = d[i]
       /\ e[Len(d) + 1] = y
  <2>1. d \in Seq(DoneType)
    BY <1>1 DEF DoneOK
  <2> QED
    BY <2>1, <1>5, AppendProperties, LenProperties DEF e
<1>16. ASSUME NEW i \in 1..Len(d)
       PROVE  /\ e[i] = d[i] /\ d[i].blockIdx \in Nat /\ d[i].blockIdx < F
              /\ Cardinality(Of(o2, d[i].blockIdx)) = d[i].forwarded
  <2>1. d[i].blockIdx < F /\ Cardinality(Of(o, d[i].blockIdx)) = d[i].forwarded
    BY <1>1 DEF DoneOK, F
  <2>2. d[i] \in DoneType
    BY <1>15, ElementOfSeq
  <2>3. d[i].blockIdx \in Nat /\ d[i].blockIdx # r.blockIdx
    BY <2>1, <2>2, <1>2 DEF DoneType
  <2> QED
    BY <2>1, <2>3, <1>7, <1>15
<1>17. ASSUME NEW i \in 1..Len(e)
       PROVE  e[i].blockIdx < F + 1 /\ Cardinality(Of(o2, e[i].blockIdx)) = e[i].forwarded
  <2>1. CASE i <= Len(d)
    <3>1. i \in 1..Len(d)
      BY <2>1, <1>15
    <3> QED
      BY <3>1, <1>2, <1>16
  <2>2. CASE ~(i <= Len(d))
    <3>1. i = Len(d) + 1
      BY <2>2, <1>15
    <3>2. e[i] = y
      BY <3>1, <1>15
    <3> QED
      BY <3>2, <1>2, <1>5, <1>7
  <2> QED
    BY <2>1, <2>2
<1>18. ASSUME NEW i \in 1..Len(e), NEW j \in 1..Len(e), i < j
       PROVE  e[i].blockIdx < e[j].blockIdx
  <2>1. i \in 1..Len(d)
    BY <1>15, <1>18
  <2>2. CASE j <= Len(d)
    <3>1. j \in 1..Len(d)
      BY <2>2, <1>15
    <3>2. d[i].blockIdx < d[j].blockIdx
      BY <2>1, <3>1, <1>1, <1>18 DEF DoneOK
    <3> QED
      BY <2>1, <3>1, <3>2, <1>15
  <2>3. CASE ~(j <= Len(d))
    <3>1. e[j] = y
      <4>1. j = Len(d) + 1
        BY <2>3, <1>15
      <4> QED
        BY <4>1, <1>15
    <3>2. e[i].blockIdx < F
      BY <2>1, <1>16
    <3> QED
      BY <3>1, <3>2, <1>2, <1>5
  <2> QED
    BY <2>2, <2>3
<1>19. DoneOK(o2, e, s, last)
  BY <1>10, <1>15, <1>17, <1>18 DEF DoneOK
<1>20. f <= F + 1
  BY <1>2, <1>9
<1>21. Reached(o2, e, s, last, m, f)
  BY <1>8, <1>9, <1>10, <1>11, <1>14, <1>19, <1>20 DEF Reached, DeliveryOK
<1> QED
  BY <1>21 DEF o2, e, s, y, x, r

\* New blocks are created behind the queue, possibly after some that never get a
\* place in it: nothing comes out.
LEMMA PushStep ==
  ASSUME NEW o, NEW d, NEW q, NEW last, NEW m, NEW f, Reached(o, d, q, last, m, f),
         NEW s, NEW newest, Waiting(s, newest), Frontier(q, last) <= Frontier(s, newest),
         q # <<>> => s # <<>> /\ s[1] = q[1],
         q = <<>> /\ s # <<>> => s[1].fwd = 0
  PROVE  Reached(o, d, s, newest, m, f)
<1> DEFINE F == Frontier(q, last)
           G == Frontier(s, newest)
<1>1. Waiting(q, last) /\ OutOK(o, q, last) /\ DoneOK(o, d, q, last)
  BY DEF Reached, DeliveryOK
<1>2. F \in Int /\ G \in Int /\ F <= G
  BY <1>1, WaitingFacts
<1>3. f \in Int /\ f <= F
  BY DEF Reached
<1> HIDE DEF F, G
<1>4. ASSUME NEW j \in 1..Len(o)
      PROVE  /\ o[j][1] \in Nat
             /\ o[j][1] < F => o[j][1] < G
             /\ q = <<>> => o[j][1] < F
  <2>1. o[j] \in Nat \X Nat
    BY <1>1, ElementOfSeq DEF OutOK
  <2>2. o[j][1] < F \/ q # <<>>
    BY <1>1 DEF OutOK, F
  <2>3. o[j][1] \in Nat
    BY <2>1
  <2> QED
    BY <2>2, <2>3, <1>2
<1>5. ASSUME s # <<>>
      PROVE  Cardinality(Of(o, s[1].blockIdx)) = s[1].fwd
  <2>1. CASE q # <<>>
    BY <1>1, <2>1 DEF OutOK
  <2>2. CASE q = <<>>
    <3>1. s[1].fwd = 0
      BY <1>5, <2>2
    <3>2. s[1].blockIdx = G + 1 - 1
      BY <1>5, WaitingFacts DEF G
    <3>3. s[1].blockIdx = G
      BY <3>2, <1>2
    <3>4. Of(o, s[1].blockIdx) = {}
      <4> SUFFICES ASSUME NEW j \in 1..Len(o), o[j][1] = G PROVE FALSE
        BY <3>3 DEF Of
      <4> QED
        BY <2>2, <1>2, <1>4
    <3> QED
      BY <3>1, <3>4, FS_EmptySet
  <2> QED
    BY <2>1, <2>2
<1>6. OutOK(o, s, newest)
  <2>1. ASSUME NEW j \in 1..Len(o)
        PROVE  \/ o[j][1] < G
               \/ s # <<>> /\ o[j][1] = s[1].blockIdx /\ o[j][2] < s[1].fwd
    <3>1. \/ o[j][1] < F
          \/ q # <<>> /\ o[j][1] = q[1].blockIdx /\ o[j][2] < q[1].fwd
      BY <1>1 DEF OutOK, F
    <3> QED
      BY <3>1, <1>4
  <2> QED
    BY <2>1, <1>1, <1>5 DEF OutOK, G
<1>7. DoneOK(o, d, s, newest)
  <2>1. ASSUME NEW i \in 1..Len(d) PROVE d[i].blockIdx < G
    <3>1. d[i].blockIdx < F
      BY <1>1 DEF DoneOK, F
    <3>2. d[i] \in DoneType
      BY <1>1, ElementOfSeq DEF DoneOK
    <3>3. d[i].blockIdx \in Nat
      BY <3>2 DEF DoneType
    <3> QED
      BY <3>1, <3>3, <1>2
  <2> QED
    BY <2>1, <1>1 DEF DoneOK, G
<1>8. f <= G
  BY <1>2, <1>3
<1>9. Since(o, m, f)
  BY DEF Reached
<1> QED
  BY <1>3, <1>6, <1>7, <1>8, <1>9 DEF Reached, DeliveryOK, G

-----------------------------------------------------------------------------
(* Popping several blocks in turn *)

\* What the oldest n blocks emit and report when they are popped.
EmitsUpTo(q, n, discard) == EmitEach(SubSeq(q, 1, n), discard)

DonesUpTo(q, n, discard) == Dones(ForwardEach(SubSeq(q, 1, n), discard))

\* No block emits and reports nothing.
LEMMA EmitsNone ==
  ASSUME NEW q \in Seq(RxBlockType), NEW discard
  PROVE  EmitsUpTo(q, 0, discard) = <<>> /\ DonesUpTo(q, 0, discard) = <<>>
<1> DEFINE t == SubSeq(q, 1, 0)
<1>1. Len(t) = 0
  BY LenProperties, ForwardPrefix
<1> HIDE DEF t
<1>2. ForwardEach(t, discard) = <<>> /\ Len(<<>>) = 0
  BY <1>1 DEF ForwardEach
<1>3. Dones(<<>>) = <<>>
  BY DEF Dones
<1>4. EmitEach(t, discard) = <<>>
  <2>1. [i \in 1..Len(t) |-> Emitted(t[i], discard)] = <<>>
    BY <1>1
  <2> QED
    BY <2>1 DEF EmitEach, FlattenSeq
<1> QED
  BY <1>2, <1>3, <1>4 DEF EmitsUpTo, DonesUpTo, t

\* One block more emits after the others.
LEMMA EmitsMore ==
  ASSUME NEW q \in Seq(RxBlockType), NEW n \in 0..(Len(q) - 1), NEW discard,
         \A i \in 1..Len(q) : BlockOK(q[i])
  PROVE  EmitsUpTo(q, n + 1, discard) = EmitsUpTo(q, n, discard) \o Emitted(q[n + 1], discard)
<1> DEFINE t == SubSeq(q, 1, n)
           u == SubSeq(q, 1, n + 1)
           x == [i \in 1..Len(t) |-> Emitted(t[i], discard)]
           y == [i \in 1..Len(u) |-> Emitted(u[i], discard)]
<1>1. Len(q) \in Nat /\ n \in 0..Len(q) /\ n + 1 \in 0..Len(q) /\ n \in Nat /\ n + 1 \in 1..Len(q)
  BY LenProperties
<1>2. Len(t) = n /\ \A i \in 1..n : t[i] = q[i]
  BY <1>1, ForwardPrefix
<1>3. Len(u) = n + 1 /\ \A i \in 1..(n + 1) : u[i] = q[i]
  BY <1>1, ForwardPrefix
<1> HIDE DEF t, u
<1>4. Len(x) = n /\ \A i \in 1..n : x[i] = Emitted(q[i], discard)
  BY <1>1, <1>2
<1>5. Len(y) = n + 1 /\ \A i \in 1..(n + 1) : y[i] = Emitted(q[i], discard)
  BY <1>1, <1>3
<1>6. EmitsUpTo(q, n, discard) = FlattenSeq(x) /\ EmitsUpTo(q, n + 1, discard) = FlattenSeq(y)
  BY DEF EmitsUpTo, EmitEach, t, u
<1> HIDE DEF x, y
<1>7. CASE n = 0
  <2>1. EmitsUpTo(q, n, discard) = <<>>
    BY <1>7, EmitsNone
  <2>2. PICK g : FlatTo(y, Len(y), g) /\ FlattenSeq(y) = g[Len(y)]
    BY <1>1, <1>5, FlattenValue
  <2>3. g[1] = y[1] /\ Len(y) = 1
    BY <2>2, <1>5, <1>7 DEF FlatTo
  <2>4. FlattenSeq(y) = Emitted(q[1], discard)
    BY <2>2, <2>3, <1>5, <1>7
  <2>5. Emitted(q[1], discard) \in Seq(Nat \X Nat)
    BY <1>1, <1>7, EmittedOK
  <2> QED
    BY <2>1, <2>4, <2>5, <1>6, <1>7, ConcatEmptySeq
<1>8. CASE n # 0
  <2>1. n \in Nat \ {0} /\ \A i \in 1..n : x[i] = y[i]
    BY <1>1, <1>4, <1>5, <1>8
  <2>2. FlattenSeq(y) = FlattenSeq(x) \o y[n + 1]
    BY <2>1, <1>4, <1>5, FlattenStep
  <2>3. n + 1 \in 1..(n + 1)
    BY <1>1
  <2> QED
    BY <2>2, <2>3, <1>5, <1>6
<1> QED
  BY <1>7, <1>8

\* What is reported done for a sequence of popped blocks and one more.
LEMMA DonesAppend ==
  ASSUME NEW s \in Seq(RxBlockType), NEW x \in RxBlockType
  PROVE  Dones(Append(s, x)) = Append(Dones(s), BlockDone(x)) /\ BlockDone(x) \in DoneType
<1> DEFINE t == Append(s, x)
           y == BlockDone(x)
           d == Dones(s)
<1>1. y \in DoneType
  BY DEF DoneType, RxBlockType, BlockDone
<1>2. d \in Seq(DoneType) /\ Len(d) = Len(s) /\ Len(s) \in Nat
      /\ \A i \in 1..Len(s) : d[i] = BlockDone(s[i])
  BY DonesOK
<1>3. /\ t \in Seq(RxBlockType) /\ Len(t) = Len(s) + 1
      /\ \A i \in 1..Len(s) : t[i] = s[i]
      /\ t[Len(s) + 1] = x
  BY AppendProperties
<1> HIDE DEF t, y, d
<1>4. /\ Dones(t) \in Seq(DoneType) /\ Len(Dones(t)) = Len(t)
      /\ \A i \in 1..Len(t) : Dones(t)[i] = BlockDone(t[i])
  BY <1>3, DonesOK
<1>5. /\ Append(d, y) \in Seq(DoneType) /\ Len(Append(d, y)) = Len(d) + 1
      /\ \A i \in 1..Len(d) : Append(d, y)[i] = d[i]
      /\ Append(d, y)[Len(d) + 1] = y
  BY <1>1, <1>2, AppendProperties
<1>6. ASSUME NEW i \in 1..(Len(s) + 1) PROVE Dones(t)[i] = Append(d, y)[i]
  <2>1. CASE i <= Len(s)
    <3>1. i \in 1..Len(s)
      BY <2>1, <1>2
    <3> QED
      BY <3>1, <1>2, <1>3, <1>4, <1>5
  <2>2. CASE ~(i <= Len(s))
    <3>1. i = Len(s) + 1
      BY <2>2, <1>2
    <3> QED
      BY <3>1, <1>2, <1>3, <1>4, <1>5 DEF y
  <2> QED
    BY <2>1, <2>2
<1>7. Dones(t) = Append(d, y)
  BY <1>2, <1>3, <1>4, <1>5, <1>6, SeqEqual
<1> QED
  BY <1>1, <1>7 DEF t, y, d

\* One block more is reported after the others.
LEMMA DonesMore ==
  ASSUME NEW q \in Seq(RxBlockType), NEW n \in 0..(Len(q) - 1), NEW discard,
         \A i \in 1..Len(q) : BlockOK(q[i])
  PROVE  /\ DonesUpTo(q, n, discard) \in Seq(DoneType)
         /\ BlockDone(Forwarded(q[n + 1], discard)) \in DoneType
         /\ DonesUpTo(q, n + 1, discard) =
              Append(DonesUpTo(q, n, discard), BlockDone(Forwarded(q[n + 1], discard)))
<1> DEFINE t == ForwardEach(SubSeq(q, 1, n), discard)
           u == ForwardEach(SubSeq(q, 1, n + 1), discard)
           x == Forwarded(q[n + 1], discard)
<1>1. Len(q) \in Nat /\ n \in 0..Len(q) /\ n + 1 \in 0..Len(q) /\ n \in Nat /\ n + 1 \in 1..Len(q)
  BY LenProperties
<1>2. Len(t) = n /\ \A i \in 1..n : t[i] = Forwarded(q[i], discard)
  BY <1>1, ForwardPrefix
<1>3. Len(u) = n + 1 /\ \A i \in 1..(n + 1) : u[i] = Forwarded(q[i], discard)
  BY <1>1, ForwardPrefix
<1>4. \A i \in 1..(n + 1) : Forwarded(q[i], discard) \in RxBlockType
  <2> SUFFICES ASSUME NEW i \in 1..(n + 1) PROVE Forwarded(q[i], discard) \in RxBlockType
    OBVIOUS
  <2>1. BlockOK(q[i])
    BY <1>1
  <2> QED
    BY <2>1, ForwardedType
<1>5. t \in Seq(RxBlockType) /\ u \in Seq(RxBlockType)
  <2>1. t = [i \in 1..n |-> t[i]] /\ u = [i \in 1..(n + 1) |-> u[i]]
    BY <1>1, <1>2, <1>3 DEF ForwardEach
  <2> HIDE DEF t, u
  <2>2. \A i \in 1..n : t[i] \in RxBlockType
    BY <1>1, <1>2, <1>4
  <2>3. \A i \in 1..(n + 1) : u[i] \in RxBlockType
    BY <1>3, <1>4
  <2>4. t \in Seq(RxBlockType)
    BY <2>1, <2>2, <1>1
  <2>5. u \in Seq(RxBlockType)
    <3> DEFINE m == n + 1
    <3>1. m \in Nat /\ u = [i \in 1..m |-> u[i]] /\ \A i \in 1..m : u[i] \in RxBlockType
      BY <2>1, <2>3, <1>1
    <3> HIDE DEF m
    <3> QED
      BY <3>1
  <2> QED
    BY <2>4, <2>5
<1>6. x \in RxBlockType
  BY <1>1, <1>4
<1> HIDE DEF t, u, x
<1>7. /\ Append(t, x) \in Seq(RxBlockType) /\ Len(Append(t, x)) = Len(t) + 1
      /\ \A i \in 1..Len(t) : Append(t, x)[i] = t[i]
      /\ Append(t, x)[Len(t) + 1] = x
  BY <1>5, <1>6, AppendProperties
<1>8. ASSUME NEW i \in 1..(n + 1) PROVE u[i] = Append(t, x)[i]
  <2>1. CASE i <= n
    <3>1. i \in 1..n
      BY <2>1, <1>1
    <3> QED
      BY <3>1, <1>2, <1>3, <1>7
  <2>2. CASE ~(i <= n)
    <3>1. i = n + 1
      BY <2>2, <1>1
    <3> QED
      BY <3>1, <1>2, <1>3, <1>7 DEF x
  <2> QED
    BY <2>1, <2>2
<1>9. u = Append(t, x)
  BY <1>1, <1>2, <1>3, <1>5, <1>7, <1>8, SeqEqual
<1>10. Dones(u) = Append(Dones(t), BlockDone(x)) /\ BlockDone(x) \in DoneType
       /\ Dones(t) \in Seq(DoneType)
  BY <1>5, <1>6, <1>9, DonesAppend, DonesOK
<1> QED
  BY <1>10 DEF DonesUpTo, t, u, x

\* Concatenation is associative.
Associative(s, t, u) == (s \o t) \o u = s \o (t \o u)

\* Sequences over any set,
LEMMA Associate ==
  ASSUME NEW S, NEW s \in Seq(S), NEW t \in Seq(S), NEW u \in Seq(S)
  PROVE  Associative(s, t, u)
BY DEF Associative

\* the fragments that come out,
LEMMA FragmentsAssociate ==
  ASSUME NEW s \in Seq(Nat \X Nat), NEW t \in Seq(Nat \X Nat), NEW u \in Seq(Nat \X Nat)
  PROVE  Associative(s, t, u)
BY Associate

\* and the blocks reported done.
LEMMA DonesAssociate ==
  ASSUME NEW s \in Seq(DoneType), NEW t \in Seq(DoneType), NEW u \in Seq(DoneType)
  PROVE  (s \o t) \o u = s \o (t \o u)
OBVIOUS

\* The oldest blocks of a queue, one popped more.
LEMMA SubSeqFront ==
  ASSUME NEW q \in Seq(RxBlockType), NEW n \in 0..(Len(q) - 1)
  PROVE  /\ SubSeq(q, n + 1, Len(q)) # <<>>
         /\ SubSeq(q, n + 1, Len(q))[1] = q[n + 1]
         /\ Tail(SubSeq(q, n + 1, Len(q))) = SubSeq(q, n + 2, Len(q))
<1> DEFINE L == Len(q)
           m == n + 1
           s == SubSeq(q, m, L)
<1>1. L \in Nat /\ m \in 1..L /\ L \in m..L /\ m + 1 = n + 2
  BY LenProperties
<1>2. \A i \in m..L : q[i] \in RxBlockType
  <2> SUFFICES ASSUME NEW i \in m..L PROVE q[i] \in RxBlockType
    OBVIOUS
  <2>1. i \in 1..L
    BY <1>1
  <2> QED
    BY <2>1, ElementOfSeq
<1> HIDE DEF L, m
<1>3. /\ Len(s) = IF m <= L THEN L - m + 1 ELSE 0
      /\ \A i \in 1..(L - m + 1) : s[i] = q[m + i - 1]
  <2>1. m \in Int /\ L \in Int
    BY <1>1
  <2> QED
    BY <2>1, <1>2, SubSeqProperties
<1>4. 1 \in 1..(L - m + 1) /\ m + 1 - 1 = m /\ L - m + 1 # 0
  BY <1>1
<1>5. s[1] = q[m]
  BY <1>3, <1>4
<1>6. s # <<>>
  BY <1>1, <1>3, <1>4
<1>7. Tail(s) = SubSeq(q, m + 1, L)
  BY <1>1, HeadTailOfSubSeq DEF L
<1> QED
  BY <1>1, <1>5, <1>6, <1>7 DEF s, m, L

\* What came out and what is queued after the oldest n blocks were popped.
PoppedTo(o, d, q, last, m, f, n, discard) ==
  /\ EmitsUpTo(q, n, discard) \in Seq(Nat \X Nat)
  /\ DonesUpTo(q, n, discard) \in Seq(DoneType)
  /\ Reached(o \o EmitsUpTo(q, n, discard), d \o DonesUpTo(q, n, discard),
             SubSeq(q, n + 1, Len(q)), last, m, f)

\* One block more is popped.
LEMMA PopOneMore ==
  ASSUME NEW o \in Seq(Nat \X Nat), NEW d \in Seq(DoneType),
         NEW q \in Seq(RxBlockType), NEW last, NEW m, NEW f,
         NEW n \in 0..(Len(q) - 1), NEW discard,
         \A i \in 1..Len(q) : BlockOK(q[i]),
         PoppedTo(o, d, q, last, m, f, n, discard)
  PROVE  PoppedTo(o, d, q, last, m, f, n + 1, discard)
<1> DEFINE E == EmitsUpTo(q, n, discard)
           D == DonesUpTo(q, n, discard)
           s == SubSeq(q, n + 1, Len(q))
           e == Emitted(q[n + 1], discard)
           y == BlockDone(Forwarded(q[n + 1], discard))
<1>1. E \in Seq(Nat \X Nat) /\ D \in Seq(DoneType) /\ Reached(o \o E, d \o D, s, last, m, f)
  BY DEF PoppedTo
<1>2. s # <<>> /\ s[1] = q[n + 1] /\ Tail(s) = SubSeq(q, n + 2, Len(q))
  BY SubSeqFront
<1>3. EmitsUpTo(q, n + 1, discard) = E \o e
  BY EmitsMore
<1>4. DonesUpTo(q, n + 1, discard) = Append(D, y) /\ y \in DoneType
  BY DonesMore
<1>5. e \in Seq(Nat \X Nat)
  <2>1. n + 1 \in 1..Len(q)
    BY LenProperties
  <2> QED
    BY <2>1, EmittedOK
<1> HIDE DEF E, D, s
<1>6. Reached((o \o E) \o Emitted(s[1], discard),
              Append(d \o D, BlockDone(Forwarded(s[1], discard))), Tail(s), last, m, f)
  BY <1>1, <1>2, PopStep
<1>7. Reached((o \o E) \o e, Append(d \o D, y), SubSeq(q, n + 2, Len(q)), last, m, f)
  BY <1>2, <1>6
<1> HIDE DEF e, y
<1>8. (o \o E) \o e = o \o (E \o e) /\ E \o e \in Seq(Nat \X Nat)
  <2>1. o \in Seq(Nat \X Nat) /\ E \in Seq(Nat \X Nat) /\ e \in Seq(Nat \X Nat)
    BY <1>1, <1>5
  <2>2. E \o e \in Seq(Nat \X Nat)
    BY <2>1, ConcatProperties
  <2>3. (o \o E) \o e = o \o (E \o e)
    <3>1. Associative(o, E, e)
      BY <2>1, FragmentsAssociate
    <3> QED
      BY <3>1 DEF Associative
  <2> QED
    BY <2>2, <2>3
<1>9. Append(d \o D, y) = d \o Append(D, y) /\ Append(D, y) \in Seq(DoneType)
  <2>1. d \o D \in Seq(DoneType) /\ <<y>> \in Seq(DoneType)
    BY <1>1, <1>4, ConcatProperties
  <2>2. Append(d \o D, y) = (d \o D) \o <<y>>
    BY <2>1, <1>4, AppendIsConcat
  <2>3. Append(D, y) = D \o <<y>> /\ Append(D, y) \in Seq(DoneType)
    BY <1>1, <1>4, AppendIsConcat, AppendProperties
  <2>4. (d \o D) \o <<y>> = d \o (D \o <<y>>)
    BY <2>1, <1>1, DonesAssociate, Zenon
  <2> QED
    BY <2>2, <2>3, <2>4
<1>10. (n + 1) + 1 = n + 2
  OBVIOUS
<1> QED
  BY <1>3, <1>4, <1>7, <1>8, <1>9, <1>10 DEF PoppedTo

\* Popping the oldest n blocks of a queue, forwarded as far as configured.
LEMMA PopEachStep ==
  ASSUME NEW o, NEW d, NEW q, NEW last, NEW m, NEW f, Reached(o, d, q, last, m, f),
         NEW n \in 0..Len(q), NEW discard
  PROVE  PoppedTo(o, d, q, last, m, f, n, discard)
<1>1. /\ o \in Seq(Nat \X Nat) /\ d \in Seq(DoneType) /\ q \in Seq(RxBlockType)
      /\ \A i \in 1..Len(q) : BlockOK(q[i])
  BY DEF Reached, DeliveryOK, OutOK, DoneOK, Waiting
<1>2. Len(q) \in Nat
  BY <1>1, LenProperties
<1>3. PoppedTo(o, d, q, last, m, f, 0, discard)
  <2>1. EmitsUpTo(q, 0, discard) = <<>> /\ DonesUpTo(q, 0, discard) = <<>>
    BY <1>1, EmitsNone
  <2>2. o \o <<>> = o /\ d \o <<>> = d
    BY <1>1, ConcatEmptySeq
  <2>3. SubSeq(q, 1, Len(q)) = q
    BY <1>1, SubSeqFull
  <2>4. <<>> \in Seq(Nat \X Nat) /\ <<>> \in Seq(DoneType)
    OBVIOUS
  <2>5. 0 + 1 = 1
    OBVIOUS
  <2> QED
    BY <2>1, <2>2, <2>3, <2>4, <2>5 DEF PoppedTo
<1> DEFINE Bad == {k \in 0..Len(q) : ~PoppedTo(o, d, q, last, m, f, k, discard)}
<1>4. SUFFICES ASSUME Bad # {} PROVE FALSE
  BY <1>4
<1>5. PICK k \in Bad : \A j \in Bad : k <= j
  <2>1. Bad \subseteq Nat
    OBVIOUS
  <2> HIDE DEF Bad
  <2> QED
    BY <2>1, <1>4, LeastNatural
<1>6. k \in 0..Len(q) /\ ~PoppedTo(o, d, q, last, m, f, k, discard)
  BY <1>5
<1>7. k # 0
  BY <1>3, <1>6
<1>8. k - 1 \in 0..(Len(q) - 1) /\ k - 1 \in 0..Len(q) /\ ~(k <= k - 1) /\ (k - 1) + 1 = k
  BY <1>2, <1>6, <1>7
<1>9. k - 1 \notin Bad
  BY <1>5, <1>8
<1>10. PoppedTo(o, d, q, last, m, f, k - 1, discard)
  BY <1>8, <1>9
<1> HIDE DEF Bad
<1>11. PoppedTo(o, d, q, last, m, f, (k - 1) + 1, discard)
  BY <1>1, <1>8, <1>10, PopOneMore
<1> QED
  BY <1>6, <1>8, <1>11

-----------------------------------------------------------------------------
(* Every accepted packet: evictions and new blocks, then the handler *)

\* The state in which the handler of a packet of block b starts.
Started(b) ==
  Reached(out \o EmitEach(Evicted(b), TRUE), done \o Dones(ForwardEach(Evicted(b), TRUE)),
          QueueFor(b), LastKnown(b), Len(out), Frontier(rx_queue, last_known_block))

\* The state after a step of the decoder.
Stepped ==
  Reached(out', done', rx_queue', last_known_block', Len(out),
          Frontier(rx_queue, last_known_block))

\* The queue a packet finds once its block is created is a waiting queue, and
\* nothing of the new blocks was forwarded.
LEMMA QueueForWaiting ==
  ASSUME DInv, NEW b \in Block, ~AlreadyProcessed(b)
  PROVE  /\ Waiting(QueueFor(b), LastKnown(b))
         /\ \A i \in 1..Len(QueueFor(b)) :
              i + Overflow(b) > Len(rx_queue) => QueueFor(b)[i].fwd = 0
<1> DEFINE q == QueueFor(b)
           k == Overflow(b)
           L == Len(rx_queue)
<1>1. IInv /\ Waiting(rx_queue, last_known_block)
  BY DEF DInv, DeliveryOK
<1>2. QueueOK(q, LastKnown(b)) /\ LastKnown(b) \in Nat
  <2>1. QueueOK(q, LastKnown(b)) /\ LastKnown(b) \in Block
    BY <1>1, QueueForOK
  <2> QED
    BY <2>1, FECDecoderAssumption
<1>3. /\ k \in 0..L /\ L \in Nat
      /\ \A i \in 1..Len(q) :
           /\ i + k <= L => q[i] = rx_queue[i + k]
           /\ ~(i + k <= L) => q[i].fwd = 0
  BY <1>1, QueueForElements
<1> HIDE DEF q, k, L
<1>4. Len(q) \in Nat
  BY <1>2, LenProperties DEF QueueOK
<1>5. ASSUME NEW i \in 2..Len(q) PROVE q[i].fwd = 0
  <2>1. i \in 1..Len(q)
    BY <1>4
  <2>2. CASE i + k <= L
    <3>1. i + k \in 2..L
      BY <2>1, <2>2, <1>3, <1>5
    <3> QED
      BY <2>1, <2>2, <3>1, <1>1, <1>3 DEF Waiting, L
  <2> QED
    BY <2>1, <2>2, <1>3
<1>6. \A i \in 1..Len(q) : i + k > L => q[i].fwd = 0
  BY <1>3, <1>4
<1>7. Waiting(q, LastKnown(b))
  BY <1>2, <1>5 DEF Waiting, QueueOK, QueuedOK
<1> QED
  BY <1>6, <1>7 DEF q, k, L

\* Evicting the oldest blocks, then creating new ones, keeps the relation.
LEMMA PacketStarts ==
  ASSUME DInv, NEW b \in Block, ~AlreadyProcessed(b)
  PROVE  /\ Started(b)
         /\ EmitEach(Evicted(b), TRUE) \in Seq(Nat \X Nat)
         /\ Dones(ForwardEach(Evicted(b), TRUE)) \in Seq(DoneType)
<1> DEFINE q == rx_queue
           last == last_known_block
           m == Len(out)
           F == Frontier(q, last)
           k == Overflow(b)
           L == Len(q)
           n == NewBlocks(b)
           s == SubSeq(q, k + 1, L)
           o1 == out \o EmitEach(Evicted(b), TRUE)
           d1 == done \o Dones(ForwardEach(Evicted(b), TRUE))
           t == QueueFor(b)
           newest == LastKnown(b)
<1>1. IInv /\ DeliveryOK(out, done, q, last) /\ Waiting(q, last) /\ out \in Seq(Nat \X Nat)
  BY DEF DInv, DeliveryOK, OutOK
<1>2. F \in Int /\ q \in Seq(RxBlockType) /\ L \in Nat /\ last \in Int /\ m \in Nat
  BY <1>1, WaitingFacts, LenProperties
<1>3. Reached(out, done, q, last, m, F)
  <2>1. Since(out, m, F)
    BY <1>2 DEF Since
  <2> QED
    BY <2>1, <1>1, <1>2 DEF Reached
<1>4. /\ k \in 0..L /\ Len(t) = L + n - k
      /\ \A i \in 1..Len(t) : i + k <= L => t[i] = q[i + k]
  BY <1>1, QueueForElements
<1>5. PoppedTo(out, done, q, last, m, F, k, TRUE)
  BY <1>3, <1>4, PopEachStep
<1>6. /\ EmitEach(Evicted(b), TRUE) \in Seq(Nat \X Nat)
      /\ Dones(ForwardEach(Evicted(b), TRUE)) \in Seq(DoneType)
      /\ Reached(o1, d1, s, last, m, F)
  BY <1>5 DEF PoppedTo, EmitsUpTo, DonesUpTo, Evicted
<1>7. /\ Waiting(t, newest)
      /\ \A i \in 1..Len(t) : i + k > L => t[i].fwd = 0
  BY QueueForWaiting
<1>8. n \in Nat /\ Skipped(b) \in Nat
  <2>1. n \in 0..RX_QUEUE_MAX_SIZE /\ Skipped(b) \in Nat
    BY <1>1, CreationCounts
  <2> QED
    BY <2>1, FECDecoderAssumption
<1>9. Waiting(s, last)
  BY <1>6 DEF Reached, DeliveryOK
<1>10. Len(s) = L - k
  <2>1. \A i \in (k + 1)..L : q[i] \in RxBlockType
    <3> SUFFICES ASSUME NEW i \in (k + 1)..L PROVE q[i] \in RxBlockType
      OBVIOUS
    <3>1. i \in 1..L
      BY <1>2, <1>4
    <3> QED
      BY <3>1, <1>2, ElementOfSeq
  <2>2. k + 1 \in Int /\ L \in Int /\ k <= L /\ k \in Nat
    BY <1>2, <1>4
  <2>3. Len(s) = IF k + 1 <= L THEN L - (k + 1) + 1 ELSE 0
    BY <2>1, <2>2, SubSeqProperties
  <2> HIDE DEF s, k, L
  <2> QED
    BY <2>2, <2>3
<1>11. Frontier(s, last) <= Frontier(t, newest)
  <2>1. Frontier(s, last) = last - (L - k) + 1
    BY <1>10 DEF Frontier
  <2>2. Frontier(t, newest) = newest - (L + n - k) + 1
    BY <1>4 DEF Frontier
  <2>3. CASE last # NoBlock
    <3>1. newest = last + n + Skipped(b)
      BY <2>3, <1>1, NewestBlock
    <3> DEFINE x == Skipped(b)
    <3>2. /\ newest = last + n + x /\ x \in Nat /\ n \in Nat /\ last \in Int
          /\ k \in Nat /\ L \in Nat
      BY <3>1, <1>2, <1>4, <1>8
    <3> HIDE DEF newest, last, n, x, k, L
    <3>3. last - (L - k) + 1 <= newest - (L + n - k) + 1
      BY <3>2
    <3> QED
      BY <2>1, <2>2, <3>3
  <2>4. CASE last = NoBlock
    <3>1. n = 1 /\ newest = b /\ q = <<>> /\ b \in Nat
      BY <2>4, <1>1, NewestBlock, FECDecoderAssumption
    <3>2. L = 0 /\ k = 0
      <4>1. L = 0
        BY <3>1
      <4> QED
        BY <4>1, <1>4
    <3>3. Frontier(s, last) = 0 /\ Frontier(t, newest) = b
      BY <2>1, <2>2, <2>4, <3>1, <3>2 DEF NoBlock
    <3> QED
      BY <3>1, <3>3
  <2> QED
    BY <2>3, <2>4
<1>12. s # <<>> => t # <<>> /\ t[1] = s[1]
  <2> SUFFICES ASSUME s # <<>> PROVE t # <<>> /\ t[1] = s[1]
    OBVIOUS
  <2>1. 1 \in 1..Len(s)
    BY <1>9, WaitingFacts
  <2>2. k \in 0..(L - 1) /\ 1 \in 1..Len(t) /\ 1 + k <= L
    <3> HIDE DEF s, L, k, n, t
    <3> QED
      BY <2>1, <1>2, <1>4, <1>8, <1>10
  <2>3. s[1] = q[k + 1]
    BY <2>2, <1>2, SubSeqFront
  <2>4. t[1] = q[1 + k]
    BY <2>2, <1>4
  <2>5. t # <<>>
    BY <2>2
  <2> QED
    BY <2>3, <2>4, <2>5, <1>4
<1>13. s = <<>> /\ t # <<>> => t[1].fwd = 0
  <2> SUFFICES ASSUME s = <<>>, t # <<>> PROVE t[1].fwd = 0
    OBVIOUS
  <2>1. 1 \in 1..Len(t)
    BY <1>7, WaitingFacts
  <2>2. Len(s) = 0
    <3> HIDE DEF s
    <3> QED
      OBVIOUS
  <2>3. 1 + k > L
    <3> HIDE DEF s, L, k
    <3> QED
      BY <2>2, <1>2, <1>4, <1>10
  <2> QED
    BY <2>1, <2>3, <1>7
<1> HIDE DEF q, last, m, F, k, L, n, s, o1, d1, t, newest
<1>14. Reached(o1, d1, t, newest, m, F)
  BY <1>6, <1>7, <1>11, <1>12, <1>13, PushStep
<1> QED
  BY <1>6, <1>14 DEF Started, q, last, m, F, o1, d1, t, newest

\* Reporting two runs of popped blocks is reporting one after the other.
LEMMA DonesConcat ==
  ASSUME NEW s \in Seq(RxBlockType), NEW t \in Seq(RxBlockType)
  PROVE  Dones(s \o t) = Dones(s) \o Dones(t)
<1> DEFINE m == Len(s)
           n == Len(t)
           u == s \o t
           d == Dones(s)
           e == Dones(t)
<1>1. m \in Nat /\ n \in Nat
  BY LenProperties
<1>2. /\ u \in Seq(RxBlockType) /\ Len(u) = m + n
      /\ \A i \in 1..(m + n) : u[i] = IF i <= m THEN s[i] ELSE t[i - m]
  BY ConcatProperties
<1>3. /\ d \in Seq(DoneType) /\ Len(d) = m /\ \A i \in 1..m : d[i] = BlockDone(s[i])
      /\ e \in Seq(DoneType) /\ Len(e) = n /\ \A i \in 1..n : e[i] = BlockDone(t[i])
  BY DonesOK
<1> HIDE DEF u, d, e, m, n
<1>4. /\ Dones(u) \in Seq(DoneType) /\ Len(Dones(u)) = m + n
      /\ \A i \in 1..(m + n) : Dones(u)[i] = BlockDone(u[i])
  BY <1>2, DonesOK
<1>5. /\ d \o e \in Seq(DoneType) /\ Len(d \o e) = m + n
      /\ \A i \in 1..(m + n) : (d \o e)[i] = IF i <= m THEN d[i] ELSE e[i - m]
  <2>1. /\ d \o e \in Seq(DoneType) /\ Len(d \o e) = Len(d) + Len(e)
        /\ \A i \in 1..(Len(d) + Len(e)) :
             (d \o e)[i] = IF i <= Len(d) THEN d[i] ELSE e[i - Len(d)]
    BY <1>3, ConcatProperties
  <2> QED
    BY <2>1, <1>3
<1>6. ASSUME NEW i \in 1..(m + n) PROVE Dones(u)[i] = (d \o e)[i]
  <2>1. CASE i <= m
    <3>1. i \in 1..m
      BY <2>1, <1>1
    <3>2. u[i] = s[i] /\ (d \o e)[i] = d[i]
      BY <2>1, <1>2, <1>5
    <3>3. d[i] = BlockDone(s[i])
      BY <3>1, <1>3
    <3> QED
      BY <3>2, <3>3, <1>4
  <2>2. CASE ~(i <= m)
    <3>1. i - m \in 1..n
      BY <2>2, <1>1
    <3>2. u[i] = t[i - m] /\ (d \o e)[i] = e[i - m]
      BY <2>2, <1>2, <1>5
    <3>3. e[i - m] = BlockDone(t[i - m])
      BY <3>1, <1>3
    <3> QED
      BY <3>2, <3>3, <1>4
  <2> QED
    BY <2>1, <2>2
<1>7. Dones(u) = d \o e
  BY <1>4, <1>5, <1>6, SeqEqual
<1> QED
  BY <1>7 DEF u, d, e

\* A history only gets longer.
Grown(s, t) ==
  /\ Len(s) \in Nat /\ Len(t) \in Nat /\ Len(s) <= Len(t)
  /\ \A i \in 1..Len(s) : t[i] = s[i]

\* Concatenation makes a history longer.
LEMMA ConcatGrows ==
  ASSUME NEW S, NEW s \in Seq(S), NEW t \in Seq(S)
  PROVE  Grown(s, s \o t)
<1>1. Len(s) \in Nat /\ Len(t) \in Nat
  BY LenProperties
<1>2. /\ Len(s \o t) = Len(s) + Len(t)
      /\ \A i \in 1..(Len(s) + Len(t)) :
           (s \o t)[i] = IF i <= Len(s) THEN s[i] ELSE t[i - Len(s)]
  BY ConcatProperties
<1>3. \A i \in 1..Len(s) : i \in 1..(Len(s) + Len(t)) /\ i <= Len(s)
  BY <1>1
<1> QED
  BY <1>1, <1>2, <1>3 DEF Grown

\* What came out and was reported once the evictions are done.
EvictedOut(b) == out \o EmitEach(Evicted(b), TRUE)

EvictedDone(b) == done \o Dones(ForwardEach(Evicted(b), TRUE))

\* The state a handler leaves after emitting and reporting.
Handled(b, emitted, reported, queue) ==
  Reached(EvictedOut(b) \o emitted, EvictedDone(b) \o reported, queue, LastKnown(b),
          Len(out), Frontier(rx_queue, last_known_block))

\* What every accepted packet does, once its handler is known.
LEMMA CommitStep ==
  ASSUME DInv, NEW h, StreamPacket(h), IsNewFragment(h),
         NEW queue, NEW popped \in Seq(RxBlockType), NEW emitted \in Seq(Nat \X Nat),
         NEW recovered, NEW asserts,
         Commit(h, queue, popped, emitted, recovered, asserts),
         Handled(h.block_idx, emitted, Dones(popped), queue)
  PROVE  Stepped /\ Grown(out, out') /\ Grown(done, done')
<1> DEFINE b == h.block_idx
           E == EmitEach(Evicted(b), TRUE)
           each == ForwardEach(Evicted(b), TRUE)
           D == Dones(each)
           P == Dones(popped)
<1>1. b \in Block /\ ~AlreadyProcessed(b) /\ IInv
  BY FilledOK DEF DInv
<1>2. E \in Seq(Nat \X Nat) /\ D \in Seq(DoneType)
  BY <1>1, PacketStarts
<1>3. out \in Seq(Nat \X Nat) /\ done \in Seq(DoneType)
  BY DEF DInv, DeliveryOK, OutOK, DoneOK
<1>4. each \in Seq(RxBlockType)
  <2>1. QueueOK(rx_queue, last_known_block) /\ Overflow(b) \in 0..Len(rx_queue)
    BY <1>1, QueueForElements DEF IInv
  <2> QED
    BY <2>1, PrefixOfQueue DEF Evicted
<1>5. P \in Seq(DoneType)
  BY DonesOK
<1>6. /\ rx_queue' = queue /\ last_known_block' = LastKnown(b)
      /\ out' = (out \o E) \o emitted
      /\ done' = done \o Dones(each \o popped)
  BY DEF Commit, Dones
<1>7. Dones(each \o popped) = D \o P
  BY <1>4, DonesConcat
<1> HIDE DEF E, D, P, each
<1>8. (out \o E) \o emitted = out \o (E \o emitted) /\ E \o emitted \in Seq(Nat \X Nat)
  <2>1. E \o emitted \in Seq(Nat \X Nat)
    BY <1>2, ConcatProperties
  <2>2. (out \o E) \o emitted = out \o (E \o emitted)
    <3>1. Associative(out, E, emitted)
      BY <1>2, <1>3, FragmentsAssociate
    <3> QED
      BY <3>1 DEF Associative
  <2> QED
    BY <2>1, <2>2
<1>9. (done \o D) \o P = done \o (D \o P) /\ D \o P \in Seq(DoneType)
  <2>1. D \o P \in Seq(DoneType)
    BY <1>2, <1>5, ConcatProperties
  <2>2. (done \o D) \o P = done \o (D \o P)
    BY <1>2, <1>3, <1>5, DonesAssociate, Zenon
  <2> QED
    BY <2>1, <2>2
<1>10. done' = (done \o D) \o P
  BY <1>6, <1>7, <1>9
<1>11. Stepped
  BY <1>6, <1>10 DEF Stepped, Handled, EvictedOut, EvictedDone, E, D, P, each
<1>12. Grown(out, out')
  <2>1. Grown(out, out \o (E \o emitted))
    BY <1>3, <1>8, ConcatGrows
  <2> QED
    BY <2>1, <1>6, <1>8
<1>13. Grown(done, done')
  <2>1. Grown(done, done \o (D \o P))
    BY <1>3, <1>9, ConcatGrows
  <2> QED
    BY <2>1, <1>9, <1>10
<1> QED
  BY <1>11, <1>12, <1>13

\* The packet's fragment is in its block, possibly with what FEC reconstructs:
\* the block keeps its place and what was forwarded of it.
LEMMA BlockReplaced ==
  ASSUME DInv, NEW h, StreamPacket(h), IsNewFragment(h),
         NEW x, BlockOK(x), KMatches(x), x.blockIdx = h.block_idx, x.fwd = Filled(h).fwd
  PROVE  Reached(EvictedOut(h.block_idx), EvictedDone(h.block_idx),
                 [QueueFor(h.block_idx) EXCEPT ![Position(h.block_idx)] = x],
                 LastKnown(h.block_idx), Len(out), Frontier(rx_queue, last_known_block))
<1> DEFINE b == h.block_idx
           q == QueueFor(b)
           p == Position(b)
<1>1. b \in Block /\ ~AlreadyProcessed(b) /\ IInv
  BY FilledOK DEF DInv
<1>2. p \in 1..Len(q) /\ q[p].blockIdx = b
  BY <1>1, PositionOK
<1>3. Started(b)
  BY <1>1, PacketStarts
<1>4. Filled(h).fwd = q[p].fwd
  <2>1. q[p] \in RxBlockType
    <3>1. q \in Seq(RxBlockType)
      BY <1>1, QueueForOK DEF QueueOK
    <3> QED
      BY <3>1, <1>2, ElementOfSeq
  <2> DEFINE r == q[p]
  <2>2. Filled(h) = AddFragment(r, h) /\ r \in RxBlockType
    BY <2>1 DEF Filled
  <2> HIDE DEF r
  <2>3. AddFragment(r, h).fwd = r.fwd
    BY <2>2 DEF AddFragment, RxBlockType
  <2> QED
    BY <2>2, <2>3 DEF r
<1> HIDE DEF q, p
<1>5. Reached(EvictedOut(b), EvictedDone(b), q, LastKnown(b), Len(out),
              Frontier(rx_queue, last_known_block))
  BY <1>3 DEF Started, EvictedOut, EvictedDone, q
<1>6. Reached(EvictedOut(b), EvictedDone(b), [q EXCEPT ![p] = x], LastKnown(b), Len(out),
              Frontier(rx_queue, last_known_block))
  BY <1>2, <1>4, <1>5, ReplaceStep
<1> QED
  BY <1>6 DEF q, p

\* What came out and was reported before the handler runs.
LEMMA EvictedTypes ==
  ASSUME DInv, NEW h, StreamPacket(h), IsNewFragment(h)
  PROVE  EvictedOut(h.block_idx) \in Seq(Nat \X Nat) /\ EvictedDone(h.block_idx) \in Seq(DoneType)
<1>1. h.block_idx \in Block /\ ~AlreadyProcessed(h.block_idx)
  BY FilledOK DEF DInv
<1>2. Started(h.block_idx)
  BY <1>1, PacketStarts
<1> QED
  BY <1>2 DEF Started, Reached, DeliveryOK, OutOK, DoneOK, EvictedOut, EvictedDone

-----------------------------------------------------------------------------
(* The handlers *)

\* Replacing the front block, then removing it.
LEMMA FrontReplaced ==
  ASSUME NEW q \in Seq(RxBlockType), 1 \in 1..Len(q), NEW x \in RxBlockType, NEW y \in RxBlockType
  PROVE  /\ [q EXCEPT ![1] = x] # <<>>
         /\ [q EXCEPT ![1] = x][1] = x
         /\ 1 \in 1..Len([q EXCEPT ![1] = x])
         /\ Tail([q EXCEPT ![1] = x]) = Tail(q)
         /\ [[q EXCEPT ![1] = x] EXCEPT ![1] = y] = [q EXCEPT ![1] = y]
<1> DEFINE s == [q EXCEPT ![1] = x]
<1>1. Len(q) \in Nat /\ q # <<>>
  BY LenProperties
<1>2. /\ s \in Seq(RxBlockType) /\ Len(s) = Len(q)
      /\ \A j \in 1..Len(q) : s[j] = IF j = 1 THEN x ELSE q[j]
  BY ExceptSeq
<1>3. [s EXCEPT ![1] = y] = [q EXCEPT ![1] = y]
  OBVIOUS
<1> HIDE DEF s
<1>4. s # <<>> /\ s[1] = x
  BY <1>1, <1>2
<1>5. /\ Tail(q) \in Seq(RxBlockType) /\ Len(Tail(q)) = Len(q) - 1
      /\ \A j \in 1..Len(Tail(q)) : Tail(q)[j] = q[j + 1]
  BY <1>1, HeadTailProperties
<1>6. /\ Tail(s) \in Seq(RxBlockType) /\ Len(Tail(s)) = Len(s) - 1
      /\ \A j \in 1..Len(Tail(s)) : Tail(s)[j] = s[j + 1]
  BY <1>2, <1>4, HeadTailProperties
<1>7. ASSUME NEW j \in 1..Len(Tail(s)) PROVE Tail(s)[j] = Tail(q)[j]
  <2>1. j + 1 \in 1..Len(q) /\ j + 1 # 1
    BY <1>1, <1>2, <1>6
  <2> QED
    BY <2>1, <1>2, <1>5, <1>6
<1>8. Tail(s) = Tail(q)
  BY <1>2, <1>5, <1>6, <1>7, SeqEqual
<1> QED
  BY <1>2, <1>3, <1>4, <1>8 DEF s

\* The front block with the packet's fragment, as every front handler finds it.
LEMMA FrontFilled ==
  ASSUME DInv, NEW h, StreamPacket(h), IsNewFragment(h), Position(h.block_idx) = 1
  PROVE  /\ QueueFor(h.block_idx) \in Seq(RxBlockType)
         /\ 1 \in 1..Len(QueueFor(h.block_idx))
         /\ BlockOK(Filled(h)) /\ Filled(h) \in RxBlockType
         /\ FrontForwarded(h) \in RxBlockType
         /\ Reached(EvictedOut(h.block_idx), EvictedDone(h.block_idx),
                    [QueueFor(h.block_idx) EXCEPT ![1] = Filled(h)],
                    LastKnown(h.block_idx), Len(out), Frontier(rx_queue, last_known_block))
<1>1. /\ BlockOK(Filled(h)) /\ KMatches(Filled(h)) /\ Filled(h).blockIdx = h.block_idx
  BY FilledOK DEF DInv
<1>2. Reached(EvictedOut(h.block_idx), EvictedDone(h.block_idx),
              [QueueFor(h.block_idx) EXCEPT ![Position(h.block_idx)] = Filled(h)],
              LastKnown(h.block_idx), Len(out), Frontier(rx_queue, last_known_block))
  BY <1>1, BlockReplaced
<1>3. /\ QueueFor(h.block_idx) \in Seq(RxBlockType)
      /\ 1 \in 1..Len(QueueFor(h.block_idx))
      /\ FrontForwarded(h) \in RxBlockType
  BY FrontOK DEF DInv, QueueOK, BlockOK
<1> QED
  BY <1>1, <1>2, <1>3 DEF BlockOK

\* The front block is forwarded up to its first gap and stays in the queue.
LEMMA FrontForwardedReached ==
  ASSUME DInv, NEW h, StreamPacket(h), IsNewFragment(h), Position(h.block_idx) = 1
  PROVE  /\ Emitted(Filled(h), FALSE) \in Seq(Nat \X Nat)
         /\ Reached(EvictedOut(h.block_idx) \o Emitted(Filled(h), FALSE),
                    EvictedDone(h.block_idx),
                    [QueueFor(h.block_idx) EXCEPT ![1] = FrontForwarded(h)],
                    LastKnown(h.block_idx), Len(out), Frontier(rx_queue, last_known_block))
<1> DEFINE q == QueueFor(h.block_idx)
           o == EvictedOut(h.block_idx)
           d == EvictedDone(h.block_idx)
           last == LastKnown(h.block_idx)
           m == Len(out)
           F == Frontier(rx_queue, last_known_block)
           a == Filled(h)
           g == FrontForwarded(h)
           s == [q EXCEPT ![1] = a]
<1>1. /\ q \in Seq(RxBlockType) /\ 1 \in 1..Len(q)
      /\ BlockOK(a) /\ a \in RxBlockType /\ g \in RxBlockType
      /\ Reached(o, d, s, last, m, F)
  BY FrontFilled
<1>2. g = Forwarded(a, FALSE)
  BY DEF FrontForwarded
<1> HIDE DEF q, o, d, last, m, F, a, g
<1>3. s # <<>> /\ s[1] = a /\ [s EXCEPT ![1] = g] = [q EXCEPT ![1] = g]
  BY <1>1, FrontReplaced
<1> HIDE DEF s
<1>4. Reached(o \o Emitted(s[1], FALSE), d, [s EXCEPT ![1] = Forwarded(s[1], FALSE)], last, m, F)
  BY <1>1, <1>3, ForwardStep
<1>5. Reached(o \o Emitted(a, FALSE), d, [q EXCEPT ![1] = g], last, m, F)
  BY <1>2, <1>3, <1>4
<1>6. Emitted(a, FALSE) \in Seq(Nat \X Nat)
  BY <1>1, EmittedOK
<1> QED
  BY <1>5, <1>6 DEF q, o, d, last, m, F, a, g

\* The step of a handler, and that the histories only got longer.
StepOK == Stepped /\ Grown(out, out') /\ Grown(done, done')

\* The handlers keep the relation: the front block is forwarded and stays,
LEMMA DeliverFrontPending ==
  ASSUME DInv, NEW h, StreamPacket(h), FrontPending(h)
  PROVE  StepOK
<1> DEFINE b == h.block_idx
           queue == [QueueFor(b) EXCEPT ![1] = FrontForwarded(h)]
           emitted == Emitted(Filled(h), FALSE)
<1>1. /\ IsNewFragment(h) /\ Position(b) = 1
      /\ Commit(h, queue, <<>>, emitted, 0, PullAsserts(Filled(h), FALSE))
  BY DEF FrontPending
<1>2. emitted \in Seq(Nat \X Nat)
      /\ Reached(EvictedOut(b) \o emitted, EvictedDone(b), queue, LastKnown(b), Len(out),
                 Frontier(rx_queue, last_known_block))
  BY <1>1, FrontForwardedReached
<1>3. EvictedDone(b) \o Dones(<<>>) = EvictedDone(b)
  <2>1. Dones(<<>>) = <<>>
    BY DEF Dones
  <2>2. EvictedDone(b) \in Seq(DoneType)
    BY <1>1, EvictedTypes
  <2> QED
    BY <2>1, <2>2, ConcatEmptySeq
<1> HIDE DEF queue, emitted
<1>4. Handled(b, emitted, Dones(<<>>), queue)
  BY <1>2, <1>3 DEF Handled
<1>5. <<>> \in Seq(RxBlockType)
  OBVIOUS
<1> QED
  BY <1>1, <1>2, <1>4, <1>5, CommitStep DEF StepOK

\* What is reported for one popped block.
LEMMA DonesOne ==
  ASSUME NEW x \in RxBlockType, NEW d \in Seq(DoneType)
  PROVE  /\ <<x>> \in Seq(RxBlockType)
         /\ d \o Dones(<<x>>) = Append(d, BlockDone(x))
<1>1. Dones(<<x>>) = <<BlockDone(x)>>
  BY DEF Dones
<1>2. BlockDone(x) \in DoneType
  BY DEF DoneType, RxBlockType, BlockDone
<1> DEFINE y == BlockDone(x)
<1>3. Append(d, y) = d \o <<y>>
  <2> HIDE DEF y
  <2> QED
    BY <1>2, AppendIsConcat DEF y
<1>4. d \o Dones(<<x>>) = Append(d, BlockDone(x))
  BY <1>1, <1>3, Zenon
<1>5. <<x>> \in Seq(RxBlockType)
  OBVIOUS
<1> QED
  BY <1>4, <1>5

\* it is forwarded, complete, and popped,
LEMMA DeliverFrontDone ==
  ASSUME DInv, NEW h, StreamPacket(h), FrontDone(h)
  PROVE  StepOK
<1> DEFINE b == h.block_idx
           q == QueueFor(b)
           queue == Tail(q)
           a == Filled(h)
           x == FrontForwarded(h)
           popped == <<x>>
           emitted == Emitted(a, FALSE)
           s == [q EXCEPT ![1] = a]
           o == EvictedOut(b)
           d == EvictedDone(b)
           last == LastKnown(b)
           m == Len(out)
           F == Frontier(rx_queue, last_known_block)
<1>1. /\ IsNewFragment(h) /\ Position(b) = 1
      /\ Commit(h, queue, popped, emitted, 0, PullAsserts(a, FALSE))
  BY DEF FrontDone
<1>2. /\ q \in Seq(RxBlockType) /\ 1 \in 1..Len(q)
      /\ a \in RxBlockType /\ x \in RxBlockType /\ BlockOK(a)
      /\ Reached(o, d, s, last, m, F)
  BY <1>1, FrontFilled
<1>3. x = Forwarded(a, FALSE)
  BY DEF FrontForwarded
<1>4. d \in Seq(DoneType)
  BY <1>1, EvictedTypes
<1>5. emitted \in Seq(Nat \X Nat)
  BY <1>2, EmittedOK
<1> HIDE DEF q, a, x, o, d, last, m, F
<1>6. s # <<>> /\ s[1] = a /\ Tail(s) = queue
  BY <1>2, FrontReplaced
<1> HIDE DEF s, queue
<1>7. Reached(o \o Emitted(s[1], FALSE), Append(d, BlockDone(Forwarded(s[1], FALSE))),
              Tail(s), last, m, F)
  BY <1>2, <1>6, PopStep
<1>8. popped \in Seq(RxBlockType) /\ d \o Dones(popped) = Append(d, BlockDone(x))
  BY <1>2, <1>4, DonesOne
<1> HIDE DEF popped
<1>9. Reached(o \o emitted, d \o Dones(popped), queue, last, m, F)
  BY <1>3, <1>6, <1>7, <1>8
<1> HIDE DEF emitted
<1>10. Handled(b, emitted, Dones(popped), queue)
  BY <1>9 DEF Handled, o, d, last, m, F
<1> QED
  BY <1>1, <1>5, <1>8, <1>10, CommitStep DEF StepOK

\* it is forwarded, recovered, forwarded to its end and popped,
LEMMA DeliverFrontRecover ==
  ASSUME DInv, NEW h, StreamPacket(h), FrontRecover(h)
  PROVE  StepOK
<1> DEFINE b == h.block_idx
           q == QueueFor(b)
           queue == Tail(q)
           a == Filled(h)
           g == FrontForwarded(h)
           fixed == Reconstructed(g)
           x == Forwarded(fixed, FALSE)
           popped == <<x>>
           emitted == Emitted(a, FALSE) \o Emitted(fixed, FALSE)
           recovered == Cardinality(MissingPrimary(g))
           asserts == /\ PullAsserts(a, FALSE)
                      /\ ReconstructAsserts(g)
                      /\ PullAsserts(fixed, FALSE)
                      /\ AllForwarded(Forwarded(fixed, FALSE))
           s == [q EXCEPT ![1] = g]
           t == [q EXCEPT ![1] = fixed]
           o == EvictedOut(b)
           o2 == o \o Emitted(a, FALSE)
           d == EvictedDone(b)
           last == LastKnown(b)
           m == Len(out)
           F == Frontier(rx_queue, last_known_block)
<1>1. /\ IsNewFragment(h) /\ Position(b) = 1
      /\ ~AllForwarded(g) /\ CanBeRecovered(g)
      /\ Commit(h, queue, popped, emitted, recovered, asserts)
  BY DEF FrontRecover
<1>2. /\ BlockOK(g) /\ KMatches(g) /\ g.k # Unknown /\ g.nP + g.nS <= g.k
      /\ g.blockIdx = b /\ ~AllAvailable(g)
  BY <1>1, FrontOK DEF DInv
<1>3. BlockOK(fixed) /\ x \in RxBlockType
  BY <1>1, <1>2, RecoverOK
<1>4. fixed.blockIdx = g.blockIdx /\ fixed.k = g.k /\ fixed.fwd = g.fwd
  <2> HIDE DEF g
  <2>1. g \in RxBlockType
    BY <1>2 DEF BlockOK
  <2> QED
    BY <2>1 DEF Reconstructed, RxBlockType
<1>5. KMatches(fixed)
  <2> HIDE DEF fixed, g
  <2> QED
    BY <1>2, <1>4 DEF KMatches
<1>6. /\ q \in Seq(RxBlockType) /\ 1 \in 1..Len(q) /\ g \in RxBlockType
  BY <1>1, FrontFilled
<1>7. /\ Emitted(a, FALSE) \in Seq(Nat \X Nat)
      /\ Reached(o2, d, s, last, m, F)
  BY <1>1, FrontForwardedReached
<1>8. Emitted(fixed, FALSE) \in Seq(Nat \X Nat) /\ fixed \in RxBlockType
  BY <1>3, EmittedOK DEF BlockOK
<1>9. d \in Seq(DoneType) /\ o \in Seq(Nat \X Nat)
  BY <1>1, EvictedTypes
<1>10. x = Forwarded(fixed, FALSE)
  OBVIOUS
<1> HIDE DEF q, a, g, fixed, x, last, m, F, o2, d, o
<1>11. /\ 1 \in 1..Len(s) /\ s[1] = g
       /\ [s EXCEPT ![1] = fixed] = t
       /\ t # <<>> /\ t[1] = fixed /\ Tail(t) = queue
  BY <1>6, <1>8, FrontReplaced
<1> HIDE DEF s, t, queue
<1>12. Reached(o2, d, t, last, m, F)
  <2>1. Reached(o2, d, [s EXCEPT ![1] = fixed], last, m, F)
    BY <1>3, <1>4, <1>5, <1>7, <1>11, ReplaceStep
  <2> QED
    BY <2>1, <1>11
<1>13. Reached(o2 \o Emitted(t[1], FALSE), Append(d, BlockDone(Forwarded(t[1], FALSE))),
               Tail(t), last, m, F)
  BY <1>11, <1>12, PopStep
<1>14. popped \in Seq(RxBlockType) /\ d \o Dones(popped) = Append(d, BlockDone(x))
  BY <1>3, <1>9, DonesOne
<1>15. o2 \o Emitted(fixed, FALSE) = o \o emitted /\ emitted \in Seq(Nat \X Nat)
  <2> DEFINE y == Emitted(a, FALSE)
             z == Emitted(fixed, FALSE)
  <2>1. y \in Seq(Nat \X Nat) /\ z \in Seq(Nat \X Nat)
    BY <1>7, <1>8
  <2> HIDE DEF y, z
  <2>2. (o \o y) \o z = o \o (y \o z)
    <3>1. Associative(o, y, z)
      BY <2>1, <1>9, FragmentsAssociate
    <3> QED
      BY <3>1 DEF Associative
  <2>3. y \o z \in Seq(Nat \X Nat)
    BY <2>1, ConcatProperties
  <2> QED
    BY <2>2, <2>3 DEF y, z, o2
<1> HIDE DEF popped, emitted, asserts, recovered
<1>16. Reached(o \o emitted, d \o Dones(popped), queue, last, m, F)
  BY <1>10, <1>11, <1>13, <1>14, <1>15
<1>17. Handled(b, emitted, Dones(popped), queue)
  BY <1>16 DEF Handled, o, d, last, m, F
<1> QED
  BY <1>1, <1>14, <1>15, <1>17, CommitStep DEF StepOK

\* a newer block keeps a fragment,
LEMMA DeliverStoreFragment ==
  ASSUME DInv, NEW h, StreamPacket(h), StoreFragment(h)
  PROVE  StepOK
<1> DEFINE b == h.block_idx
           queue == [QueueFor(b) EXCEPT ![Position(b)] = Filled(h)]
<1>1. IsNewFragment(h) /\ Commit(h, queue, <<>>, <<>>, 0, TRUE)
  BY DEF StoreFragment
<1>2. BlockOK(Filled(h)) /\ KMatches(Filled(h)) /\ Filled(h).blockIdx = b
  BY <1>1, FilledOK DEF DInv
<1>3. Reached(EvictedOut(b), EvictedDone(b), queue, LastKnown(b), Len(out),
              Frontier(rx_queue, last_known_block))
  BY <1>1, <1>2, BlockReplaced
<1>4. EvictedDone(b) \o Dones(<<>>) = EvictedDone(b) /\ EvictedOut(b) \o <<>> = EvictedOut(b)
  <2>1. Dones(<<>>) = <<>>
    BY DEF Dones
  <2>2. EvictedDone(b) \in Seq(DoneType) /\ EvictedOut(b) \in Seq(Nat \X Nat)
    BY <1>1, EvictedTypes
  <2> QED
    BY <2>1, <2>2, ConcatEmptySeq
<1> HIDE DEF queue
<1>5. Handled(b, <<>>, Dones(<<>>), queue)
  BY <1>3, <1>4 DEF Handled
<1>6. <<>> \in Seq(RxBlockType) /\ <<>> \in Seq(Nat \X Nat)
  OBVIOUS
<1> QED
  BY <1>1, <1>5, <1>6, CommitStep DEF StepOK

\* Replacing a block leaves those before and after it alone.
LEMMA AroundReplaced ==
  ASSUME NEW q \in Seq(RxBlockType), NEW p \in 1..Len(q), NEW x \in RxBlockType
  PROVE  /\ [q EXCEPT ![p] = x] \in Seq(RxBlockType)
         /\ Len([q EXCEPT ![p] = x]) = Len(q)
         /\ [q EXCEPT ![p] = x][p] = x
         /\ SubSeq([q EXCEPT ![p] = x], 1, p - 1) = SubSeq(q, 1, p - 1)
         /\ SubSeq([q EXCEPT ![p] = x], p + 1, Len(q)) = SubSeq(q, p + 1, Len(q))
<1> DEFINE s == [q EXCEPT ![p] = x]
           n == Len(q)
<1>1. n \in Nat
  BY LenProperties
<1>2. /\ s \in Seq(RxBlockType) /\ Len(s) = n
      /\ \A j \in 1..n : s[j] = IF j = p THEN x ELSE q[j]
  BY ExceptSeq
<1> HIDE DEF s, n
<1>3. p \in 1..n
  BY DEF n
<1>4. ASSUME NEW i \in Int, NEW j \in Int, i..j \subseteq 1..n, p \notin i..j
      PROVE  SubSeq(s, i, j) = SubSeq(q, i, j)
  <2>1. \A k \in i..j : s[k] = q[k] /\ q[k] \in RxBlockType /\ s[k] \in RxBlockType
    <3> SUFFICES ASSUME NEW k \in i..j
                 PROVE  s[k] = q[k] /\ q[k] \in RxBlockType /\ s[k] \in RxBlockType
      OBVIOUS
    <3>1. k \in 1..n /\ k # p
      BY <1>4
    <3>2. q[k] \in RxBlockType
      BY <3>1, ElementOfSeq DEF n
    <3> QED
      BY <3>1, <3>2, <1>2
  <2>2. /\ SubSeq(s, i, j) \in Seq(RxBlockType)
        /\ Len(SubSeq(s, i, j)) = IF i <= j THEN j - i + 1 ELSE 0
        /\ \A k \in 1..(j - i + 1) : SubSeq(s, i, j)[k] = s[i + k - 1]
    BY <2>1, SubSeqProperties
  <2>3. /\ SubSeq(q, i, j) \in Seq(RxBlockType)
        /\ Len(SubSeq(q, i, j)) = IF i <= j THEN j - i + 1 ELSE 0
        /\ \A k \in 1..(j - i + 1) : SubSeq(q, i, j)[k] = q[i + k - 1]
    BY <2>1, SubSeqProperties
  <2>4. ASSUME NEW k \in 1..Len(SubSeq(s, i, j))
        PROVE  SubSeq(s, i, j)[k] = SubSeq(q, i, j)[k]
    <3>1. k \in 1..(j - i + 1) /\ i + k - 1 \in i..j
      BY <2>2
    <3> QED
      BY <3>1, <2>1, <2>2, <2>3
  <2> QED
    BY <2>2, <2>3, <2>4, SeqEqual
<1>5. SubSeq(s, 1, p - 1) = SubSeq(q, 1, p - 1)
  <2>1. 1 \in Int /\ p - 1 \in Int /\ 1..(p - 1) \subseteq 1..n /\ p \notin 1..(p - 1)
    BY <1>1, <1>3
  <2> QED
    BY <2>1, <1>4
<1>6. SubSeq(s, p + 1, n) = SubSeq(q, p + 1, n)
  <2>1. p + 1 \in Int /\ n \in Int /\ (p + 1)..n \subseteq 1..n /\ p \notin (p + 1)..n
    BY <1>1, <1>3
  <2> QED
    BY <2>1, <1>4
<1>7. s[p] = x
  BY <1>2, <1>3
<1> QED
  BY <1>2, <1>5, <1>6, <1>7 DEF s, n

\* A newer block became complete: the blocks before it are popped, then it is.
LEMMA DeliverFlushUpTo ==
  ASSUME DInv, NEW h, StreamPacket(h), IsNewFragment(h), Position(h.block_idx) > 1,
         NEW fixed, BlockOK(fixed), KMatches(fixed),
         fixed.blockIdx = h.block_idx, fixed.fwd = Filled(h).fwd,
         NEW recovered, NEW asserts, FlushUpTo(h, fixed, recovered, asserts)
  PROVE  StepOK
<1> DEFINE b == h.block_idx
           p == Position(b)
           q == QueueFor(b)
           queue == SubSeq(q, p + 1, Len(q))
           older == SubSeq(q, 1, p - 1)
           discard == m_forward_gapped_fragments
           each == ForwardEach(older, discard)
           x == Forwarded(fixed, FALSE)
           y == BlockDone(x)
           e == Emitted(fixed, FALSE)
           E == EmitEach(older, discard)
           D == Dones(each)
           popped == Append(each, x)
           emitted == E \o e
           all == /\ PullEachAsserts(older, discard)
                  /\ asserts
                  /\ PullAsserts(fixed, FALSE)
                  /\ AllForwarded(Forwarded(fixed, FALSE))
           s == [q EXCEPT ![p] = fixed]
           t == SubSeq(s, p, Len(q))
           o == EvictedOut(b)
           d == EvictedDone(b)
           last == LastKnown(b)
           m == Len(out)
           F == Frontier(rx_queue, last_known_block)
<1>1. Commit(h, queue, popped, emitted, recovered, all)
  BY DEF FlushUpTo
<1>2. b \in Block /\ ~AlreadyProcessed(b) /\ IInv
  BY FilledOK DEF DInv
<1>3. QueueOK(q, last) /\ p \in 1..Len(q) /\ q \in Seq(RxBlockType)
  BY <1>2, QueueForOK, PositionOK DEF QueueOK
<1>4. Len(q) \in Nat /\ p \in Nat /\ p - 1 \in 0..(Len(q) - 1) /\ p - 1 \in 0..Len(q)
      /\ (p - 1) + 1 = p /\ (p - 1) + 2 = p + 1
  <2>1. Len(q) \in Nat
    BY <1>3, LenProperties
  <2> HIDE DEF p, q
  <2> QED
    BY <2>1, <1>3
<1>5. fixed \in RxBlockType /\ x \in RxBlockType /\ e \in Seq(Nat \X Nat)
  BY ForwardedType, EmittedOK DEF BlockOK
<1>6. Reached(o, d, s, last, m, F)
  BY BlockReplaced
<1>7. each \in Seq(RxBlockType)
  BY <1>3, <1>4, PrefixOfQueue
<1>8. o \in Seq(Nat \X Nat) /\ d \in Seq(DoneType)
  BY EvictedTypes
<1> HIDE DEF p, q, last, m, F, o, d
<1>9. /\ s \in Seq(RxBlockType) /\ Len(s) = Len(q) /\ s[p] = fixed
      /\ SubSeq(s, 1, p - 1) = older /\ SubSeq(s, p + 1, Len(q)) = queue
  BY <1>3, <1>5, AroundReplaced
<1> HIDE DEF s, queue, older
<1>10. PoppedTo(o, d, s, last, m, F, p - 1, discard)
  BY <1>4, <1>6, <1>9, PopEachStep
<1>11. E = EmitsUpTo(s, p - 1, discard) /\ D = DonesUpTo(s, p - 1, discard)
  BY <1>9 DEF EmitsUpTo, DonesUpTo
<1>12. /\ E \in Seq(Nat \X Nat) /\ D \in Seq(DoneType)
       /\ Reached(o \o E, d \o D, t, last, m, F)
  BY <1>4, <1>9, <1>10, <1>11 DEF PoppedTo
<1>13. t # <<>> /\ t[1] = fixed /\ Tail(t) = queue
  <2>1. /\ SubSeq(s, (p - 1) + 1, Len(s)) # <<>>
        /\ SubSeq(s, (p - 1) + 1, Len(s))[1] = s[(p - 1) + 1]
        /\ Tail(SubSeq(s, (p - 1) + 1, Len(s))) = SubSeq(s, (p - 1) + 2, Len(s))
    BY <1>4, <1>9, SubSeqFront
  <2> QED
    BY <2>1, <1>4, <1>9
<1>14. Dones(popped) = Append(D, y) /\ y \in DoneType
  BY <1>5, <1>7, DonesAppend
<1>15. popped \in Seq(RxBlockType)
  <2> HIDE DEF each, x
  <2> QED
    BY <1>5, <1>7, AppendProperties
<1> HIDE DEF t, E, D, each
<1>16. Reached((o \o E) \o Emitted(t[1], FALSE),
               Append(d \o D, BlockDone(Forwarded(t[1], FALSE))), Tail(t), last, m, F)
  BY <1>12, <1>13, PopStep
<1>17. Reached((o \o E) \o e, Append(d \o D, y), queue, last, m, F)
  BY <1>13, <1>16
<1> HIDE DEF e, y, x, all
<1>18. (o \o E) \o e = o \o emitted /\ emitted \in Seq(Nat \X Nat)
  <2>1. E \o e \in Seq(Nat \X Nat)
    BY <1>5, <1>12, ConcatProperties
  <2>2. (o \o E) \o e = o \o (E \o e)
    <3>1. Associative(o, E, e)
      BY <1>5, <1>8, <1>12, FragmentsAssociate
    <3> QED
      BY <3>1 DEF Associative
  <2> QED
    BY <2>1, <2>2
<1>19. Append(d \o D, y) = d \o Append(D, y)
  <2>1. d \o D \in Seq(DoneType) /\ <<y>> \in Seq(DoneType)
    BY <1>8, <1>12, <1>14, ConcatProperties
  <2>2. Append(d \o D, y) = (d \o D) \o <<y>>
    BY <2>1, <1>14, AppendIsConcat
  <2>3. Append(D, y) = D \o <<y>>
    BY <1>12, <1>14, AppendIsConcat
  <2>4. (d \o D) \o <<y>> = d \o (D \o <<y>>)
    BY <2>1, <1>8, <1>12, DonesAssociate, Zenon
  <2> QED
    BY <2>2, <2>3, <2>4
<1> HIDE DEF popped, emitted
<1>20. Reached(o \o emitted, d \o Dones(popped), queue, last, m, F)
  BY <1>14, <1>17, <1>18, <1>19
<1>21. Handled(b, emitted, Dones(popped), queue)
  BY <1>20 DEF Handled, o, d, last, m, F
<1> QED
  BY <1>1, <1>15, <1>18, <1>21, CommitStep DEF StepOK

\* or a newer block is complete, without FEC or with it.
LEMMA DeliverFlush ==
  ASSUME DInv, NEW h, StreamPacket(h), FlushComplete(h) \/ FlushRecover(h)
  PROVE  StepOK
<1> DEFINE a == Filled(h)
           fixed == Reconstructed(a)
<1>1. IsNewFragment(h) /\ Position(h.block_idx) > 1
  BY DEF FlushComplete, FlushRecover
<1>2. /\ BlockOK(a) /\ KMatches(a) /\ a.k # Unknown /\ a.nP + a.nS <= a.k
      /\ a.blockIdx = h.block_idx
  BY <1>1, FilledOK DEF DInv
<1>3. CASE FlushComplete(h)
  <2>1. FlushUpTo(h, a, 0, TRUE)
    BY <1>3 DEF FlushComplete
  <2> HIDE DEF a
  <2>2. a.fwd = Filled(h).fwd
    BY DEF a
  <2> QED
    BY <1>1, <1>2, <2>1, <2>2, DeliverFlushUpTo
<1>4. CASE FlushRecover(h)
  <2>1. /\ ~AllAvailable(a) /\ CanBeRecovered(a)
        /\ FlushUpTo(h, fixed, Cardinality(MissingPrimary(a)), ReconstructAsserts(a))
    BY <1>4 DEF FlushRecover
  <2>2. BlockOK(fixed)
    BY <2>1, <1>2, RecoverOK
  <2>3. fixed.blockIdx = a.blockIdx /\ fixed.k = a.k /\ fixed.fwd = a.fwd
    <3> HIDE DEF a
    <3>1. a \in RxBlockType
      BY <1>2 DEF BlockOK
    <3> QED
      BY <3>1 DEF Reconstructed, RxBlockType
  <2>4. KMatches(fixed)
    <3> HIDE DEF fixed, a
    <3> QED
      BY <2>3, <1>2 DEF KMatches
  <2>5. fixed.fwd = Filled(h).fwd /\ fixed.blockIdx = h.block_idx
    BY <2>3, <1>2
  <2> HIDE DEF fixed, a
  <2> QED
    BY <1>1, <2>1, <2>2, <2>4, <2>5, DeliverFlushUpTo
<1> QED
  BY <1>3, <1>4

\* Every packet that is not ignored keeps the relation.
LEMMA DeliverPacket ==
  ASSUME DInv, NEW h, StreamPacket(h), ProcessPacket(h)
  PROVE  IgnorePacket(h) \/ StepOK
BY DeliverFrontPending, DeliverFrontDone, DeliverFrontRecover, DeliverStoreFragment,
   DeliverFlush DEF ProcessPacket

\* Nothing came out and nothing was queued yet.
LEMMA NothingDelivered == DeliveryOK(<<>>, <<>>, <<>>, NoBlock)
<1>1. /\ <<>> \in Seq(RxBlockType) /\ <<>> \in Seq(Nat \X Nat) /\ <<>> \in Seq(DoneType)
      /\ Len(<<>>) = 0 /\ DOMAIN <<>> = {}
  OBVIOUS
<1>2. Waiting(<<>>, NoBlock)
  BY <1>1 DEF Waiting
<1>3. OutOK(<<>>, <<>>, NoBlock)
  BY <1>1 DEF OutOK, Promise!InOrder
<1>4. DoneOK(<<>>, <<>>, <<>>, NoBlock)
  BY <1>1 DEF DoneOK
<1> QED
  BY <1>2, <1>3, <1>4 DEF DeliveryOK

\* The relation holds when a session starts, and every step keeps it.
LEMMA InitDInv == Init => DInv
BY InitIInv, NothingDelivered DEF Init, DInv

\* Every step is a packet's, a new session's or changes nothing.
LEMMA StepCases ==
  ASSUME DInv, [Next]_vars
  PROVE  UNCHANGED vars \/ ResetRxQueue \/ StepOK
<1>1. ASSUME NEW b \in Block, NEW f \in 0..(NPrimary[b] + NSecondary[b] - 1),
             ProcessPacket(StreamHeader(b, f))
      PROVE  UNCHANGED vars \/ StepOK
  <2> DEFINE h == StreamHeader(b, f)
  <2>1. StreamPacket(h)
    BY DEF StreamPacket
  <2>2. ProcessPacket(h)
    BY <1>1
  <2> HIDE DEF h
  <2>3. IgnorePacket(h) \/ StepOK
    BY <2>1, <2>2, DeliverPacket
  <2> QED
    BY <2>3 DEF IgnorePacket
<1> QED
  BY <1>1 DEF Next

\* Every step keeps the relation.
LEMMA NextDInv == DInv /\ [Next]_vars => DInv'
<1> SUFFICES ASSUME DInv, [Next]_vars PROVE DInv'
  OBVIOUS
<1>1. IInv'
  BY NextIInv DEF DInv
<1>2. CASE UNCHANGED vars
  BY <1>1, <1>2 DEF DInv, vars
<1>3. CASE ResetRxQueue
  <2>1. out' = <<>> /\ done' = <<>> /\ rx_queue' = <<>> /\ last_known_block' = NoBlock
    BY <1>3 DEF ResetRxQueue
  <2> QED
    BY <2>1, <1>1, NothingDelivered DEF DInv
<1>4. CASE StepOK
  BY <1>1, <1>4 DEF StepOK, Stepped, Reached, DInv
<1> QED
  BY <1>2, <1>3, <1>4, StepCases

\* What came out of a block and when it was reported done are related for ever.
LEMMA DeliveryInvariance == Spec => []DInv
BY InitDInv, NextDInv, PTL DEF Spec

-----------------------------------------------------------------------------
(* The results *)

\* m_block_done_cb tells the truth for every queue depth, block layout and
\* sequence of packets: the number it reports for a block is the number of
\* fragments of it that the data callback got, before and ever after.
THEOREM BlockDoneTruthfulAlways == Spec => []BlockDoneTruthful
<1>1. DInv => BlockDoneTruthful
  BY DEF DInv, DeliveryOK, DoneOK, BlockDoneTruthful, Delivered, Of
<1> QED
  BY <1>1, DeliveryInvariance, PTL

\* A history that only gets longer is a prefix of what it becomes.
LEMMA GrownIsPrefix ==
  ASSUME NEW S, NEW s \in Seq(S), NEW t \in Seq(S), Grown(s, t)
  PROVE  IsPrefix(s, t)
<1> DEFINE n == Len(s)
<1>1. n \in Nat /\ Len(t) \in Nat /\ n <= Len(t) /\ \A i \in 1..n : t[i] = s[i]
  BY DEF Grown
<1>2. \A i \in 1..n : s[i] \in S /\ t[i] \in S
  BY <1>1, ElementOfSeq
<1> HIDE DEF n
<1>3. 1 \in Int /\ n \in Int /\ n - 1 + 1 = n
  BY <1>1
<1>4. /\ SubSeq(s, 1, n) \in Seq(S)
      /\ Len(SubSeq(s, 1, n)) = IF 1 <= n THEN n - 1 + 1 ELSE 0
      /\ \A i \in 1..(n - 1 + 1) : SubSeq(s, 1, n)[i] = s[1 + i - 1]
  BY <1>2, <1>3, SubSeqProperties
<1>5. /\ SubSeq(t, 1, n) \in Seq(S)
      /\ Len(SubSeq(t, 1, n)) = IF 1 <= n THEN n - 1 + 1 ELSE 0
      /\ \A i \in 1..(n - 1 + 1) : SubSeq(t, 1, n)[i] = t[1 + i - 1]
  BY <1>2, <1>3, SubSeqProperties
<1>6. Len(SubSeq(s, 1, n)) = Len(SubSeq(t, 1, n)) /\ Len(SubSeq(s, 1, n)) = n
  BY <1>1, <1>4, <1>5
<1>7. ASSUME NEW i \in 1..n PROVE SubSeq(s, 1, n)[i] = SubSeq(t, 1, n)[i]
  <2>1. 1 + i - 1 = i /\ i \in 1..(n - 1 + 1)
    BY <1>1
  <2> QED
    BY <2>1, <1>1, <1>4, <1>5
<1>8. SubSeq(s, 1, n) = SubSeq(t, 1, n)
  BY <1>4, <1>5, <1>6, <1>7, SeqEqual
<1> QED
  BY <1>1, <1>8 DEF IsPrefix, n

\* The blocks reported done, in order.
Closed(d) == [i \in 1..Len(d) |-> d[i].blockIdx]

\* The indices of the blocks reported done.
LEMMA ClosedOK ==
  ASSUME NEW d \in Seq(DoneType)
  PROVE  Closed(d) \in Seq(Nat) /\ Len(Closed(d)) = Len(d)
         /\ \A i \in 1..Len(d) : Closed(d)[i] = d[i].blockIdx
<1> DEFINE n == Len(d)
<1>1. n \in Nat
  BY LenProperties
<1>2. \A i \in 1..n : d[i].blockIdx \in Nat
  <2> SUFFICES ASSUME NEW i \in 1..n PROVE d[i].blockIdx \in Nat
    OBVIOUS
  <2>1. d[i] \in DoneType
    BY ElementOfSeq
  <2> QED
    BY <2>1 DEF DoneType
<1> HIDE DEF n
<1>3. [i \in 1..n |-> d[i].blockIdx] \in Seq(Nat)
  BY <1>1, <1>2
<1> QED
  BY <1>1, <1>3 DEF Closed, n

\* A packet's step is a step of the promise: more comes out and more is closed,
\* and what comes out belongs to blocks that were still open.
LEMMA StepAdvances ==
  ASSUME DInv, DInv', StepOK
  PROVE  Promise!Advance
<1> DEFINE F == Frontier(rx_queue, last_known_block)
           c == Closed(done)
           e == Closed(done')
<1>1. /\ Waiting(rx_queue, last_known_block) /\ OutOK(out, rx_queue, last_known_block)
      /\ DoneOK(out, done, rx_queue, last_known_block)
  BY DEF DInv, DeliveryOK
<1>2. /\ OutOK(out', rx_queue', last_known_block')
      /\ DoneOK(out', done', rx_queue', last_known_block')
      /\ Since(out', Len(out), F)
      /\ Grown(out, out') /\ Grown(done, done')
  BY DEF StepOK, Stepped, Reached, DeliveryOK
<1>3. /\ out \in Seq(Nat \X Nat) /\ out' \in Seq(Nat \X Nat)
      /\ done \in Seq(DoneType) /\ done' \in Seq(DoneType)
  BY <1>1, <1>2 DEF OutOK, DoneOK
<1>4. IsPrefix(out, out')
  BY <1>2, <1>3, GrownIsPrefix
<1>5. /\ c \in Seq(Nat) /\ Len(c) = Len(done) /\ \A i \in 1..Len(done) : c[i] = done[i].blockIdx
      /\ e \in Seq(Nat) /\ Len(e) = Len(done') /\ \A i \in 1..Len(done') : e[i] = done'[i].blockIdx
  BY <1>3, ClosedOK
<1>6. F \in Int
  BY <1>1, WaitingFacts
<1> HIDE DEF c, e, F
<1>7. Grown(c, e)
  <2>1. \A i \in 1..Len(done) : i \in 1..Len(done') /\ done'[i] = done[i]
    BY <1>2 DEF Grown
  <2> QED
    BY <2>1, <1>2, <1>5 DEF Grown
<1>8. IsPrefix(c, e)
  BY <1>5, <1>7, GrownIsPrefix
<1>9. Promise!InOrder(out')
  BY <1>2 DEF OutOK
<1>10. Promise!Ascending(e)
  <2>1. DOMAIN e = 1..Len(done')
    BY <1>5, LenProperties
  <2> QED
    BY <2>1, <1>2, <1>5 DEF Promise!Ascending, DoneOK
<1>11. ASSUME NEW i \in (Len(out) + 1)..Len(out')
       PROVE  Promise!OfStream(out'[i]) /\ out'[i][1] \notin ToSet(c)
  <2>1. i \in 1..Len(out') /\ out'[i][1] >= F
    BY <1>2 DEF Grown, Since
  <2>2. Promise!OfStream(out'[i])
    BY <2>1, <1>2 DEF OutOK
  <2>3. out'[i][1] \in Nat
    <3>1. out'[i] \in Nat \X Nat
      BY <2>1, <1>3, ElementOfSeq
    <3> QED
      BY <3>1
  <2>4. ASSUME NEW j \in DOMAIN c PROVE c[j] # out'[i][1]
    <3>1. j \in 1..Len(done) /\ c[j] \in Nat
      BY <1>5, LenProperties, ElementOfSeq
    <3>2. c[j] < F
      BY <3>1, <1>1, <1>5 DEF DoneOK, F
    <3> QED
      BY <3>1, <3>2, <2>1, <2>3, <1>6
  <2> QED
    BY <2>2, <2>4 DEF ToSet
<1>12. /\ c = [i \in 1..Len(done) |-> done[i].blockIdx]
       /\ e = [i \in 1..Len(done) |-> done[i].blockIdx]'
  BY DEF c, e, Closed
<1> DEFINE g == [i \in 1..Len(done) |-> done[i].blockIdx]
<1>13. g = c /\ g' = e
  BY <1>12
<1> HIDE DEF g
<1>14. /\ IsPrefix(out, out') /\ IsPrefix(g, g')
       /\ Promise!InOrder(out') /\ Promise!Ascending(g')
       /\ \A i \in (Len(out) + 1)..Len(out') :
            /\ Promise!OfStream(out'[i])
            /\ out'[i][1] \notin ToSet(g)
  BY <1>4, <1>8, <1>9, <1>10, <1>11, <1>13
<1>15. /\ Promise!IsPrefix(out, out') /\ Promise!IsPrefix(g, g')
       /\ Promise!ToSet(g) = ToSet(g)
  <2>1. \A s, t : IsPrefix(s, t) <=> Promise!IsPrefix(s, t)
    BY DEF IsPrefix, Promise!IsPrefix
  <2> QED
    BY <2>1, <1>14 DEF ToSet, Promise!ToSet
<1> QED
  BY <1>14, <1>15 DEF Promise!Advance, g

\* The refinement: what the data callback gets is in order, without duplicates,
\* only data of the stream, and nothing of a block after it was reported done;
\* each step of the decoder is one step of that promise or changes nothing of it.
THEOREM DeliversInOrderAlways == Spec => DeliversInOrder
<1>1. Init => Promise!ODInit
  <2> SUFFICES ASSUME Init PROVE Promise!ODInit
    OBVIOUS
  <2>1. out = <<>> /\ done = <<>> /\ Len(<<>>) = 0
    BY DEF Init
  <2> QED
    BY <2>1 DEF Promise!ODInit
<1>2. DInv /\ DInv' /\ [Next]_vars => [Promise!Advance \/ Promise!Restart]_(Promise!odVars)
  <2> SUFFICES ASSUME DInv, DInv', [Next]_vars
               PROVE  Promise!Advance \/ Promise!Restart \/ UNCHANGED Promise!odVars
    OBVIOUS
  <2>1. CASE UNCHANGED vars
    BY <2>1 DEF vars, Promise!odVars
  <2>2. CASE ResetRxQueue
    <3>1. out' = <<>> /\ done' = <<>> /\ Len(<<>>) = 0
      BY <2>2 DEF ResetRxQueue
    <3> QED
      BY <3>1 DEF Promise!Restart
  <2>3. CASE StepOK
    BY <2>3, StepAdvances
  <2> QED
    BY <2>1, <2>2, <2>3, StepCases
<1> QED
  BY <1>1, <1>2, DeliveryInvariance, PTL DEF Spec, DeliversInOrder, Promise!ODSpec
=============================================================================
