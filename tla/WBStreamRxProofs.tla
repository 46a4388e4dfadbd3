-------------------------- MODULE WBStreamRxProofs --------------------------
(***************************************************************************)
(* The receiving stream, for every stream, queue size, order and number of  *)
(* arrivals: what the gap detection asks for is missing and is asked for    *)
(* once, what is received is forwarded, and the decoder only forgets        *)
(* numbers that are older than all it keeps.  Most of it is about sessions  *)
(* that nothing disturbs: with a thread of its own, only the first one.     *)
(***************************************************************************)
EXTENDS WBStreamRx, SequenceTheorems, FunctionTheorems, FiniteSetTheorems, NaturalsInduction, WellFoundedInduction, TLAPS

AirPacket == {p \in [session : Nat, packet_type : PacketType, abs : Nat, number : Nat] :
                p.abs \in IndexOf(p.packet_type)}

\* The queue and the worker hold packets of the running session as long as no
\* session began behind their back.
Clean == enable_threading => session = 0

WorkerType ==
  {Idle} \cup [pc : {"gap", "decode"}, packet : AirPacket]
         \cup [pc : {"update"}, packet : AirPacket, prev : 0..IdxMod - 1]

OfSession(p) == p.session = session

ControlInv ==
  /\ enable_threading \in BOOLEAN /\ session \in Nat /\ resetting \in BOOLEAN
  /\ queue \in Seq(AirPacket) /\ Len(queue) <= packet_queue_size
  /\ worker \in WorkerType
  /\ processed \in Seq(AirPacket)
  /\ ~enable_threading => queue = <<>> /\ worker = Idle
  /\ resetting => session # 0 /\ (~enable_threading => processed = <<>>)
  /\ Clean => \A i \in 1..Len(queue) : OfSession(queue[i])
  /\ Clean /\ worker.pc # "idle" => OfSession(worker.packet)

-----------------------------------------------------------------------------
(* The decoder *)

Numbers(o) == {o[i][2] : i \in 1..Len(o)}

\* Numbers were forgotten to make room for larger ones.
Forgotten(n, m) ==
  Cardinality(m) = FEC_DISABLED_MAX_SIZE_OF_MAP - 2 /\ \A k \in m : n < k

LateOnly(o) ==
  \A i, j \in 1..Len(o) : i < j /\ o[i] = o[j] =>
    Cardinality({n \in ToSet(SubSeq(o, 1, j)) : n[2] > o[j][2]})
      >= FEC_DISABLED_MAX_SIZE_OF_MAP - 2

KnownType(m) ==
  m \in SUBSET Nat /\ IsFiniteSet(m) /\ Cardinality(m) < FEC_DISABLED_MAX_SIZE_OF_MAP - 1

\* The map m after the numbers o were forwarded in session s.
Remembered(m, o, s) ==
  /\ \A i \in 1..Len(o) : o[i][1] = s
  /\ m \subseteq Numbers(o)
  /\ \A n \in Numbers(o) : n \notin m => Forgotten(n, m)
  /\ LateOnly(o)

DecoderInv ==
  /\ KnownType(known)
  /\ out \in Seq(Nat \X Nat)
  /\ Clean => /\ Remembered(known, out, session)
              /\ \A i \in 1..Len(processed) : processed[i].number \in Numbers(out)

-----------------------------------------------------------------------------
(* The gap detection *)

Retries == Max({1, retransmission_request_retries})

\* The packet whose requests are sent while the last number is not updated.
Ahead == IF worker.pc = "update" THEN {worker.packet} ELSE {}

\* The indices that the gap detection has seen of type t.
Seen(c, ahead, t) == Indices(c, t) \cup {p.abs : p \in {q \in ahead : q.packet_type = t}}

AskedBetween(a, i) ==
  \E k \in Index : \A j \in k..(k + MaxPerGap - 1) : j < i /\ j \in Index /\ a[j] > 0

CoveredAt(c, t, a, i) == i \in Indices(c, t) \/ a[i] > 0 \/ AskedBetween(a, i)

\* After the packets c: l is the number of the newest one, what was asked for is
\* older than a packet seen, and what is missing between two packets was asked for.
Newest(c, t, l) ==
  \E m \in Indices(c, t) : l = m % IdxMod /\ \A i \in Indices(c, t) : i <= m

AskedBelow(seen, a) == \A i \in Index : a[i] > 0 => \E x \in seen : i < x

CoveredBelow(c, seen, t, a) ==
  \A i \in Index : \A x \in seen : FirstIndex(c, t) < i /\ i < x => CoveredAt(c, t, a, i)

GapOK(c, ahead, t, f, l, a) ==
  /\ f <=> OfType(c, t) # {}
  /\ f => Newest(c, t, l)
  /\ ~f => \A p \in ahead : p.packet_type # t
  /\ AskedBelow(Seen(c, ahead, t), a)
  /\ t \in RetransmissionType => CoveredBelow(c, Seen(c, ahead, t), t, a)

AskedPairs(a) == {x \in PacketType \X Index : a[x[1]][x[2]] > 0}

Counted(n, a) ==
  /\ \A t \in PacketType : \A i \in Index : a[t][i] \in {0, Retries}
  /\ IsFiniteSet(AskedPairs(a)) /\ n = Cardinality(AskedPairs(a))

GapType ==
  /\ first \in [PacketType -> BOOLEAN] /\ last \in [PacketType -> 0..IdxMod - 1]
  /\ missing \in Nat /\ asked \in [PacketType -> [Index -> Nat]]

GapState(c, ahead, f, l, a) == \A t \in PacketType : GapOK(c, ahead, t, f[t], l[t], a[t])

\* Without retransmissions nothing is asked for.
SoundGaps(c, ahead, f, l, a, n) ==
  /\ Counted(n, a)
  /\ IF enable_retransmission THEN GapState(c, ahead, f, l, a)
     ELSE a = NothingAsked /\ ahead = {}

GapInv ==
  /\ GapType
  /\ Undisturbed =>
       /\ SoundGaps(Checked, Ahead, first, last, asked, missing)
       /\ worker.pc = "update" => worker.prev = last[worker.packet.packet_type]

IInv == ControlInv /\ DecoderInv /\ GapInv
-----------------------------------------------------------------------------
(* Indices *)

LEMMA IndexFacts ==
  /\ \A t \in PacketType : IndexOf(t) \subseteq Index
  /\ Index \subseteq Nat
  /\ \A t \in PacketType : \A i, j \in IndexOf(t) : j - i < IdxMod \div 2
  /\ \A t \in PacketType : \A i, j \in IndexOf(t) : \A k \in Int : i <= k /\ k <= j => k \in Index
<1>1. \A t \in PacketType : IndexOf(t) \subseteq Index
  BY DEF IndexOf, Index
<1>2. Index \subseteq Nat
  BY StreamAssumption DEF Index
<1>3. \A t \in PacketType : \A i, j \in IndexOf(t) :
        j - i < IdxMod \div 2 /\ i..j \subseteq IndexOf(t)
  BY StreamAssumption
<1>4. ASSUME NEW t \in PacketType, NEW i \in IndexOf(t), NEW j \in IndexOf(t), NEW k \in Int,
             i <= k, k <= j
      PROVE  k \in Index
  <2>1. i \in Nat /\ j \in Nat
    BY <1>1, <1>2
  <2>2. k \in i..j
    BY <1>4, <2>1
  <2> QED
    BY <1>1, <1>3, <2>2
<1> QED
  BY <1>1, <1>2, <1>3, <1>4

LEMMA Remainder ==
  ASSUME NEW m \in Nat \ {0}, NEW x \in Int
  PROVE  /\ x % m \in 0..(m - 1)
         /\ x = m * (x \div m) + (x % m)
         /\ x \div m \in Int
OBVIOUS

\* No multiple of m but zero is a difference of remainders.
LEMMA RemaindersClose ==
  ASSUME NEW m \in Nat \ {0}, NEW q \in Int, NEW a \in 0..(m - 1), NEW b \in 0..(m - 1),
         m * q = a - b
  PROVE  q = 0 /\ a = b
<1>1. ASSUME q >= 1 PROVE FALSE
  <2>1. m * q >= m
    BY <1>1
  <2> QED
    BY <2>1
<1>2. ASSUME q <= -1 PROVE FALSE
  <2>1. m * q <= -m
    BY <1>2
  <2> QED
    BY <2>1
<1>3. q = 0
  BY <1>1, <1>2
<1>4. m * q = 0
  BY <1>3
<1> QED
  BY <1>3, <1>4

LEMMA RemainderUnique ==
  ASSUME NEW m \in Nat \ {0}, NEW q \in Int, NEW r \in 0..(m - 1)
  PROVE  (m * q + r) % m = r
<1> DEFINE x == m * q + r
           w == x % m
           z == q - (x \div m)
<1>1. x \in Int
  OBVIOUS
<1> HIDE DEF x
<1>2. w \in 0..(m - 1) /\ x = m * (x \div m) + w /\ x \div m \in Int
  BY <1>1, Remainder
<1> HIDE DEF w
<1>3. z \in Int /\ m * z = w - r
  <2>1. m * (q - (x \div m)) = w - r
    BY <1>2 DEF x
  <2> QED
    BY <1>2, <2>1
<1> HIDE DEF z
<1>4. w = r
  BY <1>2, <1>3, RemaindersClose
<1> QED
  BY <1>4 DEF w, x

\* The signed difference of two indices on the air is that of the indices.
LEMMA SignedDiff ==
  ASSUME NEW t \in PacketType, NEW i \in IndexOf(t), NEW j \in IndexOf(t)
  PROVE  Diff(j % IdxMod, i % IdxMod) = j - i
<1> DEFINE h == IdxMod \div 2
           a == i % IdxMod
           b == j % IdxMod
           u == i \div IdxMod
           v == j \div IdxMod
           r == j - i + h
<1>1. IdxMod \in Nat \ {0} /\ IdxMod % 2 = 0
  BY WBStreamRxAssumption
<1>2. h \in Nat /\ IdxMod = h + h
  BY <1>1
<1>3. i \in Nat /\ j \in Nat /\ j - i < h /\ i - j < h
  BY IndexFacts
<1>4. /\ a \in 0..(IdxMod - 1) /\ i = IdxMod * u + a /\ u \in Int
      /\ b \in 0..(IdxMod - 1) /\ j = IdxMod * v + b /\ v \in Int
  BY <1>1, <1>3, Remainder
<1> HIDE DEF a, b, u, v, h
<1>5. r \in 0..(IdxMod - 1)
  BY <1>2, <1>3
<1>6. b - a + h = IdxMod * (u - v) + r
  <2>1. IdxMod * (u - v) = IdxMod * u - IdxMod * v
    BY <1>1, <1>4
  <2>2. IdxMod * u \in Int /\ IdxMod * v \in Int
    BY <1>1, <1>4
  <2> QED
    BY <1>2, <1>3, <1>4, <2>1, <2>2
<1> HIDE DEF r
<1>7. (IdxMod * (u - v) + r) % IdxMod = r
  <2>1. u - v \in Int
    BY <1>4
  <2> QED
    BY <1>1, <1>5, <2>1, RemainderUnique
<1>8. (b - a + h) % IdxMod = r
  BY <1>6, <1>7
<1>9. Diff(b, a) = r - h
  BY <1>8 DEF Diff, h
<1>10. r - h = j - i
  BY <1>2, <1>3 DEF r
<1> QED
  BY <1>9, <1>10 DEF a, b

LEMMA PairMax ==
  ASSUME NEW a \in Int, NEW b \in Int
  PROVE  Max({a, b}) = IF a >= b THEN a ELSE b
<1>1. \E x \in {a, b} : \A y \in {a, b} : x >= y
  <2>1. CASE a >= b
    BY <2>1
  <2>2. CASE ~(a >= b)
    BY <2>2
  <2> QED
    BY <2>1, <2>2
<1>2. Max({a, b}) \in {a, b} /\ \A y \in {a, b} : Max({a, b}) >= y
  BY <1>1 DEF Max
<1> DEFINE m == Max({a, b})
<1> HIDE DEF m
<1>3. m \in {a, b} /\ m >= a /\ m >= b
  BY <1>2 DEF m
<1>4. m = IF a >= b THEN a ELSE b
  BY <1>3
<1> QED
  BY <1>4 DEF m

LEMMA PairMin ==
  ASSUME NEW a \in Int, NEW b \in Int
  PROVE  Min({a, b}) = IF a <= b THEN a ELSE b
<1>1. \E x \in {a, b} : \A y \in {a, b} : x =< y
  <2>1. CASE a <= b
    BY <2>1
  <2>2. CASE ~(a <= b)
    BY <2>2
  <2> QED
    BY <2>1, <2>2
<1>2. Min({a, b}) \in {a, b} /\ \A y \in {a, b} : Min({a, b}) =< y
  BY <1>1 DEF Min
<1> DEFINE m == Min({a, b})
<1> HIDE DEF m
<1>3. m \in {a, b} /\ m <= a /\ m <= b
  BY <1>2 DEF m
<1>4. m = IF a <= b THEN a ELSE b
  BY <1>3
<1> QED
  BY <1>4 DEF m

LEMMA RetriesPositive == Retries \in Nat \ {0}
<1>1. retransmission_request_retries \in Int
  BY WBStreamRxAssumption
<1>2. Retries = IF 1 >= retransmission_request_retries THEN 1 ELSE retransmission_request_retries
  BY <1>1, PairMax DEF Retries
<1> QED
  BY <1>1, <1>2

LEMMA MissingCountOf ==
  ASSUME NEW d \in Int
  PROVE  /\ MissingCount(d) \in Nat /\ MissingCount(d) <= MaxPerGap
         /\ d <= 1 => MissingCount(d) = 0
         /\ d > 1 => MissingCount(d) <= d - 1
         /\ MissingCount(d) < d - 1 => MissingCount(d) = MaxPerGap
<1>1. MaxPerGap \in Nat \ {0}
  BY WBStreamRxAssumption
<1> DEFINE e == d - 1
           n == Min({e, MaxPerGap})
<1>2. e \in Int /\ e = d - 1
  OBVIOUS
<1> HIDE DEF e
<1>3. n = IF e <= MaxPerGap THEN e ELSE MaxPerGap
  BY <1>1, <1>2, PairMin
<1> HIDE DEF n
<1>4. Max({0, n}) = IF 0 >= n THEN 0 ELSE n
  BY <1>1, <1>2, <1>3, PairMax
<1>5. MissingCount(d) = Max({0, n})
  BY DEF MissingCount, n, e
<1> DEFINE x == Max({0, n})
<1> HIDE DEF x
<1>6. x = IF 0 >= n THEN 0 ELSE n
  BY <1>4 DEF x
<1>7. /\ x \in Nat /\ x <= MaxPerGap /\ (d <= 1 => x = 0) /\ (d > 1 => x <= d - 1)
      /\ (x < d - 1 => x = MaxPerGap)
  BY <1>1, <1>2, <1>3, <1>6
<1> QED
  BY <1>5, <1>7 DEF x

-----------------------------------------------------------------------------
(* Sequences of packets *)

LEMMA AirPacketFacts ==
  ASSUME NEW p \in AirPacket
  PROVE  /\ p.session \in Nat /\ p.number \in Nat /\ p.abs \in Nat
         /\ p.packet_type \in PacketType /\ p.abs \in IndexOf(p.packet_type) /\ p.abs \in Index
BY IndexFacts DEF AirPacket

LEMMA IndicesFacts ==
  ASSUME NEW c \in Seq(AirPacket), NEW t \in PacketType
  PROVE  /\ Indices(c, t) \subseteq IndexOf(t) /\ Indices(c, t) \subseteq Nat
         /\ OfType(c, t) = {} <=> Indices(c, t) = {}
<1>1. ASSUME NEW i \in OfType(c, t) PROVE c[i].abs \in IndexOf(t) /\ c[i].abs \in Nat
  <2>1. i \in 1..Len(c) /\ c[i].packet_type = t
    BY DEF OfType
  <2>2. c[i] \in AirPacket
    BY <2>1
  <2> QED
    BY <2>1, <2>2, AirPacketFacts
<1> QED
  BY <1>1 DEF Indices

LEMMA AppendedTypes ==
  ASSUME NEW c \in Seq(AirPacket), NEW p \in AirPacket, NEW t \in PacketType
  PROVE  /\ Append(c, p) \in Seq(AirPacket)
         /\ OfType(Append(c, p), t) =
              OfType(c, t) \cup (IF p.packet_type = t THEN {Len(c) + 1} ELSE {})
         /\ Indices(Append(c, p), t) =
              Indices(c, t) \cup (IF p.packet_type = t THEN {p.abs} ELSE {})
<1> DEFINE d == Append(c, p)
<1>1. /\ d \in Seq(AirPacket) /\ Len(c) \in Nat /\ Len(d) = Len(c) + 1
      /\ d[Len(c) + 1] = p /\ \A i \in 1..Len(c) : d[i] = c[i]
  OBVIOUS
<1> HIDE DEF d
<1>2. 1..Len(d) = 1..Len(c) \cup {Len(c) + 1} /\ Len(c) + 1 \notin 1..Len(c)
  BY <1>1
<1>3. OfType(d, t) = OfType(c, t) \cup (IF p.packet_type = t THEN {Len(c) + 1} ELSE {})
  BY <1>1, <1>2 DEF OfType
<1>4. \A i \in OfType(c, t) : d[i].abs = c[i].abs
  BY <1>1 DEF OfType
<1>5. Indices(d, t) = Indices(c, t) \cup (IF p.packet_type = t THEN {p.abs} ELSE {})
  BY <1>1, <1>3, <1>4 DEF Indices
<1> QED
  BY <1>1, <1>3, <1>5 DEF d

LEMMA SetMin ==
  ASSUME NEW S, S \subseteq Nat, S # {}
  PROVE  Min(S) \in S /\ \A x \in S : Min(S) <= x
<1>1. PICK m \in S : \A n \in S : ~(<<n, m>> \in OpToRel(<, Nat))
  BY WFMin, NatLessThanWellFounded
<1>2. \A n \in S : ~(n < m)
  BY <1>1 DEF OpToRel
<1>3. \E x \in S : \A y \in S : x =< y
  BY <1>2
<1> QED
  BY <1>3 DEF Min

\* A further packet does not change which one was the first.
LEMMA FirstIndexKept ==
  ASSUME NEW c \in Seq(AirPacket), NEW p \in AirPacket, NEW t \in PacketType
  PROVE  /\ OfType(c, t) # {} => FirstIndex(Append(c, p), t) = FirstIndex(c, t)
         /\ OfType(c, t) = {} /\ p.packet_type = t => FirstIndex(Append(c, p), t) = p.abs
<1> DEFINE d == Append(c, p)
           S == OfType(c, t)
           T == OfType(d, t)
<1>1. T = S \cup (IF p.packet_type = t THEN {Len(c) + 1} ELSE {})
  BY AppendedTypes
<1>2. /\ Len(c) \in Nat /\ d[Len(c) + 1] = p /\ \A i \in 1..Len(c) : d[i] = c[i]
  OBVIOUS
<1>3. S \subseteq 1..Len(c)
  BY DEF OfType
<1> HIDE DEF S, T, d
<1>0. S \subseteq Nat /\ T \subseteq Nat
  <2>1. 1..Len(c) \subseteq Nat /\ Len(c) + 1 \in Nat
    BY <1>2
  <2>2. S \subseteq Nat
    BY <1>3, <2>1
  <2> QED
    BY <1>1, <2>1, <2>2
<1>4. ASSUME S # {} PROVE Min(T) = Min(S) /\ Min(S) \in S
  <2>0. T # {}
    BY <1>1, <1>4
  <2>1. Min(S) \in S /\ \A x \in S : Min(S) <= x
    BY <1>0, <1>4, SetMin
  <2>2. Min(T) \in T /\ \A x \in T : Min(T) <= x
    BY <1>0, <2>0, SetMin
  <2>3. Min(T) <= Min(S) /\ Min(S) \in 1..Len(c)
    BY <1>1, <1>3, <2>1, <2>2
  <2>4. Min(T) # Len(c) + 1 /\ Min(T) \in Nat
    <3>1. Min(T) \in Nat
      BY <1>0, <2>2
    <3>2. Min(T) <= Min(S) /\ Min(S) <= Len(c) /\ Min(S) \in Nat
      BY <1>2, <2>3
    <3> QED
      BY <1>2, <3>1, <3>2
  <2>5. Min(T) \in S
    BY <1>1, <2>2, <2>4
  <2>6. Min(S) <= Min(T) /\ Min(T) <= Min(S)
    BY <2>1, <2>3, <2>5
  <2>7. Min(S) \in Nat /\ Min(T) \in Nat
    BY <1>0, <2>1, <2>5
  <2>8. Min(S) = Min(T)
    BY <2>6, <2>7
  <2> QED
    BY <2>1, <2>8
<1>5. ASSUME S = {}, p.packet_type = t PROVE Min(T) = Len(c) + 1
  <2>1. T = {Len(c) + 1}
    BY <1>1, <1>5
  <2>2. T # {}
    BY <2>1
  <2>3. Min(T) \in T
    BY <1>0, <2>2, SetMin
  <2> QED
    BY <2>1, <2>3
<1>6. S # {} => d[Min(T)].abs = c[Min(S)].abs
  BY <1>2, <1>3, <1>4
<1>7. S = {} /\ p.packet_type = t => d[Min(T)].abs = p.abs
  BY <1>2, <1>5
<1> QED
  BY <1>6, <1>7 DEF FirstIndex, S, T, d

-----------------------------------------------------------------------------
(* One gap check *)

Requests(p, prev) ==
  IF p.packet_type \in RetransmissionType THEN MissingCount(Diff(Idx(p), prev)) ELSE 0

Wanted(p, prev) == {p.abs - Diff(Idx(p), prev) + i : i \in 1..Requests(p, prev)}

AskedFor(a, w) == [i \in Index |-> IF i \in w THEN a[i] + Retries ELSE a[i]]

\* The packets asked for are those that follow the newest one, up to the new one.
LEMMA WantedInterval ==
  ASSUME NEW p \in AirPacket, NEW m \in IndexOf(p.packet_type)
  PROVE  LET n == Requests(p, m % IdxMod)
         IN  /\ Diff(Idx(p), m % IdxMod) = p.abs - m
             /\ n \in Nat
             /\ Wanted(p, m % IdxMod) = (m + 1)..(m + n)
             /\ n # 0 => m + n < p.abs
             /\ p.packet_type \in RetransmissionType /\ m + n < p.abs - 1 => n = MaxPerGap
             /\ (m + 1)..(m + n) \subseteq Index
<1> DEFINE n == Requests(p, m % IdxMod)
           d == Diff(Idx(p), m % IdxMod)
           q == p.abs
<1>1. q \in Nat /\ q \in IndexOf(p.packet_type) /\ p.packet_type \in PacketType /\ m \in Nat
  BY AirPacketFacts, IndexFacts
<1>2. d = q - m
  BY <1>1, SignedDiff DEF Idx
<1>3. n = IF p.packet_type \in RetransmissionType THEN MissingCount(d) ELSE 0
  BY DEF Requests
<1>4. Wanted(p, m % IdxMod) = {q - d + i : i \in 1..n}
  BY DEF Wanted
<1> HIDE DEF n, d, q
<1>5. d \in Int
  BY <1>1, <1>2
<1>6. /\ MissingCount(d) \in Nat
      /\ d <= 1 => MissingCount(d) = 0
      /\ d > 1 => MissingCount(d) <= d - 1
      /\ MissingCount(d) < d - 1 => MissingCount(d) = MaxPerGap
  BY <1>5, MissingCountOf
<1>7. n \in Nat
  BY <1>3, <1>6
<1>8. n # 0 => m + n < q
  <2> DEFINE k == MissingCount(d)
  <2> HIDE DEF k
  <2>1. /\ k \in Nat /\ (d <= 1 => k = 0) /\ (d > 1 => k <= d - 1)
    BY <1>6 DEF k
  <2>2. n = 0 \/ n = k
    BY <1>3 DEF k
  <2> QED
    BY <1>1, <1>2, <1>5, <2>1, <2>2
<1>9. p.packet_type \in RetransmissionType /\ m + n < q - 1 => n = MaxPerGap
  BY <1>1, <1>2, <1>3, <1>6, <1>7
<1>10. {q - d + i : i \in 1..n} = (m + 1)..(m + n)
  <2>1. ASSUME NEW i \in 1..n PROVE q - d + i \in (m + 1)..(m + n)
    BY <1>1, <1>2, <1>5, <1>7
  <2>2. ASSUME NEW k \in (m + 1)..(m + n) PROVE k - m \in 1..n /\ k = q - d + (k - m)
    BY <1>1, <1>2, <1>5, <1>7
  <2> QED
    BY <2>1, <2>2
<1>11. ASSUME NEW k \in (m + 1)..(m + n) PROVE k \in Index
  <2>1. k \in Int /\ m <= k /\ n # 0 /\ k <= m + n
    BY <1>1, <1>7
  <2>2. k <= q
    BY <1>1, <1>7, <1>8, <2>1
  <2> QED
    BY <1>1, <2>1, <2>2, IndexFacts
<1> QED
  BY <1>2, <1>4, <1>7, <1>8, <1>9, <1>10, <1>11 DEF n, d, q

LEMMA AskedForFacts ==
  ASSUME NEW a \in [Index -> Nat], NEW w
  PROVE  /\ AskedFor(a, w) \in [Index -> Nat]
         /\ \A i \in Index : a[i] > 0 => AskedFor(a, w)[i] > 0
         /\ \A i \in Index : i \in w => AskedFor(a, w)[i] > 0
         /\ \A i \in Index : AskedFor(a, w)[i] > 0 => a[i] > 0 \/ i \in w
<1>1. Retries \in Nat \ {0}
  BY RetriesPositive
<1>2. ASSUME NEW i \in Index
      PROVE  /\ AskedFor(a, w)[i] = IF i \in w THEN a[i] + Retries ELSE a[i]
             /\ a[i] \in Nat
             /\ AskedFor(a, w)[i] \in Nat
             /\ a[i] > 0 => AskedFor(a, w)[i] > 0
             /\ i \in w => AskedFor(a, w)[i] > 0
             /\ AskedFor(a, w)[i] > 0 => a[i] > 0 \/ i \in w
  <2>1. AskedFor(a, w)[i] = IF i \in w THEN a[i] + Retries ELSE a[i]
    BY DEF AskedFor
  <2>2. a[i] \in Nat
    OBVIOUS
  <2> QED
    BY <1>1, <2>1, <2>2
<1>3. AskedFor(a, w) \in [Index -> Nat]
  BY <1>2 DEF AskedFor
<1> QED
  BY <1>2, <1>3

LEMMA SeenCases ==
  ASSUME NEW c, NEW p, NEW t
  PROVE  /\ Seen(c, {}, t) = Indices(c, t)
         /\ p.packet_type = t => Seen(c, {p}, t) = Indices(c, t) \cup {p.abs}
         /\ p.packet_type # t => Seen(c, {p}, t) = Indices(c, t)
BY DEF Seen

\* What is asked for was not received, nor asked for before, and closes the gap.
LEMMA GapRequested ==
  ASSUME NEW p \in AirPacket, NEW c \in Seq(AirPacket), NEW l, NEW a \in [Index -> Nat],
         GapOK(c, {}, p.packet_type, TRUE, l, a)
  PROVE  LET w == Wanted(p, l)
         IN  /\ GapOK(c, {p}, p.packet_type, TRUE, l, AskedFor(a, w))
             /\ w \subseteq Index /\ \A i \in w : a[i] = 0 /\ i \notin Indices(c, p.packet_type)
             /\ IsFiniteSet(w) /\ Cardinality(w) = Requests(p, l) /\ Requests(p, l) \in Nat
<1> DEFINE t == p.packet_type
           S == Indices(c, t)
           w == Wanted(p, l)
           b == AskedFor(a, w)
           n == Requests(p, l)
           q == p.abs
<1>1. t \in PacketType /\ q \in Nat /\ q \in Index
  BY AirPacketFacts
<1>2. S \subseteq IndexOf(t) /\ S \subseteq Nat
  BY <1>1, IndicesFacts
<1>3. PICK m \in S : l = m % IdxMod /\ \A i \in S : i <= m
  BY DEF GapOK, Newest
<1>4. m \in Nat /\ m \in IndexOf(t)
  BY <1>2, <1>3
<1>5. /\ n \in Nat
      /\ w = (m + 1)..(m + n)
      /\ n # 0 => m + n < q
      /\ t \in RetransmissionType /\ m + n < q - 1 => n = MaxPerGap
      /\ w \subseteq Index
  BY <1>3, <1>4, WantedInterval
<1>6. /\ b \in [Index -> Nat]
      /\ \A i \in Index : a[i] > 0 => b[i] > 0
      /\ \A i \in Index : i \in w => b[i] > 0
      /\ \A i \in Index : b[i] > 0 => a[i] > 0 \/ i \in w
  BY AskedForFacts
<1>7. Seen(c, {}, t) = S /\ Seen(c, {p}, t) = S \cup {q}
  BY SeenCases
<1>8. \A i \in Index : a[i] > 0 => \E x \in S : i < x
  BY <1>7 DEF GapOK, AskedBelow
<1>9. Index \subseteq Nat
  BY IndexFacts
<1>10. t \in RetransmissionType => \A i \in Index : \A x \in S :
         FirstIndex(c, t) < i /\ i < x => CoveredAt(c, t, a, i)
  BY <1>7 DEF GapOK, CoveredBelow
<1>11. OfType(c, t) # {} /\ Newest(c, t, l)
  BY DEF GapOK
<1>12. MaxPerGap \in Nat \ {0}
  BY WBStreamRxAssumption
<1> HIDE DEF t, S, w, b, n, q
<1>13. \A i \in w : i \in Nat /\ m < i /\ i < q
  BY <1>1, <1>4, <1>5
<1>14. ASSUME NEW i \in w PROVE a[i] = 0 /\ i \notin S
  <2>1. i \in Index /\ a[i] \in Nat
    BY <1>5
  <2>2. ASSUME a[i] > 0 PROVE FALSE
    <3>1. PICK x \in S : i < x
      BY <1>8, <2>1, <2>2
    <3>2. x \in Nat /\ x <= m /\ i \in Nat /\ m < i
      BY <1>2, <1>3, <1>13
    <3> QED
      BY <1>4, <3>1, <3>2
  <2>3. ASSUME i \in S PROVE FALSE
    <3>1. i <= m /\ i \in Nat /\ m < i
      BY <1>3, <1>13, <2>3
    <3> QED
      BY <1>4, <3>1
  <2> QED
    BY <2>1, <2>2, <2>3
<1>15. IsFiniteSet(w) /\ Cardinality(w) = n
  <2>1. m + 1 \in Int /\ m + n \in Int
    BY <1>4, <1>5
  <2>2. /\ IsFiniteSet((m + 1)..(m + n))
        /\ Cardinality((m + 1)..(m + n)) = IF m + 1 > m + n THEN 0 ELSE (m + n) - (m + 1) + 1
    BY <2>1, FS_Interval
  <2> QED
    BY <1>4, <1>5, <2>2
<1>16. AskedBelow(S \cup {q}, b)
  <2> SUFFICES ASSUME NEW i \in Index, b[i] > 0 PROVE \E x \in S \cup {q} : i < x
    BY DEF AskedBelow
  <2>1. CASE a[i] > 0
    BY <1>8, <2>1
  <2>2. CASE i \in w
    BY <1>13, <2>2
  <2> QED
    BY <1>6, <2>1, <2>2
<1>17. ASSUME t \in RetransmissionType PROVE CoveredBelow(c, S \cup {q}, t, b)
  <2> SUFFICES ASSUME NEW i \in Index, NEW x \in S \cup {q}, FirstIndex(c, t) < i, i < x
               PROVE  CoveredAt(c, t, b, i)
    BY DEF CoveredBelow
  <2>1. i \in Nat
    BY <1>9
  <2>2. CASE i = m
    BY <1>3, <2>2 DEF CoveredAt, S
  <2>3. CASE i < m
    <3>1. CoveredAt(c, t, a, i)
      BY <1>3, <1>10, <1>17, <2>3
    <3>2. AskedBetween(a, i) => AskedBetween(b, i)
      BY <1>6 DEF AskedBetween
    <3> QED
      BY <1>6, <3>1, <3>2 DEF CoveredAt
  <2>4. CASE m < i
    <3>1. x = q /\ i < q
      <4>1. x \in S => x <= m /\ x \in Nat
        BY <1>2, <1>3
      <4> QED
        BY <1>4, <2>1, <2>4, <4>1
    <3>2. CASE i <= m + n
      <4>1. i \in w
        BY <1>4, <1>5, <2>1, <2>4, <3>2
      <4> QED
        BY <1>6, <4>1 DEF CoveredAt
    <3>3. CASE m + n < i
      <4>1. n = MaxPerGap
        BY <1>1, <1>4, <1>5, <1>17, <2>1, <3>1, <3>3
      <4>2. w = (m + 1)..(m + 1 + MaxPerGap - 1) /\ m + 1 \in w
        BY <1>4, <1>5, <1>12, <4>1
      <4>3. ASSUME NEW j \in w PROVE j < i /\ j \in Index /\ b[j] > 0
        <5>1. j \in Nat /\ j <= m + n
          BY <1>4, <1>5
        <5>2. j < i
          BY <1>4, <1>5, <2>1, <3>3, <5>1
        <5> QED
          BY <1>5, <1>6, <5>2
      <4>4. AskedBetween(b, i)
        <5>1. m + 1 \in Index
          BY <1>5, <4>2
        <5> QED
          BY <4>2, <4>3, <5>1 DEF AskedBetween
      <4> QED
        BY <4>4 DEF CoveredAt
    <3> QED
      BY <1>4, <1>5, <2>1, <3>2, <3>3
  <2> QED
    BY <1>4, <2>1, <2>2, <2>3, <2>4
<1>18. GapOK(c, {p}, t, TRUE, l, b)
  BY <1>7, <1>11, <1>16, <1>17 DEF GapOK
<1> QED
  BY <1>5, <1>14, <1>15, <1>18 DEF t, S, w, b, n

\* The late part of a check: the new packet is the newest one unless it is not.
LEMMA GapUpdated ==
  ASSUME NEW p \in AirPacket, NEW c \in Seq(AirPacket), NEW l, NEW a \in [Index -> Nat],
         GapOK(c, {p}, p.packet_type, TRUE, l, a)
  PROVE  GapOK(Append(c, p), {}, p.packet_type, TRUE,
               IF Diff(Idx(p), l) > 0 THEN Idx(p) ELSE l, a)
<1> DEFINE t == p.packet_type
           S == Indices(c, t)
           d == Append(c, p)
           T == Indices(d, t)
           q == p.abs
           k == IF Diff(Idx(p), l) > 0 THEN Idx(p) ELSE l
<1>1. t \in PacketType /\ q \in Nat /\ q \in IndexOf(t)
  BY AirPacketFacts
<1>2. S \subseteq IndexOf(t) /\ S \subseteq Nat
  BY <1>1, IndicesFacts
<1>3. PICK m \in S : l = m % IdxMod /\ \A i \in S : i <= m
  BY DEF GapOK, Newest
<1>4. m \in Nat /\ m \in IndexOf(t)
  BY <1>2, <1>3
<1>5. Diff(Idx(p), l) = q - m /\ Idx(p) = q % IdxMod
  BY <1>1, <1>3, <1>4, SignedDiff DEF Idx
<1>6. T = S \cup {q} /\ OfType(d, t) # {}
  <2>1. /\ OfType(d, t) = OfType(c, t) \cup (IF p.packet_type = t THEN {Len(c) + 1} ELSE {})
        /\ T = S \cup (IF p.packet_type = t THEN {q} ELSE {})
    BY <1>1, AppendedTypes
  <2>2. p.packet_type = t
    OBVIOUS
  <2> HIDE DEF d, T, S
  <2> QED
    BY <2>1, <2>2
<1>7. OfType(c, t) # {} /\ FirstIndex(d, t) = FirstIndex(c, t)
  BY <1>1, FirstIndexKept DEF GapOK
<1>8. Seen(c, {p}, t) = S \cup {q} /\ Seen(d, {}, t) = T
  BY SeenCases
<1>9. AskedBelow(S \cup {q}, a)
  BY <1>8 DEF GapOK
<1>10. t \in RetransmissionType => \A i \in Index : \A x \in S \cup {q} :
         FirstIndex(c, t) < i /\ i < x => CoveredAt(c, t, a, i)
  BY <1>8 DEF GapOK, CoveredBelow
<1>11. \A i : CoveredAt(c, t, a, i) => CoveredAt(d, t, a, i)
  BY <1>6 DEF CoveredAt
<1> HIDE DEF t, S, d, T, q
<1>12. Newest(d, t, k)
  <2>1. CASE q - m > 0
    <3>1. k = q % IdxMod
      BY <1>5, <2>1
    <3>2. ASSUME NEW i \in T PROVE i <= q
      <4>1. i \in S => i <= m /\ i \in Nat
        BY <1>2, <1>3
      <4> QED
        BY <1>1, <1>4, <1>6, <2>1, <4>1
    <3> QED
      BY <1>6, <3>1, <3>2 DEF Newest, T
  <2>2. CASE ~(q - m > 0)
    <3>1. k = m % IdxMod
      BY <1>3, <1>5, <2>2
    <3>2. ASSUME NEW i \in T PROVE i <= m
      <4>1. i \in S => i <= m /\ i \in Nat
        BY <1>2, <1>3
      <4> QED
        BY <1>1, <1>4, <1>6, <2>2, <4>1
    <3> QED
      BY <1>3, <1>6, <3>1, <3>2 DEF Newest, T
  <2> QED
    BY <2>1, <2>2
<1>13. t \in RetransmissionType => CoveredBelow(d, T, t, a)
  BY <1>6, <1>7, <1>10, <1>11 DEF CoveredBelow
<1>14. AskedBelow(T, a)
  BY <1>6, <1>9
<1>15. GapOK(d, {}, t, TRUE, k, a)
  BY <1>6, <1>8, <1>12, <1>13, <1>14 DEF GapOK
<1> QED
  BY <1>15 DEF t, d, k

\* The first packet of a type.
LEMMA GapStarted ==
  ASSUME NEW p \in AirPacket, NEW c \in Seq(AirPacket), NEW l, NEW a \in [Index -> Nat],
         GapOK(c, {}, p.packet_type, FALSE, l, a)
  PROVE  GapOK(Append(c, p), {}, p.packet_type, TRUE, Idx(p), a)
<1> DEFINE t == p.packet_type
           d == Append(c, p)
           q == p.abs
<1>1. t \in PacketType /\ q \in Nat
  BY AirPacketFacts
<1>2. OfType(c, t) = {} /\ Indices(c, t) = {}
  BY <1>1, IndicesFacts DEF GapOK
<1>3. OfType(d, t) # {} /\ Indices(d, t) = {q}
  BY <1>1, <1>2, AppendedTypes
<1>4. FirstIndex(d, t) = q
  BY <1>1, <1>2, FirstIndexKept
<1>5. Seen(c, {}, t) = {} /\ Seen(d, {}, t) = {q}
  BY <1>2, <1>3, SeenCases
<1>6. \A i \in Index : ~(a[i] > 0)
  BY <1>5 DEF GapOK, AskedBelow
<1>7. Idx(p) = q % IdxMod
  BY DEF Idx
<1> HIDE DEF t, d, q
<1>8. Newest(d, t, Idx(p))
  BY <1>1, <1>3, <1>7 DEF Newest
<1>9. AskedBelow({q}, a)
  BY <1>6 DEF AskedBelow
<1>10. CoveredBelow(d, {q}, t, a)
  <2> SUFFICES ASSUME NEW i \in Index, FirstIndex(d, t) < i, i < q PROVE FALSE
    BY DEF CoveredBelow
  <2>1. i \in Nat
    BY IndexFacts
  <2> QED
    BY <1>1, <1>4, <2>1
<1>11. GapOK(d, {}, t, TRUE, Idx(p), a)
  BY <1>3, <1>5, <1>8, <1>9, <1>10 DEF GapOK
<1> QED
  BY <1>11 DEF t, d

\* A packet of another type.
LEMMA GapUntouched ==
  ASSUME NEW p \in AirPacket, NEW c \in Seq(AirPacket), NEW t \in PacketType,
         p.packet_type # t, NEW f \in BOOLEAN, NEW l, NEW a
  PROVE  /\ GapOK(c, {}, t, f, l, a) <=> GapOK(c, {p}, t, f, l, a)
         /\ GapOK(c, {}, t, f, l, a) => GapOK(Append(c, p), {}, t, f, l, a)
<1> DEFINE d == Append(c, p)
<1>1. OfType(d, t) = OfType(c, t) /\ Indices(d, t) = Indices(c, t)
  <2>1. /\ OfType(d, t) = OfType(c, t) \cup (IF p.packet_type = t THEN {Len(c) + 1} ELSE {})
        /\ Indices(d, t) = Indices(c, t) \cup (IF p.packet_type = t THEN {p.abs} ELSE {})
    BY AppendedTypes
  <2> HIDE DEF d
  <2> QED
    BY <2>1
<1>2. OfType(c, t) # {} => FirstIndex(d, t) = FirstIndex(c, t)
  BY FirstIndexKept
<1>3. /\ Seen(c, {}, t) = Indices(c, t) /\ Seen(c, {p}, t) = Indices(c, t)
      /\ Seen(d, {}, t) = Indices(d, t)
  BY SeenCases
<1>4. OfType(c, t) = {} => Indices(c, t) = {}
  BY IndicesFacts
<1> HIDE DEF d
<1>5. CoveredBelow(c, Indices(c, t), t, a) => CoveredBelow(d, Indices(c, t), t, a)
  BY <1>1, <1>2, <1>4 DEF CoveredBelow, CoveredAt
<1>6. Newest(c, t, l) => Newest(d, t, l)
  BY <1>1 DEF Newest
<1>7. GapOK(c, {}, t, f, l, a) <=> GapOK(c, {p}, t, f, l, a)
  BY <1>3 DEF GapOK
<1>8. GapOK(c, {}, t, f, l, a) => GapOK(d, {}, t, f, l, a)
  BY <1>1, <1>3, <1>5, <1>6 DEF GapOK
<1> QED
  BY <1>7, <1>8 DEF d

-----------------------------------------------------------------------------
(* The map of the decoder *)

LEMMA Paired ==
  ASSUME NEW x, NEW S, IsFiniteSet(S)
  PROVE  IsFiniteSet({<<x, i>> : i \in S}) /\ Cardinality({<<x, i>> : i \in S}) = Cardinality(S)
<1> DEFINE T == {<<x, i>> : i \in S}
           f == [i \in S |-> <<x, i>>]
<1>1. f \in Bijection(S, T)
  BY DEF Bijection, Injection, Surjection, IsInjective
<1>2. ExistsBijection(S, T)
  BY <1>1 DEF ExistsBijection
<1> HIDE DEF T
<1>3. IsFiniteSet(T) /\ Cardinality(T) = Cardinality(S)
  BY <1>2, FS_Bijection
<1> QED
  BY <1>3 DEF T

LEMMA SequenceSet ==
  ASSUME NEW D, NEW o \in Seq(D)
  PROVE  IsFiniteSet(ToSet(o)) /\ ToSet(o) = {o[i] : i \in 1..Len(o)}
<1>1. DOMAIN o = 1..Len(o) /\ Len(o) \in Nat /\ o \in [1..Len(o) -> D]
  OBVIOUS
<1>2. ToSet(o) = {o[i] : i \in 1..Len(o)}
  BY <1>1 DEF ToSet
<1>3. o \in Surjection(1..Len(o), ToSet(o))
  BY <1>1, <1>2 DEF Surjection
<1>4. IsFiniteSet(1..Len(o))
  BY <1>1, FS_Interval
<1>5. IsFiniteSet(ToSet(o))
  BY <1>3, <1>4, FS_Surjection
<1> QED
  BY <1>2, <1>5

\* A full map forgets its smallest number.
LEMMA HousekeptCases ==
  ASSUME NEW m, KnownType(m), NEW x \in Nat
  PROVE  LET k == m \cup {x}
             h == Housekept(k)
         IN  /\ KnownType(h) /\ h \subseteq k
             /\ x \in m => h = m
             /\ x \notin m =>
                  \/ h = k /\ Cardinality(m) < FEC_DISABLED_MAX_SIZE_OF_MAP - 2
                  \/ /\ Cardinality(h) = FEC_DISABLED_MAX_SIZE_OF_MAP - 2
                     /\ \E least \in k : h = k \ {least} /\ \A y \in h : least < y
<1> DEFINE M == FEC_DISABLED_MAX_SIZE_OF_MAP
           k == m \cup {x}
           h == Housekept(k)
<1>1. M \in Nat /\ M > 2
  BY WBStreamRxAssumption
<1>2. m \subseteq Nat /\ IsFiniteSet(m) /\ Cardinality(m) < M - 1 /\ Cardinality(m) \in Nat
  BY FS_CardinalityType DEF KnownType
<1>3. /\ IsFiniteSet(k) /\ k \subseteq Nat /\ k # {}
      /\ Cardinality(k) = IF x \in m THEN Cardinality(m) ELSE Cardinality(m) + 1
  BY <1>2, FS_AddElement
<1>4. h = IF Cardinality(k) >= M - 1 THEN k \ {Min(k)} ELSE k
  BY DEF Housekept
<1>5. x \in m => k = m
  OBVIOUS
<1>6. Min(k) \in k /\ \A y \in k : Min(k) <= y
  BY <1>3, SetMin
<1>7. IsFiniteSet(k \ {Min(k)}) /\ Cardinality(k \ {Min(k)}) = Cardinality(k) - 1
  BY <1>3, <1>6, FS_RemoveElement
<1> HIDE DEF M, k, h
<1>8. CASE x \in m
  <2>1. Cardinality(k) = Cardinality(m) /\ ~(Cardinality(k) >= M - 1)
    BY <1>1, <1>2, <1>3, <1>8
  <2>2. h = m
    BY <1>4, <1>5, <1>8, <2>1
  <2> QED
    BY <1>5, <1>8, <2>2 DEF k, h
<1>9. CASE x \notin m /\ Cardinality(m) < M - 2
  <2>1. Cardinality(k) = Cardinality(m) + 1 /\ ~(Cardinality(k) >= M - 1)
    BY <1>1, <1>2, <1>3, <1>9
  <2>2. h = k
    BY <1>4, <2>1
  <2>3. KnownType(h)
    BY <1>1, <1>2, <1>3, <2>1, <2>2 DEF KnownType, M
  <2> QED
    BY <1>9, <2>2, <2>3 DEF k, h, M
<1>10. CASE x \notin m /\ ~(Cardinality(m) < M - 2)
  <2>1. Cardinality(k) = M - 1
    BY <1>1, <1>2, <1>3, <1>10
  <2>2. h = k \ {Min(k)} /\ Cardinality(h) = M - 2 /\ IsFiniteSet(h)
    BY <1>1, <1>4, <1>7, <2>1
  <2>3. ASSUME NEW y \in h PROVE Min(k) < y
    <3>1. y \in k /\ y # Min(k) /\ Min(k) <= y /\ y \in Nat /\ Min(k) \in Nat
      BY <1>3, <1>6, <2>2
    <3> QED
      BY <3>1
  <2>4. KnownType(h)
    <3>1. h \subseteq Nat
      BY <1>3, <2>2
    <3>2. Cardinality(h) < M - 1
      BY <1>1, <2>2
    <3> QED
      BY <2>2, <3>1, <3>2 DEF KnownType, M
  <2>5. \E least \in k : h = k \ {least} /\ \A y \in h : least < y
    BY <1>6, <2>2, <2>3
  <2> QED
    BY <1>10, <2>2, <2>4, <2>5 DEF k, h, M
<1> QED
  BY <1>8, <1>9, <1>10

\* A number is only forwarded a second time after it was forgotten.
LEMMA LateAppended ==
  ASSUME NEW o \in Seq(Nat \X Nat), NEW m, KnownType(m), NEW s \in Nat, NEW x \in Nat,
         Remembered(m, o, s), x \notin m
  PROVE  LateOnly(Append(o, <<s, x>>))
<1> DEFINE M == FEC_DISABLED_MAX_SIZE_OF_MAP
           e == <<s, x>>
           p == Append(o, e)
           n == Len(o)
           Later(q, j) == {y \in ToSet(SubSeq(q, 1, j)) : y[2] > q[j][2]}
<1>1. e \in Nat \X Nat /\ e[1] = s /\ e[2] = x
  OBVIOUS
<1>2. /\ p \in Seq(Nat \X Nat) /\ n \in Nat /\ Len(p) = n + 1
      /\ p[n + 1] = e /\ \A i \in 1..n : p[i] = o[i]
  BY <1>1
<1>3. M \in Nat /\ M > 2
  BY WBStreamRxAssumption
<1>4. \A j \in 1..n : SubSeq(p, 1, j) = SubSeq(o, 1, j)
  BY <1>2
<1>5. SubSeq(p, 1, n + 1) = p
  BY <1>2
<1>6. \A k \in m : <<s, k>> \in ToSet(o) /\ k \in Nat
  <2> SUFFICES ASSUME NEW k \in m PROVE <<s, k>> \in ToSet(o) /\ k \in Nat
    OBVIOUS
  <2>1. k \in Numbers(o) /\ k \in Nat
    BY DEF Remembered, KnownType
  <2>2. PICK a \in 1..Len(o) : o[a][2] = k
    BY <2>1 DEF Numbers
  <2>3. o[a] \in Nat \X Nat /\ o[a][1] = s
    BY DEF Remembered
  <2>4. o[a] = <<s, k>>
    BY <2>2, <2>3
  <2> QED
    BY <2>1, <2>4, SequenceSet
<1>7. IsFiniteSet(ToSet(p)) /\ ToSet(o) \subseteq ToSet(p)
  <2>1. IsFiniteSet(ToSet(p)) /\ ToSet(p) = {p[i] : i \in 1..Len(p)} /\ ToSet(o) = {o[i] : i \in 1..n}
    BY <1>2, SequenceSet
  <2>2. \A i \in 1..n : i \in 1..Len(p)
    BY <1>2
  <2> QED
    BY <1>2, <2>1, <2>2
<1>8. /\ \A i, j \in 1..n : i < j /\ o[i] = o[j] => Cardinality(Later(o, j)) >= M - 2
      /\ x \in Numbers(o) => Cardinality(m) = M - 2 /\ \A k \in m : x < k
  BY DEF Remembered, LateOnly, Forgotten
<1> HIDE DEF M, e, p, n
<1> SUFFICES ASSUME NEW i \in 1..(n + 1), NEW j \in 1..(n + 1), i < j, p[i] = p[j]
             PROVE  Cardinality(Later(p, j)) >= M - 2
  BY <1>2 DEF LateOnly, p, e, M
<1>9. i \in 1..n /\ p[i] = o[i]
  <2>1. n \in Nat
    BY <1>2
  <2>2. i \in Int /\ j \in Int /\ 1 <= i /\ j <= n + 1
    BY <2>1
  <2>3. i \in 1..n
    BY <2>1, <2>2
  <2> QED
    BY <1>2, <2>3
<1>10. CASE j \in 1..n
  <2>1. o[i] = o[j] /\ p[j] = o[j]
    BY <1>2, <1>9, <1>10
  <2>2. Later(p, j) = Later(o, j)
    BY <1>4, <1>10, <2>1
  <2> QED
    BY <1>8, <1>9, <1>10, <2>1, <2>2
<1>11. CASE j = n + 1
  <2>1. o[i] = e /\ p[j] = e
    BY <1>2, <1>9, <1>11
  <2>2. x \in Numbers(o)
    BY <1>1, <1>9, <2>1 DEF Numbers, n
  <2>3. Cardinality(m) = M - 2 /\ \A k \in m : x < k
    BY <1>8, <2>2
  <2> DEFINE T == {<<s, k>> : k \in m}
             L == {y \in ToSet(p) : y[2] > x}
  <2>4. IsFiniteSet(T) /\ Cardinality(T) = Cardinality(m)
    BY Paired DEF KnownType
  <2>5. \A k \in m : <<s, k>> \in ToSet(p) /\ k > x
    BY <1>6, <1>7, <2>3
  <2>6. T \subseteq L /\ L \subseteq ToSet(p)
    BY <2>5
  <2>7. Later(p, j) = L
    BY <1>1, <1>5, <1>11, <2>1
  <2> HIDE DEF T, L, Later
  <2>8. IsFiniteSet(L)
    BY <1>7, <2>6, FS_Subset
  <2>9. Cardinality(T) <= Cardinality(L) /\ Cardinality(L) \in Nat
    BY <2>6, <2>8, FS_Subset, FS_CardinalityType
  <2> QED
    BY <1>3, <2>3, <2>4, <2>7, <2>9
<1> HIDE DEF Later
<1>12. j \in 1..n \/ j = n + 1
  <2>1. n \in Nat
    BY <1>2
  <2> QED
    BY <2>1
<1> QED
  BY <1>10, <1>11, <1>12

\* A packet that the decoder gets was forwarded, now or before.
LEMMA Decoded ==
  ASSUME NEW o \in Seq(Nat \X Nat), NEW m, KnownType(m), NEW s \in Nat, NEW x \in Nat,
         Remembered(m, o, s)
  PROVE  LET q == IF x \in m THEN o ELSE Append(o, <<s, x>>)
         IN  /\ Remembered(Housekept(m \cup {x}), q, s)
             /\ Numbers(o) \subseteq Numbers(q) /\ x \in Numbers(q)
<1> DEFINE M == FEC_DISABLED_MAX_SIZE_OF_MAP
           k == m \cup {x}
           h == Housekept(k)
           e == <<s, x>>
           q == IF x \in m THEN o ELSE Append(o, e)
<1>1. /\ h \subseteq k
      /\ x \in m => h = m
      /\ x \notin m =>
           \/ h = k /\ Cardinality(m) < M - 2
           \/ /\ Cardinality(h) = M - 2
              /\ \E least \in k : h = k \ {least} /\ \A y \in h : least < y
  BY HousekeptCases
<1>2. e \in Nat \X Nat /\ e[1] = s /\ e[2] = x
  OBVIOUS
<1>3. /\ \A i \in 1..Len(o) : o[i][1] = s
      /\ m \subseteq Numbers(o)
      /\ \A n \in Numbers(o) : n \notin m => Forgotten(n, m)
      /\ LateOnly(o)
  BY DEF Remembered
<1>4. m \subseteq Nat /\ Cardinality(m) \in Nat
  BY FS_CardinalityType DEF KnownType
<1>5. M \in Nat
  BY WBStreamRxAssumption
<1>6. Numbers(o) \subseteq Nat
  <2>1. \A i \in 1..Len(o) : o[i] \in Nat \X Nat
    OBVIOUS
  <2> QED
    BY <2>1 DEF Numbers
<1>7. CASE x \in m
  <2>1. q = o /\ h = m
    BY <1>1, <1>7
  <2> QED
    BY <1>3, <1>7, <2>1
<1>8. CASE x \notin m
  <2> DEFINE p == Append(o, e)
  <2>1. /\ Len(o) \in Nat /\ Len(p) = Len(o) + 1 /\ p[Len(o) + 1] = e
        /\ \A i \in 1..Len(o) : p[i] = o[i]
    BY <1>2
  <2>2. LateOnly(p)
    BY <1>8, LateAppended
  <2>3. q = p
    BY <1>8
  <2> HIDE DEF p, e, q, h, k
  <2>4. 1..Len(p) = 1..Len(o) \cup {Len(o) + 1}
    BY <2>1
  <2>5. Numbers(p) = Numbers(o) \cup {x}
    <3>1. \A i \in 1..Len(o) : p[i][2] = o[i][2]
      BY <2>1
    <3>2. p[Len(o) + 1][2] = x
      BY <1>2, <2>1
    <3>3. Numbers(p) = {p[i][2] : i \in 1..Len(o)} \cup {p[Len(o) + 1][2]}
      BY <2>4 DEF Numbers
    <3>4. {p[i][2] : i \in 1..Len(o)} = {o[i][2] : i \in 1..Len(o)}
      BY <3>1
    <3> QED
      BY <3>2, <3>3, <3>4 DEF Numbers
  <2>6. \A i \in 1..Len(p) : p[i][1] = s
    BY <1>2, <1>3, <2>1, <2>4
  <2>7. h \subseteq Numbers(p)
    BY <1>1, <1>3, <2>5 DEF k
  <2>8. ASSUME NEW n \in Numbers(p), n \notin h PROVE Forgotten(n, h)
    <3>1. CASE h = k /\ Cardinality(m) < M - 2
      <4>1. n \notin m /\ n # x
        BY <2>8, <3>1 DEF k
      <4>2. Forgotten(n, m)
        BY <1>3, <2>5, <2>8, <4>1
      <4> QED
        BY <1>4, <1>5, <3>1, <4>2 DEF Forgotten, M
    <3>2. CASE /\ Cardinality(h) = M - 2
               /\ \E least \in k : h = k \ {least} /\ \A y \in h : least < y
      <4>1. PICK least \in k : h = k \ {least} /\ \A y \in h : least < y
        BY <3>2
      <4>2. k \subseteq Nat
        BY <1>4 DEF k
      <4>3. CASE n = least
        BY <3>2, <4>1, <4>3 DEF Forgotten, M
      <4>4. CASE n # least
        <5>1. n \notin k
          BY <2>8, <4>1, <4>4
        <5>2. n \in Nat /\ Forgotten(n, m)
          BY <1>3, <1>6, <2>5, <2>8, <5>1 DEF k
        <5>3. \A y \in m : n < y
          BY <5>2 DEF Forgotten
        <5>4. Cardinality(m) = M - 2
          BY <5>2 DEF Forgotten, M
        <5>5. ASSUME NEW y \in h PROVE n < y
          <6>1. CASE y \in m
            BY <5>3, <6>1
          <6>2. CASE y = x /\ least \in m
            <7>1. n < least /\ least < x
              BY <4>1, <5>3, <6>2
            <7> QED
              BY <4>2, <5>2, <6>2, <7>1
          <6>3. CASE y = x /\ least \notin m
            <7>1. least = x
              BY <6>3 DEF k
            <7> QED
              BY <4>1, <6>3, <7>1
          <6> QED
            BY <1>1, <6>1, <6>2, <6>3 DEF k
        <5> QED
          BY <3>2, <5>5 DEF Forgotten, M
      <4> QED
        BY <4>3, <4>4
    <3> QED
      BY <1>1, <1>8, <3>1, <3>2
  <2>9. Remembered(h, p, s)
    BY <2>2, <2>6, <2>7, <2>8 DEF Remembered
  <2>10. Numbers(o) \subseteq Numbers(q) /\ x \in Numbers(q) /\ Remembered(h, q, s)
    BY <2>3, <2>5, <2>9
  <2> QED
    BY <2>10 DEF q, h, k, e
<1> QED
  BY <1>7, <1>8

-----------------------------------------------------------------------------
(* The gap detection of all types *)

\* Requests for packets that were not asked for before count them.
LEMMA CountedMore ==
  ASSUME NEW a \in [PacketType -> [Index -> Nat]], NEW n \in Nat, Counted(n, a),
         NEW t \in PacketType, NEW w, w \subseteq Index, IsFiniteSet(w),
         \A i \in w : a[t][i] = 0
  PROVE  LET b == [a EXCEPT ![t] = AskedFor(a[t], w)]
         IN  b \in [PacketType -> [Index -> Nat]] /\ Counted(n + Cardinality(w), b)
<1> DEFINE b == [a EXCEPT ![t] = AskedFor(a[t], w)]
           A == AskedPairs(a)
           B == AskedPairs(b)
           W == {<<t, i>> : i \in w}
<1>1. a[t] \in [Index -> Nat]
  OBVIOUS
<1>2. AskedFor(a[t], w) \in [Index -> Nat]
  BY <1>1, AskedForFacts
<1>3. /\ b \in [PacketType -> [Index -> Nat]] /\ b[t] = AskedFor(a[t], w)
      /\ \A u \in PacketType : u # t => b[u] = a[u]
  BY <1>2
<1>4. /\ \A i \in Index : b[t][i] > 0 <=> a[t][i] > 0 \/ i \in w
      /\ \A i \in Index : b[t][i] = IF i \in w THEN a[t][i] + Retries ELSE a[t][i]
  <2>1. /\ \A i \in Index : a[t][i] > 0 => AskedFor(a[t], w)[i] > 0
        /\ \A i \in Index : i \in w => AskedFor(a[t], w)[i] > 0
        /\ \A i \in Index : AskedFor(a[t], w)[i] > 0 => a[t][i] > 0 \/ i \in w
    BY <1>1, AskedForFacts
  <2>2. \A i \in Index : AskedFor(a[t], w)[i] = IF i \in w THEN a[t][i] + Retries ELSE a[t][i]
    BY DEF AskedFor
  <2> HIDE DEF b
  <2> QED
    BY <1>3, <2>1, <2>2
<1>5. /\ \A u \in PacketType : \A i \in Index : a[u][i] \in {0, Retries}
      /\ IsFiniteSet(A) /\ n = Cardinality(A)
  BY DEF Counted
<1>6. Retries \in Nat
  BY RetriesPositive
<1> HIDE DEF b
<1>7. \A u \in PacketType : \A i \in Index : b[u][i] \in {0, Retries}
  <2> SUFFICES ASSUME NEW u \in PacketType, NEW i \in Index PROVE b[u][i] \in {0, Retries}
    OBVIOUS
  <2>1. CASE u # t
    BY <1>3, <1>5, <2>1
  <2>2. CASE u = t /\ i \in w
    <3>1. b[t][i] = a[t][i] + Retries /\ a[t][i] = 0
      BY <1>4, <2>2
    <3>2. b[t][i] = Retries
      BY <1>6, <3>1
    <3> QED
      BY <2>2, <3>2
  <2>3. CASE u = t /\ i \notin w
    BY <1>4, <1>5, <2>3
  <2> QED
    BY <2>1, <2>2, <2>3
<1>8. B = A \cup W
  <2>1. ASSUME NEW x \in PacketType \X Index PROVE x \in B <=> x \in A \/ x \in W
    <3>1. x[1] \in PacketType /\ x[2] \in Index /\ x = <<x[1], x[2]>>
      OBVIOUS
    <3>2. x \in W <=> x[1] = t /\ x[2] \in w
      BY <3>1
    <3>3. x \in B <=> b[x[1]][x[2]] > 0
      BY DEF AskedPairs
    <3>4. x \in A <=> a[x[1]][x[2]] > 0
      BY DEF AskedPairs
    <3> HIDE DEF A, B, W
    <3> QED
      BY <1>3, <1>4, <3>1, <3>2, <3>3, <3>4
  <2>2. A \subseteq PacketType \X Index /\ B \subseteq PacketType \X Index
    BY DEF AskedPairs
  <2>3. W \subseteq PacketType \X Index
    OBVIOUS
  <2> HIDE DEF A, B, W
  <2> QED
    BY <2>1, <2>2, <2>3
<1>9. A \cap W = {}
  <2> SUFFICES ASSUME NEW i \in w, <<t, i>> \in A PROVE FALSE
    OBVIOUS
  <2>1. a[t][i] > 0
    BY DEF AskedPairs
  <2> QED
    BY <2>1
<1>10. IsFiniteSet(W) /\ Cardinality(W) = Cardinality(w)
  BY Paired
<1> HIDE DEF A, B, W
<1>11. IsFiniteSet(B) /\ Cardinality(B) = n + Cardinality(w)
  <2>1. IsFiniteSet(A \cup W) /\ Cardinality(A \cup W) = Cardinality(A) + Cardinality(W) - Cardinality(A \cap W)
    BY <1>5, <1>10, FS_Union
  <2>2. Cardinality(A \cap W) = 0
    BY <1>9, FS_EmptySet
  <2>3. Cardinality(w) \in Nat
    BY FS_CardinalityType
  <2> QED
    BY <1>5, <1>8, <1>10, <2>1, <2>2, <2>3
<1>12. Counted(n + Cardinality(w), b)
  BY <1>7, <1>11 DEF Counted, B
<1> QED
  BY <1>3, <1>12 DEF b

\* The first statements of a check: the requests.
LEMMA StateRequested ==
  ASSUME NEW p \in AirPacket, NEW c \in Seq(AirPacket), NEW f \in [PacketType -> BOOLEAN],
         NEW l \in [PacketType -> 0..IdxMod - 1], NEW a \in [PacketType -> [Index -> Nat]],
         NEW n \in Nat, GapState(c, {}, f, l, a), Counted(n, a), f[p.packet_type]
  PROVE  LET w == Wanted(p, l[p.packet_type])
             b == [a EXCEPT ![p.packet_type] = AskedFor(a[p.packet_type], w)]
         IN  /\ GapState(c, {p}, f, l, b)
             /\ Counted(n + Requests(p, l[p.packet_type]), b)
             /\ \A t \in PacketType : \A i \in Index : b[t][i] > a[t][i] => i \notin Indices(c, t)
<1> DEFINE u == p.packet_type
           w == Wanted(p, l[u])
           b == [a EXCEPT ![u] = AskedFor(a[u], w)]
<1>1. u \in PacketType
  BY AirPacketFacts
<1>2. a[u] \in [Index -> Nat] /\ f[u] = TRUE
  BY <1>1
<1>3. GapOK(c, {}, u, TRUE, l[u], a[u])
  BY <1>1, <1>2 DEF GapState
<1>4. /\ GapOK(c, {p}, u, TRUE, l[u], AskedFor(a[u], w))
      /\ w \subseteq Index /\ \A i \in w : a[u][i] = 0 /\ i \notin Indices(c, u)
      /\ IsFiniteSet(w) /\ Cardinality(w) = Requests(p, l[u])
  <2> DEFINE x == a[u]
             y == l[u]
  <2>1. x \in [Index -> Nat] /\ GapOK(c, {}, u, TRUE, y, x)
    BY <1>2, <1>3
  <2> HIDE DEF x, y
  <2>2. /\ GapOK(c, {p}, u, TRUE, y, AskedFor(x, Wanted(p, y)))
        /\ Wanted(p, y) \subseteq Index
        /\ \A i \in Wanted(p, y) : x[i] = 0 /\ i \notin Indices(c, u)
        /\ IsFiniteSet(Wanted(p, y)) /\ Cardinality(Wanted(p, y)) = Requests(p, y)
    BY <2>1, GapRequested
  <2> QED
    BY <2>2 DEF x, y
<1>5. Counted(n + Requests(p, l[u]), b)
  BY <1>1, <1>4, CountedMore
<1>6. b[u] = AskedFor(a[u], w) /\ \A t \in PacketType : t # u => b[t] = a[t]
  BY <1>1
<1>7. \A i \in Index : AskedFor(a[u], w)[i] = IF i \in w THEN a[u][i] + Retries ELSE a[u][i]
  BY DEF AskedFor
<1> HIDE DEF u, w, b
<1>8. ASSUME NEW t \in PacketType PROVE GapOK(c, {p}, t, f[t], l[t], b[t])
  <2>1. CASE t = u
    BY <1>2, <1>4, <1>6, <2>1
  <2>2. CASE t # u
    <3>1. GapOK(c, {}, t, f[t], l[t], a[t]) /\ f[t] \in BOOLEAN
      BY DEF GapState
    <3>2. GapOK(c, {p}, t, f[t], l[t], a[t])
      BY <2>2, <3>1, GapUntouched DEF u
    <3> QED
      BY <1>6, <2>2, <3>2
  <2> QED
    BY <2>1, <2>2
<1>9. ASSUME NEW t \in PacketType, NEW i \in Index, b[t][i] > a[t][i]
      PROVE  i \notin Indices(c, t)
  <2>0. a[t][i] \in Nat
    OBVIOUS
  <2>1. CASE t = u /\ i \in w
    BY <1>4, <2>1
  <2>2. CASE t = u /\ i \notin w
    <3>1. b[t][i] = a[t][i]
      BY <1>6, <1>7, <2>2
    <3> QED
      BY <1>9, <2>0, <3>1
  <2>3. CASE t # u
    <3>1. b[t][i] = a[t][i]
      BY <1>6, <2>3
    <3> QED
      BY <1>9, <2>0, <3>1
  <2> QED
    BY <2>1, <2>2, <2>3
<1>10. GapState(c, {p}, f, l, b)
  BY <1>8 DEF GapState
<1> QED
  BY <1>5, <1>9, <1>10 DEF u, w, b

\* Its last statement.
LEMMA StateUpdated ==
  ASSUME NEW p \in AirPacket, NEW c \in Seq(AirPacket), NEW f \in [PacketType -> BOOLEAN],
         NEW l \in [PacketType -> 0..IdxMod - 1], NEW a \in [PacketType -> [Index -> Nat]],
         GapState(c, {p}, f, l, a)
  PROVE  LET u == p.packet_type
             new == IF Diff(Idx(p), l[u]) > 0 THEN Idx(p) ELSE l[u]
         IN  GapState(Append(c, p), {}, f, [l EXCEPT ![u] = new], a)
<1> DEFINE u == p.packet_type
           new == IF Diff(Idx(p), l[u]) > 0 THEN Idx(p) ELSE l[u]
           k == [l EXCEPT ![u] = new]
           d == Append(c, p)
<1>1. u \in PacketType
  BY AirPacketFacts
<1>2. a[u] \in [Index -> Nat] /\ f[u] \in BOOLEAN
  BY <1>1
<1>3. GapOK(c, {p}, u, f[u], l[u], a[u])
  BY <1>1 DEF GapState
<1>4. f[u] = TRUE
  BY <1>2, <1>3 DEF GapOK
<1>5. GapOK(d, {}, u, TRUE, new, a[u])
  BY <1>2, <1>3, <1>4, GapUpdated
<1>6. k[u] = new /\ \A t \in PacketType : t # u => k[t] = l[t]
  BY <1>1
<1> HIDE DEF u, new, k, d
<1>7. ASSUME NEW t \in PacketType PROVE GapOK(d, {}, t, f[t], k[t], a[t])
  <2>1. CASE t = u
    BY <1>4, <1>5, <1>6, <2>1
  <2>2. CASE t # u
    <3>1. GapOK(c, {p}, t, f[t], l[t], a[t]) /\ f[t] \in BOOLEAN
      BY DEF GapState
    <3>2. GapOK(d, {}, t, f[t], l[t], a[t])
      BY <2>2, <3>1, GapUntouched DEF u, d
    <3> QED
      BY <1>6, <2>2, <3>2
  <2> QED
    BY <2>1, <2>2
<1>8. GapState(d, {}, f, k, a)
  BY <1>7 DEF GapState
<1> QED
  BY <1>8 DEF u, new, k, d

LEMMA StateStarted ==
  ASSUME NEW p \in AirPacket, NEW c \in Seq(AirPacket), NEW f \in [PacketType -> BOOLEAN],
         NEW l \in [PacketType -> 0..IdxMod - 1], NEW a \in [PacketType -> [Index -> Nat]],
         GapState(c, {}, f, l, a), ~f[p.packet_type]
  PROVE  GapState(Append(c, p), {}, [f EXCEPT ![p.packet_type] = TRUE],
                  [l EXCEPT ![p.packet_type] = Idx(p)], a)
<1> DEFINE u == p.packet_type
           g == [f EXCEPT ![u] = TRUE]
           k == [l EXCEPT ![u] = Idx(p)]
           d == Append(c, p)
<1>1. u \in PacketType
  BY AirPacketFacts
<1>2. a[u] \in [Index -> Nat] /\ f[u] = FALSE
  BY <1>1
<1>3. GapOK(c, {}, u, FALSE, l[u], a[u])
  BY <1>1, <1>2 DEF GapState
<1>4. GapOK(d, {}, u, TRUE, Idx(p), a[u])
  BY <1>2, <1>3, GapStarted
<1>5. /\ k[u] = Idx(p) /\ \A t \in PacketType : t # u => k[t] = l[t]
      /\ g[u] = TRUE /\ \A t \in PacketType : t # u => g[t] = f[t]
  BY <1>1
<1> HIDE DEF u, g, k, d
<1>6. ASSUME NEW t \in PacketType PROVE GapOK(d, {}, t, g[t], k[t], a[t])
  <2>1. CASE t = u
    BY <1>4, <1>5, <2>1
  <2>2. CASE t # u
    <3>1. GapOK(c, {}, t, f[t], l[t], a[t]) /\ f[t] \in BOOLEAN
      BY DEF GapState
    <3>2. GapOK(d, {}, t, f[t], l[t], a[t])
      BY <2>2, <3>1, GapUntouched DEF u, d
    <3> QED
      BY <1>5, <2>2, <3>2
  <2> QED
    BY <2>1, <2>2
<1>7. GapState(d, {}, g, k, a)
  BY <1>6 DEF GapState
<1> QED
  BY <1>7 DEF u, g, k, d

-----------------------------------------------------------------------------
(* The statements of a check *)

NotReceived(c, a, b) ==
  \A t \in PacketType : \A i \in Index : b[t][i] > a[t][i] => i \notin Indices(c, t)

LEMMA NothingMore ==
  ASSUME NEW c, NEW a \in [PacketType -> [Index -> Nat]]
  PROVE  NotReceived(c, a, a)
<1> SUFFICES ASSUME NEW t \in PacketType, NEW i \in Index, a[t][i] > a[t][i] PROVE FALSE
  BY DEF NotReceived
<1>1. a[t][i] \in Nat
  OBVIOUS
<1> QED
  BY <1>1

LEMMA IdxType ==
  ASSUME NEW p \in AirPacket
  PROVE  Idx(p) \in 0..IdxMod - 1
<1>1. IdxMod \in Nat \ {0} /\ p.abs \in Int
  BY AirPacketFacts, WBStreamRxAssumption
<1> QED
  BY <1>1, Remainder DEF Idx

LEMMA RequestsSound ==
  ASSUME GapType, NEW p \in AirPacket, NEW c \in Seq(AirPacket), enable_retransmission,
         first[p.packet_type], GapRequests(p, last[p.packet_type])
  PROVE  /\ missing' \in Nat /\ asked' \in [PacketType -> [Index -> Nat]]
         /\ SoundGaps(c, {}, first, last, asked, missing) =>
              /\ SoundGaps(c, {p}, first, last, asked', missing')
              /\ NotReceived(c, asked, asked')
<1> DEFINE u == p.packet_type
           w == Wanted(p, last[u])
           b == [asked EXCEPT ![u] = AskedFor(asked[u], w)]
<1>1. u \in PacketType
  BY AirPacketFacts
<1>2. /\ first \in [PacketType -> BOOLEAN] /\ last \in [PacketType -> 0..IdxMod - 1]
      /\ missing \in Nat /\ asked \in [PacketType -> [Index -> Nat]]
  BY DEF GapType
<1>3. Diff(Idx(p), last[u]) \in Int
  <2> DEFINE x == Idx(p) - last[u] + (IdxMod \div 2)
  <2>1. Idx(p) \in Int /\ last[u] \in Int /\ IdxMod \in Nat \ {0}
    BY <1>1, <1>2, IdxType, WBStreamRxAssumption
  <2>2. IdxMod \div 2 \in Int
    BY <2>1
  <2>3. x \in Int
    BY <2>1, <2>2
  <2>4. Diff(Idx(p), last[u]) = (x % IdxMod) - (IdxMod \div 2)
    BY DEF Diff
  <2> HIDE DEF x
  <2>5. x % IdxMod \in Int
    BY <2>1, <2>3, Remainder
  <2> QED
    BY <2>2, <2>4, <2>5
<1>4. Requests(p, last[u]) \in Nat
  BY <1>3, MissingCountOf DEF Requests
<1>5. missing' = missing + Requests(p, last[u]) /\ asked' = b
  BY DEF GapRequests, Requests, Wanted, AskedFor, Retries
<1>6. missing' \in Nat /\ asked' \in [PacketType -> [Index -> Nat]]
  <2>1. asked[u] \in [Index -> Nat]
    BY <1>1, <1>2
  <2>2. AskedFor(asked[u], w) \in [Index -> Nat]
    BY <2>1, AskedForFacts
  <2>3. b \in [PacketType -> [Index -> Nat]]
    BY <1>2, <2>2
  <2>4. missing + Requests(p, last[u]) \in Nat
    BY <1>2, <1>4
  <2> HIDE DEF b
  <2> QED
    BY <1>5, <2>3, <2>4
<1>7. ASSUME SoundGaps(c, {}, first, last, asked, missing)
      PROVE  /\ SoundGaps(c, {p}, first, last, asked', missing')
             /\ NotReceived(c, asked, asked')
  <2>1. GapState(c, {}, first, last, asked) /\ Counted(missing, asked)
    BY <1>7 DEF SoundGaps
  <2>2. /\ GapState(c, {p}, first, last, b)
        /\ Counted(missing + Requests(p, last[u]), b)
        /\ \A t \in PacketType : \A i \in Index : b[t][i] > asked[t][i] => i \notin Indices(c, t)
    BY <1>2, <2>1, StateRequested
  <2> HIDE DEF b
  <2> QED
    BY <1>5, <2>2 DEF SoundGaps, NotReceived
<1> QED
  BY <1>6, <1>7

LEMMA UpdateType ==
  ASSUME GapType, NEW p \in AirPacket, NEW prev, UpdateLast(p, prev)
  PROVE  last' \in [PacketType -> 0..IdxMod - 1]
<1>1. p.packet_type \in PacketType /\ Idx(p) \in 0..IdxMod - 1
  BY AirPacketFacts, IdxType
<1>2. last \in [PacketType -> 0..IdxMod - 1]
  BY DEF GapType
<1>3. NewLast(p, prev) \in 0..IdxMod - 1
  BY <1>1, <1>2 DEF NewLast
<1> QED
  BY <1>2, <1>3 DEF UpdateLast

LEMMA UpdateSound ==
  ASSUME GapType, NEW p \in AirPacket, NEW c \in Seq(AirPacket), NEW a \in [PacketType -> [Index -> Nat]],
         NEW n, enable_retransmission, UpdateLast(p, last[p.packet_type]),
         SoundGaps(c, {p}, first, last, a, n)
  PROVE  SoundGaps(Append(c, p), {}, first, last', a, n)
<1> DEFINE u == p.packet_type
           new == IF Diff(Idx(p), last[u]) > 0 THEN Idx(p) ELSE last[u]
<1>1. /\ first \in [PacketType -> BOOLEAN] /\ last \in [PacketType -> 0..IdxMod - 1]
  BY DEF GapType
<1>2. last' = [last EXCEPT ![u] = new]
  BY DEF UpdateLast, NewLast
<1>3. GapState(c, {p}, first, last, a) /\ Counted(n, a)
  BY DEF SoundGaps
<1>4. GapState(Append(c, p), {}, first, [last EXCEPT ![u] = new], a)
  BY <1>1, <1>3, StateUpdated
<1> QED
  BY <1>2, <1>3, <1>4 DEF SoundGaps

LEMMA CheckGapSound ==
  ASSUME GapType, NEW p \in AirPacket, NEW c \in Seq(AirPacket), CheckGap(p)
  PROVE  /\ GapType'
         /\ SoundGaps(c, {}, first, last, asked, missing) =>
              /\ SoundGaps(Append(c, p), {}, first', last', asked', missing')
              /\ NotReceived(c, asked, asked')
<1> DEFINE u == p.packet_type
<1>1. u \in PacketType /\ Idx(p) \in 0..IdxMod - 1
  BY AirPacketFacts, IdxType
<1>2. /\ first \in [PacketType -> BOOLEAN] /\ last \in [PacketType -> 0..IdxMod - 1]
      /\ missing \in Nat /\ asked \in [PacketType -> [Index -> Nat]]
  BY DEF GapType
<1>3. NotReceived(c, asked, asked)
  BY <1>2, NothingMore
<1>4. CASE ~enable_retransmission
  <2>1. first' = first /\ last' = last /\ missing' = missing /\ asked' = asked
    BY <1>4 DEF CheckGap, gapVars
  <2> QED
    BY <1>2, <1>3, <1>4, <2>1 DEF GapType, SoundGaps
<1>5. CASE enable_retransmission /\ ~first[u]
  <2>1. /\ first' = [first EXCEPT ![u] = TRUE] /\ last' = [last EXCEPT ![u] = Idx(p)]
        /\ missing' = missing /\ asked' = asked
    BY <1>5 DEF CheckGap, FirstPacket
  <2>2. GapType'
    BY <1>1, <1>2, <2>1 DEF GapType
  <2>3. ASSUME SoundGaps(c, {}, first, last, asked, missing)
        PROVE  SoundGaps(Append(c, p), {}, first', last', asked', missing')
    <3>1. GapState(c, {}, first, last, asked) /\ Counted(missing, asked)
      BY <1>5, <2>3 DEF SoundGaps
    <3>2. GapState(Append(c, p), {}, [first EXCEPT ![u] = TRUE], [last EXCEPT ![u] = Idx(p)], asked)
      BY <1>2, <1>5, <3>1, StateStarted
    <3> QED
      BY <1>5, <2>1, <3>1, <3>2 DEF SoundGaps
  <2> QED
    BY <1>3, <2>1, <2>2, <2>3
<1>6. CASE enable_retransmission /\ first[u]
  <2>1. GapRequests(p, last[u]) /\ UpdateLast(p, last[u]) /\ first' = first
    BY <1>6 DEF CheckGap
  <2>2. /\ missing' \in Nat /\ asked' \in [PacketType -> [Index -> Nat]]
        /\ SoundGaps(c, {}, first, last, asked, missing) =>
             /\ SoundGaps(c, {p}, first, last, asked', missing')
             /\ NotReceived(c, asked, asked')
    BY <1>6, <2>1, RequestsSound
  <2>3. last' \in [PacketType -> 0..IdxMod - 1]
    BY <2>1, UpdateType
  <2>4. SoundGaps(c, {p}, first, last, asked', missing') =>
          SoundGaps(Append(c, p), {}, first, last', asked', missing')
    BY <1>6, <2>1, <2>2, UpdateSound
  <2> QED
    BY <1>2, <2>1, <2>2, <2>3, <2>4 DEF GapType
<1> QED
  BY <1>4, <1>5, <1>6

\* Before the first packet nothing is asked for.
LEMMA NothingSound ==
  LET f == [t \in PacketType |-> FALSE]
      l == [t \in PacketType |-> 0]
  IN  /\ f \in [PacketType -> BOOLEAN] /\ l \in [PacketType -> 0..IdxMod - 1]
      /\ NothingAsked \in [PacketType -> [Index -> Nat]]
      /\ SoundGaps(<<>>, {}, f, l, NothingAsked, 0)
<1> DEFINE f == [t \in PacketType |-> FALSE]
           l == [t \in PacketType |-> 0]
<1>1. IdxMod \in Nat \ {0}
  BY WBStreamRxAssumption
<1>2. /\ f \in [PacketType -> BOOLEAN] /\ l \in [PacketType -> 0..IdxMod - 1]
      /\ NothingAsked \in [PacketType -> [Index -> Nat]]
  BY <1>1 DEF NothingAsked
<1>3. \A t \in PacketType : \A i \in Index : NothingAsked[t][i] = 0
  BY DEF NothingAsked
<1>4. AskedPairs(NothingAsked) = {}
  BY <1>3 DEF AskedPairs
<1>5. Counted(0, NothingAsked)
  BY <1>3, <1>4, FS_EmptySet DEF Counted
<1>6. ASSUME NEW t \in PacketType PROVE GapOK(<<>>, {}, t, f[t], l[t], NothingAsked[t])
  <2>1. OfType(<<>>, t) = {}
    BY DEF OfType
  <2>2. Seen(<<>>, {}, t) = {}
    BY <2>1 DEF Seen, Indices
  <2>3. f[t] = FALSE
    OBVIOUS
  <2>4. \A i \in Index : ~(NothingAsked[t][i] > 0)
    BY <1>3
  <2> QED
    BY <2>1, <2>2, <2>3, <2>4 DEF GapOK, AskedBelow, CoveredBelow
<1>7. GapState(<<>>, {}, f, l, NothingAsked)
  BY <1>6 DEF GapState
<1> QED
  BY <1>2, <1>5, <1>7 DEF SoundGaps

-----------------------------------------------------------------------------
(* The two threads *)

LEMMA PacketsAir ==
  ASSUME session \in Nat, NEW p \in Packets
  PROVE  p \in AirPacket /\ p.session = session
<1>1. PICK q \in ToSet(Stream) :
        p = [session |-> session, packet_type |-> q.packet_type, abs |-> q.abs, number |-> q.number]
  BY DEF Packets
<1>2. q.abs \in Nat /\ q.number \in Nat
  BY StreamAssumption
<1>3. q.packet_type \in PacketType /\ q.abs \in IndexOf(q.packet_type)
  BY DEF PacketType, IndexOf
<1> QED
  BY <1>1, <1>2, <1>3 DEF AirPacket

LEMMA WorkerCases ==
  ASSUME worker \in WorkerType
  PROVE  /\ worker.pc \in {"idle", "gap", "update", "decode"}
         /\ worker.pc = "idle" <=> worker = Idle
         /\ worker.pc # "idle" => worker.packet \in AirPacket
         /\ worker.pc = "update" => worker.prev \in 0..IdxMod - 1
BY DEF WorkerType, Idle

LEMMA CheckedCases ==
  ASSUME ControlInv
  PROVE  /\ worker.pc # "decode" => Checked = processed
         /\ worker.pc = "decode" => Checked = Append(processed, worker.packet)
         /\ Checked \in Seq(AirPacket)
         /\ worker.pc = "update" => Ahead = {worker.packet}
         /\ worker.pc # "update" => Ahead = {}
<1>1. processed \in Seq(AirPacket) /\ (worker.pc = "decode" => worker.packet \in AirPacket)
  BY WorkerCases DEF ControlInv
<1>2. worker.pc # "decode" => Checked = processed
  BY <1>1 DEF Checked
<1>3. worker.pc = "decode" => Checked = Append(processed, worker.packet)
  BY <1>1 DEF Checked
<1> QED
  BY <1>1, <1>2, <1>3 DEF Ahead

LEMMA NextControl == ControlInv /\ GapType /\ [Next]_vars => ControlInv'
<1> SUFFICES ASSUME ControlInv, GapType, [Next]_vars PROVE ControlInv'
  OBVIOUS
<1> USE DEF OfSession
<1>1. /\ enable_threading \in BOOLEAN /\ session \in Nat /\ resetting \in BOOLEAN
      /\ queue \in Seq(AirPacket) /\ Len(queue) <= packet_queue_size
      /\ worker \in WorkerType
      /\ processed \in Seq(AirPacket)
      /\ ~enable_threading => queue = <<>> /\ worker = Idle
      /\ resetting => session # 0 /\ (~enable_threading => processed = <<>>)
  BY DEF ControlInv
<1>2. /\ Clean => \A i \in 1..Len(queue) : queue[i].session = session
      /\ Clean /\ worker.pc # "idle" => worker.packet.session = session
  BY DEF ControlInv
<1>3. packet_queue_size \in Nat
  BY WBStreamRxAssumption
<1>4. /\ worker.pc \in {"idle", "gap", "update", "decode"}
      /\ worker.pc = "idle" <=> worker = Idle
      /\ worker.pc # "idle" => worker.packet \in AirPacket
  BY <1>1, WorkerCases
<1>5. ASSUME NEW p \in Packets, EnqueuePacket(p) PROVE ControlInv'
  <2>1. p \in AirPacket /\ p.session = session
    BY <1>1, PacketsAir
  <2>2. /\ enable_threading' = enable_threading /\ session' = session /\ resetting' = resetting
        /\ worker' = worker /\ processed' = processed /\ enable_threading
        /\ queue' = IF Room THEN Append(queue, p) ELSE queue
    BY <1>5 DEF EnqueuePacket, Arrive, decoderVars
  <2>3. queue' \in Seq(AirPacket) /\ Len(queue') <= packet_queue_size
    <3>1. Room => Len(queue) < packet_queue_size
      BY DEF Room
    <3>2. Room => Len(Append(queue, p)) = Len(queue) + 1 /\ Append(queue, p) \in Seq(AirPacket)
      BY <1>1, <2>1
    <3>3. Len(queue) \in Nat
      BY <1>1
    <3> QED
      BY <1>1, <1>3, <2>2, <3>1, <3>2, <3>3
  <2>4. Clean' => \A i \in 1..Len(queue') : queue'[i].session = session
    <3>1. Clean' <=> Clean
      BY <2>2 DEF Clean
    <3>2. CASE Room
      <4>1. Len(queue') = Len(queue) + 1 /\ queue'[Len(queue) + 1] = p
            /\ \A i \in 1..Len(queue) : queue'[i] = queue[i]
        BY <1>1, <2>1, <2>2, <3>2
      <4>2. 1..Len(queue') = 1..Len(queue) \cup {Len(queue) + 1}
        BY <1>1, <4>1
      <4> QED
        BY <1>2, <2>1, <3>1, <4>1, <4>2
    <3>3. CASE ~Room
      BY <1>2, <2>2, <3>1, <3>3
    <3> QED
      BY <3>2, <3>3
  <2> QED
    BY <1>1, <1>2, <2>2, <2>3, <2>4 DEF ControlInv, Clean
<1>6. ASSUME NEW p \in Packets, ProcessPacket(p) PROVE ControlInv'
  <2>1. p \in AirPacket
    BY <1>1, PacketsAir
  <2>2. /\ enable_threading' = enable_threading /\ session' = session /\ resetting' = resetting
        /\ worker' = worker /\ queue' = queue /\ ~resetting
        /\ processed' = IF p.session = session THEN Append(processed, p) ELSE processed
    BY <1>6 DEF ProcessPacket, Arrive, Decode
  <2>3. processed' \in Seq(AirPacket)
    BY <1>1, <2>1, <2>2
  <2> QED
    BY <1>1, <1>2, <2>2, <2>3 DEF ControlInv, Clean
<1>7. CASE ResetDecoder
  <2>1. /\ enable_threading' = enable_threading /\ session' = session + 1 /\ resetting' = TRUE
        /\ worker' = worker /\ queue' = queue /\ processed' = <<>>
    BY <1>7 DEF ResetDecoder
  <2>2. session' \in Nat /\ session' # 0 /\ processed' \in Seq(AirPacket)
    BY <1>1, <2>1
  <2>3. Clean' => queue' = <<>> /\ worker' = Idle
    BY <1>1, <2>1, <2>2 DEF Clean
  <2>4. Clean' => \A i \in 1..Len(queue') : queue'[i].session = session'
    BY <2>3
  <2>5. Clean' => worker'.pc = "idle"
    BY <2>3 DEF Idle
  <2> QED
    BY <1>1, <2>1, <2>2, <2>4, <2>5 DEF ControlInv
<1>8. CASE ResetGaps
  <2>1. /\ enable_threading' = enable_threading /\ session' = session /\ resetting' = FALSE
        /\ worker' = worker /\ queue' = queue /\ processed' = processed
    BY <1>8 DEF ResetGaps, linkVars, decoderVars
  <2> QED
    BY <1>1, <1>2, <2>1 DEF ControlInv, Clean
<1>9. CASE Dequeue
  <2>1. /\ enable_threading' = enable_threading /\ session' = session /\ resetting' = resetting
        /\ processed' = processed /\ queue # <<>>
        /\ worker' = [pc |-> "gap", packet |-> Head(queue)] /\ queue' = Tail(queue)
    BY <1>9 DEF Dequeue, linkVars, decoderVars
  <2>2. /\ Head(queue) \in AirPacket /\ Head(queue) = queue[1] /\ 1 \in 1..Len(queue)
        /\ Tail(queue) \in Seq(AirPacket) /\ Len(Tail(queue)) = Len(queue) - 1 /\ Len(queue) \in Nat
        /\ \A i \in 1..Len(Tail(queue)) : i + 1 \in 1..Len(queue) /\ Tail(queue)[i] = queue[i + 1]
    BY <1>1, <2>1
  <2>3. worker' \in WorkerType /\ worker'.packet = Head(queue)
    BY <2>1, <2>2 DEF WorkerType
  <2>4. Clean' <=> Clean
    BY <2>1 DEF Clean
  <2>5. Clean' => \A i \in 1..Len(queue') : queue'[i].session = session'
    BY <1>2, <2>1, <2>2, <2>4
  <2>6. Clean' => worker'.packet.session = session'
    BY <1>2, <2>1, <2>2, <2>3, <2>4
  <2>7. Len(queue') <= packet_queue_size
    BY <1>1, <1>3, <2>1, <2>2
  <2> QED
    BY <1>1, <2>1, <2>2, <2>3, <2>5, <2>6, <2>7 DEF ControlInv
<1>10. ASSUME worker.pc # "idle", worker' \in WorkerType,
              worker'.pc # "idle" => worker'.packet = worker.packet,
              processed' = processed \/ processed' = Append(processed, worker.packet),
              UNCHANGED <<enable_threading, session, resetting, queue>>
       PROVE  ControlInv'
  <2>1. enable_threading /\ worker.packet \in AirPacket
    BY <1>1, <1>4, <1>10
  <2>2. processed' \in Seq(AirPacket)
    BY <1>1, <1>10, <2>1
  <2>3. Clean' <=> Clean
    BY <1>10 DEF Clean
  <2> QED
    BY <1>1, <1>2, <1>10, <2>1, <2>2, <2>3 DEF ControlInv
<1>11. CASE WorkerCheckGap
  <2>1. /\ worker.pc = "gap" /\ processed' = processed
        /\ UNCHANGED <<enable_threading, session, resetting, queue>>
    BY <1>11 DEF WorkerCheckGap, linkVars, decoderVars
  <2> DEFINE p == worker.packet
  <2>2. p \in AirPacket /\ last[p.packet_type] \in 0..IdxMod - 1
    <3>1. p \in AirPacket
      BY <1>4, <2>1
    <3> QED
      BY <3>1, AirPacketFacts DEF GapType
  <2>3. \/ worker' = [pc |-> "decode", packet |-> p]
        \/ worker' = [pc |-> "update", packet |-> p, prev |-> last[p.packet_type]]
    BY <1>11 DEF WorkerCheckGap
  <2>4. worker' \in WorkerType /\ worker'.packet = p
    BY <2>2, <2>3 DEF WorkerType
  <2> QED
    BY <1>10, <2>1, <2>4
<1>12. CASE WorkerUpdateLast
  <2>1. /\ worker.pc = "update" /\ processed' = processed
        /\ worker' = [pc |-> "decode", packet |-> worker.packet]
        /\ UNCHANGED <<enable_threading, session, resetting, queue>>
    BY <1>12 DEF WorkerUpdateLast, linkVars, decoderVars
  <2>2. worker' \in WorkerType /\ worker'.packet = worker.packet
    BY <1>4, <2>1 DEF WorkerType
  <2> QED
    BY <1>10, <2>1, <2>2
<1>13. CASE WorkerDecode
  <2>1. /\ worker.pc = "decode" /\ worker' = Idle
        /\ processed' = IF worker.packet.session = session THEN Append(processed, worker.packet) ELSE processed
        /\ UNCHANGED <<enable_threading, session, resetting, queue>>
    BY <1>13 DEF WorkerDecode, Decode, linkVars
  <2>2. worker' \in WorkerType /\ worker'.pc = "idle"
    BY <2>1 DEF WorkerType, Idle
  <2> QED
    BY <1>10, <2>1, <2>2
<1>14. CASE UNCHANGED vars
  BY <1>1, <1>2, <1>14 DEF ControlInv, Clean, vars
<1> QED
  BY <1>5, <1>6, <1>7, <1>8, <1>9, <1>11, <1>12, <1>13, <1>14 DEF Next, Worker

LEMMA NextDecoder == ControlInv /\ DecoderInv /\ [Next]_vars => DecoderInv'
<1> SUFFICES ASSUME ControlInv, DecoderInv, [Next]_vars PROVE DecoderInv'
  OBVIOUS
<1>1. /\ enable_threading \in BOOLEAN /\ session \in Nat /\ worker \in WorkerType
      /\ processed \in Seq(AirPacket)
  BY DEF ControlInv
<1>2. /\ KnownType(known) /\ out \in Seq(Nat \X Nat)
      /\ Clean => Remembered(known, out, session)
      /\ Clean => \A i \in 1..Len(processed) : processed[i].number \in Numbers(out)
  BY DEF DecoderInv
<1>3. /\ worker.pc = "idle" <=> worker = Idle
      /\ worker.pc # "idle" => worker.packet \in AirPacket
      /\ Clean /\ worker.pc # "idle" => worker.packet.session = session
  BY <1>1, WorkerCases DEF ControlInv, OfSession
<1>4. ASSUME NEW p \in AirPacket, Decode(p), session' = session, Clean' <=> Clean,
             Clean => p.session = session
      PROVE  DecoderInv'
  <2> DEFINE x == p.number
             s == p.session
             q == IF x \in known THEN out ELSE Append(out, <<s, x>>)
             h == Housekept(known \cup {x})
  <2>1. x \in Nat /\ s \in Nat
    BY AirPacketFacts
  <2>2. known' = h /\ out' = q
    BY <1>4 DEF Decode
  <2>3. processed' = IF s = session THEN Append(processed, p) ELSE processed
    BY <1>4 DEF Decode
  <2>4. KnownType(h)
    BY <1>2, <2>1, HousekeptCases
  <2>5. q \in Seq(Nat \X Nat)
    BY <1>2, <2>1
  <2>6. Clean => Remembered(h, q, session) /\ Numbers(out) \subseteq Numbers(q) /\ x \in Numbers(q)
    BY <1>1, <1>2, <1>4, <2>1, Decoded
  <2> HIDE DEF h, q
  <2>7. ASSUME Clean PROVE \A i \in 1..Len(processed') : processed'[i].number \in Numbers(q)
    <3>1. processed' = Append(processed, p)
      BY <1>4, <2>3, <2>7
    <3>2. /\ Len(processed) \in Nat /\ Len(processed') = Len(processed) + 1
          /\ processed'[Len(processed) + 1] = p
          /\ \A i \in 1..Len(processed) : processed'[i] = processed[i]
      BY <1>1, <3>1
    <3>3. 1..Len(processed') = 1..Len(processed) \cup {Len(processed) + 1}
      BY <3>2
    <3> QED
      BY <1>2, <2>6, <2>7, <3>2, <3>3
  <2> QED
    BY <1>4, <2>2, <2>4, <2>5, <2>6, <2>7 DEF DecoderInv
<1>5. ASSUME UNCHANGED <<known, out, processed, session, enable_threading>> PROVE DecoderInv'
  BY <1>2, <1>5 DEF DecoderInv, Clean
<1>6. ASSUME NEW p \in Packets, EnqueuePacket(p) PROVE DecoderInv'
  BY <1>5, <1>6 DEF EnqueuePacket, Arrive, decoderVars
<1>7. ASSUME NEW p \in Packets, ProcessPacket(p) PROVE DecoderInv'
  <2>1. p \in AirPacket /\ p.session = session
    BY <1>1, PacketsAir
  <2>2. Decode(p) /\ session' = session /\ (Clean' <=> Clean)
    BY <1>7 DEF ProcessPacket, Arrive, Clean
  <2> QED
    BY <1>4, <2>1, <2>2
<1>8. CASE ResetDecoder
  <2>1. known' = {} /\ out' = <<>> /\ processed' = <<>>
    BY <1>8 DEF ResetDecoder, ResetMap
  <2>2. KnownType({})
    <3>1. FEC_DISABLED_MAX_SIZE_OF_MAP \in Nat /\ FEC_DISABLED_MAX_SIZE_OF_MAP > 2
      BY WBStreamRxAssumption
    <3> QED
      BY <3>1, FS_EmptySet DEF KnownType
  <2>3. Remembered({}, <<>>, session')
    BY DEF Remembered, LateOnly, Numbers
  <2> QED
    BY <2>1, <2>2, <2>3 DEF DecoderInv
<1>9. CASE ResetGaps
  BY <1>5, <1>9 DEF ResetGaps, linkVars, decoderVars
<1>10. CASE Dequeue
  BY <1>5, <1>10 DEF Dequeue, linkVars, decoderVars
<1>11. CASE WorkerCheckGap
  BY <1>5, <1>11 DEF WorkerCheckGap, linkVars, decoderVars
<1>12. CASE WorkerUpdateLast
  BY <1>5, <1>12 DEF WorkerUpdateLast, linkVars, decoderVars
<1>13. CASE WorkerDecode
  <2>1. worker.pc = "decode" /\ Decode(worker.packet) /\ session' = session /\ (Clean' <=> Clean)
    BY <1>13 DEF WorkerDecode, linkVars, Clean
  <2> QED
    BY <1>3, <1>4, <2>1
<1>14. CASE UNCHANGED vars
  BY <1>5, <1>14 DEF vars
<1> QED
  BY <1>6, <1>7, <1>8, <1>9, <1>10, <1>11, <1>12, <1>13, <1>14 DEF Next, Worker

\* What a step asks for was not received.
AsksStep == Undisturbed => NotReceived(Checked, asked, asked')

LEMMA NextGaps == ControlInv /\ GapInv /\ [Next]_vars => GapInv' /\ AsksStep
<1> SUFFICES ASSUME ControlInv, GapInv, [Next]_vars PROVE GapInv' /\ AsksStep
  OBVIOUS
<1>1. /\ enable_threading \in BOOLEAN /\ session \in Nat /\ worker \in WorkerType
      /\ processed \in Seq(AirPacket)
      /\ ~enable_threading => worker = Idle
      /\ resetting => session # 0 /\ (~enable_threading => processed = <<>>)
  BY DEF ControlInv
<1>2. /\ GapType
      /\ Undisturbed => SoundGaps(Checked, Ahead, first, last, asked, missing)
      /\ Undisturbed /\ worker.pc = "update" => worker.prev = last[worker.packet.packet_type]
  BY DEF GapInv
<1>3. /\ worker.pc = "idle" <=> worker = Idle
      /\ worker.pc # "idle" => worker.packet \in AirPacket
      /\ Undisturbed /\ worker.pc # "idle" => worker.packet.session = session
  BY <1>1, WorkerCases DEF ControlInv, OfSession, Undisturbed, Clean
<1>4. /\ worker.pc # "decode" => Checked = processed
      /\ worker.pc = "decode" => Checked = Append(processed, worker.packet)
      /\ Checked \in Seq(AirPacket)
      /\ worker.pc = "update" => Ahead = {worker.packet}
      /\ worker.pc # "update" => Ahead = {}
  BY CheckedCases
<1>5. \A c : NotReceived(c, asked, asked)
  BY <1>2, NothingMore DEF GapType
\* The gap detection does not take part.
<1>6. ASSUME UNCHANGED gapVars,
             Undisturbed' => /\ Undisturbed /\ Checked' = Checked /\ Ahead' = Ahead
                             /\ worker'.pc = "update" => worker' = worker
      PROVE  GapInv' /\ AsksStep
  <2>1. first' = first /\ last' = last /\ missing' = missing /\ asked' = asked
    BY <1>6 DEF gapVars
  <2>2. AsksStep
    BY <1>5, <2>1 DEF AsksStep
  <2>3. Undisturbed' => SoundGaps(Checked', Ahead', first', last', asked', missing')
    BY <1>2, <1>6, <2>1
  <2>4. Undisturbed' /\ worker'.pc = "update" => worker'.prev = last'[worker'.packet.packet_type]
    BY <1>2, <1>6, <2>1
  <2>5. GapType'
    BY <1>2, <2>1 DEF GapType
  <2> QED
    BY <2>2, <2>3, <2>4, <2>5 DEF GapInv
<1>7. ASSUME NEW p \in Packets, EnqueuePacket(p) PROVE GapInv' /\ AsksStep
  <2>1. /\ UNCHANGED gapVars /\ worker' = worker /\ processed' = processed
        /\ UNCHANGED <<enable_threading, session, resetting>>
    BY <1>7 DEF EnqueuePacket, Arrive, decoderVars
  <2> QED
    BY <1>6, <2>1 DEF Undisturbed, Checked, Ahead
<1>8. ASSUME NEW p \in Packets, ProcessPacket(p) PROVE GapInv' /\ AsksStep
  <2>1. p \in AirPacket /\ p.session = session
    BY <1>1, PacketsAir
  <2>2. /\ CheckGap(p) /\ worker' = worker /\ ~enable_threading /\ processed' = Append(processed, p)
        /\ UNCHANGED <<enable_threading, session, resetting>>
    BY <1>8, <2>1 DEF ProcessPacket, Arrive, Decode
  <2>3. worker.pc = "idle"
    BY <1>1, <2>2 DEF Idle
  <2>4. Checked = processed /\ Ahead = {}
    BY <1>4, <2>3
  <2>5. Checked' = Append(processed, p) /\ Ahead' = {}
    BY <1>1, <2>1, <2>2, <2>3 DEF Checked, Ahead
  <2>6. /\ GapType'
        /\ SoundGaps(processed, {}, first, last, asked, missing) =>
             /\ SoundGaps(Append(processed, p), {}, first', last', asked', missing')
             /\ NotReceived(processed, asked, asked')
    BY <1>1, <1>2, <2>1, <2>2, CheckGapSound
  <2>7. Undisturbed' <=> Undisturbed
    BY <2>2 DEF Undisturbed
  <2>8. Undisturbed => SoundGaps(processed, {}, first, last, asked, missing)
    BY <1>2, <2>4
  <2>9. AsksStep
    BY <2>4, <2>6, <2>8 DEF AsksStep
  <2>10. Undisturbed' => SoundGaps(Checked', Ahead', first', last', asked', missing')
    BY <2>5, <2>6, <2>7, <2>8
  <2>11. worker'.pc # "update"
    BY <2>2, <2>3
  <2> QED
    BY <2>6, <2>9, <2>10, <2>11 DEF GapInv
<1>9. CASE ResetDecoder
  <2>1. UNCHANGED gapVars /\ ~Undisturbed'
    BY <1>9 DEF ResetDecoder, Undisturbed
  <2> QED
    BY <1>6, <2>1
<1>10. CASE ResetGaps
  <2>1. /\ first' = [t \in PacketType |-> FALSE] /\ last' = [t \in PacketType |-> 0]
        /\ missing' = 0 /\ asked' = NothingAsked /\ worker' = worker /\ processed' = processed
        /\ UNCHANGED <<enable_threading, session>> /\ resetting
    BY <1>10 DEF ResetGaps, linkVars, decoderVars
  <2>2. AsksStep
    BY <2>1 DEF AsksStep, Undisturbed
  <2>3. GapType' /\ SoundGaps(<<>>, {}, first', last', asked', missing')
    BY <2>1, NothingSound DEF GapType
  <2>4. ASSUME Undisturbed' PROVE Checked' = <<>> /\ Ahead' = {} /\ worker'.pc # "update"
    <3>1. ~enable_threading
      BY <1>1, <2>1, <2>4 DEF Undisturbed
    <3>2. worker' = Idle /\ processed' = <<>>
      BY <1>1, <2>1, <3>1
    <3> QED
      BY <3>2 DEF Checked, Ahead, Idle
  <2> QED
    BY <2>2, <2>3, <2>4 DEF GapInv
<1>11. CASE Dequeue
  <2>1. /\ UNCHANGED gapVars /\ worker.pc = "idle" /\ worker'.pc = "gap" /\ processed' = processed
        /\ UNCHANGED <<enable_threading, session, resetting>>
    BY <1>11 DEF Dequeue, linkVars, decoderVars
  <2>2. Undisturbed' <=> Undisturbed
    BY <2>1 DEF Undisturbed
  <2>3. Checked' = Checked /\ Ahead' = Ahead
    BY <2>1 DEF Checked, Ahead
  <2> QED
    BY <1>6, <2>1, <2>2, <2>3
<1>12. CASE WorkerCheckGap
  <2> DEFINE p == worker.packet
             u == p.packet_type
  <2>1. /\ worker.pc = "gap" /\ processed' = processed
        /\ UNCHANGED <<enable_threading, session, resetting>>
    BY <1>12 DEF WorkerCheckGap, linkVars, decoderVars
  <2>2. p \in AirPacket /\ Checked = processed /\ Ahead = {}
    BY <1>3, <1>4, <2>1
  <2>3. Undisturbed' <=> Undisturbed
    BY <2>1 DEF Undisturbed
  <2>4. Undisturbed => SoundGaps(processed, {}, first, last, asked, missing)
    BY <1>2, <2>2
  <2>5. CASE enable_retransmission /\ first[u]
    <3>1. /\ GapRequests(p, last[u]) /\ first' = first /\ last' = last
          /\ worker' = [pc |-> "update", packet |-> p, prev |-> last[u]]
      BY <1>12, <2>5 DEF WorkerCheckGap
    <3>2. /\ missing' \in Nat /\ asked' \in [PacketType -> [Index -> Nat]]
          /\ SoundGaps(processed, {}, first, last, asked, missing) =>
               /\ SoundGaps(processed, {p}, first, last, asked', missing')
               /\ NotReceived(processed, asked, asked')
      BY <1>1, <1>2, <2>2, <2>5, <3>1, RequestsSound
    <3>3. Checked' = processed /\ Ahead' = {p}
      <4>1. worker'.pc = "update" /\ worker'.packet = p
        BY <3>1
      <4>2. Checked' = processed' \o <<>>
        BY <4>1 DEF Checked
      <4> QED
        BY <1>1, <2>1, <4>1, <4>2 DEF Ahead
    <3>4. GapType'
      BY <1>2, <3>1, <3>2 DEF GapType
    <3>5. Undisturbed' => SoundGaps(Checked', Ahead', first', last', asked', missing')
      BY <2>3, <2>4, <3>1, <3>2, <3>3
    <3>6. worker'.prev = last'[worker'.packet.packet_type]
      BY <3>1
    <3>7. AsksStep
      BY <2>2, <2>4, <3>2 DEF AsksStep
    <3> QED
      BY <3>4, <3>5, <3>6, <3>7 DEF GapInv
  <2>6. CASE ~(enable_retransmission /\ first[u])
    <3>1. CheckGap(p) /\ worker' = [pc |-> "decode", packet |-> p]
      BY <1>12, <2>6 DEF WorkerCheckGap
    <3>2. /\ GapType'
          /\ SoundGaps(processed, {}, first, last, asked, missing) =>
               /\ SoundGaps(Append(processed, p), {}, first', last', asked', missing')
               /\ NotReceived(processed, asked, asked')
      BY <1>1, <1>2, <2>2, <3>1, CheckGapSound
    <3>3. Checked' = Append(processed, p) /\ Ahead' = {} /\ worker'.pc # "update"
      <4>1. worker'.pc = "decode" /\ worker'.packet = p
        BY <3>1
      <4>2. Checked' = processed' \o <<p>>
        BY <4>1 DEF Checked
      <4> QED
        BY <1>1, <2>1, <2>2, <4>1, <4>2 DEF Ahead
    <3>4. Undisturbed' => SoundGaps(Checked', Ahead', first', last', asked', missing')
      BY <2>3, <2>4, <3>2, <3>3
    <3>5. AsksStep
      BY <2>2, <2>4, <3>2 DEF AsksStep
    <3> QED
      BY <3>2, <3>3, <3>4, <3>5 DEF GapInv
  <2> QED
    BY <2>5, <2>6
<1>13. CASE WorkerUpdateLast
  <2> DEFINE p == worker.packet
  <2>1. /\ worker.pc = "update" /\ processed' = processed /\ UpdateLast(p, worker.prev)
        /\ worker' = [pc |-> "decode", packet |-> p]
        /\ first' = first /\ missing' = missing /\ asked' = asked
        /\ UNCHANGED <<enable_threading, session, resetting>>
    BY <1>13 DEF WorkerUpdateLast, linkVars, decoderVars
  <2>2. p \in AirPacket /\ Checked = processed /\ Ahead = {p}
    BY <1>3, <1>4, <2>1
  <2>3. Undisturbed' <=> Undisturbed
    BY <2>1 DEF Undisturbed
  <2>4. last' \in [PacketType -> 0..IdxMod - 1]
    BY <1>2, <2>1, <2>2, UpdateType
  <2>5. GapType'
    BY <1>2, <2>1, <2>4 DEF GapType
  <2>6. AsksStep
    BY <1>5, <2>1 DEF AsksStep
  <2>7. Checked' = Append(processed, p) /\ Ahead' = {} /\ worker'.pc # "update"
    <3>1. worker'.pc = "decode" /\ worker'.packet = p
      BY <2>1
    <3>2. Checked' = processed' \o <<p>>
      BY <3>1 DEF Checked
    <3> QED
      BY <1>1, <2>1, <2>2, <3>1, <3>2 DEF Ahead
  <2>8. ASSUME Undisturbed
        PROVE  SoundGaps(Append(processed, p), {}, first, last', asked, missing)
    <3>1. SoundGaps(processed, {p}, first, last, asked, missing)
      BY <1>2, <2>2, <2>8
    <3>2. enable_retransmission
      BY <3>1, WBStreamRxAssumption DEF SoundGaps
    <3>3. UpdateLast(p, last[p.packet_type])
      BY <1>2, <2>1, <2>8
    <3>4. asked \in [PacketType -> [Index -> Nat]]
      BY <1>2 DEF GapType
    <3> QED
      BY <1>1, <1>2, <2>2, <3>1, <3>2, <3>3, <3>4, UpdateSound
  <2>9. Undisturbed' => SoundGaps(Checked', Ahead', first', last', asked', missing')
    BY <2>1, <2>3, <2>7, <2>8
  <2> QED
    BY <2>5, <2>6, <2>7, <2>9 DEF GapInv
<1>14. CASE WorkerDecode
  <2>1. /\ worker.pc = "decode" /\ worker' = Idle /\ UNCHANGED gapVars
        /\ processed' = IF worker.packet.session = session THEN Append(processed, worker.packet) ELSE processed
        /\ UNCHANGED <<enable_threading, session, resetting>>
    BY <1>14 DEF WorkerDecode, Decode, linkVars
  <2>2. Undisturbed' <=> Undisturbed
    BY <2>1 DEF Undisturbed
  <2>3. worker'.pc = "idle"
    BY <2>1 DEF Idle
  <2>4. ASSUME Undisturbed PROVE Checked' = Checked /\ Ahead' = Ahead
    <3>1. processed' = Append(processed, worker.packet)
      BY <1>3, <2>1, <2>4
    <3>2. Checked' = processed' \o <<>>
      BY <2>3 DEF Checked
    <3>3. worker.packet \in AirPacket
      BY <1>3, <2>1
    <3>4. processed' \o <<>> = processed'
      BY <1>1, <3>1, <3>3
    <3> QED
      BY <1>4, <2>1, <2>3, <3>1, <3>2, <3>4 DEF Ahead
  <2> QED
    BY <1>6, <2>1, <2>2, <2>3, <2>4
<1>15. CASE UNCHANGED vars
  BY <1>6, <1>15 DEF vars, gapVars, Undisturbed, Checked, Ahead
<1> QED
  BY <1>7, <1>8, <1>9, <1>10, <1>11, <1>12, <1>13, <1>14, <1>15 DEF Next, Worker

LEMMA InitInv == Init => IInv
<1> SUFFICES ASSUME Init PROVE IInv
  OBVIOUS
<1>1. /\ enable_threading \in BOOLEAN /\ session = 0 /\ queue = <<>> /\ known = {}
      /\ missing = 0 /\ asked = NothingAsked /\ worker = Idle /\ resetting = FALSE
      /\ processed = <<>> /\ out = <<>>
      /\ first = [t \in PacketType |-> FALSE] /\ last = [t \in PacketType |-> 0]
  BY WBStreamRxAssumption DEF Init
<1>2. packet_queue_size \in Nat /\ FEC_DISABLED_MAX_SIZE_OF_MAP \in Nat /\ FEC_DISABLED_MAX_SIZE_OF_MAP > 2
  BY WBStreamRxAssumption
<1>3. worker.pc = "idle" /\ worker \in WorkerType
  BY <1>1 DEF Idle, WorkerType
<1>4. queue \in Seq(AirPacket) /\ processed \in Seq(AirPacket) /\ out \in Seq(Nat \X Nat) /\ Len(queue) = 0
  BY <1>1
<1>5. ControlInv
  <2>1. \A i \in 1..Len(queue) : OfSession(queue[i])
    BY <1>4
  <2>2. session \in Nat /\ resetting \in BOOLEAN /\ ~resetting
    BY <1>1
  <2>3. Len(queue) <= packet_queue_size
    BY <1>2, <1>4
  <2>4. queue = <<>> /\ worker = Idle
    BY <1>1
  <2> QED
    BY <1>1, <1>3, <1>4, <2>1, <2>2, <2>3, <2>4 DEF ControlInv
<1>6. DecoderInv
  <2>1. KnownType(known)
    BY <1>1, <1>2, FS_EmptySet DEF KnownType
  <2>2. Remembered(known, out, session)
    BY <1>1 DEF Remembered, LateOnly, Numbers
  <2> QED
    BY <1>1, <1>4, <2>1, <2>2 DEF DecoderInv
<1>7. GapInv
  <2>1. Checked = <<>> /\ Ahead = {}
    BY <1>1, <1>3 DEF Checked, Ahead
  <2> QED
    BY <1>1, <1>3, <2>1, NothingSound DEF GapInv, GapType
<1> QED
  BY <1>5, <1>6, <1>7 DEF IInv

LEMMA NextInv == IInv /\ [Next]_vars => IInv'
BY NextControl, NextDecoder, NextGaps DEF IInv, GapInv

-----------------------------------------------------------------------------
(* What the stream promises *)

LEMMA TypesKept == IInv => TypeOK
<1> SUFFICES ASSUME IInv PROVE TypeOK
  OBVIOUS
<1>1. ControlInv /\ DecoderInv /\ GapType
  BY DEF IInv, GapInv
<1>2. worker.pc \in {"idle", "gap", "update", "decode"}
  BY <1>1, WorkerCases DEF ControlInv
<1> QED
  BY <1>1, <1>2 DEF TypeOK, ControlInv, DecoderInv, KnownType, GapType

\* The queue of on_new_packet and the map of the decoder stay below their sizes,
\* and the gap detection in the range of its counters.
THEOREM TypeCorrect == Spec => []TypeOK
BY InitInv, NextInv, TypesKept, PTL DEF Spec

LEMMA AskedOnceHolds == IInv => AskedOnce
<1> SUFFICES ASSUME IInv, Undisturbed
             PROVE  /\ \A t \in PacketType : \A i \in Index : asked[t][i] \in {0, Retries}
                    /\ missing = Cardinality(AskedPairs(asked))
  BY DEF AskedOnce, Retries, AskedPairs
<1>1. Counted(missing, asked)
  BY DEF IInv, GapInv, SoundGaps
<1> QED
  BY <1>1 DEF Counted

\* check_gap_and_request (WBStreamRx.cpp:238-280): in a session nothing disturbs,
\* each missing packet is asked for with all its retries or not at all, and
\* m_n_missing_packets is the number of those asked for.
THEOREM AskedOnceAlways == Spec => []AskedOnce
BY InitInv, NextInv, AskedOnceHolds, PTL DEF Spec

LEMMA GapsCoveredHolds == IInv => GapsCovered
<1> SUFFICES ASSUME IInv, Undisturbed, enable_retransmission,
                    NEW t \in PacketType \cap RetransmissionType, NEW i \in Index,
                    Indices(Checked, t) # {}, FirstIndex(Checked, t) < i, i < Max(Indices(Checked, t))
             PROVE  CoveredAt(Checked, t, asked[t], i)
  BY DEF GapsCovered, CoveredAt, AskedBetween
<1> DEFINE c == Checked
           S == Indices(c, t)
<1>1. ControlInv /\ SoundGaps(c, Ahead, first, last, asked, missing)
  BY DEF IInv, GapInv
<1>2. GapOK(c, Ahead, t, first[t], last[t], asked[t])
  BY <1>1 DEF SoundGaps, GapState
<1>3. c \in Seq(AirPacket)
  BY <1>1, CheckedCases
<1>4. OfType(c, t) # {} /\ S \subseteq Nat
  BY <1>3, IndicesFacts
<1>5. PICK m \in S : \A x \in S : x <= m
  BY <1>2, <1>4 DEF GapOK, Newest
<1>6. \E x \in S : \A y \in S : x >= y
  BY <1>4, <1>5
<1>7. Max(S) \in S
  BY <1>6 DEF Max
<1>8. Max(S) \in Seen(c, Ahead, t)
  BY <1>7 DEF Seen
<1> QED
  BY <1>2, <1>8 DEF GapOK, CoveredBelow

\* check_gap_and_request: nothing between the first and the newest packet of a type
\* with retransmissions is forgotten: it was received, or asked for, or comes
\* after a full burst of requests (WBStreamRx.cpp:255).
THEOREM GapsCoveredAlways == Spec => []GapsCovered
BY InitInv, NextInv, GapsCoveredHolds, PTL DEF Spec

LEMMA Forwards == IInv => ReceivedForwarded
<1> SUFFICES ASSUME IInv, Undisturbed, NEW p \in ToSet(processed)
             PROVE  <<session, p.number>> \in ToSet(out)
  BY DEF ReceivedForwarded
<1>1. /\ processed \in Seq(AirPacket) /\ out \in Seq(Nat \X Nat) /\ Clean
  BY DEF IInv, ControlInv, DecoderInv, Undisturbed, Clean
<1>2. /\ \A i \in 1..Len(out) : out[i][1] = session
      /\ \A i \in 1..Len(processed) : processed[i].number \in Numbers(out)
  BY <1>1 DEF IInv, DecoderInv, Remembered
<1>3. p.number \in Numbers(out)
  BY <1>1, <1>2, SequenceSet
<1>4. PICK i \in 1..Len(out) : out[i][2] = p.number
  BY <1>3 DEF Numbers
<1>5. out[i] \in Nat \X Nat /\ out[i][1] = session
  BY <1>1, <1>2
<1>6. out[i] = <<session, p.number>>
  BY <1>4, <1>5
<1> QED
  BY <1>1, <1>6, SequenceSet

\* FECDisabledDecoder (SimpleStream.hpp:24): every packet received in a session that
\* nothing disturbs is forwarded.
THEOREM ReceivedForwardedAlways == Spec => []ReceivedForwarded
BY InitInv, NextInv, Forwards, PTL DEF Spec

LEMMA OnlyLate == IInv => DuplicatesOnlyWhenLate
<1> SUFFICES ASSUME IInv, Undisturbed PROVE LateOnly(out)
  BY DEF DuplicatesOnlyWhenLate, LateOnly
<1>1. Clean
  BY DEF Undisturbed, Clean
<1> QED
  BY <1>1 DEF IInv, DecoderInv, Remembered

\* FECDisabledDecoder (SimpleStream.hpp:80-120): a number comes out twice only after
\* as many higher ones as the map keeps.
THEOREM DuplicatesOnlyWhenLateAlways == Spec => []DuplicatesOnlyWhenLate
BY InitInv, NextInv, OnlyLate, PTL DEF Spec

LEMMA StepAsks ==
  IInv /\ [Next]_vars =>
    [Undisturbed => \A t \in PacketType : \A i \in Index :
       asked'[t][i] > asked[t][i] => i \notin Indices(Checked, t)]_vars
BY NextGaps DEF IInv, AsksStep, NotReceived

\* check_gap_and_request: no step asks for a packet whose gap check is done.
THEOREM AsksForMissingAlways == Spec => AsksForMissing
BY InitInv, NextInv, StepAsks, PTL DEF Spec, AsksForMissing
=============================================================================
